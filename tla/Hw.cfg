\* What counts as a hardware error.
CONSTANTS
  CHIP_NUMBER = 1
  MM_BUF_NUM = 2
  RING_SIZE = 2
  NONCE2_SIZE = 1
  RESET_LIMIT = 1
  Jobs = {1, 2}
  NoJob = 0
  LastJob = 2
  CoinbasePkts = 1
  MerklesPkts = 0
  HeaderPkts = 0
  Pwms = {1200}
  Freqs = {90, 300}
  Nonce2Offsets = {0}
  Nonce2Ranges = {0}
  Readiness = {"nonce", "bad", "nomask"}
  MaxSets = 2
  MaxFinds = 1
  MaxReads = 1
  MaxRestarts = 0
  MaxLost = 0
SPECIFICATION MiningSpec
PROPERTY HwOnlyInvalid
