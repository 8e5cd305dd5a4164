\* A result polled after its slot was given to another job.
CONSTANTS
  CHIP_NUMBER = 1
  MM_BUF_NUM = 3
  RING_SIZE = 2
  NONCE2_SIZE = 2
  RESET_LIMIT = 2
  Jobs = {1, 2, 3, 4}
  NoJob = 0
  LastJob = 4
  CoinbasePkts = 2
  MerklesPkts = 0
  HeaderPkts = 0
  Pwms = {500}
  Freqs = {280}
  Nonce2Offsets = {0}
  Nonce2Ranges = {1}
  Readiness = {"nonce", "bad", "nomask"}
  MaxSets = 4
  MaxFinds = 1
  MaxReads = 1
  MaxRestarts = 0
  MaxLost = 0
SPECIFICATION MiningSpec
INVARIANT NonceOfItsJob
