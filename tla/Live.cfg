\* Liveness: two chips, one job.
CONSTANTS
  CHIP_NUMBER = 2
  MM_BUF_NUM = 2
  RING_SIZE = 3
  NONCE2_SIZE = 1
  RESET_LIMIT = 2
  Jobs = {1}
  NoJob = 0
  LastJob = 1
  CoinbasePkts = 0
  MerklesPkts = 0
  HeaderPkts = 0
  Pwms = {500}
  Freqs = {280}
  Nonce2Offsets = {0}
  Nonce2Ranges = {0}
  Readiness = {"nonce", "bad"}
  MaxSets = 1
  MaxFinds = 2
  MaxReads = 1
  MaxRestarts = 0
  MaxLost = 0
SPECIFICATION MiningFair
PROPERTIES IdleStops ReadyServed ChipsBusy ResultsLeave
