\* The way of a work and the factory test: two chips, two tests, small bytes.
CONSTANTS
  CHIP_NUMBER = 2
  TASK_REGS = 2
  NONCE_SLOTS = 2
  NONCE_BYTES = 2
  BYTE = 16
  NoByte = NoByte
  NoNonce = NoNonce
  MaxShown = 2
  MaxFaults = 1
  Tests = {28, 48}
  HALF_REGS = 1
  SINGLE_CHIPS = 1
  Errors = {4}
  Noise = {52}
  Unset = {24}
  MaxTests = 2
  CoinbaseLens = {55, 56}
  HRTO_P_COINBASE_SIZE = 64
  MaxMerkles = 1
  Work = 1000
SPECIFICATION Spec
INVARIANTS TypeOK DigestRight
PROPERTIES PortsAtomic VerdictRight GoodChipPasses WaitsEnd
CHECK_DEADLOCK FALSE
