\* The receiver of packages: three packages, a ring that takes less than one of them.
CONSTANTS
  UART_RINGBUFFER_SIZE_RX = 7
  UART1_RINGBUFFER_SIZE_RX = 1
  RX_DEPTH = 4
  TX_DEPTH = 1
  NoByte = NoByte
  HRTO_P_COUNT = 7
  Pkgs = 3
  Answered = {1}
  Tricky = {1}
  Quiet = {2, 3}
  ReplyLen = 2
  MaxLost = 1
  Lossy = {1}
SPECIFICATION FairSpec
INVARIANTS TypeOK FifoSuffices InStepAgain DecodedAsSent
PROPERTIES BytesInOrder Listens
CHECK_DEADLOCK FALSE
