SPECIFICATION MCSpec
CONSTANTS
  RxFifoSize = 2
  Budget = 2
  MaxTransfers = 2
  TxFifoSize = 3
  RA_NET_TX_FIFO_MIN_SPACE_AVAILABLE = 2
  MaxBacklog = 2
INVARIANTS
  DeliveredIntact
  OneReader
  StoppedIsQuiet
  TxIInv
  StoppedIsWatched
PROPERTIES
  FifoMoves
  OnlyConfigStrands
  BacklogMoves
