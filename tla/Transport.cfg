CONSTANTS
  Focus = {"tcp", "txqueue"}
  MaxSeg = 1
  Wnd = 3
  TxSize = 2
  InitWnd = 2
  RexmtThresh = 1
  MaxRxtShift = 1
  NoDelay = FALSE
  NoDelayCounter = 0
  MaxA = 3
  MaxB = 0
  MaxBytes <- MCMaxBytes
  Writes = {3}
  Scenarios <- MCScenarios
  BlockSize = 2
  QSizes = {1, 3, 4}
  Values = 5
SPECIFICATION MCSpec
CHECK_DEADLOCK FALSE
INVARIANTS
    TcpStreamSound
    TcpRexmtArmed
    TcpEndSound
PROPERTIES
    TxqFifo
