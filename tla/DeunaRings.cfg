SPECIFICATION Spec
CONSTANTS
  RingSize = 2
  RxQueLimit = 2
  Delua = TRUE
  Cmds <- MCCmds
  MaxCmd = 3
  MaxPdmd = 2
  MaxTx = 2
  MaxRx = 3
  MaxReset = 2
  MaxAll = 7
INVARIANTS PortInv TxExact RxExact TxNotStranded
CHECK_DEADLOCK FALSE
