SPECIFICATION Spec
CONSTANTS
  Lists <- AllCodes
  MaxExec = 2
  MaxNoti = 2
  MaxFault = 1
  NSeq = 4
INVARIANTS ConnectInv GoodSucceeds NotifyKept
PROPERTIES ExecService
CHECK_DEADLOCK FALSE
