SPECIFICATION Spec
CONSTANTS
  RtTop = 9
  MaxCnt = 2
  MaxIn = 14
INVARIANTS CoreInv RetransmitInOrder WblkDataInOrder
CHECK_DEADLOCK FALSE
