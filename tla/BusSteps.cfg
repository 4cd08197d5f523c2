SPECIFICATION FairSpec
CONSTANTS
  FifoSize = 32
  High = 28
  Low = 2
  BtoInit = 3
  MaxCnt = 18
INVARIANTS BusInv NoPulseMissed DataInOrder
PROPERTIES TransferEnds
