SPECIFICATION Spec
CONSTANTS
  MetaSize = 2
  RlenMod = 8
  BcMod = 8
  MemBytes = 6
  Reqs <- MCReqs
  Tapes <- MCTapes
  MaxGo = 3
  MaxDisturb = 1
  MaxFar = 2
INVARIANTS TapeInv FunctionExact
PROPERTIES TapeService
CHECK_DEADLOCK FALSE
