SPECIFICATION Spec
CONSTANTS
  Kinds = {"rk11", "rl11", "rhrp"}
  Unit = {"u0", "u1"}
  NCyl = 2
  NHead = 1
  NSect = 2
  BlkWords = 2
  MemWords = 5
  ChunkSize = 2
  Reqs <- AllReqs
  MaxGo = 2
  MaxDisturb = 1
INVARIANTS DiskInv CompletionExact DiskAsReported
PROPERTIES GoAnswered
CHECK_DEADLOCK FALSE
