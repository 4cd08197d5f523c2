SPECIFICATION Spec
CONSTANTS
  NLine = 2
  Fsize = 2
  MinRblk = 1
  Qlims <- MCQlims
  MaxTx <- MCMaxTx
  MaxRx <- MCMaxRx
  MaxCtl = 2
  MaxBreset = 1
INVARIANTS TermInv TxExact RxExact NotStranded
CHECK_DEADLOCK FALSE
