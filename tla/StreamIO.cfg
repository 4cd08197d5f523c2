SPECIFICATION Spec
CONSTANTS
  Fsize = 2
  MinRblk = 1
  Qlims <- MCQlims
  TapeLens <- MCTapes
  MaxOut = 3
  MaxDisturb = 2
INVARIANTS StreamInv StreamExact NotStranded
CHECK_DEADLOCK FALSE
