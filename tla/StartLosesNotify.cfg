SPECIFICATION Spec
CONSTANTS
  a = a
  b = b
  d1 = d1
  d2 = d2
  m = m
  x = x
  y = y
  Lam = {a, b}
  Dev = {d1, d2}
  Client = {m}
  Main = m
  Actn = {}
  Mask <- OneToOne
  InitDsc <- Both
  Ops = {"start"}
  MaxOps = 1
INVARIANTS AttnAnnounced
