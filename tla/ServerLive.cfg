SPECIFICATION FairSpec
CONSTANTS
  a = a
  b = b
  d1 = d1
  d2 = d2
  m = m
  x = x
  y = y
  Lam = {a}
  Dev = {d1, d2}
  Client = {m}
  Main = m
  Actn = {x, y}
  Mask <- Shared
  InitDsc <- JustD1
  Ops = {"resume", "stop", "queue", "addattn", "attn"}
  MaxOps = 3
PROPERTIES AttnServed ActnServed StopReturns
