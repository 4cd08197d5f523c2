SPECIFICATION FairSpec
CONSTANTS
  f = f
  g = g
  h1 = h1
  h2 = h2
  h3 = h3
  c1 = c1
  c2 = c2
  Fd = {f, g}
  Wake = wake
  Hdl = {h1, h2, h3}
  WakeHdl = wakehdl
  Client = {c1}
  MaxReady = 2
INVARIANTS PollInv NoStaleSleep
PROPERTIES ReadyServed
CHECK_DEADLOCK FALSE
