SPECIFICATION MCSpec
CONSTANTS
  c1 = c1
  c2 = c2
  s1 = s1
  s2 = s2
  t1 = t1
  t2 = t2
  Screen = Screen
  Poller = Poller
  Control = Control
  Deleter = Deleter
  Turn = Turn
  Nil = Nil
  Calls = {c1, c2}
  Kinds <- MCNoHandover
  Sandboxes = {s1, s2}
  Jobs = {j1}
  Timers = {t1, t2}
  MaxTurns = 1
  MaxCalls = 2
  MaxScreens = 0
  MaxDeletes = 0
  MaxLosses = 0
  MaxFailures = 0
  MaxCrashes = 0
INVARIANTS CallsStayAwake
CHECK_DEADLOCK FALSE
SYMMETRY MCSymmetry
