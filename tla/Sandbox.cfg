SPECIFICATION MCSpec
CONSTANTS
  c1 = c1
  c2 = c2
  s1 = s1
  s2 = s2
  t1 = t1
  t2 = t2
  Screen = Screen
  Poller = Poller
  Control = Control
  Deleter = Deleter
  Turn = Turn
  Nil = Nil
  Calls = {c1, c2}
  Kinds <- CallKinds
  Sandboxes = {s1, s2}
  Jobs = {j1}
  Timers = {t1, t2}
  MaxTurns = 2
  MaxCalls = 2
  MaxScreens = 1
  MaxDeletes = 1
  MaxLosses = 1
  MaxFailures = 1
  MaxCrashes = 1
INVARIANTS UseIsCounted UsersStayAwake OneSandbox AnnouncedOnce
CHECK_DEADLOCK FALSE
SYMMETRY MCSymmetry
