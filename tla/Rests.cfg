SPECIFICATION RestsSpec
CONSTANTS
  Screen = Screen
  Poller = Poller
  Control = Control
  Deleter = Deleter
  Turn = Turn
  Nil = Nil
  Calls = {c1}
  Kinds <- CallKinds
  Sandboxes = {s1}
  Jobs = {j1}
  Timers = {t1}
  MaxTurns = 2
  MaxCalls = 2
  MaxScreens = 0
  MaxDeletes = 0
  MaxLosses = 0
  MaxFailures = 0
  MaxCrashes = 0
  Reminders = {r1}
  MaxLostAnswers = 1
  MaxSaveFaults = 2
  MaxBoots = 1
  WaitIds = {w1}
  FiringThreads = {f1}
  Enders = {e1}
  MaxEnds = 2
  MaxOutages = 1
  MaxWaitFaults = 1
PROPERTIES SandboxRests JobsFinish RemindersSettle WaitsWake
CHECK_DEADLOCK FALSE
