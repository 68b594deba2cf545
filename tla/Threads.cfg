SPECIFICATION MCSpec
CONSTANTS
  m1 = m1
  m2 = m2
  m3 = m3
  ann = ann
  bob = bob
  Messages <- MCMessages
  Users <- MCUsers
  Sender <- MCSender
  Early <- MCOne
  Resumer = Resumer
  None = None
  Web = FALSE
  DiskFails = TRUE
  RunsGoStale = TRUE
  MaxTurns = 2
  MaxDepth = 1
  MaxRounds = 1
  MaxTries = 1
  MaxCrashes = 2
  MaxStops = 1
  MaxBans = 1
INVARIANTS OnePlaceEach OneSenderPerTurn MarkIsOwned NothingVanishes CrashResumesTurn StopHitsLiveTurns
PROPERTIES ImplementsInbox HistoryGrows
CONSTRAINT WithinPlans
ACTION_CONSTRAINT MarksGoStale
CHECK_DEADLOCK FALSE
