SPECIFICATION Spec
CONSTANTS
  m1 = m1
  m2 = m2
  m3 = m3
  ann = ann
  bob = bob
  Messages <- MCTwo
  Users <- MCUsers
  Sender <- MCTwoSender
  Early <- MCOne
  Resumer = Resumer
  None = None
  Web = FALSE
  DiskFails = FALSE
  RunsGoStale = FALSE
  MaxTurns = 2
  MaxDepth = 1
  MaxRounds = 1
  MaxTries = 1
  MaxCrashes = 1
  MaxStops = 0
  MaxBans = 0
INVARIANTS OnlyOrphansResume
CHECK_DEADLOCK FALSE
