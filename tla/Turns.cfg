SPECIFICATION Spec
CONSTANTS
  m1 = m1
  m2 = m2
  m3 = m3
  ann = ann
  bob = bob
  Messages <- MCTwo
  Users <- MCUsers
  Sender <- MCTwoSender
  Early = {}
  Resumer = Resumer
  None = None
  Web = TRUE
  DiskFails = FALSE
  RunsGoStale = FALSE
  MaxTurns = 2
  MaxDepth = 1
  MaxRounds = 1
  MaxTries = 2
  MaxCrashes = 1
  MaxStops = 0
  MaxBans = 0
PROPERTIES SteeredIsTaken StartedIsSettled
CHECK_DEADLOCK FALSE
