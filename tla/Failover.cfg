SPECIFICATION Spec
CONSTANTS
  m1 = m1
  m2 = m2
  m3 = m3
  ann = ann
  bob = bob
  Messages <- MCTwo
  Users <- MCUsers
  Sender <- MCTwoSender
  Early = {}
  Resumer = Resumer
  None = None
  Web = FALSE
  DiskFails = FALSE
  RunsGoStale = FALSE
  MaxTurns = 1
  MaxDepth = 1
  MaxRounds = 1
  MaxTries = 2
  MaxCrashes = 0
  MaxStops = 0
  MaxBans = 0
PROPERTIES FoldedIsKept
CHECK_DEADLOCK FALSE
