SPECIFICATION HuddleSpec
CONSTANTS
  JoinAsks = {ja1, ja2}
  JoinClicks = {jc1}
  Nobody = Nobody
  MaxHuddles = 2
  MaxHuddleEvents = 2
INVARIANTS LeftIsOut
CHECK_DEADLOCK FALSE
