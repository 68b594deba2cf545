SPECIFICATION ConsentSpec
CONSTANTS
  People = {pa, pb}
  Asks = {m1}
  Starters = {m1}
  Clicks = {b1}
  NoOne = NoOne
  DictResponses = FALSE
  MaxMoves = 1
  MaxOptOuts = 0
  MaxDeaths = 0
INVARIANTS MembersAreFound
CHECK_DEADLOCK FALSE
