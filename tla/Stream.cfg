SPECIFICATION WebSpec
CONSTANTS
  WebMessages = {wm1}
  WebWorkers = {ww1, ww2}
  Streams = {tab}
  WebWaker = WebWaker
  Repairer = Repairer
  MaxWebEvents = 2
INVARIANTS StreamHasNoGap
CHECK_DEADLOCK FALSE
