CONSTANTS
  Requests = 5
  Room = 3
SPECIFICATION FairSpec
INVARIANTS ResponsesKnown Verdict
PROPERTIES EverythingStops
CHECK_DEADLOCK FALSE
