CONSTANTS
  Invalid = Invalid
  Absent = Absent
  NoClass = NoClass
  Buckets = 4
  NumNodes = 3
  Timers = {ta, tb, tc}
  MaxTtl = 3
  Capacity = 7
  Weights = {0, 1, 2}
  Classes = {tiny, big}
SPECIFICATION Spec
INVARIANTS WheelTypeOK NodesConserved QueueTypeOK PinnedIsMapped MappingsAccounted
PROPERTIES ImplementsTimerSet ImplementsPriorityBag
CHECK_DEADLOCK FALSE
