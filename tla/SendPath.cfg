CONSTANTS
  MsgLen = 3
  MaxMsgs = 3
  MaxPartials = 1
  MaxReuses = 1
  FlushFirst = TRUE
  MayStop = TRUE
SPECIFICATION FairSpec
INVARIANTS TypeOK StreamIsPrefix OneAtATime
PROPERTIES FlushDelivers ErrorIsOwn CallReturns
CHECK_DEADLOCK FALSE
