CONSTANTS
  MsgLen = 3
  MaxMsgs = 2
  MaxPartials = 2
  MaxReuses = 0
  FlushFirst = TRUE
  MayStop = FALSE
SPECIFICATION FairSpec
INVARIANTS StreamIsPrefix
CHECK_DEADLOCK FALSE
