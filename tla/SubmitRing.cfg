CONSTANTS
  t1 = t1
  t2 = t2
  t3 = t3
  None = None
  Tasks = {t1, t2, t3}
  AsyncTasks = {t1}
  SQEntries = 1
  ChanBuffer = 1
  MayStop = TRUE
SPECIFICATION FairSpec
INVARIANTS TypeOK DispatchExclusive QueueNeverOverflows FinishedNeverAhead LoopCountPositive
PROPERTIES ExitOnlyWhenDrained ImplementsSubmitQueue 
CHECK_DEADLOCK FALSE
