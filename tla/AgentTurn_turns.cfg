\* Two turns, one of them streamed, with every failure.
CONSTANTS
  t1 = t1  t2 = t2  a = a  b = b
  Turns = {t1, t2}
  Streams = {t2}
  Lookups = {t1}
  Tools = {a, b}
  LookupTools = {b}
  Plans <- McPlans
  MaxIterations = 3
  MaxToolCalls = 5
  HistorySize = 3
  Repeat = 2
  Diagnostic = 2
  Impatient = FALSE
SPECIFICATION FairSpec
INVARIANTS HistoryComplete RowsContiguous LoopCaught StopObeyed
PROPERTY EveryTurnEnds
CHECK_DEADLOCK FALSE
