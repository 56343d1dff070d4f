CONSTANTS
  i1 = i1  i2 = i2  t1 = t1  t2 = t2  x1 = x1
  Instance = {i1, i2}
  Task = {t1, t2}
  Host <- Hosts
  Item = {x1}
  ItemOf <- OneChat
  MaxStops = 1
  Crashes = TRUE  ListenerMayEnd = TRUE  QuickEnd = FALSE
SPECIFICATION FairSpec
INVARIANTS RunningKnown ActiveTasksRun 
PROPERTIES StopWorks EndedIsUnlisted
CHECK_DEADLOCK FALSE
