SPECIFICATION FairSpec
CONSTANTS
  NumThreads = 3
  Tasks = {t1, t2, t3}
  Owner = owner
  NoTask = noTask
  NoThread = noThread
INVARIANTS
  TypeOK
  EveryTaskAccountedFor
  NoLostWakeup
  NobodySleepsThroughJoin
  VerifyHolds
  CleanDelete
PROPERTIES
  
  CallsReturn
  ImplementsPool
