SPECIFICATION FairSpec
CONSTANTS
  NPROC = 3
  NQUEUE = 3
  Quantum = 2
  Algorithms = {0,1,2}
  ExitCodes = {7}
INVARIANTS TypeOK OneOwner ParentsAlive NoLostWakeup ShellSurvives SliceFitsQueue
PROPERTIES RunnableRuns WaitReturns DeadStayDead NeverClimbs
