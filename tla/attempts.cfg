SPECIFICATION Spec
CONSTANTS
  t1 = t1
  t2 = t2
  w1 = w1
  d1 = d1
  d2 = d2
  Tasks = {t1}
  Workers = {w1}
  Devices = {d1}
  WorkerOf <- MCWorkerOf
  Gpus <- MCOneGpu
  Priority <- MCFlat
  Preemptible = {}
  Kubernetes = {t1}
  DependsOn <- MCIndependent
  CancelPolicy = {}
  Mode = "pull"
  Concurrency = 1
  MaxRetries = 1
  MaxRecoveries = 1
  MaxQueuedTasks = 1
  MaxRunningTasks = 1
  MaxGpus = 1
  MinDelta = 1
  MaxAging = 1
  MaxExecutions = 4
  MaxSessions = 2
CHECK_DEADLOCK FALSE
INVARIANTS
  WaitingHoldsNothing
  SettledIffRan
  OneTerminalEvent
  AttemptsWithinBudget
PROPERTIES
  EndedStaysEnded
