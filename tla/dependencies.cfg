SPECIFICATION Spec
CONSTANTS
  t1 = t1
  t2 = t2
  w1 = w1
  d1 = d1
  d2 = d2
  Tasks = {t1, t2}
  Workers = {w1}
  Devices = {d1}
  WorkerOf <- MCWorkerOf
  Gpus <- MCFlat
  Priority <- MCFlat
  Preemptible = {}
  Kubernetes = {}
  DependsOn <- MCChain
  CancelPolicy = {t2}
  Mode = "pull"
  Concurrency = 1
  MaxRetries = 0
  MaxRecoveries = 0
  MaxQueuedTasks = 2
  MaxRunningTasks = 1
  MaxGpus = 0
  MinDelta = 1
  MaxAging = 1
  MaxExecutions = 2
  MaxSessions = 1
CHECK_DEADLOCK FALSE
INVARIANTS
  DependenciesRespected
