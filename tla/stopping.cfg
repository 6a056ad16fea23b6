SPECIFICATION LiveSpec
CONSTANTS
  t1 = t1
  t2 = t2
  w1 = w1
  d1 = d1
  d2 = d2
  Tasks = {t1, t2}
  Workers = {w1}
  Devices = {}
  WorkerOf <- MCWorkerOf
  Gpus <- MCFlat
  Priority <- MCRanked
  Preemptible = {t1}
  Kubernetes = {t1}
  DependsOn <- MCIndependent
  CancelPolicy = {}
  Mode = "global"
  Concurrency = 1
  MaxRetries = 0
  MaxRecoveries = 0
  MaxQueuedTasks = 2
  MaxRunningTasks = 2
  MaxGpus = 1
  MinDelta = 1
  MaxAging = 0
  MaxExecutions = 2
  MaxSessions = 1
CHECK_DEADLOCK FALSE
PROPERTIES
  OrphansRecovered
  StopsTakeEffect
