SPECIFICATION Spec
CONSTANTS
  t1 = t1
  t2 = t2
  w1 = w1
  d1 = d1
  d2 = d2
  Tasks = {t1, t2}
  Workers = {w1}
  Devices = {d1, d2}
  WorkerOf <- MCWorkerOf
  Gpus <- MCOneGpu
  Priority <- MCFlat
  Preemptible = {}
  Kubernetes = {}
  DependsOn <- MCIndependent
  CancelPolicy = {}
  Mode = "pull"
  Concurrency = 2
  MaxRetries = 0
  MaxRecoveries = 1
  MaxQueuedTasks = 1
  MaxRunningTasks = 2
  MaxGpus = 2
  MinDelta = 1
  MaxAging = 1
  MaxExecutions = 2
  MaxSessions = 2
SYMMETRY MCSymmetry
CHECK_DEADLOCK FALSE
INVARIANTS
  TypeOK
  SingleActiveExecution
  RowsConsistent
  UniqueDeviceReservation
  WorkerCountersMatch
  QuotaMatches
