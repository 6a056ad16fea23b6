CONSTANTS
  MaxReplicas = 2
  MaxDesired = 1
  AutoscaleTargets = {1}
  FailureThreshold = 1
  MaxProbes = 1
  Requests = {r1}
  NoReplica = NoReplica
SPECIFICATION FairSpec
INVARIANT TypeOK
PROPERTIES StatusSettles ZeroMeansStopped QuarantinedLeavesService
