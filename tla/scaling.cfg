CONSTANTS
  MaxReplicas = 3
  MaxDesired = 2
  AutoscaleTargets = {0, 1, 2}
  FailureThreshold = 1
  MaxProbes = 0
  Requests = {}
  NoReplica = NoReplica
SPECIFICATION Spec
PROPERTIES HealthyDrainedLast
