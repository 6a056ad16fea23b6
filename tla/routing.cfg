CONSTANTS
  MaxReplicas = 2
  MaxDesired = 2
  AutoscaleTargets = {0, 1, 2}
  FailureThreshold = 1
  MaxProbes = 1
  Requests = {r1, r2}
  NoReplica = NoReplica
SYMMETRY RequestSymmetry
SPECIFICATION Spec
INVARIANTS RequestsCounted
PROPERTIES EndedRowsAreFinal
