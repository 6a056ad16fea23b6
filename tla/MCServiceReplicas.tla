-------------------------- MODULE MCServiceReplicas --------------------------
(* Model values of ServiceReplicas.  Requests are interchangeable.          *)
EXTENDS ServiceReplicas, TLC

RequestSymmetry == Permutations(Requests)
==============================================================================
