--------------------------- MODULE MCTaskControl ---------------------------
(***************************************************************************)
(* Small instances of TaskControl for TLC.                                 *)
(***************************************************************************)
EXTENDS TaskControl, TLC

CONSTANTS t1, t2, w1, d1, d2

(* Every device belongs to one Worker.                                     *)
MCWorkerOf == [d \in Devices |-> w1]

(* Demand and rank.                                                        *)
MCOneGpu == [t \in Tasks |-> 1]
MCFlat == [t \in Tasks |-> 0]
MCRanked == [t \in Tasks |-> IF t = t2 THEN 1 ELSE 0]

(* Independent tasks, or t2 after t1.                                      *)
MCIndependent == [t \in Tasks |-> {}]
MCChain == [t \in Tasks |-> IF t = t2 THEN {t1} ELSE {}]

(* Interchangeable tasks and devices.                                      *)
MCSymmetry == Permutations(Tasks) \cup Permutations(Devices)
=============================================================================
