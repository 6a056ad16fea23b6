----------------------------- MODULE TaskStates -----------------------------
(***************************************************************************)
(* The task state machine shared by the API, the schedulers, the Workers   *)
(* and the reaper (core/enums.py, core/state_machine.py).  A task that has *)
(* not been submitted yet has no row; it is written "absent" here.         *)
(***************************************************************************)

TaskStatus ==
  {"pending", "queued", "scheduling", "assigned", "preparing", "pulling",
   "starting", "running", "stopping", "preempting", "preempted", "retrying",
   "succeeded", "failed", "cancelled", "timed_out"}

Final == {"succeeded", "failed", "cancelled", "timed_out", "preempted"}

Active ==
  {"scheduling", "assigned", "preparing", "pulling", "starting", "running",
   "preempting", "stopping"}

(* The statuses that hold one unit of the project's queued-task quota.     *)
Waiting == {"pending", "queued", "retrying"}

AllowedTransitions ==
  [s \in TaskStatus |->
     CASE s = "pending"    -> {"queued", "cancelled"}
       [] s = "queued"     -> {"scheduling", "assigned", "cancelled"}
       [] s = "scheduling" -> {"queued", "assigned", "cancelled"}
       [] s = "assigned"   -> {"preparing", "pulling", "stopping", "preempting",
                               "cancelled", "failed", "timed_out"}
       [] s = "preparing"  -> {"pulling", "starting", "stopping", "preempting",
                               "failed", "timed_out"}
       [] s = "pulling"    -> {"starting", "running", "stopping", "preempting",
                               "cancelled", "failed", "timed_out"}
       [] s = "starting"   -> {"running", "stopping", "preempting", "failed",
                               "timed_out"}
       [] s = "running"    -> {"stopping", "preempting", "succeeded", "failed",
                               "cancelled", "timed_out"}
       [] s = "stopping"   -> {"cancelled", "failed", "timed_out"}
       [] s = "preempting" -> {"preempted", "failed", "cancelled"}
       [] s \in {"preempted", "failed", "timed_out"} -> {"retrying"}
       [] s = "retrying"   -> {"queued", "cancelled"}
       [] s \in {"succeeded", "cancelled"} -> {}]

(* ensure_transition raises, and so aborts the transaction, otherwise.     *)
CanTransition(from, to) == to \in AllowedTransitions[from]

=============================================================================
