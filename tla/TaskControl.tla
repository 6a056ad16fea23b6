---------------------------- MODULE TaskControl ----------------------------
(***************************************************************************)
(* The durable control plane of batch tasks: what PostgreSQL holds about   *)
(* tasks, execution tokens, resource reservations, Worker rows and the     *)
(* project quota, and every transaction that changes it                    *)
(* (repositories/tasks.py, scheduling.py, reservations.py, quotas.py,      *)
(* workers.py).                                                            *)
(*                                                                         *)
(* A transaction takes its row locks before it decides and is one action.  *)
(* The batch transactions of the reaper treat each row independently of    *)
(* the others, so they are one action per row.  Time appears only through  *)
(* LeaseExpires: the database clock may pass a lease at any moment.        *)
(*                                                                         *)
(* Some definitions are preceded by a faulty variant that nothing uses; it *)
(* stands for the defect a property of this module is there to catch.      *)
(***************************************************************************)
EXTENDS Integers, FiniteSets, FiniteSetsExt, TaskStates

CONSTANTS
  Tasks,            \* task ids of one project
  Workers,          \* configured Worker ids
  Devices,          \* exact accelerator devices
  WorkerOf,         \* [Devices -> Workers], the Worker a device belongs to
  Gpus,             \* [Tasks -> Nat], Task.gpu_count
  Priority,         \* [Tasks -> Nat], Task.priority
  Preemptible,      \* the tasks submitted with preemptible = true
  Kubernetes,       \* the tasks whose runtime_type is kubernetes
  DependsOn,        \* [Tasks -> SUBSET Tasks], depends_on at submission
  CancelPolicy,     \* the tasks whose dependency_failure_policy is "cancel"
  Mode,             \* "pull" (Worker claims) or "global" (GlobalScheduler)
  Concurrency,      \* Worker.concurrency
  MaxRetries,       \* Task.max_retries
  MaxRecoveries,    \* max_recovery_attempts of the reaper
  MaxQueuedTasks, MaxRunningTasks, MaxGpus,   \* limits of the ProjectQuota
  MinDelta,         \* preemption_min_delta
  MaxAging,         \* bound: how far aging may raise a priority
  MaxExecutions,    \* bound: execution tokens that may be minted
  MaxSessions       \* bound: Worker registrations per Worker

ASSUME TaskControlAssumption ==
  /\ IsFiniteSet(Tasks) /\ IsFiniteSet(Workers) /\ IsFiniteSet(Devices)
  /\ WorkerOf \in [Devices -> Workers]
  /\ Gpus \in [Tasks -> Nat] /\ Priority \in [Tasks -> Nat]
  /\ Preemptible \subseteq Tasks /\ Kubernetes \subseteq Tasks
  /\ CancelPolicy \subseteq Tasks
  /\ DependsOn \in [Tasks -> SUBSET Tasks]
  /\ Mode \in {"pull", "global"}
  /\ {Concurrency, MaxRetries, MaxRecoveries, MaxQueuedTasks, MaxRunningTasks,
      MaxGpus, MinDelta, MaxAging, MaxExecutions, MaxSessions} \subseteq Nat

ExecIds == 1..MaxExecutions
NoExec == 0
NoWorker == "none"
NoTask == "none"

ASSUME NoRowAssumption == NoWorker \notin Workers /\ NoTask \notin Tasks

VARIABLES
  task,           \* the Task rows
  reservation,    \* TaskExecution + ResourceReservation + its device links
  worker,         \* the Worker rows
  inventory,      \* per Worker, the devices whose health is "healthy"
  quota,          \* the ProjectQuotaState row
  plans,          \* PreemptionPlan rows in state "requested"
  tokens,         \* <<execution, session>> pairs some Worker coroutine holds
  terminalEvents  \* task.terminal rows written to the outbox, per task

vars == <<task, reservation, worker, inventory, quota, plans, tokens,
          terminalEvents>>
-----------------------------------------------------------------------------
(* Rows.                                                                   *)

AbsentTask ==
  [status |-> "absent", worker |-> NoWorker, exec |-> NoExec,
   cancelRequested |-> FALSE, userCancelled |-> FALSE, started |-> FALSE,
   handle |-> FALSE, lease |-> "none", retries |-> 0, recoveries |-> 0,
   preemptions |-> 0, requeue |-> TRUE]

NoReservation ==
  [state |-> "none", task |-> NoTask, worker |-> NoWorker, session |-> 0,
   devices |-> {}, ran |-> FALSE, settled |-> FALSE]

Init ==
  /\ task = [t \in Tasks |-> AbsentTask]
  /\ reservation = [e \in ExecIds |-> NoReservation]
  /\ worker = [w \in Workers |->
                 [status |-> "offline", session |-> 0, running |-> 0,
                  reservedGpus |-> 0, gpuCount |-> 0, overcommitted |-> FALSE]]
  /\ inventory = [w \in Workers |-> {}]
  /\ quota = [queued |-> 0, running |-> 0, gpus |-> 0]
  /\ plans = {}
  /\ tokens = {}
  /\ terminalEvents = [t \in Tasks |-> 0]

ActiveReservations == {e \in ExecIds : reservation[e].state = "active"}
AllocatedDevices == UNION {reservation[e].devices : e \in ActiveReservations}
AllHealthyDevices(w) == inventory[w]
FreeDevices(w) == {d \in inventory[w] : d \notin AllocatedDevices}
-----------------------------------------------------------------------------
(* Quota transitions (repositories/quotas.py).  Every one of them runs     *)
(* under the project's quota row lock and raises when its guard fails.     *)

CanAdmitQueued(q) == q.queued + 1 <= MaxQueuedTasks
AdmitQueued(q) == [q EXCEPT !.queued = @ + 1]

CanReleaseQueued(q) == q.queued >= 1
ReleaseQueued(q) == [q EXCEPT !.queued = @ - 1]

CanReserveExecution(q, g) ==
  /\ q.queued >= 1
  /\ q.running + 1 <= MaxRunningTasks
  /\ q.gpus + g <= MaxGpus
ReserveExecutionStillQueued(q, g) ==
  [q EXCEPT !.running = @ + 1, !.gpus = @ + g]
ReserveExecution(q, g) ==
  [queued |-> q.queued - 1, running |-> q.running + 1, gpus |-> q.gpus + g]

CanReleaseExecution(q, g) == q.running >= 1 /\ q.gpus >= g
ReleaseExecutionAndQueued(q, g) ==
  [queued |-> q.queued - 1, running |-> q.running - 1, gpus |-> q.gpus - g]
ReleaseExecution(q, g) == [q EXCEPT !.running = @ - 1, !.gpus = @ - g]

(* A task that can never fit the project's limits is refused outright.     *)
EnsureTaskCanFit(t) == 1 <= MaxRunningTasks /\ Gpus[t] <= MaxGpus
-----------------------------------------------------------------------------
(* Submission and dependencies.                                            *)

DependenciesEnded(t) == \A d \in DependsOn[t] : task[d].status \in Final
DependenciesReady(t) == \A d \in DependsOn[t] : task[d].status = "succeeded"
DependencyFailed(t) ==
  \E d \in DependsOn[t] : task[d].status \in Final \ {"succeeded"}

CreateQueued(t) ==
  /\ task[t].status = "absent"
  /\ \A d \in DependsOn[t] : task[d].status # "absent"
  /\ EnsureTaskCanFit(t)
  /\ CanAdmitQueued(quota)
  /\ \/ /\ DependencyFailed(t) /\ t \in CancelPolicy
        /\ task' = [task EXCEPT ![t].status = "cancelled",
                                ![t].userCancelled = TRUE]
        /\ quota' = ReleaseQueued(AdmitQueued(quota))
        /\ terminalEvents' = [terminalEvents EXCEPT ![t] = @ + 1]
     \/ /\ ~ (DependencyFailed(t) /\ t \in CancelPolicy)
        /\ task' = [task EXCEPT ![t].status =
                      IF DependenciesReady(t) THEN "queued" ELSE "pending"]
        /\ quota' = AdmitQueued(quota)
        /\ UNCHANGED terminalEvents
  /\ UNCHANGED <<reservation, worker, inventory, plans, tokens>>

(* The periodic scan promotes a pending task whose prerequisites all       *)
(* succeeded and cancels one with a failed prerequisite.                   *)
ResolveDependencyReadiness(t) ==
  /\ DependsOn[t] # {}
  /\ task[t].status \in {"pending", "queued"}
  /\ \/ /\ DependenciesReady(t)
        /\ task[t].status = "pending"
        /\ task' = [task EXCEPT ![t].status = "queued"]
        /\ UNCHANGED <<quota, terminalEvents>>
     \/ /\ DependencyFailed(t) /\ t \in CancelPolicy
        /\ CanReleaseQueued(quota)
        /\ task' = [task EXCEPT ![t].status = "cancelled",
                                ![t].cancelRequested = TRUE,
                                ![t].userCancelled = TRUE]
        /\ quota' = ReleaseQueued(quota)
        /\ terminalEvents' = [terminalEvents EXCEPT ![t] = @ + 1]
  /\ UNCHANGED <<reservation, worker, inventory, plans, tokens>>
-----------------------------------------------------------------------------
(* Assignment.                                                             *)

PrepareKeepingStart(T) ==
  [T EXCEPT !.userCancelled = FALSE, !.handle = FALSE, !.cancelRequested = FALSE]

PrepareForAssignment(T) ==
  [T EXCEPT !.started = FALSE, !.userCancelled = FALSE, !.handle = FALSE,
            !.cancelRequested = FALSE]

(* The rows every successful claim or placement writes.                    *)
Assign(t, w, devs, e) ==
  /\ reservation[e].state = "none"
  /\ \A f \in ExecIds : f < e => reservation[f].state # "none"
  /\ CanReserveExecution(quota, Gpus[t])
  /\ task' = [task EXCEPT ![t] =
       [PrepareForAssignment(@) EXCEPT !.status = "assigned", !.worker = w,
                                       !.exec = e, !.lease = "live"]]
  /\ reservation' = [reservation EXCEPT ![e] =
       [state |-> "active", task |-> t, worker |-> w,
        session |-> worker[w].session, devices |-> devs, ran |-> FALSE,
        settled |-> FALSE]]
  /\ worker' = [worker EXCEPT ![w].running = @ + 1,
                              ![w].reservedGpus = @ + Gpus[t]]
  /\ quota' = ReserveExecution(quota, Gpus[t])
  /\ UNCHANGED <<inventory, plans, terminalEvents>>

SchedulableUnlocked(t, w) ==
  /\ task[t].status \in {"queued", "assigned"} /\ DependenciesReady(t)
  /\ worker[w].status = "online" /\ ~ worker[w].overcommitted
  /\ worker[w].running < Concurrency

(* The guards claim and place share, read under the Worker row lock.       *)
Schedulable(t, w) ==
  /\ task[t].status = "queued" /\ ~ task[t].cancelRequested
  /\ DependenciesReady(t)
  /\ worker[w].status = "online" /\ ~ worker[w].overcommitted
  /\ worker[w].running < Concurrency

(* A Worker of session s pulls a task: aggregate and concrete capacity.    *)
Claim(t, w, devs, e) ==
  /\ Mode = "pull"
  /\ Schedulable(t, w)
  /\ worker[w].reservedGpus + Gpus[t] <= worker[w].gpuCount
  /\ devs \subseteq FreeDevices(w) /\ Cardinality(devs) = Gpus[t]
  /\ Assign(t, w, devs, e)
  /\ tokens' = tokens \cup {<<e, worker[w].session>>}

(* GlobalScheduler places a task; the Worker learns of it later.  An       *)
(* accelerator task for Kubernetes goes through vendor admission, which    *)
(* binds no device rows, and is outside this module.                       *)
Place(t, w, devs, e) ==
  /\ Mode = "global"
  /\ t \notin Kubernetes \/ Gpus[t] = 0
  /\ Schedulable(t, w)
  /\ devs \subseteq FreeDevices(w) /\ Cardinality(devs) = Gpus[t]
  /\ Assign(t, w, devs, e)
  /\ UNCHANGED tokens

(* The Worker polls for the assignments of its own session.                *)
TakeGlobalAssignment(e) ==
  LET R == reservation[e] IN
  /\ Mode = "global"
  /\ R.state = "active"
  /\ task[R.task].exec = e /\ task[R.task].status = "assigned"
  /\ R.session = worker[R.worker].session
  /\ Cardinality(R.devices) = Gpus[R.task]
  /\ task' = [task EXCEPT ![R.task].status = "preparing",
                          ![R.task].lease = "live"]
  /\ tokens' = tokens \cup {<<e, R.session>>}
  /\ UNCHANGED <<reservation, worker, inventory, quota, plans, terminalEvents>>
-----------------------------------------------------------------------------
(* Worker reports.  A coroutine presents the token it was started with; a  *)
(* token is accepted only while it names the task's current execution and  *)
(* its session owns the unreleased reservation and the Worker row.         *)

TaskOf(k) == reservation[k[1]].task

SessionOwnedExecution(k) ==
  LET R == reservation[k[1]] IN
  worker[R.worker].session = k[2] /\ R.session = k[2]

SessionOwnsExecution(k) ==
  LET R == reservation[k[1]] IN
  /\ worker[R.worker].session = k[2]
  /\ R.session = k[2]
  /\ R.state = "active"

Owned(k) ==
  /\ task[TaskOf(k)].exec = k[1]
  /\ task[TaskOf(k)].worker = reservation[k[1]].worker
  /\ SessionOwnsExecution(k)

(* mark_pulling, mark_starting, mark_running: advance from one of `from`,  *)
(* renew the lease when the report is a repetition, refuse otherwise.      *)
Advance(k, from, to, repeats) ==
  LET t == TaskOf(k) IN
  /\ Owned(k)
  /\ task[t].status \in from \cup repeats
  /\ task' = [task EXCEPT
       ![t].status = IF @ \in from THEN to ELSE @,
       ![t].lease = "live",
       ![t].started = @ \/ (task[t].status \in from /\ to = "running")]
  /\ reservation' = [reservation EXCEPT
       ![k[1]].ran = @ \/ (task[t].status \in from /\ to = "running")]
  /\ UNCHANGED <<worker, inventory, quota, plans, tokens, terminalEvents>>

MarkPulling(k) ==
  Advance(k, {"assigned", "preparing"}, "pulling",
          {"pulling", "starting", "running"})

MarkStarting(k) == Advance(k, {"pulling"}, "starting", {"starting", "running"})

MarkRunning(k) == Advance(k, {"pulling", "starting"}, "running", {"running"})

(* The runtime object is recorded.  `handle` says that the identity of a   *)
(* Kubernetes Job is persisted, which also installs the Job's full lease.  *)
(* Nothing but ownership is asked of the task.                             *)
RecordRuntimeHandle(k) ==
  /\ Owned(k)
  /\ task' = [task EXCEPT
       ![TaskOf(k)].handle = TaskOf(k) \in Kubernetes,
       ![TaskOf(k)].lease = IF TaskOf(k) \in Kubernetes THEN "live" ELSE @]
  /\ UNCHANGED <<reservation, worker, inventory, quota, plans, tokens,
                 terminalEvents>>

(* A Worker that shuts down leaves the lease of a running Job extended.    *)
PreserveHandoffLease(k) ==
  /\ Owned(k)
  /\ TaskOf(k) \in Kubernetes /\ task[TaskOf(k)].handle
  /\ task' = [task EXCEPT ![TaskOf(k)].lease = "live"]
  /\ UNCHANGED <<reservation, worker, inventory, quota, plans, tokens,
                 terminalEvents>>

RenewLease(k) ==
  /\ Owned(k)
  /\ task[TaskOf(k)].status \in Active
  /\ task' = [task EXCEPT ![TaskOf(k)].lease = "live"]
  /\ UNCHANGED <<reservation, worker, inventory, quota, plans, tokens,
                 terminalEvents>>
-----------------------------------------------------------------------------
(* Release and settlement (repositories/reservations.py).                  *)

CanRelease(e) ==
  LET R == reservation[e] IN
  /\ worker[R.worker].running >= 1
  /\ worker[R.worker].reservedGpus >= Gpus[R.task]
  /\ CanReleaseExecution(quota, Gpus[R.task])

(* Usage is settled from Task.started_at, once per execution.              *)
ReleaseAndSettle(t, e) ==
  /\ CanRelease(e)
  /\ reservation' = [reservation EXCEPT
       ![e].state = "released", ![e].settled = task[t].started]
  /\ worker' = [worker EXCEPT
       ![reservation[e].worker].running = @ - 1,
       ![reservation[e].worker].reservedGpus = @ - Gpus[t]]

KeepPreemptionPlans(t) == plans
CompletePreemptionPlans(t) == {p \in plans : p.victim # t}

(* A cancellation by the user wins over the reported result; a preemption  *)
(* turns any other result into "preempted".                                *)
CancellationWinsIfNotPreempted(T) ==
  T.cancelRequested /\ T.status # "preempting"
CancellationWinsIfRecorded(T) == T.cancelRequested /\ T.userCancelled
CancellationWins(T) ==
  T.cancelRequested /\ (T.status # "preempting" \/ T.userCancelled)

FinishTargetAsReported(T, reported) ==
  IF CancellationWins(T) THEN "cancelled" ELSE reported
FinishTarget(T, reported) ==
  IF CancellationWins(T) THEN "cancelled"
  ELSE IF T.status = "preempting" THEN "preempted" ELSE reported

(* What a Worker may report: a result status, an error category, and       *)
(* whether the exit code is listed in retry_on_exit_codes.                 *)
Outcomes ==
  {[target |-> "succeeded", category |-> "none", listed |-> FALSE],
   [target |-> "cancelled", category |-> "CANCELLED", listed |-> FALSE],
   [target |-> "timed_out", category |-> "TIMEOUT", listed |-> FALSE],
   [target |-> "failed", category |-> "INFRA_ERROR", listed |-> FALSE]}
    \cup [target: {"failed"}, category: {"USER_ERROR", "RESOURCE_ERROR"},
          listed: BOOLEAN]

(* The executor reports success only for a runtime it saw running, and a   *)
(* cancellation only after it read cancel_requested.                       *)
Reportable(T, o) ==
  /\ o.target = "succeeded" => T.status \in {"running", "stopping", "preempting"}
  /\ o.target = "cancelled" => T.cancelRequested

ShouldRetryFailure(o) ==
  \/ o.category \in {"INFRA_ERROR", "INTERNAL_ERROR", "TIMEOUT"}
  \/ o.category \in {"USER_ERROR", "RESOURCE_ERROR"} /\ o.listed

Failure == {"failed", "timed_out"}

RetryAllowedOnceMore(T, target, o) ==
  \/ target = "preempted" /\ T.requeue
  \/ target \in Failure /\ T.retries <= MaxRetries /\ ShouldRetryFailure(o)

RetryAllowed(T, target, o) ==
  \/ target = "preempted" /\ T.requeue
  \/ target \in Failure /\ T.retries < MaxRetries /\ ShouldRetryFailure(o)

RetryKeepingWorker(T) ==
  [T EXCEPT !.status = "retrying", !.exec = NoExec, !.cancelRequested = FALSE,
            !.lease = "none"]

RetryLeftFailed(T) ==
  [T EXCEPT !.status = "failed", !.worker = NoWorker, !.exec = NoExec,
            !.cancelRequested = FALSE, !.lease = "none"]

Retry(T) ==
  [T EXCEPT !.status = "retrying", !.worker = NoWorker, !.exec = NoExec,
            !.cancelRequested = FALSE, !.lease = "none"]

(* A finished execution releases its reservation, completes the preemption *)
(* plans it was the victim of and is retried when its budget and the       *)
(* project's queue quota allow it.                                         *)
FinishExecution(k, o) ==
  LET e == k[1]
      t == TaskOf(k)
      T == task[t]
      target == FinishTarget(T, o.target)
      failure == target \in Failure
      released == ReleaseExecution(quota, Gpus[t])
      retry == RetryAllowed(T, target, o) /\ CanAdmitQueued(released)
  IN
  /\ Owned(k)
  /\ T.status \in Active
  /\ Reportable(T, o)
  /\ CanTransition(T.status, target)
  /\ ReleaseAndSettle(t, e)
  /\ plans' = IF T.status = "preempting" THEN CompletePreemptionPlans(t) ELSE plans
  /\ \/ /\ retry
        /\ task' = [task EXCEPT ![t] =
             [Retry(T) EXCEPT !.retries = IF failure THEN @ + 1 ELSE @,
                              !.userCancelled = FALSE]]
        /\ quota' = AdmitQueued(released)
        /\ UNCHANGED terminalEvents
     \/ /\ ~ retry
        /\ task' = [task EXCEPT
             ![t].status = target, ![t].lease = "none",
             ![t].userCancelled = (target = "cancelled")]
        /\ quota' = released
        /\ terminalEvents' = [terminalEvents EXCEPT ![t] = @ + 1]
  /\ UNCHANGED <<inventory, tokens>>
-----------------------------------------------------------------------------
(* The reaper (api/services/reaper.py).  Executions from before the        *)
(* reservation backfill migration, which have no reservation, are left out.*)

RecoverableAfterStart(T) ==
  T.status \in Active \ {"assigned"} /\ T.lease = "expired"

Recoverable(T) == T.status \in Active /\ T.lease = "expired"

RecoverExpired(t) ==
  LET T == task[t]
      e == T.exec
      target == FinishTarget(T, "failed")
      released == ReleaseExecution(quota, Gpus[t])
      retry == /\ \/ target = "preempted" /\ T.requeue
                  \/ target = "failed" /\ T.recoveries < MaxRecoveries
               /\ CanAdmitQueued(released)
      orphaned == [T EXCEPT !.worker = NoWorker, !.exec = NoExec,
                            !.lease = "none"]
  IN
  /\ Recoverable(T)
  /\ e # NoExec
  /\ CanTransition(T.status, target)
  /\ ReleaseAndSettle(t, e)
  /\ plans' = IF T.status = "preempting" THEN CompletePreemptionPlans(t) ELSE plans
  /\ \/ /\ retry
        /\ task' = [task EXCEPT ![t] =
             [Retry(T) EXCEPT
                !.recoveries = IF target = "failed" THEN @ + 1 ELSE @,
                !.userCancelled = FALSE]]
        /\ quota' = AdmitQueued(released)
        /\ UNCHANGED terminalEvents
     \/ /\ ~ retry
        /\ task' = [task EXCEPT ![t] =
             [orphaned EXCEPT !.status = target,
                              !.userCancelled = (target = "cancelled")]]
        /\ quota' = released
        /\ terminalEvents' = [terminalEvents EXCEPT ![t] = @ + 1]
  /\ UNCHANGED <<inventory, tokens>>

(* A retry whose backoff has elapsed is queued again; the code's branch    *)
(* for a cancelled retry writes a terminal event and keeps the queue quota.*)
ReleaseDueRetries(t) ==
  LET cancelled == task[t].cancelRequested IN
  /\ task[t].status = "retrying"
  /\ task' = [task EXCEPT
       ![t].status = IF cancelled THEN "cancelled" ELSE "queued",
       ![t].userCancelled = @ \/ cancelled]
  /\ terminalEvents' = [terminalEvents EXCEPT
       ![t] = IF cancelled THEN @ + 1 ELSE @]
  /\ UNCHANGED <<reservation, worker, inventory, quota, plans, tokens>>
-----------------------------------------------------------------------------
(* User cancellation.                                                      *)

Max0(n) == IF n < 0 THEN 0 ELSE n

CancelPreempting(t) ==
  /\ task[t].status = "preempting"
  /\ task' = [task EXCEPT ![t].cancelRequested = TRUE, ![t].requeue = FALSE,
                          ![t].userCancelled = TRUE]
  /\ UNCHANGED <<reservation, worker, inventory, quota, plans, tokens,
                 terminalEvents>>

CancelActive(t) ==
  /\ task[t].status \in Active \ {"preempting"}
  /\ task[t].exec # NoExec
  /\ task[t].status # "stopping" => CanTransition(task[t].status, "stopping")
  /\ task' = [task EXCEPT ![t].cancelRequested = TRUE,
                          ![t].status = "stopping"]
  /\ UNCHANGED <<reservation, worker, inventory, quota, plans, tokens,
                 terminalEvents>>

CancelWaiting(t) ==
  LET w == task[t].worker IN
  /\ task[t].status \in Waiting
  /\ CanReleaseQueued(quota)
  /\ task' = [task EXCEPT ![t].status = "cancelled",
                          ![t].cancelRequested = TRUE,
                          ![t].userCancelled = TRUE, ![t].lease = "none",
                          ![t].exec = NoExec]
  /\ quota' = ReleaseQueued(quota)
  /\ worker' = IF w = NoWorker THEN worker
               ELSE [worker EXCEPT ![w].running = Max0(@ - 1),
                                   ![w].reservedGpus = Max0(@ - Gpus[t])]
  /\ terminalEvents' = [terminalEvents EXCEPT ![t] = @ + 1]
  /\ UNCHANGED <<reservation, inventory, plans, tokens>>
-----------------------------------------------------------------------------
(* Preemption (SchedulingRepository.request_preemption).                   *)

Victims(t, w, aging) ==
  {v \in Preemptible :
     /\ task[v].worker = w
     /\ task[v].status \in {"assigned", "preparing", "pulling", "starting", "running"}
     /\ ~ task[v].cancelRequested
     /\ Priority[v] <= Min({100, Priority[t] + aging}) - MinDelta}

(* evaluate_snapshot on the Worker with the devices and slots of `freed`   *)
(* given back.                                                             *)
FitsAfter(t, w, freed) ==
  LET back == UNION {reservation[task[v].exec].devices : v \in freed} IN
  /\ worker[w].status = "online" /\ ~ worker[w].overcommitted
  /\ worker[w].running - Cardinality(freed) < Concurrency
  /\ Cardinality(FreeDevices(w) \cup (back \cap inventory[w])) >= Gpus[t]

(* Victims are taken lowest priority first until the task fits, so without *)
(* the last one it does not.  Rows locked elsewhere are skipped: any of    *)
(* the others, and any other Worker, may be missing from the choice.       *)
IsVictimChoice(t, w, aging, chosen) ==
  /\ chosen # {} /\ chosen \subseteq Victims(t, w, aging)
  /\ FitsAfter(t, w, chosen)
  /\ \E last \in chosen : /\ \A v \in chosen : Priority[v] <= Priority[last]
                          /\ ~ FitsAfter(t, w, chosen \ {last})

RequestPreemption(t, w, aging, chosen) ==
  /\ Mode = "global"
  /\ task[t].status = "queued" /\ ~ task[t].cancelRequested
  /\ DependenciesReady(t)
  /\ \A v \in Workers : ~ FitsAfter(t, v, {})
  /\ \A p \in plans : p.incoming # t
  /\ IsVictimChoice(t, w, aging, chosen)
  /\ task' = [v \in Tasks |->
       IF v \in chosen
       THEN [task[v] EXCEPT !.status = "preempting", !.cancelRequested = TRUE,
                            !.preemptions = @ + 1]
       ELSE task[v]]
  /\ plans' = plans \cup {[incoming |-> t, victim |-> v] : v \in chosen}
  /\ UNCHANGED <<reservation, worker, inventory, quota, tokens, terminalEvents>>
-----------------------------------------------------------------------------
(* Worker rows (repositories/workers.py).                                  *)

OwnDevices(w) == {d \in Devices : WorkerOf[d] = w}

RegisterWorkerAfresh(w, reported, healthy) ==
  /\ worker[w].session < MaxSessions
  /\ healthy \subseteq reported /\ reported \subseteq OwnDevices(w)
  /\ worker' = [worker EXCEPT ![w] =
       [status |-> "online", session |-> @.session + 1, running |-> 0,
        reservedGpus |-> 0, gpuCount |-> Cardinality(reported),
        overcommitted |-> FALSE]]
  /\ inventory' = [inventory EXCEPT ![w] = healthy]
  /\ UNCHANGED <<task, reservation, quota, plans, tokens, terminalEvents>>

(* A process start registers a new session and replaces the inventory in   *)
(* one transaction; reservations of earlier sessions keep their capacity.  *)
(* gpu_count counts every reported device, healthy or not.                 *)
RegisterWorker(w, reported, healthy) ==
  LET over == worker[w].reservedGpus > Cardinality(reported) IN
  /\ worker[w].session < MaxSessions
  /\ healthy \subseteq reported /\ reported \subseteq OwnDevices(w)
  /\ worker' = [worker EXCEPT ![w].session = @ + 1,
                              ![w].gpuCount = Cardinality(reported),
                              ![w].overcommitted = over,
                              ![w].status = IF over THEN "draining" ELSE "online"]
  /\ inventory' = [inventory EXCEPT ![w] = healthy]
  /\ UNCHANGED <<task, reservation, quota, plans, tokens, terminalEvents>>

ReplaceGpuInventory(w, reported, healthy) ==
  /\ worker[w].session > 0
  /\ healthy \subseteq reported /\ reported \subseteq OwnDevices(w)
  /\ worker' = [worker EXCEPT ![w].gpuCount = Cardinality(reported)]
  /\ inventory' = [inventory EXCEPT ![w] = healthy]
  /\ UNCHANGED <<task, reservation, quota, plans, tokens, terminalEvents>>

Heartbeat(w) ==
  /\ worker[w].session > 0
  /\ worker' = [worker EXCEPT ![w].status =
                  IF @ # "draining" THEN "online" ELSE @]
  /\ UNCHANGED <<task, reservation, inventory, quota, plans, tokens,
                 terminalEvents>>

(* Administrative drain, and the two status writes of a Worker shutdown.   *)
SetWorkerStatus(w, s) ==
  /\ worker[w].session > 0
  /\ worker' = [worker EXCEPT ![w].status = s]
  /\ UNCHANGED <<task, reservation, inventory, quota, plans, tokens,
                 terminalEvents>>

MarkStaleOffline(w) ==
  /\ worker[w].status = "online"
  /\ worker' = [worker EXCEPT ![w].status = "offline"]
  /\ UNCHANGED <<task, reservation, inventory, quota, plans, tokens,
                 terminalEvents>>

(* A restarted Worker adopts the running Job of an earlier session (it     *)
(* listed the Jobs before it registered): the compare-and-set moves        *)
(* execution and reservation to the new session.                           *)
TransferRecoverable(e) ==
  LET R == reservation[e] IN
  /\ R.state = "active"
  /\ R.session # worker[R.worker].session
  /\ R.task \in Kubernetes
  /\ task[R.task].status \in Active
  /\ task[R.task].exec = e /\ task[R.task].worker = R.worker
  /\ task[R.task].handle
  /\ reservation' = [reservation EXCEPT ![e].session = worker[R.worker].session]
  /\ task' = [task EXCEPT ![R.task].lease = "live"]
  /\ tokens' = tokens \cup {<<e, worker[R.worker].session>>}
  /\ UNCHANGED <<worker, inventory, quota, plans, terminalEvents>>
-----------------------------------------------------------------------------
(* Environment: the database clock passes a lease; a coroutine ends, is    *)
(* killed with its process or gives its execution up.                      *)

LeaseExpires(t) ==
  /\ task[t].lease = "live"
  /\ task' = [task EXCEPT ![t].lease = "expired"]
  /\ UNCHANGED <<reservation, worker, inventory, quota, plans, tokens,
                 terminalEvents>>

DropToken(k) ==
  /\ tokens' = tokens \ {k}
  /\ UNCHANGED <<task, reservation, worker, inventory, quota, plans,
                 terminalEvents>>
-----------------------------------------------------------------------------
UserStep ==
  \E t \in Tasks : CreateQueued(t) \/ CancelPreempting(t) \/ CancelActive(t)
                     \/ CancelWaiting(t)

ReaperStep ==
  \E t \in Tasks : ResolveDependencyReadiness(t) \/ RecoverExpired(t)
                     \/ ReleaseDueRetries(t)

SchedulerStep ==
  \E t \in Tasks, w \in Workers :
    \/ \E devs \in SUBSET Devices, e \in ExecIds :
         Claim(t, w, devs, e) \/ Place(t, w, devs, e)
    \/ \E aging \in 0..MaxAging, chosen \in SUBSET Tasks :
         RequestPreemption(t, w, aging, chosen)

TokenStep ==
  \E k \in tokens :
    \/ MarkPulling(k) \/ MarkStarting(k) \/ MarkRunning(k)
    \/ RecordRuntimeHandle(k) \/ PreserveHandoffLease(k) \/ RenewLease(k)
    \/ \E o \in Outcomes : FinishExecution(k, o)
    \/ DropToken(k)

WorkerStep ==
  \/ \E w \in Workers :
       \/ \E reported \in SUBSET Devices, healthy \in SUBSET Devices :
            \/ RegisterWorker(w, reported, healthy)
            \/ ReplaceGpuInventory(w, reported, healthy)
       \/ Heartbeat(w) \/ MarkStaleOffline(w)
       \/ \E s \in {"draining", "offline"} : SetWorkerStatus(w, s)
  \/ \E e \in ExecIds : TakeGlobalAssignment(e) \/ TransferRecoverable(e)

Next ==
  \/ UserStep
  \/ ReaperStep
  \/ SchedulerStep
  \/ TokenStep
  \/ WorkerStep
  \/ \E t \in Tasks : LeaseExpires(t)

Spec == Init /\ [][Next]_vars

(* The database clock advances, the reaper loop keeps running, and no      *)
(* coroutine outlives its task timeout: it reports a result or is gone.    *)
Fairness ==
  /\ \A t \in Tasks : /\ WF_vars(LeaseExpires(t))
                      /\ WF_vars(RecoverExpired(t))
                      /\ WF_vars(ReleaseDueRetries(t))
                      /\ WF_vars(ResolveDependencyReadiness(t))
  /\ \A e \in ExecIds, s \in 1..MaxSessions :
       WF_vars(/\ <<e, s>> \in tokens
               /\ \/ \E o \in Outcomes : FinishExecution(<<e, s>>, o)
                  \/ DropToken(<<e, s>>))

LiveSpec == Spec /\ Fairness
-----------------------------------------------------------------------------
(* Properties.                                                             *)

TaskRow ==
  [status: TaskStatus \cup {"absent"}, worker: Workers \cup {NoWorker},
   exec: ExecIds \cup {NoExec}, cancelRequested: BOOLEAN,
   userCancelled: BOOLEAN, started: BOOLEAN, handle: BOOLEAN,
   lease: {"none", "live", "expired"}, retries: Nat, recoveries: Nat,
   preemptions: Nat, requeue: BOOLEAN]

ReservationRow ==
  [state: {"none", "active", "released"}, task: Tasks \cup {NoTask},
   worker: Workers \cup {NoWorker}, session: Nat, devices: SUBSET Devices,
   ran: BOOLEAN, settled: BOOLEAN]

WorkerRow ==
  [status: {"online", "draining", "offline"}, session: Nat, running: Nat,
   reservedGpus: Nat, gpuCount: Nat, overcommitted: BOOLEAN]

QuotaRow == [queued: Nat, running: Nat, gpus: Nat]

(* Every row has the type its columns declare, and no counter is negative. *)
TypeOK ==
  /\ task \in [Tasks -> TaskRow]
  /\ reservation \in [ExecIds -> ReservationRow]
  /\ worker \in [Workers -> WorkerRow]
  /\ inventory \in [Workers -> SUBSET Devices]
  /\ quota \in QuotaRow
  /\ plans \subseteq [incoming: Tasks, victim: Tasks]
  /\ tokens \subseteq ExecIds \X Nat
  /\ terminalEvents \in [Tasks -> Nat]

(* A task is active exactly while one unreleased reservation carries its   *)
(* current execution id, on the Worker the task names; a terminal or a     *)
(* waiting task holds none (task.single-active-execution).                 *)
SingleActiveExecution ==
  /\ \A e \in ActiveReservations :
       /\ reservation[e].task \in Tasks
       /\ task[reservation[e].task].exec = e
       /\ task[reservation[e].task].worker = reservation[e].worker
       /\ task[reservation[e].task].status \in Active
  /\ \A t \in Tasks : task[t].status \in Active =>
       /\ task[t].exec \in ActiveReservations
       /\ reservation[task[t].exec].task = t

(* No accelerator is linked to two unreleased reservations, and every      *)
(* reservation owns exactly as many devices of its own Worker as its task  *)
(* asked for (scheduler.unique-gpu-reservation): inventory refreshes,      *)
(* restarts and recoveries never free a device that is still owned.        *)
UniqueDeviceReservation ==
  \A e \in ActiveReservations :
    /\ Cardinality(reservation[e].devices) = Gpus[reservation[e].task]
    /\ \A d \in reservation[e].devices : WorkerOf[d] = reservation[e].worker
    /\ \A f \in ActiveReservations \ {e} :
         reservation[e].devices \cap reservation[f].devices = {}

GpusOf(E) == MapThenSumSet(LAMBDA e : Gpus[reservation[e].task], E)

(* The capacity counters of a Worker are the sums over its unreleased      *)
(* reservations, whatever sessions made them: no path releases twice.      *)
WorkerCountersMatch ==
  \A w \in Workers :
    LET held == {e \in ActiveReservations : reservation[e].worker = w} IN
    /\ worker[w].running = Cardinality(held)
    /\ worker[w].reservedGpus = GpusOf(held)

(* The project counters equal what they count, and stay within the limits: *)
(* queued is the number of waiting tasks, running and gpus are those of    *)
(* the unreleased reservations (quota.non-negative and more).              *)
QuotaMatches ==
  /\ quota.queued = Cardinality({t \in Tasks : task[t].status \in Waiting})
  /\ quota.running = Cardinality(ActiveReservations)
  /\ quota.gpus = GpusOf(ActiveReservations)
  /\ quota.queued <= MaxQueuedTasks
  /\ quota.running <= MaxRunningTasks
  /\ quota.gpus <= MaxGpus

(* A task that waits holds no Worker, no execution and no stop request, so *)
(* cancelling it gives back no capacity a recovery already gave back, and  *)
(* the cancelled branch of release_due_retries, which would keep a queue   *)
(* slot, is never taken.                                                   *)
WaitingHoldsNothing ==
  \A t \in Tasks : task[t].status \in Waiting =>
    /\ task[t].worker = NoWorker /\ task[t].exec = NoExec
    /\ ~ task[t].cancelRequested /\ task[t].lease = "none"

(* Neither the result of an owned execution nor the recovery of an expired *)
(* lease can be refused: the overridden target is a legal transition and   *)
(* the counters cover the reservation, so no ResourceInvariantViolation or *)
(* QuotaInvariantViolation wedges the task.                                *)
ReleaseNeverRefused ==
  \A t \in Tasks : task[t].status \in Active =>
    /\ CanRelease(task[t].exec)
    /\ CanTransition(task[t].status, FinishTarget(task[t], "failed"))
    /\ \A o \in Outcomes : Reportable(task[t], o) =>
         CanTransition(task[t].status, FinishTarget(task[t], o.target))

(* A preemption plan is open exactly while its victim is being preempted:  *)
(* no plan is left behind that would block the incoming task for ever, and *)
(* no victim stops for nobody.                                             *)
PlansMatchPreempting ==
  {p.victim : p \in plans} = {t \in Tasks : task[t].status = "preempting"}

(* Usage is settled for exactly the executions that ran: a failure before  *)
(* the runtime start does not inherit the previous attempt's window.       *)
SettledIffRan ==
  \A e \in ExecIds : reservation[e].settled =
    (reservation[e].state = "released" /\ reservation[e].ran)

(* Every task that ends writes one terminal event to the outbox, and none  *)
(* before it ends.                                                         *)
OneTerminalEvent ==
  \A t \in Tasks : terminalEvents[t] = IF task[t].status \in Final THEN 1 ELSE 0

(* No execution is minted before every prerequisite of its task succeeded. *)
DependenciesRespected ==
  \A e \in ExecIds : reservation[e].state # "none" =>
    \A d \in DependsOn[reservation[e].task] : task[d].status = "succeeded"

(* Each execution after the first is paid for by a retry, a recovery or a  *)
(* preemption of that task, and the first two stay within their budgets.   *)
AttemptsWithinBudget ==
  \A t \in Tasks :
    /\ task[t].retries <= MaxRetries /\ task[t].recoveries <= MaxRecoveries
    /\ Cardinality({e \in ExecIds : reservation[e].task = t})
         <= 1 + task[t].retries + task[t].recoveries + task[t].preemptions

(* A task that ended never changes again, and neither does a released      *)
(* reservation, whatever late report, adoption or recovery arrives.        *)
EndedStaysEnded ==
  [][/\ \A t \in Tasks : task[t].status \in Final => task'[t] = task[t]
     /\ \A e \in ExecIds : reservation[e].state = "released" =>
          reservation'[e] = reservation[e]]_vars

(* How the columns of a row go together: only an active task has a lease,  *)
(* a stopping or preempted one has its stop request, an unused execution   *)
(* id has no row, a reservation names a task and a Worker, it has run iff  *)
(* its task has started since the assignment, and a Worker lists its own   *)
(* devices.                                                                *)
RowsConsistent ==
  /\ \A t \in Tasks :
       /\ task[t].status \notin Active => task[t].lease = "none"
       /\ task[t].status \in {"stopping", "preempting"} => task[t].cancelRequested
       /\ task[t].status = "absent" => task[t] = AbsentTask
  /\ \A e \in ExecIds :
       /\ reservation[e].state = "none" => reservation[e] = NoReservation
       /\ reservation[e].state # "none" =>
            reservation[e].task \in Tasks /\ reservation[e].worker \in Workers
       /\ reservation[e].state = "active" =>
            reservation[e].ran = task[reservation[e].task].started
  /\ \A w \in Workers : \A d \in inventory[w] : WorkerOf[d] = w

(* A user cancellation of an active task is never lost: a stopping task    *)
(* only ends cancelled, and so does one cancelled while it is preempted,   *)
(* whatever result races the request.                                      *)
CancellationSticks ==
  [][\A t \in Tasks :
       /\ task[t].status = "stopping" =>
            task'[t].status \in {"stopping", "cancelled"}
       /\ task[t].status = "preempting" /\ task[t].userCancelled =>
            \/ task'[t].status = "preempting" /\ task'[t].userCancelled
            \/ task'[t].status = "cancelled"]_vars

(* An execution whose Worker is gone does not stay active: once no         *)
(* coroutine holds the task's token, the execution ends or is adopted.     *)
OrphansRecovered ==
  \A t \in Tasks, e \in ExecIds :
    (task[t].status \in Active /\ task[t].exec = e /\ \A k \in tokens : k[1] # e)
      ~> (task[t].exec # e \/ task[t].status \notin Active
            \/ \E k \in tokens : k[1] = e)

(* A stop request, by a user or by the scheduler, always takes effect.     *)
StopsTakeEffect ==
  \A t \in Tasks :
    /\ (task[t].status = "stopping") ~> (task[t].status = "cancelled")
    /\ (task[t].status = "preempting") ~> (task[t].status # "preempting")
=============================================================================
