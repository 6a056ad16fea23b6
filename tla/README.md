# Mini AI Cloud: TLA+ specifications

Mini AI Cloud runs batch tasks and model services on a fleet of Workers.
PostgreSQL is the source of truth: every decision is a transaction under row
locks, Redis only carries notifications, and every process (API, reaper,
scheduler, Worker, replica controller) may crash, be replaced, or act late.
These modules model that control plane, check it with TLC on small instances
and prove its main safety properties with TLAPS for instances of any size.

## The system and its parts

| Part | Code | Module |
|---|---|---|
| Task states and transitions | `core/enums.py`, `core/state_machine.py` | `TaskStates` |
| Tasks, executions, reservations, quota, Worker rows, preemption | `repositories/{tasks,reservations,quotas,workers,scheduling}.py` | `TaskControl` |
| Reaper (recovery, retry release, dependency readiness) | `api/services/reaper.py`, `repositories/dag.py` | `TaskControl` (per-row actions) |
| Worker process and its runtimes | `worker/*.py` | `TaskControl` (tokens and reports only) |
| Global and pull schedulers | `scheduler/*.py`, `repositories/admission.py` | `TaskControl` (the transactions only) |
| Model services, replicas, reconciler, autoscaler, probes | `repositories/services.py`, `api/services/{service_reconciler,service_health,autoscaler}.py` | `ServiceReplicas` |
| Replica controllers (Kubernetes, vLLM, Fake) | `api/services/*_replica_runtime.py` | `ServiceReplicas` (their claims and reports only) |
| Gateway routing and circuit breaker | `api/services/gateway.py`, `repositories/gateway_routing.py` | `ServiceReplicas` (one service's request counts) |
| Artifacts, outbox, job groups, cleanup | `repositories/*`, `api/services/*` | planned |
| Identity, RBAC, audit, registry, CLI, scripts | | not modelled |

`PROJECT.json` lists every part with its status, the source lines behind each
definition, the runs, and the hazards the properties are aimed at.

## TaskControl

State: the `Task` rows, one record per execution token that joins
`TaskExecution`, `ResourceReservation` and its device links, the `Worker` rows
with the healthy devices of their inventory, the `ProjectQuotaState` row, the
open preemption plans, the tokens that Worker coroutines hold (execution id and
session id), and the number of terminal events in the outbox per task.

One action per transaction. A transaction takes its row locks before it decides,
so it is atomic; the reaper's batch transactions treat their rows independently
and become one action per row. Time is only `LeaseExpires`: the database clock
may pass a lease at any moment. A Worker process appears through its tokens: a
token may be used, in any order with everything else, for any report the
executor can make, long after the execution was reaped or the session replaced.

Abstractions. CPU and memory move exactly like the GPU counters, so one resource
stands for the three. Job identity is the flag `handle`. `listed` stands for an
exit code in `retry_on_exit_codes`. `aging` is any priority gain up to a bound.
`skip_locked` is nondeterminism: any victim or Worker may be missing. Left out:
log rows, the amounts of usage, `mark_unschedulable` and
`record_observed_allocation` (informational columns), deletion of old rows,
executions created before reservations existed, and the accelerator tasks of
Kubernetes in global mode, which bind no device rows.

### Runs

| Run | Instance | What it shows |
|---|---|---|
| `attempts` | 1 Kubernetes task, 1 Worker, 2 sessions, 4 executions, 1 retry, 1 recovery | usage, terminal events, budgets, finality through every mix of retry, recovery, adoption and late report |
| `capacity` | 2 tasks, 1 Worker, 2 devices, 2 sessions, queue quota 1 | ownership, exclusive devices, Worker and quota counters across inventory changes and restarts |
| `preemption` | 2 ranked tasks, 1 device, global mode | no release is ever refused, plans match victims, cancellation wins |
| `dependencies` | t2 after t1, cancel policy | no execution before its prerequisites succeeded |
| `stopping` | 2 ranked tasks without devices, 1 slot, global mode, with fairness | orphans are recovered, stop requests take effect |

Why the bounds are enough: the interactions are between two executions of one
task (a late and a current one), two sessions of one Worker (replaced and
current), and two tasks competing for a slot, a device or the last quota unit.
Each run has at least the two of what its properties relate. Four executions let
a retry, a recovery and one more attempt follow each other; a queue quota of one
makes the refused requeue after a recovery happen. What the runs leave to each other: only
`preemption` and `stopping` preempt, only `attempts` retries a failed exit, and only `attempts`
and `capacity` restart a Worker, so adoption does not occur in the liveness run.
`CHECK_DEADLOCK FALSE`: the system stops when
the bounded tokens and sessions are used up and every task has ended.

Fairness (`stopping` only): the database clock advances (`LeaseExpires`), the
reaper loop keeps running (`RecoverExpired`, `ReleaseDueRetries`,
`ResolveDependencyReadiness`), and a coroutine ends by its task timeout or dies
with its process (it reports a result or drops its token). Nothing is assumed of
Workers coming back, of schedulers or of users.

### Proofs

`TaskControlCore` (the invariant, steps of one shape, actions that neither begin
nor end an execution), `TaskControlProofs` (the other actions and the theorems)
and `TaskControlStepProofs` hold for every set of tasks, Workers and devices and
every bound, from `TaskControlAssumption` (the types of
the constants) and `NoRowAssumption` (the null values are not rows).

The inductive invariant is `Core`: `TypeOK`, `SingleActiveExecution`,
`RowsConsistent`, `UniqueDeviceReservation`, `WaitingHoldsNothing`,
`SettledIffRan` and `OneTerminalEvent` together. None of them is inductive
alone. A release is only known to hit the right reservation because an active
task and its unreleased reservation point at each other. Usage is settled from
`Task.started_at`, so `SettledIffRan` needs the agreement of `ran` and `started`
in `RowsConsistent`, which needs `PrepareForAssignment` to reset the column.
`WaitingHoldsNothing` rules the cancelled branch of `release_due_retries` out,
without which a task would end there without releasing its slot.
`UniqueDeviceReservation` needs that a Worker lists only its own devices.

Proved: `TypeCorrect`, `OneActiveExecution`, `DevicesAreExclusive`,
`WaitingTasksHoldNothing`, `UsageSettledOnce`, `TerminalEventOnce`; and from
`Core`, for single steps, `EndedRowsAreFixed`, `CancellationIsKept`,
`DependenciesAreRespected` and `PlansFollowVictims`.

Only model-checked: `WorkerCountersMatch`, `QuotaMatches`, `ReleaseNeverRefused`
and `AttemptsWithinBudget`, which equate counters with sums and cardinalities
over changing sets (their proof is an induction over data), and the liveness
properties.

## ServiceReplicas

State: the `ModelService` row (`desired_replicas`, `status`), its
`ServiceReplica` rows by ordinal, the replica each gateway request holds, the
requests whose API process died, and the health probes under way.

One action per transaction: the scale route (which reconciles before it
commits), the autoscaler (which does not), `ServiceReconciler.run_once`, the
claim of pending rows, the reports a runtime controller makes, the two halves of
a health probe, and acquiring and releasing a replica. The claim ends a row whose
launch snapshot is invalid without refreshing the service status
(`ClaimPendingReplicas`). A quarantined row is bound and has neither lease nor
endpoint (`Quarantined`): the controller makes no readiness report for it, its
stop loop skips it, and every cycle tries the cleanup again and quarantines it
again when that fails. A controller is any client: it may make a
report whenever the repository accepts it. A refused report changes nothing.
Round-robin is any choice among the routable replicas, time is
`LeaseExpires` and `DrainDeadlinePasses`, and the autoscaler may ask for any
count in `AutoscaleTargets`. Left out: superseded generations (`generation` is
never changed), events, quota and admission data, node assignment, and a commit
whose answer is lost (the gateway would release such a request a second time).

| Run | Instance | What it shows |
|---|---|---|
| `routing` | 2 rows, 2 requests, 1 probe, autoscaler to 0..2 | the counts the drain waits for are exact, ended rows are final |
| `scaling` | 3 rows, desired 0..2, no requests | healthy replicas are drained last |
| `aggregate` | 2 rows, 1 request, 1 probe, autoscaler never to 0 | the status settles on the aggregate; scaled to zero means stopped unless a quarantined replica is left; a quarantined replica leaves service although a late probe called it healthy |
| `autoscale_to_zero` | as `aggregate`, autoscaler to 0 or 1 | expected violation, see below |

Bounds: two rows let a replica and its replacement coexist, three let a
scale-down choose among a pending, an unhealthy and a healthy replica; two
requests let one finish early and one late. `Room` stops the environment from
breaking or asking for more replicas than there are ordinals left; it limits
causes, never the reconciler.

Fairness (`aggregate`, `autoscale_to_zero`): the reconciler loop keeps running,
the clock passes drain deadlines, the controller ends a replica that was asked to
stop, is not quarantined and is held by no request, and it quarantines again what
it could not clean up. The cleanup of a quarantined replica may fail for ever: the
row has no lease the reaper could find expired, so it keeps its service from being
stopped, which is why `ZeroMeansStopped` excepts it. No report of readiness, no
probe and no release of a request is assumed.

Finding: `set_desired_replicas` alone, as the autoscaler uses it, can leave a
service `stopping` for ever. If its last replica has ended and the reconciler
has not yet replaced it (the claim ended it for an invalid snapshot, say), then desired and active are both zero,
`reconcile_candidates_query` does not select the service and nothing else
refreshes its status. The scale route is not affected.

The properties of this module are model-checked only so far.

## Plan

1. `KubernetesServing` and `ProcessServing`: compose `ServiceReplicas` with a
   controller's in-memory handles, its Pods or processes, its cycle, its crashes
   and its replacement by a new session.
2. `WorkerProcess`: active table, heartbeat fencing, orphan reconciliation and
   shutdown, with the physical container beside the reservation.
3. `GatewayRouting`: route choice and circuit breaker.
4. `Outbox`, `Artifacts`, `JobGroups` (cycle check against a reference
   definition), `GlobalScheduler` (unlocked snapshots), `ProjectQuota`,
   `LockOrder`.
5. An abstract `TaskOwnership` that `TaskControl` implements; proofs for the
   service modules.
