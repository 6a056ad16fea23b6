--------------------------- MODULE ServiceReplicas ---------------------------
(***************************************************************************)
(* The durable rows of one model service: ModelService and its             *)
(* ServiceReplica rows, as the transactions of repositories/services.py    *)
(* change them.  Every action is one database transaction; the callers are *)
(* the scale API, the autoscaler, the reconciler, the health prober, the   *)
(* gateway and whichever runtime controller owns the service.              *)
(*                                                                         *)
(* This module is the most general client of the repository: a controller  *)
(* report may come at any time the repository accepts it.  A report the    *)
(* repository refuses (a stale session, another execution, a state that    *)
(* does not admit it) changes nothing and is a stutter here.  The modules  *)
(* that model a controller reuse the row operators and add the controller. *)
(*                                                                         *)
(* A replica is named by its ordinal.  It is bound to at most one          *)
(* execution in its life, so the ordinal also names the execution.         *)
(* Generations never change in this code base, so rows of older            *)
(* generations do not occur.                                               *)
(***************************************************************************)
EXTENDS Integers, FiniteSets, FiniteSetsExt

CONSTANTS
    MaxReplicas,        \* bound: rows ever created
    MaxDesired,         \* bound: the largest desired_replicas
    AutoscaleTargets,   \* the replica counts the autoscaler may ask for
    FailureThreshold,   \* failed probes that make a replica unhealthy
    MaxProbes,          \* bound: health probes ever claimed
    Requests,           \* gateway requests
    NoReplica           \* a request that holds no replica

ASSUME ServiceAssumption ==
    /\ MaxReplicas \in Nat \ {0}
    /\ MaxDesired \in 1..MaxReplicas
    /\ AutoscaleTargets \subseteq 0..MaxDesired
    /\ FailureThreshold \in Nat \ {0}
    /\ MaxProbes \in Nat
    /\ IsFiniteSet(Requests)
    /\ NoReplica \notin 0..(MaxReplicas - 1)

VARIABLES
    service,     \* desired_replicas and status of the ModelService row
    replica,     \* the ServiceReplica rows by ordinal
    request,     \* the replica each gateway request holds
    abandoned,   \* requests whose API process died before releasing them
    probing,     \* claimed health probes that have not reported yet
    probes       \* health probe tokens handed out so far

svars == <<service, replica, request, abandoned, probing, probes>>

Ordinals == 0..(MaxReplicas - 1)

ActiveStatus == {"pending", "starting", "loading", "running"}
DrainStatus == {"draining", "stopping"}
NonterminalStatus == ActiveStatus \cup DrainStatus
TerminalStatus == {"stopped", "failed", "lost"}
\* The statuses of a row that an execution is bound to and that has not ended.
BoundStatus == NonterminalStatus \ {"pending"}

Row == [status   : {"absent"} \cup NonterminalStatus \cup TerminalStatus,
        health   : {"unknown", "healthy", "unhealthy"},
        endpoint : BOOLEAN,                        \* endpoint_url is set
        lease    : {"none", "live", "expired"},    \* lease_expires_at
        requests : 0..Cardinality(Requests),       \* active_requests
        failures : 0..FailureThreshold,            \* health_failure_count, capped
        probe    : 0..MaxProbes,                   \* health_probe_token, 0 for none
        deadline : {"none", "live", "passed"},     \* drain_deadline
        error    : BOOLEAN]                        \* error_code of a row not ended

ServiceStatus ==
    {"pending", "deploying", "running", "degraded", "stopping", "stopped", "failed"}

NewRow(status) ==
    [status |-> status, health |-> "unknown", endpoint |-> FALSE, lease |-> "none",
     requests |-> 0, failures |-> 0, probe |-> 0, deadline |-> "none", error |-> FALSE]

Active(rows) == {i \in Ordinals : rows[i].status \in ActiveStatus}
Failing(rows) ==
    {i \in Ordinals : rows[i].status = "running" /\ rows[i].health = "unhealthy"}
Routable(rows) ==
    {i \in Ordinals : /\ rows[i].status = "running"
                      /\ rows[i].health = "healthy"
                      /\ rows[i].endpoint}

------------------------------------------------------------------------------
(* Row operators *)

DeriveServiceStatus(desired, rows) ==
    LET busy == \E i \in Ordinals : rows[i].status \in NonterminalStatus
        up == Cardinality(Routable(rows))
    IN  IF desired = 0 THEN IF busy THEN "stopping" ELSE "stopped"
        ELSE IF up >= desired THEN "running"
        ELSE IF up > 0 \/ Failing(rows) # {} THEN "degraded"
        ELSE IF busy THEN "deploying" ELSE "failed"

\* A row taken out of service.  A pending row has no execution yet.
RequestReplicaStop(row) ==
    CASE row.status = "pending" -> NewRow("stopped")
      [] row.status = "running" -> [row EXCEPT !.status = "draining", !.deadline = "live"]
      [] row.status \in {"starting", "loading"} ->
            [row EXCEPT !.status = "stopping", !.health = "unhealthy", !.endpoint = FALSE]
      [] OTHER -> row

\* An ended row.  Its failure count, drain deadline and error code stay in the
\* database for display; nothing reads them, so they are reset here.
EndedRow(status) == [NewRow(status) EXCEPT !.health = "unhealthy"]

ScaleDownRank(row) ==
    CASE row.status = "pending" -> 0
      [] row.status \in {"starting", "loading"} -> 1
      [] row.status = "running" /\ row.health = "unhealthy" -> 2
      [] row.status = "running" /\ row.health = "unknown" -> 3
      [] OTHER -> 4

\* Mutant: the newest replicas leave first, whatever their state.
NewestLeavesFirst(rows, i, j) == i > j
ScaleDownBefore(rows, i, j) ==
    \/ ScaleDownRank(rows[i]) < ScaleDownRank(rows[j])
    \/ ScaleDownRank(rows[i]) = ScaleDownRank(rows[j]) /\ i > j

\* The rows after reconcile_locked: failing replicas leave first, then the
\* excess in scale-down order, then the missing ones are created.
ReconciledRows(desired, rows) ==
    LET kept == [i \in Ordinals |->
                    IF i \in Failing(rows) THEN RequestReplicaStop(rows[i]) ELSE rows[i]]
        excess == Cardinality(Active(kept)) - desired
        Leaves(i) == /\ i \in Active(kept)
                     /\ Cardinality({j \in Active(kept) : ScaleDownBefore(kept, j, i)}) < excess
        reduced == [i \in Ordinals |->
                       IF Leaves(i) THEN RequestReplicaStop(kept[i]) ELSE kept[i]]
        missing == desired - Cardinality(Active(reduced))
        next == Cardinality({i \in Ordinals : rows[i].status # "absent"})
    IN  [i \in Ordinals |->
            IF i \in next..(next + missing - 1) THEN NewRow("pending") ELSE reduced[i]]

\* The rows after recover_expired_leases.
RecoveredRows(rows) ==
    [i \in Ordinals |->
        IF rows[i].status \in BoundStatus /\ rows[i].lease = "expired"
        THEN EndedRow(IF rows[i].status \in DrainStatus THEN "stopped" ELSE "lost")
        ELSE rows[i]]

------------------------------------------------------------------------------
(* Which call the repository accepts for row i *)

\* _owned_current_replica, of a bound row.
OwnedCurrent(i) == service.desired # 0 /\ replica[i].status \in BoundStatus

BindAccepted(i) == service.desired # 0 /\ replica[i].status = "pending"
RenewAccepted(i) ==
    \/ replica[i].status \in DrainStatus
    \/ service.desired # 0 /\ replica[i].status \in {"starting", "loading", "running"}
LoadingAccepted(i) == OwnedCurrent(i) /\ replica[i].status = "starting"
RunningAccepted(i) == OwnedCurrent(i) /\ replica[i].status \in {"starting", "loading"}
HealthAccepted(i) == OwnedCurrent(i) /\ replica[i].status = "running"
\* Mutant: an ended replica may be ended again.
TerminalAcceptedTwice(i) == replica[i].status \notin {"absent", "pending"}
TerminalAccepted(i) == replica[i].status \in BoundStatus

\* The row changes of the accepted calls.
BoundRow(row) == [row EXCEPT !.status = "starting", !.health = "unknown", !.requests = 0,
                             !.deadline = "none", !.error = FALSE, !.lease = "live"]
LoadingRow(row) == [row EXCEPT !.status = "loading", !.endpoint = TRUE, !.error = FALSE]
RunningRow(row) == [row EXCEPT !.status = "running", !.endpoint = TRUE, !.error = FALSE]
HealthRow(row, healthy) ==
    LET count == Min({row.failures + 1, FailureThreshold})
    IN  IF healthy
        THEN [row EXCEPT !.health = "healthy", !.failures = 0, !.error = FALSE]
        ELSE IF count >= FailureThreshold
             THEN [row EXCEPT !.failures = count, !.health = "unhealthy", !.error = TRUE]
             ELSE [row EXCEPT !.failures = count]
UnreadyRow(row) ==
    [row EXCEPT !.health = "unhealthy", !.error = TRUE,
                !.failures = Min({row.failures + 1, FailureThreshold})]
QuarantinedRow(row) ==
    [row EXCEPT !.health = "unhealthy", !.endpoint = FALSE, !.lease = "none", !.error = TRUE,
                !.failures = Min({row.failures + 1, FailureThreshold})]

\* A bound row whose lease and endpoint a quarantine took away.  Its controller
\* keeps it in item.quarantined or _quarantined_claims until a fenced cleanup of
\* the runtime succeeds; only a controller that starts anew may renew its lease.
Quarantined(row) == row.status \in BoundStatus /\ row.lease = "none" /\ ~row.endpoint

------------------------------------------------------------------------------
(* Bounds *)

\* Replicas the reconciler would have to create now; the bound MaxReplicas is
\* kept by not letting the environment ask for, or break, more than that.
Lacking ==
    service.desired
      - Cardinality({i \in Active(replica) \ Failing(replica) : replica[i].lease # "expired"})
Room == Lacking <= Cardinality({i \in Ordinals : replica[i].status = "absent"})

------------------------------------------------------------------------------
(* Transactions *)

\* A created service: the create route reconciles before it commits.
Init ==
    /\ \E n \in 1..MaxDesired :
          /\ replica = ReconciledRows(n, [i \in Ordinals |-> NewRow("absent")])
          /\ service = [desired |-> n, status |-> DeriveServiceStatus(n, replica)]
    /\ request = [r \in Requests |-> NoReplica]
    /\ abandoned = {}
    /\ probing = {}
    /\ probes = 0

\* Mutant: the service status is not refreshed.
RowsOnly(rows) == replica' = rows /\ UNCHANGED service

\* Every transaction on the rows that leaves desired_replicas alone and ends
\* with _refresh_service_status.
Refreshed(rows) ==
    /\ replica' = rows
    /\ service' = [service EXCEPT !.status = DeriveServiceStatus(service.desired, rows)]

GatewayUnchanged == UNCHANGED <<request, abandoned>>
ProbesUnchanged == UNCHANGED <<probing, probes>>

\* POST /services/{id}/scale: set_desired_replicas, then reconcile_locked.
Scale(n) ==
    /\ replica' = ReconciledRows(n, replica)
    /\ service' = [desired |-> n, status |-> DeriveServiceStatus(n, replica')]
    /\ GatewayUnchanged /\ ProbesUnchanged
    /\ Room'

\* The autoscaler: set_desired_replicas only.
Autoscale(n) ==
    /\ n # service.desired
    /\ service' = [desired |-> n, status |-> IF n = 0 THEN "stopping" ELSE "pending"]
    /\ UNCHANGED replica
    /\ GatewayUnchanged /\ ProbesUnchanged
    /\ Room'

\* Mutant: unhealthy replicas do not make the reconciler look at the service.
NeedsReconcileByCount(status, rows) ==
    \/ status = "pending"
    \/ service.desired # Cardinality(Active(rows))

\* reconcile_candidates_query.
NeedsReconcile(status, rows) ==
    \/ status = "pending"
    \/ service.desired # Cardinality(Active(rows))
    \/ Failing(rows) # {}

\* ServiceReconciler.run_once: recover_expired_leases and reconcile_batch in one
\* transaction.
ReconcilerRunOnce ==
    LET recovered == RecoveredRows(replica)
        status == IF recovered = replica THEN service.status
                  ELSE DeriveServiceStatus(service.desired, recovered)
    IN  /\ IF NeedsReconcile(status, recovered)
           THEN Refreshed(ReconciledRows(service.desired, recovered))
           ELSE /\ replica' = recovered
                /\ service' = [service EXCEPT !.status = status]
        /\ GatewayUnchanged /\ ProbesUnchanged

\* Reports of the runtime controller that owns the service.  It claims pending
\* rows, and renews the leases of the rows it holds, in one transaction each.
\* The claim binds the rows in S and ends the rows in invalid, whose runtime
\* profile snapshot is not valid; it does not refresh the service status.
ClaimPendingReplicas(S, invalid) ==
    /\ \A i \in S \cup invalid : BindAccepted(i)
    /\ replica' = [i \in Ordinals |-> IF i \in invalid THEN EndedRow("failed")
                                      ELSE IF i \in S THEN BoundRow(replica[i])
                                      ELSE replica[i]]
    /\ UNCHANGED service
    /\ GatewayUnchanged /\ ProbesUnchanged
    /\ Room'

RenewReplicaLeases(S) ==
    /\ \A i \in S : RenewAccepted(i)
    /\ replica' = [i \in Ordinals |->
                      IF i \in S THEN [replica[i] EXCEPT !.lease = "live"] ELSE replica[i]]
    /\ UNCHANGED service
    /\ GatewayUnchanged /\ ProbesUnchanged

MarkReplicaLoading(i) ==
    /\ LoadingAccepted(i)
    /\ Refreshed([replica EXCEPT ![i] = LoadingRow(@)])
    /\ GatewayUnchanged /\ ProbesUnchanged

\* mark_replica_running and, in the same transaction, the first health report.
PublishReady(i) ==
    /\ RunningAccepted(i)
    /\ Refreshed([replica EXCEPT ![i] = HealthRow(RunningRow(@), TRUE)])
    /\ GatewayUnchanged /\ ProbesUnchanged

\* What a controller sees of its runtime later; one unready report is enough.
\* A replica it has quarantined is cleaned up and not inspected.
ReportReady(i) ==
    /\ HealthAccepted(i) /\ ~Quarantined(replica[i])
    /\ Refreshed([replica EXCEPT ![i] = HealthRow(@, TRUE)])
    /\ GatewayUnchanged /\ ProbesUnchanged

ReportUnready(i) ==
    /\ HealthAccepted(i)
    /\ Refreshed([replica EXCEPT ![i] = UnreadyRow(@)])
    /\ GatewayUnchanged /\ ProbesUnchanged
    /\ Room'

QuarantineReplicaRuntime(i) ==
    /\ TerminalAccepted(i)
    /\ Refreshed([replica EXCEPT ![i] = QuarantinedRow(@)])
    /\ GatewayUnchanged /\ ProbesUnchanged
    /\ Room'

\* Mutant: the end of a replica does not refresh the service status.
MarkTerminalNoRefresh(i, status) ==
    /\ TerminalAccepted(i)
    /\ RowsOnly([replica EXCEPT ![i] = EndedRow(status)])
    /\ GatewayUnchanged /\ ProbesUnchanged
    /\ Room'

MarkReplicaTerminal(i, status) ==
    /\ TerminalAccepted(i)
    /\ Refreshed([replica EXCEPT ![i] = EndedRow(status)])
    /\ GatewayUnchanged /\ ProbesUnchanged
    /\ Room'

\* The health prober: claim a probe, make the HTTP call, record the outcome.
\* A claim that has run out may be taken over by a new token.
ClaimProbe(i) ==
    /\ probes < MaxProbes
    /\ service.desired > 0
    /\ replica[i].status = "running" /\ replica[i].endpoint
    /\ probes' = probes + 1
    /\ replica' = [replica EXCEPT ![i].probe = probes']
    /\ probing' = probing \cup {<<i, probes'>>}
    /\ UNCHANGED service
    /\ GatewayUnchanged

RecordProbe(p, healthy) ==
    LET i == p[1]
    IN  /\ p \in probing
        /\ probing' = probing \ {p}
        /\ IF HealthAccepted(i) /\ replica[i].probe = p[2]
           THEN Refreshed([replica EXCEPT ![i] = [HealthRow(@, healthy) EXCEPT !.probe = 0]])
           ELSE UNCHANGED <<service, replica>>
        /\ UNCHANGED probes
        /\ GatewayUnchanged
        /\ Room'

\* The gateway: acquire a replica for a request, release it afterwards.  The
\* round-robin position is abstracted to any routable replica.
ChooseHealthyEndpoint(r, i) ==
    /\ request[r] = NoReplica /\ r \notin abandoned
    /\ service.desired # 0
    /\ i \in Routable(replica)
    /\ replica' = [replica EXCEPT ![i].requests = @ + 1]
    /\ request' = [request EXCEPT ![r] = i]
    /\ UNCHANGED <<service, abandoned>>
    /\ ProbesUnchanged

\* Mutant: the release trusts its counter.
ReleaseUnchecked(r) ==
    /\ request[r] # NoReplica /\ r \notin abandoned
    /\ replica' = [replica EXCEPT ![request[r]].requests = @ - 1]
    /\ request' = [request EXCEPT ![r] = NoReplica]
    /\ UNCHANGED <<service, abandoned>>
    /\ ProbesUnchanged

ReleaseEndpointRequest(r) ==
    /\ request[r] # NoReplica /\ r \notin abandoned
    /\ replica' = IF replica[request[r]].requests > 0
                  THEN [replica EXCEPT ![request[r]].requests = @ - 1]
                  ELSE replica
    /\ request' = [request EXCEPT ![r] = NoReplica]
    /\ UNCHANGED <<service, abandoned>>
    /\ ProbesUnchanged

\* The API process dies while the request holds its replica.
AbandonRequest(r) ==
    /\ request[r] # NoReplica /\ r \notin abandoned
    /\ abandoned' = abandoned \cup {r}
    /\ UNCHANGED <<service, replica, request>>
    /\ ProbesUnchanged

\* The database clock passes a lease or a drain deadline.
LeaseExpires(i) ==
    /\ replica[i].lease = "live"
    /\ replica' = [replica EXCEPT ![i].lease = "expired"]
    /\ UNCHANGED service
    /\ GatewayUnchanged /\ ProbesUnchanged
    /\ Room'

DrainDeadlinePasses(i) ==
    /\ replica[i].deadline = "live" /\ replica[i].status = "draining"
    /\ replica' = [replica EXCEPT ![i].deadline = "passed"]
    /\ UNCHANGED service
    /\ GatewayUnchanged /\ ProbesUnchanged

ControllerReport ==
    \/ \E S \in SUBSET {i \in Ordinals : RenewAccepted(i)} : RenewReplicaLeases(S)
    \/ \E S, invalid \in SUBSET {i \in Ordinals : BindAccepted(i)} :
          S \cap invalid = {} /\ ClaimPendingReplicas(S, invalid)
    \/ \E i \in Ordinals :
          \/ MarkReplicaLoading(i)
          \/ PublishReady(i)
          \/ ReportReady(i)
          \/ ReportUnready(i)
          \/ QuarantineReplicaRuntime(i)
          \/ \E status \in TerminalStatus : MarkReplicaTerminal(i, status)

Environment ==
    \/ \E n \in 0..MaxDesired : Scale(n)
    \/ \E n \in AutoscaleTargets : Autoscale(n)
    \/ \E i \in Ordinals : ClaimProbe(i) \/ LeaseExpires(i) \/ DrainDeadlinePasses(i)
    \/ \E p \in probing, healthy \in BOOLEAN : RecordProbe(p, healthy)
    \/ \E r \in Requests : AbandonRequest(r)

Gateway ==
    \E r \in Requests :
        \/ \E i \in Ordinals : ChooseHealthyEndpoint(r, i)
        \/ ReleaseEndpointRequest(r)

Next == ReconcilerRunOnce \/ ControllerReport \/ Environment \/ Gateway

Spec == Init /\ [][Next]_svars

\* The controller ends a replica that was asked to stop once nothing holds it.  It
\* skips a quarantined one, which has no lease that could expire either.
StopCompletes(i) ==
    /\ ~Quarantined(replica[i])
    /\ \/ replica[i].status = "stopping"
       \/ /\ replica[i].status = "draining"
          /\ replica[i].requests = 0 \/ replica[i].deadline = "passed"
    /\ MarkReplicaTerminal(i, "stopped")

\* Every cycle of the controller quarantines again what it could not clean up.
QuarantineAgain(i) == Quarantined(replica[i]) /\ QuarantineReplicaRuntime(i)

\* The reconciler and the controllers are periodic loops and the clock moves.  That
\* the cleanup of a quarantined replica ever succeeds is not assumed.
Fairness ==
    /\ WF_svars(ReconcilerRunOnce)
    /\ \A i \in Ordinals : /\ WF_svars(StopCompletes(i))
                           /\ WF_svars(QuarantineAgain(i))
                           /\ WF_svars(DrainDeadlinePasses(i))

FairSpec == Spec /\ Fairness

------------------------------------------------------------------------------
(* Properties *)

\* Every row and counter has the type its column allows.
TypeOK ==
    /\ service \in [desired : 0..MaxDesired, status : ServiceStatus]
    /\ replica \in [Ordinals -> Row]
    /\ request \in [Requests -> Ordinals \cup {NoReplica}]
    /\ abandoned \subseteq Requests
    /\ probing \subseteq Ordinals \X (1..MaxProbes)
    /\ probes \in 0..MaxProbes

\* active_requests is exact: a live replica counts every request that holds it,
\* those of dead API processes included, and an ended replica counts none, so a
\* late release can neither underflow a counter nor free another request's slot.
RequestsCounted ==
    \A i \in Ordinals :
        replica[i].requests =
            IF replica[i].status \in NonterminalStatus
            THEN Cardinality({r \in Requests : request[r] = i}) ELSE 0

\* An ended replica row is never changed by a late probe, release, renewal,
\* report or reconciliation.
EndedRowsAreFinal ==
    [][\A i \in Ordinals : replica[i].status \in TerminalStatus
          => replica'[i] = replica[i]]_svars

\* A transaction that drains a healthy replica leaves no replica in service that
\* was waiting, starting or unhealthy before it (_scale_down_order).
HealthyDrainedLast ==
    [][(\E i \in Ordinals : i \in Routable(replica) /\ replica'[i].status = "draining")
          => \A j \in Active(replica') :
                replica[j].status = "running" /\ replica[j].health = "healthy"]_svars

\* Service.status is the aggregate of the replica rows, or becomes it.
StatusSettles ==
    (service.status # DeriveServiceStatus(service.desired, replica))
      ~> (service.status = DeriveServiceStatus(service.desired, replica))

\* A service that is scaled to zero ends up stopped unless it is scaled again or a
\* quarantined replica, which only a successful cleanup ends, is still there.
ZeroMeansStopped ==
    (service.desired = 0)
      ~> \/ service.status = "stopped" \/ service.desired # 0
         \/ \E i \in Ordinals : Quarantined(replica[i])

\* A running replica that was quarantined does not stay in service: it is drained
\* and replaced, or ended, although a health probe claimed before the quarantine
\* may report it healthy afterwards and hide it from the reconciler
\* (quarantine_replica_runtime, record_replica_health, reconcile_candidates_query).
\* A controller that starts anew may adopt it before that.
QuarantinedLeavesService ==
    \A i \in Ordinals :
        (replica[i].status = "running" /\ Quarantined(replica[i]))
          ~> ~(replica[i].status = "running" /\ Quarantined(replica[i]))
==============================================================================
