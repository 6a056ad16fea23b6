----------------------- MODULE TaskControlStepProofs -----------------------
(***************************************************************************)
(* What a step of TaskControl may never do, from the inductive invariant   *)
(* Core of TaskControlCore.  Steady says what every step keeps: ended      *)
(* tasks and released reservations, a recorded cancellation, the task of   *)
(* an execution; and how open preemption plans follow their victims.  Four *)
(* theorems follow from it.                                                *)
(***************************************************************************)
EXTENDS TaskControlProofs

(* What no step may do to a task row T, which it turns into U.             *)
TaskSteady(T, U) ==
  /\ T.status \in Final => U = T
  /\ T.status = "stopping" => U.status \in {"stopping", "cancelled"}
  /\ T.status = "preempting" /\ T.userCancelled =>
       \/ U.status = "preempting" /\ U.userCancelled
       \/ U.status = "cancelled"

(* What no step may do to a reservation row S, which it turns into Q.      *)
ReservationSteady(S, Q) ==
  /\ S.state = "released" => Q = S
  /\ S.state # "none" => Q.state # "none" /\ Q.task = S.task
  /\ S.state = "none" /\ Q.state # "none" => DependenciesReady(Q.task)

(* Every row is steady, and the plans change only with their victims.      *)
Steady ==
  /\ \A t \in Tasks : TaskSteady(task[t], task'[t])
  /\ \A e \in ExecIds : ReservationSteady(reservation[e], reservation'[e])
  /\ \/ /\ plans' = plans
        /\ \A t \in Tasks : task'[t].status = "preempting" <=> task[t].status = "preempting"
     \/ \E t \in Tasks :
        /\ plans' = CompletePreemptionPlans(t)
        /\ task'[t].status # "preempting"
        /\ \A u \in Tasks \ {t} : task'[u].status = task[u].status
     \/ \E t \in Tasks, chosen \in SUBSET Tasks :
        /\ plans' = plans \cup {[incoming |-> t, victim |-> v] : v \in chosen}
        /\ \A u \in Tasks : task'[u].status = IF u \in chosen THEN "preempting" ELSE task[u].status


(* One task row changes and no reservation or plan does.                   *)
LEMMA OneRowSteady ==
  ASSUME NEW t \in Tasks,
         \A u \in Tasks \ {t} : task'[u] = task[u],
         TaskSteady(task[t], task'[t]),
         task'[t].status = "preempting" <=> task[t].status = "preempting",
         UNCHANGED <<reservation, plans>>
  PROVE  Steady
BY DEF Steady, TaskSteady, ReservationSteady, Final

(* Submissions and cancellations are steady.                               *)
LEMMA UserSteady ==
  ASSUME Core, UserStep
  PROVE  Steady
<1>1. ASSUME NEW t \in Tasks, CreateQueued(t)
      PROVE  Steady
  <2>1. /\ task[t].status = "absent"
        /\ task'[t].status \in {"cancelled", "queued", "pending"}
        /\ \A u \in Tasks \ {t} : task'[u] = task[u]
    BY <1>1 DEF CreateQueued, Core, TypeOK, TaskRow
  <2>2. UNCHANGED <<reservation, plans>>
    BY <1>1 DEF CreateQueued
  <2> QED  BY <2>1, <2>2, OneRowSteady, ZenonT(60) DEF TaskSteady, Final
<1>2. ASSUME NEW t \in Tasks, CancelPreempting(t)
      PROVE  Steady
  <2>1. /\ task[t].status = "preempting" /\ task'[t].status = "preempting"
        /\ task'[t].userCancelled /\ \A u \in Tasks \ {t} : task'[u] = task[u]
    BY <1>2, ZenonT(60) DEF CancelPreempting, Core, TypeOK, TaskRow
  <2>2. UNCHANGED <<reservation, plans>>
    BY <1>2, ZenonT(60) DEF CancelPreempting
  <2> QED  BY <2>1, <2>2, OneRowSteady, ZenonT(60) DEF TaskSteady, Final
<1>3. ASSUME NEW t \in Tasks, CancelActive(t)
      PROVE  Steady
  <2>1. /\ task[t].status \in Active \ {"preempting"} /\ task'[t].status = "stopping"
        /\ \A u \in Tasks \ {t} : task'[u] = task[u]
    BY <1>3, ZenonT(60) DEF CancelActive, Core, TypeOK, TaskRow
  <2>2. UNCHANGED <<reservation, plans>>
    BY <1>3, ZenonT(60) DEF CancelActive
  <2> QED  BY <2>1, <2>2, OneRowSteady, ZenonT(60) DEF TaskSteady, Final, Active
<1>4. ASSUME NEW t \in Tasks, CancelWaiting(t)
      PROVE  Steady
  <2> DEFINE R == [task[t] EXCEPT !.status = "cancelled", !.cancelRequested = TRUE,
                     !.userCancelled = TRUE, !.lease = "none", !.exec = NoExec]
  <2>1. task' = [task EXCEPT ![t] = R] /\ task[t].status \in Waiting
    BY <1>4, ZenonT(60) DEF CancelWaiting
  <2>2. R.status = "cancelled"
    BY DEF Core, TypeOK, TaskRow
  <2> HIDE DEF R
  <2>3. task'[t] = R /\ \A u \in Tasks \ {t} : task'[u] = task[u]
    BY <2>1, ZenonT(60) DEF Core, TypeOK
  <2>4. UNCHANGED <<reservation, plans>>
    BY <1>4 DEF CancelWaiting
  <2> QED  BY <2>1, <2>2, <2>3, <2>4, OneRowSteady, ZenonT(60)
              DEF TaskSteady, Final, Waiting
<1> QED  BY <1>1, <1>2, <1>3, <1>4, ZenonT(60) DEF UserStep

(* Reports that keep the status, or advance it.                            *)
LEMMA ReportSteady ==
  ASSUME Core, NEW k \in tokens,
         \/ MarkPulling(k) \/ MarkStarting(k) \/ MarkRunning(k)
         \/ RecordRuntimeHandle(k) \/ PreserveHandoffLease(k) \/ RenewLease(k)
  PROVE  Steady
<1>1. ASSUME NEW from \in SUBSET Active, NEW to \in Active, NEW repeats \in SUBSET Active,
             {"stopping", "preempting"} \cap (from \cup {to}) = {},
             Advance(k, from, to, repeats)
      PROVE  Steady
  <2> DEFINE e == k[1]
             t == reservation[e].task
             starts == task[t].status \in from /\ to = "running"
             s == IF task[t].status \in from THEN to ELSE task[t].status
             R == [task[t] EXCEPT !.status = s, !.lease = "live",
                                  !.started = task[t].started \/ starts]
             S == [reservation[e] EXCEPT !.ran = reservation[e].ran \/ starts]
  <2>1. /\ e \in ExecIds /\ t \in Tasks /\ task[t].status \in Active
        /\ reservation[e].state = "active"
    BY <1>1, OwnedFacts, ZenonT(60) DEF Advance, TaskOf
  <2>2. task' = [task EXCEPT ![t] = R] /\ reservation' = [reservation EXCEPT ![e] = S]
    BY <1>1, ZenonT(60) DEF Advance, TaskOf
  <2>3. task[t] \in TaskRow /\ reservation[e] \in ReservationRow
    BY <2>1, ZenonT(60) DEF Core, TypeOK
  <2> HIDE DEF s
  <2>4. R.status = s /\ R.userCancelled = task[t].userCancelled
    BY <2>3, ZenonT(60) DEF TaskRow
  <2>5. S.state = "active" /\ S.task = t
    BY <2>1, <2>3, ZenonT(60) DEF ReservationRow
  <2> HIDE DEF R, S
  <2>6. /\ task'[t] = R /\ \A u \in Tasks \ {t} : task'[u] = task[u]
        /\ reservation'[e] = S
        /\ \A f \in ExecIds \ {e} : reservation'[f] = reservation[f]
    BY <2>1, <2>2, ZenonT(60) DEF Core, TypeOK
  <2>7. \A f \in ExecIds : ReservationSteady(reservation[f], reservation'[f])
    BY <2>1, <2>5, <2>6, ZenonT(60) DEF ReservationSteady
  <2>8. s = "preempting" <=> task[t].status = "preempting"
    BY <1>1, ZenonT(60) DEF s
  <2>9. s = "stopping" <=> task[t].status = "stopping"
    BY <1>1, ZenonT(60) DEF s
  <2>10. \A u \in Tasks : TaskSteady(task[u], task'[u])
    BY <2>1, <2>4, <2>6, <2>8, <2>9, ZenonT(60) DEF TaskSteady, Final, Active
  <2>11. plans' = plans
    BY <1>1 DEF Advance
  <2> QED  BY <2>4, <2>6, <2>7, <2>8, <2>10, <2>11, ZenonT(60) DEF Steady
<1>2. CASE MarkPulling(k) \/ MarkStarting(k) \/ MarkRunning(k)
  BY <1>1, <1>2, ZenonT(60) DEF MarkPulling, MarkStarting, MarkRunning, Active
<1>3. CASE RecordRuntimeHandle(k) \/ PreserveHandoffLease(k) \/ RenewLease(k)
  <2> DEFINE t == TaskOf(k)
  <2>1. t \in Tasks /\ task[t] \in TaskRow /\ task[t].status \in Active
    BY <1>3, OwnedFacts, ZenonT(60)
       DEF RecordRuntimeHandle, PreserveHandoffLease, RenewLease,
                            Core, TypeOK
  <2>2. /\ task'[t].status = task[t].status
        /\ task'[t].userCancelled = task[t].userCancelled
        /\ \A u \in Tasks \ {t} : task'[u] = task[u]
    BY <1>3, <2>1, SMTT(30), Z3T(30)
       DEF RecordRuntimeHandle, PreserveHandoffLease, RenewLease, Core,
                      TypeOK, TaskRow
  <2>3. UNCHANGED <<reservation, plans>>
    BY <1>3 DEF RecordRuntimeHandle, PreserveHandoffLease, RenewLease
  <2> HIDE DEF t
  <2> QED  BY <2>1, <2>2, <2>3, OneRowSteady DEF TaskSteady, Final, Active
<1> QED  BY <1>2, <1>3, ZenonT(60)

(* A cancelled task ends cancelled whatever is reported for it.            *)
LEMMA CancelledTarget ==
  ASSUME NEW T, T.cancelRequested, NEW reported,
         T.status = "stopping" \/ (T.status = "preempting" /\ T.userCancelled)
  PROVE  FinishTarget(T, reported) = "cancelled"
BY ZenonT(60) DEF FinishTarget, CancellationWins

(* The end of an execution: its own row and reservation, and the plans it  *)
(* was the victim of.                                                      *)
LEMMA EndSteady ==
  ASSUME Core, NEW t \in Tasks, task[t].status \in Active, NEW e, e = task[t].exec,
         ReleaseAndSettle(t, e), NEW R \in TaskRow,
         task' = [task EXCEPT ![t] = R],
         plans' = IF task[t].status = "preempting" THEN CompletePreemptionPlans(t) ELSE plans,
         R.status \notin Active,
         task[t].status = "stopping" \/ (task[t].status = "preempting" /\ task[t].userCancelled)
           => R.status = "cancelled"
  PROVE  Steady
<1>1. /\ task'[t] = R /\ \A u \in Tasks \ {t} : task'[u] = task[u]
  BY ZenonT(60) DEF Core, TypeOK
<1>2. e \in ExecIds /\ reservation[e].state = "active" /\ reservation[e].task = t
  BY ActiveFacts, ZenonT(60)
<1>3. PICK S \in ReservationRow : /\ reservation' = [reservation EXCEPT ![e] = S]
                                  /\ S.state = "released" /\ S.task = t
  BY ReleaseAndSettleTypes, SMTT(30), Z3T(30)
<1>4. /\ reservation'[e] = S
      /\ \A f \in ExecIds \ {e} : reservation'[f] = reservation[f]
  BY <1>2, <1>3, ZenonT(60) DEF Core, TypeOK
<1>5. \A f \in ExecIds : ReservationSteady(reservation[f], reservation'[f])
  BY <1>2, <1>3, <1>4, ZenonT(60) DEF ReservationSteady
<1>6. \A u \in Tasks : TaskSteady(task[u], task'[u])
  BY <1>1, ZenonT(60) DEF TaskSteady, Active, Final
<1>7. R.status # "preempting"
  BY DEF Active
<1> QED  BY <1>1, <1>5, <1>6, <1>7, ZenonT(60) DEF Steady

(* finish_execution is steady.                                             *)
LEMMA FinishSteady ==
  ASSUME Core, NEW k \in tokens, NEW o \in Outcomes, FinishExecution(k, o)
  PROVE  Steady
<1> DEFINE e == k[1]
           t == TaskOf(k)
           T == task[t]
           target == FinishTarget(T, o.target)
           n == IF target \in Failure THEN T.retries + 1 ELSE T.retries
           stopped == T.status = "stopping" \/ (T.status = "preempting" /\ T.userCancelled)
<1>1. t \in Tasks /\ T.exec = e /\ T.status \in Active
  BY OwnedFacts, ZenonT(60) DEF FinishExecution
<1>2. T \in TaskRow /\ TaskRowOK(T, terminalEvents[t])
  BY <1>1, CoreRows, ZenonT(60) DEF Core, TypeOK, RowFacts
<1>3. target \in Final
  BY FinishTargetFinal, SMTT(30), Z3T(30) DEF Outcomes, Final
<1>4. stopped => target = "cancelled"
  BY <1>2, CancelledTarget, ZenonT(60) DEF TaskRowOK
<1>5. /\ ReleaseAndSettle(t, e)
      /\ plans' = IF T.status = "preempting" THEN CompletePreemptionPlans(t) ELSE plans
  BY DEF FinishExecution
<1>6. CASE /\ RetryAllowed(T, target, o)
           /\ task' = [task EXCEPT ![t] =
                [Retry(T) EXCEPT !.retries = IF target \in Failure THEN @ + 1 ELSE @,
                                 !.userCancelled = FALSE]]
  <2> DEFINE R == [Retry(T) EXCEPT !.retries = IF target \in Failure THEN @ + 1 ELSE @,
                                   !.userCancelled = FALSE]
  <2>1. Retry(T).retries = T.retries /\ T.retries \in Nat
    BY <1>2, ZenonT(60) DEF TaskRow, Retry
  <2>2. n \in Nat /\ R = [Retry(T) EXCEPT !.retries = n, !.userCancelled = FALSE]
    BY <2>1, SMTT(30), Z3T(30)
  <2>3. ~ stopped
    BY <1>4, <1>6, ZenonT(60) DEF RetryAllowed, Failure
  <2> HIDE DEF R, t, e, T, n
  <2>4. R \in TaskRow /\ R.status = "retrying"
    BY <1>2, <2>2, RetryRow, ZenonT(60)
  <2>5. R.status \notin Active
    BY <2>4 DEF Active
  <2> QED  BY <1>1, <1>5, <1>6, <2>3, <2>4, <2>5, EndSteady, ZenonT(60) DEF R, T
<1>7. CASE task' = [task EXCEPT ![t].status = target, ![t].lease = "none",
                                ![t].userCancelled = (target = "cancelled")]
  <2> DEFINE R == [T EXCEPT !.status = target, !.lease = "none",
                            !.userCancelled = (target = "cancelled")]
  <2>1. task' = [task EXCEPT ![t] = R]
    BY <1>7, ZenonT(60)
  <2>a. target \in TaskStatus /\ (target = "cancelled") \in BOOLEAN
    BY <1>3 DEF TaskStatus, Final
  <2> HIDE DEF target, T
  <2>2. R \in TaskRow /\ R.status = target
    BY <1>2, <2>a, ZenonT(60) DEF TaskRow
  <2>3. R.status \notin Active
    BY <1>3, <2>2 DEF Active, Final
  <2> HIDE DEF R, t, e, T
  <2> QED  BY <1>1, <1>4, <1>5, <2>1, <2>2, <2>3, EndSteady, ZenonT(60) DEF T
<1> QED  BY <1>6, <1>7, ZenonT(60) DEF FinishExecution

(* recover_expired is steady.                                              *)
LEMMA RecoverSteady ==
  ASSUME Core, NEW t \in Tasks, RecoverExpired(t)
  PROVE  Steady
<1> DEFINE T == task[t]
           e == T.exec
           target == FinishTarget(T, "failed")
           stopped == T.status = "stopping" \/ (T.status = "preempting" /\ T.userCancelled)
<1>1. T.status \in Active /\ T \in TaskRow /\ TaskRowOK(T, terminalEvents[t])
  BY CoreRows DEF RecoverExpired, Recoverable, Core, TypeOK, RowFacts
<1>2. target \in Final
  BY FinishTargetFinal, ZenonT(60) DEF Final
<1>3. stopped => target = "cancelled"
  BY <1>1, CancelledTarget, ZenonT(60) DEF TaskRowOK
<1>4. /\ ReleaseAndSettle(t, e)
      /\ plans' = IF T.status = "preempting" THEN CompletePreemptionPlans(t) ELSE plans
  BY DEF RecoverExpired
<1>5. CASE /\ target \in {"preempted", "failed"}
           /\ task' = [task EXCEPT ![t] =
                [Retry(T) EXCEPT
                   !.recoveries = IF target = "failed" THEN @ + 1 ELSE @,
                   !.userCancelled = FALSE]]
  <2> DEFINE R == [Retry(T) EXCEPT
                     !.recoveries = IF target = "failed" THEN @ + 1 ELSE @,
                     !.userCancelled = FALSE]
             n == IF target = "failed" THEN T.recoveries + 1 ELSE T.recoveries
  <2>1. Retry(T).recoveries = T.recoveries /\ T.recoveries \in Nat
    BY <1>1 DEF TaskRow, Retry
  <2>2. n \in Nat /\ R = [Retry(T) EXCEPT !.recoveries = n, !.userCancelled = FALSE]
    BY <2>1
  <2>3. ~ stopped
    BY <1>3, <1>5, ZenonT(60)
  <2> HIDE DEF R, T, n
  <2>4. R \in TaskRow /\ R.status = "retrying"
    BY <1>1, <2>2, RecoveredRow, ZenonT(60)
  <2>5. R.status \notin Active
    BY <2>4 DEF Active
  <2> QED  BY <1>1, <1>4, <1>5, <2>3, <2>4, <2>5, EndSteady, ZenonT(60) DEF R, T
<1>6. CASE task' = [task EXCEPT ![t] =
             [[T EXCEPT !.worker = NoWorker, !.exec = NoExec, !.lease = "none"]
                EXCEPT !.status = target, !.userCancelled = (target = "cancelled")]]
  <2> DEFINE R == [[T EXCEPT !.worker = NoWorker, !.exec = NoExec, !.lease = "none"]
                     EXCEPT !.status = target, !.userCancelled = (target = "cancelled")]
  <2>1. task' = [task EXCEPT ![t] = R]
    BY <1>6, ZenonT(60)
  <2>a. target \in TaskStatus /\ (target = "cancelled") \in BOOLEAN
    BY <1>2 DEF TaskStatus, Final
  <2> DEFINE Q == [T EXCEPT !.worker = NoWorker, !.exec = NoExec, !.lease = "none"]
  <2> HIDE DEF target, T
  <2>b. Q \in TaskRow
    BY <1>1, ZenonT(60) DEF TaskRow, NoExec
  <2> HIDE DEF Q
  <2>2. R \in TaskRow /\ R.status = target
    <3>1. R = [Q EXCEPT !.status = target, !.userCancelled = (target = "cancelled")]
      BY DEF Q
    <3> QED  BY <2>a, <2>b, <3>1, ZenonT(60) DEF TaskRow
  <2>3. R.status \notin Active
    BY <1>2, <2>2, ZenonT(60) DEF Active, Final
  <2> HIDE DEF R, T
  <2> QED  BY <1>1, <1>3, <1>4, <2>1, <2>2, <2>3, EndSteady, ZenonT(60) DEF T
<1> QED  BY <1>5, <1>6, ZenonT(60) DEF RecoverExpired

(* The reaper's scans are steady.                                          *)
LEMMA ReaperSteady ==
  ASSUME Core, ReaperStep
  PROVE  Steady
<1>1. ASSUME NEW t \in Tasks, ResolveDependencyReadiness(t)
      PROVE  Steady
  <2>1. /\ task[t].status \in {"pending", "queued"}
        /\ task'[t].status \in {"cancelled", "queued"}
        /\ \A u \in Tasks \ {t} : task'[u] = task[u]
    BY <1>1, SMTT(30), Z3T(30) DEF ResolveDependencyReadiness, Core, TypeOK, TaskRow
  <2>2. UNCHANGED <<reservation, plans>>
    BY <1>1, ZenonT(60) DEF ResolveDependencyReadiness
  <2> QED  BY <2>1, <2>2, OneRowSteady, ZenonT(60) DEF TaskSteady, Final
<1>2. ASSUME NEW t \in Tasks, ReleaseDueRetries(t)
      PROVE  Steady
  <2>1. /\ task[t].status = "retrying" /\ task'[t].status \in {"cancelled", "queued"}
        /\ \A u \in Tasks \ {t} : task'[u] = task[u]
    BY <1>2, ZenonT(60) DEF ReleaseDueRetries, Core, TypeOK, TaskRow
  <2>2. UNCHANGED <<reservation, plans>>
    BY <1>2 DEF ReleaseDueRetries
  <2> QED  BY <2>1, <2>2, OneRowSteady, ZenonT(60) DEF TaskSteady, Final
<1> QED  BY <1>1, <1>2, RecoverSteady, ZenonT(60) DEF ReaperStep

(* Claims, placements and preemption requests are steady.                  *)
LEMMA SchedulerSteady ==
  ASSUME Core, SchedulerStep
  PROVE  Steady
<1>1. ASSUME NEW t \in Tasks, NEW w \in Workers, NEW devs \in SUBSET Devices,
             NEW e \in ExecIds, Claim(t, w, devs, e) \/ Place(t, w, devs, e)
      PROVE  Steady
  <2> DEFINE P == PrepareForAssignment(task[t])
             R == [P EXCEPT !.status = "assigned", !.worker = w, !.exec = e,
                            !.lease = "live"]
  <2>1. /\ Assign(t, w, devs, e) /\ task[t].status = "queued" /\ DependenciesReady(t)
    BY <1>1 DEF Claim, Place, Schedulable
  <2>2. task' = [task EXCEPT ![t] = R] /\ reservation[e].state = "none" /\ plans' = plans
    BY <2>1, Zenon DEF Assign
  <2>3. P \in TaskRow
    <3>1. task[t] \in TaskRow
      BY DEF Core, TypeOK
    <3> QED  BY <3>1, ZenonT(60) DEF TaskRow, PrepareForAssignment
  <2> HIDE DEF P
  <2>4. R.status = "assigned"
    BY <2>3, ZenonT(60) DEF TaskRow
  <2> HIDE DEF R
  <2>5. task'[t] = R /\ \A u \in Tasks \ {t} : task'[u] = task[u]
    BY <2>2, ZenonT(60) DEF Core, TypeOK
  <2>6. /\ reservation'[e].task = t
        /\ \A f \in ExecIds \ {e} : reservation'[f] = reservation[f]
    BY <2>1, ZenonT(60) DEF Assign, Core, TypeOK
  <2>7. \A f \in ExecIds : ReservationSteady(reservation[f], reservation'[f])
    BY <2>1, <2>2, <2>6, ZenonT(60) DEF ReservationSteady
  <2>8. \A u \in Tasks : TaskSteady(task[u], task'[u])
    BY <2>1, <2>4, <2>5, ZenonT(60) DEF TaskSteady, Final
  <2> QED  BY <2>1, <2>2, <2>4, <2>5, <2>7, <2>8, ZenonT(60) DEF Steady
<1>2. ASSUME NEW t \in Tasks, NEW w \in Workers, NEW aging, NEW chosen \in SUBSET Tasks,
             RequestPreemption(t, w, aging, chosen)
      PROVE  Steady
  <2>1. \A v \in Tasks \ chosen : task'[v] = task[v]
    BY <1>2, ZenonT(60) DEF RequestPreemption
  <2>2. \A v \in chosen : /\ task'[v].status = "preempting"
                          /\ task[v].status \in Active \ {"stopping", "preempting"}
    <3>1. \A v \in chosen : task[v].status \in Active \ {"stopping", "preempting"}
      BY <1>2, ZenonT(60) DEF RequestPreemption, IsVictimChoice, Victims, Active
    <3>2. \A v \in chosen : task'[v].status = "preempting"
      BY <1>2, ZenonT(60) DEF RequestPreemption, Core, TypeOK, TaskRow
    <3> QED  BY <3>1, <3>2, ZenonT(60)
  <2>3. /\ plans' = plans \cup {[incoming |-> t, victim |-> v] : v \in chosen}
        /\ UNCHANGED reservation
    BY <1>2, ZenonT(60) DEF RequestPreemption
  <2>4. \A u \in Tasks : TaskSteady(task[u], task'[u])
    BY <2>1, <2>2, ZenonT(60) DEF TaskSteady, Final, Active
  <2>5. \A u \in Tasks : task'[u].status = IF u \in chosen THEN "preempting"
                                           ELSE task[u].status
    BY <2>1, <2>2, ZenonT(60)
  <2>6. \A e \in ExecIds : ReservationSteady(reservation[e], reservation'[e])
    BY <2>3, ZenonT(60) DEF ReservationSteady
  <2> QED  BY <2>3, <2>4, <2>5, <2>6, ZenonT(60) DEF Steady
<1> QED  BY <1>1, <1>2, ZenonT(60) DEF SchedulerStep

(* Worker rows, assignments taken and adoptions are steady.                *)
LEMMA WorkerSteady ==
  ASSUME Core, WorkerStep
  PROVE  Steady
<1>1. CASE UNCHANGED <<task, reservation, plans>>
  BY <1>1, ZenonT(60) DEF Steady, TaskSteady, ReservationSteady, Final
<1>2. ASSUME NEW e \in ExecIds, TakeGlobalAssignment(e)
      PROVE  Steady
  <2> DEFINE t == reservation[e].task
  <2>1. t \in Tasks /\ task[t].status = "assigned" /\ task[t] \in TaskRow
    BY <1>2, ZenonT(60)
       DEF TakeGlobalAssignment, Core, TypeOK, SingleActiveExecution,
                ActiveReservations
  <2>2. task'[t].status = "preparing" /\ \A u \in Tasks \ {t} : task'[u] = task[u]
    BY <1>2, <2>1, ZenonT(60) DEF TakeGlobalAssignment, Core, TypeOK, TaskRow
  <2>3. UNCHANGED <<reservation, plans>>
    BY <1>2, ZenonT(60) DEF TakeGlobalAssignment
  <2> HIDE DEF t
  <2> QED  BY <2>1, <2>2, <2>3, OneRowSteady, ZenonT(60) DEF TaskSteady, Final
<1>3. ASSUME NEW e \in ExecIds, TransferRecoverable(e)
      PROVE  Steady
  <2> DEFINE t == reservation[e].task
             S == [reservation[e] EXCEPT !.session = worker[reservation[e].worker].session]
  <2>1. /\ t \in Tasks /\ task[t].status \in Active /\ task[t] \in TaskRow
        /\ reservation[e].state = "active" /\ reservation[e] \in ReservationRow
    BY <1>3, ZenonT(60)
       DEF TransferRecoverable, Core, TypeOK, SingleActiveExecution,
                ActiveReservations
  <2>2. /\ task'[t].status = task[t].status
        /\ task'[t].userCancelled = task[t].userCancelled
        /\ \A u \in Tasks \ {t} : task'[u] = task[u]
    BY <1>3, <2>1, ZenonT(60) DEF TransferRecoverable, Core, TypeOK, TaskRow
  <2>3. reservation' = [reservation EXCEPT ![e] = S] /\ plans' = plans
    BY <1>3, ZenonT(60) DEF TransferRecoverable
  <2>4. S.state = "active" /\ S.task = t
    BY <2>1, ZenonT(60) DEF ReservationRow
  <2> HIDE DEF S
  <2>5. /\ reservation'[e] = S
        /\ \A f \in ExecIds \ {e} : reservation'[f] = reservation[f]
    BY <2>3, ZenonT(60) DEF Core, TypeOK
  <2>6. \A f \in ExecIds : ReservationSteady(reservation[f], reservation'[f])
    BY <2>1, <2>4, <2>5, ZenonT(60) DEF ReservationSteady
  <2>7. \A u \in Tasks : TaskSteady(task[u], task'[u])
    BY <2>1, <2>2, ZenonT(60) DEF TaskSteady, Final, Active
  <2> QED  BY <2>2, <2>3, <2>6, <2>7, ZenonT(60) DEF Steady
<1>4. ASSUME NEW w \in Workers, NEW reported, NEW healthy,
             \/ RegisterWorker(w, reported, healthy)
             \/ ReplaceGpuInventory(w, reported, healthy)
      PROVE  Steady
  BY <1>1, <1>4, ZenonT(60) DEF RegisterWorker, ReplaceGpuInventory
<1>5. ASSUME NEW w \in Workers, NEW s,
             Heartbeat(w) \/ MarkStaleOffline(w) \/ SetWorkerStatus(w, s)
      PROVE  Steady
  BY <1>1, <1>5, ZenonT(60) DEF Heartbeat, MarkStaleOffline, SetWorkerStatus
<1> QED  BY <1>2, <1>3, <1>4, <1>5, ZenonT(60) DEF WorkerStep

(* Every step is steady.                                                   *)
LEMMA StepSteady ==
  ASSUME Core, [Next]_vars
  PROVE  Steady
<1>1. CASE TokenStep
  <2>1. ASSUME NEW k \in tokens, DropToken(k)
        PROVE  Steady
    BY <2>1, ZenonT(60)
       DEF DropToken, Steady, TaskSteady, ReservationSteady, Final
  <2> QED  BY <1>1, <2>1, ReportSteady, FinishSteady, ZenonT(60) DEF TokenStep
<1>2. CASE \E t \in Tasks : LeaseExpires(t)
  <2>1. PICK t \in Tasks : LeaseExpires(t)
    BY <1>2, ZenonT(60)
  <2>2. /\ task[t].status \in Active
        /\ task'[t].status = task[t].status
        /\ task'[t].userCancelled = task[t].userCancelled
        /\ \A u \in Tasks \ {t} : task'[u] = task[u]
    BY <2>1, SMTT(30), Z3T(30) DEF LeaseExpires, Core, TypeOK, TaskRow, RowsConsistent
  <2>3. UNCHANGED <<reservation, plans>>
    BY <2>1, ZenonT(60) DEF LeaseExpires
  <2> QED  BY <2>2, <2>3, OneRowSteady, ZenonT(60) DEF TaskSteady, Final, Active
<1>3. CASE UNCHANGED vars
  BY <1>3 DEF vars, Steady, TaskSteady, ReservationSteady, Final
<1> QED  BY <1>1, <1>2, <1>3, UserSteady, ReaperSteady, SchedulerSteady, WorkerSteady, ZenonT(60)
         DEF Next
-----------------------------------------------------------------------------

(* No late report, adoption, recovery or cancellation changes a task that  *)
(* ended or a reservation that was released.                               *)
THEOREM EndedRowsAreFixed == Spec => EndedStaysEnded
<1>1. Core /\ [Next]_vars =>
        [/\ \A t \in Tasks : task[t].status \in Final => task'[t] = task[t]
         /\ \A e \in ExecIds : reservation[e].state = "released" =>
              reservation'[e] = reservation[e]]_vars
  BY StepSteady DEF Steady, TaskSteady, ReservationSteady
<1> QED  BY <1>1, CoreInvariant, PTL DEF Spec, EndedStaysEnded

(* A user's cancellation of an active task is never lost.                  *)
THEOREM CancellationIsKept == Spec => CancellationSticks
<1>1. Core /\ [Next]_vars =>
        [\A t \in Tasks :
           /\ task[t].status = "stopping" =>
                task'[t].status \in {"stopping", "cancelled"}
           /\ task[t].status = "preempting" /\ task[t].userCancelled =>
                \/ task'[t].status = "preempting" /\ task'[t].userCancelled
                \/ task'[t].status = "cancelled"]_vars
  BY StepSteady DEF Steady, TaskSteady
<1> QED  BY <1>1, CoreInvariant, PTL DEF Spec, CancellationSticks

(* No execution is minted before its task's prerequisites succeeded.       *)
THEOREM DependenciesAreRespected == Spec => []DependenciesRespected
<1>1. Init => DependenciesRespected
  BY SMTT(30), Z3T(30) DEF Init, NoReservation, DependenciesRespected
<1>2. Core /\ [Next]_vars /\ DependenciesRespected => DependenciesRespected'
  <2> SUFFICES ASSUME Core, [Next]_vars, DependenciesRespected, Core',
                      NEW e \in ExecIds, reservation'[e].state # "none",
                      NEW d \in DependsOn[reservation'[e].task]
               PROVE  task'[d].status = "succeeded"
    BY CoreStep, ZenonT(60) DEF DependenciesRespected
  <2>1. Steady
    BY StepSteady, ZenonT(60)
  <2>2. reservation'[e].task \in Tasks /\ d \in Tasks
    BY TaskControlAssumption, ZenonT(60) DEF Core, RowsConsistent
  <2>3. task[d].status = "succeeded"
    BY <2>1, <2>2, ZenonT(60)
       DEF Steady, ReservationSteady, DependenciesRespected, DependenciesReady
  <2> QED  BY <2>1, <2>2, <2>3, ZenonT(60) DEF Steady, TaskSteady, Final
<1> QED  BY <1>1, <1>2, CoreInvariant, PTL DEF Spec

(* Preemption plans are open exactly while their victims are preempted.    *)
THEOREM PlansFollowVictims == Spec => []PlansMatchPreempting
<1>1. Init => PlansMatchPreempting
  BY SMTT(30), Z3T(30) DEF Init, AbsentTask, PlansMatchPreempting
<1>2. Core /\ [Next]_vars /\ PlansMatchPreempting => PlansMatchPreempting'
  <2> SUFFICES ASSUME Core, [Next]_vars, PlansMatchPreempting
               PROVE  PlansMatchPreempting'
    OBVIOUS
  <2>1. Steady
    BY StepSteady, ZenonT(60)
  <2>2. plans \subseteq [incoming: Tasks, victim: Tasks]
    BY ZenonT(60) DEF Core, TypeOK
  <2>3. CASE /\ plans' = plans
             /\ \A t \in Tasks : task'[t].status = "preempting"
                                   <=> task[t].status = "preempting"
    BY <2>3, ZenonT(60) DEF PlansMatchPreempting
  <2>4. ASSUME NEW t \in Tasks, plans' = CompletePreemptionPlans(t),
               task'[t].status # "preempting",
               \A u \in Tasks \ {t} : task'[u].status = task[u].status
        PROVE  PlansMatchPreempting'
    BY <2>2, <2>4, SMTT(30), Z3T(30) DEF PlansMatchPreempting, CompletePreemptionPlans
  <2>5. ASSUME NEW t \in Tasks, NEW chosen \in SUBSET Tasks,
               plans' = plans \cup {[incoming |-> t, victim |-> v] : v \in chosen},
               \A u \in Tasks : task'[u].status =
                 IF u \in chosen THEN "preempting" ELSE task[u].status
        PROVE  PlansMatchPreempting'
    <3> DEFINE new == {[incoming |-> t, victim |-> v] : v \in chosen}
    <3>1. {p.victim : p \in new} = chosen
      <4>1. ASSUME NEW v \in chosen
            PROVE  v \in {p.victim : p \in new}
        <5>1. [incoming |-> t, victim |-> v] \in new
          OBVIOUS
        <5>2. [incoming |-> t, victim |-> v].victim = v
          OBVIOUS
        <5> HIDE DEF new
        <5> QED  BY <5>1, <5>2, ZenonT(60)
      <4>2. ASSUME NEW p \in new
            PROVE  p.victim \in chosen
        OBVIOUS
      <4> HIDE DEF new
      <4> QED  BY <4>1, <4>2, ZenonT(60)
    <3>2. {p.victim : p \in plans \cup new} = {p.victim : p \in plans} \cup {p.victim : p \in new}
      <4> HIDE DEF new
      <4> QED  OBVIOUS
    <3>3. {p.victim : p \in plans'} = {p.victim : p \in plans} \cup chosen
      BY <2>5, <3>1, <3>2, ZenonT(60)
    <3> QED  BY <2>5, <3>3, ZenonT(60) DEF PlansMatchPreempting
  <2> QED  BY <2>1, <2>3, <2>4, <2>5, ZenonT(60) DEF Steady
<1> QED  BY <1>1, <1>2, CoreInvariant, PTL DEF Spec
=============================================================================
