------------------------- MODULE TaskControlProofs -------------------------
(***************************************************************************)
(* Core is an invariant of TaskControl: the actions that begin or end an   *)
(* execution and those on Worker rows, the step over all actions, and the  *)
(* theorems that follow from Core.                                         *)
(***************************************************************************)
EXTENDS TaskControlCore

(* The end of an execution.                                                *)

(* release_execution keeps the counters natural and settles what ran.      *)
LEMMA ReleaseAndSettleTypes ==
  ASSUME Core, NEW t \in Tasks, task[t].status \in Active, NEW e, e = task[t].exec,
         ReleaseAndSettle(t, e)
  PROVE  /\ worker' \in [Workers -> WorkerRow]
         /\ CanReleaseExecution(quota, Gpus[t])
         /\ \E S \in ReservationRow :
              /\ reservation' = [reservation EXCEPT ![e] = S]
              /\ S.state = "released" /\ S.task = t /\ S.worker \in Workers
              /\ S.settled = S.ran
<1> DEFINE w == reservation[e].worker
           W == [worker[w] EXCEPT !.running = @ - 1, !.reservedGpus = @ - Gpus[t]]
           S == [reservation[e] EXCEPT !.state = "released", !.settled = task[t].started]
<1>1. /\ e \in ExecIds /\ w \in Workers /\ reservation[e].task = t
      /\ reservation[e].ran = task[t].started
  BY ActiveFacts, ZenonT(60)
<1>2. /\ reservation[e] \in ReservationRow /\ worker[w] \in WorkerRow
      /\ task[t].started \in BOOLEAN /\ Gpus[t] \in Nat
  BY <1>1, TaskControlAssumption DEF Core, TypeOK, TaskRow
<1>3. /\ worker[w].running >= 1 /\ worker[w].reservedGpus >= Gpus[t]
      /\ CanReleaseExecution(quota, Gpus[t])
  BY <1>1, ZenonT(60) DEF ReleaseAndSettle, CanRelease
<1>4. worker' = [worker EXCEPT ![w] = W] /\ reservation' = [reservation EXCEPT ![e] = S]
  BY ZenonT(60) DEF ReleaseAndSettle
<1>5. worker[w].running - 1 \in Nat /\ worker[w].reservedGpus - Gpus[t] \in Nat
  <2>1. worker[w].running \in Nat /\ worker[w].reservedGpus \in Nat
    BY <1>2, ZenonT(60) DEF WorkerRow
  <2> HIDE DEF w
  <2> QED  BY <1>2, <1>3, <2>1, SMTT(30), Z3T(30)
<1>6. W \in WorkerRow
  BY <1>2, <1>5, ZenonT(60) DEF WorkerRow
<1>7. S \in ReservationRow
  BY <1>2, ZenonT(60) DEF ReservationRow
<1>8. S.state = "released" /\ S.task = t /\ S.worker \in Workers /\ S.settled = S.ran
  BY <1>1, <1>2, ZenonT(60) DEF ReservationRow
<1> HIDE DEF W, S
<1>9. worker' \in [Workers -> WorkerRow]
  BY <1>1, <1>4, <1>6, ZenonT(60) DEF Core, TypeOK
<1> QED  BY <1>3, <1>4, <1>7, <1>8, <1>9, ZenonT(60)

(* What finish_execution and recover_expired have in common: the           *)
(* reservation is released and the task ends or waits for its retry.       *)
LEMMA EndExecution ==
  ASSUME Core, NEW t \in Tasks, task[t].status \in Active, NEW e, e = task[t].exec,
         ReleaseAndSettle(t, e), NEW R \in TaskRow,
         task' = [task EXCEPT ![t] = R],
         plans' \subseteq plans, UNCHANGED <<inventory, tokens>>,
         R.lease = "none",
         \/ /\ R.status = "retrying" /\ R.worker = NoWorker /\ R.exec = NoExec
            /\ ~ R.cancelRequested
            /\ quota' = AdmitQueued(ReleaseExecution(quota, Gpus[t]))
            /\ UNCHANGED terminalEvents
         \/ /\ R.status \in Final
            /\ quota' = ReleaseExecution(quota, Gpus[t])
            /\ terminalEvents' = [terminalEvents EXCEPT ![t] = @ + 1]
  PROVE  Core'
<1>1. /\ worker' \in [Workers -> WorkerRow]
      /\ CanReleaseExecution(quota, Gpus[t])
  BY ReleaseAndSettleTypes, ZenonT(60)
<1>2. PICK S \in ReservationRow :
              /\ reservation' = [reservation EXCEPT ![e] = S]
              /\ S.state = "released" /\ S.task = t /\ S.worker \in Workers
              /\ S.settled = S.ran
  BY ReleaseAndSettleTypes, SMTT(30), Z3T(30)
<1>3. Gpus[t] \in Nat /\ quota \in QuotaRow
  BY TaskControlAssumption, ZenonT(60) DEF Core, TypeOK
<1>4. quota' \in QuotaRow
  BY <1>1, <1>3, QuotaTypes, ZenonT(60)
<1>5. terminalEvents[t] = 0
  BY CoreRows, ZenonT(60) DEF RowFacts, TaskRowOK, Active, Final
<1>6. terminalEvents \in [Tasks -> Nat]
  BY ZenonT(60) DEF Core, TypeOK
<1>7. /\ terminalEvents' \in [Tasks -> Nat]
      /\ \A u \in Tasks \ {t} : terminalEvents'[u] = terminalEvents[u]
      /\ terminalEvents'[t] = IF R.status \in Final THEN 1 ELSE 0
  BY <1>5, <1>6, SMTT(30), Z3T(30) DEF Final
<1>8. TypeOK'
  BY <1>1, <1>2, <1>4, <1>7, ZenonT(60) DEF Core, TypeOK
<1>9. R.status \notin Active /\ TaskRowOK(R, terminalEvents'[t])
  BY <1>7 DEF TaskRowOK, Active, Final, Waiting
<1> QED  BY <1>2, <1>7, <1>8, <1>9, ReleaseStep, ZenonT(60)

(* A reported result, overridden or not, is a final status.                *)
LEMMA FinishTargetFinal ==
  ASSUME NEW T, NEW reported \in Final
  PROVE  FinishTarget(T, reported) \in Final
BY DEF FinishTarget, Final

(* A row reset for another attempt.                                        *)
LEMMA ResetRow ==
  ASSUME NEW T \in TaskRow
  PROVE  /\ Retry(T) \in TaskRow
         /\ Retry(T).status = "retrying" /\ Retry(T).worker = NoWorker
         /\ Retry(T).exec = NoExec /\ Retry(T).cancelRequested = FALSE
         /\ Retry(T).lease = "none"
BY ZenonT(60) DEF TaskRow, Retry, TaskStatus, NoExec

(* A row that is retried, charged for a retry.                             *)
LEMMA RetryRow ==
  ASSUME NEW T \in TaskRow, NEW n \in Nat, NEW R,
         R = [Retry(T) EXCEPT !.retries = n, !.userCancelled = FALSE]
  PROVE  /\ R \in TaskRow
         /\ R.status = "retrying" /\ R.worker = NoWorker /\ R.exec = NoExec
         /\ ~ R.cancelRequested /\ R.lease = "none"
<1> DEFINE Q == Retry(T)
<1> HIDE DEF Q
<1> QED  BY ResetRow, ZenonT(60) DEF TaskRow, Q

(* A row that is retried, charged for a recovery.                          *)
LEMMA RecoveredRow ==
  ASSUME NEW T \in TaskRow, NEW n \in Nat, NEW R,
         R = [Retry(T) EXCEPT !.recoveries = n, !.userCancelled = FALSE]
  PROVE  /\ R \in TaskRow
         /\ R.status = "retrying" /\ R.worker = NoWorker /\ R.exec = NoExec
         /\ ~ R.cancelRequested /\ R.lease = "none"
<1> DEFINE Q == Retry(T)
<1> HIDE DEF Q
<1> QED  BY ResetRow, ZenonT(60) DEF TaskRow, Q

(* A row that ends.                                                        *)
LEMMA EndedRow ==
  ASSUME NEW T \in TaskRow, NEW s \in TaskStatus, NEW b \in BOOLEAN
  PROVE  [T EXCEPT !.status = s, !.lease = "none", !.userCancelled = b] \in TaskRow
BY ZenonT(60) DEF TaskRow

(* The result of an execution preserves Core.                              *)
LEMMA FinishExecutionCore ==
  ASSUME Core, NEW k \in tokens, NEW o \in Outcomes, FinishExecution(k, o)
  PROVE  Core'
<1> DEFINE e == k[1]
           t == TaskOf(k)
           T == task[t]
           target == FinishTarget(T, o.target)
           n == IF target \in Failure THEN T.retries + 1 ELSE T.retries
<1>1. t \in Tasks /\ T.exec = e /\ T.status \in Active
  BY OwnedFacts DEF FinishExecution
<1>2. T \in TaskRow
  BY <1>1 DEF Core, TypeOK
<1>3. target \in Final
  BY FinishTargetFinal, SMTT(30), Z3T(30) DEF Outcomes, Final
<1>4. /\ ReleaseAndSettle(t, e) /\ UNCHANGED <<inventory, tokens>>
      /\ plans' \subseteq plans
  BY DEF FinishExecution, CompletePreemptionPlans
<1>5. CASE /\ task' = [task EXCEPT ![t] =
             [Retry(T) EXCEPT !.retries = IF target \in Failure THEN @ + 1 ELSE @,
                              !.userCancelled = FALSE]]
           /\ quota' = AdmitQueued(ReleaseExecution(quota, Gpus[t]))
           /\ UNCHANGED terminalEvents
  <2> DEFINE R == [Retry(T) EXCEPT !.retries = IF target \in Failure THEN @ + 1 ELSE @,
                                   !.userCancelled = FALSE]
  <2>1. Retry(T).retries = T.retries /\ T.retries \in Nat
    BY <1>2, ZenonT(60) DEF TaskRow, Retry
  <2>2. n \in Nat /\ R = [Retry(T) EXCEPT !.retries = n, !.userCancelled = FALSE]
    BY <2>1
  <2> HIDE DEF R, t, e, T, n
  <2>3. /\ R \in TaskRow
        /\ R.status = "retrying" /\ R.worker = NoWorker /\ R.exec = NoExec
        /\ ~ R.cancelRequested /\ R.lease = "none"
    BY <1>2, <2>2, RetryRow, ZenonT(60)
  <2> QED  BY <1>1, <1>4, <1>5, <2>3, EndExecution, ZenonT(60) DEF R, T
<1>6. CASE /\ task' = [task EXCEPT
                ![t].status = target, ![t].lease = "none",
                ![t].userCancelled = (target = "cancelled")]
           /\ quota' = ReleaseExecution(quota, Gpus[t])
           /\ terminalEvents' = [terminalEvents EXCEPT ![t] = @ + 1]
  <2> DEFINE R == [T EXCEPT !.status = target, !.lease = "none",
                            !.userCancelled = (target = "cancelled")]
  <2>1. task' = [task EXCEPT ![t] = R]
    BY <1>6, Zenon
  <2>a. target \in TaskStatus /\ (target = "cancelled") \in BOOLEAN
    BY <1>3, ZenonT(60) DEF TaskStatus, Final
  <2> HIDE DEF target
  <2>2. R \in TaskRow
    BY <1>2, <2>a, EndedRow, ZenonT(60)
  <2>3. R.status \in Final /\ R.lease = "none"
    BY <1>2, <1>3, ZenonT(60) DEF TaskRow
  <2> HIDE DEF R, t, e, T
  <2> QED  BY <1>1, <1>4, <1>6, <2>1, <2>2, <2>3, EndExecution, ZenonT(60) DEF T
<1> QED  BY <1>5, <1>6, ZenonT(60) DEF FinishExecution

(* The recovery of an expired lease preserves Core.                        *)
LEMMA RecoverExpiredCore ==
  ASSUME Core, NEW t \in Tasks, RecoverExpired(t)
  PROVE  Core'
<1> DEFINE T == task[t]
           e == T.exec
           target == FinishTarget(T, "failed")
<1>1. T.status \in Active /\ T \in TaskRow
  BY DEF RecoverExpired, Recoverable, Core, TypeOK
<1>2. target \in Final
  BY FinishTargetFinal, ZenonT(60) DEF Final
<1>3. /\ ReleaseAndSettle(t, e) /\ UNCHANGED <<inventory, tokens>>
      /\ plans' \subseteq plans
  BY DEF RecoverExpired, CompletePreemptionPlans
<1>4. CASE /\ task' = [task EXCEPT ![t] =
                [Retry(T) EXCEPT
                   !.recoveries = IF target = "failed" THEN @ + 1 ELSE @,
                   !.userCancelled = FALSE]]
           /\ quota' = AdmitQueued(ReleaseExecution(quota, Gpus[t]))
           /\ UNCHANGED terminalEvents
  <2> DEFINE R == [Retry(T) EXCEPT
                     !.recoveries = IF target = "failed" THEN @ + 1 ELSE @,
                     !.userCancelled = FALSE]
             n == IF target = "failed" THEN T.recoveries + 1 ELSE T.recoveries
  <2>1. Retry(T).recoveries = T.recoveries /\ T.recoveries \in Nat
    BY <1>1 DEF TaskRow, Retry
  <2>2. /\ 0 \in Nat /\ n \in Nat
        /\ R = [Retry(T) EXCEPT !.recoveries = n, !.userCancelled = FALSE]
    BY <2>1
  <2> HIDE DEF R, T, n
  <2>3. /\ R \in TaskRow
        /\ R.status = "retrying" /\ R.worker = NoWorker /\ R.exec = NoExec
        /\ ~ R.cancelRequested /\ R.lease = "none"
    BY <1>1, <2>2, RecoveredRow, ZenonT(60)
  <2> QED  BY <1>1, <1>3, <1>4, <2>3, EndExecution, ZenonT(60) DEF R, T
<1>5. CASE /\ task' = [task EXCEPT ![t] =
                [[T EXCEPT !.worker = NoWorker, !.exec = NoExec, !.lease = "none"]
                   EXCEPT !.status = target, !.userCancelled = (target = "cancelled")]]
           /\ quota' = ReleaseExecution(quota, Gpus[t])
           /\ terminalEvents' = [terminalEvents EXCEPT ![t] = @ + 1]
  <2> DEFINE R == [[T EXCEPT !.worker = NoWorker, !.exec = NoExec, !.lease = "none"]
                     EXCEPT !.status = target, !.userCancelled = (target = "cancelled")]
  <2>1. task' = [task EXCEPT ![t] = R]
    BY <1>5
  <2> DEFINE Q == [T EXCEPT !.worker = NoWorker, !.exec = NoExec, !.lease = "none"]
  <2>a. Q \in TaskRow /\ Q.lease = "none"
    BY <1>1, ZenonT(60) DEF TaskRow, NoExec
  <2>b. target \in TaskStatus
    BY <1>2 DEF TaskStatus, Final
  <2>c. R = [Q EXCEPT !.status = target, !.userCancelled = (target = "cancelled")]
    BY Zenon
  <2> HIDE DEF target, Q, R
  <2>2. R \in TaskRow
    BY <2>a, <2>b, <2>c, ZenonT(60) DEF TaskRow
  <2>3. R.status \in Final /\ R.lease = "none"
    BY <1>2, <2>a, <2>c DEF TaskRow
  <2> QED  BY <1>1, <1>3, <1>5, <2>1, <2>2, <2>3, EndExecution, ZenonT(60)
<1> QED  BY <1>4, <1>5, ZenonT(60) DEF RecoverExpired
-----------------------------------------------------------------------------
(* Assignment, preemption and Worker rows.                                 *)

(* A claim and a placement preserve Core.                                  *)
LEMMA AssignCore ==
  ASSUME Core, NEW t \in Tasks, NEW w \in Workers, NEW devs \in SUBSET Devices,
         NEW e \in ExecIds, Claim(t, w, devs, e) \/ Place(t, w, devs, e)
  PROVE  Core'
<1> DEFINE T == task[t]
           P == PrepareForAssignment(T)
           R == [P EXCEPT !.status = "assigned", !.worker = w, !.exec = e, !.lease = "live"]
           n == worker[w].session
           S == [state |-> "active", task |-> t, worker |-> w, session |-> n,
                 devices |-> devs, ran |-> FALSE, settled |-> FALSE]
           W == [worker[w] EXCEPT !.running = @ + 1, !.reservedGpus = @ + Gpus[t]]
<1>1. /\ Assign(t, w, devs, e) /\ T.status = "queued"
      /\ devs \subseteq FreeDevices(w) /\ Cardinality(devs) = Gpus[t]
  BY ZenonT(60) DEF Claim, Place, Schedulable
<1>2. /\ T \in TaskRow /\ worker[w] \in WorkerRow /\ n \in Nat
      /\ quota \in QuotaRow /\ Gpus[t] \in Nat
  BY TaskControlAssumption DEF Core, TypeOK, WorkerRow
<1>3. /\ task' = [task EXCEPT ![t] = R] /\ reservation' = [reservation EXCEPT ![e] = S]
      /\ worker' = [worker EXCEPT ![w] = W] /\ reservation[e].state = "none"
  BY <1>1, Zenon DEF Assign
<1>4. P \in TaskRow /\ P.started = FALSE
  BY <1>2, ZenonT(60) DEF TaskRow, PrepareForAssignment
<1>5. R \in TaskRow /\ R.status = "assigned" /\ R.exec = e /\ R.worker = w
      /\ R.started = FALSE
  <2> HIDE DEF P
  <2> QED  BY <1>4, ZenonT(60) DEF TaskRow, TaskStatus
<1>6. W \in WorkerRow
  <2>1. worker[w].running + 1 \in Nat /\ worker[w].reservedGpus + Gpus[t] \in Nat
    BY <1>2, SMTT(30), Z3T(30) DEF WorkerRow
  <2> QED  BY <1>2, <2>1, ZenonT(60) DEF WorkerRow
<1>7. S \in ReservationRow
  BY <1>2, ZenonT(60) DEF ReservationRow
<1>8. /\ S.state = "active" /\ S.task = t /\ S.worker = w
      /\ S.devices = devs /\ S.ran = FALSE /\ S.settled = FALSE
  OBVIOUS
<1>9. quota' \in QuotaRow /\ UNCHANGED <<inventory, plans, terminalEvents>>
  BY <1>1, <1>2, QuotaTypes, ZenonT(60) DEF Assign
<1>10. tokens' \subseteq ExecIds \X Nat
  BY <1>2, SMTT(30), Z3T(30) DEF Claim, Place, Core, TypeOK
<1> HIDE DEF R, S, W
<1>11. TypeOK'
  BY <1>3, <1>5, <1>6, <1>7, <1>9, <1>10, ZenonT(60) DEF Core, TypeOK
<1>12. S.ran = R.started
  BY <1>5, <1>8, ZenonT(60)
<1> QED  BY <1>1, <1>3, <1>5, <1>7, <1>8, <1>9, <1>11, <1>12, AssignStep, ZenonT(60)

(* The row of a chosen victim.                                             *)
LEMMA PreemptedRow ==
  ASSUME NEW T \in TaskRow, NEW R,
         R = [T EXCEPT !.status = "preempting", !.cancelRequested = TRUE,
                       !.preemptions = @ + 1]
  PROVE  /\ R \in TaskRow /\ R.status = "preempting" /\ R.cancelRequested = TRUE
         /\ R.exec = T.exec /\ R.worker = T.worker /\ R.started = T.started
<1>1. T.preemptions + 1 \in Nat
  BY DEF TaskRow
<1> QED  BY <1>1, ZenonT(60) DEF TaskRow, TaskStatus

(* Choosing victims, several rows at once, preserves Core.                 *)
LEMMA RequestPreemptionCore ==
  ASSUME Core, NEW t \in Tasks, NEW w \in Workers, NEW aging, NEW chosen \in SUBSET Tasks,
         RequestPreemption(t, w, aging, chosen)
  PROVE  Core'
<1> DEFINE Row(v) == [task[v] EXCEPT !.status = "preempting", !.cancelRequested = TRUE,
                                     !.preemptions = @ + 1]
<1>1. /\ \A v \in chosen : task'[v] = Row(v)
      /\ \A v \in Tasks \ chosen : task'[v] = task[v]
      /\ task' = [v \in Tasks |-> IF v \in chosen THEN Row(v) ELSE task[v]]
  BY ZenonT(60) DEF RequestPreemption
<1>2. \A v \in chosen : task[v].status \in Active
  BY ZenonT(60) DEF RequestPreemption, IsVictimChoice, Victims, Active
<1>3. \A v \in Tasks : task[v] \in TaskRow
  BY ZenonT(60) DEF Core, TypeOK
<1>4. ASSUME NEW v \in chosen
      PROVE  /\ Row(v) \in TaskRow /\ Row(v).status = "preempting"
             /\ Row(v).cancelRequested = TRUE /\ Row(v).exec = task[v].exec
             /\ Row(v).worker = task[v].worker /\ Row(v).started = task[v].started
  <2>1. task[v] \in TaskRow
    BY <1>3, ZenonT(60)
  <2> QED  BY <2>1, PreemptedRow, ZenonT(60)
<1>5. /\ UNCHANGED <<reservation, worker, inventory, quota, tokens, terminalEvents>>
      /\ plans' \subseteq [incoming: Tasks, victim: Tasks]
  <2>1. plans \subseteq [incoming: Tasks, victim: Tasks]
    BY ZenonT(60) DEF Core, TypeOK
  <2>2. {[incoming |-> t, victim |-> v] : v \in chosen} \subseteq [incoming: Tasks, victim: Tasks]
    OBVIOUS
  <2> QED  BY <2>1, <2>2, ZenonT(60) DEF RequestPreemption
<1> HIDE DEF Row
<1>6. TypeOK'
  BY <1>1, <1>3, <1>4, <1>5, ZenonT(60) DEF Core, TypeOK
<1>7. \A v \in Tasks : /\ task'[v].exec = task[v].exec
                       /\ task'[v].worker = task[v].worker
                       /\ task'[v].started = task[v].started
                       /\ task'[v].status \in Active <=> task[v].status \in Active
  BY <1>1, <1>2, <1>4, ZenonT(60) DEF Active
<1>8. ActiveReservations' = ActiveReservations
  BY <1>5, ZenonT(60) DEF ActiveReservations
<1>9. SingleActiveExecution'
  BY <1>5, <1>7, <1>8, SMTT(30), Z3T(30) DEF Core, SingleActiveExecution
<1>10. RowFacts'
  <2>1. RowFacts
    BY CoreRows, ZenonT(60)
  <2>2. ASSUME NEW v \in Tasks
        PROVE  TaskRowOK(task'[v], terminalEvents[v])
    <3>1. CASE v \in chosen
      <4>1. terminalEvents[v] = 0
        BY <1>2, <2>1, <3>1, ZenonT(60) DEF RowFacts, TaskRowOK, Active, Final
      <4> QED  BY <1>1, <1>4, <3>1, <4>1, ZenonT(60)
                  DEF TaskRowOK, Active, Waiting, Final
    <3>2. CASE v \notin chosen
      BY <1>1, <2>1, <3>2, ZenonT(60) DEF RowFacts
    <3> QED  BY <3>1, <3>2, ZenonT(60)
  <2>3. \A f \in ActiveReservations :
          reservation[f].ran = task'[reservation[f].task].started
    BY <1>7, <2>1, ZenonT(60) DEF Core, RowFacts, SingleActiveExecution
  <2>4. /\ \A f \in ExecIds : ReservationRowOK(reservation[f])
        /\ \A x \in Workers : \A d \in inventory[x] : WorkerOf[d] = x
        /\ \A f, g \in ActiveReservations :
             f # g => reservation[f].devices \cap reservation[g].devices = {}
    BY <2>1, ZenonT(60) DEF RowFacts
  <2> QED  BY <1>5, <1>8, <2>2, <2>3, <2>4, ZenonT(60) DEF RowFacts
<1> QED  BY <1>6, <1>9, <1>10, RowsCore, PTL

(* A registration and an inventory refresh preserve Core.                  *)
LEMMA InventoryCore ==
  ASSUME Core, NEW w \in Workers, NEW reported \in SUBSET Devices,
         NEW healthy \in SUBSET Devices,
         \/ RegisterWorker(w, reported, healthy)
         \/ ReplaceGpuInventory(w, reported, healthy)
  PROVE  Core'
<1> DEFINE n == Cardinality(reported)
<1>1. n \in Nat
  BY TaskControlAssumption, FS_Subset, FS_CardinalityType, ZenonT(60)
<1>2. worker' \in [Workers -> WorkerRow]
  <2>1. worker \in [Workers -> WorkerRow] /\ worker[w] \in WorkerRow
    BY DEF Core, TypeOK
  <2>2. CASE RegisterWorker(w, reported, healthy)
    <3> DEFINE over == worker[w].reservedGpus > n
               s == IF over THEN "draining" ELSE "online"
               W == [worker[w] EXCEPT !.session = @ + 1, !.gpuCount = n,
                       !.overcommitted = over, !.status = s]
    <3>1. worker' = [worker EXCEPT ![w] = W]
      BY <2>2, ZenonT(60) DEF RegisterWorker
    <3>2. over \in BOOLEAN /\ s \in {"online", "draining"}
      OBVIOUS
    <3>3. worker[w].session + 1 \in Nat
      BY <2>1 DEF WorkerRow
    <3> HIDE DEF n, over, s
    <3>4. W \in WorkerRow
      BY <1>1, <2>1, <3>2, <3>3, ZenonT(60) DEF WorkerRow
    <3> HIDE DEF W
    <3> QED  BY <2>1, <3>1, <3>4, ZenonT(60)
  <2>3. CASE ReplaceGpuInventory(w, reported, healthy)
    <3> DEFINE W == [worker[w] EXCEPT !.gpuCount = n]
    <3>1. worker' = [worker EXCEPT ![w] = W]
      BY <2>3, Zenon DEF ReplaceGpuInventory
    <3> HIDE DEF n
    <3>2. W \in WorkerRow
      BY <1>1, <2>1, ZenonT(60) DEF WorkerRow
    <3> HIDE DEF W
    <3> QED  BY <2>1, <3>1, <3>2
  <2> QED  BY <2>2, <2>3
<1>3. /\ inventory' = [inventory EXCEPT ![w] = healthy]
      /\ \A d \in healthy : WorkerOf[d] = w
      /\ UNCHANGED <<task, reservation, quota, plans, tokens, terminalEvents>>
  BY DEF RegisterWorker, ReplaceGpuInventory, OwnDevices
<1>4. TypeOK'
  BY <1>2, <1>3, ZenonT(60) DEF Core, TypeOK
<1>5. \A v \in Workers : \A d \in inventory'[v] : WorkerOf[d] = v
  BY <1>3, CoreRows, ZenonT(60) DEF RowFacts, Core, TypeOK
<1> QED  BY <1>3, <1>4, <1>5, WorkerOnlyStep, ZenonT(60)

(* Heartbeats, drains and going offline preserve Core.                     *)
LEMMA WorkerStatusCore ==
  ASSUME Core, NEW w \in Workers,
         \/ Heartbeat(w) \/ MarkStaleOffline(w)
         \/ \E s \in {"draining", "offline"} : SetWorkerStatus(w, s)
  PROVE  Core'
<1>1. PICK s \in {"online", "draining", "offline"} :
        worker' = [worker EXCEPT ![w] = [worker[w] EXCEPT !.status = s]]
  <2>1. worker[w] \in WorkerRow
    BY DEF Core, TypeOK
  <2>2. CASE Heartbeat(w)
    <3> DEFINE s == IF worker[w].status # "draining" THEN "online" ELSE worker[w].status
    <3>1. worker' = [worker EXCEPT ![w] = [worker[w] EXCEPT !.status = s]]
      BY <2>2, Zenon DEF Heartbeat
    <3> QED  BY <3>1, ZenonT(60)
  <2>3. CASE MarkStaleOffline(w)
    <3>1. worker' = [worker EXCEPT ![w] = [worker[w] EXCEPT !.status = "offline"]]
      BY <2>3, ZenonT(60) DEF MarkStaleOffline
    <3> QED  BY <3>1
  <2>4. CASE \E s \in {"draining", "offline"} : SetWorkerStatus(w, s)
    <3>1. PICK s \in {"draining", "offline"} : SetWorkerStatus(w, s)
      BY <2>4
    <3>2. worker' = [worker EXCEPT ![w] = [worker[w] EXCEPT !.status = s]]
      BY <3>1, ZenonT(60) DEF SetWorkerStatus
    <3> QED  BY <3>2, ZenonT(60)
  <2> QED  BY <2>2, <2>3, <2>4, ZenonT(60)
<1> DEFINE W == [worker[w] EXCEPT !.status = s]
<1>2. W \in WorkerRow
  BY DEF Core, TypeOK, WorkerRow
<1>3. UNCHANGED <<task, reservation, inventory, quota, plans, tokens, terminalEvents>>
  BY DEF Heartbeat, MarkStaleOffline, SetWorkerStatus
<1> HIDE DEF W
<1>4. TypeOK'
  BY <1>1, <1>2, <1>3, ZenonT(60) DEF Core, TypeOK, W
<1> QED  BY <1>3, <1>4, CoreRows, WorkerOnlyStep, ZenonT(60) DEF RowFacts

(* A coroutine that is gone preserves Core.                                *)
LEMMA DropTokenCore ==
  ASSUME Core, NEW k \in tokens, DropToken(k)
  PROVE  Core'
<1>1. TypeOK' /\ UNCHANGED <<task, reservation, inventory, terminalEvents>>
  BY DEF DropToken, Core, TypeOK
<1> QED  BY <1>1, CoreRows, WorkerOnlyStep, ZenonT(60) DEF RowFacts

(* Every step preserves Core.                                              *)
LEMMA CoreStep ==
  ASSUME Core, [Next]_vars
  PROVE  Core'
<1>1. CASE UserStep
  BY <1>1, CreateQueuedCore, CancelPreemptingCore, CancelActiveCore, CancelWaitingCore, ZenonT(60)
     DEF UserStep
<1>2. CASE ReaperStep
  BY <1>2, ResolveDependencyReadinessCore, RecoverExpiredCore, ReleaseDueRetriesCore, ZenonT(60)
     DEF ReaperStep
<1>3. CASE SchedulerStep
  BY <1>3, AssignCore, RequestPreemptionCore, ZenonT(60) DEF SchedulerStep
<1>4. CASE TokenStep
  <2>1. ASSUME NEW k \in tokens, MarkPulling(k) \/ MarkStarting(k) \/ MarkRunning(k)
        PROVE  Core'
    BY <2>1, AdvanceCore, ZenonT(60)
       DEF MarkPulling, MarkStarting, MarkRunning, Active
  <2> QED  BY <1>4, <2>1, LeaseReportsCore, FinishExecutionCore, DropTokenCore, ZenonT(60)
           DEF TokenStep
<1>5. CASE WorkerStep
  BY ZenonT(60), <1>5, InventoryCore, WorkerStatusCore, TakeGlobalAssignmentCore,
     TransferRecoverableCore DEF WorkerStep
<1>6. CASE \E t \in Tasks : LeaseExpires(t)
  BY <1>6, LeaseExpiresCore, ZenonT(60)
<1>7. CASE UNCHANGED vars
  <2>1. TypeOK' /\ UNCHANGED <<task, reservation, inventory, terminalEvents>>
    BY <1>7 DEF vars, Core, TypeOK
  <2> QED  BY <2>1, CoreRows, WorkerOnlyStep, ZenonT(60) DEF RowFacts
<1> QED  BY <1>1, <1>2, <1>3, <1>4, <1>5, <1>6, <1>7, ZenonT(60) DEF Next

(* Core holds in every reachable state of the task control plane.          *)
THEOREM CoreInvariant == Spec => []Core
<1>1. Init => Core
  BY InitCore
<1>2. Core /\ [Next]_vars => Core'
  BY CoreStep
<1> QED  BY <1>1, <1>2, PTL DEF Spec

(* Every row keeps its declared type and no capacity or quota counter ever *)
(* goes negative.                                                          *)
THEOREM TypeCorrect == Spec => []TypeOK
<1>1. Core => TypeOK
  BY ZenonT(60) DEF Core
<1> QED  BY <1>1, CoreInvariant, PTL

(* A task has at most one active execution, and it is the one its row and  *)
(* its unreleased reservation agree on.                                    *)
THEOREM OneActiveExecution == Spec => []SingleActiveExecution
<1>1. Core => SingleActiveExecution
  BY ZenonT(60) DEF Core
<1> QED  BY <1>1, CoreInvariant, PTL

(* No accelerator device is linked to two unreleased reservations.         *)
THEOREM DevicesAreExclusive == Spec => []UniqueDeviceReservation
<1>1. Core => UniqueDeviceReservation
  BY ZenonT(60) DEF Core
<1> QED  BY <1>1, CoreInvariant, PTL

(* A waiting task holds no Worker, execution, lease or stop request.       *)
THEOREM WaitingTasksHoldNothing == Spec => []WaitingHoldsNothing
<1>1. Core => WaitingHoldsNothing
  BY ZenonT(60) DEF Core
<1> QED  BY <1>1, CoreInvariant, PTL

(* Usage is settled for exactly the released executions that ran.          *)
THEOREM UsageSettledOnce == Spec => []SettledIffRan
<1>1. Core => SettledIffRan
  BY ZenonT(60) DEF Core
<1> QED  BY <1>1, CoreInvariant, PTL

(* A task writes its terminal event when it ends, and exactly once.        *)
THEOREM TerminalEventOnce == Spec => []OneTerminalEvent
<1>1. Core => OneTerminalEvent
  BY DEF Core
<1> QED  BY <1>1, CoreInvariant, PTL
=============================================================================
