-------------------------- MODULE TaskControlCore --------------------------
(***************************************************************************)
(* Proofs about TaskControl for any number of tasks, Workers, devices,     *)
(* sessions and executions, in both scheduling modes.                      *)
(*                                                                         *)
(* The invariants rest on each other.  A report is accepted because its    *)
(* reservation is unreleased, and that says something about the task only  *)
(* because unreleased reservations and active tasks match; a Worker's      *)
(* counter stays natural only because the reservation names a Worker; a    *)
(* cancelled waiting task gives nothing back only because it holds         *)
(* nothing.  So Core, their conjunction, is shown to be inductive.  The    *)
(* lemmas come in three layers: what Core says of single rows, what a step *)
(* of a given shape (one task row; task and reservation in place; release; *)
(* assignment; Worker rows) does to Core, and one lemma per action that    *)
(* exhibits its shape.  This module has the first two layers and the       *)
(* actions that neither begin nor end an execution; TaskControlProofs has  *)
(* the others and the theorems.                                            *)
(***************************************************************************)
EXTENDS TaskControl, FiniteSetTheorems, TLAPS

(* The inductive invariant.                                                *)
Core ==
  /\ TypeOK /\ SingleActiveExecution /\ RowsConsistent
  /\ UniqueDeviceReservation /\ WaitingHoldsNothing /\ SettledIffRan
  /\ OneTerminalEvent

(* What Core says of one task row and its number of terminal events.       *)
TaskRowOK(R, events) ==
  /\ R.status \notin Active => R.lease = "none"
  /\ R.status \in {"stopping", "preempting"} => R.cancelRequested
  /\ R.status = "absent" => R = AbsentTask
  /\ R.status \in Waiting => /\ R.worker = NoWorker /\ R.exec = NoExec
                             /\ ~ R.cancelRequested
  /\ events = IF R.status \in Final THEN 1 ELSE 0

(* What Core says of one reservation row.                                  *)
ReservationRowOK(S) ==
  /\ S.state = "none" => S = NoReservation
  /\ S.state # "none" => S.task \in Tasks /\ S.worker \in Workers
  /\ S.settled = (S.state = "released" /\ S.ran)
  /\ S.state = "active" =>
       /\ Cardinality(S.devices) = Gpus[S.task]
       /\ \A d \in S.devices : WorkerOf[d] = S.worker

(* Core without types and ownership, row by row.                           *)
RowFacts ==
  /\ \A t \in Tasks : TaskRowOK(task[t], terminalEvents[t])
  /\ \A e \in ExecIds : ReservationRowOK(reservation[e])
  /\ \A w \in Workers : \A d \in inventory[w] : WorkerOf[d] = w
  /\ \A e \in ActiveReservations :
       reservation[e].ran = task[reservation[e].task].started
  /\ \A e, f \in ActiveReservations :
       e # f => reservation[e].devices \cap reservation[f].devices = {}

(* Core gives every row fact.                                              *)
LEMMA CoreRows == Core => RowFacts
<1> SUFFICES ASSUME Core PROVE RowFacts
  OBVIOUS
<1>1. ASSUME NEW t \in Tasks PROVE TaskRowOK(task[t], terminalEvents[t])
  BY DEF Core, TaskRowOK, RowsConsistent, WaitingHoldsNothing, OneTerminalEvent
<1>2. ASSUME NEW e \in ExecIds PROVE ReservationRowOK(reservation[e])
  BY DEF Core, ReservationRowOK, RowsConsistent, SettledIffRan,
         UniqueDeviceReservation, ActiveReservations
<1>3. \A e, f \in ActiveReservations :
       e # f => reservation[e].devices \cap reservation[f].devices = {}
  BY DEF Core, UniqueDeviceReservation
<1> QED  BY <1>1, <1>2, <1>3 DEF RowFacts, Core, RowsConsistent, ActiveReservations

(* The row facts, types and ownership give Core back.                      *)
LEMMA RowsCore == TypeOK /\ SingleActiveExecution /\ RowFacts => Core
<1> SUFFICES ASSUME TypeOK, SingleActiveExecution, RowFacts PROVE Core
  OBVIOUS
<1>1. RowsConsistent
  BY DEF RowsConsistent, RowFacts, TaskRowOK, ReservationRowOK, ActiveReservations
<1>2. UniqueDeviceReservation
  BY DEF UniqueDeviceReservation, RowFacts, ReservationRowOK, ActiveReservations
<1>3. WaitingHoldsNothing
  BY DEF WaitingHoldsNothing, RowFacts, TaskRowOK, Waiting, Active
<1>4. SettledIffRan /\ OneTerminalEvent
  BY DEF SettledIffRan, OneTerminalEvent, RowFacts, TaskRowOK, ReservationRowOK
<1> QED  BY <1>1, <1>2, <1>3, <1>4 DEF Core

(* The empty database satisfies Core.                                      *)
LEMMA InitCore == Init => Core
<1> SUFFICES ASSUME Init PROVE Core
  OBVIOUS
<1>1. AbsentTask \in TaskRow
  BY DEF AbsentTask, TaskRow
<1>2. NoReservation \in ReservationRow
  BY DEF NoReservation, ReservationRow
<1>3. task \in [Tasks -> TaskRow] /\ reservation \in [ExecIds -> ReservationRow]
  BY <1>1, <1>2 DEF Init
<1>4. TypeOK
  BY <1>3, ZenonT(60) DEF Init, TypeOK, WorkerRow, QuotaRow
<1>5. \A t \in Tasks : TaskRowOK(task[t], terminalEvents[t])
  BY DEF Init, TaskRowOK, AbsentTask, Final, Active, Waiting
<1>6. /\ \A e \in ExecIds : ReservationRowOK(reservation[e])
      /\ ActiveReservations = {}
  BY ZenonT(60) DEF Init, ReservationRowOK, NoReservation, ActiveReservations
<1>7. SingleActiveExecution
  BY <1>6 DEF SingleActiveExecution, Init, AbsentTask, Active
<1>8. \A w \in Workers : \A d \in inventory[w] : WorkerOf[d] = w
  BY ZenonT(60) DEF Init
<1> QED  BY <1>4, <1>5, <1>6, <1>7, <1>8, RowsCore, ZenonT(60) DEF RowFacts

(* An active task owns an unreleased reservation on its Worker.            *)
LEMMA ActiveFacts ==
  ASSUME Core, NEW t \in Tasks, task[t].status \in Active
  PROVE  /\ task[t].exec \in ExecIds
         /\ reservation[task[t].exec].state = "active"
         /\ reservation[task[t].exec].task = t
         /\ reservation[task[t].exec].worker = task[t].worker
         /\ reservation[task[t].exec].worker \in Workers
         /\ reservation[task[t].exec].ran = task[t].started
BY SMTT(30), Z3T(30) DEF Core, SingleActiveExecution, RowsConsistent, ActiveReservations

(* An accepted token names the current execution of an active task: this   *)
(* is what session_owns_execution buys every report.                       *)
LEMMA OwnedFacts ==
  ASSUME Core, NEW k \in tokens, Owned(k)
  PROVE  /\ k[1] \in ExecIds /\ TaskOf(k) \in Tasks
         /\ task[TaskOf(k)].exec = k[1]
         /\ task[TaskOf(k)].status \in Active
         /\ reservation[k[1]].state = "active"
         /\ reservation[k[1]].worker \in Workers
         /\ reservation[k[1]].ran = task[TaskOf(k)].started
<1>1. k[1] \in ExecIds
  BY DEF Core, TypeOK
<1>2. reservation[k[1]].state = "active"
  BY DEF Owned, SessionOwnsExecution
<1> QED  BY <1>1, <1>2 DEF Core, SingleActiveExecution, RowsConsistent,
                           ActiveReservations, Owned, TaskOf

(* The row facts after a step, one by one.                                 *)
LEMMA RowFactsNext ==
  ASSUME \A u \in Tasks : TaskRowOK(task'[u], terminalEvents'[u]),
         \A f \in ExecIds : ReservationRowOK(reservation'[f]),
         \A w \in Workers : \A d \in inventory'[w] : WorkerOf[d] = w,
         \A f \in ActiveReservations' :
           reservation'[f].ran = task'[reservation'[f].task].started,
         \A f, g \in ActiveReservations' :
           f # g => reservation'[f].devices \cap reservation'[g].devices = {}
  PROVE  RowFacts'
BY DEF RowFacts, TaskRowOK, ReservationRowOK

(* Ownership when an execution goes on.                                    *)
LEMMA OwnershipKept ==
  ASSUME SingleActiveExecution, NEW e \in ActiveReservations, NEW t \in Tasks,
         t = reservation[e].task,
         ActiveReservations' = ActiveReservations,
         \A u \in Tasks \ {t} : task'[u] = task[u],
         \A f \in ExecIds \ {e} : reservation'[f] = reservation[f],
         reservation'[e].task = t,
         task'[t].exec = e, task'[t].worker = reservation'[e].worker,
         task'[t].status \in Active
  PROVE  SingleActiveExecution'
BY DEF SingleActiveExecution, ActiveReservations

(* Ownership when an execution ends.                                       *)
LEMMA OwnershipEnded ==
  ASSUME SingleActiveExecution, NEW e \in ActiveReservations, NEW t \in Tasks,
         t = reservation[e].task,
         ActiveReservations' = ActiveReservations \ {e},
         \A u \in Tasks \ {t} : task'[u] = task[u],
         \A f \in ExecIds \ {e} : reservation'[f] = reservation[f],
         task'[t].status \notin Active
  PROVE  SingleActiveExecution'
BY DEF SingleActiveExecution, ActiveReservations

(* Ownership when an execution begins.                                     *)
LEMMA OwnershipBegun ==
  ASSUME SingleActiveExecution, NEW t \in Tasks, task[t].status \notin Active,
         NEW e \in ExecIds, e \notin ActiveReservations,
         ActiveReservations' = ActiveReservations \cup {e},
         \A u \in Tasks \ {t} : task'[u] = task[u],
         \A f \in ExecIds \ {e} : reservation'[f] = reservation[f],
         reservation'[e].task = t,
         task'[t].exec = e, task'[t].worker = reservation'[e].worker,
         task'[t].status \in Active
  PROVE  SingleActiveExecution'
BY DEF SingleActiveExecution, ActiveReservations

(* One task row changes and stays on its side of Active.                   *)
LEMMA TaskOnlyStep ==
  ASSUME Core, TypeOK', NEW t \in Tasks, NEW R \in TaskRow,
         task' = [task EXCEPT ![t] = R],
         \A u \in Tasks \ {t} : terminalEvents'[u] = terminalEvents[u],
         reservation' = reservation, inventory' = inventory,
         TaskRowOK(R, terminalEvents'[t]),
         R.status \in Active <=> task[t].status \in Active,
         task[t].status \in Active => 
           R.exec = task[t].exec /\ R.worker = task[t].worker /\ R.started = task[t].started
  PROVE  Core'
<1>1. /\ task'[t] = R
      /\ \A u \in Tasks \ {t} : task'[u] = task[u]
  BY DEF Core, TypeOK
<1>2. ActiveReservations' = ActiveReservations
  BY ZenonT(60) DEF ActiveReservations
<1>3. SingleActiveExecution'
  BY <1>1, <1>2, SMTT(30), Z3T(30) DEF Core, SingleActiveExecution
<1>4. RowFacts'
  <2>1. RowFacts
    BY CoreRows, Zenon
  <2>2. \A u \in Tasks : TaskRowOK(task'[u], terminalEvents'[u])
    BY <1>1, <2>1, ZenonT(60) DEF RowFacts
  <2>3. \A e \in ActiveReservations :
          reservation[e].ran = task'[reservation[e].task].started
    BY <1>1, <2>1 DEF Core, RowFacts, SingleActiveExecution
  <2> QED  BY <1>2, <2>1, <2>2, <2>3, RowFactsNext, ZenonT(60) DEF RowFacts
<1> QED  BY <1>3, <1>4, RowsCore, PTL

(* A report or an adoption changes task and reservation together.          *)
LEMMA InPlaceStep ==
  ASSUME Core, TypeOK', NEW e \in ExecIds, reservation[e].state = "active",
         NEW R \in TaskRow, NEW S \in ReservationRow,
         task' = [task EXCEPT ![reservation[e].task] = R],
         reservation' = [reservation EXCEPT ![e] = S],
         terminalEvents' = terminalEvents, inventory' = inventory,
         R.status \in Active, R.exec = e, R.worker = reservation[e].worker,
         R.status \in {"stopping", "preempting"} => R.cancelRequested,
         S.state = "active", S.task = reservation[e].task,
         S.worker = reservation[e].worker, S.devices = reservation[e].devices,
         S.ran = R.started, S.settled = FALSE
  PROVE  Core'
<1> DEFINE t == reservation[e].task
<1>1. t \in Tasks /\ task[t].exec = e /\ task[t].status \in Active
  BY ZenonT(60) DEF Core, SingleActiveExecution, ActiveReservations
<1>2. /\ task'[t] = R
      /\ \A u \in Tasks \ {t} : task'[u] = task[u]
      /\ reservation'[e] = S
      /\ \A f \in ExecIds \ {e} : reservation'[f] = reservation[f]
  BY <1>1, ZenonT(60) DEF Core, TypeOK
<1>3. ActiveReservations' = ActiveReservations
  BY <1>2, ZenonT(60) DEF ActiveReservations
<1>a. e \in ActiveReservations /\ SingleActiveExecution
  BY Zenon DEF ActiveReservations, Core
<1>4. SingleActiveExecution'
  <2>1. /\ reservation'[e].task = t /\ task'[t].exec = e
        /\ task'[t].worker = reservation'[e].worker /\ task'[t].status \in Active
    BY <1>2, ZenonT(60)
  <2> HIDE DEF t
  <2> QED  BY <1>1, <1>2, <1>3, <1>a, <2>1, OwnershipKept, ZenonT(60) DEF t
<1>5. RowFacts'
  <2>1. RowFacts
    BY CoreRows, Zenon
  <2>2. TaskRowOK(R, terminalEvents[t])
    BY <1>1, <2>1 DEF RowFacts, TaskRowOK, Active, Final, Waiting
  <2>3. ReservationRowOK(S)
    BY <2>1, ZenonT(60) DEF RowFacts, ReservationRowOK
  <2>4. \A f \in ActiveReservations :
          reservation'[f].ran = task'[reservation'[f].task].started
    BY <1>1, <1>2, <2>1 DEF Core, RowFacts, SingleActiveExecution, ActiveReservations
  <2>5. \A f \in ExecIds : reservation'[f].devices = reservation[f].devices
    BY <1>2
  <2>6. \A u \in Tasks : TaskRowOK(task'[u], terminalEvents[u])
    BY <1>2, <2>1, <2>2, ZenonT(60) DEF RowFacts
  <2>7. \A f \in ExecIds : ReservationRowOK(reservation'[f])
    BY <1>2, <2>1, <2>3, ZenonT(60) DEF RowFacts
  <2>8. \A f, g \in ActiveReservations' :
          f # g => reservation'[f].devices \cap reservation'[g].devices = {}
    BY <1>3, <2>1, <2>5 DEF RowFacts, ActiveReservations
  <2> QED  BY <1>3, <2>1, <2>4, <2>6, <2>7, <2>8, RowFactsNext, ZenonT(60) DEF RowFacts
<1> QED  BY <1>4, <1>5, RowsCore, PTL

(* A result or a recovery ends the execution.                              *)
LEMMA ReleaseStep ==
  ASSUME Core, TypeOK', NEW t \in Tasks, task[t].status \in Active,
         NEW R \in TaskRow,
         task' = [task EXCEPT ![t] = R],
         NEW e, e = task[t].exec, NEW S \in ReservationRow,
         reservation' = [reservation EXCEPT ![e] = S],
         S.state = "released", S.task = t, S.worker \in Workers,
         S.settled = S.ran,
         \A u \in Tasks \ {t} : terminalEvents'[u] = terminalEvents[u],
         inventory' = inventory,
         R.status \notin Active, TaskRowOK(R, terminalEvents'[t])
  PROVE  Core'
<1>1. /\ e \in ExecIds /\ reservation[e] \in ReservationRow
      /\ reservation[e].state = "active" /\ reservation[e].task = t
      /\ reservation[e].ran = task[t].started
  BY ActiveFacts, ZenonT(60) DEF Core, TypeOK
<1>2. /\ task'[t] = R
      /\ \A u \in Tasks \ {t} : task'[u] = task[u]
      /\ reservation'[e] = S
      /\ \A f \in ExecIds \ {e} : reservation'[f] = reservation[f]
  BY <1>1, ZenonT(60) DEF Core, TypeOK
<1>4. ActiveReservations' = ActiveReservations \ {e}
  BY <1>1, <1>2, SMTT(30), Z3T(30) DEF ActiveReservations
<1>a. e \in ActiveReservations /\ SingleActiveExecution
  BY <1>1, Zenon DEF ActiveReservations, Core
<1>5. SingleActiveExecution'
  BY <1>1, <1>2, <1>4, <1>a, OwnershipEnded, ZenonT(60)
<1>6. RowFacts'
  <2>1. RowFacts
    BY CoreRows, Zenon
  <2>2. ReservationRowOK(S)
    BY <2>1, ZenonT(60) DEF RowFacts, ReservationRowOK, ReservationRow
  <2>3. \A u \in Tasks : TaskRowOK(task'[u], terminalEvents'[u])
    BY <1>2, <2>1, SMTT(30), Z3T(30) DEF RowFacts
  <2>4. \A f \in ExecIds : ReservationRowOK(reservation'[f])
    BY <1>2, <2>1, <2>2, ZenonT(60) DEF RowFacts
  <2>5. \A f \in ActiveReservations' :
          reservation'[f].ran = task'[reservation'[f].task].started
    BY <1>1, <1>2, <1>4, <2>1, SMTT(30), Z3T(30)
       DEF Core, RowFacts, SingleActiveExecution, ActiveReservations
  <2>6. \A f, g \in ActiveReservations' :
          f # g => reservation'[f].devices \cap reservation'[g].devices = {}
    BY <1>2, <1>4, <2>1 DEF RowFacts, ActiveReservations
  <2> QED  BY <2>1, <2>3, <2>4, <2>5, <2>6, RowFactsNext, ZenonT(60) DEF RowFacts
<1> QED  BY <1>5, <1>6, RowsCore, PTL

(* A claim or a placement starts one.                                      *)
LEMMA AssignStep ==
  ASSUME Core, TypeOK', NEW t \in Tasks, task[t].status = "queued",
         NEW w \in Workers, NEW e \in ExecIds, reservation[e].state = "none",
         NEW R \in TaskRow, NEW S \in ReservationRow,
         task' = [task EXCEPT ![t] = R],
         reservation' = [reservation EXCEPT ![e] = S],
         terminalEvents' = terminalEvents, inventory' = inventory,
         R.status = "assigned", R.exec = e, R.worker = w,
         S.state = "active", S.task = t, S.worker = w,
         S.devices \subseteq FreeDevices(w), Cardinality(S.devices) = Gpus[t],
         S.ran = R.started, S.settled = FALSE
  PROVE  Core'
<1>1. /\ task'[t] = R
      /\ \A u \in Tasks \ {t} : task'[u] = task[u]
      /\ reservation'[e] = S
      /\ \A f \in ExecIds \ {e} : reservation'[f] = reservation[f]
  BY ZenonT(60) DEF Core, TypeOK
<1>2. ActiveReservations' = ActiveReservations \cup {e} /\ e \notin ActiveReservations
  BY <1>1, SMTT(30), Z3T(30) DEF ActiveReservations
<1>3. \A f \in ActiveReservations : reservation[f].task # t
  BY ZenonT(60) DEF Core, SingleActiveExecution, Active
<1>4. \A u \in Tasks : task[u].status \in Active => task[u].exec # e
  BY <1>2, ZenonT(60) DEF Core, SingleActiveExecution
<1>a. SingleActiveExecution /\ task[t].status \notin Active /\ R.status \in Active
  BY Zenon DEF Core, Active
<1>5. SingleActiveExecution'
  <2>1. /\ reservation'[e].task = t /\ task'[t].exec = e
        /\ task'[t].worker = reservation'[e].worker /\ task'[t].status \in Active
    BY <1>1, <1>a, ZenonT(60)
  <2> QED  BY <1>1, <1>2, <1>a, <2>1, OwnershipBegun, ZenonT(60)
<1>6. RowFacts'
  <2>1. RowFacts
    BY CoreRows, Zenon
  <2>2. TaskRowOK(R, terminalEvents[t])
    BY <2>1 DEF RowFacts, TaskRowOK, Active, Final, Waiting
  <2>3. ReservationRowOK(S)
    BY <2>1, ZenonT(60) DEF RowFacts, ReservationRowOK, FreeDevices
  <2>4. \A u \in Tasks : TaskRowOK(task'[u], terminalEvents'[u])
    BY <1>1, <2>1, <2>2, ZenonT(60) DEF RowFacts
  <2>5. \A f \in ExecIds : ReservationRowOK(reservation'[f])
    BY <1>1, <2>1, <2>3, ZenonT(60) DEF RowFacts
  <2>6. \A f \in ActiveReservations' :
          reservation'[f].ran = task'[reservation'[f].task].started
    <3> SUFFICES ASSUME NEW f \in ActiveReservations'
                 PROVE  reservation'[f].ran = task'[reservation'[f].task].started
      OBVIOUS
    <3>1. CASE f = e
      BY <3>1, <1>1, SMTT(30), Z3T(30)
    <3>2. CASE f # e
      BY <3>2, <1>1, <1>2, <1>3, <2>1, SMTT(30), Z3T(30)
         DEF RowFacts, Core, SingleActiveExecution, ActiveReservations
    <3> QED  BY <3>1, <3>2, ZenonT(60)
  <2>7. \A f \in ActiveReservations : reservation[f].devices \cap S.devices = {}
    BY ZenonT(60) DEF FreeDevices, AllocatedDevices
  <2>8. \A f, g \in ActiveReservations' :
          f # g => reservation'[f].devices \cap reservation'[g].devices = {}
    BY <1>1, <1>2, <2>1, <2>7 DEF RowFacts, ActiveReservations
  <2> QED  BY <2>1, <2>4, <2>5, <2>6, <2>8, RowFactsNext, ZenonT(60) DEF RowFacts
<1> QED  BY <1>5, <1>6, RowsCore, PTL

(* A Worker row changes and no task does.                                  *)
LEMMA WorkerOnlyStep ==
  ASSUME Core, TypeOK', UNCHANGED <<task, reservation, terminalEvents>>,
         \A w \in Workers : \A d \in inventory'[w] : WorkerOf[d] = w
  PROVE  Core'
<1>1. RowFacts /\ SingleActiveExecution
  BY CoreRows, ZenonT(60) DEF Core
<1>2. SingleActiveExecution' /\ RowFacts'
  BY <1>1 DEF SingleActiveExecution, RowFacts, ActiveReservations, TaskRowOK,
              ReservationRowOK
<1> QED  BY <1>2, RowsCore, PTL
-----------------------------------------------------------------------------
(* The quota transitions keep the counters natural when their guards hold. *)
LEMMA QuotaTypes ==
  ASSUME NEW q \in QuotaRow, NEW g \in Nat
  PROVE  /\ AdmitQueued(q) \in QuotaRow /\ CanReleaseQueued(AdmitQueued(q))
         /\ CanReleaseQueued(q) => ReleaseQueued(q) \in QuotaRow
         /\ CanReserveExecution(q, g) => ReserveExecution(q, g) \in QuotaRow
         /\ CanReleaseExecution(q, g) => ReleaseExecution(q, g) \in QuotaRow
<1>1. AdmitQueued(q) \in QuotaRow /\ CanReleaseQueued(AdmitQueued(q))
  BY DEF QuotaRow, AdmitQueued, CanReleaseQueued
<1>2. CanReleaseQueued(q) => ReleaseQueued(q) \in QuotaRow
  BY DEF QuotaRow, CanReleaseQueued, ReleaseQueued
<1>3. CanReserveExecution(q, g) => ReserveExecution(q, g) \in QuotaRow
  BY DEF QuotaRow, CanReserveExecution, ReserveExecution
<1>4. CanReleaseExecution(q, g) => ReleaseExecution(q, g) \in QuotaRow
  <2> SUFFICES ASSUME CanReleaseExecution(q, g)
               PROVE  ReleaseExecution(q, g) \in QuotaRow
    OBVIOUS
  <2>1. q.running - 1 \in Nat /\ q.gpus - g \in Nat
    BY DEF QuotaRow, CanReleaseExecution
  <2> QED  BY <2>1, ZenonT(60) DEF QuotaRow, ReleaseExecution
<1> QED  BY <1>1, <1>2, <1>3, <1>4

(* Submission, cancellation, dependencies: the rows that wait.             *)

(* Submission (TaskRepository.create_queued) preserves Core.               *)
LEMMA CreateQueuedCore ==
  ASSUME Core, NEW t \in Tasks, CreateQueued(t)
  PROVE  Core'
<1> DEFINE T == task[t]
<1>1. T \in TaskRow /\ T = AbsentTask /\ terminalEvents[t] = 0
  BY CoreRows, Zenon
     DEF Core, TypeOK, RowFacts, TaskRowOK, CreateQueued, Final
<1>2. CASE DependencyFailed(t) /\ t \in CancelPolicy
  <2> DEFINE R == [T EXCEPT !.status = "cancelled", !.userCancelled = TRUE]
  <2>1. task' = [task EXCEPT ![t] = R]
    BY <1>2, Zenon DEF CreateQueued
  <2>2. R \in TaskRow
    BY <1>1, ZenonT(60) DEF TaskRow, TaskStatus
  <2>3. terminalEvents' = [terminalEvents EXCEPT ![t] = 1]
    BY <1>1, <1>2 DEF CreateQueued
  <2>4. TypeOK'
    <3>1. quota' \in QuotaRow
      BY <1>2, QuotaTypes DEF CreateQueued, Core, TypeOK
    <3> QED  BY <1>2, <2>1, <2>2, <2>3, <3>1, ZenonT(60)
       DEF CreateQueued, Core, TypeOK
  <2>5. TaskRowOK(R, terminalEvents'[t])
    BY <1>1, <2>3 DEF Core, TypeOK, TaskRowOK, AbsentTask, Active, Waiting, Final
  <2>6. R.status \notin Active /\ T.status \notin Active
    BY <1>1 DEF AbsentTask, Active
  <2> HIDE DEF R
  <2> QED  BY <2>1, <2>2, <2>3, <2>4, <2>5, <2>6, TaskOnlyStep, ZenonT(60)
              DEF CreateQueued, Core, TypeOK
<1>3. CASE ~ (DependencyFailed(t) /\ t \in CancelPolicy)
  <2> DEFINE s == IF DependenciesReady(t) THEN "queued" ELSE "pending"
             R == [T EXCEPT !.status = s]
  <2>1. task' = [task EXCEPT ![t] = R]
    BY <1>3, Zenon DEF CreateQueued
  <2>2. R \in TaskRow
    BY <1>1 DEF TaskRow, TaskStatus
  <2>3. terminalEvents' = terminalEvents
    BY <1>3 DEF CreateQueued
  <2>4. TypeOK'
    BY <1>3, <2>1, <2>2, <2>3, QuotaTypes, ZenonT(60)
       DEF CreateQueued, Core, TypeOK
  <2>5. TaskRowOK(R, terminalEvents'[t])
    BY <1>1, <2>3, SMTT(30), Z3T(30)
       DEF Core, TypeOK, TaskRowOK, AbsentTask, Active, Waiting, Final
  <2>6. R.status \notin Active /\ T.status \notin Active
    BY <1>1 DEF AbsentTask, Active
  <2> HIDE DEF R
  <2> QED  BY <2>1, <2>2, <2>3, <2>4, <2>5, <2>6, TaskOnlyStep, ZenonT(60)
              DEF CreateQueued
<1> QED  BY <1>2, <1>3, ZenonT(60)

(* Cancelling a task that is being preempted preserves Core.               *)
LEMMA CancelPreemptingCore ==
  ASSUME Core, NEW t \in Tasks, CancelPreempting(t)
  PROVE  Core'
<1> DEFINE T == task[t]
           R == [T EXCEPT !.cancelRequested = TRUE, !.requeue = FALSE,
                          !.userCancelled = TRUE]
<1>1. T \in TaskRow /\ TaskRowOK(T, terminalEvents[t]) /\ T.status = "preempting"
  BY CoreRows DEF Core, TypeOK, RowFacts, CancelPreempting
<1>2. task' = [task EXCEPT ![t] = R]
  BY Zenon DEF CancelPreempting
<1>3. R \in TaskRow
  BY <1>1, ZenonT(60) DEF TaskRow
<1>4. TypeOK'
  BY <1>2, <1>3, ZenonT(60) DEF CancelPreempting, Core, TypeOK
<1>5. /\ R.status = T.status /\ R.exec = T.exec /\ R.worker = T.worker
      /\ R.started = T.started /\ R.cancelRequested = TRUE
  BY <1>1 DEF TaskRow
<1>6. TaskRowOK(R, terminalEvents[t])
  BY <1>1, <1>5 DEF TaskRowOK, Active, Waiting, Final
<1> HIDE DEF R
<1> QED  BY <1>2, <1>3, <1>4, <1>5, <1>6, TaskOnlyStep, ZenonT(60) DEF CancelPreempting

(* Asking an active task to stop preserves Core.                           *)
LEMMA CancelActiveCore ==
  ASSUME Core, NEW t \in Tasks, CancelActive(t)
  PROVE  Core'
<1> DEFINE T == task[t]
           R == [T EXCEPT !.cancelRequested = TRUE, !.status = "stopping"]
<1>1. T \in TaskRow /\ TaskRowOK(T, terminalEvents[t]) /\ T.status \in Active
  BY CoreRows DEF Core, TypeOK, RowFacts, CancelActive
<1>2. task' = [task EXCEPT ![t] = R]
  BY Zenon DEF CancelActive
<1>3. R \in TaskRow
  BY <1>1, ZenonT(60) DEF TaskRow, TaskStatus
<1>4. TypeOK'
  BY <1>2, <1>3 DEF CancelActive, Core, TypeOK
<1>5. /\ R.status = "stopping" /\ R.exec = T.exec /\ R.worker = T.worker
      /\ R.started = T.started /\ R.cancelRequested = TRUE
  BY <1>1, ZenonT(60) DEF TaskRow
<1>6. TaskRowOK(R, terminalEvents[t]) /\ R.status \in Active
  BY <1>1, <1>5 DEF TaskRowOK, Active, Waiting, Final
<1> HIDE DEF R
<1> QED  BY <1>1, <1>2, <1>3, <1>4, <1>5, <1>6, TaskOnlyStep, ZenonT(60)
            DEF CancelActive

(* Cancelling a waiting task preserves Core; the Worker counters it would  *)
(* lower are untouched, because a waiting task names no Worker.            *)
LEMMA CancelWaitingCore ==
  ASSUME Core, NEW t \in Tasks, CancelWaiting(t)
  PROVE  Core'
<1> DEFINE T == task[t]
           R == [T EXCEPT !.status = "cancelled", !.cancelRequested = TRUE,
                          !.userCancelled = TRUE, !.lease = "none", !.exec = NoExec]
<1>1. T \in TaskRow /\ T.status \in Waiting /\ T.worker = NoWorker
      /\ terminalEvents[t] = 0
  BY CoreRows DEF Core, TypeOK, RowFacts, TaskRowOK, CancelWaiting, Waiting, Final
<1>2. task' = [task EXCEPT ![t] = R]
  BY Zenon DEF CancelWaiting
<1>3. R \in TaskRow
  BY <1>1, ZenonT(60) DEF TaskRow, TaskStatus, NoExec
<1>4. worker' = worker /\ quota' \in QuotaRow
  BY <1>1, QuotaTypes DEF CancelWaiting, Core, TypeOK
<1>5. terminalEvents' = [terminalEvents EXCEPT ![t] = 1]
  BY <1>1 DEF CancelWaiting
<1>6. TypeOK'
  <2>1. UNCHANGED <<reservation, inventory, plans, tokens>>
    BY DEF CancelWaiting
  <2> HIDE DEF R
  <2> QED  BY <1>2, <1>3, <1>4, <1>5, <2>1, ZenonT(60) DEF Core, TypeOK
<1>7. R.status = "cancelled" /\ R.lease = "none"
  BY <1>1 DEF TaskRow
<1>8. terminalEvents'[t] = 1 /\ \A u \in Tasks \ {t} : terminalEvents'[u] = terminalEvents[u]
  BY <1>5 DEF Core, TypeOK
<1>9. TaskRowOK(R, terminalEvents'[t]) /\ R.status \notin Active /\ T.status \notin Active
  BY <1>1, <1>7, <1>8 DEF TaskRowOK, Active, Waiting, Final
<1> HIDE DEF R
<1> QED  BY <1>2, <1>3, <1>6, <1>8, <1>9, TaskOnlyStep, ZenonT(60) DEF CancelWaiting

(* The dependency scan preserves Core.                                     *)
LEMMA ResolveDependencyReadinessCore ==
  ASSUME Core, NEW t \in Tasks, ResolveDependencyReadiness(t)
  PROVE  Core'
<1> DEFINE T == task[t]
<1>1. /\ T \in TaskRow /\ TaskRowOK(T, terminalEvents[t])
      /\ T.status \in {"pending", "queued"} /\ terminalEvents[t] = 0
  BY CoreRows DEF Core, TypeOK, RowFacts, TaskRowOK, ResolveDependencyReadiness, Final
<1>2. CASE task' = [task EXCEPT ![t].status = "queued"]
           /\ UNCHANGED <<quota, terminalEvents>>
  <2> DEFINE R == [T EXCEPT !.status = "queued"]
  <2>1. task' = [task EXCEPT ![t] = R]
    BY <1>2, Zenon
  <2>2. R \in TaskRow
    BY <1>1 DEF TaskRow, TaskStatus
  <2>3. TypeOK'
    BY <1>2, <2>1, <2>2 DEF ResolveDependencyReadiness, Core, TypeOK
  <2>4. /\ R.status = "queued" /\ R.lease = T.lease /\ R.worker = T.worker
        /\ R.exec = T.exec /\ R.cancelRequested = T.cancelRequested
    BY <1>1 DEF TaskRow
  <2>5. TaskRowOK(R, terminalEvents[t]) /\ R.status \notin Active /\ T.status \notin Active
    BY <1>1, <2>4 DEF TaskRowOK, Active, Waiting, Final
  <2> HIDE DEF R
  <2> QED  BY <1>2, <2>1, <2>2, <2>3, <2>5, TaskOnlyStep, ZenonT(60)
              DEF ResolveDependencyReadiness
<1>3. CASE /\ CanReleaseQueued(quota)
           /\ task' = [task EXCEPT ![t].status = "cancelled",
                                   ![t].cancelRequested = TRUE,
                                   ![t].userCancelled = TRUE]
           /\ quota' = ReleaseQueued(quota)
           /\ terminalEvents' = [terminalEvents EXCEPT ![t] = @ + 1]
  <2> DEFINE R == [T EXCEPT !.status = "cancelled", !.cancelRequested = TRUE,
                            !.userCancelled = TRUE]
  <2>1. task' = [task EXCEPT ![t] = R]
    BY <1>3, Zenon
  <2>2. R \in TaskRow
    BY <1>1, ZenonT(60) DEF TaskRow, TaskStatus
  <2>3. terminalEvents' = [terminalEvents EXCEPT ![t] = 1] /\ quota' \in QuotaRow
    BY <1>1, <1>3, QuotaTypes, SMTT(30), Z3T(30) DEF Core, TypeOK
  <2>4. TypeOK'
    BY <2>1, <2>2, <2>3, ZenonT(60) DEF ResolveDependencyReadiness, Core, TypeOK
  <2>5. R.status = "cancelled" /\ R.lease = T.lease
    BY <1>1 DEF TaskRow
  <2>6. terminalEvents'[t] = 1 /\ \A u \in Tasks \ {t} : terminalEvents'[u] = terminalEvents[u]
    BY <2>3 DEF Core, TypeOK
  <2>7. TaskRowOK(R, terminalEvents'[t]) /\ R.status \notin Active /\ T.status \notin Active
    BY <1>1, <2>5, <2>6 DEF TaskRowOK, Active, Waiting, Final
  <2> HIDE DEF R
  <2> QED  BY <2>1, <2>2, <2>4, <2>6, <2>7, TaskOnlyStep, ZenonT(60)
              DEF ResolveDependencyReadiness
<1> QED  BY <1>2, <1>3, ZenonT(60) DEF ResolveDependencyReadiness

(* Re-queueing a due retry preserves Core; its cancelled branch is dead.   *)
LEMMA ReleaseDueRetriesCore ==
  ASSUME Core, NEW t \in Tasks, ReleaseDueRetries(t)
  PROVE  Core'
<1> DEFINE T == task[t]
           R == [T EXCEPT !.status = "queued"]
<1>1. /\ T \in TaskRow /\ TaskRowOK(T, terminalEvents[t]) /\ T.status = "retrying"
      /\ T.cancelRequested = FALSE
  BY CoreRows DEF Core, TypeOK, TaskRow, RowFacts, TaskRowOK, ReleaseDueRetries, Waiting
<1>2. R = [T EXCEPT !.status = "queued", !.userCancelled = T.userCancelled \/ FALSE]
  BY <1>1, ZenonT(60) DEF TaskRow
<1>3. task' = [task EXCEPT ![t] = R]
  BY <1>1, <1>2, ZenonT(60) DEF ReleaseDueRetries
<1>4. R \in TaskRow
  BY <1>1 DEF TaskRow, TaskStatus
<1>5. terminalEvents' = terminalEvents
  BY <1>1, ZenonT(60) DEF ReleaseDueRetries, Core, TypeOK
<1>6. TypeOK'
  <2>1. UNCHANGED <<reservation, worker, inventory, quota, plans, tokens>>
    BY DEF ReleaseDueRetries
  <2> HIDE DEF R
  <2> QED  BY <1>3, <1>4, <1>5, <2>1, ZenonT(60) DEF Core, TypeOK
<1>7. /\ R.status = "queued" /\ R.lease = T.lease /\ R.worker = T.worker
      /\ R.exec = T.exec /\ R.cancelRequested = T.cancelRequested
  BY <1>1 DEF TaskRow
<1>8. TaskRowOK(R, terminalEvents[t]) /\ R.status \notin Active /\ T.status \notin Active
  BY <1>1, <1>7, ZenonT(60) DEF TaskRowOK, Active, Waiting, Final
<1> HIDE DEF R
<1> QED  BY <1>3, <1>4, <1>5, <1>6, <1>8, TaskOnlyStep, ZenonT(60) DEF ReleaseDueRetries

(* The lease, the handle or the status of an active row change in place.   *)
LEMMA ActiveRowStep ==
  ASSUME Core, NEW t \in Tasks, task[t].status \in Active, NEW R \in TaskRow,
         task' = [task EXCEPT ![t] = R],
         UNCHANGED <<reservation, worker, inventory, quota, plans, terminalEvents>>,
         tokens' \subseteq ExecIds \X Nat,
         R.status \in Active, R.exec = task[t].exec, R.worker = task[t].worker,
         R.started = task[t].started,
         R.status \in {"stopping", "preempting"} => R.cancelRequested
  PROVE  Core'
<1>1. TypeOK'
  BY ZenonT(60) DEF Core, TypeOK
<1>2. terminalEvents[t] = 0
  BY CoreRows, ZenonT(60) DEF RowFacts, TaskRowOK, Active, Final
<1>3. TaskRowOK(R, terminalEvents'[t])
  BY <1>2 DEF TaskRowOK, Active, Waiting, Final
<1> QED  BY <1>1, <1>3, TaskOnlyStep, ZenonT(60)

(* The clock passing a lease preserves Core.                               *)
LEMMA LeaseExpiresCore ==
  ASSUME Core, NEW t \in Tasks, LeaseExpires(t)
  PROVE  Core'
<1> DEFINE T == task[t]
           R == [T EXCEPT !.lease = "expired"]
<1>1. T \in TaskRow /\ TaskRowOK(T, terminalEvents[t]) /\ T.status \in Active
  BY CoreRows DEF Core, TypeOK, RowFacts, TaskRowOK, LeaseExpires
<1>2. task' = [task EXCEPT ![t] = R]
  BY Zenon DEF LeaseExpires
<1>3. R \in TaskRow
  BY <1>1 DEF TaskRow
<1>4. /\ R.status = T.status /\ R.exec = T.exec /\ R.worker = T.worker
      /\ R.started = T.started /\ R.cancelRequested = T.cancelRequested
  BY <1>1 DEF TaskRow
<1> HIDE DEF R
<1> QED  BY <1>1, <1>2, <1>3, <1>4, ActiveRowStep, ZenonT(60)
         DEF LeaseExpires, TaskRowOK, Core, TypeOK

(* record_runtime_handle, preserve_handoff_lease and renew_lease preserve  *)
(* Core.                                                                   *)
LEMMA LeaseReportsCore ==
  ASSUME Core, NEW k \in tokens,
         RecordRuntimeHandle(k) \/ PreserveHandoffLease(k) \/ RenewLease(k)
  PROVE  Core'
<1> DEFINE t == TaskOf(k)
           T == task[t]
<1>1. Owned(k)
  BY ZenonT(60) DEF RecordRuntimeHandle, PreserveHandoffLease, RenewLease
<1>2. t \in Tasks /\ T \in TaskRow /\ TaskRowOK(T, terminalEvents[t]) /\ T.status \in Active
  BY <1>1, OwnedFacts, CoreRows, ZenonT(60) DEF Core, TypeOK, RowFacts
<1>3. PICK h \in BOOLEAN, l \in {"none", "live", "expired"} :
        task' = [task EXCEPT ![t] = [T EXCEPT !.handle = h, !.lease = l]]
  <2>1. CASE RecordRuntimeHandle(k)
    <3> DEFINE h == t \in Kubernetes
               l == IF t \in Kubernetes THEN "live" ELSE T.lease
    <3>1. task' = [task EXCEPT ![t] = [T EXCEPT !.handle = h, !.lease = l]]
      BY <2>1, ZenonT(60) DEF RecordRuntimeHandle
    <3>2. h \in BOOLEAN /\ l \in {"none", "live", "expired"}
      BY <1>2 DEF TaskRow
    <3> QED  BY <3>1, <3>2, Zenon
  <2>2. CASE PreserveHandoffLease(k) \/ RenewLease(k)
    <3>1. task' = [task EXCEPT ![t] = [T EXCEPT !.lease = "live"]]
      BY <2>2, Zenon DEF PreserveHandoffLease, RenewLease
    <3>2. T.handle \in BOOLEAN
          /\ [T EXCEPT !.lease = "live"] = [T EXCEPT !.handle = T.handle, !.lease = "live"]
      BY <1>2, ZenonT(60) DEF TaskRow
    <3> QED  BY <3>1, <3>2, Zenon
  <2> QED  BY <2>1, <2>2, ZenonT(60)
<1> DEFINE R == [T EXCEPT !.handle = h, !.lease = l]
<1>4. R \in TaskRow
  BY <1>2, ZenonT(60) DEF TaskRow
<1>5. /\ R.status = T.status /\ R.exec = T.exec /\ R.worker = T.worker
      /\ R.started = T.started /\ R.cancelRequested = T.cancelRequested
  BY <1>2, ZenonT(60) DEF TaskRow
<1>6. UNCHANGED <<reservation, worker, inventory, quota, plans, tokens, terminalEvents>>
  BY ZenonT(60) DEF RecordRuntimeHandle, PreserveHandoffLease, RenewLease
<1> HIDE DEF R, t
<1> QED  BY <1>2, <1>3, <1>4, <1>5, <1>6, ActiveRowStep, ZenonT(60)
            DEF TaskRowOK, Core, TypeOK, R

(* mark_pulling, mark_starting and mark_running preserve Core.             *)
LEMMA AdvanceCore ==
  ASSUME Core, NEW k \in tokens, NEW from \in SUBSET Active, NEW to \in Active,
         to \notin {"stopping", "preempting"}, NEW repeats \in SUBSET Active,
         Advance(k, from, to, repeats)
  PROVE  Core'
<1> DEFINE e == k[1]
           t == reservation[e].task
           T == task[t]
           starts == T.status \in from /\ to = "running"
           s == IF T.status \in from THEN to ELSE T.status
           b == T.started \/ starts
           R == [T EXCEPT !.status = s, !.lease = "live", !.started = b]
           S == [reservation[e] EXCEPT !.ran = reservation[e].ran \/ starts]
<1>1. /\ e \in ExecIds /\ t \in Tasks /\ T.exec = e
      /\ reservation[e].state = "active" /\ reservation[e].ran = T.started
  BY OwnedFacts, ZenonT(60) DEF Advance, TaskOf
<1>2. T.worker = reservation[e].worker
  BY ZenonT(60) DEF Advance, Owned, TaskOf
<1>3. /\ T \in TaskRow /\ reservation[e] \in ReservationRow
      /\ TaskRowOK(T, terminalEvents[t]) /\ reservation[e].settled = FALSE
  BY <1>1, CoreRows, ZenonT(60) DEF Core, TypeOK, RowFacts, ReservationRowOK
<1>4. task' = [task EXCEPT ![t] = R] /\ reservation' = [reservation EXCEPT ![e] = S]
  BY Zenon DEF Advance, TaskOf
<1>5. s \in Active /\ s \in TaskStatus /\ b \in BOOLEAN
      /\ (s \in {"stopping", "preempting"} => T.cancelRequested)
  BY <1>3, ZenonT(60) DEF Advance, TaskOf, Active, TaskStatus, TaskRowOK
<1> HIDE DEF s, b
<1>6. R \in TaskRow
  BY <1>3, <1>5, ZenonT(60) DEF TaskRow
<1>7. /\ R.status = s /\ R.exec = e /\ R.worker = T.worker /\ R.started = b
      /\ R.cancelRequested = T.cancelRequested
  BY <1>1, <1>3 DEF TaskRow
<1>8. S \in ReservationRow
  BY <1>3, ZenonT(60) DEF ReservationRow
<1>9. /\ S.state = "active" /\ S.task = t /\ S.worker = reservation[e].worker
      /\ S.devices = reservation[e].devices /\ S.settled = FALSE
  BY <1>1, <1>3, ZenonT(60) DEF ReservationRow
<1>10. S.ran = R.started
  <2>1. S.ran = (reservation[e].ran \/ starts)
    BY <1>3 DEF ReservationRow
  <2>2. (reservation[e].ran \/ starts) = b
    BY <1>1, ZenonT(60) DEF b
  <2> QED  BY <1>7, <2>1, <2>2, SMTT(30), Z3T(30)
<1>11. UNCHANGED <<worker, inventory, quota, plans, tokens, terminalEvents>>
  BY ZenonT(60) DEF Advance
<1> HIDE DEF R, S, T
<1>12. TypeOK'
  BY <1>1, <1>4, <1>6, <1>8, <1>11, ZenonT(60) DEF Core, TypeOK
<1> QED  BY ZenonT(60), <1>1, <1>2, <1>4, <1>5, <1>6, <1>7, <1>8, <1>9, <1>10, <1>11, <1>12,
            InPlaceStep DEF T

(* A Worker taking its placed assignment preserves Core.                   *)
LEMMA TakeGlobalAssignmentCore ==
  ASSUME Core, NEW e \in ExecIds, TakeGlobalAssignment(e)
  PROVE  Core'
<1> DEFINE t == reservation[e].task
           T == task[t]
           R == [T EXCEPT !.status = "preparing", !.lease = "live"]
<1>1. t \in Tasks /\ T.status = "assigned" /\ reservation[e].session \in Nat
  BY ZenonT(60)
     DEF TakeGlobalAssignment, Core, SingleActiveExecution, ActiveReservations,
         TypeOK, ReservationRow
<1>2. T \in TaskRow
  BY <1>1 DEF Core, TypeOK
<1>3. task' = [task EXCEPT ![t] = R]
  BY Zenon DEF TakeGlobalAssignment
<1>4. R \in TaskRow
  BY <1>2, ZenonT(60) DEF TaskRow, TaskStatus
<1>5. /\ R.status = "preparing" /\ R.exec = T.exec /\ R.worker = T.worker
      /\ R.started = T.started
  BY <1>2 DEF TaskRow
<1>6. R.status \in Active /\ T.status \in Active
  BY <1>1, <1>5, ZenonT(60) DEF Active
<1>7. /\ UNCHANGED <<reservation, worker, inventory, quota, plans, terminalEvents>>
      /\ tokens' \subseteq ExecIds \X Nat
  BY <1>1 DEF TakeGlobalAssignment, Core, TypeOK
<1> HIDE DEF R
<1> QED  BY <1>1, <1>3, <1>4, <1>5, <1>6, <1>7, ActiveRowStep, ZenonT(60)

(* The adoption of a running Job by a new session preserves Core.          *)
LEMMA TransferRecoverableCore ==
  ASSUME Core, NEW e \in ExecIds, TransferRecoverable(e)
  PROVE  Core'
<1> DEFINE t == reservation[e].task
           T == task[t]
           n == worker[reservation[e].worker].session
           R == [T EXCEPT !.lease = "live"]
           S == [reservation[e] EXCEPT !.session = n]
<1>1. /\ t \in Tasks /\ T.status \in Active /\ T.exec = e
      /\ T.worker = reservation[e].worker
      /\ reservation[e].state = "active" /\ reservation[e].worker \in Workers
      /\ reservation[e].ran = T.started
  BY DEF TransferRecoverable, Core, SingleActiveExecution, ActiveReservations,
         RowsConsistent
<1>2. /\ T \in TaskRow /\ reservation[e] \in ReservationRow /\ n \in Nat
      /\ TaskRowOK(T, terminalEvents[t]) /\ reservation[e].settled = FALSE
  BY <1>1, CoreRows, ZenonT(60) DEF Core, TypeOK, WorkerRow, RowFacts, ReservationRowOK
<1>3. task' = [task EXCEPT ![t] = R] /\ reservation' = [reservation EXCEPT ![e] = S]
  BY ZenonT(60) DEF TransferRecoverable
<1>4. /\ UNCHANGED <<worker, inventory, quota, plans, terminalEvents>>
      /\ tokens' \subseteq ExecIds \X Nat
  BY <1>2, SMTT(30), Z3T(30) DEF TransferRecoverable, Core, TypeOK
<1> HIDE DEF n
<1>5. R \in TaskRow /\ S \in ReservationRow
  BY <1>2, ZenonT(60) DEF TaskRow, ReservationRow
<1>6. /\ R.status = T.status /\ R.exec = T.exec /\ R.worker = T.worker
      /\ R.started = T.started /\ R.cancelRequested = T.cancelRequested
  BY <1>2, ZenonT(60) DEF TaskRow
<1>7. /\ S.state = "active" /\ S.task = t /\ S.worker = reservation[e].worker
      /\ S.devices = reservation[e].devices /\ S.settled = FALSE
      /\ S.ran = reservation[e].ran
  BY <1>1, <1>2, ZenonT(60) DEF ReservationRow
<1> HIDE DEF R, S
<1>8. TypeOK'
  BY <1>1, <1>3, <1>4, <1>5, ZenonT(60) DEF Core, TypeOK
<1>9. R.status \in {"stopping", "preempting"} => R.cancelRequested
  BY <1>2, <1>6, ZenonT(60) DEF TaskRowOK
<1> QED  BY <1>1, <1>3, <1>4, <1>5, <1>6, <1>7, <1>8, <1>9, InPlaceStep, ZenonT(60)
=============================================================================
