-------------------------- MODULE TaskPhases_proofs --------------------------
(***************************************************************************)
(* Theorems about the phase of a Task, for every set of Tasks and Runs and *)
(* every value of the bounds: who may change it, and what a receipt may do *)
(* to it.                                                                  *)
(*                                                                         *)
(* All of them follow from one fact about a step, PhaseSteps: a step moves *)
(* at most one Task, and does so as a person, as the program, by a start   *)
(* or by a receipt.  That a receipt never overrules a person also needs an *)
(* invariant of its own, BoundToPhase: a Run created since the last manual *)
(* change is one a person authorized.                                      *)
(***************************************************************************)
EXTENDS TaskRuns_proofs

\* A Run carries the manual revision it was created at.  While the Task still
\* has that revision, it has been authorized.
BoundToPhase == \A r \in Run : run[r].status # "absent" =>
    LET row == task[TaskOf[r]] IN
    /\ run[r].manual <= row.manual
    /\ run[r].manual = row.manual => row.auto = row.manual

-----------------------------------------------------------------------------
(* What a step does to the Tasks.                                          *)

SamePhase(t) ==
    /\ task'[t].phase = task[t].phase /\ task'[t].resolution = task[t].resolution
    /\ task'[t].manual = task[t].manual /\ task'[t].auto = task[t].auto
SameBound(r) ==
    /\ run'[r].manual = run[r].manual
    /\ run[r].status = "absent" => run'[r].status = "absent"
SameBounds == \A r \in Run : SameBound(r)

Quiet == SameBounds /\ \A t \in Task : SamePhase(t)

ByPerson(t) ==
    /\ SameBounds
    /\ \A r \in Run : run'[r].status = "succeeded" => run[r].status = "succeeded"
    /\ task'[t].manual = task[t].manual + 1
    /\ task'[t].auto = task[t].auto
ByProgram(t) ==
    /\ UNCHANGED <<run, wait>>
    /\ AutomaticStartAllowed(t)
    /\ task'[t].manual = task[t].manual /\ task'[t].auto = task[t].auto
    /\ task'[t].resolution = "done" => ActiveRoots(t) = {} /\ ActiveWaits(t) = {}
ByStart(t) ==
    /\ task[t].phase # "closed"
    /\ task'[t].resolution = task[t].resolution
    /\ task'[t].manual = task[t].manual
    /\ task'[t].auto = task'[t].manual
    /\ \E r \in Run :
          /\ TaskOf[r] = t
          /\ run'[r].status \in {"queued", "running"}
          /\ run'[r].manual = task[t].manual
          /\ \A q \in Run \ {r} : run'[q] = run[q]
ByReceipt(t) ==
    /\ task'[t].manual = task[t].manual /\ task'[t].auto = task[t].auto
    /\ UNCHANGED wait
    /\ \E r \in Run :
          /\ TaskOf[r] = t /\ Active(r) /\ ReceiptDecides(r)
          /\ run'[r].status \in Terminal
          /\ run'[r].manual = run[r].manual
          /\ \A q \in Run \ {r} : run'[q] = run[q]

OneTask(t) == \A u \in Task \ {t} : SamePhase(u)
PhaseSteps ==
    \/ Quiet
    \/ \E t \in Task :
          OneTask(t) /\ (ByPerson(t) \/ ByProgram(t) \/ ByStart(t) \/ ByReceipt(t))

LEMMA QuietSteps ==
    ASSUME UNCHANGED task, SameBounds
    PROVE  PhaseSteps
  BY DEF PhaseSteps, Quiet, SamePhase

LEMMA NothingSteps ==
    ASSUME UNCHANGED <<task, run>>
    PROVE  PhaseSteps
  BY QuietSteps DEF SameBounds, SameBound

-----------------------------------------------------------------------------
(* A Run keeps the revision it was created at.                             *)

LEMMA ManualRows ==
    ASSUME NEW row \in RunRow
    PROVE  /\ Bumped(row).manual = row.manual
           /\ Released(row).manual = row.manual
           /\ \A st : [row EXCEPT !.status = st].manual = row.manual
           /\ \A s : [row EXCEPT !.owner = s, !.lease = "live"].manual = row.manual
           /\ [row EXCEPT !.lease = "expired"].manual = row.manual
           /\ [row EXCEPT !.cont = TRUE, !.attempts = @ + 1].manual = row.manual
           /\ [row EXCEPT !.status = "running", !.snapshot = TRUE, !.cont = FALSE,
                          !.attempts = 0].manual = row.manual
  BY DEF Bumped, Released, RunRow

LEMMA SuspendedManual ==
    ASSUME NEW row \in RunRow
    PROVE  Suspended(row).manual = row.manual
<1> DEFINE parked == [Released(row) EXCEPT !.status = "waiting"]
<1>1. Released(row) \in RunRow /\ "waiting" \in RunStatus
  BY ReleasedType DEF RunStatus
<1>2. parked \in RunRow /\ parked.manual = row.manual
  BY <1>1, StatusType, ManualRows
<1>3. Suspended(row) = Bumped(parked)
  BY DEF Suspended
<1> HIDE DEF parked
<1>4. QED
  BY <1>2, <1>3, ManualRows

LEMMA FinalizedManual ==
    ASSUME NEW row \in RunRow, NEW st \in Terminal
    PROVE  Finalized(row, st).manual = row.manual
<1> DEFINE ended == [Released(row) EXCEPT !.status = st]
<1>1. Released(row) \in RunRow /\ st \in RunStatus
  BY ReleasedType DEF RunStatus, Terminal
<1>2. ended \in RunRow /\ ended.manual = row.manual
  BY <1>1, StatusType, ManualRows
<1>3. Finalized(row, st) = Bumped(ended)
  BY DEF Finalized
<1> HIDE DEF ended
<1>4. QED
  BY <1>2, <1>3, ManualRows

LEMMA ContinuedManual ==
    ASSUME NEW row \in RunRow, row.attempts + 1 \in 0..(MaxAttempts - 1)
    PROVE  Continued(row).manual = row.manual
<1> DEFINE next == [row EXCEPT !.cont = TRUE, !.attempts = @ + 1]
<1>1. next \in RunRow
  BY DEF RunRow
<1>2. next.manual = row.manual
  BY ManualRows
<1>3. Continued(row) = Suspended(next)
  BY DEF Continued
<1> HIDE DEF next
<1>4. QED
  BY <1>1, <1>2, <1>3, SuspendedManual

LEMMA ResumedManual ==
    ASSUME NEW row \in RunRow
    PROVE  Resumed(row).manual = row.manual
<1> DEFINE next == [row EXCEPT !.status = "running"]
<1>1. next \in RunRow /\ next.manual = row.manual
  BY StatusType, ManualRows DEF RunStatus
<1>2. Resumed(row) = Bumped(next)
  BY DEF Resumed
<1> HIDE DEF next
<1>3. QED
  BY <1>1, <1>2, ManualRows

LEMMA StartedManual ==
    ASSUME NEW row \in RunRow
    PROVE  Started(row).manual = row.manual
<1> DEFINE next == [row EXCEPT !.status = "running", !.snapshot = TRUE, !.cont = FALSE,
                               !.attempts = 0]
<1>1. 0 \in 0..(MaxAttempts - 1) /\ "running" \in RunStatus
  BY StoreAssumption DEF RunStatus
<1>2. next \in RunRow
  BY <1>1 DEF RunRow
<1>3. next.manual = row.manual
  BY ManualRows
<1>4. Started(row) = Bumped(next)
  BY DEF Started
<1> HIDE DEF next
<1>5. QED
  BY <1>2, <1>3, <1>4, ManualRows

LEMMA ClaimedManual ==
    ASSUME NEW row \in RunRow, NEW s \in Slot
    PROVE  Claimed(row, s).manual = row.manual
<1> DEFINE leased == [row EXCEPT !.owner = s, !.lease = "live"]
           bumped == Bumped(leased)
<1>1. leased \in RunRow
  BY DEF RunRow
<1>2. leased.manual = row.manual
  BY ManualRows
<1>3. Claimed(row, s) = IF row.status = "waiting" THEN Resumed(bumped) ELSE bumped
  BY DEF Claimed
<1> HIDE DEF leased
<1>4. bumped \in RunRow /\ bumped.manual = row.manual
  BY <1>1, <1>2, BumpedType, ManualRows
<1> HIDE DEF bumped
<1>5. QED
  BY <1>3, <1>4, ResumedManual

LEMMA RowBounds ==
    ASSUME StoreTypeOK, NEW q \in Run, run[q].status # "absent",
           NEW row, row.manual = run[q].manual, run' = [run EXCEPT ![q] = row]
    PROVE  SameBounds
  BY DEF SameBounds, SameBound, StoreTypeOK

LEMMA ParkBounds ==
    ASSUME StoreTypeOK, NEW q \in Run, run[q].status # "absent",
           run' = [run EXCEPT ![q] = Suspended(run[q])]
    PROVE  SameBounds
<1>1. Suspended(run[q]).manual = run[q].manual
  BY SuspendedManual DEF StoreTypeOK
<1>2. QED
  BY <1>1, RowBounds

LEMMA ScheduleBounds ==
    ASSUME StoreTypeOK, NEW q \in Run, CanContinue(q), ScheduleContinuation(q)
    PROVE  SameBounds
<1>1. run[q] \in RunRow /\ run[q].status # "absent"
  BY DEF StoreTypeOK, CanContinue
<1>2. run[q].attempts + 1 \in 0..(MaxAttempts - 1)
  BY <1>1, StoreAssumption DEF CanContinue, RunRow
<1>3. Continued(run[q]).manual = run[q].manual
  BY <1>1, <1>2, ContinuedManual
<1>4. QED
  BY <1>1, <1>3, RowBounds DEF ScheduleContinuation

\* Parking or cancelling the active Runs of a Task.
LEMMA ParkedBounds ==
    ASSUME StoreTypeOK, NEW t \in Task, run' = Parked(t)
    PROVE  SameBounds
<1>1. ASSUME NEW r \in Run PROVE SameBound(r)
  <2>1. Suspended(run[r]).manual = run[r].manual
    BY SuspendedManual DEF StoreTypeOK
  <2>2. QED
    BY <2>1 DEF Parked, SameBound
<1>2. QED
  BY <1>1 DEF SameBounds

LEMMA CancelBounds ==
    ASSUME StoreTypeOK, NEW R, \A r \in R : Active(r), CancelRuns(R)
    PROVE  /\ SameBounds
           /\ \A r \in Run : run'[r].status = "succeeded" => run[r].status = "succeeded"
<1>1. ASSUME NEW r \in Run
      PROVE  SameBound(r) /\ (run'[r].status = "succeeded" => run[r].status = "succeeded")
  <2>1. run[r] \in RunRow /\ "cancelled" \in Terminal
    BY DEF StoreTypeOK, Terminal
  <2>2. /\ Finalized(run[r], "cancelled").manual = run[r].manual
        /\ Finalized(run[r], "cancelled").status = "cancelled"
    BY <2>1, FinalizedManual, FinalizedRow
  <2>3. QED
    BY <2>2 DEF CancelRuns, SameBound, Active, ActiveRunStatuses
<1>2. QED
  BY <1>1 DEF SameBounds
-----------------------------------------------------------------------------
(* The transactions that move a Task.                                      *)

LEMMA CompletePhase ==
    ASSUME StoreTypeOK, NEW r \in Run, NEW st \in Terminal, NEW verified \in BOOLEAN,
           Active(r), CompleteRun(r, st, verified), UNCHANGED wait
    PROVE  PhaseSteps
<1> DEFINE t == TaskOf[r]
<1>0. run[r] \in RunRow /\ t \in Task /\ task[t] \in TaskRow
  BY StoreAssumption DEF StoreTypeOK
<1>1. run' = [run EXCEPT ![r] = Finalized(run[r], st)]
  BY DEF CompleteRun, Finalize
<1>2. /\ Finalized(run[r], st).status = st
      /\ Finalized(run[r], st).manual = run[r].manual
  BY <1>0, FinalizedRow, FinalizedManual
<1>3. /\ run'[r].status \in Terminal /\ run'[r].manual = run[r].manual
      /\ \A q \in Run \ {r} : run'[q] = run[q]
  BY <1>1, <1>2 DEF StoreTypeOK
<1>4. SameBounds
  BY <1>1, <1>2, RowBounds DEF Active, ActiveRunStatuses
<1>5. CASE UNCHANGED task
  BY <1>4, <1>5, QuietSteps
<1>6. CASE /\ ReceiptDecides(r)
           /\ task' = [task EXCEPT ![t].phase = IF verified THEN "closed" ELSE "review",
                                   ![t].resolution = IF verified THEN "done" ELSE "none"]
  <2>1. /\ task'[t].manual = task[t].manual /\ task'[t].auto = task[t].auto
        /\ \A u \in Task \ {t} : task'[u] = task[u]
    BY <1>0, <1>6 DEF StoreTypeOK, TaskRow
  <2>2. OneTask(t)
    BY <2>1 DEF OneTask, SamePhase
  <2>3. ByReceipt(t)
    BY <1>3, <1>6, <2>1 DEF ByReceipt
  <2>4. QED
    BY <1>0, <2>2, <2>3 DEF PhaseSteps
<1>7. QED
  BY <1>5, <1>6 DEF CompleteRun

\* start, and the chat turn that starts a Run of its own.
LEMMA ActivatedPhase ==
    ASSUME StoreTypeOK, NEW t \in Task, NEW user \in BOOLEAN, NEW r \in Run,
           user \/ AutomaticStartAllowed(t), task[t].phase # "closed",
           TaskOf[r] = t, task' = [task EXCEPT ![t] = Activated(t, user)],
           NEW row, run' = [run EXCEPT ![r] = row],
           row.status \in {"queued", "running"}, row.manual = task[t].manual
    PROVE  PhaseSteps
<1>1. task[t] \in TaskRow
  BY DEF StoreTypeOK
<1>2. /\ Activated(t, user).resolution = task[t].resolution
      /\ Activated(t, user).manual = task[t].manual
      /\ Activated(t, user).auto = IF user THEN task[t].manual ELSE task[t].auto
  BY <1>1 DEF Activated, TaskRow
<1>3. task'[t] = Activated(t, user) /\ \A u \in Task \ {t} : task'[u] = task[u]
  BY DEF StoreTypeOK
<1>4. run'[r] = row /\ \A q \in Run \ {r} : run'[q] = run[q]
  BY DEF StoreTypeOK
<1>5. ByStart(t)
  BY <1>2, <1>3, <1>4 DEF ByStart, AutomaticStartAllowed
<1>6. OneTask(t)
  BY <1>3 DEF OneTask, SamePhase
<1>7. QED
  BY <1>5, <1>6 DEF PhaseSteps

LEMMA CreatedManual ==
    ASSUME StoreTypeOK, NEW r \in Run
    PROVE  /\ Created(r) \in RunRow
           /\ Created(r).status = "queued"
           /\ Created(r).manual = task[TaskOf[r]].manual
<1>1. Created(r) \in RunRow /\ Created(r).status = "queued"
  BY CreatedRow
<1>2. Created(r).manual = task[TaskOf[r]].manual
  BY DEF Created, NewRun
<1>3. QED
  BY <1>1, <1>2

LEMMA CreateOrBlockPhase ==
    ASSUME StoreTypeOK, NEW t \in Task, NEW user \in BOOLEAN, NEW rows,
           user \/ AutomaticStartAllowed(t), task[t].phase # "closed",
           CreateOrBlock(t, user, rows)
    PROVE  PhaseSteps
<1>1. ASSUME NEW r \in Run, Create(t, user, r) PROVE PhaseSteps
  BY <1>1, CreatedManual, ActivatedPhase DEF Create
<1>2. CASE Blocked(t, rows)
  BY <1>2, NothingSteps DEF Blocked
<1>3. QED
  BY <1>1, <1>2 DEF CreateOrBlock

\* A change of phase by hand, or by the program.
LEMMA LifecycleRow ==
    ASSUME NEW row \in TaskRow, NEW phase, NEW resolution, NEW manual \in {0, 1}
    PROVE  LET new == SetLifecycle(row, phase, resolution, manual) IN
           /\ new.auto = row.auto
           /\ new.manual = row.manual
                 + (IF row.phase = phase /\ row.resolution = resolution THEN 0 ELSE manual)
           /\ new.resolution = resolution
<1>1. CASE row.phase = phase /\ row.resolution = resolution
  BY <1>1 DEF SetLifecycle, TaskRow
<1>2. CASE ~(row.phase = phase /\ row.resolution = resolution)
  BY <1>2 DEF SetLifecycle, TaskRow
<1>3. QED
  BY <1>1, <1>2

LEMMA ChangePhaseSteps ==
    ASSUME StoreTypeOK, NEW t \in Task, NEW user \in BOOLEAN, ChangePhase(t, user)
    PROVE  PhaseSteps
<1>1. PICK target \in MoveTargets :
        /\ <<task[t].phase, task[t].resolution>> # target
        /\ ~user => /\ AutomaticStartAllowed(t)
                    /\ target[2] = "done" => ActiveRoots(t) = {} /\ ActiveWaits(t) = {}
        /\ task' = [task EXCEPT ![t] = SetLifecycle(task[t], target[1], target[2],
                                                    IF user THEN 1 ELSE 0)]
  BY DEF ChangePhase
<1>2. UNCHANGED <<run, receipt, wait, input>> /\ SameBounds
  BY DEF ChangePhase, SameBounds, SameBound
<1>3. target = <<target[1], target[2]>>
  BY MoveAssumption
<1>4. ~(task[t].phase = target[1] /\ task[t].resolution = target[2])
  BY <1>1, <1>3
<1> DEFINE change == IF user THEN 1 ELSE 0
           row == SetLifecycle(task[t], target[1], target[2], change)
<1>5. task[t] \in TaskRow /\ change \in {0, 1}
  BY DEF StoreTypeOK
<1>6. /\ row.auto = task[t].auto /\ row.manual = task[t].manual + change
      /\ row.resolution = target[2]
  BY <1>4, <1>5, LifecycleRow
<1>7. task'[t] = row /\ \A u \in Task \ {t} : task'[u] = task[u]
  BY <1>1 DEF StoreTypeOK
<1> HIDE DEF row
<1>8. OneTask(t)
  BY <1>7 DEF OneTask, SamePhase
<1>9. CASE user
  <2>1. ByPerson(t)
    BY <1>2, <1>6, <1>7, <1>9 DEF ByPerson
  <2>2. QED
    BY <1>8, <2>1 DEF PhaseSteps
<1>10. CASE ~user
  <2>1. task[t].manual + 0 = task[t].manual
    BY <1>5 DEF TaskRow
  <2>2. ByProgram(t)
    BY <1>1, <1>2, <1>6, <1>7, <1>10, <2>1 DEF ByProgram
  <2>3. QED
    BY <1>8, <2>2 DEF PhaseSteps
<1>11. QED
  BY <1>9, <1>10

LEMMA CancelTaskSteps ==
    ASSUME StoreTypeOK, NEW t \in Task, CancelTask(t)
    PROVE  PhaseSteps
<1> DEFINE row == SetLifecycle(task[t], "closed", "cancelled", 1)
<1>1. task' = [task EXCEPT ![t] = row] /\ task[t] \in TaskRow
  BY DEF CancelTask, StoreTypeOK
<1>2. /\ SameBounds
      /\ \A r \in Run : run'[r].status = "succeeded" => run[r].status = "succeeded"
  BY CancelBounds DEF CancelTask, ActiveRoots
<1>3. CASE task[t].phase = "closed" /\ task[t].resolution = "cancelled"
  <2>1. row = task[t]
    BY <1>3 DEF SetLifecycle
  <2>2. UNCHANGED task
    BY <1>1, <2>1 DEF StoreTypeOK
  <2>3. QED
    BY <1>2, <2>2, QuietSteps
<1>4. CASE ~(task[t].phase = "closed" /\ task[t].resolution = "cancelled")
  <2>1. row.auto = task[t].auto /\ row.manual = task[t].manual + 1
    BY <1>1, <1>4, LifecycleRow
  <2>2. task'[t] = row /\ \A u \in Task \ {t} : task'[u] = task[u]
    BY <1>1 DEF StoreTypeOK
  <2> HIDE DEF row
  <2>3. ByPerson(t) /\ OneTask(t)
    BY <1>2, <2>1, <2>2 DEF ByPerson, OneTask, SamePhase
  <2>4. QED
    BY <2>3 DEF PhaseSteps
<1>5. QED
  BY <1>3, <1>4

LEMMA RevisePhase ==
    ASSUME StoreTypeOK, NEW t \in Task, ReviseContract(t)
    PROVE  PhaseSteps
<1>1. SameBounds
  BY DEF ReviseContract, SameBounds, SameBound
<1>2. \A u \in Task : SamePhase(u)
  BY DEF ReviseContract, SamePhase, StoreTypeOK, TaskRow
<1>3. QED
  BY <1>1, <1>2 DEF PhaseSteps, Quiet

-----------------------------------------------------------------------------
(* Every step is one of these.                                             *)

LEMMA CommandPhase ==
    ASSUME StoreTypeOK, CommandNext
    PROVE  PhaseSteps
<1>1. ASSUME NEW t \in Task, AddWait(t) PROVE PhaseSteps
  BY <1>1, ParkedBounds, QuietSteps DEF AddWait
<1>2. ASSUME NEW w \in Wait, DenyApproval(w) PROVE PhaseSteps
  BY <1>2, ParkedBounds, QuietSteps, StoreAssumption DEF DenyApproval
<1>3. ASSUME NEW t \in Task, NEW user \in BOOLEAN, Start(t, user) PROVE PhaseSteps
  BY <1>3, CreateOrBlockPhase DEF Start, StartAllowed
<1>4. ASSUME NEW w \in Wait, ResolveWait(w) \/ Signal(w) PROVE PhaseSteps
  <2>1. \/ UNCHANGED <<task, run, receipt, input>>
        \/ \E user \in BOOLEAN : /\ CreateOrBlock(WaitOf[w], user, Resolve({w}))
                                 /\ task[WaitOf[w]].phase # "closed"
                                 /\ user \/ AutomaticStartAllowed(WaitOf[w])
    BY <1>4 DEF ResolveWait, Signal, StartsNext
  <2>2. QED
    BY <2>1, NothingSteps, CreateOrBlockPhase, StoreAssumption
<1>5. ASSUME NEW r \in Run, CancelRun(r) PROVE PhaseSteps
  BY <1>5, CompletePhase DEF CancelRun, Terminal
<1>6. QED
  BY <1>1, <1>2, <1>3, <1>4, <1>5, RevisePhase, CancelTaskSteps, ChangePhaseSteps
  DEF CommandNext

LEMMA CaughtPhase ==
    ASSUME StoreTypeOK, NEW r \in Run, Caught(r), UNCHANGED wait
    PROVE  PhaseSteps
<1>1. "failed" \in Terminal /\ FALSE \in BOOLEAN
  BY DEF Terminal
<1>2. CASE UNCHANGED <<task, run, receipt>>
  BY <1>2, NothingSteps
<1>3. CASE Active(r) /\ CompleteRun(r, "failed", FALSE)
  BY <1>1, <1>3, CompletePhase
<1>4. QED
  BY <1>2, <1>3 DEF Caught

LEMMA ClaimPhase ==
    ASSUME StoreTypeOK, NEW s \in Slot, NEW r \in Run, Claim(s, r)
    PROVE  PhaseSteps
<1>1. Claimed(run[r], s).manual = run[r].manual
  BY ClaimedManual DEF StoreTypeOK
<1>2. run[r].status # "absent" /\ run' = [run EXCEPT ![r] = Claimed(run[r], s)]
  BY DEF Claim, Claimable
<1>3. QED
  BY <1>1, <1>2, RowBounds, QuietSteps DEF Claim

LEMMA ExpirePhase ==
    ASSUME RowInv, NEW r \in Run, LeaseExpires(r)
    PROVE  PhaseSteps
<1> DEFINE row == [run[r] EXCEPT !.lease = "expired"]
<1>1. run[r] \in RunRow /\ run' = [run EXCEPT ![r] = row]
  BY DEF LeaseExpires, RowInv, StoreTypeOK
<1>2. row.manual = run[r].manual
  BY <1>1, ManualRows
<1>3. run[r].status # "absent"
  BY DEF LeaseExpires, RowInv, AbsentIsNew, NewRun
<1> HIDE DEF row
<1>4. QED
  BY <1>1, <1>2, <1>3, RowBounds, QuietSteps DEF LeaseExpires, RowInv

LEMMA DispatchPhase ==
    ASSUME RowInv, SlotsHoldRuns, DispatchNext
    PROVE  PhaseSteps
<1>0. StoreTypeOK
  BY DEF RowInv
<1>1. ASSUME NEW s \in Slot, SlotNext(s) PROVE PhaseSteps
  <2>1. ASSUME slot[s].pc # "idle", Caught(slot[s].run), UNCHANGED wait PROVE PhaseSteps
    BY <1>0, <2>1, CaughtPhase DEF SlotsHoldRuns
  <2>2. CASE \E r \in Run : Claim(s, r)
    BY <1>0, <2>2, ClaimPhase
  <2>3. CASE Prepare(s) \/ HeartbeatLost(s) \/ Submit(s)
    BY <2>3, NothingSteps DEF Prepare, HeartbeatLost, Submit, store
  <2>4. CASE PrepareFails(s) \/ SubmitFails(s)
    BY <2>1, <2>4 DEF PrepareFails, SubmitFails, RunAgentReturns
  <2>5. CASE Poll(s)
    BY <2>1, <2>5, NothingSteps DEF Poll, RunAgentReturns
  <2>6. QED
    BY <1>1, <2>2, <2>3, <2>4, <2>5 DEF SlotNext
<1>2. ASSUME NEW r \in Run, ReconcileExpired(r) PROVE PhaseSteps
  <2>1. Active(r) /\ "failed" \in Terminal /\ FALSE \in BOOLEAN
    BY <1>2 DEF ReconcileExpired, ExpiredLeasedRunning, Active, ActiveRunStatuses, Terminal
  <2>2. CASE CanContinue(r) /\ ScheduleContinuation(r)
    BY <1>0, <2>2, ScheduleBounds, QuietSteps DEF ScheduleContinuation
  <2>3. QED
    BY <1>0, <1>2, <2>1, <2>2, CompletePhase DEF ReconcileExpired
<1>3. ASSUME NEW r \in Run, ReconcileCancelled(r) PROVE PhaseSteps
  BY <1>3, NothingSteps DEF ReconcileCancelled
<1>4. CASE Stop
  BY <1>4, NothingSteps DEF Stop, store
<1>5. QED
  BY <1>1, <1>2, <1>3, <1>4, ExpirePhase DEF DispatchNext, Reconcile

LEMMA AskPhase ==
    ASSUME StoreTypeOK, NEW t \in Task, Ask(t)
    PROVE  PhaseSteps
<1>1. ASSUME NEW q \in Run PROVE SameBound(q)
  <2>1. run[q] \in RunRow /\ "cancelled" \in Terminal
    BY DEF StoreTypeOK, Terminal
  <2>2. /\ Finalized(run[q], "cancelled").manual = run[q].manual
        /\ Suspended(run[q]).manual = run[q].manual
    BY <2>1, FinalizedManual, SuspendedManual
  <2>3. \/ run'[q] = Finalized(run[q], "cancelled") /\ Active(q)
        \/ run'[q] = Suspended(run[q]) /\ run[q].status = "running"
        \/ run'[q] = run[q]
    <3> DEFINE old == AskRuns(ActiveAsk(t))
               parks == /\ turn[t].run # NoRun /\ turn[t].run \notin old
                        /\ run[turn[t].run].status = "running"
    <3>1. run' = [r \in Run |-> CASE r \in old -> Finalized(run[r], "cancelled")
                                  [] parks /\ r = turn[t].run -> Suspended(run[r])
                                  [] OTHER -> run[r]]
      BY DEF Ask
    <3>2. q \in old => Active(q)
      BY DEF AskRuns
    <3>3. CASE q \in old
      BY <3>1, <3>2, <3>3
    <3>4. CASE q \notin old
      BY <3>1, <3>4
    <3>5. QED
      BY <3>3, <3>4
  <2>4. QED
    BY <2>2, <2>3 DEF SameBound, Active, ActiveRunStatuses
<1>2. SameBounds /\ UNCHANGED task
  BY <1>1 DEF SameBounds, Ask
<1>3. QED
  BY <1>2, QuietSteps

LEMMA SupersedePhase ==
    ASSUME StoreTypeOK, UNCHANGED task,
           NEW W, CancelRuns(AskRuns(W))
    PROVE  PhaseSteps
<1>1. \A r \in AskRuns(W) : Active(r)
  BY DEF AskRuns
<1>2. QED
  BY <1>1, CancelBounds, QuietSteps

LEMMA PreflightPhase ==
    ASSUME StoreTypeOK, NEW t \in Task, PreflightPasses(t)
    PROVE  PhaseSteps
<1>1. ASSUME NEW r \in Run PROVE SameBound(r)
  <2>1. Resumed(run[r]).manual = run[r].manual
    BY ResumedManual DEF StoreTypeOK
  <2>2. \A w \in Resumes(t) : wait[w].run = r => run[r].status = "waiting"
    BY DEF PreflightPasses, Consumable
  <2>3. QED
    BY <2>1, <2>2 DEF PreflightPasses, SameBound
<1>2. QED
  BY <1>1, QuietSteps DEF SameBounds, PreflightPasses

LEMMA StartTurnPhase ==
    ASSUME StoreTypeOK, TurnTypeOK, NEW t \in Task,
           StartRunTurn(t) \/ \E user \in BOOLEAN : StartChatTurn(t, user)
    PROVE  PhaseSteps
<1>1. CASE StartRunTurn(t)
  <2> DEFINE q == turn[t].run
  <2>1. q \in Run /\ run[q] \in RunRow
    BY <1>1, TurnRowTypes DEF StartRunTurn, TurnRow, StoreTypeOK
  <2>2. CASE run[q].status = "queued" /\ run' = [run EXCEPT ![q] = Started(run[q])]
    <3>1. Started(run[q]).manual = run[q].manual
      BY <2>1, StartedManual
    <3>2. QED
      BY <1>1, <2>1, <2>2, <3>1, RowBounds, QuietSteps DEF StartRunTurn
  <2>3. CASE UNCHANGED run
    BY <1>1, <2>3, NothingSteps DEF StartRunTurn
  <2>4. QED
    BY <1>1, <2>2, <2>3 DEF StartRunTurn
<1>2. ASSUME NEW user \in BOOLEAN, StartChatTurn(t, user) PROVE PhaseSteps
  <2>1. CASE UNCHANGED <<task, run>>
    BY <2>1, NothingSteps
  <2>2. ASSUME NEW r \in Run, TaskOf[r] = t, ChatStarts(t, user),
               run' = [run EXCEPT ![r] = Started(Created(r))],
               task' = [task EXCEPT ![t] = Activated(t, user)]
        PROVE  PhaseSteps
    <3>1. Created(r) \in RunRow /\ Created(r).manual = task[t].manual
      BY <2>2, CreatedManual
    <3>2. Started(Created(r)).status = "running" /\ Started(Created(r)).manual = task[t].manual
      BY <3>1, StartedRow, StartedManual
    <3>3. QED
      BY <2>2, <3>2, ActivatedPhase DEF ChatStarts
  <2>3. QED
    BY <1>2, <2>1, <2>2 DEF StartChatTurn
<1>3. QED
  BY <1>1, <1>2

LEMMA JudgePhase ==
    ASSUME TurnInv, NEW t \in Task,
           \/ JudgeNeedsUser(t) \/ JudgeContinues(t)
           \/ \E passed \in BOOLEAN : JudgeCompletes(t, passed)
    PROVE  PhaseSteps
<1> DEFINE q == turn[t].held
<1>0. StoreTypeOK
  BY DEF TurnInv, RowInv
<1>1. q \in Run /\ (StillHeld(t) => run[q].status = "running")
  BY DEF JudgeNeedsUser, JudgeContinues, JudgeCompletes, StillHeld, TurnInv, JudgesHoldVersions
<1>2. CASE JudgeNeedsUser(t)
  <2>1. CASE StillHeld(t)
    BY <1>0, <1>1, <1>2, <2>1, ParkBounds, QuietSteps DEF JudgeNeedsUser
  <2>2. CASE ~StillHeld(t)
    BY <1>2, <2>2, NothingSteps DEF JudgeNeedsUser
  <2>3. QED
    BY <2>1, <2>2
<1>3. CASE JudgeContinues(t)
  BY <1>0, <1>1, <1>3, ScheduleBounds, QuietSteps DEF JudgeContinues, ScheduleContinuation
<1>4. ASSUME NEW passed \in BOOLEAN, JudgeCompletes(t, passed) PROVE PhaseSteps
  <2>1. Active(q) /\ "succeeded" \in Terminal
    BY <1>1, <1>4 DEF JudgeCompletes, Active, ActiveRunStatuses, Terminal
  <2>2. QED
    BY <1>0, <1>1, <1>4, <2>1, CompletePhase DEF JudgeCompletes
<1>5. QED
  BY <1>2, <1>3, <1>4

LEMMA FinalizePhase ==
    ASSUME TurnInv, NEW t \in Task, FinalizeTurn(t)
    PROVE  PhaseSteps
<1> DEFINE c == turn[t].coord
<1>0. StoreTypeOK
  BY DEF TurnInv, RowInv
<1>1. /\ turn[t].res \in Terminal /\ "failed" \in Terminal /\ FALSE \in BOOLEAN
      /\ c \in Run \cup {NoRun}
  BY TurnRowTypes DEF TurnInv, TurnRow, Terminal
<1>2. CASE UNCHANGED <<task, run, receipt>>
  BY <1>2, NothingSteps
<1>3. CASE c # NoRun /\ Finalizable(c)
  <2>1. c \in Run /\ Active(c) /\ UNCHANGED wait
    BY <1>1, <1>3 DEF Finalizable, Active, ActiveRunStatuses, FinalizeTurn
  <2>2. CASE CanContinue(c) /\ ScheduleContinuation(c)
    BY <1>0, <2>1, <2>2, ScheduleBounds, QuietSteps DEF ScheduleContinuation
  <2>3. CASE \/ \E verified \in BOOLEAN : CompleteRun(c, turn[t].res, verified)
             \/ CompleteRun(c, "failed", FALSE)
    BY <1>0, <1>1, <2>1, <2>3, CompletePhase
  <2>4. QED
    BY <1>3, <2>2, <2>3 DEF FinalizeTurn
<1>4. QED
  BY <1>2, <1>3 DEF FinalizeTurn

LEMMA TurnPhase ==
    ASSUME TurnInv, TurnNext
    PROVE  PhaseSteps
<1>0. StoreTypeOK /\ TurnTypeOK
  BY DEF TurnInv, RowInv
<1>1. ASSUME NEW t \in Task, TurnStep(t) PROVE PhaseSteps
  <2>1. CASE \/ TakeInput(t) \/ PreflightFails(t) \/ SkipRunTurn(t) \/ EndTurn(t)
             \/ JudgeReads(t) \/ JudgeGivesUp(t) \/ CloseTurn(t)
    BY <2>1, NothingSteps DEF TakeInput, ClaimInput, PreflightFails, SkipRunTurn, EndTurn,
                              JudgeReads, JudgeGivesUp, CloseTurn, store
  <2>2. QED
    BY <1>0, <1>1, <2>1, PreflightPhase, StartTurnPhase, JudgePhase, FinalizePhase DEF TurnStep
<1>2. ASSUME NEW t \in Task, StopTurn(t) \/ ChatMessage(t) PROVE PhaseSteps
  BY <1>0, <1>2, NothingSteps, SupersedePhase DEF StopTurn, ChatMessage, Supersede
<1>3. ASSUME NEW w \in Wait, CancelAsk(w) PROVE PhaseSteps
  BY <1>0, <1>3, SupersedePhase DEF CancelAsk
<1>4. ASSUME NEW w \in Wait, Answer(w) PROVE PhaseSteps
  BY <1>4, NothingSteps DEF Answer
<1>5. ASSUME NEW r \in Run, RemoveInput(r) \/ ResendInput(r) PROVE PhaseSteps
  BY <1>5, NothingSteps DEF RemoveInput, ResendInput
<1>6. ASSUME NEW t \in Task, SendInput(t) \/ PauseQueue(t) \/ ResumeQueue(t)
      PROVE  PhaseSteps
  BY <1>6, NothingSteps DEF SendInput, ClaimInput, PauseQueue, ResumeQueue, store
<1>7. QED
  BY <1>0, <1>1, <1>2, <1>3, <1>4, <1>5, <1>6, AskPhase DEF TurnNext

\* What any step does to Tasks and Runs together.
LEMMA StepPhase ==
    ASSUME IInv, Next
    PROVE  PhaseSteps
<1>0. RowInv /\ TurnInv /\ StoreTypeOK /\ SlotsHoldRuns
  BY DEF IInv, TypeOK, RowInv, TurnInv
<1>1. CASE Restart
  BY <1>1, NothingSteps DEF Restart, RestartDispatcher
<1>2. QED
  BY <1>0, <1>1, CommandPhase, DispatchPhase, TurnPhase DEF Next, Command, Dispatch, Converse

-----------------------------------------------------------------------------
(* The invariant, and what the checks ask of small instances, for all.     *)

LEMMA BoundInit == Init => BoundToPhase
  BY DEF Init, StoreInit, NewRun, BoundToPhase

LEMMA BoundStep == IInv /\ BoundToPhase /\ [Next]_vars => BoundToPhase'
<1> SUFFICES ASSUME IInv, BoundToPhase, [Next]_vars PROVE BoundToPhase'
  OBVIOUS
<1>0. StoreTypeOK
  BY DEF IInv, TypeOK
<1>1. ASSUME NEW r \in Run, run'[r].status # "absent", Next
      PROVE  /\ run'[r].manual <= task'[TaskOf[r]].manual
             /\ run'[r].manual = task'[TaskOf[r]].manual
                   => task'[TaskOf[r]].auto = task'[TaskOf[r]].manual
  <2> DEFINE t == TaskOf[r]
  <2>0. /\ t \in Task /\ task[t].manual \in Nat /\ run[r].manual \in Nat
    BY <1>0, StoreAssumption DEF StoreTypeOK, TaskRow, RunRow
  <2>1. run[r].status # "absent" =>
          /\ run[r].manual <= task[t].manual
          /\ run[r].manual = task[t].manual => task[t].auto = task[t].manual
    BY DEF BoundToPhase
  <2>2. CASE Quiet
    BY <1>1, <2>0, <2>1, <2>2 DEF Quiet, SameBounds, SameBound, SamePhase
  <2>3. ASSUME NEW u \in Task, OneTask(u), ByPerson(u)
        PROVE  /\ run'[r].manual <= task'[t].manual
               /\ run'[r].manual = task'[t].manual => task'[t].auto = task'[t].manual
    <3>1. run[r].status # "absent" /\ run'[r].manual = run[r].manual
      BY <1>1, <2>3 DEF ByPerson, SameBounds, SameBound
    <3>2. CASE u = t
      BY <2>0, <2>1, <2>3, <3>1, <3>2 DEF ByPerson
    <3>3. CASE u # t
      BY <2>0, <2>1, <2>3, <3>1, <3>3 DEF OneTask, SamePhase
    <3>4. QED
      BY <3>2, <3>3
  <2>4. ASSUME NEW u \in Task, OneTask(u), ByProgram(u) \/ ByReceipt(u)
        PROVE  /\ run'[r].manual <= task'[t].manual
               /\ run'[r].manual = task'[t].manual => task'[t].auto = task'[t].manual
    <3>1. task'[t].manual = task[t].manual /\ task'[t].auto = task[t].auto
      BY <2>0, <2>4 DEF ByProgram, ByReceipt, OneTask, SamePhase
    <3>2. run[r].status # "absent" /\ run'[r].manual = run[r].manual
      BY <1>1, <2>4 DEF ByProgram, ByReceipt, Active, ActiveRunStatuses
    <3>3. QED
      BY <2>1, <3>1, <3>2
  <2>5. ASSUME NEW u \in Task, OneTask(u), ByStart(u)
        PROVE  /\ run'[r].manual <= task'[t].manual
               /\ run'[r].manual = task'[t].manual => task'[t].auto = task'[t].manual
    <3>1. task'[t].manual = task[t].manual /\ (u = t => task'[t].auto = task'[t].manual)
      BY <2>0, <2>5 DEF ByStart, OneTask, SamePhase
    <3>2. PICK q \in Run : /\ TaskOf[q] = u /\ run'[q].manual = task[u].manual
                           /\ \A p \in Run \ {q} : run'[p] = run[p]
      BY <2>5 DEF ByStart
    <3>3. CASE r = q
      BY <2>0, <3>1, <3>2, <3>3
    <3>4. CASE r # q
      <4>1. run'[r] = run[r] /\ run[r].status # "absent"
        BY <1>1, <3>2, <3>4
      <4>2. u # t => task'[t].auto = task[t].auto
        BY <2>0, <2>5 DEF OneTask, SamePhase
      <4>3. QED
        BY <2>1, <3>1, <4>1, <4>2
    <3>5. QED
      BY <3>3, <3>4
  <2>6. QED
    BY <1>1, <2>2, <2>3, <2>4, <2>5, StepPhase DEF PhaseSteps
<1>2. CASE Next
  BY <1>1, <1>2 DEF BoundToPhase
<1>3. CASE UNCHANGED vars
  BY <1>3 DEF vars, BoundToPhase
<1>4. QED
  BY <1>2, <1>3

\* Every Run that is still bound to the phase of its Task was created by a
\* person or with a person's authorization (TaskRunRepository.create,
\* authorizeAutomaticPhase).
THEOREM BoundRunsAuthorized == Spec => []BoundToPhase
  BY Invariant, BoundInit, BoundStep, PTL DEF Spec

\* While a manual phase change is not authorized, only a person changes the
\* phase: no receipt, judge, signal or agent's start does (completeRun,
\* setLifecycle, runPhaseUnchanged).
THEOREM PersonsDecide == Spec => ManualPhaseWins
<1> DEFINE Wins == \A t \in Task :
      task'[t].phase # task[t].phase /\ task[t].manual # task[t].auto =>
          task'[t].manual > task[t].manual \/ task'[t].auto = task'[t].manual
<1>1. IInv /\ BoundToPhase /\ [Next]_vars => Wins
  <2> SUFFICES ASSUME IInv, BoundToPhase, [Next]_vars, NEW t \in Task,
                      task'[t].phase # task[t].phase, task[t].manual # task[t].auto
               PROVE  task'[t].manual > task[t].manual \/ task'[t].auto = task'[t].manual
    OBVIOUS
  <2>1. Next /\ PhaseSteps
    BY StepPhase DEF vars
  <2>2. ~SamePhase(t)
    BY DEF SamePhase
  <2>3. \/ ByPerson(t) \/ ByProgram(t) \/ ByStart(t) \/ ByReceipt(t)
    BY <2>1, <2>2 DEF PhaseSteps, Quiet, OneTask
  <2>4. CASE ByPerson(t)
    BY <2>4 DEF ByPerson, IInv, TypeOK, StoreTypeOK, TaskRow
  <2>5. CASE ByProgram(t)
    BY <2>5 DEF ByProgram, AutomaticStartAllowed
  <2>6. CASE ByStart(t)
    BY <2>6 DEF ByStart
  <2>7. CASE ByReceipt(t)
    BY <2>7 DEF ByReceipt, ReceiptDecides, RunPhaseUnchanged, BoundToPhase, Active,
                ActiveRunStatuses
  <2>8. QED
    BY <2>3, <2>4, <2>5, <2>6, <2>7
<1>2. ManualPhaseWins <=> [][Wins]_vars
  BY DEF ManualPhaseWins
<1> HIDE DEF Wins
<1>3. QED
  BY Invariant, BoundRunsAuthorized, <1>1, <1>2, PTL DEF Spec

\* No step of the program, and no person without reopening it, starts a closed
\* Task (start, TaskRunCoordinator.start, TaskSignalService).
THEOREM ClosedStaysClosed == Spec => ClosedTaskNeverRestarts
<1> DEFINE Closed == \A t \in Task :
      task[t].phase = "closed" /\ ActiveRoots(t) = {} => ActiveRoots(t)' = {}
<1>1. IInv /\ [Next]_vars => Closed
  <2> SUFFICES ASSUME IInv, [Next]_vars, NEW t \in Task,
                      task[t].phase = "closed", ActiveRoots(t) = {}
               PROVE  ActiveRoots(t)' = {}
    OBVIOUS
  <2>1. CASE UNCHANGED vars
    BY <2>1 DEF vars, ActiveRoots, Active
  <2>2. CASE Next
    <3>1. OneRunSteps /\ PhaseSteps
      BY <2>2, StepKeeps, StepPhase
    <3>2. ASSUME NEW r \in Run, TaskOf[r] = t, run'[r].status \in ActiveRunStatuses
          PROVE  FALSE
      <4>1. run[r].status \notin ActiveRunStatuses
        BY <3>2 DEF ActiveRoots, Active
      <4>2. run'[r] # run[r]
        BY <3>2, <4>1
      <4>3. run[r].status = "absent"
        <5>1. Same(r) \/ Steps(r)
          BY <3>1 DEF OneRunSteps
        <5>2. Begins(r)
          BY <4>1, <4>2, <5>1 DEF Same, Steps, Begins, Keeps, Moves, Ends, Lifecycle!Moves,
             Active, ActiveRunStatuses
        <5>3. QED
          BY <5>2 DEF Begins
      <4>4. ~SameBounds
        BY <3>2, <4>3 DEF SameBounds, SameBound, ActiveRunStatuses
      <4>5. PICK u \in Task : ByStart(u) \/ ByReceipt(u)
        BY <3>1, <4>2, <4>4 DEF PhaseSteps, Quiet, ByPerson, ByProgram
      <4>6. CASE ByStart(u)
        BY <3>2, <4>2, <4>6 DEF ByStart
      <4>7. CASE ByReceipt(u)
        BY <3>2, <4>1, <4>2, <4>7 DEF ByReceipt, Active
      <4>8. QED
        BY <4>5, <4>6, <4>7
    <3>3. QED
      BY <3>2 DEF ActiveRoots, Active
  <2>3. QED
    BY <2>1, <2>2
<1>2. ClosedTaskNeverRestarts <=> [][Closed]_vars
  BY DEF ClosedTaskNeverRestarts
<1> HIDE DEF Closed
<1>3. QED
  BY Invariant, <1>1, <1>2, PTL DEF Spec

\* A Task that no person closes is done only when no Run of it is active and no
\* wait is (completeRun, the program's move to closed/done).
THEOREM DoneMeansNothingLeft == Spec => AutoClose
<1> DEFINE Done == \A t \in Task :
      /\ task[t].resolution # "done" /\ task'[t].resolution = "done"
      /\ task'[t].manual = task[t].manual
      => ActiveRoots(t)' = {} /\ ActiveWaits(t)' = {}
<1>1. IInv /\ [Next]_vars => Done
  <2> SUFFICES ASSUME IInv, [Next]_vars, NEW t \in Task,
                      task[t].resolution # "done", task'[t].resolution = "done",
                      task'[t].manual = task[t].manual
               PROVE  ActiveRoots(t)' = {} /\ ActiveWaits(t)' = {}
    OBVIOUS
  <2>1. Next /\ PhaseSteps
    BY StepPhase DEF vars
  <2>2. ~SamePhase(t)
    BY DEF SamePhase
  <2>3. \/ ByPerson(t) \/ ByProgram(t) \/ ByStart(t) \/ ByReceipt(t)
    BY <2>1, <2>2 DEF PhaseSteps, Quiet, OneTask
  <2>4. ~ByPerson(t)
    BY DEF ByPerson, IInv, TypeOK, StoreTypeOK, TaskRow
  <2>5. ~ByStart(t)
    BY DEF ByStart
  <2>6. CASE ByProgram(t)
    BY <2>6 DEF ByProgram, ActiveRoots, ActiveWaits, Active
  <2>7. CASE ByReceipt(t)
    <3>1. PICK r \in Run : /\ TaskOf[r] = t /\ Active(r) /\ ReceiptDecides(r)
                           /\ run'[r].status \in Terminal
                           /\ \A q \in Run \ {r} : run'[q] = run[q]
      BY <2>7 DEF ByReceipt
    <3>2. ActiveWaits(t)' = {}
      BY <2>7, <3>1 DEF ByReceipt, ReceiptDecides, ActiveWaits
    <3>3. ASSUME NEW q \in Run, TaskOf[q] = t, run'[q].status \in ActiveRunStatuses
          PROVE  FALSE
      <4>1. q # r
        BY <3>1, <3>3 DEF Terminal, ActiveRunStatuses
      <4>2. Active(q)
        BY <3>1, <3>3, <4>1 DEF Active
      <4>3. QED
        BY <3>1, <3>3, <4>1, <4>2 DEF IInv, OneActiveRun
    <3>4. QED
      BY <3>2, <3>3 DEF ActiveRoots, Active
  <2>8. QED
    BY <2>3, <2>4, <2>5, <2>6, <2>7
<1>2. AutoClose <=> [][Done]_vars
  BY DEF AutoClose
<1> HIDE DEF Done
<1>3. QED
  BY Invariant, <1>1, <1>2, PTL DEF Spec

\* The receipt of a Run whose contract was revised since does not move the Task
\* (completeRun, its comparison of contractVersion).
THEOREM StaleReceiptsStay == Spec => StaleReceiptKeepsPhase
<1> DEFINE Stale == \A r \in Run :
      /\ run[r].status # "succeeded" /\ run'[r].status = "succeeded"
      /\ StaleContract(r)
      => task'[TaskOf[r]].phase = task[TaskOf[r]].phase
<1>1. IInv /\ [Next]_vars => Stale
  <2> SUFFICES ASSUME IInv, [Next]_vars, NEW r \in Run, run[r].status # "succeeded",
                      run'[r].status = "succeeded", StaleContract(r)
               PROVE  SamePhase(TaskOf[r])
    BY DEF SamePhase
  <2>1. Next /\ PhaseSteps /\ TaskOf[r] \in Task
    BY StepPhase, StoreAssumption DEF vars
  <2>2. CASE Quiet
    BY <2>1, <2>2 DEF Quiet
  <2>3. ASSUME NEW u \in Task, OneTask(u),
               ByPerson(u) \/ ByProgram(u) \/ ByStart(u) \/ ByReceipt(u)
        PROVE  SamePhase(TaskOf[r])
    <3>1. ~ByPerson(u) /\ ~ByProgram(u) /\ ~ByStart(u)
      BY DEF ByPerson, ByProgram, ByStart
    <3>2. CASE ByReceipt(u)
      BY <3>2 DEF ByReceipt, ReceiptDecides
    <3>3. QED
      BY <2>3, <3>1, <3>2
  <2>4. QED
    BY <2>1, <2>2, <2>3 DEF PhaseSteps
<1>2. StaleReceiptKeepsPhase <=> [][Stale]_vars
  BY DEF StaleReceiptKeepsPhase
<1> HIDE DEF Stale
<1>3. QED
  BY Invariant, <1>1, <1>2, PTL DEF Spec

=============================================================================
