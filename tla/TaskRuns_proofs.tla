--------------------------- MODULE TaskRuns_proofs ---------------------------
(***************************************************************************)
(* Theorems about TaskRuns, for every set of Tasks, Runs, waits and slots  *)
(* and every value of the bounds: the type invariant, one active Run per   *)
(* Task, the receipts, the leases, the finality of ended Runs, and the     *)
(* refinement of RunLifecycle.                                             *)
(*                                                                         *)
(* All of them follow from one fact about a step, OneRunSteps: a step      *)
(* changes at most one Run, and that Run begins, keeps its status, moves   *)
(* or ends.  To prove it one needs to know what the memory of the process  *)
(* and the waits still know of a Run that others may have changed since:   *)
(* IInv.  First come the types: every operator and every action keeps the  *)
(* types of the rows, and a busy slot and a deciding judge hold a Run.     *)
(* Two parts about several rows at once follow at the end: a conversation  *)
(* has one open question, and a slot waits only for an input that has      *)
(* ended, is queued or is being delivered.                                 *)
(***************************************************************************)
EXTENDS TaskRuns, SequenceTheorems, FiniteSetTheorems, TLAPS

-----------------------------------------------------------------------------
(* The operators on rows keep the types of the rows.                       *)

LEMMA BumpedType == \A row \in RunRow : Bumped(row) \in RunRow
  BY DEF Bumped, RunRow

LEMMA ReleasedType == \A row \in RunRow : Released(row) \in RunRow
  BY DEF Released, RunRow

LEMMA StatusType ==
    \A row \in RunRow, st \in RunStatus : [row EXCEPT !.status = st] \in RunRow
  BY DEF RunRow

LEMMA RowTypes ==
    ASSUME NEW row \in RunRow
    PROVE  /\ Suspended(row) \in RunRow
           /\ Resumed(row) \in RunRow
           /\ Started(row) \in RunRow
           /\ \A st \in Terminal : Finalized(row, st) \in RunRow
           /\ \A s \in Slot : Claimed(row, s) \in RunRow
<1>1. MaxAttempts - 1 \in Nat
  BY StoreAssumption
<1>2. {"waiting", "running"} \cup Terminal \subseteq RunStatus
  BY DEF RunStatus, Terminal
<1>3. Suspended(row) \in RunRow
  BY <1>2, BumpedType, ReleasedType, StatusType DEF Suspended
<1>4. Resumed(row) \in RunRow
  BY <1>2, BumpedType, StatusType DEF Resumed
<1>5. Started(row) \in RunRow
  <2>1. [row EXCEPT !.status = "running", !.snapshot = TRUE, !.cont = FALSE,
                    !.attempts = 0] \in RunRow
    <3>1. 0 \in 0..(MaxAttempts - 1)
      BY <1>1
    <3>2. "running" \in RunStatus
      BY <1>2
    <3>3. QED
      BY <3>1, <3>2 DEF RunRow
  <2>2. QED
    BY <2>1, BumpedType DEF Started
<1>6. \A st \in Terminal : Finalized(row, st) \in RunRow
  BY <1>2, BumpedType, ReleasedType, StatusType DEF Finalized
<1>7. ASSUME NEW s \in Slot PROVE Claimed(row, s) \in RunRow
  <2>1. [row EXCEPT !.owner = s, !.lease = "live"] \in RunRow
    BY DEF RunRow
  <2>2. QED
    BY <1>2, <2>1, BumpedType, StatusType DEF Claimed, Resumed
<1>8. QED
  BY <1>3, <1>4, <1>5, <1>6, <1>7

LEMMA NewRowTypes ==
    /\ NewTask \in TaskRow
    /\ NewRun \in RunRow
    /\ NewWait \in WaitRow
    /\ IdleSlot \in SlotRow
    /\ IdleTurn \in TurnRow
<1>1. MaxAttempts - 1 \in Nat
  BY StoreAssumption
<1>2. NewTask \in TaskRow
  BY DEF NewTask, TaskRow, Phase, Resolution
<1>3. NewRun \in RunRow
  BY <1>1 DEF NewRun, RunRow, RunStatus
<1>4. NewWait \in WaitRow
  BY DEF NewWait, WaitRow
<1>5. IdleSlot \in SlotRow
  BY DEF IdleSlot, SlotRow
<1>6. IdleTurn \in TurnRow
  BY DEF IdleTurn, TurnRow, FinishedInput, InputStatus
<1>7. QED
  BY <1>2, <1>3, <1>4, <1>5, <1>6

LEMMA TypeInit == Init => TypeOK
<1> SUFFICES ASSUME Init PROVE TypeOK
  OBVIOUS
<1>1. StoreTypeOK
  BY NewRowTypes DEF Init, StoreInit, StoreTypeOK
<1>2. DispatchTypeOK
  <2>1. restarts \in 0..MaxRestarts
    BY DispatchAssumption DEF Init, DispatchInit
  <2>2. stopped \in BOOLEAN
    BY DEF Init, DispatchInit
  <2>3. QED
    BY <2>1, <2>2, NewRowTypes DEF Init, DispatchInit, DispatchTypeOK
<1>3. TurnTypeOK
  BY NewRowTypes, TurnAssumption DEF Init, TurnInit, TurnTypeOK, QueueRow, EmptyQueue
<1>4. QED
  BY <1>1, <1>2, <1>3 DEF TypeOK

-----------------------------------------------------------------------------
(* The transactions of TaskStore keep the types of the rows they write.    *)

LEMMA FunctionIsSeq ==
    ASSUME NEW S, NEW n \in Nat, NEW f \in [1..n -> S]
    PROVE  f \in Seq(S)
  OBVIOUS

LEMMA CompleteRunTypes ==
    ASSUME StoreTypeOK, NEW r \in Run, NEW st \in Terminal, NEW verified \in BOOLEAN,
           CompleteRun(r, st, verified)
    PROVE  /\ task' \in [Task -> TaskRow]
           /\ run' \in [Run -> RunRow]
           /\ receipt' \in [Run -> Terminal \cup {"none"}]
<1>1. run' \in [Run -> RunRow]
  <2>1. Finalized(run[r], st) \in RunRow
    BY RowTypes DEF StoreTypeOK
  <2>2. QED
    BY <2>1 DEF CompleteRun, Finalize, StoreTypeOK
<1>2. receipt' \in [Run -> Terminal \cup {"none"}]
  BY DEF CompleteRun, Finalize, StoreTypeOK
<1>3. task' \in [Task -> TaskRow]
  <2> DEFINE phase == IF verified THEN "closed" ELSE "review"
             res   == IF verified THEN "done" ELSE "none"
  <2>1. phase \in Phase /\ res \in Resolution
    BY DEF Phase, Resolution
  <2>2. \A row \in TaskRow, p \in Phase, q \in Resolution :
           [row EXCEPT !.phase = p, !.resolution = q] \in TaskRow
    BY DEF TaskRow
  <2>3. \/ task' = task
        \/ task' = [task EXCEPT ![TaskOf[r]] =
                       [task[TaskOf[r]] EXCEPT !.phase = phase, !.resolution = res]]
    BY DEF CompleteRun
  <2>4. TaskOf[r] \in Task
    BY StoreAssumption
  <2> HIDE DEF phase, res
  <2> DEFINE row == [task[TaskOf[r]] EXCEPT !.phase = phase, !.resolution = res]
  <2>5. row \in TaskRow
    BY <2>1, <2>2, <2>4 DEF StoreTypeOK
  <2>6. task' = task \/ task' = [task EXCEPT ![TaskOf[r]] = row]
    BY <2>3
  <2> HIDE DEF row
  <2>7. QED
    BY <2>5, <2>6 DEF StoreTypeOK
<1>4. QED
  BY <1>1, <1>2, <1>3

LEMMA ScheduleTypes ==
    ASSUME StoreTypeOK, NEW r \in Run, CanContinue(r), ScheduleContinuation(r)
    PROVE  run' \in [Run -> RunRow]
<1>1. run[r] \in RunRow
  BY DEF StoreTypeOK
<1>2. run[r].attempts + 1 \in 0..(MaxAttempts - 1)
  BY <1>1, StoreAssumption DEF CanContinue, RunRow
<1> DEFINE row == [run[r] EXCEPT !.cont = TRUE, !.attempts = @ + 1]
<1>3. row \in RunRow
  BY <1>1, <1>2 DEF RunRow
<1>4. run' = [run EXCEPT ![r] = Suspended(row)]
  BY DEF ScheduleContinuation, Continued
<1> HIDE DEF row
<1>5. Suspended(row) \in RunRow
  BY <1>3, RowTypes
<1>6. QED
  BY <1>4, <1>5 DEF StoreTypeOK

LEMMA CancelRunsTypes ==
    ASSUME StoreTypeOK, NEW R, CancelRuns(R)
    PROVE  /\ run' \in [Run -> RunRow]
           /\ receipt' \in [Run -> Terminal \cup {"none"}]
<1>1. "cancelled" \in Terminal
  BY DEF Terminal
<1>2. \A r \in Run : Finalized(run[r], "cancelled") \in RunRow
  BY <1>1, RowTypes DEF StoreTypeOK
<1>3. QED
  BY <1>1, <1>2 DEF CancelRuns, StoreTypeOK

LEMMA ResolveTypes ==
    ASSUME StoreTypeOK, NEW W
    PROVE  Resolve(W) \in [Wait -> WaitRow]
<1>1. \A row \in WaitRow : [row EXCEPT !.status = "resolved"] \in WaitRow
  BY DEF WaitRow
<1>2. QED
  BY <1>1 DEF Resolve, StoreTypeOK

LEMMA ClosedAskTypes ==
    ASSUME StoreTypeOK, NEW W
    PROVE  ClosedAsk(W) \in [Wait -> WaitRow]
<1>1. \A row \in WaitRow : [row EXCEPT !.clar = "closed"] \in WaitRow
  BY DEF WaitRow
<1>2. \A w \in Wait : Resolve(W)[w] \in WaitRow
  BY ResolveTypes
<1>3. QED
  BY <1>1, <1>2 DEF ClosedAsk, StoreTypeOK

LEMMA InputTypes ==
    ASSUME StoreTypeOK, NEW r \in Run, NEW st \in InputStatus
    PROVE  /\ \A i \in DOMAIN input[r] :
                SetInput(r, i, st) => input' \in [Run -> Seq(InputRow)]
           /\ \A i \in DOMAIN input[r] :
                [input[r][i] EXCEPT !.status = st] \in InputRow
<1>1. input[r] \in Seq(InputRow)
  BY DEF StoreTypeOK
<1>2. DOMAIN input[r] = 1..Len(input[r])
  BY <1>1, LenProperties
<1>3. ASSUME NEW i \in DOMAIN input[r]
      PROVE  [input[r][i] EXCEPT !.status = st] \in InputRow
  <2>1. input[r][i] \in InputRow
    BY <1>1, <1>2, ElementOfSeq
  <2>2. QED
    BY <2>1 DEF InputRow
<1>4. ASSUME NEW i \in DOMAIN input[r], SetInput(r, i, st)
      PROVE  input' \in [Run -> Seq(InputRow)]
  <2> DEFINE row == [input[r][i] EXCEPT !.status = st]
  <2>1. [input[r] EXCEPT ![i] = row] \in Seq(InputRow)
    BY <1>1, <1>2, <1>3, <1>4, ExceptSeq
  <2>2. input' = [input EXCEPT ![r] = [input[r] EXCEPT ![i] = row]]
    BY <1>4 DEF SetInput
  <2> HIDE DEF row
  <2>3. QED
    BY <2>1, <2>2 DEF StoreTypeOK
<1>5. QED
  BY <1>3, <1>4

LEMMA WithdrawnTypes ==
    ASSUME StoreTypeOK, NEW W
    PROVE  Withdrawn(W) \in [Run -> Seq(InputRow)]
<1> SUFFICES ASSUME NEW r \in Run
             PROVE  Withdrawn(W)[r] \in Seq(InputRow)
  BY DEF Withdrawn
<1>1. input[r] \in Seq(InputRow)
  BY DEF StoreTypeOK
<1>2. DOMAIN input[r] = 1..Len(input[r]) /\ Len(input[r]) \in Nat
  BY <1>1, LenProperties
<1>3. "cancelled" \in InputStatus
  BY DEF InputStatus
<1>4. \A i \in 1..Len(input[r]) : Withdrawn(W)[r][i] \in InputRow
  BY <1>1, <1>2, <1>3, InputTypes, ElementOfSeq DEF Withdrawn
<1>5. Withdrawn(W)[r] \in [1..Len(input[r]) -> InputRow]
  BY <1>2, <1>4 DEF Withdrawn
<1>6. QED
  BY <1>2, <1>5, FunctionIsSeq

-----------------------------------------------------------------------------
(* Commands.                                                               *)

LEMMA LifecycleTypes ==
    ASSUME NEW row \in TaskRow, NEW phase \in Phase, NEW res \in Resolution,
           NEW m \in {0, 1}
    PROVE  SetLifecycle(row, phase, res, m) \in TaskRow
<1>1. row.manual + m \in Nat
  BY DEF TaskRow
<1>2. [row EXCEPT !.phase = phase, !.resolution = res, !.manual = @ + m] \in TaskRow
  BY <1>1 DEF TaskRow
<1>3. QED
  BY <1>2 DEF SetLifecycle

LEMMA CreatedTypes ==
    ASSUME StoreTypeOK, NEW t \in Task, NEW user \in BOOLEAN, NEW r \in Run
    PROVE  /\ Created(r) \in RunRow
           /\ Activated(t, user) \in TaskRow
<1>1. task[t] \in TaskRow /\ task[TaskOf[r]] \in TaskRow
  BY StoreAssumption DEF StoreTypeOK
<1>2. Created(r) \in RunRow
  <2>1. task[TaskOf[r]].contract \in Nat /\ task[TaskOf[r]].manual \in Nat
    BY <1>1 DEF TaskRow
  <2>2. \A c \in Nat, m \in Nat :
           [NewRun EXCEPT !.status = "queued", !.version = 1, !.contract = c,
                          !.manual = m] \in RunRow
    BY NewRowTypes DEF RunRow, RunStatus
  <2>3. QED
    BY <2>1, <2>2 DEF Created
<1>3. Activated(t, user) \in TaskRow
  <2>1. \A a \in Nat : [task[t] EXCEPT !.phase = "active", !.auto = a] \in TaskRow
    BY <1>1 DEF TaskRow, Phase
  <2>2. task[t].manual \in Nat /\ task[t].auto \in Nat
    BY <1>1 DEF TaskRow
  <2>3. QED
    BY <2>1, <2>2 DEF Activated
<1>4. QED
  BY <1>2, <1>3

LEMMA NewWaitTypes ==
    ASSUME StoreTypeOK, NEW kind \in {"hold", "start", "ask"},
           NEW r \in Run \cup {NoRun}
    PROVE  /\ NewTaskWait(kind, r) \in WaitRow
           /\ \A w \in Wait : [wait EXCEPT ![w] = NewTaskWait(kind, r)] \in [Wait -> WaitRow]
<1>1. NewTaskWait(kind, r) \in WaitRow
  BY NewRowTypes DEF NewTaskWait, WaitRow
<1>2. QED
  BY <1>1 DEF StoreTypeOK

LEMMA RootOrType ==
    ASSUME NEW t \in Task
    PROVE  /\ RootOr(t) \in Run \cup {NoRun}
           /\ RootOr(t) # NoRun => RootOr(t) \in ActiveRoots(t)
<1>1. ActiveRoots(t) \subseteq Run
  BY DEF ActiveRoots
<1>2. QED
  BY <1>1 DEF RootOr

LEMMA CreateTypes ==
    ASSUME StoreTypeOK, NEW t \in Task, NEW user \in BOOLEAN, NEW r \in Run,
           Create(t, user, r)
    PROVE  /\ task' \in [Task -> TaskRow]
           /\ run' \in [Run -> RunRow]
           /\ UNCHANGED <<receipt, input>>
  BY CreatedTypes DEF Create, StoreTypeOK

\* start: a Run, or the waits that hold it back.
LEMMA CreateOrBlockTypes ==
    ASSUME StoreTypeOK, NEW t \in Task, NEW user \in BOOLEAN,
           NEW rows \in [Wait -> WaitRow], CreateOrBlock(t, user, rows)
    PROVE  StoreTypeOK'
<1>1. CASE wait' = rows /\ \E r \in Run : Create(t, user, r)
  BY <1>1, CreateTypes DEF StoreTypeOK
<1>2. CASE Blocked(t, rows)
  <2>1. NewTaskWait("start", NoRun) \in WaitRow
    BY NewWaitTypes
  <2>2. PICK W : wait' = [w \in Wait |-> IF w \in W THEN NewTaskWait("start", NoRun)
                                          ELSE rows[w]]
    BY <1>2 DEF Blocked
  <2>3. wait' \in [Wait -> WaitRow]
    BY <2>1, <2>2
  <2>4. QED
    BY <1>2, <2>3 DEF Blocked, StoreTypeOK
<1>3. QED
  BY <1>1, <1>2 DEF CreateOrBlock

LEMMA CommandTypes ==
    ASSUME StoreTypeOK, CommandNext
    PROVE  StoreTypeOK'
<1>1. ASSUME NEW t \in Task, ReviseContract(t) PROVE StoreTypeOK'
  <2>0. task[t] \in TaskRow
    BY DEF StoreTypeOK
  <2>1. [task[t] EXCEPT !.contract = task[t].contract + 1] \in TaskRow
    BY <2>0 DEF TaskRow
  <2>2. task' = [task EXCEPT ![t] = [task[t] EXCEPT !.contract = task[t].contract + 1]]
    BY <1>1 DEF ReviseContract, StoreTypeOK
  <2>3. QED
    BY <1>1, <2>1, <2>2 DEF ReviseContract, StoreTypeOK
<1>2. ASSUME NEW t \in Task, AddWait(t) PROVE StoreTypeOK'
  <2>1. wait' \in [Wait -> WaitRow]
    BY <1>2, RootOrType, NewWaitTypes DEF AddWait
  <2>2. run' \in [Run -> RunRow]
    BY <1>2, RowTypes DEF AddWait, Parked, StoreTypeOK
  <2>3. QED
    BY <1>2, <2>1, <2>2 DEF AddWait, StoreTypeOK
<1>3. ASSUME NEW t \in Task, CancelTask(t) PROVE StoreTypeOK'
  <2>1. SetLifecycle(task[t], "closed", "cancelled", 1) \in TaskRow
    BY LifecycleTypes DEF StoreTypeOK, Phase, Resolution
  <2>2. task' \in [Task -> TaskRow]
    BY <1>3, <2>1 DEF CancelTask, StoreTypeOK
  <2>3. wait' \in [Wait -> WaitRow]
    BY <1>3, ResolveTypes DEF CancelTask
  <2>4. QED
    BY <1>3, <2>2, <2>3, CancelRunsTypes DEF CancelTask, StoreTypeOK
<1>4. ASSUME NEW t \in Task, NEW user \in BOOLEAN, ChangePhase(t, user)
      PROVE StoreTypeOK'
  <2>1. PICK target \in MoveTargets :
          /\ task' = [task EXCEPT ![t] = SetLifecycle(task[t], target[1], target[2],
                                                      IF user THEN 1 ELSE 0)]
          /\ UNCHANGED <<run, receipt, wait, input>>
    BY <1>4 DEF ChangePhase
  <2>2. target[1] \in Phase /\ target[2] \in Resolution
    BY MoveAssumption DEF Phase, Resolution
  <2>3. (IF user THEN 1 ELSE 0) \in {0, 1}
    OBVIOUS
  <2>4. SetLifecycle(task[t], target[1], target[2], IF user THEN 1 ELSE 0) \in TaskRow
    BY <2>2, <2>3, LifecycleTypes DEF StoreTypeOK
  <2>5. QED
    BY <2>1, <2>4 DEF StoreTypeOK
<1>5. ASSUME NEW t \in Task, NEW user \in BOOLEAN, Start(t, user)
      PROVE StoreTypeOK'
  BY <1>5, CreateOrBlockTypes DEF Start, StoreTypeOK
<1>6. ASSUME NEW w \in Wait, DenyApproval(w) PROVE StoreTypeOK'
  <2>1. wait' \in [Wait -> WaitRow]
    BY <1>6, NewWaitTypes DEF DenyApproval, StoreTypeOK
  <2>2. run' \in [Run -> RunRow]
    BY <1>6, RowTypes DEF DenyApproval, Parked, StoreTypeOK
  <2>3. QED
    BY <1>6, <2>1, <2>2 DEF DenyApproval, StoreTypeOK
<1>7. ASSUME NEW w \in Wait, ResolveWait(w) \/ Signal(w) PROVE StoreTypeOK'
  <2>1. WaitOf[w] \in Task /\ Resolve({w}) \in [Wait -> WaitRow]
    BY StoreAssumption, ResolveTypes
  <2>2. \/ wait' = Resolve({w}) /\ UNCHANGED <<task, run, receipt, input>>
        \/ \E user \in BOOLEAN : CreateOrBlock(WaitOf[w], user, Resolve({w}))
    BY <1>7 DEF ResolveWait, Signal
  <2>3. QED
    BY <2>1, <2>2, CreateOrBlockTypes DEF StoreTypeOK
<1>8. ASSUME NEW r \in Run, CancelRun(r) PROVE StoreTypeOK'
  <2>1. "cancelled" \in Terminal
    BY DEF Terminal
  <2>2. QED
    BY <1>8, <2>1, CompleteRunTypes DEF CancelRun, StoreTypeOK
<1>9. QED
  BY <1>1, <1>2, <1>3, <1>4, <1>5, <1>6, <1>7, <1>8 DEF CommandNext

-----------------------------------------------------------------------------
(* The dispatcher.  A slot that is not idle holds a Run; the type of a      *)
(* slot alone does not say so.                                             *)

SlotsHoldRuns == \A s \in Slot : slot[s].pc # "idle" => slot[s].run \in Run

LEMMA CaughtTypes ==
    ASSUME StoreTypeOK, NEW r \in Run, Caught(r)
    PROVE  /\ task' \in [Task -> TaskRow]
           /\ run' \in [Run -> RunRow]
           /\ receipt' \in [Run -> Terminal \cup {"none"}]
<1>1. "failed" \in Terminal /\ FALSE \in BOOLEAN
  BY DEF Terminal
<1>2. CompleteRun(r, "failed", FALSE) \/ UNCHANGED <<task, run, receipt>>
  BY DEF Caught
<1>3. QED
  BY <1>1, <1>2, CompleteRunTypes DEF StoreTypeOK

LEMMA SlotTypes ==
    ASSUME DispatchTypeOK, NEW s \in Slot
    PROVE  /\ slot[s] \in SlotRow
           /\ [slot EXCEPT ![s] = IdleSlot] \in [Slot -> SlotRow]
           /\ [slot EXCEPT ![s].pc = "poll"] \in [Slot -> SlotRow]
           /\ [slot EXCEPT ![s].heart = FALSE] \in [Slot -> SlotRow]
<1>1. slot[s] \in SlotRow
  BY DEF DispatchTypeOK
<1>2. [slot[s] EXCEPT !.pc = "poll"] \in SlotRow
  BY <1>1 DEF SlotRow
<1>3. [slot[s] EXCEPT !.heart = FALSE] \in SlotRow
  BY <1>1 DEF SlotRow
<1>4. QED
  BY <1>1, <1>2, <1>3, NewRowTypes DEF DispatchTypeOK

LEMMA ReturnTypes ==
    ASSUME DispatchTypeOK, NEW s \in Slot, RunAgentReturns(s)
    PROVE  DispatchTypeOK'
  BY SlotTypes DEF RunAgentReturns, DispatchTypeOK

LEMMA NextKeyType ==
    ASSUME StoreTypeOK, NEW r \in Run
    PROVE  NextInputKey(r) \in Nat
<1>1. input[r] \in Seq(InputRow)
  BY DEF StoreTypeOK
<1>2. DOMAIN input[r] = 1..Len(input[r]) /\ Len(input[r]) \in Nat
  BY <1>1, LenProperties
<1>3. IsFiniteSet(1..Len(input[r]))
  BY <1>2, FS_Interval
<1>4. Finished(r) \subseteq 1..Len(input[r])
  BY <1>2 DEF Finished
<1>5. IsFiniteSet(Finished(r))
  BY <1>3, <1>4, FS_Subset
<1>6. QED
  BY <1>5, FS_CardinalityType DEF NextInputKey

LEMMA AppendTypes ==
    ASSUME StoreTypeOK, NEW r \in Run, NEW row \in InputRow
    PROVE  [input EXCEPT ![r] = Append(input[r], row)] \in [Run -> Seq(InputRow)]
  BY AppendProperties DEF StoreTypeOK

LEMMA SlotStepTypes ==
    ASSUME StoreTypeOK, DispatchTypeOK, SlotsHoldRuns, NEW s \in Slot, SlotNext(s)
    PROVE  StoreTypeOK' /\ DispatchTypeOK'
<1>1. ASSUME NEW r \in Run, Claim(s, r) PROVE StoreTypeOK' /\ DispatchTypeOK'
  <2>1. [IdleSlot EXCEPT !.pc = "claimed", !.run = r] \in SlotRow
    BY NewRowTypes DEF SlotRow
  <2>2. Claimed(run[r], s) \in RunRow
    BY RowTypes DEF StoreTypeOK
  <2>3. StoreTypeOK'
    BY <1>1, <2>2 DEF Claim, StoreTypeOK
  <2>4. DispatchTypeOK'
    BY <1>1, <2>1 DEF Claim, DispatchTypeOK
  <2>5. QED
    BY <2>3, <2>4
<1>2. CASE Prepare(s)
  <2>1. slot[s].run \in Run
    BY <1>2 DEF Prepare, SlotsHoldRuns
  <2>2. NextInputKey(slot[s].run) \in Nat
    BY <2>1, NextKeyType
  <2>3. slot[s] \in SlotRow
    BY DEF DispatchTypeOK
  <2> DEFINE row == [slot[s] EXCEPT !.pc = "submit", !.key = NextInputKey(slot[s].run),
                                    !.heart = TRUE]
  <2>4. row \in SlotRow
    BY <2>2, <2>3 DEF SlotRow
  <2>5. slot' = [slot EXCEPT ![s] = row]
    BY <1>2 DEF Prepare, DispatchTypeOK
  <2> HIDE DEF row
  <2>6. DispatchTypeOK'
    BY <1>2, <2>1, <2>4, <2>5 DEF Prepare, DispatchTypeOK
  <2>7. QED
    BY <1>2, <2>6 DEF Prepare, store, StoreTypeOK
<1>3. CASE PrepareFails(s)
  <2>1. slot[s].run \in Run
    BY <1>3 DEF PrepareFails, SlotsHoldRuns
  <2>2. StoreTypeOK'
    BY <1>3, <2>1, CaughtTypes DEF PrepareFails, StoreTypeOK
  <2>3. QED
    BY <1>3, <2>2, SlotTypes DEF PrepareFails, DispatchTypeOK
<1>4. CASE Submit(s)
  <2>1. slot[s].run \in Run /\ slot[s].key \in Nat
    BY <1>4 DEF Submit, SlotsHoldRuns, DispatchTypeOK, SlotRow
  <2> DEFINE row == [status |-> "queued", key |-> slot[s].key, wait |-> NoWait]
  <2>2. row \in InputRow
    BY <2>1 DEF InputRow, InputStatus
  <2>3. input' = input \/ input' = [input EXCEPT ![slot[s].run] = Append(input[slot[s].run], row)]
    BY <1>4 DEF Submit
  <2> HIDE DEF row
  <2>4. input' \in [Run -> Seq(InputRow)]
    <3>1. input \in [Run -> Seq(InputRow)]
      BY DEF StoreTypeOK
    <3>2. [input EXCEPT ![slot[s].run] = Append(input[slot[s].run], row)]
             \in [Run -> Seq(InputRow)]
      BY <2>1, <2>2, AppendTypes
    <3>3. QED
      BY <2>3, <3>1, <3>2
  <2>5. StoreTypeOK'
    BY <1>4, <2>4 DEF Submit, StoreTypeOK
  <2>6. QED
    BY <1>4, <2>5, SlotTypes DEF Submit, DispatchTypeOK
<1>5. CASE SubmitFails(s)
  <2>1. slot[s].run \in Run
    BY <1>5 DEF SubmitFails, SlotsHoldRuns
  <2>2. StoreTypeOK'
    BY <1>5, <2>1, CaughtTypes DEF SubmitFails, RunAgentReturns, StoreTypeOK
  <2>3. QED
    BY <1>5, <2>2, ReturnTypes DEF SubmitFails
<1>6. CASE Poll(s)
  <2>1. slot[s].run \in Run
    BY <1>6 DEF Poll, SlotsHoldRuns
  <2>2. Caught(slot[s].run) \/ UNCHANGED <<task, run, receipt>>
    BY <1>6 DEF Poll
  <2>3. StoreTypeOK'
    BY <1>6, <2>1, <2>2, CaughtTypes DEF Poll, RunAgentReturns, StoreTypeOK
  <2>4. QED
    BY <1>6, <2>3, ReturnTypes DEF Poll
<1>7. CASE HeartbeatLost(s)
  BY <1>7, SlotTypes DEF HeartbeatLost, store, StoreTypeOK, DispatchTypeOK
<1>8. QED
  BY <1>1, <1>2, <1>3, <1>4, <1>5, <1>6, <1>7 DEF SlotNext

LEMMA DispatchTypes ==
    ASSUME StoreTypeOK, DispatchTypeOK, SlotsHoldRuns, DispatchNext
    PROVE  StoreTypeOK' /\ DispatchTypeOK'
<1>1. ASSUME NEW r \in Run, ReconcileExpired(r) PROVE StoreTypeOK' /\ DispatchTypeOK'
  <2>1. "failed" \in Terminal /\ FALSE \in BOOLEAN
    BY DEF Terminal
  <2>2. \/ CanContinue(r) /\ ScheduleContinuation(r)
        \/ CompleteRun(r, "failed", FALSE)
    BY <1>1 DEF ReconcileExpired
  <2>3. /\ task' \in [Task -> TaskRow]
        /\ run' \in [Run -> RunRow]
        /\ receipt' \in [Run -> Terminal \cup {"none"}]
    BY <2>1, <2>2, ScheduleTypes, CompleteRunTypes DEF ScheduleContinuation, StoreTypeOK
  <2>4. QED
    BY <1>1, <2>3 DEF ReconcileExpired, memory, StoreTypeOK, DispatchTypeOK
<1>2. ASSUME NEW r \in Run, ReconcileCancelled(r) PROVE StoreTypeOK' /\ DispatchTypeOK'
  BY <1>2, ResolveTypes DEF ReconcileCancelled, memory, StoreTypeOK, DispatchTypeOK
<1>3. ASSUME NEW r \in Run, LeaseExpires(r) PROVE StoreTypeOK' /\ DispatchTypeOK'
  <2>1. [run[r] EXCEPT !.lease = "expired"] \in RunRow
    BY DEF StoreTypeOK, RunRow
  <2>2. run' = [run EXCEPT ![r] = [run[r] EXCEPT !.lease = "expired"]]
    BY <1>3 DEF LeaseExpires
  <2>3. QED
    BY <1>3, <2>1, <2>2 DEF LeaseExpires, memory, StoreTypeOK, DispatchTypeOK
<1>4. CASE Stop
  <2>1. \A s \in Slot : [slot[s] EXCEPT !.heart = FALSE] \in SlotRow
    BY DEF DispatchTypeOK, SlotRow
  <2>2. QED
    BY <1>4, <2>1 DEF Stop, store, StoreTypeOK, DispatchTypeOK
<1>5. QED
  BY <1>1, <1>2, <1>3, <1>4, SlotStepTypes DEF DispatchNext, Reconcile

-----------------------------------------------------------------------------
(* Turns.  A judge that decides holds a Run.                               *)

JudgesHoldRuns == \A t \in Task : turn[t].pc = "deciding" => turn[t].held \in Run

LEMMA TurnRowTypes ==
    ASSUME TurnTypeOK, NEW t \in Task
    PROVE  /\ turn[t] \in TurnRow
           /\ [turn EXCEPT ![t] = IdleTurn] \in [Task -> TurnRow]
           /\ \A row \in TurnRow : [turn EXCEPT ![t] = row] \in [Task -> TurnRow]
  BY NewRowTypes DEF TurnTypeOK

LEMMA ToTypes ==
    ASSUME TurnTypeOK, NEW t \in Task,
           NEW pc \in {"claimed", "ready", "executing", "finalizing", "closing"}
    PROVE  To(t, pc) => turn' \in [Task -> TurnRow]
<1>1. [turn[t] EXCEPT !.pc = pc] \in TurnRow
  BY TurnRowTypes DEF TurnRow
<1>2. QED
  BY <1>1 DEF To, TurnTypeOK

LEMMA FinishTypes ==
    ASSUME StoreTypeOK, TurnTypeOK, NEW t \in Task, NEW st \in FinishedInput,
           Finish(t, st)
    PROVE  /\ TurnTypeOK'
           /\ input' \in [Run -> Seq(InputRow)]
<1>1. TurnTypeOK'
  BY TurnRowTypes DEF Finish, TurnTypeOK
<1>2. CASE turn[t].run = NoRun
  BY <1>1, <1>2 DEF Finish, StoreTypeOK
<1>3. CASE turn[t].run # NoRun
  <2>1. turn[t].run \in Run
    BY <1>3, TurnRowTypes DEF TurnRow
  <2>2. PICK i \in DOMAIN input[turn[t].run] : SetInput(turn[t].run, i, st)
    BY <1>3 DEF Finish, Running
  <2>3. st \in InputStatus
    BY DEF FinishedInput
  <2>4. QED
    BY <1>1, <2>1, <2>2, <2>3, InputTypes
<1>4. QED
  BY <1>1, <1>2, <1>3

LEMMA SupersedeTypes ==
    ASSUME StoreTypeOK, NEW t \in Task, Supersede(t)
    PROVE  /\ wait' \in [Wait -> WaitRow]
           /\ run' \in [Run -> RunRow]
           /\ receipt' \in [Run -> Terminal \cup {"none"}]
           /\ input' \in [Run -> Seq(InputRow)]
  BY ClosedAskTypes, CancelRunsTypes, WithdrawnTypes DEF Supersede

LEMMA AskTypes ==
    ASSUME StoreTypeOK, TurnTypeOK, NEW t \in Task, Ask(t)
    PROVE  StoreTypeOK' /\ TurnTypeOK'
<1>1. turn[t].run \in Run \cup {NoRun}
  BY TurnRowTypes DEF TurnRow
<1>2. wait' \in [Wait -> WaitRow] /\ turn' \in [Task -> TurnRow]
  <2>1. PICK w \in Wait, st \in {"active", "none"} :
          /\ wait' = [ClosedAsk(ActiveAsk(t)) EXCEPT ![w] =
                        [status |-> st, run |-> turn[t].run, kind |-> "ask", clar |-> "open"]]
          /\ turn' = [turn EXCEPT ![t].ask = w]
    BY DEF Ask
  <2>2. [status |-> st, run |-> turn[t].run, kind |-> "ask", clar |-> "open"] \in WaitRow
    BY <1>1 DEF WaitRow
  <2>3. wait' \in [Wait -> WaitRow]
    BY <2>1, <2>2, ClosedAskTypes
  <2>4. [turn[t] EXCEPT !.ask = w] \in TurnRow
    BY TurnRowTypes DEF TurnRow
  <2>5. QED
    BY <2>1, <2>3, <2>4 DEF TurnTypeOK
<1>3. run' \in [Run -> RunRow]
  <2>1. "cancelled" \in Terminal
    BY DEF Terminal
  <2>2. \A q \in Run : run'[q] \in {Finalized(run[q], "cancelled"), Suspended(run[q]), run[q]}
    BY DEF Ask
  <2>3. \A q \in Run : run'[q] \in RunRow
    BY <2>1, <2>2, RowTypes DEF StoreTypeOK
  <2>4. QED
    BY <2>3 DEF Ask
<1>4. receipt' \in [Run -> Terminal \cup {"none"}]
  BY DEF Ask, StoreTypeOK, Terminal
<1>5. QED
  BY <1>2, <1>3, <1>4 DEF Ask, StoreTypeOK, TurnTypeOK

\* A reopened question is typed, keeps its Run, and was asked before.
LEMMA ReopenedWaits ==
    ASSUME StoreTypeOK, NEW w, Reopen(w)
    PROVE  /\ wait' \in [Wait -> WaitRow]
           /\ \A v \in Wait : /\ wait'[v].run = wait[v].run
                              /\ wait'[v].clar = wait[v].clar \/ wait[v].clar = "queued"
<1>1. ASSUME NEW v \in Wait
      PROVE  /\ wait'[v] \in WaitRow
             /\ wait'[v].run = wait[v].run
             /\ wait'[v].clar = wait[v].clar \/ wait[v].clar = "queued"
  <2>1. wait[v] \in WaitRow
    BY DEF StoreTypeOK
  <2>2. CASE v = w
    <3>1. wait'[v] = [wait[v] EXCEPT !.clar = "open"] /\ wait[v].clar = "queued"
      BY <2>2 DEF Reopen, StoreTypeOK
    <3>2. QED
      BY <2>1, <3>1 DEF WaitRow
  <2>3. CASE v # w
    <3>1. wait'[v] = wait[v]
      BY <2>3 DEF Reopen, StoreTypeOK
    <3>2. QED
      BY <2>1, <3>1
  <2>4. QED
    BY <2>2, <2>3
<1>2. QED
  BY <1>1 DEF Reopen, StoreTypeOK

LEMMA QueueTypes ==
    ASSUME StoreTypeOK, TurnTypeOK, NEW t \in Task,
           \/ ChatMessage(t) \/ ClaimInput(t) \/ PreflightPasses(t)
           \/ PreflightFails(t) \/ CloseTurn(t) \/ PauseQueue(t) \/ ResumeQueue(t)
    PROVE  StoreTypeOK' /\ TurnTypeOK'
<1>0. queue[t] \in QueueRow /\ queue \in [Task -> QueueRow]
  BY DEF TurnTypeOK
<1>1. CASE ChatMessage(t)
  <2>1. /\ queue[t].chats \in Nat /\ queue[t].chats + 1 \in Nat
        /\ queue[t].sent + 1 \in 0..MaxChats
    BY <1>0, <1>1, TurnAssumption DEF ChatMessage, QueueRow
  <2>2. PICK chats \in {queue[t].chats, queue[t].chats + 1} :
          queue' = [queue EXCEPT ![t] = [queue[t] EXCEPT !.chats = chats,
                                                         !.sent = queue[t].sent + 1]]
    BY <1>0, <1>1 DEF ChatMessage
  <2>0. [queue[t] EXCEPT !.chats = chats, !.sent = queue[t].sent + 1] \in QueueRow
    BY <1>0, <2>1 DEF QueueRow
  <2>3. queue' \in [Task -> QueueRow]
    BY <1>0, <2>0, <2>2
  <2>4. QED
    BY <1>1, <2>3, SupersedeTypes DEF ChatMessage, StoreTypeOK, TurnTypeOK
<1>2. CASE ClaimInput(t)
  <2>1. ASSUME queue[t].chats > 0, queue' = [queue EXCEPT ![t].chats = @ - 1],
               turn' = [turn EXCEPT ![t].pc = "claimed"], UNCHANGED input
        PROVE  TurnTypeOK' /\ input' \in [Run -> Seq(InputRow)]
    <3>1. queue[t].chats - 1 \in Nat
      BY <1>0, <2>1 DEF QueueRow
    <3>2. [queue[t] EXCEPT !.chats = queue[t].chats - 1] \in QueueRow
      BY <1>0, <3>1 DEF QueueRow
    <3>3. queue' = [queue EXCEPT ![t] = [queue[t] EXCEPT !.chats = queue[t].chats - 1]]
      BY <2>1
    <3>4. queue' \in [Task -> QueueRow]
      BY <3>2, <3>3 DEF TurnTypeOK
    <3>5. QED
      BY <2>1, <3>4, ToTypes DEF To, TurnTypeOK, StoreTypeOK
  <2>2. ASSUME NEW r \in Run, NEW i \in DOMAIN input[r], SetInput(r, i, "running"),
               turn' = [turn EXCEPT ![t].pc = "claimed", ![t].run = r], UNCHANGED queue
        PROVE  TurnTypeOK' /\ input' \in [Run -> Seq(InputRow)]
    <3>1. "running" \in InputStatus
      BY DEF InputStatus
    <3>0. turn[t] \in TurnRow
      BY TurnRowTypes
    <3>2. [turn[t] EXCEPT !.pc = "claimed", !.run = r] \in TurnRow
      BY <3>0 DEF TurnRow
    <3>3. turn' = [turn EXCEPT ![t] = [turn[t] EXCEPT !.pc = "claimed", !.run = r]]
      BY <2>2 DEF TurnTypeOK
    <3>4. QED
      BY <2>2, <3>1, <3>2, <3>3, InputTypes DEF TurnTypeOK
  <2>3. QED
    BY <1>2, <2>1, <2>2 DEF ClaimInput, StoreTypeOK
<1>3. CASE PreflightPasses(t)
  <2>1. run' \in [Run -> RunRow]
    BY <1>3, RowTypes DEF PreflightPasses, StoreTypeOK
  <2>2. QED
    BY <1>3, <2>1, ClosedAskTypes, ToTypes DEF PreflightPasses, StoreTypeOK, TurnTypeOK
<1>4. CASE PreflightFails(t)
  <2>1. {"cancelled", "failed"} \subseteq FinishedInput
    BY DEF FinishedInput, InputStatus
  <2>2. QED
    BY <1>4, <2>1, FinishTypes, ReopenedWaits DEF PreflightFails, StoreTypeOK
<1>5. CASE CloseTurn(t)
  <2>1. turn[t].out \in FinishedInput
    BY TurnRowTypes DEF TurnRow
  <2>2. QED
    BY <1>5, <2>1, FinishTypes DEF CloseTurn, StoreTypeOK
<1>6. CASE PauseQueue(t) \/ ResumeQueue(t)
  <2>1. \A b \in BOOLEAN : [queue[t] EXCEPT !.paused = b] \in QueueRow
    BY <1>0 DEF QueueRow
  <2>2. \E b \in BOOLEAN : queue' = [queue EXCEPT ![t] = [queue[t] EXCEPT !.paused = b]]
    BY <1>6 DEF PauseQueue, ResumeQueue
  <2>3. queue' \in [Task -> QueueRow]
    BY <1>0, <2>1, <2>2
  <2>4. QED
    BY <1>6, <2>3 DEF PauseQueue, ResumeQueue, store, StoreTypeOK, TurnTypeOK
<1>7. QED
  BY <1>1, <1>2, <1>3, <1>4, <1>5, <1>6

LEMMA ClarificationTypes ==
    ASSUME StoreTypeOK, TurnTypeOK,
           \/ \E w \in Wait : Answer(w) \/ CancelAsk(w)
           \/ \E r \in Run : RemoveInput(r) \/ ResendInput(r)
    PROVE  StoreTypeOK' /\ TurnTypeOK'
<1>1. ASSUME NEW w \in Wait, Answer(w) PROVE StoreTypeOK' /\ TurnTypeOK'
  <2>1. wait[w].run \in Run
    BY <1>1 DEF Answer, StoreTypeOK, WaitRow
  <2>2. [wait[w] EXCEPT !.clar = "queued"] \in WaitRow
    BY DEF StoreTypeOK, WaitRow
  <2>3. wait' = [wait EXCEPT ![w] = [wait[w] EXCEPT !.clar = "queued"]]
    BY <1>1 DEF Answer
  <2>4. [status |-> "queued", key |-> 0, wait |-> w] \in InputRow
    BY DEF InputRow, InputStatus
  <2>5. input' \in [Run -> Seq(InputRow)]
    BY <1>1, <2>1, <2>4, AppendTypes DEF Answer
  <2>6. wait' \in [Wait -> WaitRow]
    BY <2>2, <2>3 DEF StoreTypeOK
  <2>7. QED
    BY <1>1, <2>5, <2>6 DEF Answer, StoreOnly, StoreTypeOK, TurnTypeOK
<1>2. ASSUME NEW w \in Wait, CancelAsk(w) PROVE StoreTypeOK' /\ TurnTypeOK'
  BY <1>2, ClosedAskTypes, CancelRunsTypes DEF CancelAsk, StoreOnly, StoreTypeOK, TurnTypeOK
<1>3. ASSUME NEW r \in Run, RemoveInput(r) PROVE StoreTypeOK' /\ TurnTypeOK'
  <2>1. "cancelled" \in InputStatus
    BY DEF InputStatus
  <2>2. QED
    BY <1>3, <2>1, InputTypes DEF RemoveInput, StoreOnly, StoreTypeOK, TurnTypeOK
<1>4. ASSUME NEW r \in Run, ResendInput(r) PROVE StoreTypeOK' /\ TurnTypeOK'
  <2>1. "queued" \in InputStatus
    BY DEF InputStatus
  <2>2. queue' \in [Task -> QueueRow]
    <3>1. [queue[TaskOf[r]] EXCEPT !.paused = TRUE] \in QueueRow
      BY StoreAssumption DEF TurnTypeOK, QueueRow
    <3>2. QED
      BY <1>4, <3>1 DEF ResendInput, TurnTypeOK
  <2>3. QED
    BY <1>4, <2>1, <2>2, InputTypes DEF ResendInput, StoreTypeOK, TurnTypeOK
<1>5. QED
  BY <1>1, <1>2, <1>3, <1>4

LEMMA ExecutionTypes ==
    ASSUME StoreTypeOK, TurnTypeOK, NEW t \in Task,
           \/ StartRunTurn(t) \/ SkipRunTurn(t) \/ StopTurn(t) \/ EndTurn(t)
           \/ \E user \in BOOLEAN : StartChatTurn(t, user)
    PROVE  StoreTypeOK' /\ TurnTypeOK'
<1>0. turn[t] \in TurnRow
  BY TurnRowTypes
<1>1. CASE StartRunTurn(t)
  <2>1. turn[t].run \in Run
    BY <1>0, <1>1 DEF StartRunTurn, TurnRow
  <2>2. run' \in [Run -> RunRow]
    BY <1>1, <2>1, RowTypes DEF StartRunTurn, StoreTypeOK
  <2>3. \E c \in Run \cup {NoRun} :
          turn' = [turn EXCEPT ![t] = [turn[t] EXCEPT !.pc = "executing", !.coord = c]]
    BY <1>1, <2>1 DEF StartRunTurn, TurnTypeOK
  <2>4. \A c \in Run \cup {NoRun} :
          [turn[t] EXCEPT !.pc = "executing", !.coord = c] \in TurnRow
    BY <1>0 DEF TurnRow
  <2>5. turn' \in [Task -> TurnRow]
    BY <2>3, <2>4, TurnRowTypes
  <2>6. QED
    BY <1>1, <2>2, <2>5 DEF StartRunTurn, StoreTypeOK, TurnTypeOK
<1>2. CASE SkipRunTurn(t)
  <2>1. "cancelled" \in FinishedInput
    BY DEF FinishedInput, InputStatus
  <2>2. [turn[t] EXCEPT !.pc = "closing", !.out = "cancelled"] \in TurnRow
    BY <1>0, <2>1 DEF TurnRow
  <2>3. turn' = [turn EXCEPT ![t] = [turn[t] EXCEPT !.pc = "closing", !.out = "cancelled"]]
    BY <1>2 DEF SkipRunTurn, TurnTypeOK
  <2>4. turn' \in [Task -> TurnRow]
    BY <2>2, <2>3, TurnRowTypes
  <2>5. QED
    BY <1>2, <2>4 DEF SkipRunTurn, store, StoreTypeOK, TurnTypeOK
<1>3. CASE StopTurn(t)
  <2>1. [turn[t] EXCEPT !.aborted = TRUE] \in TurnRow
    BY <1>0 DEF TurnRow
  <2>2. turn' = [turn EXCEPT ![t] = [turn[t] EXCEPT !.aborted = TRUE]]
    BY <1>3 DEF StopTurn
  <2>3. turn' \in [Task -> TurnRow]
    BY <2>1, <2>2, TurnRowTypes
  <2>4. QED
    BY <1>3, <2>3, SupersedeTypes DEF StopTurn, StoreTypeOK, TurnTypeOK
<1>4. CASE EndTurn(t)
  <2>1. \E res \in {"succeeded", "failed", "cancelled"}, out \in FinishedInput,
           pc \in {"finalizing", "judging"} : Ended(t, res, out, pc)
    BY <1>4 DEF EndTurn, FinishedInput, InputStatus
  <2>2. PICK res \in {"succeeded", "failed", "cancelled"}, out \in FinishedInput,
             pc \in {"finalizing", "judging"} : Ended(t, res, out, pc)
    BY <2>1
  <2> DEFINE row == [turn[t] EXCEPT !.pc = pc, !.res = res, !.out = out, !.ask = NoWait,
                                    !.aborted = FALSE]
  <2>3. row \in TurnRow
    BY <1>0 DEF TurnRow
  <2>4. turn' = [turn EXCEPT ![t] = row]
    BY <2>2 DEF Ended, TurnTypeOK
  <2> HIDE DEF row
  <2>5. turn' \in [Task -> TurnRow]
    BY <2>3, <2>4, TurnRowTypes
  <2>6. QED
    BY <1>4, <2>5 DEF EndTurn, store, StoreTypeOK, TurnTypeOK
<1>5. ASSUME NEW user \in BOOLEAN, StartChatTurn(t, user)
      PROVE  StoreTypeOK' /\ TurnTypeOK'
  <2>1. ASSUME NEW r \in Run, TaskOf[r] = t, run' = [run EXCEPT ![r] = Started(Created(r))],
               task' = [task EXCEPT ![t] = Activated(t, user)],
               turn' = [turn EXCEPT ![t].pc = "executing", ![t].coord = r]
        PROVE  /\ task' \in [Task -> TaskRow]
               /\ run' \in [Run -> RunRow]
               /\ turn' \in [Task -> TurnRow]
    <3>1. Started(Created(r)) \in RunRow /\ Activated(t, user) \in TaskRow
      BY CreatedTypes, RowTypes
    <3>2. [turn[t] EXCEPT !.pc = "executing", !.coord = r] \in TurnRow
      BY <1>0 DEF TurnRow
    <3>3. turn' = [turn EXCEPT ![t] = [turn[t] EXCEPT !.pc = "executing", !.coord = r]]
      BY <2>1 DEF TurnTypeOK
    <3>4. turn' \in [Task -> TurnRow]
      BY <3>2, <3>3, TurnRowTypes
    <3>5. QED
      BY <2>1, <3>1, <3>4 DEF StoreTypeOK
  <2>2. ASSUME To(t, "executing"), UNCHANGED <<task, run>>
        PROVE  /\ task' \in [Task -> TaskRow]
               /\ run' \in [Run -> RunRow]
               /\ turn' \in [Task -> TurnRow]
    BY <2>2, ToTypes DEF StoreTypeOK
  <2>3. QED
    BY <1>5, <2>1, <2>2 DEF StartChatTurn, StoreTypeOK, TurnTypeOK
<1>6. QED
  BY <1>1, <1>2, <1>3, <1>4, <1>5

LEMMA JudgeTypes ==
    ASSUME StoreTypeOK, TurnTypeOK, JudgesHoldRuns, NEW t \in Task,
           \/ JudgeReads(t) \/ JudgeNeedsUser(t) \/ JudgeContinues(t) \/ JudgeGivesUp(t)
           \/ \E passed \in BOOLEAN : JudgeCompletes(t, passed)
    PROVE  StoreTypeOK' /\ TurnTypeOK'
<1>0. turn[t] \in TurnRow
  BY TurnRowTypes
<1>1. Judged(t) => turn' \in [Task -> TurnRow]
  <2>1. [turn[t] EXCEPT !.pc = "finalizing", !.held = NoRun, !.version = 0] \in TurnRow
    BY <1>0 DEF TurnRow
  <2>2. Judged(t) => turn' = [turn EXCEPT ![t] = [turn[t] EXCEPT
                       !.pc = "finalizing", !.held = NoRun, !.version = 0]]
    BY DEF Judged, TurnTypeOK
  <2>3. QED
    BY <2>1, <2>2, TurnRowTypes
<1>2. CASE JudgeReads(t)
  <2>1. ASSUME NEW r \in ActiveRoots(t),
               turn' = [turn EXCEPT ![t].pc = "deciding", ![t].held = r,
                                    ![t].version = run[r].version]
        PROVE  turn' \in [Task -> TurnRow]
    <3>1. r \in Run /\ run[r].version \in Nat
      BY DEF ActiveRoots, StoreTypeOK, RunRow
    <3>2. [turn[t] EXCEPT !.pc = "deciding", !.held = r, !.version = run[r].version]
            \in TurnRow
      BY <1>0, <3>1 DEF TurnRow
    <3>3. turn' = [turn EXCEPT ![t] = [turn[t] EXCEPT !.pc = "deciding", !.held = r,
                                                      !.version = run[r].version]]
      BY <2>1 DEF TurnTypeOK
    <3>4. QED
      BY <3>2, <3>3, TurnRowTypes
  <2>2. turn' \in [Task -> TurnRow]
    BY <1>2, <2>1, ToTypes DEF JudgeReads
  <2>3. QED
    BY <1>2, <2>2 DEF JudgeReads, store, StoreTypeOK, TurnTypeOK
<1>3. CASE JudgeNeedsUser(t)
  <2>1. turn[t].held \in Run
    BY <1>3 DEF JudgeNeedsUser, JudgesHoldRuns
  <2>2. wait' \in [Wait -> WaitRow]
    BY <1>3, <2>1, NewWaitTypes DEF JudgeNeedsUser
  <2>3. run' \in [Run -> RunRow]
    BY <1>3, <2>1, RowTypes DEF JudgeNeedsUser, StoreTypeOK
  <2>4. QED
    BY <1>1, <1>3, <2>2, <2>3 DEF JudgeNeedsUser, StoreTypeOK, TurnTypeOK
<1>4. CASE JudgeContinues(t)
  <2>1. turn[t].held \in Run
    BY <1>4 DEF JudgeContinues, JudgesHoldRuns
  <2>2. run' \in [Run -> RunRow]
    BY <1>4, <2>1, ScheduleTypes DEF JudgeContinues
  <2>3. QED
    BY <1>1, <1>4, <2>2 DEF JudgeContinues, ScheduleContinuation, StoreTypeOK, TurnTypeOK
<1>5. CASE JudgeGivesUp(t)
  BY <1>1, <1>5 DEF JudgeGivesUp, store, StoreTypeOK, TurnTypeOK
<1>6. ASSUME NEW passed \in BOOLEAN, JudgeCompletes(t, passed)
      PROVE  StoreTypeOK' /\ TurnTypeOK'
  <2>1. turn[t].held \in Run /\ "succeeded" \in Terminal
    BY <1>6 DEF JudgeCompletes, JudgesHoldRuns, Terminal
  <2>2. QED
    BY <1>1, <1>6, <2>1, CompleteRunTypes DEF JudgeCompletes, StoreTypeOK, TurnTypeOK
<1>7. QED
  BY <1>2, <1>3, <1>4, <1>5, <1>6

LEMMA FinalizeTypes ==
    ASSUME StoreTypeOK, TurnTypeOK, NEW t \in Task, FinalizeTurn(t)
    PROVE  StoreTypeOK' /\ TurnTypeOK'
<1>0. turn[t] \in TurnRow
  BY TurnRowTypes
<1>1. turn[t].coord \in Run \cup {NoRun} /\ turn[t].res \in Terminal
  BY <1>0 DEF TurnRow, Terminal
<1>2. /\ task' \in [Task -> TaskRow]
      /\ run' \in [Run -> RunRow]
      /\ receipt' \in [Run -> Terminal \cup {"none"}]
  <2>1. CASE UNCHANGED <<task, run, receipt>>
    BY <2>1 DEF StoreTypeOK
  <2>2. CASE turn[t].coord \in Run /\ CanContinue(turn[t].coord)
             /\ ScheduleContinuation(turn[t].coord)
    BY <2>2, ScheduleTypes DEF ScheduleContinuation, StoreTypeOK
  <2>3. CASE /\ turn[t].coord \in Run
             /\ \E verified \in BOOLEAN : \/ CompleteRun(turn[t].coord, turn[t].res, verified)
                                         \/ CompleteRun(turn[t].coord, "failed", verified)
    BY <1>1, <2>3, CompleteRunTypes DEF Terminal
  <2>4. QED
    BY <1>1, <2>1, <2>2, <2>3 DEF FinalizeTurn
<1>3. turn' \in [Task -> TurnRow]
  <2>1. [turn[t] EXCEPT !.pc = "closing", !.coord = NoRun, !.res = "failed"] \in TurnRow
    BY <1>0 DEF TurnRow
  <2>2. turn' = [turn EXCEPT ![t] = [turn[t] EXCEPT
                   !.pc = "closing", !.coord = NoRun, !.res = "failed"]]
    BY DEF FinalizeTurn, TurnTypeOK
  <2>3. QED
    BY <2>1, <2>2, TurnRowTypes
<1>4. QED
  BY <1>2, <1>3 DEF FinalizeTurn, StoreTypeOK, TurnTypeOK

LEMMA TurnTypes ==
    ASSUME StoreTypeOK, TurnTypeOK, JudgesHoldRuns, TurnNext
    PROVE  StoreTypeOK' /\ TurnTypeOK'
  BY AskTypes, QueueTypes, ClarificationTypes, ExecutionTypes, JudgeTypes, FinalizeTypes
  DEF TurnNext, TurnStep, TakeInput, SendInput


-----------------------------------------------------------------------------
(* The inductive invariant.                                                *)

\* What the identities held by waits, inputs and turns belong to.
WaitsHoldOwnRuns == \A w \in Wait :
    wait[w].run # NoRun => TaskOf[wait[w].run] = WaitOf[w]
TurnsHoldOwnRuns == \A t \in Task :
    turn[t].run # NoRun => TaskOf[turn[t].run] = t
InputsHoldOwnWaits == \A r \in Run : \A i \in DOMAIN input[r] :
    input[r][i].wait # NoWait => wait[input[r][i].wait].run = r

\* The version a judge read is old or current, and if it is current the Run
\* still runs: the compare-and-set on the version is also one on the status.
JudgesHoldVersions == \A t \in Task :
    turn[t].pc = "deciding" =>
        /\ turn[t].held \in Run
        /\ TaskOf[turn[t].held] = t
        /\ turn[t].version <= run[turn[t].held].version
        /\ turn[t].version = run[turn[t].held].version
              => run[turn[t].held].status = "running"

AbsentIsNew == \A r \in Run : run[r].status = "absent" => run[r] = NewRun

LeaseOK(row) ==
    /\ (row.lease = "none") = (row.owner = NoSlot)
    /\ row.owner # NoSlot => row.status \in {"queued", "running"}

IInv ==
    /\ TypeOK
    /\ SlotsHoldRuns
    /\ WaitsHoldOwnRuns
    /\ TurnsHoldOwnRuns
    /\ InputsHoldOwnWaits
    /\ JudgesHoldVersions
    /\ AbsentIsNew
    /\ LeaseSound
    /\ ReceiptMatches
    /\ OneActiveRun

-----------------------------------------------------------------------------
(* What a step does to the Runs.                                           *)

Same(r)   == run'[r] = run[r] /\ receipt'[r] = receipt[r]
Begins(r) == /\ run[r].status = "absent"
             /\ ActiveRoots(TaskOf[r]) = {}
             /\ run'[r].status \in {"queued", "running"}
             /\ LeaseOK(run'[r])
             /\ receipt'[r] = receipt[r]
Keeps(r)  == /\ run[r].status \in {"queued", "running"}
             /\ run'[r].status = run[r].status
             /\ run'[r].version >= run[r].version
             /\ LeaseOK(run'[r])
             /\ receipt'[r] = receipt[r]
Moves(r)  == /\ <<run[r].status, run'[r].status>> \in Lifecycle!Moves
             /\ run'[r].version > run[r].version
             /\ LeaseOK(run'[r])
             /\ receipt'[r] = receipt[r]
Ends(r)   == /\ Active(r)
             /\ run'[r].status \in Terminal
             /\ run'[r].version > run[r].version
             /\ LeaseOK(run'[r])
             /\ receipt'[r] = run'[r].status
Steps(r)  == Begins(r) \/ Keeps(r) \/ Moves(r) \/ Ends(r)

OneRunSteps ==
    \/ \A r \in Run : Same(r)
    \/ \E q \in Run : Steps(q) /\ \A r \in Run \ {q} : Same(r)

LEMMA LeaseRows ==
    ASSUME LeaseSound
    PROVE  \A r \in Run : LeaseOK(run[r])
  BY DEF LeaseSound, LeaseOK

LEMMA BumpedRow ==
    ASSUME NEW row \in RunRow
    PROVE  /\ Bumped(row).version = row.version + 1
           /\ Bumped(row).version > row.version
           /\ Bumped(row).status = row.status
           /\ Bumped(row).owner = row.owner
           /\ Bumped(row).lease = row.lease
  BY DEF Bumped, RunRow

LEMMA ReleasedRow ==
    ASSUME NEW row \in RunRow
    PROVE  /\ Released(row).version = row.version
           /\ Released(row).status = row.status
           /\ Released(row).owner = NoSlot
           /\ Released(row).lease = "none"
  BY DEF Released, RunRow

LEMMA StatusRow ==
    ASSUME NEW row \in RunRow, NEW st
    PROVE  LET new == [row EXCEPT !.status = st] IN
           /\ new.version = row.version /\ new.status = st
           /\ new.owner = row.owner /\ new.lease = row.lease
  BY DEF RunRow

\* Parking, finalizing and continuing release the lease.
LEMMA SuspendedRow ==
    ASSUME NEW row \in RunRow
    PROVE  /\ Suspended(row).status = "waiting"
           /\ Suspended(row).version > row.version
           /\ LeaseOK(Suspended(row))
<1> DEFINE parked == [Released(row) EXCEPT !.status = "waiting"]
<1>1. Released(row) \in RunRow /\ "waiting" \in RunStatus
  BY ReleasedType DEF RunStatus
<1>2. parked \in RunRow
  BY <1>1, StatusType
<1>3. /\ parked.version = row.version /\ parked.status = "waiting"
      /\ parked.owner = NoSlot /\ parked.lease = "none"
  BY <1>1, StatusRow, ReleasedRow
<1>4. Suspended(row) = Bumped(parked)
  BY DEF Suspended
<1> HIDE DEF parked
<1>5. QED
  BY <1>2, <1>3, <1>4, BumpedRow DEF LeaseOK

LEMMA FinalizedRow ==
    ASSUME NEW row \in RunRow, NEW st \in Terminal
    PROVE  /\ Finalized(row, st).status = st
           /\ Finalized(row, st).version > row.version
           /\ LeaseOK(Finalized(row, st))
<1> DEFINE ended == [Released(row) EXCEPT !.status = st]
<1>1. Released(row) \in RunRow /\ st \in RunStatus
  BY ReleasedType DEF RunStatus, Terminal
<1>2. ended \in RunRow
  BY <1>1, StatusType
<1>3. /\ ended.version = row.version /\ ended.status = st
      /\ ended.owner = NoSlot /\ ended.lease = "none"
  BY <1>1, StatusRow, ReleasedRow
<1>4. Finalized(row, st) = Bumped(ended)
  BY DEF Finalized
<1> HIDE DEF ended
<1>5. QED
  BY <1>2, <1>3, <1>4, BumpedRow DEF LeaseOK

LEMMA ContinuedRow ==
    ASSUME NEW row \in RunRow, row.attempts + 1 \in 0..(MaxAttempts - 1)
    PROVE  /\ Continued(row).status = "waiting"
           /\ Continued(row).version > row.version
           /\ LeaseOK(Continued(row))
<1> DEFINE next == [row EXCEPT !.cont = TRUE, !.attempts = @ + 1]
<1>1. next \in RunRow /\ next.version = row.version
  BY DEF RunRow
<1>2. Continued(row) = Suspended(next)
  BY DEF Continued
<1> HIDE DEF next
<1>3. QED
  BY <1>1, <1>2, SuspendedRow

LEMMA ResumedRow ==
    ASSUME NEW row \in RunRow
    PROVE  /\ Resumed(row).status = "running"
           /\ Resumed(row).version > row.version
           /\ LeaseOK(row) => LeaseOK(Resumed(row))
<1> DEFINE next == [row EXCEPT !.status = "running"]
<1>1. "running" \in RunStatus
  BY DEF RunStatus
<1>2. next \in RunRow
  BY <1>1, StatusType
<1>3. /\ next.version = row.version /\ next.status = "running"
      /\ next.owner = row.owner /\ next.lease = row.lease
  BY StatusRow
<1>4. Resumed(row) = Bumped(next)
  BY DEF Resumed
<1> HIDE DEF next
<1>5. QED
  BY <1>2, <1>3, <1>4, BumpedRow DEF LeaseOK

LEMMA StartedRow ==
    ASSUME NEW row \in RunRow
    PROVE  /\ Started(row).status = "running"
           /\ Started(row).version > row.version
           /\ LeaseOK(row) => LeaseOK(Started(row))
<1> DEFINE next == [row EXCEPT !.status = "running", !.snapshot = TRUE, !.cont = FALSE,
                               !.attempts = 0]
<1>1. 0 \in 0..(MaxAttempts - 1) /\ "running" \in RunStatus
  BY StoreAssumption DEF RunStatus
<1>2. next \in RunRow
  BY <1>1 DEF RunRow
<1>3. /\ next.version = row.version /\ next.status = "running"
      /\ next.owner = row.owner /\ next.lease = row.lease
  BY DEF RunRow
<1>4. Started(row) = Bumped(next)
  BY DEF Started
<1> HIDE DEF next
<1>5. QED
  BY <1>2, <1>3, <1>4, BumpedRow DEF LeaseOK

LEMMA ClaimedRow ==
    ASSUME NEW row \in RunRow, NEW s \in Slot, row.status \in {"queued", "waiting"}
    PROVE  /\ Claimed(row, s).version > row.version
           /\ row.status = "queued" => Claimed(row, s).status = "queued"
           /\ row.status = "waiting" => Claimed(row, s).status = "running"
           /\ LeaseOK(Claimed(row, s))
<1> DEFINE leased == [row EXCEPT !.owner = s, !.lease = "live"]
           bumped == Bumped(leased)
<1>1. leased \in RunRow
  BY DEF RunRow
<1>2. /\ leased.version = row.version /\ leased.status = row.status
      /\ leased.owner = s /\ leased.lease = "live"
  BY DEF RunRow
<1>3. Claimed(row, s) = IF row.status = "waiting" THEN Resumed(bumped) ELSE bumped
  BY DEF Claimed
<1> HIDE DEF leased
<1>4. /\ bumped \in RunRow
      /\ bumped.version > row.version /\ bumped.status = row.status
      /\ bumped.owner = s /\ bumped.lease = "live"
  BY <1>1, <1>2, BumpedRow, BumpedType
<1>5. s # NoSlot
  BY StoreAssumption
<1> HIDE DEF bumped
<1>6. CASE row.status = "queued"
  BY <1>3, <1>4, <1>5, <1>6 DEF LeaseOK
<1>7. CASE row.status = "waiting"
  <2> DEFINE next == [bumped EXCEPT !.status = "running"]
  <2>1. next \in RunRow
    BY <1>4, StatusType DEF RunStatus
  <2>2. /\ next.version = bumped.version /\ next.status = "running"
        /\ next.owner = s /\ next.lease = "live"
    BY <1>4, StatusRow
  <2>3. Claimed(row, s) = Bumped(next)
    BY <1>3, <1>7 DEF Resumed
  <2>4. bumped.version \in Nat /\ row.version \in Nat
    BY <1>4 DEF RunRow
  <2> HIDE DEF next
  <2>5. QED
    BY <1>4, <1>5, <1>7, <2>1, <2>2, <2>3, <2>4, BumpedRow DEF LeaseOK, RunRow
<1>8. QED
  BY <1>6, <1>7

-----------------------------------------------------------------------------
(* The transactions of TaskStore change at most one Run.                   *)

RowInv == StoreTypeOK /\ LeaseSound /\ AbsentIsNew /\ OneActiveRun

LEMMA NoRunSteps == UNCHANGED <<run, receipt>> => OneRunSteps
  BY DEF OneRunSteps, Same

LEMMA OneRowSteps ==
    ASSUME RowInv, NEW q \in Run, NEW new, run' = [run EXCEPT ![q] = new],
           \A r \in Run \ {q} : receipt'[r] = receipt[r],
           Steps(q)
    PROVE  OneRunSteps
  BY DEF OneRunSteps, Same, RowInv, StoreTypeOK

\* A queued or running Run is parked.
LEMMA ParkSteps ==
    ASSUME RowInv, NEW q \in Run, run[q].status \in {"queued", "running"},
           run' = [run EXCEPT ![q] = Suspended(run[q])], UNCHANGED receipt
    PROVE  OneRunSteps
<1>1. run'[q] = Suspended(run[q]) /\ run[q] \in RunRow
  BY DEF RowInv, StoreTypeOK
<1>2. Moves(q)
  BY <1>1, SuspendedRow DEF Moves, Lifecycle!Moves
<1>3. QED
  BY <1>2, OneRowSteps DEF Steps

LEMMA ScheduleSteps ==
    ASSUME RowInv, NEW q \in Run, CanContinue(q), ScheduleContinuation(q)
    PROVE  OneRunSteps
<1>1. run'[q] = Continued(run[q]) /\ run[q] \in RunRow
  BY DEF ScheduleContinuation, RowInv, StoreTypeOK
<1>2. run[q].attempts + 1 \in 0..(MaxAttempts - 1)
  BY <1>1, StoreAssumption DEF CanContinue, RunRow
<1>3. Moves(q)
  BY <1>1, <1>2, ContinuedRow DEF Moves, Lifecycle!Moves, CanContinue, ScheduleContinuation
<1>4. QED
  BY <1>3, OneRowSteps DEF Steps, ScheduleContinuation

LEMMA FinalizeSteps ==
    ASSUME RowInv, NEW q \in Run, NEW st \in Terminal, Active(q),
           run' = [run EXCEPT ![q] = Finalized(run[q], st)],
           receipt' = [receipt EXCEPT ![q] = st]
    PROVE  OneRunSteps
<1>1. run'[q] = Finalized(run[q], st) /\ run[q] \in RunRow /\ receipt'[q] = st
  BY DEF RowInv, StoreTypeOK
<1>2. Ends(q)
  BY <1>1, FinalizedRow DEF Ends
<1>3. QED
  BY <1>2, OneRowSteps DEF Steps, RowInv, StoreTypeOK

LEMMA CompleteSteps ==
    ASSUME RowInv, NEW q \in Run, NEW st \in Terminal, NEW verified, Active(q),
           CompleteRun(q, st, verified)
    PROVE  OneRunSteps
  BY FinalizeSteps DEF CompleteRun, Finalize

LEMMA CancelSteps ==
    ASSUME RowInv, NEW t \in Task, NEW R, R \subseteq ActiveRoots(t), CancelRuns(R)
    PROVE  OneRunSteps
<1>1. CASE R = {}
  BY <1>1 DEF CancelRuns, OneRunSteps, Same
<1>2. CASE R # {}
  <2>1. PICK q \in Run : q \in R /\ Active(q) /\ TaskOf[q] = t
    BY <1>2 DEF ActiveRoots
  <2>2. \A r \in R : r = q
    BY <2>1 DEF ActiveRoots, RowInv, OneActiveRun
  <2>3. /\ run' = [run EXCEPT ![q] = Finalized(run[q], "cancelled")]
        /\ receipt' = [receipt EXCEPT ![q] = "cancelled"]
    BY <2>1, <2>2 DEF CancelRuns, RowInv, StoreTypeOK
  <2>4. "cancelled" \in Terminal
    BY DEF Terminal
  <2>5. QED
    BY <2>1, <2>3, <2>4, FinalizeSteps
<1>3. QED
  BY <1>1, <1>2

LEMMA CreatedRow ==
    ASSUME StoreTypeOK, NEW r \in Run
    PROVE  /\ Created(r) \in RunRow
           /\ Created(r).status = "queued"
           /\ LeaseOK(Created(r))
<1>1. Created(r) \in RunRow
  BY CreatedTypes, StoreAssumption
<1>2. Created(r).status = "queued" /\ Created(r).owner = NoSlot
        /\ Created(r).lease = "none"
  BY DEF Created, NewRun
<1>3. QED
  BY <1>1, <1>2 DEF LeaseOK

LEMMA CreateSteps ==
    ASSUME RowInv, NEW t \in Task, NEW user, NEW r \in Run, Create(t, user, r),
           ActiveRoots(t) = {}
    PROVE  OneRunSteps
<1>1. run'[r] = Created(r)
  BY DEF Create, RowInv, StoreTypeOK
<1>2. Begins(r)
  BY <1>1, CreatedRow DEF Begins, Create, RowInv
<1>3. QED
  BY <1>2, OneRowSteps DEF Steps, Create

LEMMA CaughtSteps ==
    ASSUME RowInv, NEW r \in Run, Caught(r)
    PROVE  OneRunSteps
<1>1. "failed" \in Terminal
  BY DEF Terminal
<1>2. CASE UNCHANGED <<task, run, receipt>>
  BY <1>2, NoRunSteps
<1>3. CASE Active(r) /\ CompleteRun(r, "failed", FALSE)
  BY <1>1, <1>3, CompleteSteps
<1>4. QED
  BY <1>2, <1>3 DEF Caught

LEMMA CreateOrBlockSteps ==
    ASSUME RowInv, NEW t \in Task, NEW user, NEW rows, CreateOrBlock(t, user, rows),
           ActiveRoots(t) = {}
    PROVE  OneRunSteps
  BY CreateSteps, NoRunSteps DEF CreateOrBlock, Blocked

\* Parking the active Run of a Task.
LEMMA ParkedSteps ==
    ASSUME RowInv, NEW t \in Task, run' = Parked(t), UNCHANGED receipt
    PROVE  OneRunSteps
<1> DEFINE R == {r \in ActiveRoots(t) : run[r].status \in {"queued", "running"}}
<1>1. run' = [r \in Run |-> IF r \in R THEN Suspended(run[r]) ELSE run[r]]
  BY DEF Parked
<1>2. CASE R = {}
  BY <1>1, <1>2 DEF OneRunSteps, Same
<1>3. CASE R # {}
  <2>1. PICK q \in Run : q \in R
    BY <1>3 DEF ActiveRoots
  <2>2. \A r \in R : r = q
    BY <2>1 DEF ActiveRoots, RowInv, OneActiveRun
  <2>3. run' = [run EXCEPT ![q] = Suspended(run[q])]
    BY <1>1, <2>1, <2>2 DEF RowInv, StoreTypeOK
  <2>4. QED
    BY <2>1, <2>3, ParkSteps
<1>4. QED
  BY <1>2, <1>3

-----------------------------------------------------------------------------
(* Commands change at most one Run.                                        *)

LEMMA CommandSteps ==
    ASSUME RowInv, CommandNext
    PROVE  OneRunSteps
<1>1. ASSUME NEW t \in Task, ReviseContract(t) PROVE OneRunSteps
  BY <1>1, NoRunSteps DEF ReviseContract
<1>2. ASSUME NEW t \in Task, AddWait(t) PROVE OneRunSteps
  BY <1>2, ParkedSteps DEF AddWait
<1>3. ASSUME NEW t \in Task, CancelTask(t) PROVE OneRunSteps
  BY <1>3, CancelSteps DEF CancelTask
<1>4. ASSUME NEW t \in Task, NEW user \in BOOLEAN, ChangePhase(t, user)
      PROVE OneRunSteps
  BY <1>4, NoRunSteps DEF ChangePhase
<1>5. ASSUME NEW t \in Task, NEW user \in BOOLEAN, Start(t, user)
      PROVE OneRunSteps
  BY <1>5, CreateOrBlockSteps DEF Start, StartAllowed
<1>6. ASSUME NEW w \in Wait, DenyApproval(w) PROVE OneRunSteps
  BY <1>6, ParkedSteps, StoreAssumption DEF DenyApproval
<1>7. ASSUME NEW w \in Wait, ResolveWait(w) \/ Signal(w) PROVE OneRunSteps
  <2>1. \/ UNCHANGED <<task, run, receipt, input>>
        \/ \E user \in BOOLEAN : /\ CreateOrBlock(WaitOf[w], user, Resolve({w}))
                                 /\ ActiveRoots(WaitOf[w]) = {}
    BY <1>7 DEF ResolveWait, Signal, StartsNext
  <2>2. QED
    BY <2>1, NoRunSteps, CreateOrBlockSteps, StoreAssumption
<1>8. ASSUME NEW r \in Run, CancelRun(r) PROVE OneRunSteps
  BY <1>8, CompleteSteps DEF CancelRun, Terminal
<1>9. QED
  BY <1>1, <1>2, <1>3, <1>4, <1>5, <1>6, <1>7, <1>8 DEF CommandNext

-----------------------------------------------------------------------------
(* So does the dispatcher.                                                 *)

LEMMA ClaimSteps ==
    ASSUME RowInv, NEW s \in Slot, NEW r \in Run, Claim(s, r)
    PROVE  OneRunSteps
<1>1. run'[r] = Claimed(run[r], s) /\ run[r] \in RunRow
  BY DEF Claim, RowInv, StoreTypeOK
<1>2. run[r].status \in {"queued", "waiting"}
  BY DEF Claim, Claimable
<1>3. run[r].version \in Nat /\ Claimed(run[r], s).version \in Nat
  BY <1>1, RowTypes DEF RunRow
<1>4. CASE run[r].status = "queued"
  <2>1. Keeps(r)
    BY <1>1, <1>2, <1>3, <1>4, ClaimedRow DEF Keeps, Claim
  <2>2. QED
    BY <2>1, OneRowSteps DEF Steps, Claim
<1>5. CASE run[r].status = "waiting"
  <2>1. Moves(r)
    BY <1>1, <1>2, <1>5, ClaimedRow DEF Moves, Lifecycle!Moves, Claim
  <2>2. QED
    BY <2>1, OneRowSteps DEF Steps, Claim
<1>6. QED
  BY <1>2, <1>4, <1>5

LEMMA ExpireSteps ==
    ASSUME RowInv, NEW r \in Run, LeaseExpires(r)
    PROVE  OneRunSteps
<1>1. run[r] \in RunRow /\ LeaseOK(run[r])
  BY LeaseRows DEF RowInv, StoreTypeOK
<1>2. run' = [run EXCEPT ![r] = [run[r] EXCEPT !.lease = "expired"]]
  BY DEF LeaseExpires
<1>3. /\ run'[r].status = run[r].status /\ run'[r].version = run[r].version
      /\ run'[r].owner = run[r].owner /\ run'[r].lease = "expired"
  BY <1>1, <1>2 DEF RunRow, RowInv, StoreTypeOK
<1>4. run[r].version \in Nat
  BY <1>1 DEF RunRow
<1>5. Keeps(r)
  BY <1>1, <1>3, <1>4 DEF Keeps, LeaseOK, LeaseExpires
<1>6. QED
  BY <1>2, <1>5, OneRowSteps DEF Steps, LeaseExpires

LEMMA DispatchSteps ==
    ASSUME RowInv, SlotsHoldRuns, DispatchNext
    PROVE  OneRunSteps
<1>1. ASSUME NEW s \in Slot, SlotNext(s) PROVE OneRunSteps
  <2>1. ASSUME slot[s].pc # "idle", Caught(slot[s].run) PROVE OneRunSteps
    BY <2>1, CaughtSteps DEF SlotsHoldRuns
  <2>2. CASE \E r \in Run : Claim(s, r)
    BY <2>2, ClaimSteps
  <2>3. CASE Prepare(s) \/ HeartbeatLost(s) \/ Submit(s)
    BY <2>3, NoRunSteps DEF Prepare, HeartbeatLost, Submit, store
  <2>4. CASE PrepareFails(s) \/ SubmitFails(s)
    BY <2>1, <2>4 DEF PrepareFails, SubmitFails
  <2>5. CASE Poll(s)
    BY <2>1, <2>5, NoRunSteps DEF Poll
  <2>6. QED
    BY <1>1, <2>2, <2>3, <2>4, <2>5 DEF SlotNext
<1>2. ASSUME NEW r \in Run, ReconcileExpired(r) PROVE OneRunSteps
  <2>1. Active(r) /\ "failed" \in Terminal
    BY <1>2 DEF ReconcileExpired, ExpiredLeasedRunning, Active, ActiveRunStatuses, Terminal
  <2>2. QED
    BY <1>2, <2>1, ScheduleSteps, CompleteSteps DEF ReconcileExpired
<1>3. ASSUME NEW r \in Run, ReconcileCancelled(r) PROVE OneRunSteps
  BY <1>3, NoRunSteps DEF ReconcileCancelled
<1>4. CASE Stop
  BY <1>4, NoRunSteps DEF Stop, store
<1>5. QED
  BY <1>1, <1>2, <1>3, <1>4, ExpireSteps DEF DispatchNext, Reconcile

-----------------------------------------------------------------------------
(* And so do the turns, whose identities are their own Task's.             *)

TurnInv == /\ RowInv /\ TurnTypeOK
           /\ WaitsHoldOwnRuns /\ TurnsHoldOwnRuns /\ InputsHoldOwnWaits
           /\ JudgesHoldVersions

LEMMA AskRunsOwn ==
    ASSUME TurnInv, NEW t \in Task, NEW W \in SUBSET {w \in Wait : WaitOf[w] = t}
    PROVE  AskRuns(W) \subseteq ActiveRoots(t)
<1>1. ASSUME NEW r \in AskRuns(W) PROVE r \in ActiveRoots(t)
  <2>1. r \in Run /\ Active(r)
    BY DEF AskRuns
  <2>2. PICK w \in W : wait[w].run = r
    BY DEF AskRuns
  <2>3. TaskOf[r] = t
    BY <2>1, <2>2, StoreAssumption DEF TurnInv, WaitsHoldOwnRuns
  <2>4. QED
    BY <2>1, <2>3 DEF ActiveRoots
<1>2. QED
  BY <1>1

LEMMA SupersedeSteps ==
    ASSUME TurnInv, NEW t \in Task, Supersede(t)
    PROVE  OneRunSteps
<1>1. AskRuns(ActiveAsk(t)) \subseteq ActiveRoots(t)
  BY AskRunsOwn DEF ActiveAsk
<1>2. QED
  BY <1>1, CancelSteps DEF Supersede, TurnInv

LEMMA AskSteps ==
    ASSUME TurnInv, NEW t \in Task, Ask(t)
    PROVE  OneRunSteps
<1> DEFINE old   == AskRuns(ActiveAsk(t))
           r     == turn[t].run
           parks == r # NoRun /\ r \notin old /\ run[r].status = "running"
<1>1. old \subseteq ActiveRoots(t)
  BY AskRunsOwn DEF ActiveAsk
<1>2. r # NoRun => r \in Run /\ TaskOf[r] = t
  BY TurnRowTypes DEF TurnInv, TurnsHoldOwnRuns, TurnRow
<1>3. run' = [q \in Run |-> CASE q \in old -> Finalized(run[q], "cancelled")
                              [] parks /\ q = r -> Suspended(run[q])
                              [] OTHER -> run[q]]
  BY DEF Ask
<1>4. receipt' = [q \in Run |-> IF q \in old THEN "cancelled" ELSE receipt[q]]
  BY DEF Ask
<1>5. CASE ~parks
  <2>1. run' = [q \in Run |-> IF q \in old THEN Finalized(run[q], "cancelled") ELSE run[q]]
    BY <1>3, <1>5
  <2>2. QED
    BY <1>1, <1>4, <2>1, CancelSteps DEF CancelRuns, TurnInv
<1>6. CASE parks
  <2>1. r \in Run /\ r \in ActiveRoots(t)
    BY <1>2, <1>6 DEF ActiveRoots, Active, ActiveRunStatuses
  <2>2. \A q \in old : q = r
    BY <1>1, <2>1 DEF ActiveRoots, TurnInv, RowInv, OneActiveRun
  <2>3. old = {}
    BY <1>6, <2>2
  <2>4. run' = [run EXCEPT ![r] = Suspended(run[r])]
    BY <1>3, <1>6, <2>1, <2>3 DEF TurnInv, RowInv, StoreTypeOK
  <2>5. UNCHANGED receipt
    BY <1>4, <2>3 DEF TurnInv, RowInv, StoreTypeOK
  <2>6. QED
    BY <1>6, <2>1, <2>4, <2>5, ParkSteps DEF TurnInv
<1>7. QED
  BY <1>5, <1>6

LEMMA PreflightSteps ==
    ASSUME TurnInv, NEW t \in Task, PreflightPasses(t)
    PROVE  OneRunSteps
<1> DEFINE q == turn[t].run
<1>1. ASSUME NEW w \in Resumes(t)
      PROVE  q \in Run /\ wait[w].run = q /\ run[q].status = "waiting"
  <2>1. q # NoRun
    BY DEF Resumes
  <2>2. q \in Run
    BY <2>1, TurnRowTypes DEF TurnInv, TurnRow
  <2>3. PICK i \in Running(q) : input[q][i].wait = w
    BY <2>1 DEF Resumes
  <2>4. i \in DOMAIN input[q] /\ w # NoWait
    BY <2>1 DEF Running, Resumes
  <2>5. wait[w].run = q
    BY <2>2, <2>3, <2>4 DEF TurnInv, InputsHoldOwnWaits
  <2>6. QED
    BY <2>2, <2>5 DEF PreflightPasses, Consumable
<1>2. CASE Resumes(t) = {}
  BY <1>2, NoRunSteps DEF PreflightPasses, TurnInv, RowInv, StoreTypeOK
<1>3. CASE Resumes(t) # {}
  <2>1. /\ q \in Run /\ run[q].status = "waiting"
        /\ \A r \in Run : (\E w \in Resumes(t) : wait[w].run = r) <=> r = q
    BY <1>1, <1>3
  <2>2. run' = [run EXCEPT ![q] = Resumed(run[q])]
    BY <2>1 DEF PreflightPasses, TurnInv, RowInv, StoreTypeOK
  <2>3. run'[q] = Resumed(run[q]) /\ run[q] \in RunRow /\ LeaseOK(run[q])
    BY <2>1, <2>2, LeaseRows DEF TurnInv, RowInv, StoreTypeOK
  <2>4. Moves(q)
    BY <2>1, <2>3, ResumedRow DEF Moves, Lifecycle!Moves, PreflightPasses
  <2>5. QED
    BY <2>1, <2>2, <2>4, OneRowSteps DEF Steps, PreflightPasses, TurnInv
<1>4. QED
  BY <1>2, <1>3

LEMMA StartSteps ==
    ASSUME TurnInv, NEW t \in Task,
           StartRunTurn(t) \/ \E user \in BOOLEAN : StartChatTurn(t, user)
    PROVE  OneRunSteps
<1>1. CASE StartRunTurn(t)
  <2> DEFINE q == turn[t].run
  <2>1. q \in Run
    BY <1>1, TurnRowTypes DEF StartRunTurn, TurnInv, TurnRow
  <2>2. CASE run[q].status = "queued" /\ run' = [run EXCEPT ![q] = Started(run[q])]
    <3>1. run'[q] = Started(run[q]) /\ run[q] \in RunRow /\ LeaseOK(run[q])
      BY <2>1, <2>2, LeaseRows DEF TurnInv, RowInv, StoreTypeOK
    <3>2. Moves(q)
      BY <1>1, <2>1, <2>2, <3>1, StartedRow DEF Moves, Lifecycle!Moves, StartRunTurn
    <3>3. QED
      BY <1>1, <2>1, <2>2, <3>2, OneRowSteps DEF Steps, StartRunTurn, TurnInv
  <2>3. CASE UNCHANGED run
    BY <1>1, <2>3, NoRunSteps DEF StartRunTurn
  <2>4. QED
    BY <1>1, <2>2, <2>3 DEF StartRunTurn
<1>2. ASSUME NEW user \in BOOLEAN, StartChatTurn(t, user) PROVE OneRunSteps
  <2>1. CASE UNCHANGED <<task, run>>
    BY <1>2, <2>1, NoRunSteps DEF StartChatTurn
  <2>2. ASSUME NEW r \in Run, TaskOf[r] = t, run[r].status = "absent", ChatStarts(t, user),
               run' = [run EXCEPT ![r] = Started(Created(r))]
        PROVE  OneRunSteps
    <3>1. run'[r] = Started(Created(r))
      BY <2>2 DEF TurnInv, RowInv, StoreTypeOK
    <3>2. Begins(r)
      BY <1>2, <2>2, <3>1, CreatedRow, StartedRow
      DEF Begins, ChatStarts, StartChatTurn, TurnInv, RowInv
    <3>3. QED
      BY <1>2, <2>2, <3>2, OneRowSteps DEF Steps, StartChatTurn, TurnInv
  <2>3. QED
    BY <1>2, <2>1, <2>2 DEF StartChatTurn
<1>3. QED
  BY <1>1, <1>2

LEMMA JudgeSteps ==
    ASSUME TurnInv, NEW t \in Task,
           \/ JudgeNeedsUser(t) \/ JudgeContinues(t)
           \/ \E passed \in BOOLEAN : JudgeCompletes(t, passed)
    PROVE  OneRunSteps
<1> DEFINE q == turn[t].held
<1>1. q \in Run /\ (StillHeld(t) => run[q].status = "running")
  BY DEF JudgeNeedsUser, JudgeContinues, JudgeCompletes, StillHeld, TurnInv, JudgesHoldVersions
<1>2. CASE JudgeNeedsUser(t)
  BY <1>1, <1>2, ParkSteps, NoRunSteps DEF JudgeNeedsUser, TurnInv
<1>3. CASE JudgeContinues(t)
  BY <1>1, <1>3, ScheduleSteps DEF JudgeContinues, TurnInv
<1>4. ASSUME NEW passed \in BOOLEAN, JudgeCompletes(t, passed) PROVE OneRunSteps
  <2>1. Active(q) /\ "succeeded" \in Terminal
    BY <1>1, <1>4 DEF JudgeCompletes, Active, ActiveRunStatuses, Terminal
  <2>2. QED
    BY <1>1, <1>4, <2>1, CompleteSteps DEF JudgeCompletes, TurnInv
<1>5. QED
  BY <1>2, <1>3, <1>4

LEMMA FinalizeTurnSteps ==
    ASSUME TurnInv, NEW t \in Task, FinalizeTurn(t)
    PROVE  OneRunSteps
<1> DEFINE c == turn[t].coord
<1>1. turn[t].res \in Terminal /\ "failed" \in Terminal /\ c \in Run \cup {NoRun}
  BY TurnRowTypes DEF TurnInv, TurnRow, Terminal
<1>2. CASE UNCHANGED <<task, run, receipt>>
  BY <1>2, NoRunSteps
<1>3. CASE c # NoRun /\ Finalizable(c)
  <2>1. c \in Run /\ Active(c)
    BY <1>1, <1>3 DEF Finalizable, Active, ActiveRunStatuses
  <2>2. \/ CanContinue(c) /\ ScheduleContinuation(c)
        \/ \E verified \in BOOLEAN : CompleteRun(c, turn[t].res, verified)
        \/ CompleteRun(c, "failed", FALSE)
    BY <1>3 DEF FinalizeTurn
  <2>3. QED
    BY <1>1, <2>1, <2>2, ScheduleSteps, CompleteSteps DEF TurnInv
<1>4. QED
  BY <1>2, <1>3 DEF FinalizeTurn

LEMMA TurnSteps ==
    ASSUME TurnInv, TurnNext
    PROVE  OneRunSteps
<1>1. ASSUME NEW t \in Task, TurnStep(t) PROVE OneRunSteps
  <2>1. CASE \/ TakeInput(t) \/ PreflightFails(t) \/ SkipRunTurn(t) \/ EndTurn(t)
             \/ JudgeReads(t) \/ JudgeGivesUp(t) \/ CloseTurn(t)
    BY <2>1, NoRunSteps DEF TakeInput, ClaimInput, PreflightFails, SkipRunTurn, EndTurn,
                            JudgeReads, JudgeGivesUp, CloseTurn, store
  <2>2. QED
    BY <1>1, <2>1, PreflightSteps, StartSteps, JudgeSteps, FinalizeTurnSteps DEF TurnStep
<1>2. ASSUME NEW t \in Task, StopTurn(t) \/ ChatMessage(t) PROVE OneRunSteps
  BY <1>2, NoRunSteps, SupersedeSteps DEF StopTurn, ChatMessage
<1>3. ASSUME NEW w \in Wait, CancelAsk(w) PROVE OneRunSteps
  <2>1. WaitOf[w] \in Task
    BY StoreAssumption
  <2>2. AskRuns({w}) \subseteq ActiveRoots(WaitOf[w])
    BY <2>1, AskRunsOwn
  <2>3. QED
    BY <1>3, <2>1, <2>2, CancelSteps DEF CancelAsk, TurnInv
<1>4. ASSUME NEW w \in Wait, Answer(w) PROVE OneRunSteps
  BY <1>4, NoRunSteps DEF Answer
<1>5. ASSUME NEW r \in Run, RemoveInput(r) \/ ResendInput(r) PROVE OneRunSteps
  BY <1>5, NoRunSteps DEF RemoveInput, ResendInput
<1>6. ASSUME NEW t \in Task, SendInput(t) \/ PauseQueue(t) \/ ResumeQueue(t)
      PROVE  OneRunSteps
  BY <1>6, NoRunSteps DEF SendInput, ClaimInput, PauseQueue, ResumeQueue, store
<1>7. QED
  BY <1>1, <1>2, <1>3, <1>4, <1>5, <1>6, AskSteps DEF TurnNext

-----------------------------------------------------------------------------
(* What a step does to the identities that waits, inputs and turns hold.   *)

WaitsKeepRuns == \A w \in Wait :
    \/ wait'[w].run = wait[w].run
    \/ /\ wait[w].run = NoRun
       /\ wait'[w].run # NoRun => TaskOf[wait'[w].run] = WaitOf[w]
InputsKeepWaits == \A r \in Run : \A i \in DOMAIN input'[r] :
    \/ i \in DOMAIN input[r] /\ input'[r][i].wait = input[r][i].wait
    \/ input'[r][i].wait = NoWait
    \/ input'[r][i].wait \in Wait /\ wait[input'[r][i].wait].run = r
TurnsKeepRuns == \A t \in Task :
    turn'[t].run # NoRun => turn'[t].run = turn[t].run \/ TaskOf[turn'[t].run] = t
JudgesKeepVersions == \A t \in Task : turn'[t].pc = "deciding" =>
    \/ /\ turn[t].pc = "deciding"
       /\ turn'[t].held = turn[t].held /\ turn'[t].version = turn[t].version
    \/ /\ UNCHANGED <<run, receipt>>
       /\ turn'[t].held \in ActiveRoots(t)
       /\ run[turn'[t].held].status = "running"
       /\ turn'[t].version = run[turn'[t].held].version

Keep == WaitsKeepRuns /\ InputsKeepWaits /\ TurnsKeepRuns /\ JudgesKeepVersions

LEMMA ResolveKeeps ==
    ASSUME StoreTypeOK, NEW W, NEW w \in Wait
    PROVE  Resolve(W)[w].run = wait[w].run /\ ClosedAsk(W)[w].run = wait[w].run
<1>1. wait[w] \in WaitRow
  BY DEF StoreTypeOK
<1>2. Resolve(W)[w].run = wait[w].run /\ Resolve(W)[w] \in WaitRow
  BY <1>1, ResolveTypes DEF Resolve, WaitRow
<1>3. ClosedAsk(W)[w].run = wait[w].run
  BY <1>1, <1>2 DEF ClosedAsk, WaitRow
<1>4. QED
  BY <1>2, <1>3

LEMMA SameWaits == UNCHANGED wait => WaitsKeepRuns
  BY DEF WaitsKeepRuns

LEMMA ResolveWaits ==
    ASSUME StoreTypeOK, NEW W, wait' = Resolve(W) \/ wait' = ClosedAsk(W)
    PROVE  WaitsKeepRuns
  BY ResolveKeeps DEF WaitsKeepRuns

LEMMA FreshWaits ==
    ASSUME StoreTypeOK, NEW t \in Task, NEW v \in Wait, FreshWait(t, v),
           NEW row \in WaitRow, wait' = [wait EXCEPT ![v] = row],
           row.run # NoRun => TaskOf[row.run] = t
    PROVE  WaitsKeepRuns
  BY DEF WaitsKeepRuns, FreshWait, NewWait, StoreTypeOK

LEMMA CreateOrBlockKeeps ==
    ASSUME StoreTypeOK, NEW t, NEW user, NEW rows, CreateOrBlock(t, user, rows),
           \A w \in Wait : rows[w].run = wait[w].run
    PROVE  WaitsKeepRuns
<1>1. CASE wait' = rows
  BY <1>1 DEF WaitsKeepRuns
<1>2. CASE Blocked(t, rows)
  <2>1. NewTaskWait("start", NoRun).run = NoRun
    BY DEF NewTaskWait, NewWait
  <2>2. QED
    BY <1>2, <2>1 DEF Blocked, FreshWait, NewWait, WaitsKeepRuns
<1>3. QED
  BY <1>1, <1>2 DEF CreateOrBlock

LEMMA SameInputs == UNCHANGED input => InputsKeepWaits
  BY DEF InputsKeepWaits

LEMMA SetInputs ==
    ASSUME StoreTypeOK, NEW q \in Run, NEW st, NEW j \in DOMAIN input[q],
           SetInput(q, j, st)
    PROVE  InputsKeepWaits
<1>1. input[q] \in Seq(InputRow)
  BY DEF StoreTypeOK
<1>2. input[q][j] \in InputRow
  BY <1>1, LenProperties, ElementOfSeq
<1> DEFINE row == [input[q][j] EXCEPT !.status = st]
<1>3. row.wait = input[q][j].wait
  BY <1>2 DEF InputRow
<1>4. input' = [input EXCEPT ![q] = [input[q] EXCEPT ![j] = row]]
  BY DEF SetInput
<1> HIDE DEF row
<1>5. \A r \in Run : DOMAIN input'[r] = DOMAIN input[r]
  BY <1>4 DEF StoreTypeOK
<1>6. \A r \in Run : \A i \in DOMAIN input[r] : input'[r][i].wait = input[r][i].wait
  BY <1>3, <1>4 DEF StoreTypeOK
<1>7. QED
  BY <1>5, <1>6 DEF InputsKeepWaits

LEMMA AppendInputs ==
    ASSUME StoreTypeOK, NEW q \in Run, NEW row \in InputRow,
           input' = [input EXCEPT ![q] = Append(input[q], row)],
           row.wait # NoWait => row.wait \in Wait /\ wait[row.wait].run = q
    PROVE  InputsKeepWaits
<1>1. input[q] \in Seq(InputRow)
  BY DEF StoreTypeOK
<1>2. /\ Len(input[q]) \in Nat
      /\ DOMAIN input[q] = 1..Len(input[q])
  BY <1>1, LenProperties
<1> DEFINE new == Append(input[q], row)
<1>3. /\ new \in Seq(InputRow) /\ Len(new) = Len(input[q]) + 1
      /\ \A i \in 1..Len(input[q]) : new[i] = input[q][i]
  BY <1>1, AppendProperties
<1>4. new[Len(input[q]) + 1] = row
  BY <1>1, AppendProperties
<1>5. DOMAIN new = 1..(Len(input[q]) + 1)
  BY <1>3, LenProperties
<1>6. input'[q] = new /\ \A r \in Run \ {q} : input'[r] = input[r]
  BY DEF StoreTypeOK
<1> HIDE DEF new
<1>7. ASSUME NEW i \in DOMAIN new
      PROVE  \/ i \in DOMAIN input[q] /\ new[i] = input[q][i]
             \/ new[i] = row
  <2>1. i \in 1..Len(input[q]) \/ i = Len(input[q]) + 1
    BY <1>2, <1>5
  <2>2. QED
    BY <1>2, <1>3, <1>4, <2>1
<1>8. QED
  BY <1>6, <1>7 DEF InputsKeepWaits

LEMMA WithdrawnInputs ==
    ASSUME StoreTypeOK, NEW W, input' = Withdrawn(W)
    PROVE  InputsKeepWaits
<1> SUFFICES ASSUME NEW r \in Run, NEW i \in DOMAIN input'[r]
             PROVE  i \in DOMAIN input[r] /\ input'[r][i].wait = input[r][i].wait
  BY DEF InputsKeepWaits
<1>1. i \in DOMAIN input[r]
  BY DEF Withdrawn
<1>2. input[r] \in Seq(InputRow)
  BY DEF StoreTypeOK
<1>3. input[r][i] \in InputRow
  BY <1>1, <1>2, LenProperties, ElementOfSeq
<1>4. input'[r][i] \in {input[r][i], [input[r][i] EXCEPT !.status = "cancelled"]}
  BY <1>1 DEF Withdrawn
<1>5. QED
  BY <1>1, <1>3, <1>4 DEF InputRow

LEMMA SameTurns == UNCHANGED turn => TurnsKeepRuns /\ JudgesKeepVersions
  BY DEF TurnsKeepRuns, JudgesKeepVersions

\* A step of one turn that neither takes an input nor reads for the judge.
LEMMA TurnKeeps ==
    ASSUME TurnTypeOK, NEW t \in Task, NEW row, turn' = [turn EXCEPT ![t] = row],
           row.run = turn[t].run \/ row.run = NoRun,
           row.pc = "deciding" => /\ turn[t].pc = "deciding" /\ row.held = turn[t].held
                                  /\ row.version = turn[t].version
    PROVE  TurnsKeepRuns /\ JudgesKeepVersions
  BY DEF TurnsKeepRuns, JudgesKeepVersions, TurnTypeOK

LEMMA CommandKeeps ==
    ASSUME StoreTypeOK, CommandNext, UNCHANGED turn
    PROVE  Keep
<1>1. TurnsKeepRuns /\ JudgesKeepVersions
  BY SameTurns
<1>2. InputsKeepWaits
  BY SameInputs DEF CommandNext, ReviseContract, AddWait, CancelTask, ChangePhase, Start,
     ResolveWait, DenyApproval, Signal, CancelRun, Create, Blocked, CreateOrBlock
<1>3. ASSUME NEW t \in Task, AddWait(t) PROVE WaitsKeepRuns
  <2>1. PICK w \in Wait : FreshWait(t, w)
                          /\ wait' = [wait EXCEPT ![w] = NewTaskWait("hold", RootOr(t))]
    BY <1>3 DEF AddWait
  <2>2. /\ NewTaskWait("hold", RootOr(t)) \in WaitRow
        /\ NewTaskWait("hold", RootOr(t)).run = RootOr(t)
    BY RootOrType, NewWaitTypes DEF NewTaskWait, NewWait
  <2>3. RootOr(t) # NoRun => TaskOf[RootOr(t)] = t
    BY RootOrType DEF ActiveRoots
  <2>4. QED
    BY <2>1, <2>2, <2>3, FreshWaits
<1>4. ASSUME NEW w \in Wait, DenyApproval(w) PROVE WaitsKeepRuns
  <2>1. NewTaskWait("hold", NoRun) \in WaitRow /\ NewTaskWait("hold", NoRun).run = NoRun
    BY NewWaitTypes DEF NewTaskWait, NewWait
  <2>2. WaitOf[w] \in Task
    BY StoreAssumption
  <2>3. CASE UNCHANGED wait
    BY <2>3, SameWaits
  <2>4. ASSUME NEW v \in Wait, FreshWait(WaitOf[w], v),
               wait' = [wait EXCEPT ![v] = NewTaskWait("hold", NoRun)]
        PROVE  WaitsKeepRuns
    BY <2>1, <2>2, <2>4, FreshWaits
  <2>5. QED
    BY <1>4, <2>3, <2>4 DEF DenyApproval
<1>5. ASSUME NEW t \in Task, NEW user \in BOOLEAN, Start(t, user) PROVE WaitsKeepRuns
  BY <1>5, CreateOrBlockKeeps DEF Start
<1>6. ASSUME NEW w \in Wait, ResolveWait(w) \/ Signal(w) PROVE WaitsKeepRuns
  <2>1. \/ wait' = Resolve({w})
        \/ \E user \in BOOLEAN : CreateOrBlock(WaitOf[w], user, Resolve({w}))
    BY <1>6 DEF ResolveWait, Signal
  <2>2. \A v \in Wait : Resolve({w})[v].run = wait[v].run
    BY ResolveKeeps
  <2>3. QED
    BY <2>1, <2>2, ResolveWaits, CreateOrBlockKeeps
<1>7. ASSUME NEW t \in Task, CancelTask(t) PROVE WaitsKeepRuns
  BY <1>7, ResolveWaits DEF CancelTask
<1>8. ASSUME \/ \E t \in Task : ReviseContract(t)
             \/ \E t \in Task, user \in BOOLEAN : ChangePhase(t, user)
             \/ \E r \in Run : CancelRun(r)
      PROVE  WaitsKeepRuns
  BY <1>8, SameWaits DEF ReviseContract, ChangePhase, CancelRun
<1>9. QED
  BY <1>1, <1>2, <1>3, <1>4, <1>5, <1>6, <1>7, <1>8 DEF CommandNext, Keep

LEMMA DispatchKeeps ==
    ASSUME StoreTypeOK, DispatchTypeOK, SlotsHoldRuns, DispatchNext, UNCHANGED turn
    PROVE  Keep /\ SlotsHoldRuns'
<1>1. TurnsKeepRuns /\ JudgesKeepVersions
  BY SameTurns
<1>2. ASSUME NEW s \in Slot, Submit(s) PROVE InputsKeepWaits
  <2>1. slot[s].run \in Run /\ slot[s].key \in Nat
    BY <1>2 DEF Submit, SlotsHoldRuns, DispatchTypeOK, SlotRow
  <2> DEFINE row == [status |-> "queued", key |-> slot[s].key, wait |-> NoWait]
  <2>2. row \in InputRow /\ row.wait = NoWait
    BY <2>1 DEF InputRow, InputStatus
  <2>3. input' = input
        \/ input' = [input EXCEPT ![slot[s].run] = Append(input[slot[s].run], row)]
    BY <1>2 DEF Submit
  <2> HIDE DEF row
  <2>4. QED
    BY <2>1, <2>2, <2>3, SameInputs, AppendInputs
<1>3. InputsKeepWaits
  BY <1>2, SameInputs DEF DispatchNext, SlotNext, Claim, Prepare, PrepareFails, SubmitFails,
     Poll, RunAgentReturns, HeartbeatLost, Reconcile, ReconcileExpired, ReconcileCancelled,
     LeaseExpires, Stop, store
<1>4. WaitsKeepRuns
  BY SameWaits, ResolveWaits DEF DispatchNext, SlotNext, Claim, Prepare, PrepareFails, Submit,
     SubmitFails, Poll, RunAgentReturns, HeartbeatLost, Reconcile, ReconcileExpired,
     ReconcileCancelled, LeaseExpires, Stop, store
<1>5. SlotsHoldRuns'
  <2>1. ASSUME NEW s \in Slot, NEW row, slot' = [slot EXCEPT ![s] = row],
               row.pc # "idle" => row.run \in Run
        PROVE  SlotsHoldRuns'
    BY <2>1 DEF SlotsHoldRuns, DispatchTypeOK
  <2>2. ASSUME NEW s \in Slot, NEW r \in Run, Claim(s, r) PROVE SlotsHoldRuns'
    BY <2>1, <2>2 DEF Claim, IdleSlot
  <2>3. ASSUME NEW s \in Slot, slot' = [slot EXCEPT ![s] = IdleSlot] PROVE SlotsHoldRuns'
    BY <2>1, <2>3 DEF IdleSlot
  <2>4. ASSUME NEW s \in Slot, Prepare(s) \/ Submit(s) \/ HeartbeatLost(s)
        PROVE  SlotsHoldRuns'
    BY <2>4 DEF Prepare, Submit, HeartbeatLost, SlotsHoldRuns, DispatchTypeOK, SlotRow
  <2>5. ASSUME NEW s \in Slot, SlotNext(s) PROVE SlotsHoldRuns'
    BY <2>2, <2>3, <2>4, <2>5 DEF SlotNext, PrepareFails, SubmitFails, Poll, RunAgentReturns
  <2>6. ASSUME NEW r \in Run, Reconcile(r) \/ LeaseExpires(r) PROVE SlotsHoldRuns'
    BY <2>6 DEF Reconcile, ReconcileExpired, ReconcileCancelled, LeaseExpires, memory,
       SlotsHoldRuns
  <2>7. CASE Stop
    BY <2>7 DEF Stop, SlotsHoldRuns, DispatchTypeOK, SlotRow
  <2>8. QED
    BY <2>5, <2>6, <2>7 DEF DispatchNext
<1>6. QED
  BY <1>1, <1>3, <1>4, <1>5 DEF Keep

-----------------------------------------------------------------------------
(* The turns keep them too.                                                *)

\* createClarificationWait closes the older question and asks a new one.
LEMMA AskedWaits ==
    ASSUME StoreTypeOK, NEW W, NEW t \in Task, NEW v \in Wait, FreshWait(t, v),
           NEW row \in WaitRow, wait' = [ClosedAsk(W) EXCEPT ![v] = row],
           row.run # NoRun => TaskOf[row.run] = t
    PROVE  WaitsKeepRuns
<1>1. ClosedAsk(W) \in [Wait -> WaitRow]
  BY ClosedAskTypes
<1>2. wait'[v] = row /\ \A w \in Wait \ {v} : wait'[w] = ClosedAsk(W)[w]
  BY <1>1
<1>3. \A w \in Wait : ClosedAsk(W)[w].run = wait[w].run
  BY ResolveKeeps
<1>4. wait[v].run = NoRun /\ WaitOf[v] = t
  BY DEF FreshWait, NewWait
<1>5. QED
  BY <1>2, <1>3, <1>4 DEF WaitsKeepRuns

LEMMA FinishKeeps ==
    ASSUME StoreTypeOK, TurnTypeOK, NEW t \in Task, NEW st, Finish(t, st)
    PROVE  InputsKeepWaits /\ TurnsKeepRuns /\ JudgesKeepVersions
<1>1. TurnsKeepRuns /\ JudgesKeepVersions
  BY TurnKeeps DEF Finish, IdleTurn
<1>2. CASE turn[t].run = NoRun
  BY <1>1, <1>2, SameInputs DEF Finish
<1>3. CASE turn[t].run # NoRun
  <2>1. turn[t].run \in Run
    BY <1>3, TurnRowTypes DEF TurnRow
  <2>2. PICK i \in Running(turn[t].run) : SetInput(turn[t].run, i, st)
    BY <1>3 DEF Finish
  <2>3. i \in DOMAIN input[turn[t].run]
    BY DEF Running
  <2>4. QED
    BY <1>1, <2>1, <2>2, <2>3, SetInputs
<1>4. QED
  BY <1>2, <1>3

LEMMA SupersedeKeeps ==
    ASSUME StoreTypeOK, NEW t \in Task, Supersede(t)
    PROVE  WaitsKeepRuns /\ InputsKeepWaits
  BY ResolveWaits, WithdrawnInputs DEF Supersede

LEMMA AskKeeps ==
    ASSUME TurnInv, NEW t \in Task, Ask(t)
    PROVE  Keep
<1>0. StoreTypeOK /\ TurnTypeOK /\ turn[t] \in TurnRow
  BY TurnRowTypes DEF TurnInv, RowInv
<1>1. turn[t].run \in Run \cup {NoRun} /\ (turn[t].run # NoRun => TaskOf[turn[t].run] = t)
  BY <1>0 DEF TurnInv, TurnsHoldOwnRuns, TurnRow
<1>2. PICK w \in Wait, st \in {"active", "none"} :
        /\ FreshWait(t, w)
        /\ wait' = [ClosedAsk(ActiveAsk(t)) EXCEPT ![w] =
                      [status |-> st, run |-> turn[t].run, kind |-> "ask", clar |-> "open"]]
        /\ turn' = [turn EXCEPT ![t].ask = w]
  BY DEF Ask
<1> DEFINE row == [status |-> st, run |-> turn[t].run, kind |-> "ask", clar |-> "open"]
<1>3. row \in WaitRow /\ row.run = turn[t].run
  BY <1>1 DEF WaitRow
<1>4. WaitsKeepRuns
  <2>1. wait' = [ClosedAsk(ActiveAsk(t)) EXCEPT ![w] = row]
    BY <1>2
  <2>2. FreshWait(t, w)
    BY <1>2
  <2> HIDE DEF row
  <2>3. QED
    BY <1>0, <1>1, <1>3, <2>1, <2>2, AskedWaits
<1> DEFINE next == [turn[t] EXCEPT !.ask = w]
<1>5. turn' = [turn EXCEPT ![t] = next] /\ next.run = turn[t].run /\ next.pc = "executing"
  BY <1>0, <1>2 DEF TurnRow, Ask
<1> HIDE DEF next
<1>6. TurnsKeepRuns /\ JudgesKeepVersions
  BY <1>0, <1>5, TurnKeeps
<1>7. InputsKeepWaits
  BY SameInputs DEF Ask
<1>8. QED
  BY <1>4, <1>6, <1>7 DEF Keep

LEMMA QueueKeeps ==
    ASSUME TurnInv, NEW t \in Task,
           \/ ChatMessage(t) \/ ClaimInput(t) \/ PreflightPasses(t)
           \/ PreflightFails(t) \/ CloseTurn(t) \/ PauseQueue(t) \/ ResumeQueue(t)
    PROVE  Keep
<1>0. StoreTypeOK /\ TurnTypeOK /\ turn[t] \in TurnRow
  BY TurnRowTypes DEF TurnInv, RowInv
<1>1. CASE ChatMessage(t)
  BY <1>0, <1>1, SupersedeKeeps, SameTurns DEF ChatMessage, Keep
<1>2. CASE ClaimInput(t)
  <2>1. WaitsKeepRuns
    BY <1>2, SameWaits DEF ClaimInput
  <2>2. CASE turn' = [turn EXCEPT ![t].pc = "claimed"] /\ UNCHANGED input
    <3> DEFINE next == [turn[t] EXCEPT !.pc = "claimed"]
    <3>1. turn' = [turn EXCEPT ![t] = next] /\ next.run = turn[t].run /\ next.pc = "claimed"
      BY <1>0, <2>2 DEF TurnRow
    <3> HIDE DEF next
    <3>2. QED
      BY <1>0, <2>1, <2>2, <3>1, TurnKeeps, SameInputs DEF Keep
  <2>3. ASSUME NEW r \in Run, NEW i \in DOMAIN input[r], TaskOf[r] = t,
               SetInput(r, i, "running"),
               turn' = [turn EXCEPT ![t].pc = "claimed", ![t].run = r]
        PROVE  Keep
    <3>1. InputsKeepWaits
      BY <1>0, <2>3, SetInputs
    <3>2. /\ turn'[t].run = r /\ turn'[t].pc = "claimed"
          /\ \A u \in Task \ {t} : turn'[u] = turn[u]
      BY <1>0, <2>3 DEF TurnTypeOK, TurnRow
    <3>3. TurnsKeepRuns /\ JudgesKeepVersions
      BY <2>3, <3>2 DEF TurnsKeepRuns, JudgesKeepVersions
    <3>4. QED
      BY <2>1, <3>1, <3>3 DEF Keep
  <2>4. QED
    BY <1>2, <2>2, <2>3 DEF ClaimInput
<1>3. CASE PreflightPasses(t)
  <2>1. WaitsKeepRuns /\ InputsKeepWaits
    BY <1>0, <1>3, ResolveWaits, SameInputs DEF PreflightPasses
  <2> DEFINE next == [turn[t] EXCEPT !.pc = "ready"]
  <2>2. turn' = [turn EXCEPT ![t] = next] /\ next.run = turn[t].run /\ next.pc = "ready"
    BY <1>0, <1>3 DEF TurnRow, PreflightPasses, To
  <2> HIDE DEF next
  <2>3. QED
    BY <1>0, <2>1, <2>2, TurnKeeps DEF Keep
<1>4. CASE PreflightFails(t)
  <2>1. WaitsKeepRuns
    BY <1>0, <1>4, SameWaits, ReopenedWaits DEF PreflightFails, WaitsKeepRuns
  <2>2. QED
    BY <1>0, <1>4, <2>1, FinishKeeps DEF PreflightFails, Keep
<1>5. CASE CloseTurn(t)
  BY <1>0, <1>5, FinishKeeps, SameWaits DEF CloseTurn, Keep
<1>6. CASE PauseQueue(t) \/ ResumeQueue(t)
  BY <1>6, SameWaits, SameInputs, SameTurns DEF PauseQueue, ResumeQueue, store, Keep
<1>7. QED
  BY <1>1, <1>2, <1>3, <1>4, <1>5, <1>6

LEMMA ClarificationKeeps ==
    ASSUME TurnInv,
           \/ \E w \in Wait : Answer(w) \/ CancelAsk(w)
           \/ \E r \in Run : RemoveInput(r) \/ ResendInput(r)
    PROVE  Keep
<1>0. StoreTypeOK /\ TurnTypeOK
  BY DEF TurnInv, RowInv
<1>1. TurnsKeepRuns /\ JudgesKeepVersions
  BY SameTurns DEF Answer, CancelAsk, RemoveInput, ResendInput, StoreOnly
<1>2. ASSUME NEW w \in Wait, Answer(w) PROVE Keep
  <2>1. wait[w] \in WaitRow /\ wait[w].run \in Run
    BY <1>0, <1>2 DEF Answer, StoreTypeOK, WaitRow
  <2>2. WaitsKeepRuns
    <3>1. \A v \in Wait : wait'[v].run = wait[v].run
      BY <1>0, <1>2, <2>1 DEF Answer, StoreTypeOK, WaitRow
    <3>2. QED
      BY <3>1 DEF WaitsKeepRuns
  <2> DEFINE row == [status |-> "queued", key |-> 0, wait |-> w]
  <2>3. row \in InputRow /\ row.wait = w
    BY DEF InputRow, InputStatus
  <2>4. input' = [input EXCEPT ![wait[w].run] = Append(input[wait[w].run], row)]
    BY <1>2 DEF Answer
  <2> HIDE DEF row
  <2>5. InputsKeepWaits
    BY <1>0, <2>1, <2>3, <2>4, AppendInputs
  <2>6. QED
    BY <1>1, <2>2, <2>5 DEF Keep
<1>3. ASSUME NEW w \in Wait, CancelAsk(w) PROVE Keep
  BY <1>0, <1>1, <1>3, ResolveWaits, SameInputs DEF CancelAsk, Keep
<1>4. ASSUME NEW r \in Run, RemoveInput(r) \/ ResendInput(r) PROVE Keep
  <2>1. WaitsKeepRuns
    BY <1>4, SameWaits DEF RemoveInput, ResendInput
  <2>2. PICK i \in DOMAIN input[r], st \in {"cancelled", "queued"} : SetInput(r, i, st)
    BY <1>4 DEF RemoveInput, ResendInput
  <2>3. QED
    BY <1>0, <1>1, <2>1, <2>2, SetInputs DEF Keep
<1>5. QED
  BY <1>2, <1>3, <1>4

LEMMA ExecutionKeeps ==
    ASSUME TurnInv, NEW t \in Task,
           \/ StartRunTurn(t) \/ SkipRunTurn(t) \/ StopTurn(t) \/ EndTurn(t)
           \/ FinalizeTurn(t) \/ \E user \in BOOLEAN : StartChatTurn(t, user)
    PROVE  Keep
<1>0. StoreTypeOK /\ TurnTypeOK /\ turn[t] \in TurnRow
  BY TurnRowTypes DEF TurnInv, RowInv
<1>1. WaitsKeepRuns /\ InputsKeepWaits
  BY <1>0, SameWaits, SameInputs, SupersedeKeeps
  DEF StartRunTurn, SkipRunTurn, StopTurn, EndTurn, FinalizeTurn, StartChatTurn, store
<1>2. ASSUME NEW row, turn' = [turn EXCEPT ![t] = row], row.run = turn[t].run,
             row.pc # "deciding"
      PROVE  Keep
  BY <1>0, <1>1, <1>2, TurnKeeps DEF Keep
<1>3. CASE StartRunTurn(t)
  <2>1. PICK c : turn' = [turn EXCEPT ![t].pc = "executing", ![t].coord = c]
    BY <1>3 DEF StartRunTurn
  <2> DEFINE row == [turn[t] EXCEPT !.pc = "executing", !.coord = c]
  <2>2. turn' = [turn EXCEPT ![t] = row] /\ row.run = turn[t].run /\ row.pc = "executing"
    BY <1>0, <2>1 DEF TurnRow, TurnTypeOK
  <2> HIDE DEF row
  <2>3. QED
    BY <1>2, <2>2
<1>4. CASE SkipRunTurn(t)
  <2> DEFINE row == [turn[t] EXCEPT !.pc = "closing", !.out = "cancelled"]
  <2>1. turn' = [turn EXCEPT ![t] = row] /\ row.run = turn[t].run /\ row.pc = "closing"
    BY <1>0, <1>4 DEF TurnRow, TurnTypeOK, SkipRunTurn
  <2> HIDE DEF row
  <2>2. QED
    BY <1>2, <2>1
<1>5. CASE StopTurn(t)
  <2> DEFINE row == [turn[t] EXCEPT !.aborted = TRUE]
  <2>1. turn' = [turn EXCEPT ![t] = row] /\ row.run = turn[t].run /\ row.pc = "executing"
    BY <1>0, <1>5 DEF TurnRow, TurnTypeOK, StopTurn
  <2> HIDE DEF row
  <2>2. QED
    BY <1>2, <2>1
<1>6. CASE EndTurn(t)
  <2>1. PICK pc \in {"finalizing", "judging"},
            res \in {"succeeded", "failed", "cancelled"},
            out \in {"completed", "suspended", "failed", "cancelled"} :
            Ended(t, res, out, pc)
    BY <1>6 DEF EndTurn, FinishedInput, InputStatus
  <2> DEFINE row == [turn[t] EXCEPT !.pc = pc, !.res = res, !.out = out, !.ask = NoWait,
                                    !.aborted = FALSE]
  <2>2. turn' = [turn EXCEPT ![t] = row] /\ row.run = turn[t].run /\ row.pc = pc
    BY <1>0, <2>1 DEF TurnRow, TurnTypeOK, Ended
  <2> HIDE DEF row
  <2>3. QED
    BY <1>2, <2>1, <2>2
<1>7. CASE FinalizeTurn(t)
  <2> DEFINE row == [turn[t] EXCEPT !.pc = "closing", !.coord = NoRun, !.res = "failed"]
  <2>1. turn' = [turn EXCEPT ![t] = row] /\ row.run = turn[t].run /\ row.pc = "closing"
    BY <1>0, <1>7 DEF TurnRow, TurnTypeOK, FinalizeTurn
  <2> HIDE DEF row
  <2>2. QED
    BY <1>2, <2>1
<1>8. ASSUME NEW user \in BOOLEAN, StartChatTurn(t, user) PROVE Keep
  <2>1. PICK c : \/ turn' = [turn EXCEPT ![t].pc = "executing", ![t].coord = c]
                 \/ turn' = [turn EXCEPT ![t].pc = "executing"]
    BY <1>8 DEF StartChatTurn, To
  <2> DEFINE row == [turn[t] EXCEPT !.pc = "executing", !.coord = c]
             alt == [turn[t] EXCEPT !.pc = "executing"]
  <2>2. turn' = [turn EXCEPT ![t] = row] \/ turn' = [turn EXCEPT ![t] = alt]
    BY <1>0, <2>1 DEF TurnTypeOK
  <2>3. row.run = turn[t].run /\ row.pc = "executing"
    BY <1>0 DEF TurnRow
  <2>4. alt.run = turn[t].run /\ alt.pc = "executing"
    BY <1>0 DEF TurnRow
  <2> HIDE DEF row, alt
  <2>5. QED
    BY <1>2, <2>2, <2>3, <2>4
<1>9. QED
  BY <1>3, <1>4, <1>5, <1>6, <1>7, <1>8

LEMMA JudgeKeeps ==
    ASSUME TurnInv, NEW t \in Task,
           \/ JudgeReads(t) \/ JudgeNeedsUser(t) \/ JudgeContinues(t) \/ JudgeGivesUp(t)
           \/ \E passed \in BOOLEAN : JudgeCompletes(t, passed)
    PROVE  Keep
<1>0. StoreTypeOK /\ TurnTypeOK /\ turn[t] \in TurnRow
  BY TurnRowTypes DEF TurnInv, RowInv
<1>1. InputsKeepWaits
  BY SameInputs
  DEF JudgeReads, JudgeNeedsUser, JudgeContinues, JudgeGivesUp, JudgeCompletes, store
<1>2. ASSUME Judged(t) PROVE TurnsKeepRuns /\ JudgesKeepVersions
  <2> DEFINE row == [turn[t] EXCEPT !.pc = "finalizing", !.held = NoRun, !.version = 0]
  <2>1. turn' = [turn EXCEPT ![t] = row] /\ row.run = turn[t].run /\ row.pc = "finalizing"
    BY <1>0, <1>2 DEF TurnRow, TurnTypeOK, Judged
  <2> HIDE DEF row
  <2>2. QED
    BY <1>0, <2>1, TurnKeeps
<1>3. CASE JudgeReads(t)
  <2>1. WaitsKeepRuns /\ UNCHANGED <<run, receipt>>
    BY <1>3, SameWaits DEF JudgeReads, store
  <2>2. CASE To(t, "finalizing")
    <3> DEFINE row == [turn[t] EXCEPT !.pc = "finalizing"]
    <3>1. turn' = [turn EXCEPT ![t] = row] /\ row.run = turn[t].run /\ row.pc = "finalizing"
      BY <1>0, <2>2 DEF TurnRow, TurnTypeOK, To
    <3> HIDE DEF row
    <3>2. QED
      BY <1>0, <1>1, <2>1, <3>1, TurnKeeps DEF Keep
  <2>3. ASSUME NEW r \in ActiveRoots(t), run[r].status = "running",
               turn' = [turn EXCEPT ![t].pc = "deciding", ![t].held = r,
                                    ![t].version = run[r].version]
        PROVE  Keep
    <3>1. /\ turn'[t].run = turn[t].run /\ turn'[t].held = r
          /\ turn'[t].version = run[r].version
          /\ \A u \in Task \ {t} : turn'[u] = turn[u]
      BY <1>0, <2>3 DEF TurnTypeOK, TurnRow
    <3>2. TurnsKeepRuns
      BY <3>1 DEF TurnsKeepRuns
    <3>3. JudgesKeepVersions
      BY <2>1, <2>3, <3>1 DEF JudgesKeepVersions
    <3>4. QED
      BY <1>1, <2>1, <3>2, <3>3 DEF Keep
  <2>4. QED
    BY <1>3, <2>2, <2>3 DEF JudgeReads
<1>4. CASE JudgeNeedsUser(t)
  <2>1. turn[t].held \in Run /\ TaskOf[turn[t].held] = t
    BY <1>4 DEF JudgeNeedsUser, TurnInv, JudgesHoldVersions
  <2>2. PICK w \in Wait :
          FreshWait(t, w) /\ wait' = [wait EXCEPT ![w] = NewTaskWait("hold", turn[t].held)]
    BY <1>4 DEF JudgeNeedsUser
  <2>3. /\ NewTaskWait("hold", turn[t].held) \in WaitRow
        /\ NewTaskWait("hold", turn[t].held).run = turn[t].held
    BY <1>0, <2>1, NewWaitTypes DEF NewTaskWait, NewWait
  <2>4. WaitsKeepRuns
    BY <1>0, <2>1, <2>2, <2>3, FreshWaits
  <2>5. QED
    BY <1>1, <1>2, <1>4, <2>4 DEF JudgeNeedsUser, Keep
<1>5. CASE \/ JudgeContinues(t) \/ JudgeGivesUp(t)
           \/ \E passed \in BOOLEAN : JudgeCompletes(t, passed)
  BY <1>1, <1>2, <1>5, SameWaits DEF JudgeContinues, JudgeGivesUp, JudgeCompletes, store, Keep
<1>6. QED
  BY <1>3, <1>4, <1>5

LEMMA TurnNextKeeps ==
    ASSUME TurnInv, TurnNext
    PROVE  Keep
  BY AskKeeps, QueueKeeps, ClarificationKeeps, ExecutionKeeps, JudgeKeeps
  DEF TurnNext, TurnStep, TakeInput, SendInput

-----------------------------------------------------------------------------
(* The invariant is inductive.                                             *)

\* What a single step of a single Run means for the rows.
LEMMA RowsKeep ==
    ASSUME IInv, TypeOK', OneRunSteps
    PROVE  AbsentIsNew' /\ LeaseSound' /\ ReceiptMatches' /\ OneActiveRun'
<1>1. ASSUME NEW r \in Run PROVE Same(r) \/ Steps(r)
  BY <1>1 DEF OneRunSteps
<1>2. AbsentIsNew'
  BY <1>1 DEF AbsentIsNew, Same, Steps, Begins, Keeps, Moves, Ends, Lifecycle!Moves, Terminal,
              IInv
<1>3. LeaseSound'
  <2>1. \A r \in Run : LeaseOK(run'[r])
    BY <1>1, LeaseRows DEF Same, Steps, Begins, Keeps, Moves, Ends, IInv
  <2>2. QED
    BY <2>1 DEF LeaseOK, LeaseSound
<1>4. ReceiptMatches'
  BY <1>1 DEF ReceiptMatches, Same, Steps, Begins, Keeps, Moves, Ends, Lifecycle!Moves,
              Terminal, Active, ActiveRunStatuses, IInv
<1>5. OneActiveRun'
  <2> SUFFICES ASSUME NEW r \in Run, NEW q \in Run, Active(r)', Active(q)',
                      TaskOf[r] = TaskOf[q], r # q
               PROVE  FALSE
    BY DEF OneActiveRun
  <2>1. ASSUME NEW p \in Run, Active(p)'
        PROVE  Active(p) \/ Begins(p)
    BY <1>1, <2>1 DEF Active, ActiveRunStatuses, Same, Steps, Keeps, Moves, Ends,
                      Lifecycle!Moves, Terminal
  <2>2. ASSUME NEW p \in Run, NEW o \in Run, p # o, TaskOf[p] = TaskOf[o],
               Begins(p), Active(o)'
        PROVE  FALSE
    <3>1. ~Same(p)
      BY <2>2 DEF Same, Begins
    <3>2. Same(o)
      BY <2>2, <3>1 DEF OneRunSteps
    <3>3. Active(o)
      BY <2>2, <3>2 DEF Same, Active
    <3>4. o \in ActiveRoots(TaskOf[p])
      BY <2>2, <3>3 DEF ActiveRoots
    <3>5. QED
      BY <2>2, <3>4 DEF Begins
  <2>3. Active(r) /\ Active(q)
    BY <2>1, <2>2
  <2>4. QED
    BY <2>3 DEF IInv, OneActiveRun
<1>6. QED
  BY <1>2, <1>3, <1>4, <1>5

LEMMA JudgesKeep ==
    ASSUME IInv, TypeOK', OneRunSteps, JudgesKeepVersions
    PROVE  JudgesHoldVersions'
<1> SUFFICES ASSUME NEW t \in Task, turn'[t].pc = "deciding"
             PROVE  /\ turn'[t].held \in Run
                    /\ TaskOf[turn'[t].held] = t
                    /\ turn'[t].version <= run'[turn'[t].held].version
                    /\ turn'[t].version = run'[turn'[t].held].version
                          => run'[turn'[t].held].status = "running"
  BY DEF JudgesHoldVersions
<1> DEFINE h == turn'[t].held
           v == turn'[t].version
<1>1. \A r \in Run : run[r].version \in Nat /\ run'[r].version \in Nat
  BY DEF IInv, TypeOK, StoreTypeOK, RunRow
<1>2. v \in Nat
  BY DEF TypeOK, TurnTypeOK, TurnRow
<1>3. CASE turn[t].pc = "deciding" /\ h = turn[t].held /\ v = turn[t].version
  <2>1. /\ h \in Run /\ TaskOf[h] = t
        /\ v <= run[h].version
        /\ v = run[h].version => run[h].status = "running"
    BY <1>3 DEF IInv, JudgesHoldVersions
  <2> HIDE DEF h, v
  <2>2. Same(h) \/ Steps(h)
    BY <2>1 DEF OneRunSteps
  <2>3. ASSUME Same(h) \/ Keeps(h)
        PROVE  /\ v <= run'[h].version
               /\ v = run'[h].version => run'[h].status = "running"
    BY <1>1, <1>2, <2>1, <2>3 DEF Same, Keeps
  <2>4. ASSUME Moves(h) \/ Ends(h)
        PROVE  v < run'[h].version
    BY <1>1, <1>2, <2>1, <2>4 DEF Moves, Ends
  <2>5. ~Begins(h)
    <3>1. Begins(h) => run[h].version = 0 /\ run[h].status = "absent"
      BY <2>1 DEF Begins, IInv, AbsentIsNew, NewRun
    <3>2. QED
      BY <1>2, <2>1, <3>1
  <2>6. v <= run'[h].version /\ (v = run'[h].version => run'[h].status = "running")
    BY <1>1, <1>2, <2>1, <2>2, <2>3, <2>4, <2>5 DEF Steps
  <2>7. QED
    BY <2>1, <2>6 DEF h, v
<1>4. CASE /\ UNCHANGED <<run, receipt>>
           /\ h \in ActiveRoots(t)
           /\ run[h].status = "running"
           /\ v = run[h].version
  <2>1. h \in Run /\ TaskOf[h] = t
    BY <1>4 DEF ActiveRoots
  <2>2. v <= run'[h].version
    BY <1>1, <1>2, <1>4, <2>1
  <2>3. QED
    BY <1>4, <2>1, <2>2
<1>5. QED
  BY <1>3, <1>4 DEF JudgesKeepVersions

LEMMA OwnersKeep ==
    ASSUME IInv, TypeOK', Keep
    PROVE  WaitsHoldOwnRuns' /\ TurnsHoldOwnRuns' /\ InputsHoldOwnWaits'
<1>1. WaitsHoldOwnRuns'
  BY DEF IInv, Keep, WaitsHoldOwnRuns, WaitsKeepRuns
<1>2. TurnsHoldOwnRuns'
  BY DEF IInv, Keep, TurnsHoldOwnRuns, TurnsKeepRuns
<1>3. InputsHoldOwnWaits'
  <2> SUFFICES ASSUME NEW r \in Run, NEW i \in DOMAIN input'[r],
                      input'[r][i].wait # NoWait
               PROVE  wait'[input'[r][i].wait].run = r
    BY DEF InputsHoldOwnWaits
  <2> DEFINE v == input'[r][i].wait
  <2>1. v \in Wait
    <3>1. input'[r] \in Seq(InputRow)
      BY DEF TypeOK, StoreTypeOK
    <3>2. input'[r][i] \in InputRow
      BY <3>1, LenProperties, ElementOfSeq
    <3>3. QED
      BY <3>2 DEF InputRow
  <2>2. wait[v].run = r
    BY DEF Keep, InputsKeepWaits, IInv, InputsHoldOwnWaits
  <2>3. r # NoRun
    BY StoreAssumption
  <2> HIDE DEF v
  <2>4. wait'[v].run = r
    BY <2>1, <2>2, <2>3 DEF Keep, WaitsKeepRuns
  <2>5. QED
    BY <2>4 DEF v
<1>4. QED
  BY <1>1, <1>2, <1>3

\* A restart: rows stay, deliveries are interrupted, memory is as at first.
LEMMA RestartKeeps ==
    ASSUME IInv, Restart
    PROVE  TypeOK' /\ SlotsHoldRuns' /\ Keep /\ OneRunSteps
<1>0. StoreTypeOK /\ DispatchTypeOK /\ TurnTypeOK
  BY DEF IInv, TypeOK
<1>1. UNCHANGED <<task, run, receipt, wait, queue>>
  BY DEF Restart, RestartDispatcher
<1>2. ASSUME NEW r \in Run
      PROVE  /\ DOMAIN input'[r] = DOMAIN input[r]
             /\ input'[r] \in Seq(InputRow)
             /\ \A i \in DOMAIN input[r] : input'[r][i].wait = input[r][i].wait
  <2>1. input[r] \in Seq(InputRow)
    BY <1>0 DEF StoreTypeOK
  <2>2. DOMAIN input[r] = 1..Len(input[r]) /\ Len(input[r]) \in Nat
    BY <2>1, LenProperties
  <2>3. ASSUME NEW i \in DOMAIN input[r]
        PROVE  /\ [input[r][i] EXCEPT !.status = "interrupted"] \in InputRow
               /\ [input[r][i] EXCEPT !.status = "interrupted"].wait = input[r][i].wait
               /\ input[r][i] \in InputRow
    <3>1. input[r][i] \in InputRow
      BY <2>1, <2>3, LenProperties, ElementOfSeq
    <3>2. QED
      BY <3>1 DEF InputRow, InputStatus
  <2>4. input'[r] = [i \in DOMAIN input[r] |->
           IF input[r][i].status = "running"
           THEN [input[r][i] EXCEPT !.status = "interrupted"] ELSE input[r][i]]
    BY DEF Restart, RestartDispatcher
  <2>5. input'[r] \in [1..Len(input[r]) -> InputRow]
    BY <2>2, <2>3, <2>4
  <2>6. input'[r] \in Seq(InputRow)
    BY <2>2, <2>5, FunctionIsSeq
  <2>7. QED
    BY <2>3, <2>4, <2>6
<1>3. TypeOK'
  <2>1. input' \in [Run -> Seq(InputRow)]
    BY <1>2 DEF Restart, RestartDispatcher
  <2>2. StoreTypeOK'
    BY <1>0, <1>1, <2>1 DEF StoreTypeOK
  <2>3. restarts' \in 0..MaxRestarts
    BY <1>0, DispatchAssumption DEF Restart, RestartDispatcher, DispatchTypeOK
  <2>4. DispatchTypeOK'
    BY <2>3, NewRowTypes DEF Restart, RestartDispatcher, DispatchTypeOK
  <2>5. TurnTypeOK'
    BY <1>0, <1>1, NewRowTypes DEF Restart, TurnTypeOK
  <2>6. QED
    BY <2>2, <2>4, <2>5 DEF TypeOK
<1>4. SlotsHoldRuns'
  BY DEF Restart, RestartDispatcher, SlotsHoldRuns, IdleSlot
<1>5. Keep
  <2>1. InputsKeepWaits
    BY <1>2 DEF InputsKeepWaits
  <2>2. TurnsKeepRuns /\ JudgesKeepVersions
    BY DEF Restart, IdleTurn, TurnsKeepRuns, JudgesKeepVersions
  <2>3. QED
    BY <1>1, <2>1, <2>2, SameWaits DEF Keep
<1>6. QED
  BY <1>1, <1>3, <1>4, <1>5, NoRunSteps

\* Every step, and what it keeps.
LEMMA StepKeeps ==
    ASSUME IInv, Next
    PROVE  TypeOK' /\ SlotsHoldRuns' /\ Keep /\ OneRunSteps
<1>0. RowInv /\ TurnInv /\ StoreTypeOK /\ DispatchTypeOK /\ TurnTypeOK /\ SlotsHoldRuns
  BY DEF IInv, TypeOK, RowInv, TurnInv
<1>1. JudgesHoldRuns
  BY <1>0 DEF TurnInv, JudgesHoldVersions, JudgesHoldRuns
<1>2. CASE Command
  <2>1. CommandNext /\ UNCHANGED <<slot, activeIds, stopped, restarts, turn, queue>>
    BY <1>2 DEF Command, memory
  <2>2. StoreTypeOK' /\ Keep /\ OneRunSteps
    BY <1>0, <2>1, CommandTypes, CommandKeeps, CommandSteps
  <2>3. TypeOK' /\ SlotsHoldRuns'
    BY <1>0, <2>1, <2>2 DEF TypeOK, DispatchTypeOK, TurnTypeOK, SlotsHoldRuns
  <2>4. QED
    BY <2>2, <2>3
<1>3. CASE Dispatch
  <2>1. DispatchNext /\ UNCHANGED <<turn, queue>>
    BY <1>3 DEF Dispatch
  <2>2. StoreTypeOK' /\ DispatchTypeOK' /\ SlotsHoldRuns' /\ Keep /\ OneRunSteps
    BY <1>0, <2>1, DispatchTypes, DispatchKeeps, DispatchSteps
  <2>3. TurnTypeOK'
    BY <1>0, <2>1 DEF TurnTypeOK
  <2>4. QED
    BY <2>2, <2>3 DEF TypeOK
<1>4. CASE Converse
  <2>1. TurnNext /\ UNCHANGED <<slot, activeIds, stopped, restarts>>
    BY <1>4 DEF Converse, memory
  <2>2. StoreTypeOK' /\ TurnTypeOK' /\ Keep /\ OneRunSteps
    BY <1>0, <1>1, <2>1, TurnTypes, TurnNextKeeps, TurnSteps
  <2>3. DispatchTypeOK' /\ SlotsHoldRuns'
    BY <1>0, <2>1 DEF DispatchTypeOK, SlotsHoldRuns
  <2>4. QED
    BY <2>2, <2>3 DEF TypeOK
<1>5. CASE Restart
  BY <1>5, RestartKeeps
<1>6. QED
  BY <1>2, <1>3, <1>4, <1>5 DEF Next

LEMMA StutterKeeps ==
    ASSUME IInv, UNCHANGED vars
    PROVE  IInv'
  BY DEF vars, IInv, TypeOK, StoreTypeOK, DispatchTypeOK, TurnTypeOK, SlotsHoldRuns,
     WaitsHoldOwnRuns, TurnsHoldOwnRuns, InputsHoldOwnWaits, JudgesHoldVersions, AbsentIsNew,
     LeaseSound, ReceiptMatches, OneActiveRun, Active

LEMMA IInvInit == Init => IInv
<1> SUFFICES ASSUME Init PROVE IInv
  OBVIOUS
<1>1. TypeOK
  BY TypeInit
<1>2. /\ \A r \in Run : run[r] = NewRun /\ receipt[r] = "none" /\ input[r] = <<>>
      /\ \A w \in Wait : wait[w] = NewWait
      /\ \A t \in Task : turn[t] = IdleTurn
      /\ \A s \in Slot : slot[s] = IdleSlot
  BY DEF Init, StoreInit, DispatchInit, TurnInit
<1>3. SlotsHoldRuns /\ WaitsHoldOwnRuns /\ TurnsHoldOwnRuns /\ JudgesHoldVersions
  BY <1>2 DEF SlotsHoldRuns, WaitsHoldOwnRuns, TurnsHoldOwnRuns, JudgesHoldVersions,
     IdleSlot, IdleTurn, NewWait
<1>4. InputsHoldOwnWaits
  BY <1>2 DEF InputsHoldOwnWaits
<1>5. AbsentIsNew /\ LeaseSound /\ ReceiptMatches /\ OneActiveRun
  <2>1. NewRun.status = "absent" /\ NewRun.owner = NoSlot /\ NewRun.lease = "none"
    BY DEF NewRun
  <2>2. LeaseSound
    BY <1>2, <2>1 DEF LeaseSound
  <2>3. ReceiptMatches
    BY <1>2, <2>1 DEF ReceiptMatches, Terminal
  <2>4. OneActiveRun
    BY <1>2, <2>1 DEF OneActiveRun, Active, ActiveRunStatuses
  <2>5. AbsentIsNew
    BY <1>2 DEF AbsentIsNew
  <2>6. QED
    BY <2>2, <2>3, <2>4, <2>5
<1>6. QED
  BY <1>1, <1>3, <1>4, <1>5 DEF IInv

LEMMA IInvStep == IInv /\ [Next]_vars => IInv'
<1> SUFFICES ASSUME IInv, [Next]_vars PROVE IInv'
  OBVIOUS
<1>1. CASE Next
  <2>1. TypeOK' /\ SlotsHoldRuns' /\ Keep /\ OneRunSteps
    BY <1>1, StepKeeps
  <2>2. JudgesKeepVersions
    BY <2>1 DEF Keep
  <2>3. QED
    BY <2>1, <2>2, RowsKeep, JudgesKeep, OwnersKeep DEF IInv
<1>2. CASE UNCHANGED vars
  BY <1>2, StutterKeeps
<1>3. QED
  BY <1>1, <1>2

\* The invariant holds in every state, whatever commands, slots, turns,
\* answers and restarts interleave.
THEOREM Invariant == Spec => []IInv
<1>1. IInv /\ [Next]_vars => IInv'
  BY IInvStep
<1>2. QED
  BY IInvInit, <1>1, PTL DEF Spec

-----------------------------------------------------------------------------
(* What the checks ask of small instances, for all of them.                *)

\* Rows and memory keep their types; in particular no Run is continued more
\* often than maxAttempts allows (scheduleContinuation).
THEOREM TypeInvariant == Spec => []TypeOK
<1>1. IInv => TypeOK
  BY DEF IInv
<1>2. QED
  BY Invariant, <1>1, PTL

\* However many commands, signals and chat turns look for an active Run before
\* they create one, a Task never has two (create, getActiveRoot).
THEOREM OneActiveRunPerTask == Spec => []OneActiveRun
<1>1. IInv => OneActiveRun
  BY DEF IInv
<1>2. QED
  BY Invariant, <1>1, PTL

\* A Run has a receipt exactly when it has ended, and the receipt says how it
\* ended, whichever path finalized it (finalize, CANCELLED_ACTIVE_RUNS).
THEOREM ReceiptsMatch == Spec => []ReceiptMatches
<1>1. IInv => ReceiptMatches
  BY DEF IInv
<1>2. QED
  BY Invariant, <1>1, PTL

\* No Run is leased that cannot execute, and no lease lacks its owner
\* (claimNext, setStatus, scheduleContinuation, finalize).
THEOREM LeasesSound == Spec => []LeaseSound
<1>1. IInv => LeaseSound
  BY DEF IInv
<1>2. QED
  BY Invariant, <1>1, PTL

\* An ended Run is final: no late judge, poll, answer or receipt changes it.
THEOREM EndedRunsStay == Spec => TerminalStable
<1> DEFINE Stays == \A r \in Run : run[r].status \in Terminal =>
                       run'[r] = run[r] /\ receipt'[r] = receipt[r]
<1>1. IInv /\ [Next]_vars => Stays
  <2> SUFFICES ASSUME IInv, [Next]_vars PROVE Stays
    OBVIOUS
  <2>1. CASE Next
    <3>1. OneRunSteps
      BY <2>1, StepKeeps
    <3>2. \A r \in Run : Same(r) \/ Steps(r)
      BY <3>1 DEF OneRunSteps
    <3>3. \A r \in Run : run[r].status \in Terminal => ~Steps(r)
      BY DEF Steps, Begins, Keeps, Moves, Ends, Lifecycle!Moves, Terminal, Active,
             ActiveRunStatuses
    <3>4. QED
      BY <3>2, <3>3 DEF Same
  <2>2. CASE UNCHANGED vars
    BY <2>2 DEF vars
  <2>3. QED
    BY <2>1, <2>2
<1>2. TerminalStable <=> [][Stays]_vars
  BY DEF TerminalStable
<1> HIDE DEF Stays
<1>3. QED
  BY Invariant, <1>1, <1>2, PTL DEF Spec

-----------------------------------------------------------------------------
(* One question per conversation.  Only Ask opens a question, and it first  *)
(* closes whatever the conversation still asks.                            *)

Asking(w)   == wait[w].clar \in {"open", "queued"}
AsksNoMore  == \A w \in Wait : Asking(w)' => Asking(w)
AsksAnew(t) == \E v \in Wait :
    /\ WaitOf[v] = t
    /\ \A w \in Wait \ {v} : Asking(w)' => Asking(w) /\ WaitOf[w] # t
OneAskSteps == AsksNoMore \/ \E t \in Task : AsksAnew(t)

LEMMA SingleAskStep ==
    ASSUME SingleAsk, OneAskSteps
    PROVE  SingleAsk'
  BY DEF SingleAsk, OneAskSteps, AsksNoMore, AsksAnew, Asking

LEMMA SameAsks == UNCHANGED wait => AsksNoMore
  BY DEF AsksNoMore, Asking

LEMMA ResolvedAsks ==
    ASSUME StoreTypeOK, NEW W
    PROVE  /\ \A w \in Wait : Resolve(W)[w].clar = wait[w].clar
           /\ \A w \in Wait : ClosedAsk(W)[w].clar =
                                  IF w \in W THEN "closed" ELSE wait[w].clar
<1>1. ASSUME NEW w \in Wait
      PROVE  /\ Resolve(W)[w].clar = wait[w].clar
             /\ ClosedAsk(W)[w].clar = IF w \in W THEN "closed" ELSE wait[w].clar
  <2>1. wait[w] \in WaitRow
    BY DEF StoreTypeOK
  <2>2. Resolve(W)[w].clar = wait[w].clar /\ Resolve(W)[w] \in WaitRow
    BY <2>1, ResolveTypes DEF Resolve, WaitRow
  <2>3. QED
    BY <2>1, <2>2 DEF ClosedAsk, WaitRow
<1>2. QED
  BY <1>1

LEMMA ClosedAsks ==
    ASSUME StoreTypeOK, NEW W, wait' = Resolve(W) \/ wait' = ClosedAsk(W)
    PROVE  AsksNoMore
  BY ResolvedAsks DEF AsksNoMore, Asking

LEMMA TaskWaitAsks ==
    ASSUME NEW kind, NEW r
    PROVE  NewTaskWait(kind, r).clar = "none"
  BY DEF NewTaskWait, NewWait

LEMMA FreshAsks ==
    ASSUME StoreTypeOK, NEW v \in Wait, NEW kind, NEW r,
           wait' = [wait EXCEPT ![v] = NewTaskWait(kind, r)]
    PROVE  AsksNoMore
  BY TaskWaitAsks DEF AsksNoMore, Asking, StoreTypeOK

LEMMA CreateOrBlockAsks ==
    ASSUME NEW t, NEW user, NEW rows, CreateOrBlock(t, user, rows),
           \A w \in Wait : rows[w].clar = wait[w].clar
    PROVE  AsksNoMore
<1>1. CASE wait' = rows
  BY <1>1 DEF AsksNoMore, Asking
<1>2. CASE Blocked(t, rows)
  BY <1>2, TaskWaitAsks DEF Blocked, AsksNoMore, Asking
<1>3. QED
  BY <1>1, <1>2 DEF CreateOrBlock

LEMMA CommandAsks ==
    ASSUME StoreTypeOK, CommandNext
    PROVE  AsksNoMore
<1>1. ASSUME NEW t \in Task, AddWait(t) PROVE AsksNoMore
  BY <1>1, FreshAsks DEF AddWait
<1>2. ASSUME NEW w \in Wait, DenyApproval(w) PROVE AsksNoMore
  BY <1>2, FreshAsks, SameAsks DEF DenyApproval
<1>3. ASSUME NEW t \in Task, NEW user \in BOOLEAN, Start(t, user) PROVE AsksNoMore
  BY <1>3, CreateOrBlockAsks DEF Start
<1>4. ASSUME NEW w \in Wait, ResolveWait(w) \/ Signal(w) PROVE AsksNoMore
  <2>1. \/ wait' = Resolve({w})
        \/ \E user \in BOOLEAN : CreateOrBlock(WaitOf[w], user, Resolve({w}))
    BY <1>4 DEF ResolveWait, Signal
  <2>2. QED
    BY <2>1, ResolvedAsks, ClosedAsks, CreateOrBlockAsks
<1>5. ASSUME NEW t \in Task, CancelTask(t) PROVE AsksNoMore
  BY <1>5, ClosedAsks DEF CancelTask
<1>6. ASSUME \/ \E t \in Task : ReviseContract(t)
             \/ \E t \in Task, user \in BOOLEAN : ChangePhase(t, user)
             \/ \E r \in Run : CancelRun(r)
      PROVE  AsksNoMore
  BY <1>6, SameAsks DEF ReviseContract, ChangePhase, CancelRun
<1>7. QED
  BY <1>1, <1>2, <1>3, <1>4, <1>5, <1>6 DEF CommandNext

LEMMA DispatchAsks ==
    ASSUME StoreTypeOK, DispatchNext
    PROVE  AsksNoMore
  BY SameAsks, ClosedAsks DEF DispatchNext, SlotNext, Claim, Prepare, PrepareFails, Submit,
     SubmitFails, Poll, RunAgentReturns, HeartbeatLost, Reconcile, ReconcileExpired,
     ReconcileCancelled, LeaseExpires, Stop, store

\* The question that is asked anew finds every other of its conversation closed.
LEMMA AskAsks ==
    ASSUME StoreTypeOK, NEW t \in Task, Ask(t)
    PROVE  AsksAnew(t)
<1>1. PICK v \in Wait :
        FreshWait(t, v) /\ \E row : wait' = [ClosedAsk(ActiveAsk(t)) EXCEPT ![v] = row]
  BY DEF Ask
<1>2. ClosedAsk(ActiveAsk(t)) \in [Wait -> WaitRow]
  BY ClosedAskTypes
<1>3. \A w \in Wait \ {v} : wait'[w] = ClosedAsk(ActiveAsk(t))[w]
  BY <1>1, <1>2
<1>4. \A w \in Wait \ {v} :
         wait'[w].clar = IF w \in ActiveAsk(t) THEN "closed" ELSE wait[w].clar
  BY <1>3, ResolvedAsks
<1>5. QED
  BY <1>1, <1>4 DEF FreshWait, ActiveAsk, AsksAnew, Asking

LEMMA TurnAsks ==
    ASSUME StoreTypeOK, TurnNext
    PROVE  OneAskSteps
<1>1. ASSUME NEW t \in Task, Ask(t) PROVE OneAskSteps
  BY <1>1, AskAsks DEF OneAskSteps
<1>2. ASSUME NEW w \in Wait, Answer(w) PROVE AsksNoMore
  BY <1>2 DEF Answer, AsksNoMore, Asking, StoreTypeOK, WaitRow
<1>3. ASSUME NEW t \in Task, JudgeNeedsUser(t) PROVE AsksNoMore
  BY <1>3, FreshAsks DEF JudgeNeedsUser
<1>4. ASSUME \/ \E w \in Wait : CancelAsk(w)
             \/ \E t \in Task : StopTurn(t) \/ ChatMessage(t) \/ PreflightPasses(t)
      PROVE  AsksNoMore
  BY <1>4, SameAsks, ClosedAsks DEF CancelAsk, StopTurn, ChatMessage, PreflightPasses, Supersede
<1>5. ASSUME NEW t \in Task,
             \/ ClaimInput(t) \/ PauseQueue(t) \/ ResumeQueue(t) \/ StartRunTurn(t)
             \/ SkipRunTurn(t) \/ EndTurn(t) \/ FinalizeTurn(t) \/ CloseTurn(t)
             \/ \E user \in BOOLEAN : StartChatTurn(t, user)
      PROVE  AsksNoMore
  BY <1>5, SameAsks DEF ClaimInput, PauseQueue, ResumeQueue, StartRunTurn, SkipRunTurn,
     EndTurn, FinalizeTurn, CloseTurn, StartChatTurn, store
<1>6. ASSUME NEW t \in Task,
             \/ JudgeReads(t) \/ JudgeContinues(t) \/ JudgeGivesUp(t)
             \/ \E passed \in BOOLEAN : JudgeCompletes(t, passed)
      PROVE  AsksNoMore
  BY <1>6, SameAsks DEF JudgeReads, JudgeContinues, JudgeGivesUp, JudgeCompletes, store
<1>7. ASSUME NEW r \in Run, RemoveInput(r) \/ ResendInput(r) PROVE AsksNoMore
  BY <1>7, SameAsks DEF RemoveInput, ResendInput
<1>8. ASSUME NEW t \in Task, PreflightFails(t) PROVE AsksNoMore
  BY <1>8, SameAsks, ReopenedWaits DEF PreflightFails, AsksNoMore, Asking
<1>9. QED
  BY <1>1, <1>2, <1>3, <1>4, <1>5, <1>6, <1>7, <1>8
  DEF TurnNext, TurnStep, OneAskSteps, TakeInput, SendInput

\* A conversation has at most one clarification that may still resume a Run,
\* however questions, answers, messages, stops and restarts interleave
\* (createClarificationWait, supersedeActiveClarification).
THEOREM OneQuestion == Spec => []SingleAsk
<1>1. Init => SingleAsk
  BY DEF Init, StoreInit, NewWait, SingleAsk
<1>2. IInv /\ SingleAsk /\ [Next]_vars => SingleAsk'
  <2> SUFFICES ASSUME IInv, SingleAsk, [Next]_vars PROVE SingleAsk'
    OBVIOUS
  <2>0. StoreTypeOK
    BY DEF IInv, TypeOK
  <2>1. CASE Command
    BY <2>0, <2>1, CommandAsks, SingleAskStep DEF Command, OneAskSteps
  <2>2. CASE Dispatch
    BY <2>0, <2>2, DispatchAsks, SingleAskStep DEF Dispatch, OneAskSteps
  <2>3. CASE Converse
    BY <2>0, <2>3, TurnAsks, SingleAskStep DEF Converse
  <2>4. CASE Restart
    BY <2>4, SameAsks, SingleAskStep DEF Restart, RestartDispatcher, OneAskSteps
  <2>5. CASE UNCHANGED vars
    BY <2>5, SameAsks, SingleAskStep DEF vars, OneAskSteps
  <2>6. QED
    BY <2>1, <2>2, <2>3, <2>4, <2>5 DEF Next
<1>3. QED
  BY Invariant, <1>1, <1>2, PTL DEF Spec

-----------------------------------------------------------------------------
(* The refinement.                                                         *)

StatusOf == [r \in Run |-> run[r].status]

LEMMA StatusStep ==
    ASSUME IInv, TypeOK', NEW q \in Run, \A r \in Run \ {q} : Same(r)
    PROVE  /\ StatusOf' = [StatusOf EXCEPT ![q] = run'[q].status]
           /\ receipt' = [receipt EXCEPT ![q] = receipt'[q]]
  BY DEF StatusOf, Same, IInv, TypeOK, StoreTypeOK

\* One step of one Run is one step, or a stutter, of RunLifecycle.
LEMMA LifecycleStep ==
    ASSUME IInv, TypeOK', OneRunSteps
    PROVE  [Lifecycle!Next]_<<StatusOf, receipt>>
<1>0. /\ receipt \in [Run -> Terminal \cup {"none"}]
      /\ receipt' \in [Run -> Terminal \cup {"none"}]
  BY DEF IInv, TypeOK, StoreTypeOK
<1>1. CASE \A r \in Run : Same(r)
  BY <1>0, <1>1 DEF Same, StatusOf
<1>2. ASSUME NEW q \in Run, Steps(q), \A r \in Run \ {q} : Same(r)
      PROVE  [Lifecycle!Next]_<<StatusOf, receipt>>
  <2>1. /\ StatusOf' = [StatusOf EXCEPT ![q] = run'[q].status]
        /\ receipt' = [receipt EXCEPT ![q] = receipt'[q]]
    BY <1>2, StatusStep
  <2>2. \A r \in Run : StatusOf[r] = run[r].status
    BY DEF StatusOf
  <2>3. CASE Begins(q)
    <3>1. \A r \in Run : TaskOf[r] = TaskOf[q] => StatusOf[r] \notin Lifecycle!InFlight
      BY <2>2, <2>3 DEF Begins, ActiveRoots, Active, ActiveRunStatuses, Lifecycle!InFlight
    <3>2. UNCHANGED receipt
      BY <1>0, <2>1, <2>3 DEF Begins
    <3>3. Lifecycle!Begin(q)
      BY <2>1, <2>2, <2>3, <3>1, <3>2 DEF Begins, Lifecycle!Begin, StatusOf
    <3>4. QED
      BY <3>3 DEF Lifecycle!Next
  <2>4. CASE Keeps(q)
    <3>1. UNCHANGED receipt
      BY <1>0, <2>1, <2>4 DEF Keeps
    <3>2. UNCHANGED StatusOf
      BY <2>1, <2>2, <2>4 DEF Keeps, StatusOf
    <3>3. QED
      BY <3>1, <3>2
  <2>5. CASE Moves(q)
    <3>1. UNCHANGED receipt
      BY <1>0, <2>1, <2>5 DEF Moves
    <3>2. run'[q].status \in Lifecycle!InFlight
      BY <2>5 DEF Moves, Lifecycle!Moves, Lifecycle!InFlight
    <3>3. Lifecycle!Move(q)
      BY <2>1, <2>2, <2>5, <3>1, <3>2 DEF Moves, Lifecycle!Move, StatusOf
    <3>4. QED
      BY <3>3 DEF Lifecycle!Next
  <2>6. CASE Ends(q)
    <3>1. run'[q].status \in Lifecycle!Ended /\ StatusOf[q] \in Lifecycle!InFlight
      BY <2>2, <2>6 DEF Ends, Active, ActiveRunStatuses, Terminal, Lifecycle!Ended,
                        Lifecycle!InFlight
    <3>2. Lifecycle!End(q)
      BY <2>1, <2>6, <3>1 DEF Ends, Lifecycle!End, StatusOf
    <3>3. QED
      BY <3>2 DEF Lifecycle!Next
  <2>7. QED
    BY <1>2, <2>3, <2>4, <2>5, <2>6 DEF Steps
<1>3. QED
  BY <1>1, <1>2 DEF OneRunSteps

\* The engine implements the abstract life of a Run (RunLifecycle).
THEOREM Refinement == Spec => RefinesLifecycle
<1>1. Init => Lifecycle!Init
  BY DEF Init, StoreInit, Lifecycle!Init, NewRun
<1>2. IInv /\ [Next]_vars => [Lifecycle!Next]_<<StatusOf, receipt>>
  <2> SUFFICES ASSUME IInv, [Next]_vars PROVE [Lifecycle!Next]_<<StatusOf, receipt>>
    OBVIOUS
  <2>1. CASE Next
    BY <2>1, StepKeeps, LifecycleStep
  <2>2. CASE UNCHANGED vars
    BY <2>2 DEF vars, StatusOf
  <2>3. QED
    BY <2>1, <2>2
<1>3. QED
  BY Invariant, <1>1, <1>2, PTL DEF Spec, RefinesLifecycle, Lifecycle!Spec, StatusOf

-----------------------------------------------------------------------------
(* What a slot waits for.  An input is running exactly while the turn of its *)
(* Task's conversation delivers it, and an input that a slot polls exists.   *)

InputsHeld ==
    /\ \A r \in Run : (Running(r) # {}) = (turn[TaskOf[r]].run = r)
    /\ \A r \in Run : \A i, j \in Running(r) : i = j
    /\ \A t \in Task : turn[t].pc = "idle" => turn[t].run = NoRun
PollsExist == \A s \in Slot :
    slot[s].pc = "poll" => AgentInput(slot[s].run, slot[s].key) # {}

\* The input a slot polls has ended, is in the queue, or is being delivered by
\* a turn: a slot never waits for something nobody holds.
PollsHeld == \A s \in Slot : slot[s].pc = "poll" =>
    \E i \in AgentInput(slot[s].run, slot[s].key) :
       LET r == slot[s].run IN
       \/ input[r][i].status \in FinishedInput \cup {"queued"}
       \/ turn[TaskOf[r]].run = r /\ turn[TaskOf[r]].pc # "idle"

\* What a step does to the inputs, to the turns and to the slots
InputsStay == \A r \in Run : \A i \in DOMAIN input[r] :
    /\ i \in DOMAIN input'[r]
    /\ input'[r][i].key = input[r][i].key /\ input'[r][i].wait = input[r][i].wait
RunningsStay == \A r \in Run : Running(r)' = Running(r)
TurnsRest == \A t \in Task : /\ turn'[t].run = turn[t].run
                             /\ turn'[t].pc = "idle" => turn[t].pc = "idle"
PollsStay == \A s \in Slot : slot'[s].pc = "poll" =>
    \/ slot[s].pc = "poll" /\ slot'[s].run = slot[s].run /\ slot'[s].key = slot[s].key
    \/ \E r \in Run, k \in Nat : /\ slot'[s].run = r /\ slot'[s].key = k
                                 /\ AgentInput(r, k)' # {}

LEMMA AtRest ==
    ASSUME InputsHeld, RunningsStay, TurnsRest
    PROVE  InputsHeld'
<1>1. TaskOf \in [Run -> Task]
  BY StoreAssumption
<1> QED BY <1>1 DEF InputsHeld, RunningsStay, TurnsRest

LEMMA InputsSame ==
    ASSUME UNCHANGED input
    PROVE  InputsStay /\ RunningsStay
  BY DEF InputsStay, RunningsStay, Running

LEMMA TurnRests ==
    ASSUME TurnTypeOK, NEW t \in Task, NEW row, turn' = [turn EXCEPT ![t] = row],
           row.run = turn[t].run, row.pc # "idle"
    PROVE  TurnsRest
  BY DEF TurnsRest, TurnTypeOK

LEMMA InputTyped ==
    ASSUME StoreTypeOK, NEW r \in Run, NEW i \in DOMAIN input[r]
    PROVE  input[r][i] \in InputRow
<1>1. input[r] \in Seq(InputRow)
  BY DEF StoreTypeOK
<1> QED BY <1>1, LenProperties, ElementOfSeq

LEMMA InputSet ==
    ASSUME StoreTypeOK, NEW q \in Run, NEW j \in DOMAIN input[q], NEW st, SetInput(q, j, st)
    PROVE  /\ InputsStay
           /\ \A r \in Run \ {q} : Running(r)' = Running(r)
           /\ Running(q)' = IF st = "running" THEN Running(q) \cup {j} ELSE Running(q) \ {j}
<1>1. input[q][j] \in InputRow
  BY InputTyped
<1> DEFINE row == [input[q][j] EXCEPT !.status = st]
<1>2. row.key = input[q][j].key /\ row.wait = input[q][j].wait /\ row.status = st
  BY <1>1 DEF InputRow
<1>3. input' = [input EXCEPT ![q] = [input[q] EXCEPT ![j] = row]]
  BY DEF SetInput
<1> HIDE DEF row
<1>4. /\ \A r \in Run \ {q} : input'[r] = input[r]
      /\ DOMAIN input'[q] = DOMAIN input[q] /\ input'[q][j] = row
      /\ \A i \in DOMAIN input[q] \ {j} : input'[q][i] = input[q][i]
  BY <1>3 DEF StoreTypeOK
<1>5. InputsStay
  BY <1>2, <1>4 DEF InputsStay
<1> QED BY <1>2, <1>4, <1>5 DEF Running

LEMMA InputAppended ==
    ASSUME StoreTypeOK, NEW q \in Run, NEW row \in InputRow, row.status # "running",
           input' = [input EXCEPT ![q] = Append(input[q], row)]
    PROVE  /\ InputsStay /\ RunningsStay
           /\ Len(input[q]) + 1 \in DOMAIN input'[q] /\ input'[q][Len(input[q]) + 1] = row
<1>1. input[q] \in Seq(InputRow)
  BY DEF StoreTypeOK
<1> DEFINE new == Append(input[q], row)
<1>2. /\ Len(input[q]) \in Nat /\ DOMAIN input[q] = 1..Len(input[q])
      /\ new \in Seq(InputRow) /\ Len(new) = Len(input[q]) + 1
      /\ \A i \in 1..Len(input[q]) : new[i] = input[q][i]
      /\ new[Len(input[q]) + 1] = row
  BY <1>1, LenProperties, AppendProperties
<1>3. DOMAIN new = 1..(Len(input[q]) + 1)
  BY <1>2, LenProperties
<1>4. input'[q] = new /\ \A r \in Run \ {q} : input'[r] = input[r]
  BY DEF StoreTypeOK
<1> HIDE DEF new
<1>5. Len(input[q]) + 1 \in DOMAIN new /\ DOMAIN input[q] \subseteq DOMAIN new
  BY <1>2, <1>3
<1>6. \A i \in DOMAIN new : i \in DOMAIN input[q] \/ i = Len(input[q]) + 1
  BY <1>2, <1>3
<1>7. InputsStay
  BY <1>2, <1>4, <1>5 DEF InputsStay
<1>8. Running(q)' = Running(q)
  BY <1>2, <1>4, <1>5, <1>6 DEF Running
<1>9. \A r \in Run \ {q} : Running(r)' = Running(r)
  BY <1>4 DEF Running
<1> QED BY <1>2, <1>4, <1>5, <1>7, <1>8, <1>9 DEF RunningsStay

LEMMA InputsWithdrawn ==
    ASSUME StoreTypeOK, NEW W, input' = Withdrawn(W)
    PROVE  InputsStay /\ RunningsStay
<1>1. ASSUME NEW r \in Run, NEW i \in DOMAIN input[r]
      PROVE  /\ input'[r][i].key = input[r][i].key /\ input'[r][i].wait = input[r][i].wait
             /\ (input'[r][i].status = "running") = (input[r][i].status = "running")
  <2>1. input[r][i] \in InputRow
    BY <1>1, InputTyped
  <2>2. input'[r][i] = IF input[r][i].wait \in W /\ input[r][i].status = "queued"
                       THEN [input[r][i] EXCEPT !.status = "cancelled"] ELSE input[r][i]
    BY <1>1 DEF Withdrawn
  <2> QED BY <2>1, <2>2 DEF InputRow
<1>2. \A r \in Run : DOMAIN input'[r] = DOMAIN input[r]
  BY DEF Withdrawn
<1> QED BY <1>1, <1>2 DEF InputsStay, RunningsStay, Running

LEMMA FinishFrees ==
    ASSUME StoreTypeOK, TurnTypeOK, TurnsHoldOwnRuns, InputsHeld, NEW t \in Task,
           NEW st \in FinishedInput, Finish(t, st)
    PROVE  InputsStay /\ InputsHeld'
<1>1. /\ turn'[t].run = NoRun /\ turn'[t].pc = "idle"
      /\ \A u \in Task \ {t} : turn'[u] = turn[u]
  BY DEF Finish, TurnTypeOK, IdleTurn
<1>2. TaskOf \in [Run -> Task] /\ NoRun \notin Run
  BY StoreAssumption
<1>3. CASE turn[t].run = NoRun
  <2>1. UNCHANGED input
    BY <1>3 DEF Finish
  <2>2. InputsStay /\ RunningsStay
    BY <2>1, InputsSame
  <2> QED BY <1>1, <1>2, <1>3, <2>2 DEF InputsHeld, RunningsStay
<1>4. CASE turn[t].run # NoRun
  <2>1. turn[t].run \in Run /\ TaskOf[turn[t].run] = t
    BY <1>4, TurnRowTypes DEF TurnRow, TurnsHoldOwnRuns
  <2>2. PICK q \in Run : q = turn[t].run
    BY <2>1
  <2>3. PICK i \in Running(q) : SetInput(q, i, st)
    BY <1>4, <2>2 DEF Finish
  <2>4. i \in DOMAIN input[q] /\ st # "running"
    BY DEF Running, FinishedInput
  <2>5. /\ InputsStay /\ \A r \in Run \ {q} : Running(r)' = Running(r)
        /\ Running(q)' = Running(q) \ {i}
    BY <2>3, <2>4, InputSet
  <2>6. Running(q)' = {}
    BY <2>3, <2>5 DEF InputsHeld
  <2>7. ASSUME NEW r \in Run PROVE (Running(r)' # {}) = (turn'[TaskOf[r]].run = r)
    <3>1. CASE r = q
      BY <1>1, <1>2, <2>1, <2>2, <2>6, <3>1
    <3>2. CASE r # q /\ TaskOf[r] = t
      BY <1>1, <1>2, <2>2, <2>5, <3>2 DEF InputsHeld
    <3>3. CASE TaskOf[r] # t
      BY <1>1, <1>2, <2>1, <2>2, <2>5, <3>3 DEF InputsHeld
    <3> QED BY <3>1, <3>2, <3>3
  <2>8. \A r \in Run : \A j, k \in Running(r)' : j = k
    BY <2>5, <2>6 DEF InputsHeld
  <2>9. \A u \in Task : turn'[u].pc = "idle" => turn'[u].run = NoRun
    BY <1>1 DEF InputsHeld
  <2> QED BY <2>5, <2>7, <2>8, <2>9 DEF InputsHeld
<1> QED BY <1>3, <1>4

LEMMA TakeHolds ==
    ASSUME StoreTypeOK, TurnTypeOK, InputsHeld, NEW t \in Task, ClaimInput(t)
    PROVE  InputsStay /\ InputsHeld'
<1>1. turn[t].pc = "idle" /\ turn[t].run = NoRun /\ turn[t] \in TurnRow
  BY TurnRowTypes DEF ClaimInput, InputsHeld
<1>2. TaskOf \in [Run -> Task] /\ NoRun \notin Run
  BY StoreAssumption
<1>3. CASE turn' = [turn EXCEPT ![t].pc = "claimed"] /\ UNCHANGED input
  <2> DEFINE next == [turn[t] EXCEPT !.pc = "claimed"]
  <2>1. turn' = [turn EXCEPT ![t] = next] /\ next.run = turn[t].run /\ next.pc # "idle"
    BY <1>1, <1>3 DEF TurnRow
  <2> HIDE DEF next
  <2> QED BY <1>3, <2>1, TurnRests, InputsSame, AtRest
<1>4. ASSUME NEW q \in Run, NEW i \in DOMAIN input[q], TaskOf[q] = t, SetInput(q, i, "running"),
             turn' = [turn EXCEPT ![t].pc = "claimed", ![t].run = q]
      PROVE  InputsStay /\ InputsHeld'
  <2>1. /\ InputsStay /\ \A r \in Run \ {q} : Running(r)' = Running(r)
        /\ Running(q)' = Running(q) \cup {i}
    BY <1>4, InputSet
  <2>2. /\ turn'[t].run = q /\ turn'[t].pc = "claimed"
        /\ \A u \in Task \ {t} : turn'[u] = turn[u]
    BY <1>1, <1>4 DEF TurnTypeOK, TurnRow
  <2>3. \A r \in Run : TaskOf[r] = t => Running(r) = {}
    BY <1>1, <1>2 DEF InputsHeld
  <2>4. Running(q)' = {i}
    BY <1>4, <2>1, <2>3
  <2>5. ASSUME NEW r \in Run PROVE (Running(r)' # {}) = (turn'[TaskOf[r]].run = r)
    <3>1. CASE r = q
      BY <1>4, <2>2, <2>4, <3>1
    <3>2. CASE r # q /\ TaskOf[r] = t
      BY <2>1, <2>2, <2>3, <3>2
    <3>3. CASE TaskOf[r] # t
      <4>1. r # q /\ TaskOf[r] \in Task \ {t}
        BY <1>2, <1>4, <3>3
      <4>2. Running(r)' = Running(r) /\ turn'[TaskOf[r]] = turn[TaskOf[r]]
        BY <2>1, <2>2, <4>1
      <4>3. (Running(r) # {}) = (turn[TaskOf[r]].run = r)
        BY DEF InputsHeld
      <4> QED BY <4>2, <4>3
    <3> QED BY <3>1, <3>2, <3>3
  <2>6. \A r \in Run : \A j, k \in Running(r)' : j = k
    BY <2>1, <2>4 DEF InputsHeld
  <2>7. \A u \in Task : turn'[u].pc = "idle" => turn'[u].run = NoRun
    BY <2>2 DEF InputsHeld
  <2> QED BY <2>1, <2>5, <2>6, <2>7 DEF InputsHeld
<1> QED BY <1>3, <1>4 DEF ClaimInput

\* Steps of a turn that go on with the input it has
LEMMA TurnGoesOn ==
    ASSUME StoreTypeOK, TurnTypeOK, InputsHeld, NEW t \in Task,
           \/ PreflightPasses(t) \/ StartRunTurn(t) \/ SkipRunTurn(t) \/ EndTurn(t)
           \/ \E user \in BOOLEAN : StartChatTurn(t, user)
           \/ JudgeReads(t) \/ JudgeNeedsUser(t) \/ JudgeContinues(t) \/ JudgeGivesUp(t)
           \/ \E passed \in BOOLEAN : JudgeCompletes(t, passed)
           \/ FinalizeTurn(t) \/ Ask(t)
    PROVE  InputsStay /\ InputsHeld'
<1>1. UNCHANGED input
  BY DEF PreflightPasses, StartRunTurn, SkipRunTurn, EndTurn, StartChatTurn, JudgeReads,
         JudgeNeedsUser, JudgeContinues, JudgeGivesUp, JudgeCompletes, FinalizeTurn, Ask,
         store, ScheduleContinuation, CompleteRun
<1>2. turn[t] \in TurnRow /\ turn[t].pc # "idle"
  BY TurnRowTypes
     DEF PreflightPasses, StartRunTurn, SkipRunTurn, EndTurn, StartChatTurn, JudgeReads,
         JudgeNeedsUser, JudgeContinues, JudgeGivesUp, JudgeCompletes, FinalizeTurn, Ask
<1> DEFINE Goes == /\ turn'[t].run = turn[t].run /\ turn'[t].pc # "idle"
                   /\ \A u \in Task \ {t} : turn'[u] = turn[u]
<1>3. ASSUME PreflightPasses(t) \/ StartRunTurn(t) \/ SkipRunTurn(t) \/ FinalizeTurn(t) \/ Ask(t)
      PROVE  Goes
  <2>1. CASE PreflightPasses(t)
    BY <1>2, <2>1 DEF PreflightPasses, To, TurnTypeOK, TurnRow
  <2>2. CASE StartRunTurn(t)
    BY <1>2, <2>2 DEF StartRunTurn, TurnTypeOK, TurnRow
  <2>3. CASE SkipRunTurn(t)
    <3>1. turn' = [turn EXCEPT ![t].pc = "closing", ![t].out = "cancelled"]
      BY <2>3 DEF SkipRunTurn
    <3> QED BY <1>2, <3>1 DEF TurnTypeOK, TurnRow
  <2>4. CASE FinalizeTurn(t)
    <3>1. turn' = [turn EXCEPT ![t].pc = "closing", ![t].coord = NoRun, ![t].res = "failed"]
      BY <2>4 DEF FinalizeTurn
    <3> QED BY <1>2, <3>1 DEF TurnTypeOK, TurnRow
  <2>5. CASE Ask(t)
    <3>1. turn[t].pc = "executing" /\ \E w \in Wait : turn' = [turn EXCEPT ![t].ask = w]
      BY <2>5 DEF Ask
    <3> QED BY <1>2, <3>1 DEF TurnTypeOK, TurnRow
  <2> QED BY <1>3, <2>1, <2>2, <2>3, <2>4, <2>5
<1>4. ASSUME EndTurn(t) PROVE Goes
  <2>1. \E res, out : \E pc \in {"judging", "finalizing"} : Ended(t, res, out, pc)
    BY <1>4 DEF EndTurn
  <2> QED BY <1>2, <2>1 DEF Ended, TurnTypeOK, TurnRow
<1>5. ASSUME NEW user \in BOOLEAN, StartChatTurn(t, user) PROVE Goes
  <2>1. \/ To(t, "executing")
        \/ \E r \in Run : turn' = [turn EXCEPT ![t].pc = "executing", ![t].coord = r]
    BY <1>5 DEF StartChatTurn
  <2> QED BY <1>2, <2>1 DEF To, TurnTypeOK, TurnRow
<1>6. ASSUME JudgeReads(t) PROVE Goes
  <2>1. \/ To(t, "finalizing")
        \/ \E r \in Run : turn' = [turn EXCEPT ![t].pc = "deciding", ![t].held = r,
                                               ![t].version = run[r].version]
    BY <1>6 DEF JudgeReads, ActiveRoots
  <2>2. CASE To(t, "finalizing")
    BY <1>2, <2>2 DEF To, TurnTypeOK, TurnRow
  <2>3. ASSUME NEW r, NEW v, turn' = [turn EXCEPT ![t].pc = "deciding", ![t].held = r,
                                                  ![t].version = v]
        PROVE  Goes
    BY <1>2, <2>3 DEF TurnTypeOK, TurnRow
  <2> QED BY <2>1, <2>2, <2>3
<1>7. ASSUME \/ JudgeNeedsUser(t) \/ JudgeContinues(t) \/ JudgeGivesUp(t)
             \/ \E passed \in BOOLEAN : JudgeCompletes(t, passed)
      PROVE  Goes
  <2>1. Judged(t)
    BY <1>7 DEF JudgeNeedsUser, JudgeContinues, JudgeGivesUp, JudgeCompletes
  <2> QED BY <1>2, <2>1 DEF Judged, TurnTypeOK, TurnRow
<1>8. TurnsRest
  BY <1>3, <1>4, <1>5, <1>6, <1>7 DEF TurnsRest
<1> QED BY <1>1, <1>8, InputsSame, AtRest

\* The conversation: what the user does to the queue, and the rest of a turn
LEMMA TurnHolds ==
    ASSUME TurnInv, InputsHeld, TurnNext
    PROVE  InputsStay /\ InputsHeld'
<1>0. StoreTypeOK /\ TurnTypeOK /\ TurnsHoldOwnRuns
  BY DEF TurnInv, RowInv
<1>1. ASSUME NEW t \in Task, ChatMessage(t) PROVE InputsStay /\ InputsHeld'
  <2>1. InputsStay /\ RunningsStay
    BY <1>0, <1>1, InputsWithdrawn DEF ChatMessage, Supersede
  <2>2. TurnsRest
    BY <1>1 DEF ChatMessage, TurnsRest
  <2> QED BY <2>1, <2>2, AtRest
<1>2. ASSUME NEW t \in Task, StopTurn(t) PROVE InputsStay /\ InputsHeld'
  <2>1. InputsStay /\ RunningsStay
    BY <1>0, <1>2, InputsWithdrawn, InputsSame DEF StopTurn, Supersede
  <2>2. TurnsRest
    <3>1. turn[t] \in TurnRow /\ turn[t].pc = "executing"
      BY <1>0, <1>2, TurnRowTypes DEF StopTurn
    <3>2. turn' = [turn EXCEPT ![t].aborted = TRUE]
      BY <1>2 DEF StopTurn
    <3> QED BY <1>0, <3>1, <3>2 DEF TurnTypeOK, TurnRow, TurnsRest
  <2> QED BY <2>1, <2>2, AtRest
<1>3. ASSUME NEW w \in Wait, Answer(w) PROVE InputsStay /\ InputsHeld'
  <2> DEFINE row == [status |-> "queued", key |-> 0, wait |-> w]
  <2>1. wait[w].run \in Run
    BY <1>0, <1>3 DEF Answer, StoreTypeOK, WaitRow
  <2>2. row \in InputRow /\ row.status # "running"
    BY DEF InputRow, InputStatus
  <2>3. input' = [input EXCEPT ![wait[w].run] = Append(input[wait[w].run], row)]
    BY <1>3 DEF Answer
  <2> HIDE DEF row
  <2>4. InputsStay /\ RunningsStay
    BY <1>0, <2>1, <2>2, <2>3, InputAppended
  <2>5. TurnsRest
    BY <1>3 DEF Answer, StoreOnly, TurnsRest
  <2> QED BY <2>4, <2>5, AtRest
<1>4. ASSUME NEW w \in Wait, CancelAsk(w) PROVE InputsStay /\ InputsHeld'
  <2>1. UNCHANGED <<input, turn>>
    BY <1>4 DEF CancelAsk, StoreOnly
  <2>2. TurnsRest
    BY <2>1 DEF TurnsRest
  <2> QED BY <2>1, <2>2, InputsSame, AtRest
<1>5. ASSUME NEW r \in Run, RemoveInput(r) \/ ResendInput(r) PROVE InputsStay /\ InputsHeld'
  <2>1. PICK i \in DOMAIN input[r], st \in {"cancelled", "queued"} :
           SetInput(r, i, st) /\ input[r][i].status # "running"
    BY <1>5 DEF RemoveInput, ResendInput
  <2>2. /\ InputsStay /\ \A q \in Run \ {r} : Running(q)' = Running(q)
        /\ Running(r)' = Running(r) \ {i}
    BY <1>0, <2>1, InputSet
  <2>3. i \notin Running(r)
    BY <2>1 DEF Running
  <2>4. RunningsStay
    BY <2>2, <2>3 DEF RunningsStay
  <2>5. TurnsRest
    BY <1>5 DEF RemoveInput, ResendInput, StoreOnly, TurnsRest
  <2> QED BY <2>2, <2>4, <2>5, AtRest
<1>6. ASSUME NEW t \in Task, TurnStep(t) \/ Ask(t) PROVE InputsStay /\ InputsHeld'
  <2>1. CASE TakeInput(t)
    BY <1>0, <2>1, TakeHolds DEF TakeInput
  <2>2. CASE PreflightFails(t) \/ CloseTurn(t)
    <3>1. PICK st \in FinishedInput : Finish(t, st)
      <4>1. turn[t].out \in FinishedInput
        BY <1>0, TurnRowTypes DEF TurnRow
      <4>2. {"cancelled", "failed"} \subseteq FinishedInput
        BY DEF FinishedInput, InputStatus
      <4> QED BY <2>2, <4>1, <4>2 DEF PreflightFails, CloseTurn
    <3> QED BY <1>0, <3>1, FinishFrees
  <2>3. CASE \/ PreflightPasses(t) \/ StartRunTurn(t) \/ SkipRunTurn(t) \/ EndTurn(t)
             \/ \E user \in BOOLEAN : StartChatTurn(t, user)
             \/ JudgeReads(t) \/ JudgeNeedsUser(t) \/ JudgeContinues(t) \/ JudgeGivesUp(t)
             \/ \E passed \in BOOLEAN : JudgeCompletes(t, passed)
             \/ FinalizeTurn(t) \/ Ask(t)
    BY <1>0, <2>3, TurnGoesOn
  <2> QED BY <1>6, <2>1, <2>2, <2>3 DEF TurnStep
<1>7. ASSUME NEW t \in Task, SendInput(t) PROVE InputsStay /\ InputsHeld'
  BY <1>0, <1>7, TakeHolds DEF SendInput
<1>8. ASSUME NEW t \in Task, PauseQueue(t) \/ ResumeQueue(t) PROVE InputsStay /\ InputsHeld'
  <2>1. UNCHANGED <<input, turn>>
    BY <1>8 DEF PauseQueue, ResumeQueue, store
  <2>2. TurnsRest
    BY <2>1 DEF TurnsRest
  <2> QED BY <2>1, <2>2, InputsSame, AtRest
<1> QED BY <1>1, <1>2, <1>3, <1>4, <1>5, <1>6, <1>7, <1>8 DEF TurnNext

LEMMA CommandRests ==
    ASSUME CommandNext
    PROVE  UNCHANGED input
  BY DEF CommandNext, ChangePhase, ReviseContract, Start, CreateOrBlock, Create, Blocked, AddWait,
         ResolveWait, DenyApproval, Signal, CancelTask, CancelRun

\* The dispatcher: a slot that begins to poll has submitted its input.
LEMMA SubmitPolls ==
    ASSUME StoreTypeOK, DispatchTypeOK, SlotsHoldRuns, NEW s \in Slot, Submit(s)
    PROVE  InputsStay /\ RunningsStay /\ PollsStay
<1>1. PICK r \in Run, k \in Nat : /\ slot[s].run = r /\ slot[s].key = k
                                 /\ slot'[s].run = r /\ slot'[s].key = k
                                 /\ \A q \in Slot \ {s} : slot'[q] = slot[q]
  BY DEF SlotsHoldRuns, Submit, DispatchTypeOK, SlotRow
<1> DEFINE row == [status |-> "queued", key |-> k, wait |-> NoWait]
<1>2. row \in InputRow /\ row.status # "running" /\ row.key = k /\ row.wait = NoWait
  BY DEF InputRow, InputStatus
<1>3. \/ AgentInput(r, k) # {} /\ UNCHANGED input
      \/ input' = [input EXCEPT ![r] = Append(input[r], row)]
  BY <1>1 DEF Submit
<1> HIDE DEF row
<1>4. InputsStay /\ RunningsStay /\ AgentInput(r, k)' # {}
  <2>1. CASE AgentInput(r, k) # {} /\ UNCHANGED input
    BY <2>1, InputsSame DEF AgentInput
  <2>2. CASE input' = [input EXCEPT ![r] = Append(input[r], row)]
    <3>1. /\ InputsStay /\ RunningsStay
          /\ Len(input[r]) + 1 \in DOMAIN input'[r] /\ input'[r][Len(input[r]) + 1] = row
      BY <1>1, <1>2, <2>2, InputAppended
    <3>2. Len(input[r]) + 1 \in AgentInput(r, k)'
      BY <1>2, <3>1 DEF AgentInput
    <3> QED BY <3>1, <3>2
  <2> QED BY <1>3, <2>1, <2>2
<1>5. PollsStay
  <2> SUFFICES ASSUME NEW q \in Slot, slot'[q].pc = "poll"
               PROVE  \/ /\ slot[q].pc = "poll" /\ slot'[q].run = slot[q].run
                         /\ slot'[q].key = slot[q].key
                      \/ \E p \in Run, n \in Nat : /\ slot'[q].run = p /\ slot'[q].key = n
                                                   /\ AgentInput(p, n)' # {}
    BY DEF PollsStay
  <2>1. CASE q = s
    BY <1>1, <1>4, <2>1
  <2>2. CASE q # s
    BY <1>1, <2>2
  <2> QED BY <2>1, <2>2
<1> QED BY <1>4, <1>5

LEMMA DispatchPolls ==
    ASSUME StoreTypeOK, DispatchTypeOK, SlotsHoldRuns, DispatchNext
    PROVE  InputsStay /\ RunningsStay /\ PollsStay
<1>1. ASSUME NEW s \in Slot, Submit(s) PROVE InputsStay /\ RunningsStay /\ PollsStay
  BY <1>1, SubmitPolls
<1>2. ASSUME NEW s \in Slot, ~Submit(s), SlotNext(s)
      PROVE  /\ UNCHANGED input
             /\ \A q \in Slot : slot'[q].pc = "poll" =>
                   slot[q].pc = "poll" /\ slot'[q].run = slot[q].run /\ slot'[q].key = slot[q].key
  <2>1. slot[s] \in SlotRow /\ slot \in [Slot -> SlotRow]
    BY DEF DispatchTypeOK
  <2>2. ASSUME NEW r \in Run, Claim(s, r)
        PROVE  UNCHANGED input /\ slot'[s].pc # "poll" /\ \A q \in Slot \ {s} : slot'[q] = slot[q]
    BY <2>1, <2>2 DEF Claim, IdleSlot
  <2>3. CASE Prepare(s)
    BY <2>1, <2>3 DEF Prepare, store, SlotRow
  <2>4. ASSUME PrepareFails(s) \/ SubmitFails(s) \/ Poll(s)
        PROVE  UNCHANGED input /\ slot'[s].pc # "poll" /\ \A q \in Slot \ {s} : slot'[q] = slot[q]
    BY <2>1, <2>4 DEF PrepareFails, SubmitFails, Poll, RunAgentReturns, IdleSlot
  <2>5. CASE HeartbeatLost(s)
    BY <2>1, <2>5 DEF HeartbeatLost, store, SlotRow
  <2> QED BY <1>2, <2>2, <2>3, <2>4, <2>5 DEF SlotNext
<1>3. ASSUME NEW s \in Slot, ~Submit(s), SlotNext(s) PROVE InputsStay /\ RunningsStay /\ PollsStay
  BY <1>2, <1>3, InputsSame DEF PollsStay
<1>4. ASSUME NEW r \in Run, Reconcile(r) \/ LeaseExpires(r)
      PROVE  InputsStay /\ RunningsStay /\ PollsStay
  <2>1. UNCHANGED <<input, slot>>
    BY <1>4 DEF Reconcile, ReconcileExpired, ReconcileCancelled, LeaseExpires, memory
  <2> QED BY <2>1, InputsSame DEF PollsStay
<1>5. ASSUME Stop PROVE InputsStay /\ RunningsStay /\ PollsStay
  <2>1. UNCHANGED input /\ \A s \in Slot : /\ slot'[s].pc = slot[s].pc /\ slot'[s].run = slot[s].run
                                           /\ slot'[s].key = slot[s].key
    BY <1>5 DEF Stop, store, DispatchTypeOK, SlotRow
  <2> QED BY <2>1, InputsSame DEF PollsStay
<1> QED BY <1>1, <1>3, <1>4, <1>5 DEF DispatchNext

LEMMA RestartFrees ==
    ASSUME StoreTypeOK, Restart
    PROVE  InputsStay /\ InputsHeld' /\ PollsStay
<1>1. ASSUME NEW r \in Run
      PROVE  /\ DOMAIN input'[r] = DOMAIN input[r]
             /\ \A i \in DOMAIN input[r] :
                   /\ input'[r][i].key = input[r][i].key /\ input'[r][i].wait = input[r][i].wait
                   /\ input'[r][i].status # "running"
  <2>1. input'[r] = [i \in DOMAIN input[r] |->
           IF input[r][i].status = "running"
           THEN [input[r][i] EXCEPT !.status = "interrupted"] ELSE input[r][i]]
    BY DEF Restart, RestartDispatcher
  <2>2. ASSUME NEW i \in DOMAIN input[r]
        PROVE  /\ input'[r][i].key = input[r][i].key /\ input'[r][i].wait = input[r][i].wait
               /\ input'[r][i].status # "running"
    <3>1. input[r][i] \in InputRow
      BY <2>2, InputTyped
    <3> QED BY <2>1, <3>1 DEF InputRow
  <2> QED BY <2>1, <2>2
<1>2. InputsStay /\ \A r \in Run : Running(r)' = {}
  BY <1>1 DEF InputsStay, Running
<1>3. \A t \in Task : turn'[t].run = NoRun
  BY DEF Restart, IdleTurn
<1>4. InputsHeld'
  <2>1. TaskOf \in [Run -> Task] /\ NoRun \notin Run
    BY StoreAssumption
  <2> QED BY <1>2, <1>3, <2>1 DEF InputsHeld
<1>5. PollsStay
  BY DEF Restart, RestartDispatcher, PollsStay, IdleSlot
<1> QED BY <1>2, <1>4, <1>5

LEMMA PollsExistStep ==
    ASSUME SlotsHoldRuns, InputsStay, PollsStay, PollsExist
    PROVE  PollsExist'
<1> SUFFICES ASSUME NEW s \in Slot, slot'[s].pc = "poll"
             PROVE  AgentInput(slot[s].run, slot[s].key)' # {}
  BY DEF PollsExist
<1>1. CASE slot[s].pc = "poll" /\ slot'[s].run = slot[s].run /\ slot'[s].key = slot[s].key
  <2>1. slot[s].run \in Run
    BY <1>1 DEF SlotsHoldRuns
  <2>2. PICK i \in AgentInput(slot[s].run, slot[s].key) : TRUE
    BY <1>1 DEF PollsExist
  <2> QED BY <1>1, <2>1, <2>2 DEF AgentInput, InputsStay
<1>2. CASE \E r \in Run, k \in Nat : /\ slot'[s].run = r /\ slot'[s].key = k
                                     /\ AgentInput(r, k)' # {}
  BY <1>2 DEF AgentInput
<1> QED BY <1>1, <1>2 DEF PollsStay

\* A slot that polls an input waits for something that ended, is queued or is
\* being delivered, whatever removals, answers, stops and restarts come between
\* (drainSlot, waitForCompletion).  It is the safety part of SlotReturns.
THEOREM SlotsWaitForWork == Spec => []PollsHeld
<1> DEFINE PInv == InputsHeld /\ PollsExist
<1>1. Init => PInv
  <2> SUFFICES ASSUME Init PROVE PInv
    OBVIOUS
  <2>1. /\ \A r \in Run : input[r] = <<>> /\ Running(r) = {}
        /\ \A t \in Task : turn[t] = IdleTurn
        /\ \A s \in Slot : slot[s] = IdleSlot
    BY DEF Init, StoreInit, DispatchInit, TurnInit, Running
  <2>2. TaskOf \in [Run -> Task] /\ NoRun \notin Run
    BY StoreAssumption
  <2> QED BY <2>1, <2>2 DEF InputsHeld, PollsExist, IdleTurn, IdleSlot
<1>2. IInv /\ PInv /\ [Next]_vars => PInv'
  <2> SUFFICES ASSUME IInv, PInv, [Next]_vars PROVE PInv'
    OBVIOUS
  <2>1. TurnInv /\ StoreTypeOK /\ DispatchTypeOK /\ SlotsHoldRuns
    BY DEF IInv, TypeOK, RowInv, TurnInv
  <2>2. CASE Command
    <3>1. UNCHANGED <<input, slot, turn>>
      BY <2>2, CommandRests DEF Command, memory
    <3>2. InputsStay /\ RunningsStay /\ TurnsRest /\ PollsStay
      BY <3>1, InputsSame DEF TurnsRest, PollsStay
    <3> QED BY <2>1, <3>2, AtRest, PollsExistStep
  <2>3. CASE Dispatch
    <3>1. InputsStay /\ RunningsStay /\ PollsStay
      BY <2>1, <2>3, DispatchPolls DEF Dispatch
    <3>2. TurnsRest
      BY <2>3 DEF Dispatch, TurnsRest
    <3> QED BY <2>1, <3>1, <3>2, AtRest, PollsExistStep
  <2>4. CASE Converse
    <3>1. InputsStay /\ InputsHeld'
      BY <2>1, <2>4, TurnHolds DEF Converse
    <3>2. PollsStay
      BY <2>4 DEF Converse, memory, PollsStay
    <3> QED BY <2>1, <3>1, <3>2, PollsExistStep
  <2>5. CASE Restart
    BY <2>1, <2>5, RestartFrees, PollsExistStep
  <2>6. CASE UNCHANGED vars
    <3>1. UNCHANGED <<input, slot, turn>>
      BY <2>6 DEF vars
    <3>2. InputsStay /\ RunningsStay /\ TurnsRest /\ PollsStay
      BY <3>1, InputsSame DEF TurnsRest, PollsStay
    <3> QED BY <2>1, <3>2, AtRest, PollsExistStep
  <2> QED BY <2>2, <2>3, <2>4, <2>5, <2>6 DEF Next
<1>3. IInv /\ PInv => PollsHeld
  <2> SUFFICES ASSUME IInv, PInv, NEW s \in Slot, slot[s].pc = "poll"
               PROVE  \E i \in AgentInput(slot[s].run, slot[s].key) :
                         LET r == slot[s].run IN
                         \/ input[r][i].status \in FinishedInput \cup {"queued"}
                         \/ turn[TaskOf[r]].run = r /\ turn[TaskOf[r]].pc # "idle"
    BY DEF PollsHeld
  <2>1. PICK r \in Run : r = slot[s].run
    BY DEF IInv, SlotsHoldRuns
  <2>2. PICK i \in AgentInput(r, slot[s].key) : i \in DOMAIN input[r]
    BY <2>1 DEF PollsExist, AgentInput
  <2>3. input[r][i].status \in InputStatus
    BY <2>2, InputTyped DEF IInv, TypeOK, InputRow
  <2>4. CASE input[r][i].status = "running"
    <3>1. turn[TaskOf[r]].run = r
      BY <2>2, <2>4 DEF InputsHeld, Running
    <3>2. TaskOf[r] \in Task /\ NoRun \notin Run
      BY StoreAssumption
    <3>3. turn[TaskOf[r]].pc # "idle"
      BY <3>1, <3>2 DEF InputsHeld
    <3> QED BY <2>1, <2>2, <3>1, <3>3
  <2>5. CASE input[r][i].status # "running"
    BY <2>1, <2>2, <2>3, <2>5 DEF FinishedInput
  <2> QED BY <2>4, <2>5
<1> QED BY <1>1, <1>2, <1>3, Invariant, PTL DEF Spec
=============================================================================
