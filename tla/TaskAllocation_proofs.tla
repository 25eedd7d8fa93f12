------------------------ MODULE TaskAllocation_proofs ------------------------
(***************************************************************************)
(* Proofs about TaskAllocation, for any number of Tasks and slots: type    *)
(* correctness, that the rows are ClaimedWork, and that an executor is     *)
(* assigned only as it was judged.  The invariant says that a row shows no *)
(* token but that of its latest claim, and no slot works without a token.  *)
(***************************************************************************)
EXTENDS TaskAllocation, TLAPS

Final == {"assigned", "blocked", "failed", "cancelled"}
RowOK(x) == /\ x \in AllocationRow
            /\ x.token \in {0, x.claims}
            /\ x.status # "selecting" => x.token = 0
            /\ x.status \notin Final => x.by = 0
SlotsOK == \A s \in Slot : slot[s] # NoJob => slot[s] \in Job /\ slot[s].claim # 0
AllocationInv == AllocationTypeOK /\ (\A t \in Task : RowOK(allocation[t])) /\ SlotsOK

\* How a step changes a row.
Quietly(x, y)  == x.status = y.status /\ x.claims = y.claims /\ x.by = y.by
Opens(x, y)    == /\ x.status \in {"absent", "pending", "selecting"} \cup Final
                  /\ y.status = "pending" /\ y.claims = x.claims /\ y.by = 0
TakenBy(x, y)  == /\ x.status \in Open /\ y.status = "selecting"
                  /\ y.claims = x.claims + 1 /\ y.by = 0
RowSettles(x, y)  == /\ x.status = "selecting" /\ y.status \in Final
                     /\ y.claims = x.claims /\ y.by = x.claims
GivenUp(x, y)  == /\ x.status \in Open /\ y.status = "cancelled"
                  /\ y.claims = x.claims /\ y.by = 0
RowMoves(x, y) == Quietly(x, y) \/ Opens(x, y) \/ TakenBy(x, y) \/ RowSettles(x, y) \/ GivenUp(x, y)
RowStep(t)  == RowOK(allocation'[t]) /\ RowMoves(allocation[t], allocation'[t])
RowsStep    == allocation' \in [Task -> AllocationRow] /\ \A t \in Task : RowStep(t)

-----------------------------------------------------------------------------
(* The statements of the repository, on one row.                           *)

LEMMA QuietRows ==
    ASSUME NEW x \in AllocationRow, RowOK(x), NEW n \in Nat
    PROVE  /\ RowOK(Planned(x, n)) /\ RowMoves(x, Planned(x, n))
           /\ RowOK(Unleased(x)) /\ RowMoves(x, Unleased(x))
  BY DEF RowOK, AllocationRow, Planned, Unleased, RowMoves, Quietly

LEMMA SubmittedRow ==
    ASSUME NEW x \in AllocationRow, RowOK(x), x.status = "absent"
    PROVE  RowOK(Submitted(x)) /\ RowMoves(x, Submitted(x))
  BY DEF RowOK, AllocationRow, Submitted, RowMoves, Opens, Open, Final

LEMMA SelectedRow ==
    ASSUME NEW x \in AllocationRow, RowOK(x), x.status \in Open
    PROVE  RowOK(Selected(x)) /\ RowMoves(x, Selected(x))
<1>1. x.claims + 1 \in Nat /\ x.attempts + 1 \in Nat
  BY DEF AllocationRow
<1>2. \A n, m \in Nat : [x EXCEPT !.status = "selecting", !.token = n, !.leased = TRUE,
                           !.attempts = m, !.claims = n, !.by = 0] \in AllocationRow
  BY DEF AllocationRow, Open
<1> DEFINE y == Selected(x)
<1>3. y \in AllocationRow
  BY <1>1, <1>2 DEF Selected
<1>4. y.status = "selecting" /\ y.token = x.claims + 1 /\ y.claims = x.claims + 1 /\ y.by = 0
  BY DEF Selected, AllocationRow
<1> HIDE DEF y
<1>5. RowOK(y) /\ RowMoves(x, y)
  BY <1>3, <1>4 DEF RowOK, RowMoves, TakenBy
<1>6. QED
  BY <1>5 DEF y

LEMMA RestingRow ==
    ASSUME NEW x \in AllocationRow, NEW st \in Final \cup {"pending"}, NEW n \in Nat
    PROVE  /\ Resting(x, st, n) \in AllocationRow
           /\ Resting(x, st, n).status = st /\ Resting(x, st, n).token = 0
           /\ Resting(x, st, n).claims = x.claims /\ Resting(x, st, n).by = n
  BY DEF Resting, AllocationRow, Final, Open

LEMMA SettledRow ==
    ASSUME NEW x \in AllocationRow, RowOK(x), x.status = "selecting", NEW st \in Final
    PROVE  RowOK(Resting(x, st, x.claims)) /\ RowMoves(x, Resting(x, st, x.claims))
<1>1. x.claims \in Nat
  BY DEF AllocationRow
<1>2. QED
  BY <1>1, RestingRow DEF RowOK, RowMoves, RowSettles, Final

LEMMA CancelledRow ==
    ASSUME NEW x \in AllocationRow, RowOK(x), x.status \in Open
    PROVE  RowOK(Resting(x, "cancelled", 0)) /\ RowMoves(x, Resting(x, "cancelled", 0))
<1> DEFINE y == Resting(x, "cancelled", 0)
<1>1. /\ y \in AllocationRow /\ y.status = "cancelled" /\ y.token = 0
      /\ y.claims = x.claims /\ y.by = 0
  BY RestingRow DEF Final
<1> HIDE DEF y
<1>2. RowOK(y) /\ RowMoves(x, y)
  BY <1>1 DEF RowOK, RowMoves, GivenUp
<1>3. QED
  BY <1>2 DEF y

LEMMA GivenBackRow ==
    ASSUME NEW x \in AllocationRow, RowOK(x), NEW n \in Nat
    PROVE  /\ RowOK(GivenBack(x)) /\ RowMoves(x, GivenBack(x))
           /\ RowOK(OfVersion(GivenBack(x), n)) /\ RowMoves(x, OfVersion(GivenBack(x), n))
           /\ RowOK(Anew(x, n)) /\ RowMoves(x, Anew(x, n))
<1> DEFINE g == GivenBack(x)
<1>1. /\ g \in AllocationRow /\ g.status = "pending" /\ g.token = 0
      /\ g.claims = x.claims /\ g.by = 0
  BY RestingRow DEF GivenBack
<1>2. x.status \in {"absent", "pending", "selecting"} \cup Final
  BY DEF AllocationRow, Open, Final
<1> HIDE DEF g
<1>3. RowOK(g) /\ RowMoves(x, g)
  BY <1>1, <1>2 DEF RowOK, RowMoves, Opens
<1>4. ASSUME NEW y, y \in {[g EXCEPT !.version = n],
                           [g EXCEPT !.attempts = 0, !.planned = FALSE, !.version = n]}
      PROVE  RowOK(y) /\ RowMoves(x, y)
  <2>1. /\ y \in AllocationRow /\ y.status = "pending" /\ y.token = 0
        /\ y.claims = x.claims /\ y.by = 0
    BY <1>1, <1>4 DEF AllocationRow
  <2>2. QED
    BY <1>2, <2>1 DEF RowOK, RowMoves, Opens
<1>5. OfVersion(g, n) = [g EXCEPT !.version = n]
      /\ Anew(x, n) = [g EXCEPT !.attempts = 0, !.planned = FALSE, !.version = n]
  BY DEF OfVersion, Anew, g
<1>6. QED
  BY <1>3, <1>4, <1>5 DEF g

LEMMA AskedAgainRow ==
    ASSUME NEW x \in AllocationRow, RowOK(x), x.status \in {"blocked", "failed"}, NEW n \in Nat
    PROVE  RowOK(AskedAgain(x, n)) /\ RowMoves(x, AskedAgain(x, n))
<1> DEFINE y == AskedAgain(x, n)
<1>1. /\ y \in AllocationRow /\ y.status = "pending" /\ y.token = x.token
      /\ y.claims = x.claims /\ y.by = 0
  BY DEF AskedAgain, AllocationRow, Open
<1>2. x.token = 0
  BY DEF RowOK
<1> HIDE DEF y
<1>3. RowOK(y) /\ RowMoves(x, y)
  BY <1>1, <1>2 DEF RowOK, RowMoves, Opens, Final
<1>4. QED
  BY <1>3 DEF y

LEMMA RowStatus ==
    ASSUME NEW x \in AllocationRow, NEW n \in Nat
    PROVE  /\ GivenBack(x) \in AllocationRow /\ GivenBack(x).status = "pending"
           /\ Resting(x, "cancelled", n).status = "cancelled"
           /\ Resting(x, "blocked", n).status = "blocked"
           /\ Resting(x, "failed", n).status = "failed"
           /\ OfVersion(GivenBack(x), n).status = "pending"
           /\ Anew(x, n).status = "pending"
<1>1. \A k \in {"pending", "cancelled", "blocked", "failed"} :
         Resting(x, k, n).status = k
  BY DEF Resting, AllocationRow
<1> DEFINE g == GivenBack(x)
<1>2. g \in AllocationRow /\ g.status = "pending"
  BY RestingRow DEF GivenBack
<1> HIDE DEF g
<1>3. \A y \in AllocationRow : /\ OfVersion(y, n).status = y.status
                              /\ [y EXCEPT !.attempts = 0, !.planned = FALSE,
                                           !.version = n].status = y.status
  BY DEF OfVersion, AllocationRow
<1>4. OfVersion(g, n).status = "pending"
  BY <1>2, <1>3
<1>5. [g EXCEPT !.attempts = 0, !.planned = FALSE, !.version = n].status = "pending"
  BY <1>2, <1>3
<1>6. Anew(x, n) = [g EXCEPT !.attempts = 0, !.planned = FALSE, !.version = n]
  BY DEF Anew, g
<1>7. Anew(x, n).status = "pending"
  BY <1>5, <1>6
<1>8. g = GivenBack(x)
  BY DEF g
<1>9. QED
  BY <1>1, <1>2, <1>4, <1>7, <1>8

-----------------------------------------------------------------------------
(* What the steps do to the rows.                                          *)

LEMMA NoJobIsNone == NoJob \notin Job
  BY AllocationAssumption DEF NoJob, Job

LEMMA RowTypes ==
    ASSUME AllocationInv, NEW t \in Task
    PROVE  /\ allocation[t] \in AllocationRow /\ RowOK(allocation[t])
           /\ work[t] \in WorkRow /\ work[t].version \in Nat
  BY DEF AllocationInv, AllocationTypeOK, WorkRow

LEMMA JobTypes ==
    ASSUME AllocationInv, NEW s \in Slot, slot[s] # NoJob
    PROVE  /\ slot[s] \in Job /\ slot[s].row \in Task /\ slot[s].claim \in Nat \ {0}
           /\ slot[s].version \in Nat
  BY DEF AllocationInv, SlotsOK, Job

LEMMA OneRow ==
    ASSUME AllocationInv, NEW t \in Task, NEW row, SetRow(t, row), RowOK(row),
           RowMoves(allocation[t], row)
    PROVE  RowsStep
<1>1. allocation'[t] = row /\ \A k \in Task \ {t} : allocation'[k] = allocation[k]
  BY DEF SetRow, AllocationInv, AllocationTypeOK
<1>2. RowStep(t)
  BY <1>1 DEF RowStep
<1>3. \A k \in Task \ {t} : RowStep(k)
  BY <1>1, RowTypes DEF RowStep, RowMoves, Quietly
<1>4. allocation' \in [Task -> AllocationRow]
  BY DEF SetRow, AllocationInv, AllocationTypeOK, RowOK
<1>5. QED
  BY <1>2, <1>3, <1>4 DEF RowsStep

LEMMA SameRows ==
    ASSUME AllocationInv, UNCHANGED allocation
    PROVE  RowsStep
  BY RowTypes DEF AllocationInv, AllocationTypeOK, RowsStep, RowStep, RowMoves, Quietly

LEMMA SomeRows ==
    ASSUME AllocationInv, allocation' = [t \in Task |-> allocation'[t]], \A t \in Task : RowStep(t)
    PROVE  RowsStep
  BY DEF RowsStep, RowStep, RowOK

LEMMA SweptRow ==
    ASSUME AllocationInv, NEW t \in Task, allocation'[t] = Swept[t]
    PROVE  RowStep(t)
<1>1. CASE work[t].closed /\ allocation[t].status \in Open
  BY <1>1, RowTypes, CancelledRow DEF Swept, RowStep
<1>2. CASE ~(work[t].closed /\ allocation[t].status \in Open)
  BY <1>2, RowTypes DEF Swept, RowStep, RowMoves, Quietly
<1>3. QED
  BY <1>1, <1>2

LEMMA ClaimRows ==
    ASSUME AllocationInv, NEW s \in Slot, Claims(s)
    PROVE  RowsStep
<1>1. ASSUME NEW t \in Task, ClaimTask(s, t) PROVE RowsStep
  <2>1. /\ allocation'[t] = Selected(allocation[t])
        /\ \A k \in Task \ {t} : allocation'[k] = Swept[k]
        /\ allocation' = [k \in Task |-> allocation'[k]]
    BY <1>1 DEF ClaimTask, Swept
  <2>2. allocation[t].status \in Open
    BY <1>1 DEF ClaimTask, Free, Open
  <2>3. RowStep(t)
    BY <2>1, <2>2, RowTypes, SelectedRow DEF RowStep
  <2>4. QED
    BY <2>1, <2>3, SweptRow, SomeRows
<1>2. CASE Sweep(s)
  <2>1. /\ \A k \in Task : allocation'[k] = Swept[k]
        /\ allocation' = [k \in Task |-> allocation'[k]]
    BY <1>2 DEF Sweep, Swept
  <2>2. QED
    BY <2>1, SweptRow, SomeRows
<1>3. QED
  BY <1>1, <1>2 DEF Claims

\* A slot that holds its row holds the latest claim.
LEMMA HeldIsLatest ==
    ASSUME AllocationInv, NEW s \in Slot, slot[s] # NoJob, HoldsRow(slot[s])
    PROVE  /\ slot[s].row \in Task /\ allocation[slot[s].row].status = "selecting"
           /\ slot[s].claim = allocation[slot[s].row].claims
  BY JobTypes, RowTypes DEF HoldsRow, RowOK

LEMMA IfHeldRows ==
    ASSUME AllocationInv, NEW s \in Slot, slot[s] # NoJob, NEW row, IfHeld(slot[s], row),
           HoldsRow(slot[s]) => RowOK(row) /\ RowMoves(allocation[slot[s].row], row)
    PROVE  RowsStep
<1>1. slot[s].row \in Task
  BY JobTypes
<1>2. CASE HoldsRow(slot[s])
  BY <1>1, <1>2, OneRow DEF IfHeld
<1>3. CASE ~HoldsRow(slot[s])
  BY <1>3, SameRows DEF IfHeld
<1>4. QED
  BY <1>2, <1>3

LEMMA SlotRows ==
    ASSUME AllocationInv, NEW s \in Slot, SlotStep(s)
    PROVE  RowsStep
<1> DEFINE j == slot[s]
           x == allocation[j.row]
<1>1. slot[s] # NoJob
  BY DEF SlotStep, LookAtTask, KeepContract, ReviseContract, Assign, Block, Fail, Interrupted,
         Working
<1>2. /\ j.row \in Task /\ j.version \in Nat /\ x \in AllocationRow /\ RowOK(x)
      /\ work[j.row].version \in Nat
  BY <1>1, JobTypes, RowTypes
<1>3. HoldsRow(j) => x.status = "selecting" /\ j.claim = x.claims
  BY <1>1, HeldIsLatest
<1>4. CASE LookAtTask(s)
  <2>1. \/ UNCHANGED allocation
        \/ IfHeld(j, OfVersion(GivenBack(x), work[j.row].version))
    BY <1>4 DEF LookAtTask
  <2>2. /\ RowOK(OfVersion(GivenBack(x), work[j.row].version))
        /\ RowMoves(x, OfVersion(GivenBack(x), work[j.row].version))
    BY <1>2, GivenBackRow
  <2>3. QED
    BY <1>1, <2>1, <2>2, SameRows, IfHeldRows
<1>5. CASE ReviseContract(s)
  <2>1. \/ UNCHANGED allocation
        \/ SetRow(j.row, Planned(x, j.version + 1))
    BY <1>5 DEF ReviseContract
  <2>2. RowOK(Planned(x, j.version + 1)) /\ RowMoves(x, Planned(x, j.version + 1))
    BY <1>2, QuietRows
  <2>3. QED
    BY <1>2, <2>1, <2>2, SameRows, OneRow
<1>6. ASSUME NEW status \in {"blocked", "pending", "failed"}, Failed(s, status) PROVE RowsStep
  <2>1. PICK row \in {Resting(x, "cancelled", j.claim), GivenBack(x),
                      Resting(x, "blocked", j.claim), Resting(x, "failed", j.claim)} :
           IfHeld(j, row)
    BY <1>6 DEF Failed
  <2>2. ASSUME HoldsRow(j) PROVE RowOK(row) /\ RowMoves(x, row)
    <3>1. RowOK(GivenBack(x)) /\ RowMoves(x, GivenBack(x))
      BY <1>2, GivenBackRow
    <3>2. \A st \in Final : /\ RowOK(Resting(x, st, j.claim))
                            /\ RowMoves(x, Resting(x, st, j.claim))
      BY <1>2, <1>3, <2>2, SettledRow
    <3>3. QED
      BY <2>1, <3>1, <3>2 DEF Final
  <2>3. QED
    BY <1>1, <2>1, <2>2, IfHeldRows
<1>7. CASE Assign(s)
  <2>1. \/ UNCHANGED allocation
        \/ HoldsRow(j) /\ SetRow(j.row, Resting(x, "cancelled", j.claim))
        \/ HoldsRow(j) /\ SetRow(j.row, OfVersion(GivenBack(x), work[j.row].version))
        \/ HoldsRow(j) /\ SetRow(j.row, Resting(x, "assigned", j.claim))
    BY <1>7 DEF Assign
  <2>2. /\ RowOK(OfVersion(GivenBack(x), work[j.row].version))
        /\ RowMoves(x, OfVersion(GivenBack(x), work[j.row].version))
    BY <1>2, GivenBackRow
  <2>3. HoldsRow(j) => \A st \in Final : /\ RowOK(Resting(x, st, j.claim))
                                         /\ RowMoves(x, Resting(x, st, j.claim))
    BY <1>2, <1>3, SettledRow
  <2>4. QED
    BY <1>2, <2>1, <2>2, <2>3, SameRows, OneRow DEF Final
<1>8. CASE KeepContract(s) \/ Interrupted(s)
  BY <1>8, SameRows DEF KeepContract, Interrupted
<1>9. QED
  BY <1>4, <1>5, <1>6, <1>7, <1>8 DEF SlotStep, Block, Fail

LEMMA RowsMove == ASSUME AllocationInv, AllocationNext PROVE RowsStep
<1>1. ASSUME NEW t \in Task, Submit(t) PROVE RowsStep
  BY <1>1, RowTypes, SubmittedRow, OneRow DEF Submit
<1>2. ASSUME NEW t \in Task, ClaimRunsOut(t) PROVE RowsStep
  <2>1. RowOK(Unleased(allocation[t])) /\ RowMoves(allocation[t], Unleased(allocation[t]))
    BY RowTypes, QuietRows
  <2>2. QED
    BY <1>2, <2>1, OneRow DEF ClaimRunsOut
<1>3. ASSUME NEW t \in Task, RetryAllocation(t) PROVE RowsStep
  <2>1. work[t].version + 1 \in Nat
    BY RowTypes
  <2>2. QED
    BY <1>3, <2>1, RowTypes, AskedAgainRow, OneRow DEF RetryAllocation
<1>4. ASSUME NEW t \in Task, ReviseCompleted(t) PROVE RowsStep
  <2>1. work[t].version + 1 \in Nat
    BY RowTypes
  <2>2. RowOK(Anew(allocation[t], work[t].version + 1))
        /\ RowMoves(allocation[t], Anew(allocation[t], work[t].version + 1))
    BY <2>1, RowTypes, GivenBackRow
  <2>3. QED
    BY <1>4, <2>2, OneRow DEF ReviseCompleted
<1>5. ASSUME NEW t \in Task, \/ \E closed \in BOOLEAN : EditTask(t, closed)
                             \/ RunStarts(t) \/ RunEnds(t) \/ WaitStarts(t) \/ WaitEnds(t)
      PROVE  RowsStep
  BY <1>5, SameRows DEF EditTask, RunStarts, RunEnds, WaitStarts, WaitEnds
<1>6. CASE RosterChanges \/ StopDispatcher \/ RestartDispatcher
  BY <1>6, SameRows DEF RosterChanges, StopDispatcher, RestartDispatcher
<1>7. QED
  BY <1>1, <1>2, <1>3, <1>4, <1>5, <1>6, ClaimRows, SlotRows DEF AllocationNext

-----------------------------------------------------------------------------
(* The invariant.                                                          *)

LEMMA AllocationInitKeeps == AllocationInit => AllocationInv
<1>1. NewAllocation \in AllocationRow /\ RowOK(NewAllocation)
  BY DEF NewAllocation, AllocationRow, RowOK
<1>2. [closed |-> FALSE, version |-> 1, root |-> FALSE, wait |-> FALSE, ran |-> FALSE] \in WorkRow
  BY DEF WorkRow
<1> SUFFICES ASSUME AllocationInit PROVE AllocationInv
  OBVIOUS
<1>3. /\ allocation = [t \in Task |-> NewAllocation]
      /\ work = [t \in Task |-> [closed |-> FALSE, version |-> 1, root |-> FALSE,
                                 wait |-> FALSE, ran |-> FALSE]]
      /\ roster = 1 /\ slot = [s \in Slot |-> NoJob] /\ stopped = FALSE /\ changes = 0
  BY DEF AllocationInit
<1>4. allocation \in [Task -> AllocationRow] /\ \A t \in Task : RowOK(allocation[t])
  BY <1>1, <1>3
<1> DEFINE row == [closed |-> FALSE, version |-> 1, root |-> FALSE, wait |-> FALSE, ran |-> FALSE]
<1> HIDE DEF row
<1>5. work \in [Task -> WorkRow]
  BY <1>2, <1>3 DEF row
<1>6. slot \in [Slot -> Job \cup {NoJob}] /\ SlotsOK
  BY <1>3 DEF SlotsOK
<1>7. roster \in Nat /\ changes \in Nat /\ stopped \in BOOLEAN
  BY <1>3
<1>8. QED
  BY <1>4, <1>5, <1>6, <1>7 DEF AllocationInv, AllocationTypeOK

\* The slots and what they work on
SlotsTyped == slot' \in [Slot -> Job \cup {NoJob}] /\ SlotsOK'

LEMMA OneSlot ==
    ASSUME AllocationInv, NEW s \in Slot, NEW j, Continue(s, j), j = NoJob \/ (j \in Job /\ j.claim # 0)
    PROVE  SlotsTyped
<1>1. slot \in [Slot -> Job \cup {NoJob}] /\ slot' = [slot EXCEPT ![s] = j]
  BY DEF AllocationInv, AllocationTypeOK, Continue
<1>2. slot' \in [Slot -> Job \cup {NoJob}]
  BY <1>1
<1>3. slot'[s] = j /\ \A k \in Slot \ {s} : slot'[k] = slot[k]
  BY <1>1
<1>4. SlotsOK'
  BY <1>3 DEF SlotsOK, AllocationInv
<1>5. QED
  BY <1>2, <1>4 DEF SlotsTyped

LEMMA SameSlots == ASSUME AllocationInv, UNCHANGED slot PROVE SlotsTyped
  BY DEF AllocationInv, AllocationTypeOK, SlotsOK, SlotsTyped

LEMMA ListedJob ==
    ASSUME NEW j \in Job, NEW n \in Nat, roster \in Nat
    PROVE  /\ Listed(j) \in Job /\ Listed(j).claim = j.claim
           /\ [j EXCEPT !.version = n] \in Job /\ [j EXCEPT !.version = n].claim = j.claim
           /\ [j EXCEPT !.phase = "planning"] \in Job
           /\ [j EXCEPT !.phase = "planning"].claim = j.claim
  BY DEF Listed, Job

LEMMA SlotsKept == ASSUME AllocationInv, AllocationNext PROVE SlotsTyped
<1>1. ASSUME NEW s \in Slot, NEW t \in Task, ClaimTask(s, t) PROVE SlotsTyped
  <2> DEFINE j == [row |-> t, claim |-> allocation[t].claims + 1,
                   attempts |-> allocation[t].attempts + 1, version |-> allocation[t].version,
                   roster |-> 0, phase |-> "claimed"]
  <2>1. /\ allocation[t].claims + 1 \in Nat \ {0} /\ allocation[t].attempts + 1 \in Nat
        /\ allocation[t].version \in Nat
    BY RowTypes DEF AllocationRow
  <2>2. j \in Job /\ j.claim # 0
    BY <2>1 DEF Job
  <2>3. Continue(s, j)
    BY <1>1 DEF ClaimTask
  <2> HIDE DEF j
  <2>4. QED
    BY <2>2, <2>3, OneSlot
<1>2. ASSUME NEW s \in Slot, SlotStep(s) PROVE SlotsTyped
  <2>1. slot[s] # NoJob
    BY <1>2 DEF SlotStep, LookAtTask, KeepContract, ReviseContract, Assign, Block, Fail,
                Interrupted, Working
  <2>2. slot[s] \in Job /\ slot[s].claim # 0 /\ slot[s].version + 1 \in Nat /\ roster \in Nat
    BY <2>1, JobTypes DEF AllocationInv, AllocationTypeOK
  <2>3. \/ Leave(s)
        \/ Continue(s, [slot[s] EXCEPT !.phase = "planning"])
        \/ Continue(s, Listed(slot[s]))
        \/ Continue(s, Listed([slot[s] EXCEPT !.version = slot[s].version + 1]))
    BY <1>2 DEF SlotStep, LookAtTask, KeepContract, ReviseContract, Assign, Block, Fail, Failed,
                Interrupted
  <2>4. /\ Listed(slot[s]) \in Job /\ Listed(slot[s]).claim # 0
        /\ [slot[s] EXCEPT !.phase = "planning"] \in Job
        /\ [slot[s] EXCEPT !.phase = "planning"].claim # 0
    BY <2>2, ListedJob
  <2> DEFINE k == [slot[s] EXCEPT !.version = slot[s].version + 1]
  <2>5. k \in Job /\ k.claim # 0
    BY <2>2, ListedJob
  <2> HIDE DEF k
  <2>6. Listed(k) \in Job /\ Listed(k).claim # 0
    BY <2>2, <2>5, ListedJob
  <2>7. QED
    BY <2>3, <2>4, <2>6, OneSlot DEF Leave, k
<1>3. CASE RestartDispatcher
  BY <1>3 DEF RestartDispatcher, SlotsTyped, SlotsOK
<1>4. ASSUME NEW t \in Task, \/ Submit(t) \/ ClaimRunsOut(t)
                             \/ \E closed \in BOOLEAN : EditTask(t, closed)
                             \/ RunStarts(t) \/ RunEnds(t) \/ WaitStarts(t) \/ WaitEnds(t)
                             \/ RetryAllocation(t) \/ ReviseCompleted(t)
      PROVE  SlotsTyped
  <2>1. UNCHANGED slot
    BY <1>4 DEF Submit, ClaimRunsOut, EditTask, RunStarts, RunEnds, WaitStarts, WaitEnds,
                RetryAllocation, ReviseCompleted
  <2>2. QED
    BY <2>1, SameSlots
<1>5. ASSUME NEW s \in Slot, Sweep(s) PROVE SlotsTyped
  BY <1>5, SameSlots DEF Sweep
<1>6. CASE RosterChanges \/ StopDispatcher
  BY <1>6, SameSlots DEF RosterChanges, StopDispatcher
<1>7. QED
  BY <1>1, <1>2, <1>3, <1>4, <1>5, <1>6 DEF AllocationNext, Claims

LEMMA WorkKept == ASSUME AllocationInv, AllocationNext PROVE work' \in [Task -> WorkRow]
<1>0. work \in [Task -> WorkRow]
  BY DEF AllocationInv, AllocationTypeOK
<1>1. \A t \in Task, closed \in BOOLEAN, root \in BOOLEAN, wait \in BOOLEAN, n \in Nat :
         /\ [work[t] EXCEPT !.version = n] \in WorkRow
         /\ [work[t] EXCEPT !.version = @ + 1, !.closed = closed] \in WorkRow
         /\ [work[t] EXCEPT !.root = root] \in WorkRow
         /\ [work[t] EXCEPT !.wait = wait] \in WorkRow
         /\ [work[t] EXCEPT !.root = TRUE, !.ran = TRUE] \in WorkRow
         /\ StartedWork(work[t], root, wait) \in WorkRow
  <2> SUFFICES ASSUME NEW x \in WorkRow, NEW closed \in BOOLEAN, NEW root \in BOOLEAN,
                      NEW wait \in BOOLEAN, NEW n \in Nat
               PROVE  /\ [x EXCEPT !.version = n] \in WorkRow
                      /\ [x EXCEPT !.version = x.version + 1, !.closed = closed] \in WorkRow
                      /\ [x EXCEPT !.root = root] \in WorkRow
                      /\ [x EXCEPT !.wait = wait] \in WorkRow
                      /\ [x EXCEPT !.root = TRUE, !.ran = TRUE] \in WorkRow
                      /\ StartedWork(x, root, wait) \in WorkRow
    BY <1>0
  <2>1. x.version + 1 \in Nat /\ (x.ran \/ root) \in BOOLEAN
    BY DEF WorkRow
  <2>2. \A m \in Nat, b \in BOOLEAN :
           /\ [x EXCEPT !.version = m, !.closed = b] \in WorkRow
           /\ [x EXCEPT !.version = m, !.root = root, !.wait = wait, !.ran = b] \in WorkRow
    BY DEF WorkRow
  <2>3. /\ [x EXCEPT !.version = n] \in WorkRow
        /\ [x EXCEPT !.root = root] \in WorkRow
        /\ [x EXCEPT !.wait = wait] \in WorkRow
        /\ [x EXCEPT !.root = TRUE, !.ran = TRUE] \in WorkRow
    BY DEF WorkRow
  <2>4. QED
    BY <2>1, <2>2, <2>3 DEF StartedWork
<1>2. ASSUME NEW t \in Task, NEW closed \in BOOLEAN, Touch(t, closed)
      PROVE  work' \in [Task -> WorkRow]
  <2> DEFINE row == [work[t] EXCEPT !.version = @ + 1, !.closed = closed]
  <2>1. row \in WorkRow /\ work' = [work EXCEPT ![t] = row]
    BY <1>1, <1>2 DEF Touch
  <2> HIDE DEF row
  <2>2. QED
    BY <1>0, <2>1
<1>3. ASSUME NEW s \in Slot, ReviseContract(s) PROVE work' \in [Task -> WorkRow]
  <2>1. slot[s] # NoJob
    BY <1>3 DEF ReviseContract, Working
  <2>2. slot[s].row \in Task /\ slot[s].version + 1 \in Nat
    BY <2>1, JobTypes
  <2> DEFINE row == [work[slot[s].row] EXCEPT !.version = slot[s].version + 1]
  <2>3. row \in WorkRow
    BY <1>1, <2>2
  <2>4. work' = work \/ work' = [work EXCEPT ![slot[s].row] = row]
    BY <1>3 DEF ReviseContract
  <2> HIDE DEF row
  <2>5. QED
    BY <1>0, <2>2, <2>3, <2>4
<1>4. ASSUME NEW s \in Slot, Assign(s) PROVE work' \in [Task -> WorkRow]
  <2>1. slot[s] # NoJob
    BY <1>4 DEF Assign, Working
  <2>2. slot[s].row \in Task
    BY <2>1, JobTypes
  <2> DEFINE row(root, wait) == StartedWork(work[slot[s].row], root, wait)
  <2>3. \A root, wait \in BOOLEAN : row(root, wait) \in WorkRow
    BY <1>1, <2>2
  <2>4. work' = work \/ \E root, wait \in BOOLEAN :
                           work' = [work EXCEPT ![slot[s].row] = row(root, wait)]
    BY <1>4 DEF Assign
  <2> HIDE DEF row
  <2>5. QED
    BY <1>0, <2>2, <2>3, <2>4
<1>5. ASSUME NEW t \in Task, NEW row \in WorkRow, work' = [work EXCEPT ![t] = row]
      PROVE  work' \in [Task -> WorkRow]
  BY <1>0, <1>5
<1>6. ASSUME NEW t \in Task, RunStarts(t) \/ RunEnds(t) \/ WaitStarts(t) \/ WaitEnds(t)
      PROVE  work' \in [Task -> WorkRow]
  <2>1. PICK row \in {[work[t] EXCEPT !.root = TRUE, !.ran = TRUE],
                      [work[t] EXCEPT !.root = FALSE], [work[t] EXCEPT !.wait = TRUE],
                      [work[t] EXCEPT !.wait = FALSE]} : work' = [work EXCEPT ![t] = row]
    BY <1>6 DEF RunStarts, RunEnds, WaitStarts, WaitEnds
  <2>2. row \in WorkRow
    BY <1>1, <2>1
  <2>3. QED
    BY <1>5, <2>1, <2>2
<1>7. ASSUME UNCHANGED work PROVE work' \in [Task -> WorkRow]
  BY <1>0, <1>7
<1>8. ASSUME NEW t \in Task, \/ \E closed \in BOOLEAN : EditTask(t, closed)
                             \/ RetryAllocation(t) \/ ReviseCompleted(t)
      PROVE  work' \in [Task -> WorkRow]
  BY <1>2, <1>8 DEF EditTask, RetryAllocation, ReviseCompleted
<1>9. ASSUME NEW t \in Task, Submit(t) \/ ClaimRunsOut(t) PROVE work' \in [Task -> WorkRow]
  BY <1>7, <1>9 DEF Submit, ClaimRunsOut
<1>10. ASSUME NEW s \in Slot, \/ Claims(s) \/ LookAtTask(s) \/ KeepContract(s) \/ Block(s)
                              \/ Fail(s) \/ Interrupted(s)
       PROVE  work' \in [Task -> WorkRow]
  BY <1>7, <1>10 DEF Claims, ClaimTask, Sweep, LookAtTask, KeepContract, Block, Fail, Failed,
                     Interrupted
<1>11. CASE RosterChanges \/ StopDispatcher \/ RestartDispatcher
  BY <1>7, <1>11 DEF RosterChanges, StopDispatcher, RestartDispatcher
<1>12. QED
  BY <1>3, <1>4, <1>6, <1>8, <1>9, <1>10, <1>11 DEF AllocationNext, SlotStep

LEMMA CountersKept ==
    ASSUME AllocationInv, AllocationNext
    PROVE  roster' \in Nat /\ changes' \in Nat /\ stopped' \in BOOLEAN
<1> DEFINE Stay  == roster' = roster /\ changes' = changes /\ stopped' = stopped
           Count == /\ roster' \in {roster, roster + 1} /\ changes' \in {changes, changes + 1}
                    /\ stopped' = stopped \/ stopped' = TRUE \/ stopped' = FALSE
<1>1. ASSUME NEW s \in Slot, Claims(s) \/ SlotStep(s) PROVE Stay
  BY <1>1 DEF Claims, SlotStep, ClaimTask, Sweep, LookAtTask, KeepContract, ReviseContract,
              Block, Fail, Failed, Interrupted, Assign
<1>2. ASSUME NEW t \in Task, Submit(t) \/ ClaimRunsOut(t) \/ RunEnds(t) \/ WaitEnds(t)
      PROVE  Stay
  BY <1>2 DEF Submit, ClaimRunsOut, RunEnds, WaitEnds
<1>3. ASSUME NEW t \in Task, \/ \E closed \in BOOLEAN : EditTask(t, closed)
                             \/ RunStarts(t) \/ WaitStarts(t)
                             \/ RetryAllocation(t) \/ ReviseCompleted(t)
      PROVE  Count
  BY <1>3 DEF Outside, EditTask, RunStarts, WaitStarts, RetryAllocation, ReviseCompleted
<1>4. ASSUME RosterChanges \/ StopDispatcher \/ RestartDispatcher PROVE Count
  BY <1>4 DEF Outside, RosterChanges, StopDispatcher, RestartDispatcher
<1>5. Count
  BY <1>1, <1>2, <1>3, <1>4 DEF AllocationNext
<1> HIDE DEF Stay, Count
<1>6. roster \in Nat /\ changes \in Nat /\ stopped \in BOOLEAN
  BY DEF AllocationInv, AllocationTypeOK
<1>7. roster' \in Nat /\ changes' \in Nat
  BY <1>5, <1>6 DEF Count
<1>8. stopped' \in BOOLEAN
  BY <1>5, <1>6, Zenon DEF Count
<1>9. QED
  BY <1>7, <1>8

LEMMA AllocationStepKeeps == AllocationInv /\ [AllocationNext]_allocationVars => AllocationInv'
<1> SUFFICES ASSUME AllocationInv, [AllocationNext]_allocationVars PROVE AllocationInv'
  OBVIOUS
<1>1. CASE AllocationNext
  <2>1. allocation' \in [Task -> AllocationRow] /\ \A t \in Task : RowOK(allocation'[t])
    BY <1>1, RowsMove DEF RowsStep, RowStep
  <2>2. slot' \in [Slot -> Job \cup {NoJob}] /\ SlotsOK'
    BY <1>1, SlotsKept DEF SlotsTyped
  <2>3. QED
    BY <1>1, <2>1, <2>2, WorkKept, CountersKept DEF AllocationInv, AllocationTypeOK
<1>2. CASE UNCHANGED allocationVars
  BY <1>2 DEF allocationVars, AllocationInv, AllocationTypeOK, SlotsOK
<1>3. QED
  BY <1>1, <1>2

LEMMA AllocationInvariant == AllocationSpec => []AllocationInv
  BY AllocationInitKeeps, AllocationStepKeeps, PTL DEF AllocationSpec

-----------------------------------------------------------------------------
(* The theorems.                                                           *)

\* The rows, what allocation reads of the Tasks, and what the slots work on
\* keep their types (claim, reviseContract, assign, finishFailure).
THEOREM AllocationTyped == AllocationSpec => []AllocationTypeOK
<1>1. AllocationInv => AllocationTypeOK
  BY DEF AllocationInv
<1>2. QED
  BY AllocationInvariant, <1>1, PTL

LEMMA RowIsWork ==
    ASSUME AllocationInv, NEW t \in Task, RowStep(t)
    PROVE  \/ Allocations!Stays(t) \/ Allocations!Claim(t) \/ Allocations!GiveBack(t)
           \/ Allocations!Settle(t) \/ Allocations!Withdraw(t) \/ Allocations!Reopen(t)
<1> DEFINE x == allocation[t]
           y == allocation'[t]
<1>1. /\ x \in AllocationRow /\ RowOK(x) /\ y \in AllocationRow /\ RowOK(y) /\ RowMoves(x, y)
  BY RowTypes DEF RowStep, RowOK
<1>2. /\ AllocationState(t) = CASE x.status = "selecting" -> "held"
                                [] x.status \in {"absent", "pending"} -> "open"
                                [] OTHER -> "settled"
      /\ AllocationState(t)' = CASE y.status = "selecting" -> "held"
                                 [] y.status \in {"absent", "pending"} -> "open"
                                 [] OTHER -> "settled"
  BY DEF AllocationState
<1>3. x.status \in Open \cup {"absent", "assigned", "blocked", "failed", "cancelled"}
  BY <1>1 DEF AllocationRow
<1> HIDE DEF x, y
<1> DEFINE B(s, c, b) == AllocationState(t)' = s /\ y.claims = c /\ y.by = b
<1>4. \/ B(AllocationState(t), x.claims, x.by)
      \/ AllocationState(t) \in {"open", "held"} /\ B("held", x.claims + 1, 0)
      \/ AllocationState(t) = "held" /\ B("open", x.claims, 0)
      \/ AllocationState(t) = "held" /\ B("settled", x.claims, x.claims)
      \/ AllocationState(t) # "settled" /\ B("settled", x.claims, 0)
      \/ AllocationState(t) # "held" /\ B("open", x.claims, 0)
  <2>1. CASE Quietly(x, y)
    BY <1>2, <2>1 DEF Quietly
  <2>2. CASE Opens(x, y)
    BY <1>2, <2>2 DEF Opens
  <2>3. CASE TakenBy(x, y)
    BY <1>2, <2>3 DEF TakenBy, Open
  <2>4. CASE RowSettles(x, y)
    BY <1>2, <2>4 DEF RowSettles, Final
  <2>5. CASE GivenUp(x, y)
    BY <1>2, <2>5 DEF GivenUp, Open
  <2>6. QED
    BY <1>1, <2>1, <2>2, <2>3, <2>4, <2>5 DEF RowMoves
<1>5. QED
  BY <1>4 DEF x, y, Allocations!Becomes, Allocations!Stays, Allocations!Claim,
              Allocations!GiveBack, Allocations!Settle, Allocations!Withdraw, Allocations!Reopen

\* The allocation rows implement ClaimedWork: two slots, an expired lease and a
\* restart never mix up two decisions.
THEOREM AllocationRefinesWork == AllocationSpec => AllocationsAreClaimedWork
<1>1. AllocationInit => Allocations!WorkInit
  BY DEF AllocationInit, NewAllocation, Allocations!WorkInit, AllocationState
<1>2. AllocationInv /\ [AllocationNext]_allocationVars => [Allocations!WorkNext]_(Allocations!workVars)
  <2> SUFFICES ASSUME AllocationInv, [AllocationNext]_allocationVars
               PROVE  [Allocations!WorkNext]_(Allocations!workVars)
    OBVIOUS
  <2>1. CASE UNCHANGED allocationVars
    BY <2>1 DEF allocationVars, Allocations!workVars, AllocationState
  <2>2. CASE AllocationNext
    BY <2>2, RowsMove, RowIsWork DEF RowsStep, Allocations!WorkNext
  <2>3. QED
    BY <2>1, <2>2
<1>3. QED
  BY AllocationInvariant, <1>1, <1>2, PTL DEF AllocationSpec, AllocationsAreClaimedWork

\* What an assignment was made from
Judged(t) == /\ ~work[t].closed /\ ~Busy(t)
             /\ \E s \in Slot : /\ slot[s] # NoJob /\ slot[s].row = t
                                /\ slot[s].claim = allocation[t].claims
                                /\ slot[s].version = work[t].version
                                /\ slot[s].roster = roster
Assigned(t) == allocation'[t].status = "assigned" /\ allocation[t].status # "assigned"

\* A row that is set becomes "assigned" only if it is set to that.
LEMMA SetRowAssigns ==
    ASSUME AllocationInv, NEW t \in Task, NEW k \in Task, NEW row, SetRow(k, row), Assigned(t)
    PROVE  t = k /\ row.status = "assigned"
  BY DEF SetRow, AllocationInv, AllocationTypeOK, Assigned

LEMMA AssignJudges ==
    ASSUME AllocationInv, NEW t \in Task, Assigned(t), AllocationNext
    PROVE  \E s \in Slot : Assign(s)
<1>1. ~UNCHANGED allocation
  BY DEF Assigned
<1>2. allocation[t] \in AllocationRow
  BY RowTypes
<1>3. ASSUME NEW k \in Task,
             Submit(k) \/ ClaimRunsOut(k) \/ RetryAllocation(k) \/ ReviseCompleted(k)
      PROVE  FALSE
  <2> DEFINE x == allocation[k]
  <2>1. x \in AllocationRow
    BY RowTypes
  <2>2. \/ SetRow(k, Submitted(x)) \/ SetRow(k, Unleased(x))
        \/ SetRow(k, AskedAgain(x, work[k].version + 1))
        \/ SetRow(k, Anew(x, work[k].version + 1))
    BY <1>3 DEF Submit, ClaimRunsOut, RetryAllocation, ReviseCompleted
  <2>3. /\ Submitted(x).status = "pending" /\ Unleased(x).status = x.status
        /\ \A n : AskedAgain(x, n).status = "pending"
    BY <2>1 DEF Submitted, Unleased, AskedAgain, AllocationRow
  <2>4. Anew(x, work[k].version + 1).status = "pending"
    BY <2>1, RowTypes, RowStatus
  <2>5. x = allocation[k]
    OBVIOUS
  <2> HIDE DEF x
  <2>6. QED
    BY <2>2, <2>3, <2>4, <2>5, SetRowAssigns DEF Assigned
<1>4. ASSUME NEW s \in Slot, Claims(s) PROVE FALSE
  <2>1. Swept[t].status # "assigned" \/ Swept[t] = allocation[t]
    <3>1. Resting(allocation[t], "cancelled", 0).status = "cancelled"
      BY <1>2, RowStatus
    <3>2. Swept[t] \in {Resting(allocation[t], "cancelled", 0), allocation[t]}
      BY DEF Swept
    <3>3. QED
      BY <3>1, <3>2
  <2>2. Selected(allocation[t]).status = "selecting"
    BY <1>2 DEF Selected, AllocationRow
  <2>3. allocation'[t] = Swept[t] \/ allocation'[t] = Selected(allocation[t])
    BY <1>4 DEF Claims, ClaimTask, Sweep, Swept
  <2>4. QED
    BY <2>1, <2>2, <2>3 DEF Assigned
<1>5. ASSUME NEW s \in Slot, SlotStep(s) PROVE Assign(s)
  <2> DEFINE j == slot[s]
             x == allocation[j.row]
  <2>1. slot[s] # NoJob
    BY <1>5 DEF SlotStep, LookAtTask, KeepContract, ReviseContract, Assign, Block, Fail,
                Interrupted, Working
  <2>2. j.row \in Task /\ x \in AllocationRow /\ j.claim \in Nat
    BY <2>1, JobTypes, RowTypes
  <2>3. GivenBack(x).status = "pending" /\ GivenBack(x) \in AllocationRow
    BY <2>2, RowStatus
  <2>4. ASSUME LookAtTask(s) PROVE FALSE
    <3>1. SetRow(j.row, OfVersion(GivenBack(x), work[j.row].version))
      BY <1>1, <2>4 DEF LookAtTask, IfHeld
    <3>2. OfVersion(GivenBack(x), work[j.row].version).status = "pending"
      BY <2>3 DEF OfVersion, AllocationRow
    <3>3. QED
      BY <2>2, <3>1, <3>2, SetRowAssigns
  <2>5. ASSUME ReviseContract(s) PROVE FALSE
    <3>1. SetRow(j.row, Planned(x, j.version + 1))
      BY <1>1, <2>5 DEF ReviseContract
    <3>2. Planned(x, j.version + 1).status = x.status
      BY <2>2 DEF Planned, AllocationRow
    <3>3. QED
      BY <2>2, <3>1, <3>2, SetRowAssigns DEF Assigned
  <2>6. ASSUME NEW st \in {"blocked", "pending", "failed"}, Failed(s, st) PROVE FALSE
    <3>1. PICK row \in {Resting(x, "cancelled", j.claim), GivenBack(x),
                        Resting(x, "blocked", j.claim), Resting(x, "failed", j.claim)} :
             SetRow(j.row, row)
      BY <1>1, <2>6 DEF Failed, IfHeld
    <3>2. row.status # "assigned"
      <4>1. /\ Resting(x, "cancelled", j.claim).status = "cancelled"
            /\ Resting(x, "blocked", j.claim).status = "blocked"
            /\ Resting(x, "failed", j.claim).status = "failed"
        BY <2>2, RowStatus
      <4>2. QED
        BY <2>3, <3>1, <4>1
    <3>3. QED
      BY <2>2, <3>1, <3>2, SetRowAssigns
  <2>7. QED
    BY <1>1, <1>5, <2>4, <2>5, <2>6 DEF SlotStep, Block, Fail, KeepContract, Interrupted
<1>6. ASSUME NEW k \in Task, \/ \E closed \in BOOLEAN : EditTask(k, closed)
                             \/ RunStarts(k) \/ RunEnds(k) \/ WaitStarts(k) \/ WaitEnds(k)
      PROVE  FALSE
  BY <1>1, <1>6 DEF EditTask, RunStarts, RunEnds, WaitStarts, WaitEnds
<1>7. ~(RosterChanges \/ StopDispatcher \/ RestartDispatcher)
  BY <1>1 DEF RosterChanges, StopDispatcher, RestartDispatcher
<1>8. QED
  BY <1>3, <1>4, <1>5, <1>6, <1>7 DEF AllocationNext

\* An executor is assigned only from a decision made about the Task and the
\* executors as they are, by the claim that holds the row (assign).
THEOREM AssignmentsAreJudged == AllocationSpec => AssignedAsJudged
<1>1. AllocationInv /\ [AllocationNext]_allocationVars => \A t \in Task : Assigned(t) => Judged(t)
  <2> SUFFICES ASSUME AllocationInv, [AllocationNext]_allocationVars, NEW t \in Task, Assigned(t)
               PROVE  Judged(t)
    OBVIOUS
  <2>1. AllocationNext
    BY DEF Assigned, allocationVars
  <2>2. PICK s \in Slot : Assign(s)
    BY <2>1, AssignJudges
  <2> DEFINE j == slot[s]
             x == allocation[j.row]
  <2>3. slot[s] # NoJob /\ j.row \in Task /\ x \in AllocationRow /\ j.claim \in Nat
        /\ work[j.row].version \in Nat
    BY <2>2, JobTypes, RowTypes DEF Assign, Working
  <2>4. \/ UNCHANGED allocation
        \/ SetRow(j.row, Resting(x, "cancelled", j.claim))
        \/ SetRow(j.row, OfVersion(GivenBack(x), work[j.row].version))
        \/ /\ SetRow(j.row, Resting(x, "assigned", j.claim))
           /\ HoldsRow(j) /\ ~work[j.row].closed /\ ~Busy(j.row) /\ Unchanged(j)
    BY <2>2 DEF Assign
  <2>6. /\ Resting(x, "cancelled", j.claim).status = "cancelled"
        /\ OfVersion(GivenBack(x), work[j.row].version).status = "pending"
    BY <2>3, RowStatus
  <2>7. /\ SetRow(j.row, Resting(x, "assigned", j.claim))
        /\ HoldsRow(j) /\ ~work[j.row].closed /\ ~Busy(j.row) /\ Unchanged(j)
    BY <2>3, <2>4, <2>6, SetRowAssigns DEF Assigned
  <2>8. t = j.row
    BY <2>3, <2>7, SetRowAssigns
  <2>9. j.claim = allocation[t].claims
    BY <2>3, <2>7, <2>8, HeldIsLatest
  <2>10. QED
    BY <2>3, <2>7, <2>8, <2>9 DEF Judged, Unchanged
<1>2. AssignedAsJudged <=> [][\A t \in Task : Assigned(t) => Judged(t)]_allocationVars
  BY DEF AssignedAsJudged, Assigned, Judged
<1>3. QED
  BY AllocationInvariant, <1>1, <1>2, PTL DEF AllocationSpec
=============================================================================
