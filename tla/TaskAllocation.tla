--------------------------- MODULE TaskAllocation ----------------------------
(***************************************************************************)
(* Allocation of submitted Tasks to an executor                            *)
(* (src/src/tasks/task-allocation-service.ts, task-allocation-repository). *)
(* The slots of the dispatcher claim a row under a lease, then read the    *)
(* Task, plan its contract, compare the roster of executors and ask a      *)
(* model, with awaits between; meanwhile users, chat turns and settings    *)
(* change what was read, and the lease may run out.  Not kept: what makes  *)
(* a candidate eligible (the roster is a revision number), requirements,   *)
(* back-off times, and personal requests (their cancellation closes the    *)
(* Task as well).                                                          *)
(***************************************************************************)
EXTENDS Naturals, FiniteSets

CONSTANTS Task,         \* Tasks submitted with activation "allocate"
          Slot,         \* the two drain loops of the dispatcher
          NoTask,
          MaxFailures,  \* claims after which an error is not retried
          MaxClaims,    \* bound: claims of one row
          MaxChanges    \* bound: changes by users, chat turns, settings, crashes

ASSUME AllocationAssumption ==
    /\ NoTask \notin Task
    /\ MaxFailures \in Nat \ {0} /\ MaxClaims \in Nat \ {0} /\ MaxChanges \in Nat

VARIABLES
    allocation,  \* task_allocations, one row per Task
    work,        \* of each Task: what allocation reads of it
    roster,      \* revision of the eligible executors
    slot,        \* per drain loop: the row it works on and what it has read
    stopped,     \* #stopped
    changes      \* number of outside changes so far
allocationVars == <<allocation, work, roster, slot, stopped, changes>>

Open    == {"pending", "selecting"}
Job     == [row : Task, claim : Nat, attempts : Nat, version : Nat, roster : Nat,
            phase : {"claimed", "planning", "judging"}]
NoJob   == [row |-> NoTask]

\* ghosts: claims so far, and the claim that settled the row
AllocationRow == [status : Open \cup {"absent", "assigned", "blocked", "failed", "cancelled"},
                  token : Nat, leased : BOOLEAN, attempts : Nat, version : Nat,
                  planned : BOOLEAN, claims : Nat, by : Nat]
NewAllocation == [status |-> "absent", token |-> 0, leased |-> FALSE, attempts |-> 0,
                  version |-> 1, planned |-> FALSE, claims |-> 0, by |-> 0]
WorkRow == [closed : BOOLEAN, version : Nat, root : BOOLEAN, wait : BOOLEAN, ran : BOOLEAN]

AllocationTypeOK ==
    /\ allocation \in [Task -> AllocationRow]
    /\ work \in [Task -> WorkRow]
    /\ slot \in [Slot -> Job \cup {NoJob}]
    /\ roster \in Nat /\ changes \in Nat /\ stopped \in BOOLEAN

AllocationInit ==
    /\ allocation = [t \in Task |-> NewAllocation]
    /\ work = [t \in Task |-> [closed |-> FALSE, version |-> 1, root |-> FALSE,
                               wait |-> FALSE, ran |-> FALSE]]
    /\ roster = 1 /\ slot = [s \in Slot |-> NoJob] /\ stopped = FALSE /\ changes = 0

-----------------------------------------------------------------------------
(* The repository: create, claim, owns.  The lease of a row nobody works on is never *)
(* read; here it is over.                                                    *)

\* What the statements do to a row x
Submitted(x)          == [x EXCEPT !.status = "pending"]
Selected(x)           == [x EXCEPT !.status = "selecting", !.token = x.claims + 1, !.leased = TRUE,
                                   !.attempts = x.attempts + 1, !.claims = x.claims + 1, !.by = 0]
Resting(x, status, n) == [x EXCEPT !.status = status, !.token = 0, !.leased = FALSE, !.by = n]
GivenBack(x)          == Resting(x, "pending", 0)
OfVersion(x, n)       == [x EXCEPT !.version = n]
Planned(x, n)         == [x EXCEPT !.version = n, !.planned = TRUE]
Unleased(x)           == [x EXCEPT !.leased = FALSE]
AskedAgain(x, n)      == [x EXCEPT !.status = "pending", !.attempts = 0, !.version = n, !.by = 0]
Anew(x, n)            == [GivenBack(x) EXCEPT !.attempts = 0, !.planned = FALSE, !.version = n]
StartedWork(w, root, wait) == [w EXCEPT !.version = w.version + 1, !.root = root,
                                        !.wait = wait, !.ran = w.ran \/ root]
SetRow(t, row)        == allocation' = [allocation EXCEPT ![t] = row]

\* The Task is created with activation "allocate".
Submit(t) ==
    /\ allocation[t].status = "absent"
    /\ SetRow(t, Submitted(allocation[t]))
    /\ UNCHANGED <<work, roster, slot, stopped, changes>>

Free_PendingOnly(t) == allocation[t].claims < MaxClaims /\ allocation[t].status = "pending"
Free(t) == /\ allocation[t].claims < MaxClaims
           /\ \/ allocation[t].status = "pending"
              \/ allocation[t].status = "selecting" /\ ~allocation[t].leased
Swept   == [t \in Task |-> IF work[t].closed /\ allocation[t].status \in Open
                           THEN Resting(allocation[t], "cancelled", 0)
                           ELSE allocation[t]]
Continue(s, j) == slot' = [slot EXCEPT ![s] = j]
ClaimTask(s, t) ==
    /\ ~stopped /\ slot[s] = NoJob
    /\ ~work[t].closed /\ ~work[t].wait /\ Free(t)
    /\ allocation' = [Swept EXCEPT ![t] = Selected(allocation[t])]
    /\ Continue(s, [row |-> t, claim |-> allocation[t].claims + 1,
                    attempts |-> allocation[t].attempts + 1, version |-> allocation[t].version,
                    roster |-> 0, phase |-> "claimed"])
    /\ UNCHANGED <<work, roster, stopped, changes>>
\* A claim that finds no row still cancels those of closed Tasks; a pending row
\* may not be due yet.
Sweep(s) ==
    /\ ~stopped /\ slot[s] = NoJob
    /\ \A t \in Task : \/ work[t].closed \/ work[t].wait \/ ~Free(t)
                       \/ allocation[t].status = "pending"
    /\ allocation' = Swept
    /\ UNCHANGED <<work, roster, slot, stopped, changes>>

HoldsRow_AnyClaim(j) == allocation[j.row].status = "selecting" /\ allocation[j.row].leased
HoldsRow(j) == /\ allocation[j.row].status = "selecting" /\ allocation[j.row].leased
               /\ allocation[j.row].token = j.claim

-----------------------------------------------------------------------------
(* One transaction of a slot, which then works on (Continue) or is done with *)
(* the row (Leave).                                                          *)

Working(s, phase) == slot[s] # NoJob /\ slot[s].phase = phase
Leave(s) == Continue(s, NoJob)
IfHeld(j, row) == IF HoldsRow(j) THEN SetRow(j.row, row) ELSE UNCHANGED allocation

\* The Task has changed since the row was written: start over from it.
LookAtTask(s) ==
    LET j == slot[s]
    IN  /\ Working(s, "claimed")
        /\ IF work[j.row].version # j.version
           THEN /\ IfHeld(j, OfVersion(GivenBack(allocation[j.row]), work[j.row].version))
                /\ Leave(s)
           ELSE Continue(s, [j EXCEPT !.phase = "planning"]) /\ UNCHANGED allocation
        /\ UNCHANGED <<work, roster, stopped, changes>>

\* The planner has answered: the contract is kept, or revised if the row is
\* still ours and the Task unchanged; then the candidates are listed.
Listed(j) == [j EXCEPT !.phase = "judging", !.roster = roster]
KeepContract(s) ==
    /\ Working(s, "planning") /\ ~stopped
    /\ Continue(s, Listed(slot[s]))
    /\ UNCHANGED <<allocation, work, roster, stopped, changes>>
ReviseContract(s) ==
    LET j == slot[s]
        n == j.version + 1
    IN  /\ Working(s, "planning") /\ ~stopped /\ ~allocation[j.row].planned
        /\ IF HoldsRow(j) /\ work[j.row].version = j.version
           THEN /\ work' = [work EXCEPT ![j.row].version = n]
                /\ SetRow(j.row, Planned(allocation[j.row], n))
                /\ Continue(s, Listed([j EXCEPT !.version = n]))
           ELSE Leave(s) /\ UNCHANGED <<allocation, work>>
        /\ UNCHANGED <<roster, stopped, changes>>

\* finishFailure
Failed(s, status) ==
    LET j == slot[s]
        x == allocation[j.row]
    IN  /\ IfHeld(j, IF work[j.row].closed THEN Resting(x, "cancelled", j.claim)
                     ELSE IF status = "pending" THEN GivenBack(x)
                     ELSE Resting(x, status, j.claim))
        /\ Leave(s)
        /\ UNCHANGED <<work, roster, stopped, changes>>
\* No plan, no candidate, or a question of the model
Block(s) == /\ Working(s, "planning") \/ (Working(s, "judging") /\ ~stopped)
            /\ Failed(s, "blocked")
\* The loop's catch
Fail(s)  == /\ Working(s, "planning") \/ Working(s, "judging")
            /\ ~stopped
            /\ Failed(s, IF slot[s].attempts < MaxFailures THEN "pending" ELSE "failed")
Interrupted(s) ==
    /\ stopped /\ slot[s] # NoJob
    /\ Leave(s)
    /\ UNCHANGED <<allocation, work, roster, stopped, changes>>

\* The model has chosen an executor: assign it and start the Task, unless what
\* the choice was made from has changed.
Unchanged_TaskOnly(j) == work[j.row].version = j.version
Unchanged(j) == work[j.row].version = j.version /\ roster = j.roster
Busy(t) == work[t].wait \/ work[t].root
Assign(s) ==
    LET j == slot[s]
        t == j.row
        x == allocation[t]
    IN  /\ Working(s, "judging") /\ ~stopped
        /\ \/ /\ ~HoldsRow(j) \/ (Busy(t) /\ ~work[t].closed)
              /\ UNCHANGED <<allocation, work>>
           \/ /\ HoldsRow(j) /\ work[t].closed
              /\ SetRow(t, Resting(x, "cancelled", j.claim))
              /\ UNCHANGED work
           \/ /\ HoldsRow(j) /\ ~work[t].closed /\ ~Busy(t) /\ ~Unchanged(j)
              /\ SetRow(t, OfVersion(GivenBack(x), work[t].version))
              /\ UNCHANGED work
           \/ /\ HoldsRow(j) /\ ~work[t].closed /\ ~Busy(t) /\ Unchanged(j)
              /\ SetRow(t, Resting(x, "assigned", j.claim))
              \* started, or held up by a dependency or a missing approval
              /\ \E root, wait \in BOOLEAN :
                    /\ ~(root /\ wait)
                    /\ work' = [work EXCEPT ![t] = StartedWork(@, root, wait)]
        /\ Leave(s)
        /\ UNCHANGED <<roster, stopped, changes>>

ClaimRunsOut(t) ==
    /\ allocation[t].leased
    /\ SetRow(t, Unleased(allocation[t]))
    /\ UNCHANGED <<work, roster, slot, stopped, changes>>

-----------------------------------------------------------------------------
(* What happens meanwhile. *)

Outside == changes < MaxChanges /\ changes' = changes + 1
Touch(t, closed) == work' = [work EXCEPT ![t].version = @ + 1, ![t].closed = closed]

\* A command on the Task: its contract or plan, closing it, reopening it
EditTask(t, closed) ==
    /\ Outside /\ allocation[t].status # "absent" /\ Touch(t, closed)
    /\ UNCHANGED <<allocation, roster, slot, stopped>>
\* A chat turn takes the Task up; the Run of the Task ends; a wait comes and goes
RunStarts(t) ==
    /\ Outside /\ allocation[t].status # "absent" /\ ~work[t].root /\ ~work[t].closed
    /\ work' = [work EXCEPT ![t].root = TRUE, ![t].ran = TRUE]
    /\ UNCHANGED <<allocation, roster, slot, stopped>>
RunEnds(t) ==
    /\ work[t].root /\ work' = [work EXCEPT ![t].root = FALSE]
    /\ UNCHANGED <<allocation, roster, slot, stopped, changes>>
WaitStarts(t) ==
    /\ Outside /\ allocation[t].status # "absent" /\ ~work[t].wait /\ work' = [work EXCEPT ![t].wait = TRUE]
    /\ UNCHANGED <<allocation, roster, slot, stopped>>
WaitEnds(t) ==
    /\ work[t].wait /\ work' = [work EXCEPT ![t].wait = FALSE]
    /\ UNCHANGED <<allocation, roster, slot, stopped, changes>>
RosterChanges ==
    /\ Outside /\ roster' = roster + 1
    /\ UNCHANGED <<allocation, work, slot, stopped>>

\* retry_allocation
RetryAllocation(t) ==
    /\ Outside
    /\ allocation[t].status \in {"blocked", "failed"} /\ ~work[t].closed /\ ~Busy(t)
    /\ Touch(t, FALSE)
    /\ SetRow(t, AskedAgain(allocation[t], work[t].version + 1))
    /\ UNCHANGED <<roster, slot, stopped>>
\* reviseCompleted: a new row id, whatever the old row was doing
ReviseCompleted(t) ==
    /\ Outside /\ allocation[t].status # "absent" /\ work[t].ran /\ ~Busy(t)
    /\ Touch(t, FALSE)
    /\ SetRow(t, Anew(allocation[t], work[t].version + 1))
    /\ UNCHANGED <<roster, slot, stopped>>

StopDispatcher ==
    /\ Outside /\ ~stopped /\ stopped' = TRUE
    /\ UNCHANGED <<allocation, work, roster, slot>>
\* The process ends, after stop() or without it, and another begins.
RestartDispatcher ==
    /\ stopped \/ changes < MaxChanges
    /\ changes' = IF stopped THEN changes ELSE changes + 1
    /\ stopped' = FALSE /\ slot' = [s \in Slot |-> NoJob]
    /\ UNCHANGED <<allocation, work, roster>>

-----------------------------------------------------------------------------
SlotStep(s) == \/ LookAtTask(s) \/ KeepContract(s) \/ ReviseContract(s) \/ Assign(s)
               \/ Block(s) \/ Fail(s) \/ Interrupted(s)
Claims(s)   == (\E t \in Task : ClaimTask(s, t)) \/ Sweep(s)
AllocationNext ==
    \/ \E s \in Slot : Claims(s) \/ SlotStep(s)
    \/ \E t \in Task : \/ Submit(t) \/ ClaimRunsOut(t) \/ \E closed \in BOOLEAN : EditTask(t, closed)
                       \/ RunStarts(t) \/ RunEnds(t) \/ WaitStarts(t) \/ WaitEnds(t)
                       \/ RetryAllocation(t) \/ ReviseCompleted(t)
    \/ RosterChanges \/ StopDispatcher \/ RestartDispatcher
AllocationSpec == AllocationInit /\ [][AllocationNext]_allocationVars

-----------------------------------------------------------------------------
(* Properties. *)

\* Two slots, an expired lease and a restart do not mix up two decisions: a
\* row records the outcome of its latest claim only.
AllocationState(t) == CASE allocation[t].status = "selecting" -> "held"
                        [] allocation[t].status \in {"absent", "pending"} -> "open"
                        [] OTHER -> "settled"
Allocations == INSTANCE ClaimedWork WITH
    Work  <- Task,
    state <- [t \in Task |-> AllocationState(t)],
    claim <- [t \in Task |-> allocation[t].claims],
    by    <- [t \in Task |-> allocation[t].by]
AllocationsAreClaimedWork ==
    Allocations!WorkInit /\ [][Allocations!WorkNext]_(Allocations!workVars)

\* An executor is assigned, and the Task started, only from a decision made
\* about the Task and the executors as they are at that moment, by the claim
\* that holds the row, and never for a Task that is closed, waits or runs.
AssignedAsJudged ==
    [][\A t \in Task :
          allocation'[t].status = "assigned" /\ allocation[t].status # "assigned" =>
             /\ ~work[t].closed /\ ~Busy(t)
             /\ \E s \in Slot : /\ slot[s] # NoJob /\ slot[s].row = t
                                /\ slot[s].claim = allocation[t].claims
                                /\ slot[s].version = work[t].version
                                /\ slot[s].roster = roster]_allocationVars

\* While it neither waits nor runs, a Task is allocated, or a person is told
\* why not, or the row is given up because the Task was closed.
Unallocated(t) == /\ allocation[t].status \in Open /\ ~work[t].wait
                  /\ allocation[t].claims < MaxClaims
AllocationEnds ==
    (\E t \in Task : Unallocated(t)) ~> ~(\E t \in Task : Unallocated(t))
=============================================================================
