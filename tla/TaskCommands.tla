---------------------------- MODULE TaskCommands ----------------------------
(***************************************************************************)
(* What users, agents, timers and other Tasks ask of a Task:               *)
(* TaskApplicationService.execute, TaskSignalService, cancelPersonalTask   *)
(* and the task_runs.cancel capability.  Each is one write transaction, so *)
(* each is one action on the rows of TaskStore.                            *)
(*                                                                         *)
(* `user' tells a command of a person from one of an agent or of a signal: *)
(* a person's phase change bumps the manual revision, anyone else's is     *)
(* refused while that revision has not been authorized.                    *)
(***************************************************************************)
EXTENDS TaskStore

CONSTANT MoveTargets            \* bound: the <<phase, resolution>> moves tried

ASSUME MoveAssumption ==
    MoveTargets \subseteq
        ((Phase \ {"closed"}) \X {"none"}) \cup ({"closed"} \X {"done", "cancelled"})

\* The root a command acts on; getActiveRoot returns the newest, and there is
\* never a second one (OneActiveRun).
RootOr(t) == IF ActiveRoots(t) = {} THEN NoRun ELSE CHOOSE r \in ActiveRoots(t) : TRUE

\* move, mark_ready, request_review, close, reopen.
ChangePhase(t, user) ==
    \E target \in MoveTargets :
        /\ <<task[t].phase, task[t].resolution>> # target
        /\ IF user THEN task[t].manual < MaxManual
           ELSE /\ AutomaticStartAllowed(t)
                /\ target[2] = "done" => ActiveRoots(t) = {} /\ ActiveWaits(t) = {}
        /\ task' = [task EXCEPT ![t] = SetLifecycle(@, target[1], target[2],
                                                    IF user THEN 1 ELSE 0)]
        /\ UNCHANGED <<run, receipt, wait, input>>

ReviseContract(t) ==
    /\ task[t].contract < MaxContract
    /\ task' = [task EXCEPT ![t].contract = @ + 1]
    /\ UNCHANGED <<run, receipt, wait, input>>

\* The refusals of start that come before dependencies and approvals.
StartAllowed(t, user) ==
    /\ user \/ AutomaticStartAllowed(t)
    /\ task[t].phase # "closed"
    /\ ActiveRoots(t) = {}
    /\ ActiveWaits(t) = {}

Create(t, user, r) ==
    /\ TaskOf[r] = t /\ run[r].status = "absent"
    /\ run' = [run EXCEPT ![r] = Created(r)]
    /\ task' = [task EXCEPT ![t] = Activated(t, user)]
    /\ UNCHANGED <<receipt, input>>

\* Dependencies that block, or approvals that miss, each leave a wait that
\* remembers the executor, and no Run.
Blocked(t, rows) ==
    /\ \E W \in SUBSET {w \in Wait : FreshWait(t, w)} :
          /\ W # {}
          /\ wait' = [w \in Wait |-> IF w \in W THEN NewTaskWait("start", NoRun)
                                   ELSE rows[w]]
    /\ UNCHANGED <<task, run, receipt, input>>

\* What start does when it is not refused; `rows' are the waits it finds.
CreateOrBlock(t, user, rows) ==
    \/ wait' = rows /\ \E r \in Run : Create(t, user, r)
    \/ Blocked(t, rows)

Start(t, user) == StartAllowed(t, user) /\ CreateOrBlock(t, user, wait)

\* add_wait attaches the wait to the active Run and parks it.
Parked(t) == [r \in Run |->
    IF r \in ActiveRoots(t) /\ run[r].status \in {"queued", "running"}
    THEN Suspended(run[r]) ELSE run[r]]
AddWait(t) ==
    /\ task[t].phase # "closed"
    /\ \E w \in Wait : /\ FreshWait(t, w)
                       /\ wait' = [wait EXCEPT ![w] = NewTaskWait("hold", RootOr(t))]
    /\ run' = Parked(t)
    /\ UNCHANGED <<task, receipt, input>>

\* Mutant: a closed Task is started too.
StartsNext_Closed(t, w, user) ==
    /\ wait[w].kind = "start"
    /\ ActiveRoots(t) = {} /\ ActiveWaits(t) = {w}
    /\ user \/ AutomaticStartAllowed(t)
\* The last wait of an idle Task remembers an executor: start follows.
StartsNext(t, w, user) ==
    /\ wait[w].kind = "start"
    /\ task[t].phase # "closed" /\ ActiveRoots(t) = {} /\ ActiveWaits(t) = {w}
    /\ user \/ AutomaticStartAllowed(t)

\* resolve_wait by a person; it may be the row of an open clarification.  Only
\* the approval of a capability starts the Task, never another resolution.
ResolveWait(w) ==
    LET t == WaitOf[w] IN
    /\ wait[w].status = "active" /\ ~ClosedUnfinished(t)
    /\ \/ StartsNext(t, w, TRUE) /\ CreateOrBlock(t, TRUE, Resolve({w}))
       \/ wait' = Resolve({w}) /\ UNCHANGED <<task, run, receipt, input>>

\* resolve_wait that denies an approval: it stays, a `paused' wait joins it if
\* none is there, and the active Run is parked.
DenyApproval(w) ==
    LET t == WaitOf[w] IN
    /\ wait[w].status = "active" /\ wait[w].kind = "start" /\ ~ClosedUnfinished(t)
    /\ \/ ActiveWaits(t) # {w} /\ UNCHANGED wait
       \/ \E v \in Wait : /\ FreshWait(t, v)
                          /\ wait' = [wait EXCEPT ![v] = NewTaskWait("hold", NoRun)]
    /\ run' = Parked(t)
    /\ UNCHANGED <<task, receipt, input>>

\* TaskSignalService: a timer, a dependency or an event resolves the wait, and
\* starts the Task the wait had held back if nothing else holds it.
Signal(w) ==
    LET t == WaitOf[w] IN
    /\ wait[w].status = "active" /\ wait[w].kind # "ask"
    /\ IF StartsNext(t, w, FALSE) THEN CreateOrBlock(t, FALSE, Resolve({w}))
       ELSE wait' = Resolve({w}) /\ UNCHANGED <<task, run, receipt, input>>

\* cancelPersonalTask: close, then resolve the waits of the active Run and
\* finalize it, in one transaction.  Of a Task that is closed and has no active
\* Run, the latest Run has its waits resolved if it was cancelled.  Aborting the
\* execution is left to StopTurn.
CancelTargets(t) ==
    IF ActiveRoots(t) # {} \/ task[t].phase # "closed" THEN {ActiveRoots(t)}
    ELSE {{}} \cup {{r} : r \in {q \in Run : TaskOf[q] = t /\ run[q].status = "cancelled"}}
CancelTask(t) ==
    /\ task[t].resolution # "done"
    /\ task[t].phase = "closed" \/ task[t].manual < MaxManual
    /\ task' = [task EXCEPT ![t] = SetLifecycle(@, "closed", "cancelled", 1)]
    /\ \E R \in CancelTargets(t) : wait' = Resolve(UNION {RunWaits(r) : r \in R})
    /\ CancelRuns(ActiveRoots(t))
    /\ UNCHANGED input

\* task_runs.cancel: only the Run; its waits stay for reconcileCancelledRuns.
CancelRun(r) ==
    /\ Active(r)
    /\ CompleteRun(r, "cancelled", FALSE)
    /\ UNCHANGED <<wait, input>>

CommandNext ==
    \/ \E t \in Task : \/ ReviseContract(t) \/ AddWait(t) \/ CancelTask(t)
                       \/ \E user \in BOOLEAN : ChangePhase(t, user) \/ Start(t, user)
    \/ \E w \in Wait : ResolveWait(w) \/ DenyApproval(w) \/ Signal(w)
    \/ \E r \in Run : CancelRun(r)
=============================================================================
