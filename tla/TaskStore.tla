----------------------------- MODULE TaskStore -----------------------------
(***************************************************************************)
(* The durable half of the Task engine: the rows of tasks, task_runs,      *)
(* task_run_receipts, task_waits and session_inputs, and the SQLite        *)
(* transactions that change them (src/src/tasks/task-run-repository.ts,    *)
(* task-repository.ts, task-application-service.ts).  Every operator below *)
(* that primes variables is one write transaction of the code.             *)
(*                                                                         *)
(* Identifiers are fresh UUIDs in the code, so which Task a Run or a wait  *)
(* will belong to is fixed up front by TaskOf and WaitOf.  Not kept: text, *)
(* evidence, events, timestamps, and the Task version (every command reads *)
(* it and writes in one synchronous call, so a stale expectedVersion is a  *)
(* step that changes nothing).  No code sets the status 'verifying' and    *)
(* none creates a Run with a parent, so neither is a state of the model.   *)
(***************************************************************************)
EXTENDS Naturals, Sequences, FiniteSets

CONSTANTS
    Task, Run, Wait, Slot,      \* identities; a Slot is one drainSlot worker
    NoRun, NoWait, NoSlot,      \* "column is NULL"
    TaskOf,                     \* [Run -> Task]
    WaitOf,                     \* [Wait -> Task]
    MaxAttempts                 \* retryPolicy.maxAttempts, clamped to 1..3

CONSTANTS
    MaxContract, MaxManual      \* bounds of the model: contract revisions and
                                \* manual phase changes per Task

ASSUME StoreAssumption ==
    /\ NoRun \notin Run /\ NoWait \notin Wait /\ NoSlot \notin Slot
    /\ TaskOf \in [Run -> Task]
    /\ WaitOf \in [Wait -> Task]
    /\ MaxAttempts \in 1..3
    /\ MaxContract \in Nat /\ MaxManual \in Nat

VARIABLES
    task,       \* tasks and their latest contract version
    run,        \* task_runs
    receipt,    \* task_run_receipts
    wait,       \* task_waits, with the clarification that raised them
    input       \* session_inputs that carry a task_run_id, per Run

store == <<task, run, receipt, wait, input>>

Phase      == {"backlog", "ready", "active", "review", "closed"}
Resolution == {"none", "done", "cancelled"}
RunStatus  == {"absent", "queued", "running", "waiting",
               "succeeded", "failed", "cancelled"}
Terminal   == {"succeeded", "failed", "cancelled"}
ActiveRunStatuses == {"queued", "running", "waiting"}
InputStatus == {"queued", "running", "completed", "suspended", "failed",
                "cancelled", "interrupted"}
FinishedInput == InputStatus \ {"queued", "running"}

TaskRow  == [phase : Phase, resolution : Resolution,
             manual : Nat, auto : Nat, contract : Nat]
RunRow   == [status : RunStatus, version : Nat, owner : Slot \cup {NoSlot},
             lease : {"none", "live", "expired"}, contract : Nat, manual : Nat,
             snapshot : BOOLEAN, cont : BOOLEAN, attempts : 0..(MaxAttempts - 1)]
WaitRow  == [status : {"none", "active", "resolved"}, run : Run \cup {NoRun},
             kind : {"hold", "start", "ask"},
             clar : {"none", "open", "queued", "closed"}]
InputRow == [status : InputStatus, key : Nat, wait : Wait \cup {NoWait}]

StoreTypeOK ==
    /\ task \in [Task -> TaskRow]
    /\ run \in [Run -> RunRow]
    /\ receipt \in [Run -> Terminal \cup {"none"}]
    /\ wait \in [Wait -> WaitRow]
    /\ input \in [Run -> Seq(InputRow)]

NewTask == [phase |-> "ready", resolution |-> "none",
            manual |-> 0, auto |-> 0, contract |-> 1]
NewRun  == [status |-> "absent", version |-> 0, owner |-> NoSlot,
            lease |-> "none", contract |-> 0, manual |-> 0,
            snapshot |-> FALSE, cont |-> FALSE, attempts |-> 0]
NewWait == [status |-> "none", run |-> NoRun, kind |-> "hold", clar |-> "none"]

StoreInit ==
    /\ task = [t \in Task |-> NewTask]
    /\ run = [r \in Run |-> NewRun]
    /\ receipt = [r \in Run |-> "none"]
    /\ wait = [w \in Wait |-> NewWait]
    /\ input = [r \in Run |-> <<>>]

-----------------------------------------------------------------------------
(* Queries. *)

Active(r)      == run[r].status \in ActiveRunStatuses
ActiveRoots(t) == {r \in Run : TaskOf[r] = t /\ Active(r)}
ActiveWaits(t) == {w \in Wait : WaitOf[w] = t /\ wait[w].status = "active"}
RunWaits(r)    == {w \in ActiveWaits(TaskOf[r]) : wait[w].run = r}
ClosedUnfinished(t) == task[t].phase = "closed" /\ task[t].resolution # "done"
AutomaticStartAllowed(t) == task[t].manual = task[t].auto
RunPhaseUnchanged(r)     == task[TaskOf[r]].manual = run[r].manual
StaleContract(r)         == run[r].contract # task[TaskOf[r]].contract

Finished(r)  == {i \in DOMAIN input[r] : input[r][i].status \in FinishedInput}
Unfinished(r) == DOMAIN input[r] \ Finished(r)
\* The index of nextAgentInputClientMessageId: `task:r` or `task:r:resume:k`.
NextInputKey(r) == Cardinality(Finished(r))
\* findSessionInput by that client id; clarification answers have other ids.
AgentInput(r, k) == {i \in DOMAIN input[r] :
                        input[r][i].key = k /\ input[r][i].wait = NoWait}

-----------------------------------------------------------------------------
(* TaskRunRepository. *)

\* create: a queued Run bound to the contract and the manual phase revision
\* the Task has now.
Created(r) == [NewRun EXCEPT !.status = "queued", !.version = 1,
                             !.contract = task[TaskOf[r]].contract,
                             !.manual = task[TaskOf[r]].manual]

\* Mutant: the filter forgets the Runs that wait for nothing.
Claimable_QueuedOnly(r) ==
    /\ run[r].status = "queued"
    /\ ~ClosedUnfinished(TaskOf[r])
    /\ ActiveWaits(TaskOf[r]) = {}
    /\ Unfinished(r) = {}
    /\ run[r].lease # "live"
\* The filter of claimNext, for Runs of the agent executor (the only ones it
\* takes).  A lease that is NULL or past its expiry is free.
Claimable(r) ==
    /\ \/ run[r].status = "queued"
       \/ run[r].status = "waiting" /\ RunWaits(r) = {}
    /\ ~ClosedUnfinished(TaskOf[r])
    /\ ActiveWaits(TaskOf[r]) = {}
    /\ Unfinished(r) = {}
    /\ run[r].lease # "live"

Released(row) == [row EXCEPT !.owner = NoSlot, !.lease = "none"]
Bumped(row)   == [row EXCEPT !.version = @ + 1]

\* Mutant: parking a Run keeps its lease.
Suspended_KeepsLease(row) == Bumped([row EXCEPT !.status = "waiting"])
\* setStatus to 'waiting' releases the lease; to 'running' it sets none.
Suspended(row) == Bumped([Released(row) EXCEPT !.status = "waiting"])
Resumed(row)   == Bumped([row EXCEPT !.status = "running"])

\* Mutant: the budget admits one continuation too many.
CanContinue_OneMore(r) ==
    /\ run[r].status = "running"
    /\ run[r].snapshot
    /\ ActiveWaits(TaskOf[r]) = {}
    /\ ~ClosedUnfinished(TaskOf[r])
    /\ ~StaleContract(r)
    /\ run[r].attempts < MaxAttempts
\* scheduleContinuation: what it requires of the rows.  The rest of what it
\* refuses (another version, the deadline, a cancellation asked for in the
\* meantime, a repeated repair) is a choice of each caller, which may complete the
\* Run or leave it instead.
CanContinue(r) ==
    /\ run[r].status = "running"
    /\ run[r].snapshot
    /\ ActiveWaits(TaskOf[r]) = {}
    /\ ~ClosedUnfinished(TaskOf[r])
    /\ ~StaleContract(r)
    /\ run[r].attempts < MaxAttempts - 1
Continued(row) == Suspended([row EXCEPT !.cont = TRUE, !.attempts = @ + 1])
ScheduleContinuation(r) ==
    /\ run' = [run EXCEPT ![r] = Continued(@)]
    /\ UNCHANGED <<task, receipt>>

\* finalize of an active Run: terminal status, lease cleared, one receipt.
Finalized(row, st) == Bumped([Released(row) EXCEPT !.status = st])
Finalize(r, st) ==
    /\ run' = [run EXCEPT ![r] = Finalized(@, st)]
    /\ receipt' = [receipt EXCEPT ![r] = st]
\* Mutant: the Runs end without their receipts.
CancelRuns_NoReceipt(R) ==
    /\ run' = [r \in Run |-> IF r \in R THEN Finalized(run[r], "cancelled") ELSE run[r]]
    /\ UNCHANGED receipt
\* The same for each active Run of a set (a Task has at most one).
CancelRuns(R) ==
    /\ run' = [r \in Run |-> IF r \in R THEN Finalized(run[r], "cancelled") ELSE run[r]]
    /\ receipt' = [r \in Run |-> IF r \in R THEN "cancelled" ELSE receipt[r]]

\* resolveWait for each wait of a set; a wait that is not active stays as it is.
Resolve(W) == [w \in Wait |-> IF w \in W /\ wait[w].status = "active"
                              THEN [wait[w] EXCEPT !.status = "resolved"] ELSE wait[w]]
\* The wait row createWait inserts; W is the identity the UUID stands for.
FreshWait(t, w)    == WaitOf[w] = t /\ wait[w] = NewWait
NewTaskWait(kind, r) == [NewWait EXCEPT !.status = "active", !.kind = kind, !.run = r]

\* setLifecycle: no change at all when the Task is already there.
SetLifecycle(row, phase, resolution, manual) ==
    IF row.phase = phase /\ row.resolution = resolution THEN row
    ELSE [row EXCEPT !.phase = phase, !.resolution = resolution, !.manual = @ + manual]

\* create + setLifecycle('active'), shared by start and by a chat turn; a user
\* also calls authorizeAutomaticPhase.
Activated(t, user) == [task[t] EXCEPT !.phase = "active",
                                      !.auto = IF user THEN task[t].manual ELSE @]

-----------------------------------------------------------------------------
(* TaskApplicationService.completeRun: finalize, then let the receipt decide *)
(* the phase unless it is late, stale, blocked by a wait or overruled.       *)

\* Mutants: each forgets one of the reasons.
ReceiptDecides_IgnoresManual(r) ==
    LET t == TaskOf[r] IN
    task[t].phase # "closed" /\ ActiveWaits(t) = {} /\ ~StaleContract(r)
ReceiptDecides_IgnoresWaits(r) ==
    LET t == TaskOf[r] IN
    task[t].phase # "closed" /\ ~StaleContract(r) /\ RunPhaseUnchanged(r)
ReceiptDecides_IgnoresContract(r) ==
    LET t == TaskOf[r] IN
    task[t].phase # "closed" /\ ActiveWaits(t) = {} /\ RunPhaseUnchanged(r)
ReceiptDecides(r) ==
    LET t == TaskOf[r] IN
    /\ task[t].phase # "closed"
    /\ ActiveWaits(t) = {}
    /\ ~StaleContract(r)
    /\ RunPhaseUnchanged(r)

CompleteRun(r, st, verified) ==
    /\ Finalize(r, st)
    /\ task' = IF st = "succeeded" /\ ReceiptDecides(r)
               THEN [task EXCEPT ![TaskOf[r]].phase =
                                     IF verified THEN "closed" ELSE "review",
                                 ![TaskOf[r]].resolution =
                                     IF verified THEN "done" ELSE "none"]
               ELSE task
=============================================================================
