----------------------------- MODULE TaskTurns -----------------------------
(***************************************************************************)
(* The Task's conversation: one agent turn at a time, taken from the queue *)
(* of session inputs, with what a turn does to the Task on its way: the    *)
(* preflight that consumes an answered clarification, TaskRunCoordinator   *)
(* start and finalize, the clarifications the agent raises, and the judge  *)
(* that reviews the turn before it is finalized.                           *)
(*                                                                         *)
(* A Task is taken to keep one execution conversation (handoff between     *)
(* conversations is not modelled), so turns are indexed by Task.  Inputs   *)
(* with a task_run_id are the rows of `input'; the others are chat         *)
(* messages, counted.  The user may reorder the queue, so any queued input *)
(* may be next.                                                            *)
(***************************************************************************)
EXTENDS TaskStore

CONSTANTS
    MaxChats,               \* bound: chat messages per Task
    MaxReopens              \* bound: times a question is asked again

ASSUME TurnAssumption == MaxChats \in Nat /\ MaxReopens \in Nat

VARIABLES
    turn,       \* the turn of each Task's conversation
    queue       \* its queue: chat messages queued and sent so far, the pause

TurnRow == [pc : {"idle", "claimed", "ready", "executing", "judging", "deciding",
                  "finalizing", "closing"},
            run : Run \cup {NoRun},         \* task_run_id of the input
            coord : Run \cup {NoRun},       \* Run of the TaskRunCoordinator
            ask : Wait \cup {NoWait},       \* last clarification it raised
            aborted : BOOLEAN,              \* its abort signal
            res : {"succeeded", "failed", "cancelled"},     \* taskRunStatus
            out : FinishedInput,            \* how the input will end
            held : Run \cup {NoRun},        \* Run and version the judge read
            version : Nat]
IdleTurn == [pc |-> "idle", run |-> NoRun, coord |-> NoRun, ask |-> NoWait,
             aborted |-> FALSE, res |-> "failed", out |-> "failed",
             held |-> NoRun, version |-> 0]
QueueRow == [chats : Nat, sent : 0..MaxChats, paused : BOOLEAN]
EmptyQueue == [chats |-> 0, sent |-> 0, paused |-> FALSE]

TurnTypeOK ==
    /\ turn \in [Task -> TurnRow]
    /\ queue \in [Task -> QueueRow]

TurnInit ==
    /\ turn = [t \in Task |-> IdleTurn]
    /\ queue = [t \in Task |-> EmptyQueue]

To(t, pc)   == turn' = [turn EXCEPT ![t].pc = pc]
StoreOnly   == UNCHANGED <<turn, queue>>

-----------------------------------------------------------------------------
(* Clarifications. *)

\* Mutant: an answered question is not active any more.
ActiveAsk_Open(t) == {w \in Wait : WaitOf[w] = t /\ wait[w].clar = "open"}
\* getActiveClarification of the conversation: at most one.
ActiveAsk(t) == {w \in Wait : WaitOf[w] = t /\ wait[w].clar \in {"open", "queued"}}
AskRuns(W)   == {r \in Run : Active(r) /\ \E w \in W : wait[w].run = r}
ClosedAsk(W) == [w \in Wait |-> IF w \in W THEN [Resolve(W)[w] EXCEPT !.clar = "closed"]
                                ELSE wait[w]]

\* supersedeActiveClarification: the resume input is cancelled if still queued,
\* the Task wait resolved, the Run that asked finalized.
Withdrawn(W) == [r \in Run |-> [i \in DOMAIN input[r] |->
                   IF input[r][i].wait \in W /\ input[r][i].status = "queued"
                   THEN [input[r][i] EXCEPT !.status = "cancelled"] ELSE input[r][i]]]
Supersede(t) ==
    LET W == ActiveAsk(t) IN
    /\ wait' = ClosedAsk(W)
    /\ CancelRuns(AskRuns(W))
    /\ input' = Withdrawn(W)

\* createClarificationWait by the executing turn: it supersedes an older one
\* (whose resume input stays queued) and parks the Run of the turn's input.
Ask(t) ==
    LET old == ActiveAsk(t)
        r   == turn[t].run
        parks == r # NoRun /\ r \notin AskRuns(old) /\ run[r].status = "running"
    IN
    /\ turn[t].pc = "executing"
    /\ \E w \in Wait :
          /\ FreshWait(t, w)
          /\ wait' = [ClosedAsk(old) EXCEPT ![w] =
                         [status |-> IF parks THEN "active" ELSE "none",
                          run |-> r, kind |-> "ask", clar |-> "open"]]
          /\ turn' = [turn EXCEPT ![t].ask = w]
    /\ run' = [q \in Run |-> CASE q \in AskRuns(old) -> Finalized(run[q], "cancelled")
                               [] parks /\ q = r     -> Suspended(run[q])
                               [] OTHER              -> run[q]]
    /\ receipt' = [q \in Run |-> IF q \in AskRuns(old) THEN "cancelled" ELSE receipt[q]]
    /\ UNCHANGED <<task, input, queue>>

\* resolveClarification: an answer queues the input that resumes the Run; a
\* cancellation, or an approval that expires, answered or not, finalizes it (the
\* input of an answer stays queued).  The answer to a question of a chat turn is
\* an input without a Run: a ChatMessage.
Answer(w) ==
    /\ wait[w].clar = "open" /\ wait[w].run # NoRun
    /\ wait' = [wait EXCEPT ![w].clar = "queued"]
    /\ input' = [input EXCEPT ![wait[w].run] =
                    Append(@, [status |-> "queued", key |-> 0, wait |-> w])]
    /\ UNCHANGED <<task, run, receipt>> /\ StoreOnly
CancelAsk(w) ==
    /\ wait[w].clar \in {"open", "queued"}
    /\ wait' = ClosedAsk({w})
    /\ CancelRuns(AskRuns({w}))
    /\ UNCHANGED <<task, input>> /\ StoreOnly

-----------------------------------------------------------------------------
(* The input queue. *)

\* submitLocked: any accepted message supersedes the active clarification.  It
\* is queued, or steers the turn that executes while the queue is not paused.
ChatMessage(t) ==
    /\ queue[t].sent < MaxChats
    /\ \E chats \in {queue[t].chats, queue[t].chats + 1} :
          /\ chats = queue[t].chats => turn[t].pc = "executing" /\ ~queue[t].paused
          /\ queue' = [queue EXCEPT ![t].chats = chats, ![t].sent = @ + 1]
    /\ Supersede(t)
    /\ UNCHANGED <<task, turn>>

SetInput(r, i, st) == input' = [input EXCEPT ![r][i].status = st]
Running(r) == {i \in DOMAIN input[r] : input[r][i].status = "running"}

\* claimNextSessionInput of an idle conversation.
ClaimInput(t) ==
    /\ turn[t].pc = "idle"
    /\ \/ /\ queue[t].chats > 0
          /\ queue' = [queue EXCEPT ![t].chats = @ - 1]
          /\ turn' = [turn EXCEPT ![t].pc = "claimed"]
          /\ UNCHANGED input
       \/ \E r \in Run : \E i \in DOMAIN input[r] :
          /\ TaskOf[r] = t /\ input[r][i].status = "queued"
          /\ SetInput(r, i, "running")
          /\ turn' = [turn EXCEPT ![t].pc = "claimed", ![t].run = r]
          /\ UNCHANGED queue
    /\ UNCHANGED <<task, run, receipt, wait>>

\* The drain takes the next input, unless the queue is paused; then it takes only
\* an input the user permits, by `send' or by a message sent on its own.
TakeInput(t) == ~queue[t].paused /\ ClaimInput(t)
SendInput(t) == queue[t].paused /\ ClaimInput(t)

\* acceptSessionInputControl: `stop', `pause' and `send' pause the queue until
\* `resume', through ends of turns and restarts.  A conversation that is being
\* prepared, or deleted, refuses claims as a paused one does.
PauseQueue(t) ==
    /\ queue' = [queue EXCEPT ![t].paused = TRUE]
    /\ UNCHANGED <<store, turn>>
ResumeQueue(t) ==
    /\ queue' = [queue EXCEPT ![t].paused = FALSE]
    /\ UNCHANGED <<store, turn>>

\* The running input of the turn ends and the conversation is free again.
Finish(t, st) ==
    /\ turn' = [turn EXCEPT ![t] = IdleTurn]
    /\ IF turn[t].run = NoRun THEN UNCHANGED input
       ELSE \E i \in Running(turn[t].run) : SetInput(turn[t].run, i, st)
    /\ UNCHANGED queue

\* The clarification an input answers, or none.
Resumes(t) == IF turn[t].run = NoRun THEN {}
              ELSE {input[turn[t].run][i].wait : i \in Running(turn[t].run)} \ {NoWait}
\* Mutant: an answer is taken whatever became of the Run.
Consumable_AnyRun(w) == /\ wait[w].clar = "queued"
                        /\ RunWaits(wait[w].run) \subseteq {w}
\* consumeClarificationResume accepts: still queued, the Run still parked, and
\* parked by nothing else.
Consumable(w) == /\ wait[w].clar = "queued"
                 /\ run[wait[w].run].status = "waiting"
                 /\ RunWaits(wait[w].run) \subseteq {w}

PreflightPasses(t) ==
    /\ turn[t].pc = "claimed"
    /\ \A w \in Resumes(t) : Consumable(w)
    /\ wait' = ClosedAsk(Resumes(t))
    /\ run' = [r \in Run |-> IF \E w \in Resumes(t) : wait[w].run = r
                             THEN Resumed(run[r]) ELSE run[r]]
    /\ To(t, "ready")
    /\ UNCHANGED <<task, receipt, input, queue>>

\* reopenDeviceInteraction: a question whose device is away is asked again.
Reopen(w) ==
    /\ wait[w].clar = "queued"
    /\ Cardinality({i \in DOMAIN input[wait[w].run] :
                       input[wait[w].run][i].wait = w}) <= MaxReopens
    /\ wait' = [wait EXCEPT ![w].clar = "open"]
\* The answer is stale, the device it needs is away, the queue is being stopped,
\* or the preflight threw.
PreflightFails(t) ==
    /\ turn[t].pc = "claimed"
    /\ \/ /\ \E st \in {"cancelled", "failed"} : Finish(t, st)
          /\ UNCHANGED wait
       \/ /\ \E w \in Resumes(t) : Reopen(w)
          /\ Finish(t, "cancelled")
    /\ UNCHANGED <<task, run, receipt>>

\* cancelQueuedSessionInput of a message (an answer cannot be removed), and
\* `send' of an interrupted input.
RemoveInput(r) ==
    /\ \E i \in DOMAIN input[r] : /\ input[r][i].status \in {"queued", "interrupted"}
                                  /\ input[r][i].wait = NoWait
                                  /\ SetInput(r, i, "cancelled")
    /\ UNCHANGED <<task, run, receipt, wait>> /\ StoreOnly
ResendInput(r) ==
    /\ turn[TaskOf[r]].pc = "idle"
    /\ \E i \in DOMAIN input[r] : /\ input[r][i].status = "interrupted"
                                  /\ SetInput(r, i, "queued")
    /\ queue' = [queue EXCEPT ![TaskOf[r]].paused = TRUE]
    /\ UNCHANGED <<task, run, receipt, wait, turn>>

-----------------------------------------------------------------------------
(* The turn itself. *)

\* TaskRunCoordinator.start of an input with a Run: `start' captures the
\* snapshots of a queued Run and resets its continuation budget; a running one
\* is joined as it is; anything else runs without a coordinator.
Started(row) == Bumped([row EXCEPT !.status = "running", !.snapshot = TRUE,
                                   !.cont = FALSE, !.attempts = 0])
Coordinated(r) ==
    /\ ~ClosedUnfinished(TaskOf[r]) /\ ActiveWaits(TaskOf[r]) = {}
    /\ run[r].status \in {"queued", "running"}
StartRunTurn(t) ==
    LET r == turn[t].run IN
    /\ turn[t].pc = "ready" /\ r # NoRun /\ run[r].status # "cancelled"
    /\ run' = IF Coordinated(r) /\ run[r].status = "queued"
              THEN [run EXCEPT ![r] = Started(@)] ELSE run
    /\ turn' = [turn EXCEPT ![t].pc = "executing",
                            ![t].coord = IF Coordinated(r) THEN r ELSE NoRun]
    /\ UNCHANGED <<task, receipt, wait, input, queue>>

\* A Run cancelled in the meantime: "Interrupted before startup".
SkipRunTurn(t) ==
    /\ turn[t].pc = "ready" /\ turn[t].run # NoRun
    /\ run[turn[t].run].status = "cancelled"
    /\ turn' = [turn EXCEPT ![t].pc = "closing", ![t].out = "cancelled"]
    /\ UNCHANGED <<store, queue>>

\* Mutant: the active Run is not looked for.
ChatStarts_Second(t, user) ==
    /\ user \/ AutomaticStartAllowed(t)
    /\ task[t].phase # "closed" /\ ActiveWaits(t) = {}
\* A chat turn of an idle Task creates and starts a Run of its own, which no
\* slot leases; otherwise it runs without a coordinator.
ChatStarts(t, user) ==
    /\ user \/ AutomaticStartAllowed(t)
    /\ task[t].phase # "closed" /\ ActiveRoots(t) = {} /\ ActiveWaits(t) = {}
StartChatTurn(t, user) ==
    /\ turn[t].pc = "ready" /\ turn[t].run = NoRun
    /\ IF ChatStarts(t, user)
       THEN \E r \in Run :
            /\ TaskOf[r] = t /\ run[r].status = "absent"
            /\ run' = [run EXCEPT ![r] = Started(Created(r))]
            /\ task' = [task EXCEPT ![t] = Activated(t, user)]
            /\ turn' = [turn EXCEPT ![t].pc = "executing", ![t].coord = r]
       ELSE To(t, "executing") /\ UNCHANGED <<task, run>>
    /\ UNCHANGED <<receipt, wait, input, queue>>

\* abortAgentRun (with its own open question) and abortEmbeddedRun (without).
StopTurn(t) ==
    /\ turn[t].pc = "executing" /\ ~turn[t].aborted
    /\ turn' = [turn EXCEPT ![t].aborted = TRUE]
    /\ \/ ActiveAsk(t) = {turn[t].ask} /\ Supersede(t)
       \/ UNCHANGED <<run, receipt, wait, input>>
    /\ UNCHANGED <<task, queue>>

\* The stream ends.  A turn whose own question is still open ends suspended;
\* its Run is then finalized as a success would be, which only the wait stops.
\* An exception ends the turn in error, suspended or not.  An abort after the
\* outcome of the input was fixed still makes the Run's a cancellation.
OwnQuestionOpen(t) == turn[t].ask # NoWait /\ wait[turn[t].ask].clar = "open"
Ended(t, res, out, pc) ==
    turn' = [turn EXCEPT ![t].pc = pc, ![t].res = res, ![t].out = out,
                         ![t].ask = NoWait, ![t].aborted = FALSE]
EndTurn(t) ==
    /\ turn[t].pc = "executing"
    /\ IF turn[t].aborted
       THEN \E out \in FinishedInput \ {"interrupted"} :
               /\ out = "completed" => ~OwnQuestionOpen(t)
               /\ out = "suspended" => turn[t].ask # NoWait
               /\ Ended(t, "cancelled", out, "finalizing")
       ELSE \/ Ended(t, "failed", "failed", "finalizing")
            \/ /\ OwnQuestionOpen(t)
               /\ \E res \in {"succeeded", "failed"} :
                     Ended(t, res, "suspended", "finalizing")
            \/ ~OwnQuestionOpen(t) /\ Ended(t, "succeeded", "completed", "judging")
    /\ UNCHANGED <<store, queue>>

-----------------------------------------------------------------------------
(* TaskJudgeService.reviewTurn: it reads the running root of the Task of the *)
(* conversation (a Run gets its conversation with its snapshots), asks a     *)
(* model, and acts on the version it read.                                   *)

JudgeReads(t) ==
    /\ turn[t].pc = "judging"
    /\ \/ \E r \in ActiveRoots(t) :
            /\ run[r].status = "running" /\ run[r].snapshot
            /\ turn' = [turn EXCEPT ![t].pc = "deciding", ![t].held = r,
                                    ![t].version = run[r].version]
       \/ To(t, "finalizing")      \* no contract, no model, a research Task
    /\ UNCHANGED <<store, queue>>

Judged(t) == turn' = [turn EXCEPT ![t].pc = "finalizing", ![t].held = NoRun,
                                  ![t].version = 0]
\* Mutant: no compare-and-set.
StillHeld_Always(t) == run[turn[t].held].version >= turn[t].version
StillHeld(t) == run[turn[t].held].version = turn[t].version
\* needsUser inserts its wait before the compare-and-set, whatever that finds.
JudgeNeedsUser(t) ==
    LET r == turn[t].held IN
    /\ turn[t].pc = "deciding"
    /\ \E w \in Wait : /\ FreshWait(t, w)
                       /\ wait' = [wait EXCEPT ![w] = NewTaskWait("hold", r)]
    /\ run' = IF StillHeld(t) THEN [run EXCEPT ![r] = Suspended(@)] ELSE run
    /\ Judged(t)
    /\ UNCHANGED <<task, receipt, input, queue>>
JudgeContinues(t) ==
    /\ turn[t].pc = "deciding"
    /\ StillHeld(t) /\ CanContinue(turn[t].held)
    /\ ScheduleContinuation(turn[t].held)
    /\ Judged(t)
    /\ UNCHANGED <<wait, input, queue>>
JudgeCompletes(t, passed) ==
    /\ turn[t].pc = "deciding" /\ StillHeld(t)
    /\ CompleteRun(turn[t].held, "succeeded", passed)
    /\ Judged(t)
    /\ UNCHANGED <<wait, input, queue>>
\* The judge failed, or its compare-and-set did.
JudgeGivesUp(t) ==
    /\ turn[t].pc = "deciding"
    /\ Judged(t)
    /\ UNCHANGED <<store, queue>>

-----------------------------------------------------------------------------
(* TaskRunCoordinator.finalize, with what it finds in the rows now (of a     *)
(* waiting Run without snapshots it throws, and nothing changes).            *)

Finalizable(c) ==
    /\ run[c].status \in {"running", "waiting"}
    /\ run[c].status = "waiting" => /\ run[c].snapshot /\ ~run[c].cont
                                    /\ ActiveWaits(TaskOf[c]) = {}
FinalizeTurn(t) ==
    LET c == turn[t].coord  res == turn[t].res IN
    /\ turn[t].pc = "finalizing"
    /\ IF c = NoRun THEN UNCHANGED <<task, run, receipt>>
       ELSE IF ~Finalizable(c) THEN UNCHANGED <<task, run, receipt>>
       ELSE \/ res # "cancelled" /\ CanContinue(c) /\ ScheduleContinuation(c)
            \/ \E verified \in BOOLEAN : CompleteRun(c, res, verified)
            \/ res = "succeeded" /\ CompleteRun(c, "failed", FALSE)
    /\ turn' = [turn EXCEPT ![t].pc = "closing", ![t].coord = NoRun, ![t].res = "failed"]
    /\ UNCHANGED <<wait, input, queue>>

\* finishSessionInputRun, after the awaits that follow finalize.
CloseTurn(t) ==
    /\ turn[t].pc = "closing"
    /\ Finish(t, turn[t].out)
    /\ UNCHANGED <<task, run, receipt, wait>>

TurnStep(t) ==
    \/ TakeInput(t) \/ PreflightPasses(t) \/ PreflightFails(t)
    \/ StartRunTurn(t) \/ SkipRunTurn(t) \/ EndTurn(t)
    \/ \E user \in BOOLEAN : StartChatTurn(t, user)
    \/ JudgeReads(t) \/ JudgeNeedsUser(t) \/ JudgeContinues(t) \/ JudgeGivesUp(t)
    \/ \E passed \in BOOLEAN : JudgeCompletes(t, passed)
    \/ FinalizeTurn(t) \/ CloseTurn(t)
TurnNext ==
    \/ \E t \in Task : \/ TurnStep(t) \/ Ask(t) \/ StopTurn(t) \/ ChatMessage(t)
                      \/ SendInput(t) \/ PauseQueue(t) \/ ResumeQueue(t)
    \/ \E w \in Wait : Answer(w) \/ CancelAsk(w)
    \/ \E r \in Run : RemoveInput(r) \/ ResendInput(r)
=============================================================================
