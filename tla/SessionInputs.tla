---------------------------- MODULE SessionInputs ---------------------------
(***************************************************************************)
(* One conversation of a gateway: requests to send, steer, stop and edit   *)
(* messages, the drain loop that runs them one turn at a time, and the     *)
(* steering calls into the running agent                                   *)
(* (src/src/gateway/service/session-input-coordinator.ts over the rows of  *)
(* SessionQueue).  JavaScript runs to the next await, so an action is the  *)
(* code between two awaits; a call of drain() runs at once up to its first *)
(* await, which is why nothing else moves while drainer.at = "claiming".   *)
(* A restart takes everything but the rows with it.                        *)
(***************************************************************************)
EXTENDS SessionQueue

CONSTANTS
    Op,             \* operation ids of POST .../input-control
    Kind,           \* the submissions considered, a set of SubmissionKind
    MaxRestarts     \* bound: crashes or restarts of the gateway

SubmissionKind == [path : {"direct", "command", "replace"}, prio : BOOLEAN,
                   steer : BOOLEAN, single : BOOLEAN]

ASSUME InputsAssumption ==
    /\ Op \cap Input = {} /\ None \notin Op
    /\ Kind \subseteq SubmissionKind
    /\ MaxRestarts \in Nat

VARIABLES
    sub,            \* the request that submits each input
    op,             \* session_input_control_operations and their requests
    steers,         \* calls of deps.steer that have not returned
    drainer,        \* the drain loop and the agent run it awaits
    coalescing,     \* resumeAfter lies in the future
    restarts,
    given,          \* history: how often an agent received the input
    asked,          \* history: how often the user asked for that
    lost            \* history: inputs whose steering failed before delivery

memory  == <<sub, steers, drainer, coalescing>>
history == <<given, asked, lost>>
vars    == <<rows, sub, op, steers, drainer, coalescing, restarts, history>>

Phase == {"new", "waiting", "preparing", "accepted", "steering", "over"}
NoKind  == [path |-> "none", prio |-> FALSE, steer |-> FALSE, single |-> FALSE]
NoOp    == [action |-> "none", run |-> None]
AtRest  == [at |-> "idle", aborted |-> FALSE, merged |-> {}]
Call    == [by : Input \cup Op, input : Input, run : Run, handed : BOOLEAN]

\* Rows, control and the requests in memory keep their types.
TypeOK ==
    /\ QueueTypeOK
    /\ sub \in [Input -> [phase : Phase, kind : Kind \cup {NoKind}]]
    /\ op \in [Op -> [action : {"none", "stop", "pause", "resume", "send", "steer"},
                      run : Run \cup {None}]]
    /\ steers \subseteq Call
    /\ drainer \in [at : {"idle", "claiming", "delayed", "preflight", "executing"},
                    aborted : BOOLEAN, merged : SUBSET Input]
    /\ coalescing \in BOOLEAN
    /\ restarts \in 0..MaxRestarts
    /\ given \in [Input -> Nat] /\ asked \in [Input -> Nat]
    /\ lost \subseteq Input

Init ==
    /\ QueueInit
    /\ sub = [i \in Input |-> [phase |-> "new", kind |-> NoKind]]
    /\ op = [o \in Op |-> NoOp]
    /\ steers = {}
    /\ drainer = AtRest
    /\ coalescing = FALSE
    /\ restarts = 0
    /\ given = [i \in Input |-> 0] /\ asked = [i \in Input |-> 0]
    /\ lost = {}

-----------------------------------------------------------------------------
(* Helpers. *)

Quiet == drainer.at # "claiming"

\* drain(): does nothing when the loop is already running.
Woken(d) == IF d.at = "idle" THEN [d EXCEPT !.at = "claiming"] ELSE d

\* deps.interrupt(run): abortAgentRun knows a run from the moment its
\* execution begins; before that it reports that there was nothing to abort.
Interrupted(d, run) ==
    IF run # None /\ run = active.run /\ d.at = "executing"
    THEN [d EXCEPT !.aborted = TRUE] ELSE d

\* isAcceptingInput: some submission has not returned.  A replacement is not
\* counted (replaceLatestTurn is outside withSubmission).
InFlight(i)   == sub[i].phase \notin {"new", "over"}
Counted(i)    == InFlight(i) /\ sub[i].kind.path # "replace"
Accepting_Replacements == \E i \in Input : InFlight(i)
Accepting     == \E i \in Input : Counted(i)

\* runSubmissionExclusive, and withModelConfigLock around a command.
Locked == \E i \in Input :
    \/ sub[i].phase = "steering"
    \/ sub[i].phase = "preparing" /\ sub[i].kind.path # "command"
CommandLocked == \E i \in Input :
    sub[i].kind.path = "command" /\ sub[i].phase \in {"preparing", "accepted", "steering"}

To(i, phase) == sub' = [sub EXCEPT ![i].phase = phase]
Returns(i)   == sub' = [sub EXCEPT ![i] = [phase |-> "over", kind |-> NoKind]]
Asks(i)      == asked' = [asked EXCEPT ![i] = @ + 1]
Calls(by, i) == steers' = steers \cup
    {[by |-> by, input |-> i, run |-> active.run, handed |-> FALSE]}

-----------------------------------------------------------------------------
(* Submissions. *)

\* submit, receiveSessionCommand or replaceLatestTurn is called.
Receive(i) ==
    /\ Quiet
    /\ sub[i].phase = "new"
    /\ \E kind \in Kind : sub' = [sub EXCEPT ![i] = [phase |-> "waiting", kind |-> kind]]
    /\ UNCHANGED <<rows, op, steers, drainer, coalescing, restarts, history>>

\* The lock is taken; a direct submission finds a free place in the queue.
Prepare(i) ==
    /\ Quiet
    /\ sub[i].phase = "waiting"
    /\ CASE sub[i].kind.path = "command" -> ~CommandLocked
         [] sub[i].kind.path = "direct"  -> ~Locked /\ Cardinality(PendingInputs) < Limit
         [] OTHER                        -> ~Locked
    /\ To(i, "preparing")
    /\ UNCHANGED <<rows, op, steers, drainer, coalescing, restarts, history>>

\* Refused before anything is stored: the queue is full, a context is gone,
\* the control version, the transcript or the latest turn has changed.
Refuse(i) ==
    /\ Quiet
    /\ sub[i].phase \in {"waiting", "preparing"}
    /\ Returns(i)
    /\ drainer' = IF Counted(i) THEN Woken(drainer) ELSE drainer
    /\ UNCHANGED <<rows, op, steers, coalescing, restarts, history>>

\* prioritizeAcceptedInput; an execution for a Task is left alone.
Prioritize == \/ drainer' = Woken(drainer)
              \/ drainer' = Woken(Interrupted(drainer, active.run))

\* submitLocked, from the await of the contexts to the next await.
AcceptDirect(i) ==
    LET k       == sub[i].kind
        prio    == ~control.paused /\ k.prio
        injects == ~control.paused /\ ~prio /\ k.steer /\ active.run # None
    IN  /\ Quiet
        /\ sub[i].phase = "preparing" /\ k.path = "direct"
        /\ IF injects
           THEN /\ NewInput(i, "injecting", active.run, prio, None)
                /\ Calls(i, i)
                /\ To(i, "steering")
                /\ UNCHANGED drainer
           ELSE /\ NewInput(i, "queued", None, prio, None)
                /\ Returns(i)
                /\ IF prio THEN Prioritize ELSE drainer' = Woken(drainer)
                /\ UNCHANGED steers
        /\ coalescing' = (coalescing \/ prio)
        /\ Asks(i)
        /\ UNCHANGED <<active, control, runs, transcript, preparation, op,
                       restarts, given, lost>>

\* acceptSessionCommand: limit, authorization, row and receipt together.
AcceptCommand(i) ==
    LET k == sub[i].kind
    IN  /\ Quiet
        /\ sub[i].phase = "preparing" /\ k.path = "command"
        /\ Cardinality(PendingInputs) < Limit
        /\ IF k.single THEN AuthorizeSingle(i) ELSE UNCHANGED control
        /\ NewInput(i, "queued", None, k.prio, transcript)
        /\ To(i, "accepted")
        /\ Asks(i)
        /\ UNCHANGED <<active, runs, transcript, preparation, op, steers, drainer,
                       coalescing, restarts, given, lost>>

\* dispatchAcceptedInput, with the lock.
Dispatch(i) ==
    LET k    == sub[i].kind
        live == row[i].status = "queued" /\ ~control.paused
    IN  /\ Quiet
        /\ sub[i].phase = "accepted" /\ ~Locked
        /\ CASE live /\ row[i].prio ->
                  /\ Returns(i)
                  /\ Prioritize
                  /\ coalescing' = TRUE
                  /\ UNCHANGED <<row, steers>>
             [] live /\ ~row[i].prio /\ k.steer /\ active.run # None
                     /\ preparation = "ready" ->
                  /\ Inject(i, active.run)
                  /\ Calls(i, i)
                  /\ To(i, "steering")
                  /\ UNCHANGED <<drainer, coalescing>>
             [] OTHER ->
                  /\ Returns(i)
                  /\ drainer' = Woken(drainer)
                  /\ UNCHANGED <<row, steers, coalescing>>
        /\ UNCHANGED <<active, control, runs, transcript, preparation, op,
                       restarts, history>>

\* beforeReplace(true): the active run is aborted first.
ReplaceAborts(i) ==
    /\ Quiet
    /\ sub[i].phase = "preparing" /\ sub[i].kind.path = "replace"
    /\ ~control.paused
    /\ drainer.at = "executing" /\ ~drainer.aborted
    /\ drainer' = Interrupted(drainer, active.run)
    /\ UNCHANGED <<rows, sub, op, steers, coalescing, restarts, history>>

\* replaceLatestSessionTurnAndQueueInput
AcceptReplace(i) ==
    /\ Quiet
    /\ sub[i].phase = "preparing" /\ sub[i].kind.path = "replace"
    /\ Idle
    /\ With("running") \cup With("injecting") \cup With("interrupted") = {}
    /\ control.paused \/ With("queued") = {}
    /\ IF control.paused THEN AuthorizeSingle(i) ELSE UNCHANGED control
    /\ NewInput(i, "queued", None, FALSE, None)
    /\ Returns(i)
    /\ drainer' = Woken(drainer)
    /\ Asks(i)
    /\ UNCHANGED <<active, runs, transcript, preparation, op, steers, coalescing,
                   restarts, given, lost>>

-----------------------------------------------------------------------------
(* Steering calls: steerWebchatSession and steerByConversationId. *)

\* The session of the run takes the message; then the call returns true.
Hand(s) ==
    /\ Quiet
    /\ s \in steers /\ ~s.handed
    /\ drainer.at = "executing" /\ ~drainer.aborted /\ active.run = s.run
    /\ steers' = (steers \ {s}) \cup {[s EXCEPT !.handed = TRUE]}
    /\ given' = [given EXCEPT ![s.input] = @ + 1]
    /\ UNCHANGED <<rows, sub, op, drainer, coalescing, restarts, asked, lost>>

Answered(s) ==
    /\ Quiet
    /\ s \in steers
    /\ steers' = steers \ {s}
    /\ IF s.by \in Input
       THEN /\ Returns(s.by) /\ drainer' = Woken(drainer)
       ELSE UNCHANGED <<sub, drainer>>

Confirm(s) ==
    /\ Answered(s)
    /\ s.handed
    /\ UNCHANGED <<rows, op, coalescing, restarts, history>>

\* The call returns false: no agent session of that run takes messages (yet,
\* or any more).  What the caller writes then does not look at the row.
Decline(s) ==
    /\ Answered(s)
    /\ ~s.handed
    /\ SetStatus(s.input, IF s.by \in Input THEN "queued" ELSE "interrupted")
    /\ UNCHANGED <<active, control, runs, transcript, preparation, op, coalescing,
                   restarts, history>>

\* The call throws: attachments, images or the session failed, at any point.
\* The row is left as it is.
Unconfirmed_Requeues(s) == SetStatus(s.input, "queued")
Unconfirmed(s)          == UNCHANGED row
Throw(s) ==
    /\ Answered(s)
    /\ Unconfirmed(s)
    /\ lost' = IF s.handed THEN lost ELSE lost \cup {s.input}
    /\ UNCHANGED <<active, control, runs, transcript, preparation, op, coalescing,
                   restarts, given, asked>>

-----------------------------------------------------------------------------
(* Control operations. *)

Issue(o, action, run) ==
    /\ Quiet
    /\ op[o] = NoOp
    /\ op' = [op EXCEPT ![o] = [action |-> action, run |-> run]]

Stop(o) ==
    /\ Issue(o, "stop", active.run)
    /\ control' = Stopped
    /\ drainer' = Interrupted(drainer, active.run)
    /\ UNCHANGED <<row, active, runs, transcript, preparation, sub, steers, coalescing,
                   restarts, history>>

\* A retried stop: interrupts only the run that is still fenced by it.
Replayed_Recaptures(o) == active.run
Replayed(o) == IF control.stop = op[o].run THEN op[o].run ELSE None
ReplayStop(o) ==
    /\ Quiet
    /\ op[o].action = "stop"
    /\ drainer' = Interrupted(drainer, Replayed(o))
    /\ UNCHANGED <<rows, sub, op, steers, coalescing, restarts, history>>

Pause(o) ==
    /\ Issue(o, "pause", None)
    /\ PauseQueue
    /\ UNCHANGED <<row, active, runs, transcript, preparation, memory, restarts, history>>

Resume(o) ==
    /\ Issue(o, "resume", None)
    /\ ResumeQueue
    /\ drainer' = Woken(drainer)
    /\ UNCHANGED <<row, active, runs, transcript, preparation, sub, steers, coalescing,
                   restarts, history>>

\* "Send this message": one input, the rest stays paused.  Sending an
\* interrupted input again is asking again.
Send(o, i) ==
    /\ Issue(o, "send", None)
    /\ SendInput(i)
    /\ IF row[i].status = "interrupted" THEN Asks(i) ELSE UNCHANGED asked
    /\ drainer' = Woken(drainer)
    /\ UNCHANGED <<active, runs, transcript, preparation, sub, steers, coalescing,
                   restarts, given, lost>>

Steer(o, i) ==
    /\ Issue(o, "steer", active.run)
    /\ SteerInput(i)
    /\ Calls(o, i)
    /\ UNCHANGED <<active, runs, transcript, preparation, sub, drainer, coalescing,
                   restarts, history>>

Remove(i) ==
    /\ Quiet
    /\ CancelInput(i)
    /\ drainer' = Woken(drainer)
    /\ UNCHANGED <<sub, op, steers, coalescing, restarts, history>>

Move(i) ==
    /\ Quiet
    /\ \E k \in 0..Cardinality(Input) : MoveInput(i, k)
    /\ UNCHANGED <<memory, op, restarts, history>>

-----------------------------------------------------------------------------
(* The drain loop. *)

At(d)      == [drainer EXCEPT !.at = d]
LoopsOn    == drainer' = [AtRest EXCEPT !.at = "claiming"]

\* Nothing to do: the loop ends.
Leave ==
    /\ drainer.at = "claiming"
    /\ \/ Accepting /\ UNCHANGED rows
       \/ ~Accepting /\ ~coalescing /\ ClaimNothing
    /\ drainer' = At("idle")
    /\ UNCHANGED <<sub, op, steers, coalescing, restarts, history>>

\* Wait for the rest of a burst of interrupting messages.
Delay ==
    /\ drainer.at = "claiming"
    /\ ~Accepting /\ coalescing
    /\ drainer' = At("delayed")
    /\ UNCHANGED <<rows, sub, op, steers, coalescing, restarts, history>>
Elapse ==
    /\ drainer.at = "delayed"
    /\ drainer' = At("claiming")
    /\ coalescing' = FALSE
    /\ UNCHANGED <<rows, sub, op, steers, restarts, history>>

Claim ==
    /\ drainer.at = "claiming"
    /\ ~Accepting /\ ~coalescing
    /\ \E i \in Input, js \in SUBSET Input :
         /\ ClaimNext(i, js)
         /\ drainer' = [at |-> "preflight", aborted |-> FALSE, merged |-> js \cup {i}]
    /\ UNCHANGED <<sub, op, steers, coalescing, restarts, history>>

\* beforeExecute allowed it and no stop was accepted meanwhile: the agent
\* starts with the input and what rode along.
MayExecute_Unfenced == TRUE
MayExecute == control.stop = None
Execute ==
    /\ drainer.at = "preflight"
    /\ MayExecute
    /\ drainer' = At("executing")
    /\ given' = [i \in Input |-> IF i \in drainer.merged THEN given[i] + 1 ELSE given[i]]
    /\ UNCHANGED <<rows, sub, op, steers, coalescing, restarts, asked, lost>>

\* Preflight refuses, finds the stop fence, or throws.
Forgo ==
    /\ drainer.at = "preflight"
    /\ \E status \in {"cancelled", "failed"} : FinishRun(status)
    /\ LoopsOn
    /\ UNCHANGED <<sub, op, steers, coalescing, restarts, history>>

Finish ==
    /\ drainer.at = "executing"
    /\ \E status \in {"completed", "suspended", "cancelled", "failed"} : FinishRun(status)
    /\ LoopsOn
    /\ UNCHANGED <<sub, op, steers, coalescing, restarts, history>>

-----------------------------------------------------------------------------
(* Surroundings. *)

\* The preparation worker finishes; a failed preparation may be retried.
PreparationEnds ==
    /\ Quiet
    /\ preparation = "preparing"
    /\ \/ preparation' = "ready" /\ drainer' = Woken(drainer)
       \/ preparation' = "preparation_failed" /\ UNCHANGED drainer
    /\ UNCHANGED <<row, active, control, runs, transcript, sub, op, steers, coalescing,
                   restarts, history>>
RetryPreparation ==
    /\ Quiet
    /\ preparation = "preparation_failed"
    /\ preparation' = "preparing"
    /\ UNCHANGED <<row, active, control, runs, transcript, memory, op, restarts, history>>

\* The conversation gets a new transcript (reset).
NewTranscript ==
    /\ Quiet
    /\ transcript < MaxTranscripts
    /\ transcript' = transcript + 1
    /\ UNCHANGED <<row, active, control, runs, preparation, memory, op, restarts, history>>

\* The process dies; recover() runs at start-up and drains.  A client whose
\* request was cut off before it was stored sends it again; what a steering
\* call had not handed over yet is gone with it.
Restart ==
    /\ restarts < MaxRestarts
    /\ restarts' = restarts + 1
    /\ RecoverQueue
    /\ sub' = [i \in Input |->
         [phase |-> IF row[i].status = "absent" THEN "new" ELSE "over", kind |-> NoKind]]
    /\ steers' = {}
    /\ drainer' = [AtRest EXCEPT !.at = "claiming"]
    /\ coalescing' = FALSE
    /\ lost' = lost \cup {s.input : s \in {s \in steers : ~s.handed}}
    /\ UNCHANGED <<op, given, asked>>

-----------------------------------------------------------------------------

Submit  == \E i \in Input :
    \/ Receive(i) \/ Prepare(i) \/ Refuse(i) \/ AcceptDirect(i) \/ AcceptCommand(i)
    \/ Dispatch(i) \/ ReplaceAborts(i) \/ AcceptReplace(i)
Steering == \E s \in steers : Hand(s) \/ Confirm(s) \/ Decline(s) \/ Throw(s)
Control == \E o \in Op :
    \/ Stop(o) \/ ReplayStop(o) \/ Pause(o) \/ Resume(o)
    \/ \E i \in Input : Send(o, i) \/ Steer(o, i)
Edit    == \E i \in Input : Remove(i) \/ Move(i)
Drain   == Leave \/ Delay \/ Elapse \/ Claim \/ Execute \/ Forgo \/ Finish
Surround == PreparationEnds \/ RetryPreparation \/ NewTranscript
Next == Submit \/ Steering \/ Control \/ Edit \/ Drain \/ Surround \/ Restart
Spec == Init /\ [][Next]_vars

-----------------------------------------------------------------------------
(* Safety. *)

\* A message is being injected only into the run that is active now: no end
\* of a run, crash or fallback leaves one pointing at an earlier run.
SteersCurrentRun == \A i \in With("injecting") : row[i].target = active.run

\* Only the input of the active run is running.
OneRunning == With("running") \subseteq {active.input}

\* "Stop": the fence is on the active run, and once the agent runs it has
\* been aborted, whether the stop came before, during or after preflight.
StopReachesTheAgent ==
    control.stop # None =>
        /\ control.stop = active.run
        /\ drainer.at = "executing" => drainer.aborted

\* A run is aborted by a stop that was accepted for this run, or by a message
\* that interrupts or replaces it: never by the retry of an older stop.
AbortHasCause ==
    [][drainer'.aborted /\ ~drainer.aborted =>
         \/ \E o \in Op : op'[o].action = "stop" /\ op'[o].run = active.run
         \/ sub' # sub
         \/ \E i \in Input : sub[i].phase = "preparing" /\ sub[i].kind.path = "replace"]_vars

\* An input reaches an agent at most as often as its user asked: neither
\* fallback, crash nor retry replays what may have been delivered.
NoReplay == \A i \in Input : given[i] <= asked[i]

\* An input is completed only if an agent received it, unless its steering is
\* still out, threw, or was cut off by a crash.
CompletedWasGiven == \A i \in With("completed") :
    \/ given[i] > 0
    \/ i \in lost
    \/ \E s \in steers : s.input = i

\* What is paused stays paused, through runs, submissions and restarts, until
\* the user resumes.
PauseLasts ==
    [][control.paused /\ ~control'.paused =>
         \E o \in Op : op[o] = NoOp /\ op'[o].action = "resume"]_vars

\* An input the user removed stays removed.
RemovedStaysRemoved ==
    [][\A i \in Input : row[i].status = "cancelled" => row'[i].status = "cancelled"]_vars

-----------------------------------------------------------------------------
(* Liveness: calls return, preflights and runs end, timers fire. *)

Answer(s) == Confirm(s) \/ Decline(s) \/ Throw(s)
Proceed(i) == Prepare(i) \/ Refuse(i) \/ AcceptDirect(i) \/ AcceptCommand(i)
              \/ Dispatch(i) \/ AcceptReplace(i)
Fairness ==
    /\ WF_vars(Drain)
    /\ WF_vars(\E s \in steers : Answer(s))
    /\ \A i \in Input : WF_vars(Proceed(i))
    /\ WF_vars(PreparationEnds)
FairSpec == Spec /\ Fairness

\* Every queued input leaves the queue unless the queue is paused or the
\* conversation could not be prepared (no wake-up of the drain loop is lost),
\* and every message being injected is settled one way or the other.
QueueSettles ==
    []<>(/\ With("queued") = {} \/ control.paused \/ preparation = "preparation_failed"
         /\ With("injecting") = {})
=============================================================================
