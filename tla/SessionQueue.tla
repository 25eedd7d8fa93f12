---------------------------- MODULE SessionQueue ----------------------------
(***************************************************************************)
(* The durable half of one conversation's input queue: the rows of         *)
(* session_inputs, the runtime row (the active run) and the control row    *)
(* (pause, stop fence, single permission).  Every operator that primes     *)
(* variables is one write transaction of session-input-repository.ts or    *)
(* session-input-control-repository.ts in src/src/storage/sqlite.          *)
(*                                                                         *)
(* Inputs are ordinary messages.  Not kept: content, attachments, origins, *)
(* row and control versions (a stale version only refuses a request),      *)
(* connection, phone and clarification resumes.                            *)
(***************************************************************************)
EXTENDS Naturals, FiniteSets

CONSTANTS
    Input,          \* client message ids
    None,           \* "column is NULL"
    Limit,          \* MAX_PENDING_INPUTS
    MaxTranscripts  \* bound: transcripts the conversation goes through

ASSUME QueueAssumption ==
    /\ IsFiniteSet(Input)
    /\ None \notin Input /\ None \notin Nat
    /\ Limit \in Nat \ {0}
    /\ MaxTranscripts \in Nat \ {0}

VARIABLES
    row,            \* session_inputs, per input
    active,         \* session_input_runtime: active_run_id and active_input_id
    control,        \* session_input_control: paused, stop_run_id, permitted_input_id
    runs,           \* number of run ids drawn so far
    transcript,     \* sessions.active_transcript_id
    preparation     \* session_preparations.state ("ready" also when there is none)

rows == <<row, active, control, runs, transcript, preparation>>

Status  == {"absent", "queued", "running", "injecting", "completed",
            "cancelled", "failed", "suspended", "interrupted"}
Pending == {"queued", "running", "injecting", "interrupted"}
Run     == Nat
RowType == [status : Status, target : Run \cup {None}, prio : BOOLEAN,
            bound : Nat \cup {None}, position : Nat]

QueueTypeOK ==
    /\ row \in [Input -> RowType]
    /\ active \in [run : Run \cup {None}, input : Input \cup {None}]
    /\ (active.run = None) = (active.input = None)
    /\ control \in [paused : BOOLEAN, stop : Run \cup {None},
                    permitted : Input \cup {None}]
    /\ runs \in Nat
    /\ transcript \in 1..MaxTranscripts
    /\ preparation \in {"preparing", "preparation_failed", "ready"}

NoRow   == [status |-> "absent", target |-> None, prio |-> FALSE,
            bound |-> None, position |-> 0]

QueueInit ==
    /\ row = [i \in Input |-> NoRow]
    /\ active = [run |-> None, input |-> None]
    /\ control = [paused |-> FALSE, stop |-> None, permitted |-> None]
    /\ runs = 0
    /\ transcript = 1
    /\ preparation \in {"preparing", "ready"}

-----------------------------------------------------------------------------
(* Queries. *)

With(status)   == {i \in Input : row[i].status = status}
PendingInputs  == {i \in Input : row[i].status \in Pending}
Idle           == active.run = None /\ control.stop = None
BoundElsewhere(i) == row[i].bound # None /\ row[i].bound # transcript
LastPosition   ==
    IF PendingInputs = {} THEN 0
    ELSE LET last == CHOOSE i \in PendingInputs :
                       \A j \in PendingInputs : row[j].position <= row[i].position
         IN  row[last].position

\* The order of the queue: interrupting messages first, then by position.
Before(i, j) ==
    \/ row[i].prio /\ ~row[j].prio
    \/ row[i].prio = row[j].prio /\ row[i].position < row[j].position

-----------------------------------------------------------------------------
(* Transactions on rows. *)

\* insertSessionInput
NewInput(i, status, target, prio, bound) ==
    row' = [row EXCEPT ![i] =
              [status |-> status, target |-> target, prio |-> prio,
               bound |-> bound, position |-> LastPosition + 1]]

\* setSessionInputStatus, which looks at neither status nor version.
SetStatus(i, status) ==
    row' = [row EXCEPT ![i].status = status, ![i].target = None]
Inject(i, run) ==
    row' = [row EXCEPT ![i].status = "injecting", ![i].target = run]

\* claimNextSessionInput: what may be claimed at all, ...
MayClaim ==
    /\ preparation = "ready"
    /\ active.run = None
    /\ control.stop = None
    /\ control.paused => control.permitted # None
Stale     == {i \in With("queued") : BoundElsewhere(i)}
Claimable == {i \in With("queued") \ Stale :
                control.paused => i = control.permitted}
NextInput(i) == i \in Claimable /\ \A j \in Claimable \ {i} : ~Before(j, i)

\* ... which of the messages behind i may ride along: a contiguous burst of
\* interrupting messages of the same kind.  How far it reaches depends on
\* origins, ages and sizes.
Burst(i) ==
    IF control.paused \/ ~row[i].prio THEN {{}}
    ELSE {js \in SUBSET (With("queued") \ (Stale \cup {i})) :
            /\ \A j \in js : row[j].prio /\ row[j].bound = row[i].bound
            /\ \A j \in js, k \in With("queued") \ (Stale \cup js \cup {i}) :
                  ~Before(k, j)}
Parked == [i \in Input |-> IF i \in Stale THEN [row[i] EXCEPT !.status = "interrupted"]
                                          ELSE row[i]]
ClaimNext(i, js) ==
    /\ MayClaim
    /\ NextInput(i)
    /\ js \in Burst(i)
    /\ runs' = runs + 1
    /\ active' = [run |-> runs + 1, input |-> i]
    /\ control' = [control EXCEPT !.permitted = None]
    /\ row' = [k \in Input |->
                 IF k = i THEN [row[k] EXCEPT !.status = "running"]
                 ELSE IF k \in js
                      THEN [row[k] EXCEPT !.status = "injecting", !.target = runs + 1]
                      ELSE Parked[k]]
    /\ UNCHANGED <<transcript, preparation>>
ClaimNothing ==
    \/ ~MayClaim /\ UNCHANGED rows
    \/ /\ MayClaim
       /\ Claimable = {}
       /\ row' = Parked
       /\ control' = [control EXCEPT !.permitted = None]
       /\ UNCHANGED <<active, runs, transcript, preparation>>

\* finishSessionInputRun of the active run
Released_KeepsInput == [run |-> None, input |-> active.input]
Released           == [run |-> None, input |-> None]
Finished_AllSteersComplete(k, status) ==
    IF k = active.input THEN [row[k] EXCEPT !.status = status]
    ELSE IF row[k].status = "injecting" /\ row[k].target = active.run
         THEN [row[k] EXCEPT !.status = "completed"] ELSE row[k]
Finished_LeavesSteers(k, status) ==
    IF k = active.input THEN [row[k] EXCEPT !.status = status] ELSE row[k]
Finished(k, status) ==
    IF k = active.input THEN [row[k] EXCEPT !.status = status]
    ELSE IF row[k].status = "injecting" /\ row[k].target = active.run
         THEN [row[k] EXCEPT !.status =
                 IF status = "completed" THEN "completed" ELSE "interrupted"]
         ELSE row[k]
FinishRun(status) ==
    /\ row' = [k \in Input |-> Finished(k, status)]
    /\ active' = Released
    /\ control' = [control EXCEPT !.stop = IF @ = active.run THEN None ELSE @]
    /\ UNCHANGED <<runs, transcript, preparation>>

\* cancelQueuedSessionInput: the user removes a message.
CancelInput(i) ==
    /\ row[i].status \in {"queued", "interrupted"}
    /\ row' = [row EXCEPT ![i].status = "cancelled"]
    /\ control' = [control EXCEPT !.permitted = IF @ = i THEN None ELSE @]
    /\ UNCHANGED <<active, runs, transcript, preparation>>

\* mutateQueuedSessionInput with a position: i moves behind k others.
MoveInput(i, k) ==
    LET others  == With("queued") \ {i}
        rank(j) == Cardinality({m \in others : row[m].position <= row[j].position})
    IN  /\ row[i].status = "queued"
        /\ ~BoundElsewhere(i)
        /\ k \in 0..Cardinality(others)
        /\ row' = [j \in Input |->
             IF j = i THEN [row[j] EXCEPT !.position = k + 1]
             ELSE IF j \in others
                  THEN [row[j] EXCEPT !.position =
                          IF rank(j) <= k THEN rank(j) ELSE rank(j) + 1]
                  ELSE row[j]]
        /\ UNCHANGED <<active, control, runs, transcript, preparation>>

\* recoverSessionInputState, at start-up
CutOff_SteersOnly   == {"injecting"}
CutOff              == {"running", "injecting"}
Unfenced_Resumes    == [control EXCEPT !.stop = None, !.paused = FALSE]
Unfenced            == [control EXCEPT !.stop = None]
RecoverQueue ==
    /\ row' = [i \in Input |-> IF row[i].status \in CutOff
                               THEN [row[i] EXCEPT !.status = "interrupted"]
                               ELSE row[i]]
    /\ active' = Released
    /\ control' = Unfenced
    /\ UNCHANGED <<runs, transcript, preparation>>

-----------------------------------------------------------------------------
(* acceptSessionInputControl, per action, and authorizeSessionInput. *)

Stopped  == [paused |-> TRUE, stop |-> active.run, permitted |-> None]
PauseQueue  == control' = [control EXCEPT !.paused = TRUE, !.permitted = None]
ResumeQueue ==
    /\ control.stop = None
    /\ control' = [control EXCEPT !.paused = FALSE, !.permitted = None]
SendInput(i) ==
    /\ Idle
    /\ control.permitted = None
    /\ row[i].status \in {"queued", "interrupted"}
    /\ ~BoundElsewhere(i)
    /\ control' = [control EXCEPT !.paused = TRUE, !.permitted = i]
    /\ SetStatus(i, "queued")
SteerInput(i) ==
    /\ control.stop = None /\ active.run # None
    /\ row[i].status = "queued"
    /\ ~BoundElsewhere(i)
    /\ control' = [control EXCEPT !.permitted = None]
    /\ Inject(i, active.run)
AuthorizeSingle(i) ==
    /\ Idle
    /\ control.permitted = None
    /\ control' = [control EXCEPT !.paused = TRUE, !.permitted = i]
=============================================================================
