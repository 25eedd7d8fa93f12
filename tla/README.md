# xopc: specifications of its work engines

TLA+ modules, TLC configurations and TLAPS proofs for the parts of xopc that
decide whether work is done once, by one executor, to the end: Tasks and their
Runs with the dispatcher, the conversation turns and the judge; the queue of
inputs of a conversation with its steering, stops and pauses; and the background
workers, which are automations, the delivery of their results, the allocation of
Tasks and the agent inbox. Everything is translated from the TypeScript sources
under `src/src` (paths below are relative to that directory unless they start
with `src/`).

## 1. Inventory

xopc is a personal agent gateway: one Node process with a SQLite database, an
HTTP and realtime API, agents that execute turns of conversations, and clients
(web, desktop, mobile, terminal). The parts whose control flow is the program's
own, and the rest:

| component | state | operations | talks to | hard behaviour | modelled |
|---|---|---|---|---|---|
| Task run repository (`tasks/task-run-repository.ts`) | rows of task_runs, receipts, waits; version and lease columns | create, claimNext, start, setStatus, heartbeat, scheduleContinuation, finalize, createWait, resolveWait, two reconciliations | everything below | leases, compare-and-set on the version, crash recovery | partly: TaskStore |
| Task commands (`tasks/task-application-service.ts`, `task-signal-service.ts`, `personal-agent/task-cancel.ts`, `tasks/capabilities/runs.ts`) | none | phase changes, start, waits, approvals, contract revisions, completeRun, signals, cancellation | repositories | late receipts, stale contracts, manual decisions against automatic ones | partly: TaskCommands |
| Task repository (`tasks/task-repository.ts`) | phase, resolution, revisions | create, setLifecycle, reviseContract, authorizeAutomaticPhase | commands | two revisions that must be compared correctly | partly: TaskStore |
| Dispatcher (`tasks/task-run-dispatcher.ts`) | draining slots, activeRunIds, heartbeats, stopped | dispatch, drain, drainSlot, stop | run repository, gateway | concurrent slots, polling, errors after the fact, restart | yes: TaskDispatch |
| Coordinator (`tasks/task-run-coordinator.ts`) | Run id, evidence | start, finalize | run repository, commands | finalizing a Run someone else has changed | yes: TaskTurns |
| Judge (`agent/tasks/task-judge-service.ts`) | Run and version it read | reviewTurn | run repository, model | acts on an old read | yes: TaskTurns |
| Clarifications (`storage/sqlite/clarification-wait-repository.ts`) | clarification rows, Task waits | create, answer, cancel, expire, supersede, consume | inputs, Runs | an answer against a new message, a stop, a cancellation | partly: TaskTurns |
| Session inputs (`storage/sqlite/session-input*.ts`, `session-creation-repository.ts`, `session-turn-replace-repository.ts`, `gateway/service/session-input-coordinator.ts`) | rows of session_inputs, the active run, the control row (paused, stop fence, permitted input); in memory the drain loop, counted submissions, steering calls | submit, command, replace, steer, stop, pause, resume, send, remove, move, drain, recover | clients, agent turns | one consumer per conversation, awaits between the read and the write, idempotent controls, restart | partly: SessionQueue, SessionInputs (inputs of a Run: TaskTurns) |
| Agent turn (`gateway/service/run-gateway-agent.ts`, `agent-runner.ts`) | abort controllers, active runs | run, abort | embedded agent, coordinator, judge | abort races the end | partly: TaskTurns |
| Task allocation (`tasks/task-allocation-*.ts`) | row per Task with lease token and attempts; two slots | submit, claim, plan, choose, assign, fail, retry | commands, models | decides for up to 40 s about data others change | partly: TaskAllocation |
| Task result delivery, handoff | rows with retries | deliver, move | commands, agents | leased work, retries | no (plan) |
| Durable queue and agent inbox (`storage/sqlite/durable-queue.ts`, `agent/ipc/inbox.ts`) | rows in sequence with a lease token; watchers | enqueue, claim, renew, finish, clear | processes of one host | stalled owners, deaths, redelivery | partly: AgentInbox |
| Domain outbox | queue rows | publish, dispatch | subscribers | at-least-once | no (plan) |
| Automations (`automations/service`, `events`, `domain`) | automations, runs, events with deliveries; timer, running executions | create, update, remove, run now, timer, publish, replay, execute, cancel, stop, recover | tasks, result delivery | overlap, missed and repeated occurrences, recovery cut short | partly: Automations |
| Results of automations (`automations/delivery`) | rows with lease and attempts | enqueue, claim a batch, send, record, retry, stop | channels, webhooks | one lease for a batch that nobody renews | partly: ResultDeliveries |
| Connection waits, phone assistance | waiting turns | create, resume, cancel | inputs, Runs | as clarifications | no (plan) |
| Endpoint tools, realtime broker | invocations; topics and sequence numbers | invoke, reconnect; publish, replay | clients | timeouts, gaps | no (plan) |
| Agent content, transcripts, channels, connectors, voice, phone, browser, sharing, user model, notes, configuration, CLI, TUI, clients | various | - | - | mostly data, external protocols and interfaces | no |

How the parts interact: a command or a chat message creates a Run; a *slot* of
the dispatcher leases it and submits an input to the Task's conversation; the
conversation takes one input at a time and executes a turn; the turn may ask the
user (parking the Run) and ends; the judge reviews it; the coordinator finalizes
the Run or schedules a continuation, which parks the Run until a slot claims it
again. Meanwhile users change phases, revise the contract, add and resolve
waits, answer, stop and cancel. All of them share the rows, none of them locks
them across an `await`: only the version column tells a writer that it is late.

What makes each part correct:

- *Runs*: one active Run per Task; a Run ends once, with the receipt that says
  how; nothing returns to the queue.
- *Leases*: held only by Runs that can execute; given back on every other path;
  recovered after a crash.
- *Tasks*: what a person decides about the phase stands; an old contract's
  receipt does not move the Task; a closed Task is not started; a Task closes
  itself only when nothing of it is left.
- *Clarifications*: one that may still resume a Run per conversation; a late
  answer changes nothing.
- *Inputs*: a message reaches the agent at most as often as its user asked; one
  that was removed never does; a stop reaches the run it was meant for and no
  other; a pause lasts; nothing accepted waits for ever.
- *Automations*: at most one unfinished run each; an occurrence runs once, and
  does run; a cancellation stands; each result is announced.
- *Leased rows* (results, allocations, messages): only the latest claim of a row
  settles it or gives it back; each row is settled in the end.
- *Progress*: leased Runs leave `running`; parked Runs that nothing holds
  resume; the waits of a cancelled Run are resolved; slots return: unless the user
  holds an input back in a paused queue.

## 2. Modules

| module | what it is |
|---|---|
| `TaskStore` | the rows and the write transactions on them, as operators |
| `TaskCommands` | one action per command, signal and cancellation |
| `TaskDispatch` | the dispatcher's slots, heartbeats, leases and reconciliation |
| `TaskTurns` | the conversation's turn, clarifications, coordinator and judge |
| `TaskRuns` | their composition over one database, `Restart`, the properties |
| `RunLifecycle` | the abstract specification of Runs that `TaskRuns` implements |
| `MCTaskRuns` | values, symmetry and view for TLC |
| `SessionQueue` | the rows, the active run and the control row of one conversation, and the transactions on them |
| `SessionInputs` | requests, steering calls, control operations and the drain loop over `SessionQueue`, restart, the properties |
| `MCSessionInputs` | the kinds of submission and the bounds for TLC |
| `Automations` | automations, their runs, events, timer and recovery |
| `ResultDeliveries` | the routers that send the results of runs |
| `TaskAllocation` | the slots that choose an executor for a Task |
| `AgentInbox` | the durable queue as the agent inbox uses it |
| `ClaimedWork` | the abstract specification of leased rows, which the last three implement |
| `MCBackground` | the four side by side, one of them active in each behaviour; fairness and bounds |
| `TaskRuns_proofs` | the types, the inductive invariant, the theorems about Runs and questions, and what a slot waits for |
| `TaskPhases_proofs` | the theorems about the phase of a Task |
| `SessionInputs_proofs` | the inductive invariant of the session inputs, what a step may not do, what the agent is given, the wake-ups of the loop, and the life of a message |
| `Automations_proofs` | the inductive invariant of the automations, one step lemma per action, their theorems, and the timer |
| `AgentInbox_proofs`, `ResultDeliveries_proofs`, `TaskAllocation_proofs` | the inductive invariants, refinements and theorems of the leased workers |
| `Background_proofs` | that each component behaves in `MCBackground` as it does alone |

### State and code

| variable | code |
|---|---|
| `task` | `phase`, `resolution`; `manual` and `auto` are manual_phase_revision and automatic_phase_revision; `contract` is latest_contract_version |
| `run` | status, version, `owner` and `lease` (lease_owner, lease_expires_at as none, live or expired), `contract`, `manual`, `snapshot` (the two snapshots exist), `cont` (policySnapshot.continuation), `attempts` (continuationAttempts) |
| `receipt` | status of the row of task_run_receipts |
| `wait` | task_waits and, in `clar`, the clarification the wait belongs to; kind `start` is a dependency or approval with an executor, `ask` a clarification, `hold` any other |
| `input` | session_inputs with a task_run_id; `key` is the suffix of the client message id, `wait` the clarification it answers |
| `slot`, `activeIds`, `stopped` | `#draining` with the await a drainSlot is at, `#activeRunIds`, `#stopped` |
| `turn` | the turn of the Task's conversation with its coordinator, abort signal and the judge's read |
| `queue` | its queue: chat messages queued and sent, and `paused` of session_input_control |
| `restarts` | bound |

An action is everything the code does between two `await`s; a call that SQLite
runs in one transaction is one action. `TaskDispatch.Claim` therefore contains
claimNext and the setStatus that follows it; `Prepare`, `Submit` and `Poll` are
what follows the three awaits of drainSlot. The judge's read and its decision
are two actions, with any step of anyone between them. A judge's or a
coordinator's model output, an exception and a transcript check are
nondeterministic choices among the outcomes the code distinguishes.

Session inputs:

| variable | code |
|---|---|
| `row` | session_inputs: status, `target` (target_run_id of a steering input), `prio` (priority), `bound` (transcript it was written for), `position` |
| `active`, `runs` | session_input_runtime; the run ids drawn so far, so that an old one can be told from a new one |
| `control` | session_input_control: paused, stop_run_id, permitted_input_id |
| `transcript`, `preparation` | the active transcript; the state of session_preparations |
| `sub`, `op`, `steers` | the requests that submit, the operations with their ids, the calls of `deps.steer` that have not returned |
| `drainer`, `coalescing` | where the loop of `drain` is and what the agent run it awaits was given; `resumeAfter` |
| `given`, `asked`, `lost` | history for the properties |

A call of `drain()` runs at once to its first await, so while `drainer.at` is
"claiming" nothing else moves (`Quiet`); every other action is the code from one
await to the next, with the lock or the counter that await holds. What
`steerInput`, `submitLocked` and `dispatchAcceptedInput` write after the await of
a steering call they write to the row as it is then (`Decline`), as the code does.

Automations: a callback of the service is a sequence `todo` of its remaining
transactions; only the end of the process comes between two of them. `auto`,
`run`, `delivery`, `published` and `announced` are the tables, `executing`,
`aborted`, `timer` and `phase` the memory of the process, `clock` counts ticks;
the generation of an automation tells a recreated id from the old one. In the
leased workers a claim is a number (the code draws a random token or
repeats the process as owner), the lease is a flag that may drop at any time
while the row is worked on, since a process may stall, and `claims` and `by` are
ghosts that name the claim whose outcome the row records.

### Abstractions

- Identifiers are fresh UUIDs, so `TaskOf` and `WaitOf` fix in advance to which
  Task a future Run or wait belongs.
- A Task keeps one execution conversation. Handoff, child Runs (no code creates
  one) and the status `verifying` (no code sets it) are left out, as are
  connection and phone waits, allocation, results, deliveries and events.
- The Task version is left out: each command reads and writes it in one
  synchronous call, so a stale expectedVersion only refuses.
- Timers fire on time: a lease with a working heartbeat does not expire, nor one
  that was just taken (`LeaseExpires`). Retry deadlines are not modelled.
- claimNext takes any claimable Run (the order of schedules is the users').
- Two synchronous transactions in a row with no await between are one step, so a
  crash between them is not covered. ReconcileExpired of a Run without a
  conversation completes it, as the code does; a continuation needs snapshots.
- An answer to a question of a turn without a Run is an ordinary chat message.
- An input that steers the executing turn has no row of its own here.
- The queue of a Task's conversation is paused (`PauseQueue`) or not. A user's stop
  is a pause and the abort of the turn (`StopTurn`); until `resume` only an input
  the user sends by itself is taken (`SendInput`). A conversation that is being
  prepared or is deleted refuses claims as a paused one does. The fence, permits and
  priorities are in `SessionInputs`.
- A device question whose preflight is refused is open again (`Reopen`) in one step
  with the end of its input. When an answered approval expires, `CancelAsk` leaves
  its input queued; the preflight refuses it.
- Each Run belongs to an agent executor, the only kind the dispatcher takes.
- An update of an automation cannot carry its `state`: the capability's schema
  refuses the field (`automations/capabilities/write.ts:28-29`), and the
  reconcilers that update managed automations do not set it.
- A `paused` wait is a `hold`: a second denial may add one where the code would
  find the first.
- Session inputs: content, attachments and row versions are left out (a stale
  version only refuses a request); which messages of a burst ride along depends on
  origins, ages and sizes, so any contiguous part may. Connection, phone and
  clarification resumes are not here; the last are in `TaskTurns`.
- Automations: an interval recurs each tick and a `once` has a time; cron and time
  zones only differ in the next time. Events match by kind. What a run executes is
  its outcome. The lease of an event delivery is left out: the loop that takes one
  is a single callback, so the lease outlives it in a crash only and then delays.
  That nothing is retried when `faults` are used up is a bound.
- Results: destinations, the order within a batch and back-off are left out; a row
  may fall due at once or later.
- Allocation: the roster of executors is a revision number that any change of
  settings, connectors or the catalogue raises; the planner and the router answer
  anything the code accepts.
- Inbox: payloads and the replies a bus waits for are left out, and so is the
  outbound sender, which shares the table and takes no claims.

## 3. Runs and what they show

The runs of the Task engine use `MCTaskRuns` with one Task; every guard in the engine relates Runs,
waits and inputs of one Task, and Tasks share only the slots. Deadlock checking
is off because a Task with its Runs ended has nothing left to do within the
bounds. The safety runs use symmetry and a view that replaces what is compared
by the result of the comparison (`MCTaskRuns`); the liveness runs use neither.
In every run the queue may be paused and resumed at any time, without a bound.

| run | bounds | checks | states |
|---|---|---|---|
| `TaskRuns_waits` | 1 Run, 1 wait, 1 slot, 2 contracts, 1 manual change, 2 inputs, 1 reopened question | TypeOK, ManualPhaseWins, StaleReceiptKeepsPhase, ClosedTaskNeverRestarts | 0.68 M |
| `TaskRuns_chat` | 2 Runs, 1 slot, 1 chat message, 2 inputs | OneActiveRun, RefinesLifecycle | 0.33 M |
| `TaskRuns_asks` | 1 Run, 2 waits, 1 slot, 1 chat message, 1 input, 1 reopened question | SingleAsk, ReceiptMatches, TerminalStable, AutoClose | 1.5 M |
| `TaskRuns_slots` | 1 Run, 1 wait, 2 slots, 1 restart, 2 inputs | LeaseSound | 2.0 M |
| `TaskRuns_live` | 1 Run, 1 wait, 1 slot, 1 restart, 2 inputs, no phase moves | LeasedRunLeavesRunning, ParkedRunResumes, CancelledRunFreesTask, SlotReturns | 0.34 M |
| `TaskRuns_unleased`, `_latepoll`, `_snapshot`, `_decision` | as small as shows it | the four findings, expected to be violated | - |
| `SessionInputs_queue` | 2 inputs, 2 operations, limit 2, 2 transcripts, 1 restart; operations, restarts and changes of transcript together at most 2 | TypeOK, SteersCurrentRun, OneRunning, StopReachesTheAgent, NoReplay, CompletedWasGiven, AbortHasCause, PauseLasts, QueueSettles | 0.72 M |
| `SessionInputs_removed` | the same | RemovedStaysRemoved, expected to be violated | - |
| `Background`, automations | a scheduled and an event automation, 2 runs, 1 slot, 2 ticks, 3 starts, 1 fault; at most 4 disturbances | OneRunPerAutomation, FinishedIsAnnounced, OccurrenceOnce, DeliveryFollowsRun, FreedByItsOwnRun, CancelIsKept, DueRuns | all four: 0.26 M |
| `Background`, results | 2 results, 2 routers of which 1 may stop or die, 2 attempts, 1 retry | DeliveriesAreClaimedWork, BoundedTries, ResultsSettle | |
| `Background`, allocation | 1 Task, 2 slots, 2 claims, 2 outside changes | AllocationsAreClaimedWork, AssignedAsJudged, AllocationEnds | |
| `Background`, inbox | 2 messages, 2 watchers of which 1 may die, 3 claims and 1 failure of each | MessagesAreClaimedWork, MessagesAreProcessed | |

Why the bounds are enough: a second Run is what a second creator needs; two
waits are an old and a new question, or a question and a pause; two slots are a
slot and the one that claims after it; two contracts are old and new. Two inputs
are the running one and the one that steers, interrupts, replaces or follows it;
two operations are a stop and its later competitor; a third would only repeat.
Two runs of an automation are the one a late end belongs to and the one it must
not free. Two claims of a row are a stale one and its successor. The theorems of
section 5 hold without any of these bounds. `MCSessionInputs` takes inputs and
operations in the order of their names (`FirstCome`), which loses no behaviour up
to renaming, where TLC's symmetry would be unsound for liveness. In `MCBackground`
the components share no state, so each behaviour runs one of them, chosen at the
start (`part`); its bounds are in `Shape`. `MaxInputs` stops a Run
that is continued for ever from growing its input list; `ParkedRunResumes`
excepts it by name. `MaxReopens` bounds how often one question is asked again: once
is an answer whose input failed beside its successor.

Fairness (`FairSpec`): weak fairness of each turn, of each slot, and of lease
expiry with reconciliation. A model request has a deadline and a turn an abort,
slots are driven by promises and a 50 ms poll, the gateway drains on a timer and
leases expire with time. Nothing obliges a user, a question, a stop or a
restart; in particular nobody has to resume a queue that is paused. What the code
then does: `claimNextSessionInput` refuses (`storage/sqlite/session-input-repository.ts:277-279`),
`waitForCompletion` has no timeout (`gateway/service/session-input-coordinator.ts:737`),
and the slot polls and renews the lease of its Run as long as the pause lasts.
`LeasedRunLeavesRunning`, `ParkedRunResumes` and `SlotReturns` therefore except a Run
that is `HeldBack`: it has an unfinished input, its queue is paused and no turn is
under way. They are leads-to properties, so what they promise is due once more when
the queue is resumed. `ParkedRunResumes` also excepts that every slot polls a Run
held back; that differs only if there is a second Run, and `TaskRuns_live` has one,
which the first exception covers. A parked Run may be held back itself:
after a restart, or through an answer, it may have an older input in the queue, and
claimNext passes over a Run with an unfinished input. `TakeInput`, which is fair, is
the loop's claim of an unpaused queue; `SendInput` is the user's.

Session inputs: weak fairness of the drain loop (a turn ends, since it can be
aborted and has deadlines), of the answers of steering calls, of each submission
and of the preparation worker; no fairness of users, so `QueueSettles` shows that
no wake-up of the loop is lost. Background: a callback goes on, an armed timer fires, an execution ends by its timeout, a stopped gateway is started
again; one router survives, claims what is due on its timer and its handlers end;
the allocation dispatcher is called every second and its calls are aborted after
40 s; one watcher stays and its handlers end; leases run out by the clock. A claim
needs strong fairness: another process may take the row again and again in
between, but not for ever. As one behaviour runs one component, one fairness
condition of `MCBackground` stands for one of each (`Either`).

What the new runs show. In `SessionInputs_queue` every end of a run, fallback,
crash and retry leaves the queue consistent: a steering input points at the run
that is active; a stop accepted in preflight keeps the agent from starting and one
accepted later aborts it; a client's repeated stop does not abort a later run; an
input whose steering was not confirmed is neither replayed nor, unless its call
failed, reported as completed unread. In `Background` a run that ends late frees
only its own automation, an occurrence that a crash leaves due is queued once, and
for each of the three leased workers the refinement of `ClaimedWork` says that
nothing a stale owner does is recorded. `AssignedAsJudged` says what the
comparisons at the end of `allocate` are for.

## 4. Findings

1. **A Run without a lease is not recovered** (`TaskRuns_unleased`,
   `tasks/task-run-repository.ts:387`). Runs created by a chat turn or resumed by
   an answer have no lease owner; after a crash they stay `running`, and their
   Task cannot be started again. The bounds of `TaskRuns_asks` reach such a Run
   without a crash too: its Task is closed as cancelled while the Run waits on a
   question; the answer sets the Run running without a lease; the turn finds the
   Task closed, gets no coordinator, and ends without finalizing anything.
2. **A late poll fails a continued Run** (`TaskRuns_latepoll`,
   `tasks/task-run-dispatcher.ts:130`). The turn of slot 1 fails and schedules a
   continuation; slot 2 claims it, setting the Run `running`; slot 1 polls, sees
   its input failed and a Run that is no longer a waiting continuation, and
   completes it as dispatch_failed.
3. **A Run executes without snapshots** (`TaskRuns_snapshot`,
   `tasks/task-run-dispatcher.ts:95`). A queued Run parked by a wait is set
   running on its next claim, past the `start` that captures them, against
   `src/packages/gateway-contract/src/task-runs.ts:54`.
4. **A required decision does not park the Run** (`TaskRuns_decision`,
   `agent/tasks/task-judge-service.ts:259`). The wait is inserted even if the
   compare-and-set that parks the Run then fails.
5. **A removed input comes back** (`SessionInputs_removed`,
   `gateway/service/session-input-coordinator.ts:515`). An input is accepted as
   steering and the running turn is asked to take it; the queue reaches a state in
   which the user may remove the row before the answer arrives; the turn declines,
   and `setSessionInputStatus(..., 'queued')` puts the removed input back, since it
   compares neither status nor version. `RemovedReturnsByDecline` proves how far this
   goes: a cancelled message changes its status only by such a call, or by the end
   of the run it was started for; no command, other message or restart revives it.

## 5. Proofs

For every set of Tasks, Runs, waits and slots and every value of the bounds,
from `StoreAssumption`, `MoveAssumption`, `DispatchAssumption` and
`TurnAssumption` only (maxAttempts is 1 to 3, as the code clamps it):

| theorem | states |
|---|---|
| `TypeInvariant` | `Spec => []TypeOK` |
| `OneActiveRunPerTask` | `Spec => []OneActiveRun` |
| `ReceiptsMatch` | `Spec => []ReceiptMatches` |
| `LeasesSound` | `Spec => []LeaseSound` |
| `EndedRunsStay` | `Spec => TerminalStable` |
| `Refinement` | `Spec => RefinesLifecycle` |
| `OneQuestion` | `Spec => []SingleAsk` |
| `SlotsWaitForWork` | `Spec => []PollsHeld` |
| `Invariant` | `Spec => []IInv` |
| `PersonsDecide` (`TaskPhases_proofs`) | `Spec => ManualPhaseWins` |
| `ClosedStaysClosed` (`TaskPhases_proofs`) | `Spec => ClosedTaskNeverRestarts` |
| `DoneMeansNothingLeft` (`TaskPhases_proofs`) | `Spec => AutoClose` |
| `StaleReceiptsStay` (`TaskPhases_proofs`) | `Spec => StaleReceiptKeepsPhase` |

The argument. No property above is inductive: whether the judge may end the Run
it holds depends on what happened to the version since, and whether a
clarification may park a Run on whose Run it names. `IInv` adds what the memory
of the process and the rows still know of each other: busy slots hold a Run;
waits, turns and answers hold a Run of their own Task; the version a deciding
judge holds is at most the current one, and if it is the current one the Run
still runs (so the compare-and-set on the version is also one on the status); an
absent Run is a new row. Two lemmas then carry the step: `OneRunSteps`, that a
step of the engine changes at most one Run, and that Run begins (with no other
active one), keeps its status, moves along `RunLifecycle`, or ends with its
receipt; and `Keep`, that what waits, inputs, turns and judges hold stays theirs.
Commands, dispatcher and turns are proved separately, one step per action. The
invariants, `TerminalStable` and the refinement all follow from `OneRunSteps`.
`SingleAsk` has a step lemma of its own (`OneAskSteps`): only `Ask` opens a question
that was not active, and it closes every other of its conversation in the same
transaction; a device question that is open again was the active one, answered
(`ReopenedWaits`).

`PollsHeld` is the part of `SlotReturns` that is about states: the input a slot polls
has ended, is queued, or is the one the turn of its conversation delivers, so only the
fairness of turns and a queue that is not paused are left to assume. It needs that a Run has a running input exactly
while the turn holds that Run, and then only one (`InputsHeld`): a turn sets an input
running when it begins and ends it when it ends itself, and a restart, which loses
turns and slots together, interrupts what was running. That an input
once found keeps its place (`InputsStay`) lets a slot go on polling it by its key
across all that others append in between.

The phase of a Task has another (`PhaseSteps`): a step moves at most one Task, and
it does so as a person (a new manual revision), as the program (only while the
last manual revision is authorized), by a start (never of a closed Task) or by a
receipt that `ReceiptDecides` admits; every other step leaves phase, revisions and
the revision each Run was created at alone. That a receipt never overrules a
person needs one more invariant, `BoundToPhase`: a Run whose revision is still the
Task's was created by a person or with a person's authorization, so that comparing
the two revisions (`runPhaseUnchanged`) is enough, although completeRun never looks
at the authorization itself. `AutoClose` also uses `OneActiveRun`: the Run whose
receipt closes the Task was its only active one.

The leased workers, for every set of rows and workers and every value of the
bounds, from `InboxAssumption`, `DeliveriesAssumption` and `AllocationAssumption`:

| theorem | module | states |
|---|---|---|
| `InboxTyped`, `InboxIsClaimedWork` | `AgentInbox_proofs` | `InboxSpec => []InboxTypeOK`, `InboxSpec => MessagesAreClaimedWork` |
| `DeliveriesTyped`, `DeliveriesRefineWork`, `TriesBounded` | `ResultDeliveries_proofs` | `DeliveriesSpec => []DeliveriesTypeOK`, `=> DeliveriesAreClaimedWork`, `=> []BoundedTries` |
| `AllocationTyped`, `AllocationRefinesWork`, `AssignmentsAreJudged` | `TaskAllocation_proofs` | `AllocationSpec => []AllocationTypeOK`, `=> AllocationsAreClaimedWork`, `=> AssignedAsJudged` |

A refinement needs what a worker's memory says of the row: the row's
token is its latest claim while it is held and
zero otherwise, so an acknowledgement that compares tokens comes from the latest
claim. The routers compare owner and status instead; that suffices because a
router claims a batch only when it has none, so the invariant says that a slip for
a row its router owns carries the row's latest claim (`SlipsOK`), and that no two
slips share a claim (`Apart`).
`TriesBounded` counts (`BInv`): each claim that has called the destination, or may
still, used an attempt of the row that no release gave back, so they are at most as
many as `attempts`. For
`AssignedAsJudged` the step itself shows the comparisons of version and roster, and
the invariant that the claim of the slot is the row's latest.

The session inputs, for every finite set of inputs, any set of operations and
kinds, any number of transcripts and restarts, from `QueueAssumption` and
`InputsAssumption` (the finiteness of the inputs is what makes a last position
and the rank of a moved message exist):

| theorem | module | states |
|---|---|---|
| `TypesHold` | `SessionInputs_proofs` | `Spec => []TypeOK` |
| `OneRuns`, `SteersHitTheRun`, `StopsReach` | `SessionInputs_proofs` | `Spec => []OneRunning`, `=> []SteersCurrentRun`, `=> []StopReachesTheAgent` |
| `PausesLast`, `AbortsAreCaused` | `SessionInputs_proofs` | `Spec => PauseLasts`, `=> AbortHasCause` |
| `NothingReplayed`, `CompletedMeansGiven` | `SessionInputs_proofs` | `Spec => []NoReplay`, `=> []CompletedWasGiven` |
| `WakeUpsKept` | `SessionInputs_proofs` | `Spec => []NoWakeUpLost` |
| `MessagesLive`, `RemovedReturnsByDecline` | `SessionInputs_proofs` | which status may follow which, and what may change a cancelled message |

`IInv` adds to the types that a row is running only as the active input and
injecting only towards the active run (`RowsFit`), so that a claim, which needs
that no run is active, finds nothing running, and the end of a run leaves
nothing behind. The fence holds because the drain loop starts an agent only in
`Execute`, under no fence, and every other move is calm (`Calm`): it neither
starts an agent nor forgets that one was aborted. `NoReplay` is not inductive, as
a steering call that is still out may put its message back into the queue long
after its run. `Budget` counts what may still be given without asking
again: a queued row, a place in the burst that waits for preflight, and every
unanswered call are each worth one, and together with what was given they stay
within what was asked. So a declined call of an earlier run, which puts back even
a removed row (finding 5), still spends only what its own acceptance
earned. `Delivery` says of every injecting or completed row which of
these stands behind it.

`NoWakeUpLost` is the part of `QueueSettles` that is about states: while the drain loop
rests, no run is active and nothing it could claim waits, unless a submission is
under way (the loop starts when it returns) or the conversation is not prepared (its
preparation starts the loop). Every action either leaves the loop awake, or at
rest with no more to claim than before (`RestsOnly`). It needs that a run is
active only while the loop is at work on it (`Underway`) and that no row is bound to a
transcript of the future (`BoundToPast`): else a reset, which starts no loop, would
make a row claimable.

`MessagesLive` gives the life of a row as the code has it, without a table of
transitions anywhere in it: an interrupted message is queued again or removed, an
injected one ends completed or interrupted, and so on (`Leads`). Two writes
compare no status and cut across: the end of the active run writes to the input it was
started for, and a declined call to the one it was made for. That no other does
needs that calls and runs are about rows that exist (`RowsAppear`).

The automations, for every finite set of automations, any set of business events
and every value of the bounds, from `AutomationsAssumption` (a gateway stores
finitely many automations, so the number that are due is a number):

| theorem (`Automations_proofs`) | states |
|---|---|
| `AutomationsTypes` | `AutomationsSpec => []AutomationsTypeOK` |
| `OneRun` | `AutomationsSpec => []OneRunPerAutomation` |
| `Announced` | `AutomationsSpec => []FinishedIsAnnounced` |
| `Once` | `AutomationsSpec => []OccurrenceOnce` |
| `DeliveriesFollow` | `AutomationsSpec => []DeliveryFollowsRun` |
| `FreedByOwnRun` | `AutomationsSpec => FreedByItsOwnRun` |
| `CancelKept` | `AutomationsSpec => CancelIsKept` |
| `TimerServes` | `AutomationsSpec => []TimerArmed` |
| `AutomationsInvariant` | `AutomationsSpec => []AutomationsInv` |

A crash may fall between any two transactions of a callback, so `AutomationsInv` relates the
tables to `todo`, the transactions still to come: which may be left in which phase
and in which order (`StepsFit`), what each will find when its turn comes
(`Expects`: the run to be recovered is unfinished and not executing, an automation
to be queued has no run), and, for as long as `recomputeNextRuns` is still to come,
that every unfinished run executes or has a recovery ahead of it (`RecoveryFits`).
The last is what makes `Recompute` safe: it frees an automation whose run it
cannot find in the process, and by then every such run has ended. `OneRun` needs
that no run is of a later generation than its automation (`GenerationsFit`) and that
one executing is running or cancelling, in the latter case with its controller
aborted (`ExecutionsFit`), from which `CancelKept` follows as well. `Once` needs the delivery
rows: every run has the row of its event, and a row that may be taken again has no
run (`EventsFit`). `DeliveriesFollow` needs that a row left waiting for an ended run
has its "completed" step in `todo`, which a crash may drop while the gateway is
not up, and opening it settles every row (`DeliveriesFit`).

The proof is in two halves. Every action is shown to move the tables as `Moves`
says (a run keeps what it is, an ended one its status; an automation is freed by an
ended run, or filled when it had none; an end is announced or remembered in `todo`
or `cut`) and to restore the other parts (`Stays`), one lemma per action;
`OneRunKept`, `AnnouncedKept` and `FreedKept` then hold of any such step. TLC had
checked `AutomationsInv` on the instance of `Background` before. Proving it showed two CASE
expressions of the models whose arms overlapped (`NextTime` for an automation that
is disabled, `Failed` of `TaskAllocation`), which TLC resolves in order but TLA+
leaves open; they are now written in the order the code tests them.

`TimerArmed` is the part of `DueRuns` that is about states: between two callbacks of a
gateway that is up, while fewer Runs execute than there are slots, the timer is set
no later than any enabled automation without a run falls due. Between the transactions
of a callback this is false, so `TimerFits` says that `armTimer` is still to come or all
are served already. Proving it takes two facts about every callback of the service.
Whatever may free an automation or a slot has an `armTimer` after it in the same
callback (`ArmsFollow`: recovery, the recomputation at start, the end of an execution);
and what has none only leaves less to wait for (`Calms`): an automation is disabled,
filled or removed, or a slot is taken. The popped `armTimer` computes
the earliest time itself (`ArmedServes`).

The composition of the background workers, for every value of its constants:

| theorem (`Background_proofs`) | states |
|---|---|
| `PartsBehave` | `FairSpec => AutomationsSpec /\ DeliveriesSpec /\ AllocationSpec /\ InboxSpec` |
| `BackgroundTypes` | `FairSpec => []BackgroundTypeOK` |
| `LeasedRowsAreClaimedWork` | `FairSpec =>` the three refinements of `ClaimedWork` |

A step of one component leaves the variables of the others alone, which is a
stuttering step of theirs. So every theorem about a component holds of what TLC runs
as `Background`, and running one component at a time there loses none of its safety.

Only model-checked: the liveness properties (`LeasedRunLeavesRunning`,
`ParkedRunResumes`, `CancelledRunFreesTask`, `SlotReturns`, `QueueSettles`, `DueRuns`,
`ResultsSettle`, `AllocationEnds`, `MessagesAreProcessed`), since TLAPS does not treat
fairness. Of `SlotReturns`, `QueueSettles` and `DueRuns` the part about states is
proved above: that whoever waits waits for something that is under way. Every other
property of a passing run is the statement of a theorem.

## 6. Plan

Done: the Task engine (TaskStore, TaskDispatch, TaskCommands, TaskTurns, TaskRuns,
RunLifecycle), then SessionQueue and SessionInputs, Automations with
ResultDeliveries, TaskAllocation, AgentInbox and their abstraction ClaimedWork, and
the proofs of section 5. Left, in this order:

1. Task result delivery, the domain outbox and Task update delivery as further
   instances of `ClaimedWork`.
2. Connection waits and handoff, as extensions of `TaskTurns` and `SessionInputs`.
3. Endpoint tools (invocations with timeouts and reconnects) and the realtime
   broker (sequence numbers and replay), as modules of their own.

### Not modelled

Agent turns (prompts, tools, model fallbacks), transcripts, channels, connectors,
voice, phone, browser, sharing, the user model, notes, configuration, the command
line, the terminal interface and the clients make up nearly all of the
repository's lines. Their content is data, external protocols or rendering; what
they decide reaches the modules above as a choice among the outcomes the code
distinguishes. Liveness of a whole conversation is not stated across modules: the
inputs, the Task engine and the background workers are composed only within
themselves, and what one expects of another is the fairness named in section 3.
