---------------------------- MODULE Automations -----------------------------
(***************************************************************************)
(* Automations of one gateway: schedules, business events and manual       *)
(* requests start runs, a run executes in the process, and its end frees   *)
(* the automation and announces the result                                 *)
(* (src/src/automations: service, events, storage).                        *)
(*                                                                         *)
(* Node runs one callback at a time; a callback here is the sequence "todo"*)
(* of its remaining transactions, so only a crash comes between two of     *)
(* them.  Times are whole ticks of "clock"; 0 stands for "no time" and for *)
(* "no run".  Not kept: names, actions, artifacts, run events, attempts    *)
(* within a run, heartbeats (nothing reads a run's lease), history         *)
(* trimming, and the lease of an event delivery: the loop that takes one   *)
(* is a single callback, so a lease only outlives it in a crash and then   *)
(* merely delays the row.                                                  *)
(***************************************************************************)
EXTENDS Naturals, FiniteSets, Sequences

CONSTANTS
    Automation,   \* automation ids, reusable after deletion
    Fact,         \* business events
    Slots,        \* maxConcurrentRuns
    DisableAfter, \* disableAfterConsecutiveFailures
    MaxAttempts,  \* attempts of an event delivery before it is a dead letter
    MaxTime, MaxRuns, MaxGenerations, MaxStarts, MaxFaults  \* bounds

ASSUME AutomationsAssumption ==
    /\ IsFiniteSet(Automation)
    /\ \A n \in {Slots, DisableAfter, MaxAttempts, MaxTime, MaxRuns,
                 MaxGenerations, MaxStarts} : n \in Nat \ {0}
    /\ MaxFaults \in Nat

VARIABLES
    auto,       \* automations, per id; "gen" tells a recreated id from the old
    run,        \* automation_runs, in order of creation
    delivery,   \* automation_event_deliveries, by event and automation
    published,  \* business events in automation_events
    announced,  \* runs with a row in automation_results
    executing,  \* activeRuns: runs this process executes
    aborted,    \* ... those whose controller was aborted
    timer,      \* when the armed timer fires
    todo,       \* what is left of the callback that is executing
    phase,      \* of the process
    clock, starts, faults,
    cut         \* ghost: runs whose recovery a crash cut short

autoVars == <<auto, run, delivery, published, announced, executing, aborted,
              timer, todo, phase, clock, starts, faults, cut>>

Unfinished == {"queued", "running", "cancelling"}
Ended      == {"succeeded", "failed", "timeout", "cancelled"}
Waiting    == {"pending", "retrying"}
Runs       == 1..Len(run)
Events     == ({"due"} \X Nat) \cup ({"fact"} \X Fact) \cup ({"ask"} \X Nat)

AutomationsTypeOK ==
    /\ auto \in [Automation ->
                   [live : BOOLEAN, gen : Nat, enabled : BOOLEAN,
                    kind : {"interval", "once", "event"}, at : Nat,
                    next : Nat, running : Nat, failures : Nat]]
    /\ run \in Seq([status : Unfinished \cup Ended, of : Automation, gen : Nat,
                    manual : BOOLEAN, event : Events])
    /\ DOMAIN delivery \subseteq Events \X Automation
    /\ \A k \in DOMAIN delivery : delivery[k] \in
          [status : Waiting \cup {"queued", "completed", "cancelled", "failed",
                                  "skipped", "dead_letter"},
           attempts : Nat, run : 0..Len(run)]
    /\ published \subseteq Fact
    /\ announced \subseteq Runs /\ cut \subseteq Runs
    /\ aborted \subseteq executing /\ executing \subseteq Runs
    /\ phase \in {"down", "starting", "up", "stopping"}
    /\ {timer, clock, starts, faults} \subseteq Nat

AutomationsInit ==
    /\ auto = [a \in Automation |->
                 [live |-> FALSE, gen |-> 0, enabled |-> FALSE, kind |-> "event",
                  at |-> 0, next |-> 0, running |-> 0, failures |-> 0]]
    /\ run = <<>> /\ delivery = <<>>
    /\ published = {} /\ announced = {} /\ executing = {} /\ aborted = {}
    /\ timer = 0 /\ todo = <<>> /\ phase = "down"
    /\ clock = 0 /\ starts = 0 /\ faults = 0 /\ cut = {}

-----------------------------------------------------------------------------
(* Reading the tables. *)

\* computeNextAutomationRunAtMs
NextTime(x, now) ==
    IF ~x.enabled THEN 0
    ELSE CASE x.kind = "interval"               -> now + 1
           [] x.kind = "once" /\ x.at > now     -> x.at
           [] OTHER                             -> 0
Rescheduled(x, now) == [x EXCEPT !.next = NextTime(x, now)]

IsScheduled(x) == x.kind \in {"interval", "once"}
Due(x)    == x.live /\ x.enabled /\ IsScheduled(x) /\ x.next # 0 /\ x.next <= clock
FreeSlots == IF Cardinality(executing) >= Slots THEN 0
             ELSE Slots - Cardinality(executing)

\* armTimer, given the tables as they are after the step
Armed_FutureOnly(x, busy) ==
    LET due == {a \in Automation : x[a].live /\ x[a].enabled /\ x[a].next > clock
                                     /\ x[a].running = 0}
    IN  IF Cardinality(busy) >= Slots \/ due = {} THEN 0
        ELSE CHOOSE t \in {x[a].next : a \in due} : \A a \in due : t <= x[a].next
Armed(x, busy) ==
    LET due == {a \in Automation : x[a].live /\ x[a].enabled /\ x[a].next # 0
                                     /\ x[a].running = 0}
    IN  IF Cardinality(busy) >= Slots \/ due = {} THEN 0
        ELSE CHOOSE t \in {x[a].next : a \in due} : \A a \in due : t <= x[a].next

-----------------------------------------------------------------------------
(* Transactions, as the new values they give to rows. *)

Put(k, v) == delivery' = [j \in DOMAIN delivery \cup {k} |->
                            IF j = k THEN v ELSE delivery[j]]

\* persistQueuedRun
QueueRun(a, event, manual) ==
    /\ Len(run) < MaxRuns
    /\ run' = Append(run, [status |-> "queued", of |-> a, gen |-> auto[a].gen,
                           manual |-> manual, event |-> event])
    /\ auto' = [auto EXCEPT ![a].running = Len(run) + 1]
Mark(event, a) ==
    LET k == <<event, a>>
        n == IF k \in DOMAIN delivery THEN delivery[k].attempts ELSE 0
    IN  Put(k, [status |-> "queued", attempts |-> n + 1, run |-> Len(run) + 1])

\* finishAutomationRun: the automation x of a run r that ended with "status"
OutcomeOf(x, r, status) ==
    LET failures == IF status \in {"failed", "timeout"} THEN x.failures + 1 ELSE 0
        stays == /\ failures < DisableAfter
                 /\ ~(x.kind = "once" /\ ~run[r].manual)
    IN  Rescheduled([x EXCEPT !.failures = failures, !.running = 0,
                              !.enabled = x.enabled /\ stays], clock)
Freed_ByAnyRun(r, status) ==
    IF auto[run[r].of].live
    THEN [auto EXCEPT ![run[r].of] = OutcomeOf(auto[run[r].of], r, status)]
    ELSE auto
Freed(r, status) ==
    LET a == run[r].of
    IN  IF auto[a].live /\ auto[a].running = r
        THEN [auto EXCEPT ![a] = OutcomeOf(auto[a], r, status)]
        ELSE auto

\* completeAutomationEventDelivery
DeliveryStatus_OfRun(status) == status
DeliveryStatus(status) == CASE status = "succeeded" -> "completed"
                            [] status = "cancelled" -> "cancelled"
                            [] OTHER                -> "failed"
Settled(k) ==
    LET status == run[delivery[k].run].status
    IN  IF delivery[k].status = "queued" /\ status \in Ended
        THEN [delivery[k] EXCEPT !.status = DeliveryStatus(status)]
        ELSE delivery[k]
SettleDeliveries(rs) ==
    delivery' = [k \in DOMAIN delivery |->
                   IF delivery[k].run \in rs THEN Settled(k) ELSE delivery[k]]

-----------------------------------------------------------------------------
(* Requests: each is a callback of its own. *)

Ready == todo = <<>> /\ phase = "up"
Then(steps) == todo' = steps
Arm         == <<"arm", 0>>

unchangedProcess == UNCHANGED <<executing, aborted, timer, phase, clock, starts, faults, cut>>

\* applyCreate; deletion keeps the revision, so a recreated id is newer.
CreateAutomation(a, kind, at) ==
    /\ Ready /\ ~auto[a].live /\ auto[a].gen < MaxGenerations
    /\ kind = "once" => at > clock
    /\ auto' = [auto EXCEPT ![a] = Rescheduled(
                  [auto[a] EXCEPT !.live = TRUE, !.gen = auto[a].gen + 1, !.enabled = TRUE,
                                  !.kind = kind, !.at = IF kind = "once" THEN at ELSE 0],
                  clock)]
    /\ Then(<<Arm>>)
    /\ UNCHANGED <<run, delivery, published, announced>> /\ unchangedProcess

\* applyUpdate: a patch of "enabled", and one of the trigger.  A request cannot
\* carry `state' (z.never() in AutomationUpdatePatchSchema).
SetEnabled(a, on) ==
    /\ Ready /\ auto[a].live
    /\ (on /\ auto[a].kind = "once") => auto[a].at > clock
    /\ auto' = [auto EXCEPT ![a] = Rescheduled([@ EXCEPT !.enabled = on], clock)]
    /\ Then(<<Arm>>)
    /\ UNCHANGED <<run, delivery, published, announced>> /\ unchangedProcess
Retrigger(a, kind, at) ==
    /\ Ready /\ auto[a].live
    /\ kind = "once" => at > clock
    /\ auto' = [auto EXCEPT ![a] = Rescheduled(
                  [@ EXCEPT !.kind = kind, !.at = IF kind = "once" THEN at ELSE 0], clock)]
    /\ Then(<<Arm>>)
    /\ UNCHANGED <<run, delivery, published, announced>> /\ unchangedProcess

\* removeAtomically, finishRemoval
RemoveAutomation(a) ==
    LET r    == auto[a].running
        ends == r # 0 /\ run[r].status \in Unfinished /\ run[r].of = a
    IN  /\ Ready /\ auto[a].live
        /\ auto' = [auto EXCEPT ![a] = [@ EXCEPT !.live = FALSE, !.enabled = FALSE,
                       !.kind = "event", !.at = 0, !.next = 0, !.running = 0, !.failures = 0]]
        /\ run' = IF ends THEN [run EXCEPT ![r].status = "cancelling"] ELSE run
        /\ aborted' = IF ends /\ r \in executing THEN aborted \cup {r} ELSE aborted
        /\ Then(<<Arm>>)
        /\ UNCHANGED <<delivery, published, announced, executing, timer, phase,
                       clock, starts, faults, cut>>

\* runNow, rerunFromRun: queueTriggerAtomically for a manual request
AskForRun(a) ==
    /\ Ready /\ auto[a].live /\ auto[a].running = 0
    /\ QueueRun(a, <<"ask", Len(run) + 1>>, TRUE)
    /\ Mark(<<"ask", Len(run) + 1>>, a)
    /\ Then(<<<<"dispatch", Len(run) + 1>>>>)
    /\ UNCHANGED <<published, announced>> /\ unchangedProcess

\* The replay of an accepted request dispatches its run once more.
AskAgain(r) ==
    /\ Ready /\ run[r].manual /\ run[r].status = "queued"
    /\ Then(<<<<"dispatch", r>>>>)
    /\ UNCHANGED <<auto, run, delivery, published, announced>> /\ unchangedProcess

\* cancelRunAtomically, dispatchCancellation
CancelRun(r) ==
    /\ Ready
    /\ \/ /\ run[r].status = "queued"
          /\ run' = [run EXCEPT ![r].status = "cancelled"]
          /\ auto' = Freed(r, "cancelled")
          /\ announced' = IF auto[run[r].of].live THEN announced \cup {r} ELSE announced
          /\ Then(<<<<"completed", r>>, Arm>>)
       \/ /\ run[r].status = "running"
          /\ run' = [run EXCEPT ![r].status = "cancelling"]
          /\ Then(<<Arm>>)
          /\ UNCHANGED <<auto, announced>>
    /\ aborted' = aborted \cup ({r} \cap executing)
    /\ UNCHANGED <<delivery, published, executing, timer, phase, clock, starts, faults, cut>>

-----------------------------------------------------------------------------
(* Business events. *)

\* ingestAutomationEvent: one row per automation the event matches
PublishFact(f) ==
    LET matching == {a \in Automation : auto[a].live /\ auto[a].enabled
                                          /\ auto[a].kind = "event"}
        rows     == {<<<<"fact", f>>, a>> : a \in matching}
    IN  /\ Ready /\ f \notin published
        /\ published' = published \cup {f}
        /\ delivery' = [k \in DOMAIN delivery \cup rows |->
                          IF k \in rows THEN [status |-> "pending", attempts |-> 0, run |-> 0]
                          ELSE delivery[k]]
        /\ UNCHANGED <<auto, run, announced, todo>> /\ unchangedProcess

\* One delivery of the event loop (AutomationEventDispatcher.runDispatch); a
\* busy automation's is left where it is.
TakeDelivery(k) ==
    LET a == k[2]
    IN  /\ Ready /\ FreeSlots > 0
        /\ delivery[k].status \in Waiting
        /\ \/ /\ ~(auto[a].live /\ auto[a].enabled)
              /\ Put(k, [delivery[k] EXCEPT !.status = "skipped"])
              /\ UNCHANGED <<auto, run, todo, faults>>
           \/ /\ auto[a].live /\ auto[a].enabled /\ auto[a].running = 0
              /\ QueueRun(a, k[1], FALSE)
              /\ Mark(k[1], a)
              /\ Then(<<<<"dispatch", Len(run) + 1>>>>)
              /\ UNCHANGED faults
           \/ /\ auto[a].live /\ auto[a].enabled /\ auto[a].running = 0
              /\ faults < MaxFaults    \* the transaction fails
              /\ faults' = faults + 1
              /\ Put(k, [delivery[k] EXCEPT
                           !.status = IF delivery[k].attempts + 1 >= MaxAttempts
                                      THEN "dead_letter" ELSE "retrying",
                           !.attempts = @ + 1])
              /\ UNCHANGED <<auto, run, todo>>
        /\ UNCHANGED <<published, announced, executing, aborted, timer, phase,
                       clock, starts, cut>>

\* replayAutomationEvent
ReplayFact(f) ==
    LET dead == {k \in DOMAIN delivery : k[1] = <<"fact", f>> /\ delivery[k].status = "dead_letter"}
    IN  /\ Ready /\ dead # {}
        /\ delivery' = [k \in DOMAIN delivery |->
                          IF k \in dead THEN [delivery[k] EXCEPT !.status = "retrying", !.attempts = 0]
                          ELSE delivery[k]]
        /\ UNCHANGED <<auto, run, published, announced, todo>> /\ unchangedProcess

-----------------------------------------------------------------------------
(* The timer and the remaining steps of a callback. *)

\* onTimer: as many due automations as there are slots
TimerFires ==
    LET due == {a \in Automation : Due(auto[a]) /\ auto[a].running = 0}
        n   == IF Cardinality(due) < FreeSlots THEN Cardinality(due) ELSE FreeSlots
    IN  /\ Ready /\ timer # 0 /\ timer <= clock
        /\ Len(run) + n <= MaxRuns
        /\ \E s \in [1..n -> due] :
              /\ \A i, j \in 1..n : s[i] = s[j] => i = j
              /\ Then([i \in 1..n |-> <<"due", s[i]>>] \o <<Arm>>)
        /\ timer' = 0
        /\ UNCHANGED <<auto, run, delivery, published, announced, executing, aborted,
                       phase, clock, starts, faults, cut>>

Step(name) == todo # <<>> /\ todo[1][1] = name
Subject    == todo[1][2]
Done       == todo' = Tail(todo)

QueueDue_Anew ==
    LET event == <<"due", auto[Subject].next>>
    IN  /\ Step("due")
        /\ QueueRun(Subject, event, FALSE)
        /\ Mark(event, Subject)
        /\ todo' = <<<<"dispatch", Len(run) + 1>>>> \o Tail(todo)
        /\ UNCHANGED <<published, announced>> /\ unchangedProcess

\* queueTriggerAtomically for an occurrence: a known event keeps its run.
QueueDue ==
    LET event == <<"due", auto[Subject].next>>
        k     == <<event, Subject>>
    IN  /\ Step("due")
        /\ IF k \in DOMAIN delivery
           THEN /\ todo' = <<<<"dispatch", delivery[k].run>>>> \o Tail(todo)
                /\ UNCHANGED <<auto, run, delivery>>
           ELSE /\ QueueRun(Subject, event, FALSE)
                /\ Mark(event, Subject)
                /\ todo' = <<<<"dispatch", Len(run) + 1>>>> \o Tail(todo)
        /\ UNCHANGED <<published, announced>> /\ unchangedProcess

\* dispatchQueuedRun and the start of executeRun
Dispatch ==
    LET r == Subject
        claims == run[r].status = "queued" /\ auto[run[r].of].live
                    /\ auto[run[r].of].running = r
    IN  /\ Step("dispatch") /\ Done
        /\ IF claims
           THEN /\ run' = [run EXCEPT ![r].status = "running"]
                /\ executing' = executing \cup {r}
           ELSE UNCHANGED <<run, executing>>
        /\ UNCHANGED <<auto, delivery, published, announced, aborted, timer, phase,
                       clock, starts, faults, cut>>
DispatchFails ==
    /\ Step("dispatch") /\ Done /\ phase = "up"
    /\ faults < MaxFaults /\ faults' = faults + 1
    /\ UNCHANGED <<auto, run, delivery, published, announced, executing, aborted, timer,
                   phase, clock, starts, cut>>

RearmTimer ==
    /\ Step("arm") /\ Done
    /\ timer' = IF phase = "stopping" THEN timer ELSE Armed(auto, executing)
    /\ UNCHANGED <<auto, run, delivery, published, announced, executing, aborted,
                   phase, clock, starts, faults, cut>>

\* eventDispatcher.runCompleted
Completed ==
    /\ Step("completed") /\ Done
    /\ SettleDeliveries({Subject})
    /\ UNCHANGED <<auto, run, published, announced>> /\ unchangedProcess

\* The end of executeRun.  An aborted execution ends cancelled, or timed out.
EndRun(r, status) ==
    /\ todo = <<>> /\ phase \in {"up", "stopping"}
    /\ r \in executing
    /\ r \in aborted => status \in {"cancelled", "timeout"}
    /\ run' = [run EXCEPT ![r].status = status]
    /\ auto' = Freed(r, status)
    /\ announced' = announced \cup {r}
    /\ executing' = executing \ {r}
    /\ aborted' = aborted \ {r}
    /\ Then(<<Arm, <<"completed", r>>>>)
    /\ UNCHANGED <<delivery, published, timer, phase, clock, starts, faults, cut>>

-----------------------------------------------------------------------------
(* The process. *)

StopService ==
    /\ Ready /\ starts < MaxStarts
    /\ phase' = "stopping" /\ timer' = 0 /\ aborted' = executing
    /\ UNCHANGED <<auto, run, delivery, published, announced, executing, todo,
                   clock, starts, faults, cut>>

\* The process dies, wherever it is; a stopped one once its runs have ended.
Exit ==
    /\ phase # "down" /\ starts < MaxStarts
    /\ phase' = "down" /\ executing' = {} /\ aborted' = {} /\ timer' = 0 /\ todo' = <<>>
    /\ cut' = cut \cup {r \in Runs : \E i \in 1..Len(todo) :
                                        todo[i] \in {<<"free", r>>, <<"announce", r>>}}
    /\ UNCHANGED <<auto, run, delivery, published, announced, clock, starts, faults>>

\* initialize: recovery of every unfinished run, then recomputeNextRuns, ...
StartService ==
    /\ phase = "down" /\ starts < MaxStarts
    /\ starts' = starts + 1
    /\ phase' = "starting"
    /\ \E n \in 0..Len(run) : \E open \in [1..n -> Runs] :
          /\ {open[i] : i \in 1..n} = {r \in Runs : run[r].status \in Unfinished}
          /\ \A i, j \in 1..n : i < j => open[i] < open[j]
          /\ Then([i \in 1..n |-> <<"recover", open[i]>>]
                    \o <<<<"recompute", 0>>, Arm, <<"open", 0>>>>)
    /\ UNCHANGED <<auto, run, delivery, published, announced, executing, aborted,
                   timer, clock, faults, cut>>

\* recoverInterruptedRuns, for one run: three transactions
RecoveredStatus_Failed(r) == "failed"
RecoveredStatus(r) == IF run[r].status = "cancelling" THEN "cancelled" ELSE "failed"
AfterRecovery_Silent(r) == <<<<"free", r>>>>
AfterRecovery(r) == <<<<"free", r>>, <<"announce", r>>>>
RecoverRun ==
    LET r == Subject
        x == auto[run[r].of]
    IN  /\ Step("recover")
        /\ IF run[r].status = "queued" /\ x.live /\ x.running = r
           THEN /\ todo' = <<<<"dispatch", r>>>> \o Tail(todo)
                /\ UNCHANGED run
           ELSE /\ run' = [run EXCEPT ![r].status = RecoveredStatus(r)]
                /\ todo' = (IF x.live THEN AfterRecovery(r) ELSE <<>>)
                             \o Tail(todo)
        /\ UNCHANGED <<auto, delivery, published, announced>> /\ unchangedProcess
FreeRecovered ==
    /\ Step("free") /\ Done
    /\ auto' = Freed(Subject, run[Subject].status)
    /\ UNCHANGED <<run, delivery, published, announced>> /\ unchangedProcess
AnnounceRecovered ==
    /\ Step("announce") /\ Done
    /\ announced' = announced \cup {Subject}
    /\ UNCHANGED <<auto, run, delivery, published>> /\ unchangedProcess

\* recomputeNextRuns with catchUp: a missed occurrence stays due.
Recomputed_FreesAll(x) ==
    IF ~x.live THEN x ELSE Rescheduled([x EXCEPT !.running = 0], clock)
Recomputed(x) ==
    LET stale == x.running # 0 /\ x.running \notin executing
        y == IF stale THEN [x EXCEPT !.running = 0, !.failures = @ + 1] ELSE x
    IN  IF ~x.live THEN x
        ELSE IF Due(y) /\ y.running = 0 THEN y
        ELSE Rescheduled(y, clock)
Recompute ==
    /\ Step("recompute") /\ Done
    /\ auto' = [a \in Automation |-> Recomputed(auto[a])]
    /\ UNCHANGED <<run, delivery, published, announced>> /\ unchangedProcess

\* eventDispatcher.start: reconcileAutomationEventDeliveries
Reconciled_Nothing == {}
Reconciled == Runs
OpenService ==
    /\ Step("open") /\ Done
    /\ phase' = "up"
    /\ SettleDeliveries(Reconciled)
    /\ UNCHANGED <<auto, run, published, announced, executing, aborted, timer,
                   clock, starts, faults, cut>>

Tick ==
    /\ todo = <<>> /\ clock < MaxTime
    /\ clock' = clock + 1
    /\ UNCHANGED <<auto, run, delivery, published, announced, executing, aborted, timer,
                   todo, phase, starts, faults, cut>>

-----------------------------------------------------------------------------
Requests ==
    \/ \E a \in Automation, kind \in {"interval", "once", "event"}, at \in 1..MaxTime :
          CreateAutomation(a, kind, at) \/ Retrigger(a, kind, at)
    \/ \E a \in Automation, on \in BOOLEAN : SetEnabled(a, on)
    \/ \E a \in Automation : RemoveAutomation(a) \/ AskForRun(a)
    \/ \E r \in Runs : AskAgain(r) \/ CancelRun(r)
FactLoop  == \/ \E f \in Fact : PublishFact(f) \/ ReplayFact(f)
             \/ \E k \in DOMAIN delivery : TakeDelivery(k)
Callback  == \/ QueueDue \/ Dispatch \/ RearmTimer \/ Completed
             \/ RecoverRun \/ FreeRecovered \/ AnnounceRecovered
             \/ Recompute \/ OpenService
Execution == \E r \in executing, status \in Ended : EndRun(r, status)
Process   == StartService \/ StopService \/ Exit \/ Tick \/ DispatchFails

AutomationsNext == Requests \/ FactLoop \/ TimerFires \/ Callback \/ Execution \/ Process
AutomationsSpec == AutomationsInit /\ [][AutomationsNext]_autoVars

-----------------------------------------------------------------------------
(* Properties. *)

\* The unfinished runs of an automation are at most one, the one it points to,
\* whatever mix of schedule, events, manual requests and restarts started them.
OneRunPerAutomation ==
    \A r \in Runs :
       LET a == run[r].of
       IN  run[r].status \in Unfinished /\ auto[a].live /\ auto[a].gen = run[r].gen
              => auto[a].running = r

\* The result of every ended run of an automation that exists is handed to
\* delivery, unless a crash cut its recovery short.
FinishedIsAnnounced ==
    \A r \in Runs :
       LET a == run[r].of
       IN  run[r].status \in Ended /\ auto[a].live /\ auto[a].gen = run[r].gen
              => \/ r \in announced \cup cut
                 \/ \E i \in 1..Len(todo) : todo[i] = <<"announce", r>>

\* An occurrence of a schedule, like a delivery of an event, is run at most
\* once, also when a crash leaves the occurrence due.
OccurrenceOnce ==
    \A r, q \in Runs : run[r].of = run[q].of /\ run[r].event = run[q].event => r = q

\* When no callback is under way, a delivery that still waits for its run has
\* a run that is still to end: no crash leaves a delivery behind.
DeliveryFollowsRun ==
    phase = "up" /\ todo = <<>> =>
       \A k \in DOMAIN delivery :
          delivery[k].status = "queued" => run[delivery[k].run].status \in Unfinished

\* An automation is freed by the end of its own run only: the run of a deleted
\* automation does not touch the one recreated under its id.
FreedByItsOwnRun ==
    [][\A a \in Automation :
          /\ auto[a].live /\ auto'[a].live /\ auto'[a].gen = auto[a].gen
          /\ auto[a].running # 0 /\ auto'[a].running # auto[a].running
          => run'[auto[a].running].status \in Ended]_autoVars

\* A cancellation once accepted is not undone by the run's own end or by a
\* restart: the run ends cancelled, or timed out while it was being stopped.
CancelIsKept ==
    [][\A r \in Runs : run[r].status = "cancelling"
          => run'[r].status \in {"cancelling", "cancelled", "timeout"}]_autoVars

\* No due automation that is not busy stays so: the timer is armed
\* whenever it could run.  Excepted is one whose recovery a crash cut short.
Overdue(a) == /\ phase = "up" /\ cut = {} /\ Len(run) < MaxRuns
              /\ Due(auto[a]) /\ auto[a].running = 0
DueRuns == (\E a \in Automation : Overdue(a)) ~> ~(\E a \in Automation : Overdue(a))
=============================================================================
