------------------------------ MODULE TaskRuns ------------------------------
(***************************************************************************)
(* The Task engine of one gateway: commands, the dispatcher and the turns  *)
(* of the Tasks' conversations over one database.  A process restart takes *)
(* the dispatcher and every turn with it; only the rows remain.            *)
(***************************************************************************)
EXTENDS TaskCommands, TaskDispatch, TaskTurns

vars == <<task, run, receipt, wait, input, slot, activeIds, stopped, restarts,
          turn, queue>>

\* The rows and the memory of the process keep their types; in particular a
\* Run is never continued more often than maxAttempts allows.
TypeOK == StoreTypeOK /\ DispatchTypeOK /\ TurnTypeOK
Init   == StoreInit /\ DispatchInit /\ TurnInit

Command  == CommandNext /\ UNCHANGED <<memory, turn, queue>>
Dispatch == DispatchNext /\ UNCHANGED <<turn, queue>>
Converse == TurnNext /\ UNCHANGED memory
Restart  == /\ RestartDispatcher
            /\ turn' = [t \in Task |-> IdleTurn]
            /\ UNCHANGED queue

Next == Command \/ Dispatch \/ Converse \/ Restart
Spec == Init /\ [][Next]_vars

-----------------------------------------------------------------------------
(* Safety: the rows. *)

\* Commands, signals and chat turns all create Runs, each after its own look
\* for an active one: a Task never has two.
OneActiveRun == \A r, q \in Run :
    Active(r) /\ Active(q) /\ TaskOf[r] = TaskOf[q] => r = q

\* A Run has a receipt exactly when it has ended, and the receipt agrees with
\* the status, whichever of dispatcher, turn, judge, clarification or command
\* ended it.
ReceiptMatches == \A r \in Run :
    receipt[r] = IF run[r].status \in Terminal THEN run[r].status ELSE "none"

\* Only a Run that can execute is leased: parking, ending or answering a Run
\* always gives its lease back, and a lease never survives without an owner.
LeaseSound == \A r \in Run :
    /\ (run[r].lease = "none") = (run[r].owner = NoSlot)
    /\ run[r].owner # NoSlot => run[r].status \in {"queued", "running"}

\* A conversation has at most one clarification that may still resume a Run,
\* counting the answered one whose resume input is in the queue.
SingleAsk == \A t \in Task :
    \A v, w \in Wait : /\ WaitOf[v] = t /\ wait[v].clar \in {"open", "queued"}
                       /\ WaitOf[w] = t /\ wait[w].clar \in {"open", "queued"}
                       => v = w

\* The Runs as RunLifecycle sees them.
Lifecycle == INSTANCE RunLifecycle WITH status <- [r \in Run |-> run[r].status]

\* The engine implements the abstract life of a Run: at most one active per
\* Task, no return to the queue, one end with one receipt.
RefinesLifecycle == Lifecycle!Spec

-----------------------------------------------------------------------------
(* Safety: what a step may never do. *)

\* An ended Run is final: a judge that decides late, a poll that fails late or
\* an answer that arrives late never changes it.
TerminalStable == [][\A r \in Run : run[r].status \in Terminal =>
    run'[r] = run[r] /\ receipt'[r] = receipt[r]]_vars

\* While a person's phase change is not authorized, only a person changes the
\* phase again (a manual change or a start of their own): receipts of old
\* Runs, judges, signals and agents' starts leave it alone.
ManualPhaseWins == [][\A t \in Task :
    task'[t].phase # task[t].phase /\ task[t].manual # task[t].auto =>
        task'[t].manual > task[t].manual \/ task'[t].auto = task'[t].manual]_vars

\* No late signal, approval, command or chat turn starts a closed Task again: it
\* has to be reopened first.
ClosedTaskNeverRestarts == [][\A t \in Task :
    task[t].phase = "closed" /\ ActiveRoots(t) = {} => ActiveRoots(t)' = {}]_vars

\* A Task that no person closes is done only when nothing of it is left: no
\* active Run and no active wait.
AutoClose == [][\A t \in Task :
    /\ task[t].resolution # "done" /\ task'[t].resolution = "done"
    /\ task'[t].manual = task[t].manual
    => ActiveRoots(t)' = {} /\ ActiveWaits(t)' = {}]_vars

\* A Run that worked to a contract revised since then may succeed, but its
\* receipt does not move the Task.
StaleReceiptKeepsPhase == [][\A r \in Run :
    /\ run[r].status # "succeeded" /\ run'[r].status = "succeeded"
    /\ StaleContract(r)
    => task'[TaskOf[r]].phase = task[TaskOf[r]].phase]_vars

-----------------------------------------------------------------------------
(* Liveness.  Turns end (every model call has a deadline), the slots and    *)
(* the drains are driven by timers and polls, and leases expire with time.  *)
(* Nothing obliges a person, an agent's question or a restart: who paused a *)
(* queue need never resume it, and a slot waits for its input all the time, *)
(* with its lease renewed.                                                  *)

FairSpec ==
    /\ Spec
    /\ \A t \in Task : WF_vars(TurnStep(t) /\ UNCHANGED memory)
    /\ \A s \in Slot : WF_vars(SlotNext(s) /\ UNCHANGED <<turn, queue>>)
    /\ \A r \in Run : WF_vars((Reconcile(r) \/ LeaseExpires(r)) /\ UNCHANGED <<turn, queue>>)

\* The user holds an input of the Run back.  As a leads-to applies again after a
\* resume, a property that excepts such Runs says that they go on once nobody
\* pauses their conversation any more.
HeldBack(r) ==
    /\ Unfinished(r) # {}
    /\ queue[TaskOf[r]].paused /\ turn[TaskOf[r]].pc = "idle"

\* Whatever becomes of its slot, its turn or the process, a leased Run does not
\* stay 'running': it ends, is parked, or the lease expires and the drain
\* reconciles it.  Only a user who holds its input back keeps it there.
LeasedRunLeavesRunning == \A r \in Run :
    run[r].status = "running" /\ run[r].owner # NoSlot
    ~> run[r].status # "running" \/ stopped \/ HeldBack(r)

\* A parked Run that no wait holds goes on, as long as its Task is not closed
\* unfinished, unless its user holds an older input of it back (no other is
\* submitted while it is queued), or every slot waits for a Run held back.  (The
\* length of the inputs is the bound of the model.)
ParkedRunResumes == \A r \in Run :
    run[r].status = "waiting" /\ ActiveWaits(TaskOf[r]) = {}
    ~> \/ run[r].status # "waiting" \/ ActiveWaits(TaskOf[r]) # {}
       \/ ClosedUnfinished(TaskOf[r]) \/ stopped \/ Len(input[r]) >= MaxInputs
       \/ HeldBack(r)
       \/ \A s \in Slot : slot[s].pc = "poll" /\ HeldBack(slot[s].run)

\* The waits of a Run cancelled on its own are resolved, so that they do not
\* hold its Task back for ever.
CancelledRunFreesTask == \A r \in Run :
    run[r].status = "cancelled" /\ RunWaits(r) # {} ~> RunWaits(r) = {} \/ stopped

\* A slot that waits for an input gets back to work, however the input ends,
\* unless the user holds that input back.
SlotReturns == \A s \in Slot :
    slot[s].pc = "poll" ~> slot[s].pc # "poll" \/ HeldBack(slot[s].run)

-----------------------------------------------------------------------------
(* Statements of the documentation that the code does not keep. *)

\* Every Run that executes is recovered after a restart, leased or not.
RunLeavesRunning == \A r \in Run :
    run[r].status = "running" ~> run[r].status # "running" \/ stopped \/ HeldBack(r)

\* An execution whose requests are exhausted is followed by a continuation of
\* the same Run: the slot of the failed execution does not end the Run while
\* another slot continues it.
ContinuationSurvivesLatePoll == [][\A s \in Slot :
    slot[s].pc = "poll" /\ slot'[s].pc = "idle" =>
        LET r == slot[s].run IN
        run[r].cont /\ run[r].owner \in Slot \ {s} => run'[r] = run[r]]_vars

\* A dispatched Run has its context and policy snapshots.
DispatchedHasSnapshot == \A r \in Run : run[r].status = "running" => run[r].snapshot

\* A decision the user owes parks the Run instead of letting it go on.
RequiredDecisionParks == \A r \in Run :
    run[r].status = "running" => RunWaits(r) = {}
=============================================================================
