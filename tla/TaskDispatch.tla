---------------------------- MODULE TaskDispatch ----------------------------
(***************************************************************************)
(* TaskRunDispatcher: the workers that claim Runs under a lease, submit    *)
(* them as inputs of the Task's conversation and wait for the input to     *)
(* end, and the reconciliation that every drain begins with.               *)
(*                                                                         *)
(* A Slot is one drainSlot(workerId:slot): `claimed' while ensureSession   *)
(* runs, `submit' while runAgent reads the session, `poll' while           *)
(* waitForCompletion sleeps 50 ms between two looks at the input row.      *)
(* Leases outlive the process, everything else here does not.              *)
(***************************************************************************)
EXTENDS TaskStore

CONSTANTS
    MaxRestarts,            \* bound: stops and restarts of the process
    MaxInputs               \* bound: a Run with this many inputs is not claimed again

ASSUME DispatchAssumption == MaxRestarts \in Nat /\ MaxInputs \in Nat

VARIABLES
    slot,       \* what each drainSlot is waiting for, and its heartbeat timer
    activeIds,  \* #activeRunIds, shared by the slots
    stopped,    \* #stopped
    restarts

memory == <<slot, activeIds, stopped, restarts>>

SlotRow  == [pc : {"idle", "claimed", "submit", "poll"}, run : Run \cup {NoRun},
             key : Nat, heart : BOOLEAN]
IdleSlot == [pc |-> "idle", run |-> NoRun, key |-> 0, heart |-> FALSE]

DispatchTypeOK ==
    /\ slot \in [Slot -> SlotRow]
    /\ activeIds \subseteq Run
    /\ stopped \in BOOLEAN
    /\ restarts \in 0..MaxRestarts

DispatchInit ==
    /\ slot = [s \in Slot |-> IdleSlot]
    /\ activeIds = {}
    /\ stopped = FALSE
    /\ restarts = 0

-----------------------------------------------------------------------------
\* claimNext, and the move of a waiting Run back to 'running' that follows it
\* before the first await.  Which of several Runs comes first is the order of
\* their schedule, which is the users' to choose.
Claimed(row, s) ==
    LET leased == Bumped([row EXCEPT !.owner = s, !.lease = "live"]) IN
    IF row.status = "waiting" THEN Resumed(leased) ELSE leased

Claim(s, r) ==
    /\ ~stopped /\ slot[s].pc = "idle" /\ Claimable(r)
    /\ Len(input[r]) < MaxInputs
    /\ run' = [run EXCEPT ![r] = Claimed(@, s)]
    /\ slot' = [slot EXCEPT ![s] = [IdleSlot EXCEPT !.pc = "claimed", !.run = r]]
    /\ UNCHANGED <<task, receipt, wait, input, activeIds, stopped, restarts>>

\* The catch of drainSlot: it reads the Run again and completes whatever it
\* finds active, with that version.  A waiting Run without a policy snapshot
\* makes it throw before it completes anything.
Caught(r) ==
    IF \/ stopped \/ ~Active(r)
       \/ run[r].status = "waiting" /\ (run[r].cont \/ ~run[r].snapshot)
    THEN UNCHANGED <<task, run, receipt>>
    ELSE CompleteRun(r, "failed", FALSE)

\* ensureSession and validateExecutor returned; the id of the input is fixed
\* here, before the read of the session that runAgent awaits.
Prepare(s) ==
    LET r == slot[s].run IN
    /\ slot[s].pc = "claimed" /\ ~stopped
    /\ slot' = [slot EXCEPT ![s].pc = "submit", ![s].key = NextInputKey(r),
                            ![s].heart = TRUE]
    /\ activeIds' = activeIds \cup {r}
    /\ UNCHANGED <<store, stopped, restarts>>

\* ensureSession or validateExecutor threw, or the dispatcher was stopped.
PrepareFails(s) ==
    /\ slot[s].pc = "claimed"
    /\ Caught(slot[s].run)
    /\ slot' = [slot EXCEPT ![s] = IdleSlot]
    /\ UNCHANGED <<wait, input, activeIds, stopped, restarts>>

\* The finally and the catch around runAgent.
RunAgentReturns(s) ==
    /\ slot' = [slot EXCEPT ![s] = IdleSlot]
    /\ activeIds' = activeIds \ {slot[s].run}
    /\ UNCHANGED <<wait, input, stopped, restarts>>

\* insertSessionInput keeps the row that already has this client id.
Submit(s) ==
    LET r == slot[s].run  k == slot[s].key IN
    /\ slot[s].pc = "submit"
    /\ input' = IF AgentInput(r, k) # {} THEN input
                ELSE [input EXCEPT ![r] = Append(@, [status |-> "queued", key |-> k,
                                                     wait |-> NoWait])]
    /\ slot' = [slot EXCEPT ![s].pc = "poll"]
    /\ UNCHANGED <<task, run, receipt, wait, activeIds, stopped, restarts>>

SubmitFails(s) ==
    /\ slot[s].pc = "submit"
    /\ Caught(slot[s].run)
    /\ RunAgentReturns(s)

\* Mutant: a cancelled input is not taken for the end.
Poll_IgnoresCancelled(s) ==
    LET r == slot[s].run IN
    /\ slot[s].pc = "poll"
    /\ \E i \in AgentInput(r, slot[s].key) :
          \/ /\ input[r][i].status \in {"completed", "suspended"}
             /\ UNCHANGED <<task, run, receipt>>
          \/ /\ input[r][i].status \in {"failed", "interrupted"}
             /\ Caught(r)
    /\ RunAgentReturns(s)
\* One look of waitForCompletion that finds the input ended.
Poll(s) ==
    LET r == slot[s].run IN
    /\ slot[s].pc = "poll"
    /\ \E i \in AgentInput(r, slot[s].key) :
          \/ /\ input[r][i].status \in {"completed", "suspended"}
             /\ UNCHANGED <<task, run, receipt>>
          \/ /\ input[r][i].status \in {"failed", "cancelled", "interrupted"}
             /\ Caught(r)
    /\ RunAgentReturns(s)

-----------------------------------------------------------------------------
\* The heartbeat timer renews the lease, or stops for good the first time the
\* Run is not the slot's or not yet running.
Renewable(s) == /\ run[slot[s].run].owner = s
                /\ run[slot[s].run].status \in {"running", "waiting"}
HeartbeatLost(s) ==
    /\ slot[s].heart /\ ~Renewable(s)
    /\ slot' = [slot EXCEPT ![s].heart = FALSE]
    /\ UNCHANGED <<store, activeIds, stopped, restarts>>

\* Sixty seconds pass without a renewal.  Timers are assumed to fire on time:
\* a lease whose slot still renews it, or has only just taken it, stays live.
LeaseExpires(r) ==
    /\ run[r].lease = "live"
    /\ \A s \in Slot : slot[s].run = r =>
          slot[s].pc = "poll" /\ ~(slot[s].heart /\ Renewable(s))
    /\ run' = [run EXCEPT ![r].lease = "expired"]
    /\ UNCHANGED <<task, receipt, wait, input, memory>>

\* What listExpiredLeasedRunning lists, without the Runs of this process.
ExpiredLeasedRunning(r) ==
    /\ run[r].status = "running" /\ run[r].owner # NoSlot /\ run[r].lease = "expired"
    /\ r \notin activeIds
\* Mutant: a Run that cannot be continued is left alone.
ReconcileExpired_ContinueOnly(r) ==
    /\ ~stopped /\ ExpiredLeasedRunning(r)
    /\ CanContinue(r) /\ ScheduleContinuation(r)
    /\ UNCHANGED <<wait, input, memory>>
\* One Run of reconcileExpiredRuns: continue it when its transcript shows no
\* unconfirmed effect and a continuation is possible, otherwise complete it.
ReconcileExpired(r) ==
    /\ ~stopped /\ ExpiredLeasedRunning(r)
    /\ \/ CanContinue(r) /\ ScheduleContinuation(r)
       \/ CompleteRun(r, "failed", FALSE)
    /\ UNCHANGED <<wait, input, memory>>

\* Mutant: only the waits of a question.
ReconcileCancelled_Asks(r) ==
    /\ ~stopped /\ run[r].status = "cancelled"
    /\ \E w \in RunWaits(r) : wait[w].kind = "ask"
    /\ wait' = Resolve(RunWaits(r))
    /\ UNCHANGED <<task, run, receipt, input, memory>>
\* reconcileCancelledRuns: a cancelled Run leaves no active wait behind.
ReconcileCancelled(r) ==
    /\ ~stopped /\ run[r].status = "cancelled" /\ RunWaits(r) # {}
    /\ wait' = Resolve(RunWaits(r))
    /\ UNCHANGED <<task, run, receipt, input, memory>>

\* stop clears every heartbeat and lets pending promises run on.
Stop ==
    /\ ~stopped /\ restarts < MaxRestarts
    /\ stopped' = TRUE
    /\ slot' = [s \in Slot |-> [slot[s] EXCEPT !.heart = FALSE]]
    /\ UNCHANGED <<store, activeIds, restarts>>

\* The process dies, or exits after a stop, and starts again: memory is gone
\* and recoverSessionInputState interrupts what was being delivered.
RestartDispatcher ==
    /\ restarts < MaxRestarts
    /\ restarts' = restarts + 1
    /\ slot' = [s \in Slot |-> IdleSlot] /\ activeIds' = {} /\ stopped' = FALSE
    /\ input' = [r \in Run |-> [i \in DOMAIN input[r] |->
          IF input[r][i].status = "running"
          THEN [input[r][i] EXCEPT !.status = "interrupted"] ELSE input[r][i]]]
    /\ UNCHANGED <<task, run, receipt, wait>>

SlotNext(s) ==
    \/ \E r \in Run : Claim(s, r)
    \/ Prepare(s) \/ PrepareFails(s) \/ Submit(s) \/ SubmitFails(s) \/ Poll(s)
    \/ HeartbeatLost(s)
Reconcile(r) == ReconcileExpired(r) \/ ReconcileCancelled(r)
DispatchNext ==
    \/ \E s \in Slot : SlotNext(s)
    \/ \E r \in Run : Reconcile(r) \/ LeaseExpires(r)
    \/ Stop
=============================================================================
