---------------------------- MODULE MCBackground -----------------------------
(***************************************************************************)
(* Four components of the background machinery, each on a small instance.  *)
(* They share no state, so a behaviour is one of a single component, chosen *)
(* at the start and kept in "part", while the others rest at their         *)
(* initial states.  Three of them implement ClaimedWork.                   *)
(***************************************************************************)
EXTENDS Automations, ResultDeliveries, TaskAllocation, AgentInbox

CONSTANTS a1, a2, d1, d2, t1, s1, s2, m1, m2,  \* the members of the sets
          MaxDisturbances  \* bound: requests, events, starts and faults together

VARIABLE part
allVars == <<autoVars, deliveryVars, allocationVars, inboxVars, part>>

OfAutomations(A) == /\ part = "automations" /\ A
                    /\ UNCHANGED <<deliveryVars, allocationVars, inboxVars, part>>
OfDeliveries(A)  == /\ part = "deliveries" /\ A
                    /\ UNCHANGED <<autoVars, allocationVars, inboxVars, part>>
OfAllocation(A)  == /\ part = "allocation" /\ A
                    /\ UNCHANGED <<autoVars, deliveryVars, inboxVars, part>>
OfInbox(A)       == /\ part = "inbox" /\ A
                    /\ UNCHANGED <<autoVars, deliveryVars, allocationVars, part>>

Init == /\ AutomationsInit /\ DeliveriesInit /\ AllocationInit /\ InboxInit
        /\ part \in {"automations", "deliveries", "allocation", "inbox"}
Next == \/ OfAutomations(AutomationsNext) \/ OfDeliveries(DeliveriesNext)
        \/ OfAllocation(AllocationNext) \/ OfInbox(InboxNext)

-----------------------------------------------------------------------------
(* Fairness.  Automations: a callback goes on to its end, an armed timer    *)
(* fires, an execution ends (its timeout aborts it), a gateway that is down *)
(* is started.  Deliveries: the timer of the surviving router claims what   *)
(* is due, its handlers end (a webhook is aborted after 30 s).  Allocation: *)
(* dispatch is called every second, a planner and a model answer or are     *)
(* aborted after 40 s, a stopped gateway is started again, and a Run ends.  *)
(* Inbox: the keeper polls every 250 ms and its handlers end; no message is *)
(* refused for ever (MaxRefusals).  Leases run out by the clock.            *)
(*                                                                          *)
(* One behaviour is of one part, so one condition can stand for one of each.*)
Either(A, D, L, I) == OfAutomations(A) \/ OfDeliveries(D) \/ OfAllocation(L) \/ OfInbox(I)
Attempt(d) == \E due \in SUBSET Result : d \in due /\ ClaimBatch(Survivor, due)
Fairness ==
    /\ SF_allVars(Either(TimerFires, Attempt(d1), \E s \in Slot : ClaimTask(s, t1), Take(Keeper, m1)))
    /\ SF_allVars(Either(Execution, Attempt(d2), FALSE, Take(Keeper, m2)))
    /\ SF_allVars(OfDeliveries(ClaimBatch(Survivor, {})))
    /\ WF_allVars(Either(Callback, LeaseRunsOut(d1), ClaimRunsOut(t1), InboxLeaseRunsOut(m1)))
    /\ WF_allVars(Either(StartService, LeaseRunsOut(d2), RunEnds(t1), InboxLeaseRunsOut(m2)))
    /\ WF_allVars(Either(FALSE, \E s \in batch[Survivor] : Send(Survivor, s), SlotStep(s1),
                         HandlerEnds(Keeper)))
    /\ WF_allVars(Either(FALSE, Outcome(Survivor), SlotStep(s2), FALSE))
    /\ WF_allVars(OfAllocation(RestartDispatcher /\ stopped))
    /\ WF_allVars(OfAllocation(\E s \in Slot : Sweep(s)))
FairSpec == Init /\ [][Next]_allVars /\ Fairness

BackgroundTypeOK ==
    AutomationsTypeOK /\ DeliveriesTypeOK /\ AllocationTypeOK /\ InboxTypeOK

-----------------------------------------------------------------------------
(* Bounds.  Of the automations a2 is the one that events start; it is made  *)
(* once, and only beside the first a1.                                      *)
Disturbances == auto[a1].gen + auto[a2].gen + starts + faults + Cardinality(published)
                + Cardinality({r \in Runs : run[r].manual})
Shape == /\ \A a \in Automation : auto'[a].live => (a = a2 <=> auto'[a].kind = "event")
         /\ auto'[a1].gen + 2 * auto'[a2].gen <= 3 /\ Disturbances' <= MaxDisturbances
         /\ parcel'[d1].retries + parcel'[d2].retries <= 1
=============================================================================
