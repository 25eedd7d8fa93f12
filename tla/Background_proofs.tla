-------------------------- MODULE Background_proofs --------------------------
(***************************************************************************)
(* The composition of MCBackground, for every value of its constants: each *)
(* of the four components behaves in it as it does alone, so that whatever *)
(* is proved of a component holds of the behaviours that TLC runs.         *)
(***************************************************************************)
EXTENDS MCBackground, Automations_proofs, ResultDeliveries_proofs,
        TaskAllocation_proofs, AgentInbox_proofs

\* No step of one component touches the rows or the memory of another.
LEMMA StepOfOne ==
    ASSUME [Next]_allVars
    PROVE  /\ [AutomationsNext]_autoVars
           /\ [DeliveriesNext]_deliveryVars
           /\ [AllocationNext]_allocationVars
           /\ [InboxNext]_inboxVars
<1>1. CASE OfAutomations(AutomationsNext)
  BY <1>1 DEF OfAutomations
<1>2. CASE OfDeliveries(DeliveriesNext)
  BY <1>2 DEF OfDeliveries
<1>3. CASE OfAllocation(AllocationNext)
  BY <1>3 DEF OfAllocation
<1>4. CASE OfInbox(InboxNext)
  BY <1>4 DEF OfInbox
<1>5. CASE UNCHANGED allVars
  BY <1>5 DEF allVars
<1> QED BY <1>1, <1>2, <1>3, <1>4, <1>5 DEF Next

\* The composition implements the specification of each of its components:
\* automations, deliveries, allocation and the inbox share no state, so what
\* the others do is a step in which a component rests.
THEOREM PartsBehave ==
    FairSpec => AutomationsSpec /\ DeliveriesSpec /\ AllocationSpec /\ InboxSpec
<1>1. Init => AutomationsInit /\ DeliveriesInit /\ AllocationInit /\ InboxInit
  BY DEF Init
<1>2. [Next]_allVars => /\ [AutomationsNext]_autoVars
                        /\ [DeliveriesNext]_deliveryVars
                        /\ [AllocationNext]_allocationVars
                        /\ [InboxNext]_inboxVars
  BY StepOfOne
<1> QED
  BY <1>1, <1>2, PTL DEF FairSpec, AutomationsSpec, DeliveriesSpec, AllocationSpec, InboxSpec

\* The tables of the four components and the memory of their processes keep
\* their types in every behaviour of the composition.
THEOREM BackgroundTypes == FairSpec => []BackgroundTypeOK
<1>1. AutomationsTypeOK /\ DeliveriesTypeOK /\ AllocationTypeOK /\ InboxTypeOK
         => BackgroundTypeOK
  BY DEF BackgroundTypeOK
<1> QED
  BY <1>1, PartsBehave, AutomationsTypes, DeliveriesTyped, AllocationTyped, InboxTyped, PTL

\* In every behaviour of the composition the three tables of leased rows are
\* ClaimedWork: only the latest claim of a result, of a Task's allocation or
\* of a message settles the row or gives it back.
THEOREM LeasedRowsAreClaimedWork ==
    FairSpec => /\ DeliveriesAreClaimedWork
                /\ AllocationsAreClaimedWork
                /\ MessagesAreClaimedWork
<1> QED
  BY PartsBehave, DeliveriesRefineWork, AllocationRefinesWork, InboxIsClaimedWork, PTL
=============================================================================
