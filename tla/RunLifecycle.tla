---------------------------- MODULE RunLifecycle ----------------------------
(***************************************************************************)
(* What the Task engine promises of its Runs, without dispatcher, leases,  *)
(* conversations or waits: a Run is created while its Task has no other    *)
(* active one, moves between the active statuses, and ends once, with the  *)
(* one receipt that says how.  TaskRuns implements this specification.     *)
(***************************************************************************)
CONSTANTS Task, Run, TaskOf

VARIABLES status, receipt

InFlight == {"queued", "running", "waiting"}
Ended    == {"succeeded", "failed", "cancelled"}
\* The moves between active statuses; nothing returns to the queue.
Moves    == {<<"queued", "running">>, <<"queued", "waiting">>,
             <<"running", "waiting">>, <<"waiting", "running">>}

Init ==
    /\ status = [r \in Run |-> "absent"]
    /\ receipt = [r \in Run |-> "none"]

\* A Run starts queued, or running when a chat turn creates it.
Begin(r) ==
    /\ status[r] = "absent"
    /\ \A q \in Run : TaskOf[q] = TaskOf[r] => status[q] \notin InFlight
    /\ \E st \in {"queued", "running"} : status' = [status EXCEPT ![r] = st]
    /\ UNCHANGED receipt

Move(r) ==
    /\ \E st \in InFlight : /\ <<status[r], st>> \in Moves
                            /\ status' = [status EXCEPT ![r] = st]
    /\ UNCHANGED receipt

End(r) ==
    /\ status[r] \in InFlight
    /\ \E st \in Ended : /\ status' = [status EXCEPT ![r] = st]
                         /\ receipt' = [receipt EXCEPT ![r] = st]

Next == \E r \in Run : Begin(r) \/ Move(r) \/ End(r)
Spec == Init /\ [][Next]_<<status, receipt>>
=============================================================================
