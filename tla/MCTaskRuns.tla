----------------------------- MODULE MCTaskRuns -----------------------------
EXTENDS TaskRuns, TLC
CONSTANTS t1, r1, r2, w1, w2, s1, s2
OneTask      == {t1}
TaskOfRun    == [r \in Run |-> t1]
TaskOfWait   == [w \in Wait |-> t1]
Moves        == {<<"ready", "none">>, <<"closed", "done">>, <<"closed", "cancelled">>}
NoMoves      == {}
Symmetry     == Permutations(Run) \cup Permutations(Wait) \cup Permutations(Slot)

\* A view that merges states no action and no property below tells apart: the
\* version matters only as "is it still the one the judge holds", the contract
\* and the manual revision of a Run only as "still the Task's", the pause of a
\* queue (an input is taken either way) only by whether a message may still
\* steer, and a row that is terminal or resolved only by what is still read of it.
RunView(r) ==
    IF ~Active(r) THEN <<run[r].status, receipt[r]>>
    ELSE <<run[r].status, receipt[r], run[r].owner, run[r].lease, StaleContract(r),
           RunPhaseUnchanged(r), run[r].snapshot, run[r].cont, run[r].attempts>>
WaitView(w) ==
    IF wait[w].status = "active" THEN wait[w]
    ELSE [wait[w] EXCEPT !.kind = IF wait[w].status = "none" THEN @ ELSE "hold",
                         !.run = IF wait[w].clar \in {"open", "queued"} THEN @ ELSE NoRun]
TurnView(t) ==
    IF turn[t].held = NoRun THEN turn[t]
    ELSE [turn[t] EXCEPT !.version = IF StillHeld(t) THEN 1 ELSE 0]
QueueView(t) == [queue[t] EXCEPT !.paused = @ /\ queue[t].sent < MaxChats]
View == <<task, [r \in Run |-> RunView(r)], [w \in Wait |-> WaitView(w)], input,
          slot, activeIds, stopped, restarts, [t \in Task |-> TurnView(t)],
          [t \in Task |-> QueueView(t)]>>
=============================================================================
