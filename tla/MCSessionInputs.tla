--------------------------- MODULE MCSessionInputs ---------------------------
EXTENDS SessionInputs, TLC
CONSTANTS i1, i2, o1, o2
K(path, prio, steer, single) ==
    [path |-> path, prio |-> prio, steer |-> steer, single |-> single]
Kinds == {K("direct", FALSE, TRUE, FALSE),
          K("command", FALSE, TRUE, FALSE), K("command", TRUE, FALSE, FALSE),
          K("command", FALSE, FALSE, TRUE), K("replace", FALSE, FALSE, FALSE)}
CONSTANT MaxDisturbances

\* Inputs and operations are interchangeable: the first to arrive is the first
\* of its set.
FirstCome ==
    /\ (sub[i1].phase = "new" /\ sub[i2].phase = "new") => sub'[i2].phase = "new"
    /\ \A o, q \in Op : (o = o1 /\ q = o2 /\ op[o] = NoOp) => op'[q] = NoOp

\* What happens from outside, any MaxDisturbances of them together.
Disturbances == Cardinality({o \in Op : op[o] # NoOp}) + restarts + transcript - 1
Bounded == FirstCome /\ Disturbances' <= MaxDisturbances
=============================================================================
