------------------------ MODULE SessionInputs_proofs -------------------------
(***************************************************************************)
(* Proofs about SessionInputs, for any finite number of inputs and any     *)
(* number of operations: type correctness, one running input, steering of  *)
(* the current run, and that a stop reaches the agent.  The second part is *)
(* what the agent is given: no input more often than its user asked for.   *)
(* The third is the wake-ups of the drain loop, none of which is lost, and *)
(* the last one the life of a message: which status may follow which.      *)
(***************************************************************************)
EXTENDS SessionInputs, FiniteSetTheorems, WellFoundedInduction, TLAPS

\* What the rows say of the active run
RowsFit == /\ row \in [Input -> RowType]
           /\ \A i \in Input : /\ row[i].status = "running" => i = active.input
                               /\ row[i].status = "injecting" =>
                                     row[i].target = active.run /\ active.run # None
IInv == TypeOK /\ RowsFit /\ StopReachesTheAgent

Column(S)  == S \cup {None}
Drainer    == [at : {"idle", "claiming", "delayed", "preflight", "executing"},
               aborted : BOOLEAN, merged : SUBSET Input]
Request    == [phase : Phase, kind : Kind \cup {NoKind}]
ActiveRow  == [run : Run \cup {None}, input : Input \cup {None}]
ControlRow == [paused : BOOLEAN, stop : Run \cup {None}, permitted : Input \cup {None}]

-----------------------------------------------------------------------------
(* Positions.                                                              *)

\* A non-empty finite set of inputs has one that is last.
LEMMA LastExists ==
    ASSUME row \in [Input -> RowType], NEW S \in SUBSET Input, S # {}
    PROVE  \E i \in S : \A j \in S : row[j].position <= row[i].position
<1> DEFINE pos(i) == row[i].position
           F == {U \in FiniteSubsetsOf(S) : U # {} /\ \A x \in U, y \in S \ U : pos(y) <= pos(x)}
<1>1. IsFiniteSet(S) /\ \A i \in S : pos(i) \in Nat
  BY FS_Subset, QueueAssumption DEF RowType
<1>2. S \in F /\ F \subseteq FiniteSubsetsOf(S)
  BY <1>1 DEF FiniteSubsetsOf
<1>3. PICK U \in F : \A V \in F : ~(<<V, U>> \in StrictSubsetOrdering(S))
  <2>1. IsWellFoundedOn(StrictSubsetOrdering(S), FiniteSubsetsOf(S))
    BY FS_StrictSubsetOrderingWellFounded
  <2>2. F # {}
    BY <1>2
  <2>3. QED
    BY <1>2, <2>1, <2>2, WFMin
<1>4. PICK x \in U : TRUE
  BY <1>3
<1>5. x \in S /\ U \subseteq S
  BY <1>3, <1>4 DEF FiniteSubsetsOf
<1>6. ASSUME NEW y \in U, ~(pos(y) <= pos(x)) PROVE FALSE
  <2> DEFINE V == {z \in U : ~(pos(z) <= pos(x))}
  <2>1. V \in FiniteSubsetsOf(S) /\ V # {} /\ V \subseteq U /\ V # U
    <3>1. y \in V /\ x \notin V /\ V \subseteq U
      BY <1>1, <1>4, <1>5, <1>6
    <3>2. IsFiniteSet(V)
      BY <1>1, <1>5, <3>1, FS_Subset
    <3>3. QED
      BY <1>4, <1>5, <3>1, <3>2 DEF FiniteSubsetsOf
  <2>2. \A v \in V, z \in S \ V : pos(z) <= pos(v)
    <3> SUFFICES ASSUME NEW v \in V, NEW z \in S \ V PROVE pos(z) <= pos(v)
      OBVIOUS
    <3>1. pos(z) \in Nat /\ pos(v) \in Nat /\ pos(x) \in Nat
      BY <1>1, <1>5
    <3>2. CASE z \in U
      <4>1. pos(z) <= pos(x) /\ ~(pos(v) <= pos(x))
        BY <3>2
      <4>2. QED
        BY <3>1, <4>1
    <3>3. CASE z \notin U
      BY <1>3, <3>3
    <3>4. QED
      BY <3>2, <3>3
  <2>3. V \in F
    BY <2>1, <2>2
  <2>4. <<V, U>> \in StrictSubsetOrdering(S)
    BY <1>5, <2>1 DEF StrictSubsetOrdering
  <2>5. QED
    BY <1>3, <2>3, <2>4
<1>7. \A y \in S : pos(y) <= pos(x)
  <2>1. \A y \in S \ U : pos(y) <= pos(x)
    BY <1>3, <1>4
  <2>2. QED
    BY <1>6, <2>1
<1>8. QED
  BY <1>5, <1>7

LEMMA LastPositionType == row \in [Input -> RowType] => LastPosition \in Nat
<1> SUFFICES ASSUME row \in [Input -> RowType], PendingInputs # {} PROVE LastPosition \in Nat
  BY DEF LastPosition
<1> DEFINE last == CHOOSE i \in PendingInputs :
                      \A j \in PendingInputs : row[j].position <= row[i].position
<1>1. PendingInputs \subseteq Input
  BY DEF PendingInputs
<1>2. last \in PendingInputs
  BY <1>1, LastExists
<1>3. QED
  BY <1>1, <1>2 DEF LastPosition, RowType

-----------------------------------------------------------------------------
(* The transactions on rows.                                               *)

LEMMA RowShape ==
    ASSUME row \in [Input -> RowType], NEW i \in Input
    PROVE  /\ row[i].status \in Status /\ row[i].target \in Column(Run) /\ row[i].prio \in BOOLEAN
           /\ row[i].bound \in Column(Nat) /\ row[i].position \in Nat
  BY DEF RowType, Column

\* A row with another status, with another position, and steered to a run
Restated(x, st) == [x EXCEPT !.status = st]
Placed(x, n)    == [x EXCEPT !.position = n]
Steered(x, run) == [x EXCEPT !.status = "injecting", !.target = run]

LEMMA RestatedRow ==
    ASSUME NEW x \in RowType, NEW st \in Status
    PROVE  Restated(x, st) \in RowType /\ Restated(x, st).status = st
  BY DEF RowType, Restated

LEMMA PlacedRow ==
    ASSUME NEW x \in RowType, NEW n \in Nat
    PROVE  /\ Placed(x, n) \in RowType /\ Placed(x, n).status = x.status
           /\ Placed(x, n).target = x.target /\ Placed(x, n).bound = x.bound
  BY DEF RowType, Placed

LEMMA SteeredRow ==
    ASSUME NEW x \in RowType, NEW run \in Run
    PROVE  /\ Steered(x, run) \in RowType /\ Steered(x, run).status = "injecting"
           /\ Steered(x, run).target = run
  BY DEF RowType, Status, Steered

LEMMA NewInputFits ==
    ASSUME RowsFit, UNCHANGED active, NEW i \in Input, NEW st \in {"queued", "injecting"},
           NEW target \in Column(Run), NEW prio \in BOOLEAN, NEW bound \in Column(Nat),
           st = "injecting" => target = active.run /\ active.run # None,
           NewInput(i, st, target, prio, bound)
    PROVE  RowsFit'
<1> DEFINE x == [status |-> st, target |-> target, prio |-> prio, bound |-> bound,
                 position |-> LastPosition + 1]
<1>1. LastPosition + 1 \in Nat
  BY LastPositionType DEF RowsFit
<1>2. x \in RowType
  BY <1>1 DEF RowType, Status, Column
<1>3. row' = [row EXCEPT ![i] = x]
  BY DEF NewInput
<1>4. x.status = st /\ x.target = target
  OBVIOUS
<1> HIDE DEF x
<1>5. QED
  BY <1>2, <1>3, <1>4 DEF RowsFit

LEMMA SetStatusFits ==
    ASSUME RowsFit, UNCHANGED active, NEW i \in Input, NEW st \in {"queued", "interrupted"},
           SetStatus(i, st)
    PROVE  RowsFit'
<1> DEFINE x == [row[i] EXCEPT !.status = st, !.target = None]
<1>1. row[i] \in RowType
  BY DEF RowsFit
<1>2. x \in RowType /\ x.status = st
  BY <1>1 DEF RowType, Status
<1>3. row' = [row EXCEPT ![i] = x]
  BY DEF SetStatus, RowsFit
<1> HIDE DEF x
<1>4. QED
  BY <1>2, <1>3 DEF RowsFit

LEMMA InjectFits ==
    ASSUME RowsFit, UNCHANGED active, NEW i \in Input, active.run \in Run, active.run # None,
           Inject(i, active.run)
    PROVE  RowsFit'
<1> DEFINE x == [row[i] EXCEPT !.status = "injecting", !.target = active.run]
<1>1. row[i] \in RowType
  BY DEF RowsFit
<1>2. x \in RowType /\ x.status = "injecting" /\ x.target = active.run
  BY <1>1 DEF RowType, Status
<1>3. row' = [row EXCEPT ![i] = x]
  BY DEF Inject, RowsFit
<1> HIDE DEF x
<1>4. QED
  BY <1>2, <1>3 DEF RowsFit

LEMMA CancelFits ==
    ASSUME RowsFit, NEW i \in Input, CancelInput(i)
    PROVE  RowsFit'
<1> DEFINE x == Restated(row[i], "cancelled")
<1>1. row[i] \in RowType
  BY DEF RowsFit
<1>2. x \in RowType /\ x.status = "cancelled"
  BY <1>1, RestatedRow DEF Status
<1>3. row' = [row EXCEPT ![i] = x] /\ UNCHANGED active
  BY DEF CancelInput, RowsFit, Restated
<1> HIDE DEF x
<1>4. QED
  BY <1>2, <1>3 DEF RowsFit

LEMMA MoveFits ==
    ASSUME RowsFit, NEW i \in Input, NEW k \in Nat, MoveInput(i, k)
    PROVE  /\ RowsFit'
           /\ \A j \in Input : row'[j].status = row[j].status /\ row'[j].bound = row[j].bound
<1> DEFINE others  == With("queued") \ {i}
           rank(j) == Cardinality({m \in others : row[m].position <= row[j].position})
<1>1. \A j \in Input : row[j] \in RowType
  BY DEF RowsFit
<1>2. \A j \in Input : rank(j) \in Nat
  <2> SUFFICES ASSUME NEW j \in Input PROVE rank(j) \in Nat
    OBVIOUS
  <2>1. {m \in others : row[m].position <= row[j].position} \in SUBSET Input
    BY DEF With
  <2>2. QED
    BY <2>1, FS_Subset, FS_CardinalityType, QueueAssumption
<1>4. \A j \in Input : row'[j] = row[j] \/ \E n \in Nat : row'[j] = Placed(row[j], n)
  <2>1. row' = [j \in Input |->
             IF j = i THEN Placed(row[j], k + 1)
             ELSE IF j \in others
                  THEN Placed(row[j], IF rank(j) <= k THEN rank(j) ELSE rank(j) + 1)
                  ELSE row[j]]
    BY DEF MoveInput, Placed
  <2> HIDE DEF others, rank
  <2>2. \A j \in Input : (IF rank(j) <= k THEN rank(j) ELSE rank(j) + 1) \in Nat
    BY <1>2
  <2>3. k + 1 \in Nat
    OBVIOUS
  <2>4. QED
    BY <2>1, <2>2, <2>3
<1>5. \A j \in Input : /\ row'[j] \in RowType /\ row'[j].status = row[j].status
                       /\ row'[j].target = row[j].target /\ row'[j].bound = row[j].bound
  BY <1>1, <1>4, PlacedRow
<1>6. row' \in [Input -> RowType] /\ UNCHANGED active
  <2>1. row' = [j \in Input |-> row'[j]] /\ UNCHANGED active
    BY DEF MoveInput
  <2>2. QED
    BY <1>5, <2>1
<1>7. QED
  BY <1>5, <1>6 DEF RowsFit

LEMMA ParkedFits ==
    ASSUME RowsFit, NEW i \in Input
    PROVE  Parked[i] \in RowType /\ (Parked[i] = row[i] \/ Parked[i].status = "interrupted")
<1>1. row[i] \in RowType
  BY DEF RowsFit
<1>2. QED
  BY <1>1, RestatedRow DEF Parked, Status, Restated

\* When no run is active, nothing runs or is being injected.
LEMMA NothingRuns ==
    ASSUME RowsFit, QueueTypeOK, active.run = None
    PROVE  \A i \in Input : row[i].status \notin {"running", "injecting"}
<1>1. active.input = None
  BY DEF QueueTypeOK
<1>2. QED
  BY <1>1, QueueAssumption DEF RowsFit

LEMMA ClaimFits ==
    ASSUME RowsFit, QueueTypeOK, NEW i \in Input, NEW js \in SUBSET Input, ClaimNext(i, js)
    PROVE  RowsFit'
<1>1. /\ active.run = None /\ active' = [run |-> runs + 1, input |-> i] /\ runs \in Nat
      /\ row' = [k \in Input |->
                 IF k = i THEN Restated(row[k], "running")
                 ELSE IF k \in js THEN Steered(row[k], runs + 1) ELSE Parked[k]]
  BY DEF ClaimNext, MayClaim, QueueTypeOK, Restated, Steered
<1>2. runs + 1 \in Run /\ runs + 1 # None
  <2>1. runs + 1 \in Nat
    BY <1>1
  <2>2. QED
    BY <2>1, QueueAssumption DEF Run
<1>3. \A k \in Input : row[k].status \notin {"running", "injecting"} /\ row[k] \in RowType
  BY <1>1, NothingRuns DEF RowsFit
<1>5. \A k \in Input : /\ row'[k] \in RowType
                       /\ row'[k].status = "running" => k = i
                       /\ row'[k].status = "injecting" => row'[k].target = runs + 1
  <2> SUFFICES ASSUME NEW k \in Input
               PROVE  /\ row'[k] \in RowType
                      /\ row'[k].status = "running" => k = i
                      /\ row'[k].status = "injecting" => row'[k].target = runs + 1
    OBVIOUS
  <2>1. CASE k = i
    <3>1. row'[k] = Restated(row[k], "running")
      BY <1>1, <2>1
    <3>2. QED
      BY <1>3, <2>1, <3>1, RestatedRow DEF Status
  <2>2. CASE k # i /\ k \in js
    <3>1. row'[k] = Steered(row[k], runs + 1)
      BY <1>1, <2>2
    <3>2. QED
      BY <1>2, <1>3, <3>1, SteeredRow
  <2>3. CASE k # i /\ k \notin js
    <3>1. row'[k] = Parked[k]
      BY <1>1, <2>3
    <3>2. QED
      BY <1>3, <3>1, ParkedFits
  <2>4. QED
    BY <2>1, <2>2, <2>3
<1>6. active'.run = runs + 1 /\ active'.input = i
  BY <1>1
<1>7. row' \in [Input -> RowType]
  BY <1>1, <1>5
<1>8. QED
  BY <1>2, <1>5, <1>6, <1>7 DEF RowsFit

LEMMA ClaimNothingFits ==
    ASSUME RowsFit, ClaimNothing
    PROVE  RowsFit' /\ UNCHANGED active
<1>1. CASE UNCHANGED rows
  BY <1>1 DEF RowsFit, rows
<1>2. CASE row' = Parked /\ UNCHANGED active
  BY <1>2, ParkedFits DEF RowsFit, Parked
<1>3. QED
  BY <1>1, <1>2 DEF ClaimNothing, rows

LEMMA FinishFits ==
    ASSUME RowsFit, NEW st \in Status \ {"running", "injecting"}, FinishRun(st)
    PROVE  RowsFit'
<1>1. row' = [k \in Input |-> Finished(k, st)]
  BY DEF FinishRun
<1>2. \A k \in Input : row[k] \in RowType
  BY DEF RowsFit
<1>3. \A x \in RowType : \A s \in {st, "completed", "interrupted"} :
         Restated(x, s) \in RowType /\ Restated(x, s).status = s
  <2>1. {st, "completed", "interrupted"} \subseteq Status
    BY DEF Status
  <2>2. QED
    BY <2>1, RestatedRow
<1>4. \A k \in Input : /\ Finished(k, st) \in RowType
                       /\ Finished(k, st).status \notin {"running", "injecting"}
  <2> SUFFICES ASSUME NEW k \in Input
               PROVE  /\ Finished(k, st) \in RowType
                      /\ Finished(k, st).status \notin {"running", "injecting"}
    OBVIOUS
  <2>1. CASE k = active.input
    BY <1>2, <1>3, <2>1 DEF Finished, Restated
  <2>2. CASE k # active.input /\ row[k].status = "injecting" /\ row[k].target = active.run
    BY <1>2, <1>3, <2>2 DEF Finished, Restated
  <2>3. CASE k # active.input /\ ~(row[k].status = "injecting" /\ row[k].target = active.run)
    <3>1. Finished(k, st) = row[k]
      BY <2>3 DEF Finished
    <3>2. QED
      BY <1>2, <2>3, <3>1 DEF RowsFit
  <2>4. QED
    BY <2>1, <2>2, <2>3
<1>5. QED
  BY <1>1, <1>4 DEF RowsFit

LEMMA RecoverFits ==
    ASSUME RowsFit, RecoverQueue
    PROVE  RowsFit'
<1>1. row' = [i \in Input |-> IF row[i].status \in CutOff
                             THEN Restated(row[i], "interrupted") ELSE row[i]]
  BY DEF RecoverQueue, Restated
<1>2. \A i \in Input : row[i] \in RowType
  BY DEF RowsFit
<1>3. \A i \in Input : row'[i] \in RowType /\ row'[i].status \notin {"running", "injecting"}
  <2>1. "interrupted" \in Status
    BY DEF Status
  <2>2. \A i \in Input : /\ Restated(row[i], "interrupted") \in RowType
                         /\ Restated(row[i], "interrupted").status = "interrupted"
    BY <1>2, <2>1, RestatedRow
  <2>3. QED
    BY <1>1, <1>2, <2>2 DEF CutOff
<1>4. QED
  BY <1>1, <1>3 DEF RowsFit

-----------------------------------------------------------------------------
(* The columns the transactions leave in place, and what is in memory.     *)

\* The types outside the rows
ActiveOK  == active \in ActiveRow /\ (active.run = None) = (active.input = None)
QueueRest == /\ ActiveOK /\ control \in ControlRow /\ runs \in Nat
             /\ transcript \in 1..MaxTranscripts
             /\ preparation \in {"preparing", "preparation_failed", "ready"}
Ops       == [action : {"none", "stop", "pause", "resume", "send", "steer"},
              run : Column(Run)]
MemoryOK  == /\ sub \in [Input -> Request] /\ steers \subseteq Call
             /\ drainer \in Drainer /\ coalescing \in BOOLEAN
HistoryOK == /\ given \in [Input -> Nat] /\ asked \in [Input -> Nat] /\ lost \subseteq Input
RestOK    == op \in [Op -> Ops] /\ restarts \in 0..MaxRestarts

LEMMA Parts ==
    IInv <=> /\ RowsFit /\ QueueRest /\ MemoryOK /\ HistoryOK /\ RestOK
             /\ StopReachesTheAgent
  BY DEF IInv, TypeOK, QueueTypeOK, RowsFit, QueueRest, ActiveOK, MemoryOK, HistoryOK, RestOK,
         ActiveRow, ControlRow, Request, Drainer, Ops, Column

LEMMA Assembled ==
    RowsFit' /\ QueueRest' /\ MemoryOK' /\ HistoryOK' /\ RestOK' /\ StopReachesTheAgent' => IInv'
  BY DEF IInv, TypeOK, QueueTypeOK, RowsFit, QueueRest, ActiveOK, MemoryOK, HistoryOK, RestOK,
         ActiveRow, ControlRow, Request, Drainer, Ops, Column

LEMMA QueueTypes == RowsFit /\ QueueRest => QueueTypeOK
  BY DEF QueueTypeOK, RowsFit, QueueRest, ActiveOK, ActiveRow, ControlRow, Column

\* e follows d without starting an agent or forgetting that it was aborted.
Calm(d, e) == /\ e \in Drainer
              /\ e.at = "executing" => d.at = "executing" /\ (d.aborted => e.aborted)

LEMMA CalmAgain == ASSUME NEW d \in Drainer PROVE Calm(d, d)
  BY DEF Calm

LEMMA CalmMoves ==
    ASSUME NEW d \in Drainer, NEW at \in {"idle", "claiming", "delayed", "preflight"}
    PROVE  Calm(d, [d EXCEPT !.at = at])
  BY DEF Calm, Drainer

LEMMA CalmWoken == ASSUME NEW d \in Drainer PROVE Calm(d, Woken(d))
  BY CalmAgain, CalmMoves DEF Woken

LEMMA CalmInterrupted == ASSUME NEW d \in Drainer, NEW run PROVE Calm(d, Interrupted(d, run))
<1>1. CASE Interrupted(d, run) = d
  BY <1>1, CalmAgain
<1>2. CASE Interrupted(d, run) = [d EXCEPT !.aborted = TRUE]
  BY <1>2 DEF Calm, Drainer
<1>3. QED
  BY <1>1, <1>2 DEF Interrupted

LEMMA CalmPrioritize ==
    ASSUME drainer \in Drainer, Prioritize
    PROVE  Calm(drainer, drainer')
<1> DEFINE d == Interrupted(drainer, active.run)
<1>1. Calm(drainer, d) /\ d \in Drainer
  BY CalmInterrupted DEF Calm
<1>2. CASE drainer' = Woken(d)
  <2>1. Calm(d, drainer')
    BY <1>1, <1>2, CalmWoken
  <2>2. QED
    BY <1>1, <2>1 DEF Calm
<1>3. CASE drainer' = Woken(drainer)
  BY <1>3, CalmWoken
<1>4. QED
  BY <1>2, <1>3 DEF Prioritize

LEMMA CalmLoopsOn == LoopsOn => Calm(drainer, drainer')
<1>1. AtRest \in Drainer
  BY DEF AtRest, Drainer
<1>2. [AtRest EXCEPT !.at = "claiming"] \in Drainer /\ [AtRest EXCEPT !.at = "claiming"].at = "claiming"
  BY <1>1 DEF Drainer
<1>3. QED
  BY <1>2 DEF LoopsOn, Calm

\* The fence holds when neither it nor the run moves and the drainer is calm.
LEMMA FenceHolds ==
    ASSUME StopReachesTheAgent, Calm(drainer, drainer'),
           control'.stop \in {None, control.stop}, active' = active
    PROVE  StopReachesTheAgent'
  BY DEF StopReachesTheAgent, Calm

LEMMA FenceLifted == control'.stop = None => StopReachesTheAgent'
  BY DEF StopReachesTheAgent

\* Moving or returning a request
LEMMA Requests ==
    ASSUME sub \in [Input -> Request], NEW i \in Input
    PROVE  /\ \A phase \in Phase : To(i, phase) => sub' \in [Input -> Request]
           /\ Returns(i) => sub' \in [Input -> Request]
<1>1. \A x \in Request, phase \in Phase : [x EXCEPT !.phase = phase] \in Request
  BY DEF Request
<1>2. [phase |-> "over", kind |-> NoKind] \in Request
  BY DEF Request, Phase
<1>3. ASSUME NEW phase \in Phase, To(i, phase) PROVE sub' \in [Input -> Request]
  <2>1. [sub[i] EXCEPT !.phase = phase] \in Request
    BY <1>3 DEF Request
  <2>2. sub' = [sub EXCEPT ![i] = [sub[i] EXCEPT !.phase = phase]]
    BY <1>3 DEF To
  <2> DEFINE y == [sub[i] EXCEPT !.phase = phase]
  <2> HIDE DEF y
  <2>3. QED
    BY <2>1, <2>2 DEF y
<1>4. QED
  BY <1>2, <1>3 DEF Returns

LEMMA NewCall ==
    ASSUME steers \subseteq Call, NEW by \in Input \cup Op, NEW i \in Input,
           ActiveOK, active.run # None, Calls(by, i)
    PROVE  steers' \subseteq Call
<1>1. active.run \in Run
  BY DEF ActiveOK, ActiveRow, Column
<1> DEFINE c == [by |-> by, input |-> i, run |-> active.run, handed |-> FALSE]
<1>2. c \in Call
  BY <1>1 DEF Call
<1>3. steers' = steers \cup {c}
  BY DEF Calls
<1> HIDE DEF c
<1>4. QED
  BY <1>2, <1>3

LEMMA AskType ==
    ASSUME asked \in [Input -> Nat], NEW i \in Input, Asks(i) PROVE asked' \in [Input -> Nat]
  BY DEF Asks

LEMMA AuthorizeType ==
    ASSUME control \in ControlRow, NEW i \in Input, AuthorizeSingle(i)
    PROVE  control' \in ControlRow /\ control'.stop = control.stop
  BY DEF AuthorizeSingle, ControlRow

-----------------------------------------------------------------------------
(* Every action keeps the invariant.                                       *)

LEMMA RowsUntouched == RowsFit /\ QueueRest /\ UNCHANGED rows => RowsFit' /\ QueueRest'
  BY DEF RowsFit, QueueRest, ActiveOK, rows

\* An action that leaves the rows alone and calms the drain loop.
LEMMA RowsAlone ==
    ASSUME IInv, UNCHANGED rows, MemoryOK', Calm(drainer, drainer'), HistoryOK', RestOK'
    PROVE  IInv'
<1>1. RowsFit' /\ QueueRest'
  BY RowsUntouched, Parts
<1>2. StopReachesTheAgent'
  BY FenceHolds, Parts DEF rows
<1>3. QED
  BY <1>1, <1>2, Assembled

LEMMA SubmitKeeps ==
    ASSUME IInv, NEW i \in Input,
           \/ Receive(i) \/ Prepare(i) \/ Refuse(i) \/ ReplaceAborts(i)
    PROVE  IInv'
<1>1. UNCHANGED rows /\ HistoryOK' /\ RestOK'
  BY Parts DEF Receive, Prepare, Refuse, ReplaceAborts, HistoryOK, RestOK, history
<1>2. sub' \in [Input -> Request]
  <2>1. CASE Receive(i)
    <3>1. PICK kind \in Kind : sub' = [sub EXCEPT ![i] = [phase |-> "waiting", kind |-> kind]]
      BY <2>1 DEF Receive
    <3>2. [phase |-> "waiting", kind |-> kind] \in Request
      BY DEF Request, Phase
    <3>3. QED
      BY <3>1, <3>2, Parts DEF MemoryOK
  <2>2. CASE Prepare(i)
    BY <2>2, Requests, Parts DEF Prepare, MemoryOK, Phase
  <2>3. CASE Refuse(i)
    BY <2>3, Requests, Parts DEF Refuse, MemoryOK
  <2>4. CASE ReplaceAborts(i)
    BY <2>4, Parts DEF ReplaceAborts, MemoryOK
  <2>5. QED
    BY <2>1, <2>2, <2>3, <2>4
<1>3. Calm(drainer, drainer')
  BY CalmAgain, CalmWoken, CalmInterrupted, Parts
     DEF Receive, Prepare, Refuse, ReplaceAborts, MemoryOK
<1>4. MemoryOK'
  BY <1>2, <1>3, Parts DEF Receive, Prepare, Refuse, ReplaceAborts, MemoryOK, Calm
<1>5. QED
  BY <1>1, <1>3, <1>4, RowsAlone

LEMMA AcceptDirectKeeps == ASSUME IInv, NEW i \in Input, AcceptDirect(i) PROVE IInv'
<1> DEFINE prio    == ~control.paused /\ sub[i].kind.prio
           injects == ~control.paused /\ ~prio /\ sub[i].kind.steer /\ active.run # None
<1> USE DEF AcceptDirect
<1>1. UNCHANGED <<active, control, runs, transcript, preparation, op, restarts, given, lost>>
  OBVIOUS
<1>2. QueueRest' /\ RestOK' /\ HistoryOK'
  BY <1>1, AskType, Parts DEF QueueRest, ActiveOK, RestOK, HistoryOK
<1>3. prio \in BOOLEAN
  OBVIOUS
<1>4. active.run \in Column(Run) /\ None \in Column(Run) /\ None \in Column(Nat)
  BY Parts DEF QueueRest, ActiveOK, ActiveRow, Column
<1>5. CASE injects
  <2>1. NewInput(i, "injecting", active.run, prio, None) /\ Calls(i, i)
        /\ To(i, "steering") /\ UNCHANGED drainer
    BY <1>5
  <2>2. RowsFit'
    BY <1>1, <1>3, <1>4, <1>5, <2>1, NewInputFits, Parts
  <2>3. steers' \subseteq Call
    BY <1>5, <2>1, NewCall, Parts DEF QueueRest, MemoryOK
  <2>4. sub' \in [Input -> Request]
    BY <2>1, Requests, Parts DEF MemoryOK, Phase
  <2>5. MemoryOK' /\ Calm(drainer, drainer')
    BY <1>3, <2>1, <2>3, <2>4, CalmAgain, Parts DEF MemoryOK
  <2>6. QED
    BY <1>1, <1>2, <2>2, <2>5, FenceHolds, Assembled, Parts
<1>6. CASE ~injects
  <2>1. /\ NewInput(i, "queued", None, prio, None) /\ Returns(i) /\ UNCHANGED steers
        /\ (IF prio THEN Prioritize ELSE drainer' = Woken(drainer))
    BY <1>6
  <2>2. RowsFit'
    BY <1>1, <1>3, <1>4, <2>1, NewInputFits, Parts
  <2>3. Calm(drainer, drainer')
    BY <2>1, CalmPrioritize, CalmWoken, Parts DEF MemoryOK
  <2>4. MemoryOK'
    BY <1>3, <2>1, <2>3, Requests, Parts DEF MemoryOK, Calm
  <2>5. QED
    BY <1>1, <1>2, <2>2, <2>3, <2>4, FenceHolds, Assembled, Parts
<1>7. QED
  BY <1>5, <1>6

LEMMA AcceptCommandKeeps == ASSUME IInv, NEW i \in Input, AcceptCommand(i) PROVE IInv'
<1>1. UNCHANGED <<active, runs, transcript, preparation, op, steers, drainer, coalescing,
                  restarts, given, lost>>
  BY DEF AcceptCommand
<1>2. control' \in ControlRow /\ control'.stop = control.stop
  BY AuthorizeType, Parts DEF AcceptCommand, QueueRest
<1>3. QueueRest' /\ RestOK' /\ HistoryOK'
  BY <1>1, <1>2, AskType, Parts DEF AcceptCommand, QueueRest, ActiveOK, RestOK, HistoryOK
<1>4. MemoryOK' /\ Calm(drainer, drainer')
  BY <1>1, Requests, CalmAgain, Parts DEF AcceptCommand, MemoryOK, Phase
<1>5. NewInput(i, "queued", None, sub[i].kind.prio, transcript)
  BY DEF AcceptCommand
<1>6. sub[i].kind.prio \in BOOLEAN /\ transcript \in Column(Nat) /\ None \in Column(Run)
  <2>1. sub[i].kind \in Kind \cup {NoKind}
    BY Parts DEF MemoryOK, Request
  <2>2. sub[i].kind.prio \in BOOLEAN
    <3>1. CASE sub[i].kind = NoKind
      BY <3>1 DEF NoKind
    <3>2. CASE sub[i].kind \in SubmissionKind
      BY <3>2 DEF SubmissionKind
    <3>3. QED
      BY <2>1, <3>1, <3>2, InputsAssumption
  <2>3. QED
    BY <2>2, QueueAssumption, Parts DEF QueueRest, Column
<1>7. RowsFit'
  BY <1>1, <1>5, <1>6, NewInputFits, Parts
<1>8. QED
  BY <1>1, <1>2, <1>3, <1>4, <1>7, FenceHolds, Assembled, Parts

LEMMA AcceptReplaceKeeps == ASSUME IInv, NEW i \in Input, AcceptReplace(i) PROVE IInv'
<1>1. UNCHANGED <<active, runs, transcript, preparation, op, steers, coalescing,
                  restarts, given, lost>>
  BY DEF AcceptReplace
<1>2. control' \in ControlRow /\ control'.stop = control.stop
  BY AuthorizeType, Parts DEF AcceptReplace, QueueRest
<1>3. QueueRest' /\ RestOK' /\ HistoryOK'
  BY <1>1, <1>2, AskType, Parts DEF AcceptReplace, QueueRest, ActiveOK, RestOK, HistoryOK
<1>4. Calm(drainer, drainer')
  BY CalmWoken, Parts DEF AcceptReplace, MemoryOK
<1>5. MemoryOK'
  BY <1>1, <1>4, Requests, Parts DEF AcceptReplace, MemoryOK, Calm
<1>6. NewInput(i, "queued", None, FALSE, None)
  BY DEF AcceptReplace
<1>7. None \in Column(Nat) /\ None \in Column(Run)
  BY DEF Column
<1>8. RowsFit'
  BY <1>1, <1>6, <1>7, NewInputFits, Parts
<1>9. QED
  BY <1>1, <1>2, <1>3, <1>4, <1>5, <1>8, FenceHolds, Assembled, Parts

LEMMA DispatchKeeps == ASSUME IInv, NEW i \in Input, Dispatch(i) PROVE IInv'
<1> DEFINE live == row[i].status = "queued" /\ ~control.paused
           interrupts == live /\ row[i].prio
           injects == /\ live /\ ~row[i].prio /\ sub[i].kind.steer /\ active.run # None
                      /\ preparation = "ready"
<1>1. UNCHANGED <<active, control, runs, transcript, preparation, op, restarts, history>>
  BY DEF Dispatch
<1>2. QueueRest' /\ RestOK' /\ HistoryOK'
  BY <1>1, Parts DEF QueueRest, ActiveOK, RestOK, HistoryOK, history
<1>3. CASE interrupts
  <2>1. Returns(i) /\ Prioritize /\ coalescing' = TRUE /\ UNCHANGED <<row, steers>>
    BY <1>3 DEF Dispatch
  <2>2. Calm(drainer, drainer')
    BY <2>1, CalmPrioritize, Parts DEF MemoryOK
  <2>3. MemoryOK' /\ RowsFit'
    BY <1>1, <2>1, <2>2, Requests, Parts DEF MemoryOK, Calm, RowsFit
  <2>4. QED
    BY <1>1, <1>2, <2>2, <2>3, FenceHolds, Assembled, Parts
<1>4. CASE injects
  <2>1. Inject(i, active.run) /\ Calls(i, i) /\ To(i, "steering")
        /\ UNCHANGED <<drainer, coalescing>>
    BY <1>4 DEF Dispatch
  <2>2. active.run \in Run /\ active.run # None
    BY <1>4, Parts DEF QueueRest, ActiveOK, ActiveRow, Column
  <2>3. RowsFit'
    BY <1>1, <2>1, <2>2, InjectFits, Parts
  <2>4. steers' \subseteq Call
    BY <2>1, <2>2, NewCall, Parts DEF QueueRest, MemoryOK
  <2>5. sub' \in [Input -> Request]
    BY <2>1, Requests, Parts DEF MemoryOK, Phase
  <2>6. MemoryOK' /\ Calm(drainer, drainer')
    BY <2>1, <2>4, <2>5, CalmAgain, Parts DEF MemoryOK
  <2>7. QED
    BY <1>1, <1>2, <2>3, <2>6, FenceHolds, Assembled, Parts
<1>5. CASE ~interrupts /\ ~injects
  <2>1. Returns(i) /\ drainer' = Woken(drainer) /\ UNCHANGED <<row, steers, coalescing>>
    BY <1>5 DEF Dispatch
  <2>2. Calm(drainer, drainer')
    BY <2>1, CalmWoken, Parts DEF MemoryOK
  <2>3. MemoryOK' /\ RowsFit'
    BY <1>1, <2>1, <2>2, Requests, Parts DEF MemoryOK, Calm, RowsFit
  <2>4. QED
    BY <1>1, <1>2, <2>2, <2>3, FenceHolds, Assembled, Parts
<1>6. QED
  BY <1>3, <1>4, <1>5

LEMMA AnsweredKeeps ==
    ASSUME IInv, NEW s \in steers, Answered(s)
    PROVE  /\ steers' \subseteq Call /\ sub' \in [Input -> Request]
           /\ Calm(drainer, drainer') /\ s.input \in Input
<1>1. s \in Call /\ steers' = steers \ {s}
  BY Parts DEF Answered, MemoryOK
<1>2. steers' \subseteq Call /\ s.input \in Input
  BY <1>1, Parts DEF MemoryOK, Call
<1>3. CASE s.by \in Input
  BY <1>2, <1>3, Requests, CalmWoken, Parts DEF Answered, MemoryOK
<1>4. CASE s.by \notin Input
  BY <1>2, <1>4, CalmAgain, Parts DEF Answered, MemoryOK
<1>5. QED
  BY <1>3, <1>4

LEMMA SteeringKeeps ==
    ASSUME IInv, NEW s \in steers, Hand(s) \/ Confirm(s) \/ Decline(s) \/ Throw(s)
    PROVE  IInv'
<1>1. CASE Hand(s)
  <2>1. s \in Call
    BY Parts DEF MemoryOK
  <2> DEFINE t == [s EXCEPT !.handed = TRUE]
  <2>2. t \in Call /\ steers' = (steers \ {s}) \cup {t} /\ s.input \in Input
    BY <1>1, <2>1 DEF Hand, Call
  <2> HIDE DEF t
  <2>3. steers' \subseteq Call
    BY <2>2, Parts DEF MemoryOK
  <2>4. HistoryOK' /\ RestOK' /\ UNCHANGED rows
    BY <1>1, <2>2, Parts DEF Hand, HistoryOK, RestOK
  <2>5. MemoryOK' /\ Calm(drainer, drainer')
    BY <1>1, <2>3, CalmAgain, Parts DEF Hand, MemoryOK
  <2>6. QED
    BY <2>4, <2>5, RowsAlone
<1>2. CASE Confirm(s)
  <2>1. MemoryOK' /\ Calm(drainer, drainer')
    BY <1>2, AnsweredKeeps, Parts DEF Confirm, MemoryOK, Calm
  <2>2. HistoryOK' /\ RestOK' /\ UNCHANGED rows
    BY <1>2, Parts DEF Confirm, HistoryOK, RestOK, history
  <2>3. QED
    BY <2>1, <2>2, RowsAlone
<1>3. CASE Decline(s)
  <2>1. MemoryOK' /\ Calm(drainer, drainer') /\ s.input \in Input
    BY <1>3, AnsweredKeeps, Parts DEF Decline, MemoryOK, Calm
  <2>2. UNCHANGED <<active, control>> /\ HistoryOK' /\ RestOK' /\ QueueRest'
    BY <1>3, Parts DEF Decline, HistoryOK, RestOK, QueueRest, ActiveOK, history
  <2>3. SetStatus(s.input, IF s.by \in Input THEN "queued" ELSE "interrupted")
    BY <1>3 DEF Decline
  <2>4. RowsFit'
    BY <2>1, <2>2, <2>3, SetStatusFits, Parts
  <2>5. QED
    BY <2>1, <2>2, <2>4, FenceHolds, Assembled, Parts
<1>4. CASE Throw(s)
  <2>1. MemoryOK' /\ Calm(drainer, drainer') /\ s.input \in Input
    BY <1>4, AnsweredKeeps, Parts DEF Throw, MemoryOK, Calm
  <2>2. HistoryOK' /\ RestOK' /\ UNCHANGED rows
    BY <1>4, <2>1, Parts DEF Throw, Unconfirmed, HistoryOK, RestOK, rows
  <2>3. QED
    BY <2>1, <2>2, RowsAlone
<1>5. QED
  BY <1>1, <1>2, <1>3, <1>4

LEMMA IssueKeeps ==
    ASSUME RestOK, NEW o \in Op, NEW action \in {"stop", "pause", "resume", "send", "steer"},
           NEW run \in Column(Run), Issue(o, action, run), UNCHANGED restarts
    PROVE  RestOK'
<1> DEFINE x == [action |-> action, run |-> run]
<1>1. x \in Ops
  BY DEF Ops
<1>2. op' = [op EXCEPT ![o] = x]
  BY DEF Issue
<1> HIDE DEF x
<1>3. QED
  BY <1>1, <1>2 DEF RestOK

\* Stop: the fence is set on the active run, and the agent, if one runs, aborted.
LEMMA StopKeeps == ASSUME IInv, NEW o \in Op, Stop(o) PROVE IInv'
<1>1. UNCHANGED <<row, active, runs, transcript, preparation, sub, steers, coalescing,
                  restarts, history>>
  BY DEF Stop
<1>2. active.run \in Column(Run)
  BY Parts DEF QueueRest, ActiveOK, ActiveRow, Column
<1>3. control' \in ControlRow /\ control'.stop = active.run
  BY <1>2 DEF Stop, Stopped, ControlRow, Column
<1>4. Calm(drainer, drainer')
  BY CalmInterrupted, Parts DEF Stop, MemoryOK
<1>5. RowsFit' /\ QueueRest' /\ MemoryOK' /\ HistoryOK'
  BY <1>1, <1>3, <1>4, Parts
     DEF RowsFit, QueueRest, ActiveOK, MemoryOK, HistoryOK, history, Calm
<1>6. RestOK'
  BY <1>1, <1>2, IssueKeeps, Parts DEF Stop
<1>7. ASSUME active.run # None, drainer'.at = "executing" PROVE drainer'.aborted
  <2>1. drainer.at = "executing"
    BY <1>4, <1>7 DEF Calm
  <2>2. drainer' = [drainer EXCEPT !.aborted = TRUE]
    BY <1>7, <2>1 DEF Stop, Interrupted
  <2>3. QED
    BY <2>2, Parts DEF MemoryOK, Drainer
<1>8. StopReachesTheAgent'
  BY <1>1, <1>3, <1>7 DEF StopReachesTheAgent
<1>9. QED
  BY <1>5, <1>6, <1>8, Assembled

LEMMA ControlKeeps ==
    ASSUME IInv, NEW o \in Op, ReplayStop(o) \/ Pause(o) \/ Resume(o)
    PROVE  IInv'
<1>1. UNCHANGED <<row, active, runs, transcript, preparation, sub, steers, coalescing,
                  restarts, history>>
  BY DEF ReplayStop, Pause, Resume, rows, memory
<1>2. control' \in ControlRow /\ control'.stop = control.stop
  BY Parts DEF ReplayStop, Pause, Resume, PauseQueue, ResumeQueue, rows, QueueRest, ControlRow
<1>3. Calm(drainer, drainer')
  BY CalmAgain, CalmWoken, CalmInterrupted, Parts DEF ReplayStop, Pause, Resume, memory, MemoryOK
<1>4. RowsFit' /\ QueueRest' /\ MemoryOK' /\ HistoryOK'
  BY <1>1, <1>2, <1>3, Parts
     DEF RowsFit, QueueRest, ActiveOK, MemoryOK, HistoryOK, history, Calm
<1>5. None \in Column(Run)
  BY DEF Column
<1>6. RestOK'
  <2>1. CASE ReplayStop(o)
    BY <2>1, Parts DEF ReplayStop, RestOK
  <2>2. CASE Pause(o) \/ Resume(o)
    BY <1>1, <1>5, <2>2, IssueKeeps, Parts DEF Pause, Resume
  <2>3. QED
    BY <2>1, <2>2
<1>7. QED
  BY <1>1, <1>2, <1>3, <1>4, <1>6, FenceHolds, Assembled, Parts

LEMMA SendKeeps == ASSUME IInv, NEW o \in Op, NEW i \in Input, Send(o, i) PROVE IInv'
<1>1. UNCHANGED <<active, runs, transcript, preparation, sub, steers, coalescing,
                  restarts, given, lost>>
  BY DEF Send
<1>2. control' \in ControlRow /\ control'.stop = control.stop /\ SetStatus(i, "queued")
  BY Parts DEF Send, SendInput, QueueRest, ControlRow
<1>3. Calm(drainer, drainer')
  BY CalmWoken, Parts DEF Send, MemoryOK
<1>4. asked' \in [Input -> Nat]
  BY AskType, Parts DEF Send, HistoryOK
<1>5. QueueRest' /\ MemoryOK' /\ HistoryOK'
  BY <1>1, <1>2, <1>3, <1>4, Parts DEF QueueRest, ActiveOK, MemoryOK, HistoryOK, Calm
<1>6. RowsFit'
  BY <1>1, <1>2, SetStatusFits, Parts
<1>7. None \in Column(Run)
  BY DEF Column
<1>8. RestOK'
  BY <1>1, <1>7, IssueKeeps, Parts DEF Send
<1>9. QED
  BY <1>1, <1>2, <1>3, <1>5, <1>6, <1>8, FenceHolds, Assembled, Parts

LEMMA SteerKeeps == ASSUME IInv, NEW o \in Op, NEW i \in Input, Steer(o, i) PROVE IInv'
<1>1. UNCHANGED <<active, runs, transcript, preparation, sub, drainer, coalescing,
                  restarts, history>>
  BY DEF Steer
<1>2. active.run # None /\ Inject(i, active.run) /\ Calls(o, i)
  BY DEF Steer, SteerInput
<1>3. active.run \in Run
  BY <1>2, Parts DEF QueueRest, ActiveOK, ActiveRow, Column
<1>4. control' \in ControlRow /\ control'.stop = control.stop
  BY Parts DEF Steer, SteerInput, QueueRest, ControlRow
<1>5. steers' \subseteq Call
  BY <1>2, NewCall, Parts DEF QueueRest, MemoryOK
<1>6. QueueRest' /\ MemoryOK' /\ HistoryOK' /\ Calm(drainer, drainer')
  BY <1>1, <1>4, <1>5, CalmAgain, Parts DEF QueueRest, ActiveOK, MemoryOK, HistoryOK, history
<1>7. RowsFit'
  BY <1>1, <1>2, <1>3, InjectFits, Parts
<1>8. active.run \in Column(Run)
  BY <1>3 DEF Column
<1>9. RestOK'
  BY <1>1, <1>8, IssueKeeps, Parts DEF Steer
<1>10. QED
  BY <1>1, <1>4, <1>6, <1>7, <1>9, FenceHolds, Assembled, Parts

LEMMA EditKeeps == ASSUME IInv, NEW i \in Input, Remove(i) \/ Move(i) PROVE IInv'
<1>1. UNCHANGED <<active, runs, transcript, preparation, sub, op, steers, coalescing,
                  restarts, history>>
  BY DEF Remove, Move, memory, CancelInput, MoveInput
<1>2. control' \in ControlRow /\ control'.stop = control.stop
  BY Parts DEF Remove, Move, CancelInput, MoveInput, QueueRest, ControlRow
<1>3. Calm(drainer, drainer')
  BY CalmAgain, CalmWoken, Parts DEF Remove, Move, memory, MemoryOK
<1>4. QueueRest' /\ MemoryOK' /\ HistoryOK' /\ RestOK'
  BY <1>1, <1>2, <1>3, Parts
     DEF QueueRest, ActiveOK, MemoryOK, HistoryOK, RestOK, history, Calm
<1>5. RowsFit'
  <2>1. CASE Remove(i)
    BY <2>1, CancelFits, Parts DEF Remove
  <2>2. CASE Move(i)
    <3>1. PICK k \in 0..Cardinality(Input) : MoveInput(i, k)
      BY <2>2 DEF Move
    <3>2. k \in Nat
      BY FS_CardinalityType, QueueAssumption
    <3>3. QED
      BY <3>1, <3>2, MoveFits, Parts
  <2>3. QED
    BY <2>1, <2>2
<1>6. QED
  BY <1>1, <1>2, <1>3, <1>4, <1>5, FenceHolds, Assembled, Parts

LEMMA LoopKeeps ==
    ASSUME IInv, Leave \/ Delay \/ Elapse \/ Execute
    PROVE  IInv'
<1>1. UNCHANGED <<active, runs, transcript, preparation, sub, op, steers, restarts, asked, lost>>
  BY DEF Leave, Delay, Elapse, Execute, ClaimNothing, rows, history
<1>2. control' \in ControlRow /\ control'.stop = control.stop
  BY Parts DEF Leave, Delay, Elapse, Execute, ClaimNothing, rows, QueueRest, ControlRow
<1>3. RowsFit'
  <2>1. CASE UNCHANGED rows
    BY <2>1, RowsUntouched, Parts
  <2>2. CASE ClaimNothing
    BY <2>2, ClaimNothingFits, Parts
  <2>3. QED
    BY <2>1, <2>2 DEF Leave, Delay, Elapse, Execute
<1>4. coalescing' \in BOOLEAN /\ given' \in [Input -> Nat]
  <2>1. CASE Execute
    <3>1. given' = [i \in Input |-> IF i \in drainer.merged THEN given[i] + 1 ELSE given[i]]
          /\ UNCHANGED coalescing
      BY <2>1 DEF Execute
    <3>2. QED
      BY <3>1, Parts DEF MemoryOK, HistoryOK
  <2>2. CASE Leave \/ Delay \/ Elapse
    BY <2>2, Parts DEF Leave, Delay, Elapse, MemoryOK, HistoryOK, history
  <2>3. QED
    BY <2>1, <2>2
<1>5. drainer' \in Drainer
  BY Parts DEF Leave, Delay, Elapse, Execute, At, MemoryOK, Drainer
<1>6. QueueRest' /\ MemoryOK' /\ HistoryOK' /\ RestOK'
  BY <1>1, <1>2, <1>4, <1>5, Parts DEF QueueRest, ActiveOK, MemoryOK, HistoryOK, RestOK
<1>7. StopReachesTheAgent'
  <2>1. CASE Execute
    BY <1>2, <2>1, FenceLifted DEF Execute, MayExecute
  <2>2. CASE Leave \/ Delay \/ Elapse
    <3>1. Calm(drainer, drainer')
      BY <2>2, CalmMoves, Parts DEF Leave, Delay, Elapse, At, MemoryOK
    <3>2. QED
      BY <1>1, <1>2, <3>1, FenceHolds, Parts
  <2>3. QED
    BY <2>1, <2>2
<1>8. QED
  BY <1>3, <1>6, <1>7, Assembled

LEMMA ClaimKeeps == ASSUME IInv, Claim PROVE IInv'
<1>1. PICK i \in Input, js \in SUBSET Input :
         /\ ClaimNext(i, js)
         /\ drainer' = [at |-> "preflight", aborted |-> FALSE, merged |-> js \cup {i}]
  BY DEF Claim
<1>2. UNCHANGED <<sub, op, steers, coalescing, restarts, history, transcript, preparation>>
  BY <1>1 DEF Claim, ClaimNext
<1>3. active' = [run |-> runs + 1, input |-> i] /\ runs' = runs + 1 /\ runs \in Nat
  BY <1>1, Parts DEF ClaimNext, QueueRest
<1>4. ActiveOK'
  <2>1. runs + 1 \in Nat
    BY <1>3
  <2>2. active'.run = runs + 1 /\ active'.input = i
    BY <1>3
  <2>3. active' \in ActiveRow
    BY <1>3, <2>1 DEF ActiveRow, Run
  <2>4. active'.run # None /\ active'.input # None
    BY <2>1, <2>2, QueueAssumption
  <2>5. QED
    BY <2>3, <2>4 DEF ActiveOK
<1>5. control' \in ControlRow /\ control'.stop = None
  BY <1>1, Parts DEF ClaimNext, MayClaim, QueueRest, ControlRow
<1>6. drainer' \in Drainer
  BY <1>1 DEF Drainer
<1>7. QueueRest' /\ MemoryOK' /\ HistoryOK' /\ RestOK'
  BY <1>2, <1>3, <1>4, <1>5, <1>6, Parts DEF QueueRest, MemoryOK, HistoryOK, RestOK, history
<1>8. RowsFit'
  BY <1>1, ClaimFits, QueueTypes, Parts
<1>9. QED
  BY <1>5, <1>7, <1>8, FenceLifted, Assembled

LEMMA EndKeeps == ASSUME IInv, Forgo \/ Finish PROVE IInv'
<1>1. PICK st \in {"completed", "suspended", "cancelled", "failed"} : FinishRun(st)
  BY DEF Forgo, Finish
<1>2. UNCHANGED <<sub, op, steers, coalescing, restarts, history, runs, transcript, preparation>>
  BY <1>1 DEF Forgo, Finish, FinishRun
<1>3. Calm(drainer, drainer')
  BY CalmLoopsOn DEF Forgo, Finish
<1>4. active' = [run |-> None, input |-> None]
  BY <1>1 DEF FinishRun, Released
<1>5. ActiveOK'
  BY <1>4 DEF ActiveOK, ActiveRow
<1>6. control' \in ControlRow /\ control'.stop = None
  <2>1. control.stop = None \/ control.stop = active.run
    BY Parts DEF StopReachesTheAgent
  <2>2. QED
    BY <1>1, <2>1, Parts DEF FinishRun, QueueRest, ControlRow
<1>7. QueueRest' /\ MemoryOK' /\ HistoryOK' /\ RestOK'
  BY <1>2, <1>3, <1>5, <1>6, Parts DEF QueueRest, MemoryOK, HistoryOK, RestOK, history, Calm
<1>8. RowsFit'
  BY <1>1, FinishFits, Parts DEF Status
<1>9. QED
  BY <1>6, <1>7, <1>8, FenceLifted, Assembled

LEMMA SurroundKeeps == ASSUME IInv, Surround PROVE IInv'
<1>1. UNCHANGED <<row, active, control, runs, sub, op, steers, coalescing, restarts, history>>
  BY DEF Surround, PreparationEnds, RetryPreparation, NewTranscript, memory
<1>2. Calm(drainer, drainer')
  BY CalmAgain, CalmWoken, Parts
     DEF Surround, PreparationEnds, RetryPreparation, NewTranscript, memory, MemoryOK
<1>3. /\ transcript' \in 1..MaxTranscripts
      /\ preparation' \in {"preparing", "preparation_failed", "ready"}
  BY QueueAssumption, Parts
     DEF Surround, PreparationEnds, RetryPreparation, NewTranscript, QueueRest
<1>4. RowsFit' /\ QueueRest' /\ MemoryOK' /\ HistoryOK' /\ RestOK'
  BY <1>1, <1>2, <1>3, Parts
     DEF RowsFit, QueueRest, ActiveOK, MemoryOK, HistoryOK, RestOK, history, Calm
<1>5. QED
  BY <1>1, <1>2, <1>4, FenceHolds, Assembled, Parts

LEMMA RestartKeeps == ASSUME IInv, Restart PROVE IInv'
<1>1. UNCHANGED <<op, given, asked, runs, transcript, preparation>> /\ RecoverQueue
  BY DEF Restart, RecoverQueue
<1>2. active' = [run |-> None, input |-> None]
  BY <1>1 DEF RecoverQueue, Released
<1>3. ActiveOK'
  BY <1>2 DEF ActiveOK, ActiveRow
<1>4. control' \in ControlRow /\ control'.stop = None
  BY <1>1, Parts DEF RecoverQueue, Unfenced, QueueRest, ControlRow
<1>5. sub' \in [Input -> Request]
  <2>1. \A ph \in {"new", "over"} : [phase |-> ph, kind |-> NoKind] \in Request
    BY DEF Request, Phase
  <2>2. QED
    BY <2>1 DEF Restart
<1>6. Calm(drainer, drainer')
  BY CalmLoopsOn DEF Restart, LoopsOn
<1>7. restarts' \in 0..MaxRestarts
  BY InputsAssumption, Parts DEF Restart, RestOK
<1>8. lost' \subseteq Input
  <2>1. \A s \in steers : s.input \in Input
    BY Parts DEF MemoryOK, Call
  <2>2. QED
    BY <2>1, Parts DEF Restart, HistoryOK
<1>9. QueueRest' /\ MemoryOK' /\ HistoryOK' /\ RestOK'
  <2>1. steers' = {} /\ coalescing' = FALSE
    BY DEF Restart
  <2>2. QED
    BY <1>1, <1>3, <1>4, <1>5, <1>6, <1>7, <1>8, <2>1, Parts
       DEF QueueRest, MemoryOK, HistoryOK, RestOK, Calm
<1>10. RowsFit'
  BY <1>1, RecoverFits, Parts
<1>11. QED
  BY <1>4, <1>9, <1>10, FenceLifted, Assembled

-----------------------------------------------------------------------------
(* The invariant and what it implies.                                      *)

LEMMA InitHolds == Init => IInv
<1> SUFFICES ASSUME Init PROVE IInv
  OBVIOUS
<1>1. NoRow \in RowType /\ NoRow.status = "absent"
  BY DEF NoRow, RowType, Status
<1>2. RowsFit
  BY <1>1 DEF Init, QueueInit, RowsFit
<1>3. QueueRest
  BY QueueAssumption DEF Init, QueueInit, QueueRest, ActiveOK, ActiveRow, ControlRow
<1>4. RestOK /\ HistoryOK
  BY InputsAssumption DEF Init, NoOp, RestOK, HistoryOK, Ops, Column
<1>5. MemoryOK
  BY DEF Init, MemoryOK, Request, Phase, AtRest, Drainer
<1>6. StopReachesTheAgent
  BY DEF Init, QueueInit, StopReachesTheAgent
<1>7. QED
  BY <1>2, <1>3, <1>4, <1>5, <1>6, Parts

LEMMA NextHolds == IInv /\ [Next]_vars => IInv'
<1> SUFFICES ASSUME IInv, [Next]_vars PROVE IInv'
  OBVIOUS
<1>1. CASE Submit
  BY <1>1, SubmitKeeps, AcceptDirectKeeps, AcceptCommandKeeps, AcceptReplaceKeeps, DispatchKeeps
     DEF Submit
<1>2. CASE Steering
  BY <1>2, SteeringKeeps DEF Steering
<1>3. CASE Control
  BY <1>3, StopKeeps, ControlKeeps, SendKeeps, SteerKeeps DEF Control
<1>4. CASE Edit
  BY <1>4, EditKeeps DEF Edit
<1>5. CASE Drain
  BY <1>5, LoopKeeps, ClaimKeeps, EndKeeps DEF Drain
<1>6. CASE Surround
  BY <1>6, SurroundKeeps
<1>7. CASE Restart
  BY <1>7, RestartKeeps
<1>8. CASE UNCHANGED vars
  <2>1. MemoryOK' /\ HistoryOK' /\ RestOK' /\ Calm(drainer, drainer')
    BY <1>8, CalmAgain, Parts DEF vars, history, MemoryOK, HistoryOK, RestOK
  <2>2. UNCHANGED rows
    BY <1>8 DEF vars
  <2>3. QED
    BY <2>1, <2>2, RowsAlone
<1>9. QED
  BY <1>1, <1>2, <1>3, <1>4, <1>5, <1>6, <1>7, <1>8 DEF Next

\* The rows, the active run, the fence and the agent stay in step, whatever
\* order requests, steering calls, runs and restarts come in.
THEOREM Invariant == Spec => []IInv
<1>1. Init => IInv
  BY InitHolds
<1>2. IInv /\ [Next]_vars => IInv'
  BY NextHolds
<1>3. QED
  BY <1>1, <1>2, PTL DEF Spec

\* Type correctness of the queue and its coordinator.
THEOREM TypesHold == Spec => []TypeOK
<1>1. IInv => TypeOK
  BY DEF IInv
<1>2. QED
  BY <1>1, Invariant, PTL

\* claimNextSessionInput never starts a second input while one runs.
THEOREM OneRuns == Spec => []OneRunning
<1>1. IInv => OneRunning
  BY DEF IInv, RowsFit, OneRunning, With
<1>2. QED
  BY <1>1, Invariant, PTL

\* A message being injected is injected into the run that is active now.
THEOREM SteersHitTheRun == Spec => []SteersCurrentRun
<1>1. IInv => SteersCurrentRun
  BY DEF IInv, RowsFit, SteersCurrentRun, With
<1>2. QED
  BY <1>1, Invariant, PTL

\* An accepted stop ends the run it was accepted for, before, during or after
\* its preflight: the fence is on the active run, and an agent at work under
\* it has been aborted.
THEOREM StopsReach == Spec => []StopReachesTheAgent
<1>1. IInv => StopReachesTheAgent
  BY DEF IInv
<1>2. QED
  BY <1>1, Invariant, PTL

-----------------------------------------------------------------------------
(* What a step may not do.                                                 *)

\* Only a resume of the user ends a pause: no run, message or restart does.
LEMMA PauseKept ==
    ASSUME IInv, [Next]_vars, control.paused, ~control'.paused
    PROVE  \E o \in Op : op[o] = NoOp /\ op'[o].action = "resume"
<1>1. control \in ControlRow /\ op \in [Op -> Ops]
  BY Parts DEF QueueRest, RestOK
<1>2. CASE Submit
  BY <1>1, <1>2
     DEF Submit, Receive, Prepare, Refuse, ReplaceAborts, AcceptDirect, AcceptCommand, Dispatch,
         AcceptReplace, AuthorizeSingle, rows, ControlRow
<1>3. CASE Steering
  BY <1>3 DEF Steering, Hand, Confirm, Decline, Throw, Unconfirmed, rows
<1>4. CASE Control
  <2>1. PICK o \in Op : \/ Stop(o) \/ ReplayStop(o) \/ Pause(o) \/ Resume(o)
                        \/ \E i \in Input : Send(o, i) \/ Steer(o, i)
    BY <1>4 DEF Control
  <2>2. CASE Resume(o)
    <3>1. op[o] = NoOp /\ op' = [op EXCEPT ![o] = [action |-> "resume", run |-> None]]
      BY <2>2 DEF Resume, Issue
    <3>2. op'[o].action = "resume"
      BY <1>1, <3>1
    <3>3. QED
      BY <3>1, <3>2
  <2>3. CASE Stop(o)
    BY <2>3 DEF Stop, Stopped
  <2>4. CASE ReplayStop(o)
    BY <2>4 DEF ReplayStop, rows
  <2>5. CASE Pause(o)
    BY <1>1, <2>5 DEF Pause, PauseQueue, ControlRow
  <2>6. ASSUME NEW i \in Input, Send(o, i) PROVE FALSE
    BY <1>1, <2>6 DEF Send, SendInput, ControlRow
  <2>7. ASSUME NEW i \in Input, Steer(o, i) PROVE FALSE
    BY <1>1, <2>7 DEF Steer, SteerInput, ControlRow
  <2>8. QED
    BY <2>1, <2>2, <2>3, <2>4, <2>5, <2>6, <2>7
<1>5. CASE Edit
  BY <1>1, <1>5 DEF Edit, Remove, Move, CancelInput, MoveInput, ControlRow
<1>6. CASE Drain
  BY <1>1, <1>6
     DEF Drain, Leave, Delay, Elapse, Claim, Execute, Forgo, Finish, ClaimNothing, ClaimNext,
         FinishRun, rows, ControlRow
<1>7. CASE Surround
  BY <1>7 DEF Surround, PreparationEnds, RetryPreparation, NewTranscript
<1>8. CASE Restart
  BY <1>1, <1>8 DEF Restart, RecoverQueue, Unfenced, ControlRow
<1>9. CASE UNCHANGED vars
  BY <1>9 DEF vars, rows
<1>10. QED
  BY <1>2, <1>3, <1>4, <1>5, <1>6, <1>7, <1>8, <1>9 DEF Next

\* What is paused stays paused until the user resumes.
THEOREM PausesLast == Spec => PauseLasts
<1>1. IInv /\ [Next]_vars =>
        [control.paused /\ ~control'.paused =>
           \E o \in Op : op[o] = NoOp /\ op'[o].action = "resume"]_vars
  BY PauseKept
<1>2. QED
  BY <1>1, Invariant, PTL DEF Spec, PauseLasts

LEMMA NotAborted ==
    ASSUME drainer \in Drainer, ~drainer.aborted
    PROVE  /\ ~Woken(drainer).aborted /\ ~At("idle").aborted /\ ~At("claiming").aborted
           /\ ~At("delayed").aborted /\ ~At("executing").aborted
           /\ LoopsOn => ~drainer'.aborted
  BY DEF Drainer, Woken, At, AtRest, LoopsOn

LEMMA AbortCaused ==
    ASSUME IInv, [Next]_vars, drainer'.aborted, ~drainer.aborted
    PROVE  \/ \E o \in Op : op'[o].action = "stop" /\ op'[o].run = active.run
           \/ sub' # sub
           \/ \E i \in Input : sub[i].phase = "preparing" /\ sub[i].kind.path = "replace"
<1>1. drainer \in Drainer /\ op \in [Op -> Ops] /\ sub \in [Input -> Request]
  BY Parts DEF MemoryOK, RestOK
<1>2. CASE Submit
  <2>1. PICK i \in Input :
           \/ Receive(i) \/ Prepare(i) \/ Refuse(i) \/ AcceptDirect(i) \/ AcceptCommand(i)
           \/ Dispatch(i) \/ ReplaceAborts(i) \/ AcceptReplace(i)
    BY <1>2 DEF Submit
  <2>2. CASE ReplaceAborts(i)
    BY <2>2 DEF ReplaceAborts
  <2>3. CASE Receive(i) \/ Prepare(i) \/ Refuse(i) \/ AcceptCommand(i) \/ AcceptReplace(i)
    BY <1>1, <2>3, NotAborted DEF Receive, Prepare, Refuse, AcceptCommand, AcceptReplace
  <2>4. CASE AcceptDirect(i) \/ Dispatch(i)
    <3>1. sub[i].phase \in {"preparing", "accepted"}
      BY <2>4 DEF AcceptDirect, Dispatch
    <3>2. Returns(i) \/ UNCHANGED drainer
      BY <2>4 DEF AcceptDirect, Dispatch
    <3>3. Returns(i) => sub'[i].phase = "over"
      BY <1>1 DEF Returns
    <3>4. QED
      BY <3>1, <3>2, <3>3
  <2>5. QED
    BY <2>1, <2>2, <2>3, <2>4
<1>3. CASE Steering
  BY <1>1, <1>3, NotAborted DEF Steering, Hand, Confirm, Decline, Throw, Answered
<1>4. CASE Control
  <2>1. PICK o \in Op : \/ Stop(o) \/ ReplayStop(o) \/ Pause(o) \/ Resume(o)
                        \/ \E i \in Input : Send(o, i) \/ Steer(o, i)
    BY <1>4 DEF Control
  <2>2. CASE Stop(o)
    <3>1. op' = [op EXCEPT ![o] = [action |-> "stop", run |-> active.run]]
      BY <2>2 DEF Stop, Issue
    <3>2. op'[o].action = "stop" /\ op'[o].run = active.run
      BY <1>1, <3>1
    <3>3. QED
      BY <3>2
  <2>3. CASE ReplayStop(o)
    <3>1. op[o].action = "stop" /\ UNCHANGED op /\ drainer' = Interrupted(drainer, Replayed(o))
      BY <2>3 DEF ReplayStop
    <3>2. Replayed(o) # None /\ Replayed(o) = active.run
      BY <3>1 DEF Interrupted
    <3>3. op[o].run = active.run
      BY <3>2 DEF Replayed
    <3>4. QED
      BY <3>1, <3>3
  <2>4. CASE Pause(o) \/ Resume(o) \/ \E i \in Input : Send(o, i) \/ Steer(o, i)
    BY <1>1, <2>4, NotAborted DEF Pause, Resume, Send, Steer, memory
  <2>5. QED
    BY <2>1, <2>2, <2>3, <2>4
<1>5. CASE Edit
  BY <1>1, <1>5, NotAborted DEF Edit, Remove, Move, memory
<1>6. CASE Drain
  <2>1. CASE Claim
    BY <2>1 DEF Claim
  <2>2. CASE Leave \/ Delay \/ Elapse \/ Execute \/ Forgo \/ Finish
    BY <1>1, <2>2, NotAborted DEF Leave, Delay, Elapse, Execute, Forgo, Finish
  <2>3. QED
    BY <1>6, <2>1, <2>2 DEF Drain
<1>7. CASE Surround
  BY <1>1, <1>7, NotAborted
     DEF Surround, PreparationEnds, RetryPreparation, NewTranscript, memory
<1>8. CASE Restart
  BY <1>1, <1>8, NotAborted DEF Restart, LoopsOn
<1>9. CASE UNCHANGED vars
  BY <1>9 DEF vars
<1>10. QED
  BY <1>2, <1>3, <1>4, <1>5, <1>6, <1>7, <1>8, <1>9 DEF Next

\* An agent is aborted by a stop accepted for its run, or by the message that
\* interrupts or replaces it: a retried request to stop an earlier run never
\* reaches the run that followed.
THEOREM AbortsAreCaused == Spec => AbortHasCause
<1>1. IInv /\ [Next]_vars =>
        [drainer'.aborted /\ ~drainer.aborted =>
           \/ \E o \in Op : op'[o].action = "stop" /\ op'[o].run = active.run
           \/ sub' # sub
           \/ \E i \in Input : sub[i].phase = "preparing" /\ sub[i].kind.path = "replace"]_vars
  BY AbortCaused
<1>2. QED
  BY <1>1, Invariant, PTL DEF Spec, AbortHasCause

-----------------------------------------------------------------------------
(***************************************************************************)
(* What the agent of a conversation is given: never more than the user     *)
(* asked for, and never nothing for a message that ends completed.         *)
(***************************************************************************)
\* The message waits for its run to pass preflight.
Riding(d, i) == d.at = "preflight" /\ i \in d.merged
\* Steering calls that may still give the input to an agent, or put it back
Open(i)  == {s \in steers : s.input = i /\ ~s.handed}
Bit(b)   == IF b THEN 1 ELSE 0
Queues(i) == Bit(row[i].status = "queued")
Rides(i)  == Bit(Riding(drainer, i))
Opens(i)  == Cardinality(Open(i))

\* What was given and what may still be given without asking again stays
\* within what was asked.
Budget == /\ IsFiniteSet(steers)
          /\ \A i \in Input : given[i] + Queues(i) + Rides(i) + Opens(i) <= asked[i]

-----------------------------------------------------------------------------
(* The parts of the budget.                                                *)

LEMMA BitType == \A b : Bit(b) \in 0..1
  BY DEF Bit

LEMMA PartTypes ==
    ASSUME IInv, IsFiniteSet(steers), NEW k \in Input
    PROVE  /\ given[k] \in Nat /\ asked[k] \in Nat /\ Queues(k) \in 0..1 /\ Rides(k) \in 0..1
           /\ Opens(k) \in Nat
<1>1. IsFiniteSet(Open(k))
  BY FS_Subset DEF Open
<1>2. Opens(k) \in Nat
  BY <1>1, FS_CardinalityType DEF Opens
<1>3. QED
  BY <1>2, BitType, Parts DEF HistoryOK, Queues, Rides

LEMMA FewerCalls ==
    ASSUME IsFiniteSet(steers), NEW k \in Input, Open(k)' \subseteq Open(k)
    PROVE  Opens(k)' \in Nat /\ Opens(k)' <= Opens(k)
<1>1. IsFiniteSet(Open(k))
  BY FS_Subset DEF Open
<1>2. IsFiniteSet(Open(k)') /\ Cardinality(Open(k)') <= Cardinality(Open(k))
  BY <1>1, FS_Subset
<1>3. QED
  BY <1>2, FS_CardinalityType DEF Opens

LEMMA OneCallLess ==
    ASSUME IsFiniteSet(steers), NEW k \in Input, NEW s \in Open(k), Open(k)' \subseteq Open(k) \ {s}
    PROVE  Opens(k)' \in Nat /\ Opens(k)' + 1 <= Opens(k)
<1>1. IsFiniteSet(Open(k))
  BY FS_Subset DEF Open
<1>2. IsFiniteSet(Open(k) \ {s}) /\ Cardinality(Open(k) \ {s}) = Cardinality(Open(k)) - 1
  BY <1>1, FS_RemoveElement
<1>3. IsFiniteSet(Open(k)') /\ Cardinality(Open(k)') <= Cardinality(Open(k) \ {s})
  BY <1>2, FS_Subset
<1>4. Cardinality(Open(k)') \in Nat /\ Cardinality(Open(k)) \in Nat
  BY <1>1, <1>3, FS_CardinalityType
<1>5. QED
  BY <1>2, <1>3, <1>4 DEF Opens

LEMMA OneCallMore ==
    ASSUME IsFiniteSet(steers), NEW by, NEW i \in Input, Calls(by, i)
    PROVE  /\ IsFiniteSet(steers')
           /\ \A k \in Input : /\ Opens(k)' \in Nat
                               /\ Opens(k)' <= Opens(k) + (IF k = i THEN 1 ELSE 0)
<1> DEFINE c == [by |-> by, input |-> i, run |-> active.run, handed |-> FALSE]
<1>1. steers' = steers \cup {c} /\ c.input = i
  BY DEF Calls
<1> HIDE DEF c
<1>2. IsFiniteSet(steers')
  BY <1>1, FS_AddElement
<1>3. ASSUME NEW k \in Input
      PROVE  Opens(k)' \in Nat /\ Opens(k)' <= Opens(k) + (IF k = i THEN 1 ELSE 0)
  <2>1. IsFiniteSet(Open(k)) /\ IsFiniteSet(Open(k)')
    BY <1>2, FS_Subset DEF Open
  <2>2. Opens(k) \in Nat /\ Opens(k)' \in Nat
    BY <2>1, FS_CardinalityType DEF Opens
  <2>3. CASE k # i
    <3>1. Open(k)' = Open(k)
      BY <1>1, <2>3 DEF Open
    <3>2. QED
      BY <2>2, <2>3, <3>1 DEF Opens
  <2>4. CASE k = i
    <3>1. Open(k)' \subseteq Open(k) \cup {c}
      BY <1>1 DEF Open
    <3>2. IsFiniteSet(Open(k) \cup {c})
          /\ Cardinality(Open(k) \cup {c}) \in {Cardinality(Open(k)), Cardinality(Open(k)) + 1}
      BY <2>1, FS_AddElement
    <3>3. Cardinality(Open(k)') <= Cardinality(Open(k) \cup {c})
      BY <3>1, <3>2, FS_Subset
    <3>4. QED
      BY <2>2, <2>4, <3>2, <3>3 DEF Opens
  <2>5. QED
    BY <2>3, <2>4
<1>4. QED
  BY <1>2, <1>3

\* An action that gives and asks nothing, and puts nothing back
LEMMA Steady ==
    ASSUME IInv, Budget, steers' \subseteq steers, UNCHANGED <<given, asked>>,
           \A k \in Input : row'[k].status = "queued" => row[k].status = "queued",
           \A k \in Input : Riding(drainer', k) => Riding(drainer, k)
    PROVE  Budget'
<1>1. IsFiniteSet(steers')
  BY FS_Subset DEF Budget
<1>2. ASSUME NEW k \in Input
      PROVE  given'[k] + Queues(k)' + Rides(k)' + Opens(k)' <= asked'[k]
  <2>1. Opens(k)' \in Nat /\ Opens(k)' <= Opens(k)
    BY FewerCalls DEF Budget, Open
  <2>2. /\ Queues(k)' \in 0..1 /\ Queues(k)' <= Queues(k)
        /\ Rides(k)' \in 0..1 /\ Rides(k)' <= Rides(k)
    BY DEF Queues, Rides, Bit
  <2>3. /\ given[k] \in Nat /\ asked[k] \in Nat /\ Queues(k) \in 0..1 /\ Rides(k) \in 0..1
        /\ Opens(k) \in Nat /\ given[k] + Queues(k) + Rides(k) + Opens(k) <= asked[k]
    BY PartTypes DEF Budget
  <2>4. QED
    BY <2>1, <2>2, <2>3
<1>3. QED
  BY <1>1, <1>2 DEF Budget

\* What no move of the drain loop but a claim brings about
LEMMA RidesOn ==
    ASSUME drainer \in Drainer, NEW k \in Input
    PROVE  /\ Riding(Woken(drainer), k) <=> Riding(drainer, k)
           /\ \A run : Riding(Interrupted(drainer, run), k) <=> Riding(drainer, k)
           /\ Prioritize => (Riding(drainer', k) <=> Riding(drainer, k))
           /\ LoopsOn => ~Riding(drainer', k)
           /\ \A at \in {"idle", "claiming", "delayed", "executing"} : ~Riding(At(at), k)
<1>1. ASSUME NEW d \in Drainer PROVE Riding(Woken(d), k) <=> Riding(d, k)
  BY <1>1 DEF Woken, Riding, Drainer
<1>2. ASSUME NEW d \in Drainer, NEW run
      PROVE  Interrupted(d, run) \in Drainer /\ (Riding(Interrupted(d, run), k) <=> Riding(d, k))
  BY <1>2 DEF Interrupted, Riding, Drainer
<1>3. LoopsOn => ~Riding(drainer', k)
  BY DEF LoopsOn, AtRest, Riding
<1>4. ASSUME NEW at \in {"idle", "claiming", "delayed", "executing"} PROVE ~Riding(At(at), k)
  BY DEF At, Riding, Drainer
<1>5. QED
  BY <1>1, <1>2, <1>3, <1>4 DEF Prioritize

-----------------------------------------------------------------------------
(* Every action keeps the budget.                                          *)

\* Accepting a message: one more in the queue or in a call, one more asked.
LEMMA Accepted ==
    ASSUME IInv, Budget, NEW i \in Input, NEW st, Asks(i), UNCHANGED given,
           \A k \in Input : k # i => row'[k].status = row[k].status,
           row'[i].status = st,
           \A k \in Input : Riding(drainer', k) => Riding(drainer, k),
           \/ st = "queued" /\ UNCHANGED steers
           \/ st = "injecting" /\ Calls(i, i)
    PROVE  Budget'
<1>1. /\ IsFiniteSet(steers')
      /\ \A k \in Input : /\ Opens(k)' \in Nat
                          /\ Opens(k)' <= Opens(k) + (IF k = i /\ st = "injecting" THEN 1 ELSE 0)
  <2>1. CASE st = "queued" /\ UNCHANGED steers
    BY <2>1, FewerCalls, PartTypes DEF Budget, Open
  <2>2. CASE st = "injecting" /\ Calls(i, i)
    BY <2>2, OneCallMore DEF Budget
  <2>3. QED
    BY <2>1, <2>2
<1>2. ASSUME NEW k \in Input
      PROVE  given'[k] + Queues(k)' + Rides(k)' + Opens(k)' <= asked'[k]
  <2>1. /\ given[k] \in Nat /\ asked[k] \in Nat /\ Queues(k) \in 0..1 /\ Rides(k) \in 0..1
        /\ Opens(k) \in Nat /\ given[k] + Queues(k) + Rides(k) + Opens(k) <= asked[k]
    BY PartTypes DEF Budget
  <2>2. asked'[k] = asked[k] + (IF k = i THEN 1 ELSE 0) /\ given'[k] = given[k]
    BY <2>1, Parts DEF Asks, HistoryOK
  <2>3. Rides(k)' \in 0..1 /\ Rides(k)' <= Rides(k)
    BY DEF Rides, Bit
  <2>4. Queues(k)' \in 0..1 /\ (k # i => Queues(k)' = Queues(k))
        /\ (st = "injecting" /\ k = i => Queues(k)' = 0)
    BY DEF Queues, Bit
  <2>5. st \in {"queued", "injecting"} /\ Opens(k)' \in Nat
        /\ Opens(k)' <= Opens(k) + (IF k = i /\ st = "injecting" THEN 1 ELSE 0)
    BY <1>1
  <2>6. CASE k # i
    BY <2>1, <2>2, <2>3, <2>4, <2>5, <2>6
  <2>7. CASE k = i /\ st = "queued"
    BY <2>1, <2>2, <2>3, <2>4, <2>5, <2>7
  <2>8. CASE k = i /\ st = "injecting"
    BY <2>1, <2>2, <2>3, <2>4, <2>5, <2>8
  <2>9. QED
    BY <2>5, <2>6, <2>7, <2>8
<1>3. QED
  BY <1>1, <1>2 DEF Budget

\* Steering a queued message: out of the queue, into a call.
LEMMA OutOfQueue ==
    ASSUME IInv, Budget, NEW i \in Input, NEW by, row[i].status = "queued",
           Inject(i, active.run), Calls(by, i), UNCHANGED <<given, asked, drainer>>
    PROVE  Budget'
<1>1. /\ IsFiniteSet(steers')
      /\ \A k \in Input : /\ Opens(k)' \in Nat
                          /\ Opens(k)' <= Opens(k) + (IF k = i THEN 1 ELSE 0)
  BY OneCallMore DEF Budget
<1>2. row'[i].status = "injecting" /\ \A k \in Input : k # i => row'[k] = row[k]
  BY Parts DEF Inject, RowsFit, RowType
<1>3. ASSUME NEW k \in Input
      PROVE  given'[k] + Queues(k)' + Rides(k)' + Opens(k)' <= asked'[k]
  <2>1. /\ given[k] \in Nat /\ asked[k] \in Nat /\ Queues(k) \in 0..1 /\ Rides(k) \in 0..1
        /\ Opens(k) \in Nat /\ given[k] + Queues(k) + Rides(k) + Opens(k) <= asked[k]
    BY PartTypes DEF Budget
  <2>2. Rides(k)' = Rides(k) /\ Queues(k)' = Queues(k) - (IF k = i THEN 1 ELSE 0)
    BY <1>2 DEF Rides, Queues, Bit
  <2>3. Opens(k)' \in Nat /\ Opens(k)' <= Opens(k) + (IF k = i THEN 1 ELSE 0)
    BY <1>1
  <2>4. QED
    BY <2>1, <2>2, <2>3
<1>4. QED
  BY <1>1, <1>3 DEF Budget

LEMMA NewRow ==
    ASSUME row \in [Input -> RowType], NEW i \in Input, NEW st, NEW target, NEW prio, NEW bound,
           NewInput(i, st, target, prio, bound)
    PROVE  row'[i].status = st /\ \A k \in Input : k # i => row'[k].status = row[k].status
<1> DEFINE x == [status |-> st, target |-> target, prio |-> prio, bound |-> bound,
                 position |-> LastPosition + 1]
<1>1. row' = [row EXCEPT ![i] = x] /\ x.status = st
  BY DEF NewInput
<1> HIDE DEF x
<1>2. QED
  BY <1>1

LEMMA SubmitSpends ==
    ASSUME IInv, Budget, NEW i \in Input,
           \/ Receive(i) \/ Prepare(i) \/ Refuse(i) \/ ReplaceAborts(i)
    PROVE  Budget'
<1>1. UNCHANGED <<rows, given, asked, steers>>
  BY DEF Receive, Prepare, Refuse, ReplaceAborts, history
<1>2. \A k \in Input : Riding(drainer', k) => Riding(drainer, k)
  BY RidesOn, Parts DEF Receive, Prepare, Refuse, ReplaceAborts, MemoryOK
<1>3. UNCHANGED row /\ steers' \subseteq steers
  BY <1>1 DEF rows
<1>4. QED
  BY <1>1, <1>2, <1>3, Steady

LEMMA AcceptDirectSpends == ASSUME IInv, Budget, NEW i \in Input, AcceptDirect(i) PROVE Budget'
<1> DEFINE prio    == ~control.paused /\ sub[i].kind.prio
           injects == ~control.paused /\ ~prio /\ sub[i].kind.steer /\ active.run # None
           st      == IF injects THEN "injecting" ELSE "queued"
<1>1. Asks(i) /\ UNCHANGED given
  BY DEF AcceptDirect
<1>2. \E target : NewInput(i, st, target, prio, None)
  BY DEF AcceptDirect
<1>3. row'[i].status = st /\ \A k \in Input : k # i => row'[k].status = row[k].status
  <2> HIDE DEF st, prio
  <2>1. QED
    BY <1>2, NewRow, Parts DEF RowsFit
<1>4. \/ st = "queued" /\ UNCHANGED steers
      \/ st = "injecting" /\ Calls(i, i)
  BY DEF AcceptDirect
<1>5. \A k \in Input : Riding(drainer', k) => Riding(drainer, k)
  BY RidesOn, Parts DEF AcceptDirect, MemoryOK
<1> HIDE DEF st
<1>6. QED
  BY <1>1, <1>3, <1>4, <1>5, Accepted

LEMMA AcceptOtherSpends ==
    ASSUME IInv, Budget, NEW i \in Input, AcceptCommand(i) \/ AcceptReplace(i)
    PROVE  Budget'
<1>1. Asks(i) /\ UNCHANGED <<given, steers>>
  BY DEF AcceptCommand, AcceptReplace
<1>2. \E prio, bound : NewInput(i, "queued", None, prio, bound)
  BY DEF AcceptCommand, AcceptReplace
<1>3. row'[i].status = "queued" /\ \A k \in Input : k # i => row'[k].status = row[k].status
  BY <1>2, NewRow, Parts DEF RowsFit
<1>4. \A k \in Input : Riding(drainer', k) => Riding(drainer, k)
  BY RidesOn, Parts DEF AcceptCommand, AcceptReplace, MemoryOK
<1>5. QED
  BY <1>1, <1>3, <1>4, Accepted

LEMMA DispatchSpends == ASSUME IInv, Budget, NEW i \in Input, Dispatch(i) PROVE Budget'
<1> DEFINE injects == /\ row[i].status = "queued" /\ ~control.paused
                      /\ ~row[i].prio /\ sub[i].kind.steer /\ active.run # None
                      /\ preparation = "ready"
<1>1. UNCHANGED <<given, asked>>
  BY DEF Dispatch, history
<1>2. CASE injects
  BY <1>1, <1>2, OutOfQueue DEF Dispatch
<1>3. CASE ~injects
  <2>1. UNCHANGED <<row, steers>> /\ (Prioritize \/ drainer' = Woken(drainer))
    BY <1>3 DEF Dispatch
  <2>2. \A k \in Input : Riding(drainer', k) => Riding(drainer, k)
    BY <2>1, RidesOn, Parts DEF MemoryOK
  <2>3. QED
    BY <1>1, <2>1, <2>2, Steady
<1>4. QED
  BY <1>2, <1>3

\* Handing a message over turns an open call into a message given.
LEMMA HandSpends == ASSUME IInv, Budget, NEW s \in steers, Hand(s) PROVE Budget'
<1> DEFINE t == [s EXCEPT !.handed = TRUE]
<1>1. s \in Call /\ t \in Call /\ t.handed /\ t.input = s.input /\ s.input \in Input /\ ~s.handed
  BY Parts DEF MemoryOK, Call, Hand
<1>2. steers' = (steers \ {s}) \cup {t} /\ UNCHANGED <<row, drainer, asked>>
  BY DEF Hand, rows
<1> HIDE DEF t
<1>3. IsFiniteSet(steers')
  BY <1>2, FS_AddElement, FS_RemoveElement DEF Budget
<1>4. ASSUME NEW k \in Input
      PROVE  given'[k] + Queues(k)' + Rides(k)' + Opens(k)' <= asked'[k]
  <2>1. /\ given[k] \in Nat /\ asked[k] \in Nat /\ Queues(k) \in 0..1 /\ Rides(k) \in 0..1
        /\ Opens(k) \in Nat /\ given[k] + Queues(k) + Rides(k) + Opens(k) <= asked[k]
    BY PartTypes DEF Budget
  <2>2. Queues(k)' = Queues(k) /\ Rides(k)' = Rides(k)
    BY <1>2 DEF Queues, Rides
  <2>3. CASE k = s.input
    <3>1. s \in Open(k) /\ Open(k)' \subseteq Open(k) \ {s}
      BY <1>1, <1>2, <2>3 DEF Open
    <3>2. Opens(k)' \in Nat /\ Opens(k)' + 1 <= Opens(k)
      BY <3>1, OneCallLess DEF Budget
    <3>3. given'[k] = given[k] + 1
      BY <2>3, Parts DEF Hand, HistoryOK
    <3>4. QED
      BY <1>2, <2>1, <2>2, <3>2, <3>3
  <2>4. CASE k # s.input
    <3>1. Open(k)' \subseteq Open(k)
      BY <1>1, <1>2, <2>4 DEF Open
    <3>2. Opens(k)' \in Nat /\ Opens(k)' <= Opens(k)
      BY <3>1, FewerCalls DEF Budget
    <3>3. given'[k] = given[k]
      BY <1>1, <2>4, Parts DEF Hand, HistoryOK
    <3>4. QED
      BY <1>2, <2>1, <2>2, <3>2, <3>3
  <2>5. QED
    BY <2>3, <2>4
<1>5. QED
  BY <1>3, <1>4 DEF Budget

\* A declined call gives its message back at most once.
LEMMA DeclineSpends == ASSUME IInv, Budget, NEW s \in steers, Decline(s) PROVE Budget'
<1>1. s \in Call /\ s.input \in Input /\ ~s.handed /\ steers' = steers \ {s}
  BY Parts DEF MemoryOK, Call, Decline, Answered
<1>2. UNCHANGED <<given, asked>>
  BY DEF Decline, history
<1>3. \A k \in Input : Riding(drainer', k) => Riding(drainer, k)
  BY RidesOn, Parts DEF Decline, Answered, MemoryOK
<1>4. \A k \in Input : k # s.input => row'[k] = row[k]
  BY <1>1, Parts DEF Decline, SetStatus, RowsFit
<1>5. IsFiniteSet(steers')
  BY <1>1, FS_RemoveElement DEF Budget
<1>6. ASSUME NEW k \in Input
      PROVE  given'[k] + Queues(k)' + Rides(k)' + Opens(k)' <= asked'[k]
  <2>1. /\ given[k] \in Nat /\ asked[k] \in Nat /\ Queues(k) \in 0..1 /\ Rides(k) \in 0..1
        /\ Opens(k) \in Nat /\ given[k] + Queues(k) + Rides(k) + Opens(k) <= asked[k]
    BY PartTypes DEF Budget
  <2>2. Queues(k)' \in 0..1 /\ Rides(k)' \in 0..1 /\ Rides(k)' <= Rides(k)
    BY <1>3 DEF Queues, Rides, Bit
  <2>3. CASE k = s.input
    <3>1. s \in Open(k) /\ Open(k)' \subseteq Open(k) \ {s}
      BY <1>1, <2>3 DEF Open
    <3>2. Opens(k)' \in Nat /\ Opens(k)' + 1 <= Opens(k)
      BY <3>1, OneCallLess DEF Budget
    <3>3. QED
      BY <1>2, <2>1, <2>2, <3>2
  <2>4. CASE k # s.input
    <3>1. Opens(k)' \in Nat /\ Opens(k)' <= Opens(k)
      BY <1>1, FewerCalls DEF Budget, Open
    <3>2. Queues(k)' = Queues(k)
      BY <1>4, <2>4 DEF Queues
    <3>3. QED
      BY <1>2, <2>1, <2>2, <3>1, <3>2
  <2>5. QED
    BY <2>3, <2>4
<1>7. QED
  BY <1>5, <1>6 DEF Budget

LEMMA ReturnSpends == ASSUME IInv, Budget, NEW s \in steers, Confirm(s) \/ Throw(s) PROVE Budget'
<1>1. UNCHANGED <<row, given, asked>> /\ steers' \subseteq steers
  BY DEF Confirm, Throw, Unconfirmed, Answered, rows, history
<1>2. \A k \in Input : Riding(drainer', k) => Riding(drainer, k)
  BY RidesOn, Parts DEF Confirm, Throw, Answered, MemoryOK
<1>3. QED
  BY <1>1, <1>2, Steady

LEMMA ControlSpends ==
    ASSUME IInv, Budget, NEW o \in Op, Stop(o) \/ ReplayStop(o) \/ Pause(o) \/ Resume(o)
    PROVE  Budget'
<1>1. UNCHANGED <<row, given, asked, steers>>
  BY DEF Stop, ReplayStop, Pause, Resume, rows, memory, history
<1>2. \A k \in Input : Riding(drainer', k) => Riding(drainer, k)
  BY RidesOn, Parts DEF Stop, ReplayStop, Pause, Resume, memory, MemoryOK
<1>3. QED
  BY <1>1, <1>2, Steady

\* Sending a message that waits asks for nothing; sending one that was cut off
\* asks again.
LEMMA SendSpends == ASSUME IInv, Budget, NEW o \in Op, NEW i \in Input, Send(o, i) PROVE Budget'
<1>1. UNCHANGED <<given, steers>> /\ row[i].status \in {"queued", "interrupted"}
  BY DEF Send, SendInput
<1>2. \A k \in Input : Riding(drainer', k) => Riding(drainer, k)
  BY RidesOn, Parts DEF Send, MemoryOK
<1>3. \A k \in Input : k # i => row'[k] = row[k]
  BY Parts DEF Send, SendInput, SetStatus, RowsFit
<1>4. ASSUME NEW k \in Input
      PROVE  given'[k] + Queues(k)' + Rides(k)' + Opens(k)' <= asked'[k]
  <2>1. /\ given[k] \in Nat /\ asked[k] \in Nat /\ Queues(k) \in 0..1 /\ Rides(k) \in 0..1
        /\ Opens(k) \in Nat /\ given[k] + Queues(k) + Rides(k) + Opens(k) <= asked[k]
    BY PartTypes DEF Budget
  <2>2. Queues(k)' \in 0..1 /\ Rides(k)' \in 0..1 /\ Rides(k)' <= Rides(k)
    BY <1>2 DEF Queues, Rides, Bit
  <2>3. Opens(k)' \in Nat /\ Opens(k)' <= Opens(k)
    BY <1>1, FewerCalls DEF Budget, Open
  <2>4. asked'[k] = asked[k] + (IF k = i /\ row[i].status = "interrupted" THEN 1 ELSE 0)
    BY <2>1, Parts DEF Send, Asks, HistoryOK
  <2>5. Queues(k)' <= Queues(k) + (IF k = i /\ row[i].status = "interrupted" THEN 1 ELSE 0)
    BY <1>1, <1>3 DEF Queues, Bit
  <2>6. QED
    BY <1>1, <2>1, <2>2, <2>3, <2>4, <2>5
<1>5. QED
  BY <1>1, <1>4 DEF Budget

LEMMA SteerSpends == ASSUME IInv, Budget, NEW o \in Op, NEW i \in Input, Steer(o, i) PROVE Budget'
<1>1. /\ row[i].status = "queued" /\ Inject(i, active.run) /\ Calls(o, i)
      /\ UNCHANGED <<given, asked, drainer>>
  BY DEF Steer, SteerInput, history
<1>2. QED
  BY <1>1, OutOfQueue

LEMMA EditSpends == ASSUME IInv, Budget, NEW i \in Input, Remove(i) \/ Move(i) PROVE Budget'
<1>1. UNCHANGED <<given, asked, steers>>
  BY DEF Remove, Move, memory, history
<1>2. \A k \in Input : Riding(drainer', k) => Riding(drainer, k)
  BY RidesOn, Parts DEF Remove, Move, memory, MemoryOK
<1>3. \A k \in Input : row'[k].status = "queued" => row[k].status = "queued"
  <2>1. CASE Remove(i)
    <3>1. row' = [row EXCEPT ![i].status = "cancelled"]
      BY <2>1 DEF Remove, CancelInput
    <3>2. row'[i].status = "cancelled" /\ \A k \in Input : k # i => row'[k] = row[k]
      BY <3>1, Parts DEF RowsFit, RowType
    <3>3. QED
      BY <3>2
  <2>2. CASE Move(i)
    <3>1. PICK n \in 0..Cardinality(Input) : MoveInput(i, n)
      BY <2>2 DEF Move
    <3>2. n \in Nat
      BY FS_CardinalityType, QueueAssumption
    <3>3. QED
      BY <3>1, <3>2, MoveFits, Parts
  <2>3. QED
    BY <2>1, <2>2
<1>4. QED
  BY <1>1, <1>2, <1>3, Steady

LEMMA LoopSpends == ASSUME IInv, Budget, Leave \/ Delay \/ Elapse PROVE Budget'
<1>1. UNCHANGED <<given, asked, steers>>
  BY DEF Leave, Delay, Elapse, history
<1>2. \A k \in Input : ~Riding(drainer', k)
  BY RidesOn, Parts DEF Leave, Delay, Elapse, MemoryOK
<1>3. UNCHANGED row \/ row' = Parked
  BY DEF Leave, Delay, Elapse, ClaimNothing, rows
<1>4. \A k \in Input : row'[k].status = "queued" => row[k].status = "queued"
  <2>1. \A k \in Input : Parked[k] = row[k] \/ Parked[k].status = "interrupted"
    BY ParkedFits, Parts
  <2>2. QED
    BY <1>3, <2>1
<1>5. QED
  BY <1>1, <1>2, <1>4, Steady

\* A claim takes messages out of the queue; they ride to their run's start.
LEMMA ClaimSpends == ASSUME IInv, Budget, Claim PROVE Budget'
<1>1. PICK i \in Input, js \in SUBSET Input :
         /\ ClaimNext(i, js)
         /\ drainer' = [at |-> "preflight", aborted |-> FALSE, merged |-> js \cup {i}]
  BY DEF Claim
<1>2. UNCHANGED <<given, asked, steers>> /\ drainer.at = "claiming"
  BY DEF Claim, history
<1>3. i \in With("queued") /\ js \subseteq With("queued")
  <2>1. i \in With("queued") /\ js \in Burst(i)
    BY <1>1 DEF ClaimNext, NextInput, Claimable
  <2>2. QED
    BY <2>1 DEF Burst
<1>4. ASSUME NEW k \in Input
      PROVE  given'[k] + Queues(k)' + Rides(k)' + Opens(k)' <= asked'[k]
  <2>1. /\ given[k] \in Nat /\ asked[k] \in Nat /\ Queues(k) \in 0..1 /\ Rides(k) \in 0..1
        /\ Opens(k) \in Nat /\ given[k] + Queues(k) + Rides(k) + Opens(k) <= asked[k]
    BY PartTypes DEF Budget
  <2>2. Opens(k)' \in Nat /\ Opens(k)' <= Opens(k)
    BY <1>2, FewerCalls DEF Budget, Open
  <2>3. CASE k \in js \cup {i}
    <3>1. row[k].status = "queued"
      BY <1>3, <2>3 DEF With
    <3>2. row[k] \in RowType
      BY Parts DEF RowsFit
    <3>3. row'[k] \in {Restated(row[k], "running"), Steered(row[k], runs + 1)}
      BY <1>1, <2>3 DEF ClaimNext, Restated, Steered
    <3>4. row'[k].status \in {"running", "injecting"}
      BY <3>2, <3>3 DEF Restated, Steered, RowType
    <3>5. Queues(k) = 1 /\ Queues(k)' = 0 /\ Rides(k)' \in 0..1
      BY <3>1, <3>4 DEF Queues, Rides, Bit
    <3>6. QED
      BY <1>2, <2>1, <2>2, <3>5
  <2>4. CASE k \notin js \cup {i}
    <3>1. row'[k] = Parked[k]
      BY <1>1, <2>4 DEF ClaimNext
    <3>2. Queues(k)' \in 0..1 /\ Queues(k)' <= Queues(k)
      BY <3>1, ParkedFits, Parts DEF Queues, Bit
    <3>3. Rides(k)' = 0
      BY <1>1, <2>4 DEF Rides, Riding, Bit
    <3>4. QED
      BY <1>2, <2>1, <2>2, <3>2, <3>3
  <2>5. QED
    BY <2>3, <2>4
<1>5. IsFiniteSet(steers')
  BY <1>2 DEF Budget
<1>6. QED
  BY <1>4, <1>5 DEF Budget

LEMMA ExecuteSpends == ASSUME IInv, Budget, Execute PROVE Budget'
<1>1. UNCHANGED <<row, asked, steers>> /\ drainer.at = "preflight"
  BY DEF Execute, rows
<1>2. \A k \in Input : ~Riding(drainer', k)
  BY RidesOn, Parts DEF Execute, MemoryOK
<1>3. ASSUME NEW k \in Input
      PROVE  given'[k] + Queues(k)' + Rides(k)' + Opens(k)' <= asked'[k]
  <2>1. /\ given[k] \in Nat /\ asked[k] \in Nat /\ Queues(k) \in 0..1 /\ Rides(k) \in 0..1
        /\ Opens(k) \in Nat /\ given[k] + Queues(k) + Rides(k) + Opens(k) <= asked[k]
    BY PartTypes DEF Budget
  <2>2. Opens(k)' \in Nat /\ Opens(k)' <= Opens(k)
    BY <1>1, FewerCalls DEF Budget, Open
  <2>3. given'[k] = IF k \in drainer.merged THEN given[k] + 1 ELSE given[k]
    BY DEF Execute
  <2>4. given'[k] = given[k] + Rides(k) /\ Rides(k)' = 0 /\ Queues(k)' = Queues(k)
    BY <1>1, <1>2, <2>1, <2>3 DEF Rides, Riding, Queues, Bit
  <2>5. QED
    BY <1>1, <2>1, <2>2, <2>4
<1>4. QED
  BY <1>1, <1>3 DEF Budget

LEMMA EndSpends == ASSUME IInv, Budget, Forgo \/ Finish PROVE Budget'
<1>1. PICK st \in {"completed", "suspended", "cancelled", "failed"} : FinishRun(st)
  BY DEF Forgo, Finish
<1>2. UNCHANGED <<given, asked, steers>>
  BY DEF Forgo, Finish, history
<1>3. \A k \in Input : ~Riding(drainer', k)
  BY RidesOn, Parts DEF Forgo, Finish, MemoryOK
<1>4. \A k \in Input : row'[k].status = "queued" => row[k].status = "queued"
  <2>1. \A k \in Input : row'[k] \in {row[k], Restated(row[k], st),
                                     Restated(row[k], "completed"), Restated(row[k], "interrupted")}
    BY <1>1 DEF FinishRun, Finished, Restated
  <2>2. \A k \in Input : row[k] \in RowType
    BY Parts DEF RowsFit
  <2>3. \A k \in Input : \A x \in {st, "completed", "interrupted"} : Restated(row[k], x).status = x
    <3>1. {st, "completed", "interrupted"} \subseteq Status
      BY DEF Status
    <3>2. QED
      BY <2>2, <3>1, RestatedRow
  <2>4. QED
    BY <2>1, <2>3
<1>5. QED
  BY <1>2, <1>3, <1>4, Steady

LEMMA SurroundSpends == ASSUME IInv, Budget, Surround PROVE Budget'
<1>1. UNCHANGED <<row, given, asked, steers>>
  BY DEF Surround, PreparationEnds, RetryPreparation, NewTranscript, memory, history
<1>2. \A k \in Input : Riding(drainer', k) => Riding(drainer, k)
  BY RidesOn, Parts
     DEF Surround, PreparationEnds, RetryPreparation, NewTranscript, memory, MemoryOK
<1>3. QED
  BY <1>1, <1>2, Steady

LEMMA RestartSpends == ASSUME IInv, Budget, Restart PROVE Budget'
<1>1. UNCHANGED <<given, asked>> /\ steers' = {}
  BY DEF Restart
<1>2. \A k \in Input : ~Riding(drainer', k)
  BY RidesOn, Parts DEF Restart, LoopsOn, MemoryOK
<1>3. \A k \in Input : row'[k].status = "queued" => row[k].status = "queued"
  <2>1. \A k \in Input : row'[k] = row[k] \/ row'[k] = Restated(row[k], "interrupted")
    BY DEF Restart, RecoverQueue, Restated
  <2>2. \A k \in Input : Restated(row[k], "interrupted").status = "interrupted"
    BY RestatedRow, Parts DEF RowsFit, Status
  <2>3. QED
    BY <2>1, <2>2
<1>4. QED
  BY <1>1, <1>2, <1>3, Steady

LEMMA BudgetKept == IInv /\ Budget /\ [Next]_vars => Budget'
<1> SUFFICES ASSUME IInv, Budget, [Next]_vars PROVE Budget'
  OBVIOUS
<1>1. CASE Submit
  BY <1>1, SubmitSpends, AcceptDirectSpends, AcceptOtherSpends, DispatchSpends DEF Submit
<1>2. CASE Steering
  BY <1>2, HandSpends, DeclineSpends, ReturnSpends DEF Steering
<1>3. CASE Control
  BY <1>3, ControlSpends, SendSpends, SteerSpends DEF Control
<1>4. CASE Edit
  BY <1>4, EditSpends DEF Edit
<1>5. CASE Drain
  BY <1>5, LoopSpends, ClaimSpends, ExecuteSpends, EndSpends DEF Drain
<1>6. CASE Surround
  BY <1>6, SurroundSpends
<1>7. CASE Restart
  BY <1>7, RestartSpends
<1>8. CASE UNCHANGED vars
  BY <1>8, Steady DEF vars, rows, history
<1>9. QED
  BY <1>1, <1>2, <1>3, <1>4, <1>5, <1>6, <1>7, <1>8 DEF Next

LEMMA BudgetAtFirst == Init => Budget
<1> SUFFICES ASSUME Init PROVE Budget
  OBVIOUS
<1>1. IsFiniteSet(steers)
  BY FS_EmptySet DEF Init
<1>2. ASSUME NEW k \in Input PROVE given[k] + Queues(k) + Rides(k) + Opens(k) <= asked[k]
  <2>1. Queues(k) = 0 /\ Rides(k) = 0
    BY DEF Init, QueueInit, NoRow, AtRest, Queues, Rides, Riding, Bit
  <2>2. Open(k) = {}
    BY DEF Init, Open
  <2>3. Opens(k) = 0
    BY <2>2, FS_EmptySet DEF Opens
  <2>4. QED
    BY <2>1, <2>3 DEF Init
<1>3. QED
  BY <1>1, <1>2 DEF Budget

\* No input reaches an agent more often than its user asked for, through any
\* fallback, retry, fence, merge or restart.
THEOREM NothingReplayed == Spec => []NoReplay
<1>1. IInv /\ Budget => NoReplay
  <2> SUFFICES ASSUME IInv, Budget, NEW k \in Input PROVE given[k] <= asked[k]
    BY DEF NoReplay
  <2>1. /\ given[k] \in Nat /\ asked[k] \in Nat /\ Queues(k) \in 0..1 /\ Rides(k) \in 0..1
        /\ Opens(k) \in Nat /\ given[k] + Queues(k) + Rides(k) + Opens(k) <= asked[k]
    BY PartTypes DEF Budget
  <2>2. QED
    BY <2>1
<1>2. QED
  BY <1>1, BudgetAtFirst, BudgetKept, Invariant, PTL DEF Spec

-----------------------------------------------------------------------------
(* Nothing ends completed that no agent was given.                         *)

\* An agent received the input, or its steering is out, threw or was cut off.
Vouched(i) == given[i] > 0 \/ i \in lost \/ \E s \in steers : s.input = i
Handed     == \A s \in steers : s.handed => given[s.input] > 0
Backed     == \A i \in Input :
                /\ row[i].status = "completed" => Vouched(i)
                /\ row[i].status = "injecting" => Vouched(i) \/ Riding(drainer, i)
Leading    == /\ drainer.at = "preflight" => active.input \in drainer.merged
              /\ drainer.at = "executing" => active.input \in Input /\ given[active.input] > 0
Delivery   == Handed /\ Backed /\ Leading

\* The loop neither enters nor leaves preflight or the agent.
Onward(d, e) == d.at \in {"preflight", "executing"} \/ e.at \in {"preflight", "executing"} =>
                  e.at = d.at /\ e.merged = d.merged

LEMMA OnwardMoves ==
    ASSUME drainer \in Drainer
    PROVE  /\ Onward(drainer, drainer) /\ Onward(drainer, Woken(drainer))
           /\ \A run : Onward(drainer, Interrupted(drainer, run))
           /\ Prioritize => Onward(drainer, drainer')
           /\ LoopsOn => drainer'.at = "claiming"
           /\ drainer.at \in {"claiming", "delayed"} =>
                \A at \in {"idle", "claiming", "delayed"} : Onward(drainer, At(at))
<1>1. ASSUME NEW d \in Drainer PROVE Onward(d, d) /\ Onward(d, Woken(d))
  BY <1>1 DEF Woken, Onward, Drainer
<1>2. ASSUME NEW d \in Drainer, NEW run
      PROVE  Interrupted(d, run) \in Drainer /\ Onward(d, Interrupted(d, run))
  BY <1>2 DEF Interrupted, Onward, Drainer
<1>3. Prioritize => Onward(drainer, drainer')
  BY <1>1, <1>2 DEF Prioritize, Onward
<1>4. LoopsOn => drainer'.at = "claiming"
  BY DEF LoopsOn, AtRest
<1>5. ASSUME drainer.at \in {"claiming", "delayed"}, NEW at \in {"idle", "claiming", "delayed"}
      PROVE  Onward(drainer, At(at))
  BY <1>5 DEF At, Onward, Drainer
<1>6. QED
  BY <1>1, <1>2, <1>3, <1>4, <1>5

\* An action that takes back nothing given, lost or called
LEMMA Stays ==
    ASSUME IInv, Delivery, UNCHANGED <<active, given>>,
           Onward(drainer, drainer'),
           \A s \in steers' : s.handed => s \in steers,
           \A i \in Input : Vouched(i) /\ row'[i].status \in {"completed", "injecting"} => Vouched(i)',
           \A i \in Input : row'[i].status = "completed" => row[i].status = "completed",
           \A i \in Input : row'[i].status = "injecting" => row[i].status = "injecting" \/ Vouched(i)'
    PROVE  Delivery'
<1>1. Handed'
  BY DEF Delivery, Handed
<1>2. Leading'
  BY DEF Delivery, Leading, Onward
<1>3. \A i \in Input : Riding(drainer, i) => Riding(drainer', i)
  BY DEF Riding, Onward
<1>4. Backed'
  BY <1>3 DEF Delivery, Backed
<1>5. QED
  BY <1>1, <1>2, <1>4 DEF Delivery

\* Nothing but the rows changes, or one call returns.
LEMMA SameCalls ==
    ASSUME UNCHANGED <<given, lost, steers>>
    PROVE  /\ \A s \in steers' : s.handed => s \in steers
           /\ \A i \in Input : Vouched(i) => Vouched(i)'
  BY DEF Vouched

LEMMA CallMade ==
    ASSUME UNCHANGED <<given, lost>>, NEW by, NEW i \in Input, Calls(by, i)
    PROVE  /\ \A s \in steers' : s.handed => s \in steers
           /\ \A k \in Input : Vouched(k) => Vouched(k)'
           /\ Vouched(i)'
<1> DEFINE c == [by |-> by, input |-> i, run |-> active.run, handed |-> FALSE]
<1>1. steers' = steers \cup {c} /\ c.input = i /\ ~c.handed
  BY DEF Calls
<1> HIDE DEF c
<1>2. QED
  BY <1>1 DEF Vouched

LEMMA SubmitDelivers ==
    ASSUME IInv, Delivery, NEW i \in Input,
           \/ Receive(i) \/ Prepare(i) \/ Refuse(i) \/ ReplaceAborts(i)
    PROVE  Delivery'
<1>1. UNCHANGED <<row, active, given, lost, steers>>
  BY DEF Receive, Prepare, Refuse, ReplaceAborts, history, rows
<1>2. Onward(drainer, drainer')
  BY OnwardMoves, Parts DEF Receive, Prepare, Refuse, ReplaceAborts, MemoryOK
<1>3. QED
  BY <1>1, <1>2, SameCalls, Stays

LEMMA AcceptDelivers ==
    ASSUME IInv, Delivery, NEW i \in Input, AcceptDirect(i) \/ AcceptCommand(i) \/ AcceptReplace(i)
    PROVE  Delivery'
<1>1. UNCHANGED <<active, given, lost>>
  BY DEF AcceptDirect, AcceptCommand, AcceptReplace
<1>2. Onward(drainer, drainer')
  BY OnwardMoves, Parts DEF AcceptDirect, AcceptCommand, AcceptReplace, MemoryOK
<1>3. PICK st \in {"queued", "injecting"} :
         /\ \E target, prio, bound : NewInput(i, st, target, prio, bound)
         /\ st = "queued" => UNCHANGED steers
         /\ st = "injecting" => Calls(i, i)
  BY DEF AcceptDirect, AcceptCommand, AcceptReplace
<1>4. row'[i].status = st /\ \A k \in Input : k # i => row'[k].status = row[k].status
  BY <1>3, NewRow, Parts DEF RowsFit
<1>5. CASE st = "queued"
  BY <1>1, <1>2, <1>3, <1>4, <1>5, SameCalls, Stays
<1>6. CASE st = "injecting"
  BY <1>1, <1>2, <1>3, <1>4, <1>6, CallMade, Stays
<1>7. QED
  BY <1>5, <1>6

LEMMA InjectDelivers ==
    ASSUME IInv, Delivery, NEW i \in Input, NEW by, Inject(i, active.run), Calls(by, i),
           UNCHANGED <<active, given, lost, drainer>>
    PROVE  Delivery'
<1>1. row'[i].status = "injecting" /\ \A k \in Input : k # i => row'[k] = row[k]
  BY Parts DEF Inject, RowsFit, RowType
<1>2. Onward(drainer, drainer')
  BY OnwardMoves, Parts DEF MemoryOK
<1>3. QED
  BY <1>1, <1>2, CallMade, Stays

LEMMA DispatchDelivers == ASSUME IInv, Delivery, NEW i \in Input, Dispatch(i) PROVE Delivery'
<1> DEFINE injects == /\ row[i].status = "queued" /\ ~control.paused
                      /\ ~row[i].prio /\ sub[i].kind.steer /\ active.run # None
                      /\ preparation = "ready"
<1>1. UNCHANGED <<active, given, lost>>
  BY DEF Dispatch, history
<1>2. CASE injects
  BY <1>1, <1>2, InjectDelivers DEF Dispatch
<1>3. CASE ~injects
  <2>1. UNCHANGED <<row, steers>> /\ (Prioritize \/ drainer' = Woken(drainer))
    BY <1>3 DEF Dispatch
  <2>2. Onward(drainer, drainer')
    BY <2>1, OnwardMoves, Parts DEF MemoryOK
  <2>3. QED
    BY <1>1, <2>1, <2>2, SameCalls, Stays
<1>4. QED
  BY <1>2, <1>3

LEMMA HandDelivers == ASSUME IInv, Delivery, NEW s \in steers, Hand(s) PROVE Delivery'
<1> DEFINE t == [s EXCEPT !.handed = TRUE]
<1>1. t.input = s.input /\ s.input \in Input
  BY Parts DEF MemoryOK, Call
<1>2. steers' = (steers \ {s}) \cup {t} /\ UNCHANGED <<row, active, drainer, lost>>
  BY DEF Hand, rows
<1> HIDE DEF t
<1>3. \A k \in Input : /\ given[k] \in Nat
                       /\ given'[k] = IF k = s.input THEN given[k] + 1 ELSE given[k]
  BY Parts DEF Hand, HistoryOK
<1>4. \A k \in Input : (given[k] > 0 => given'[k] > 0) /\ given'[s.input] > 0
  BY <1>1, <1>3
<1>5. \A u \in steers : u.input \in Input
  BY Parts DEF MemoryOK, Call
<1>6. Handed'
  BY <1>1, <1>2, <1>4, <1>5 DEF Delivery, Handed
<1>7. Backed'
  BY <1>1, <1>2, <1>4 DEF Delivery, Backed, Vouched, Riding
<1>8. Leading'
  BY <1>2, <1>4 DEF Delivery, Leading
<1>9. QED
  BY <1>6, <1>7, <1>8 DEF Delivery

LEMMA AnswerDelivers ==
    ASSUME IInv, Delivery, NEW s \in steers, Confirm(s) \/ Decline(s) \/ Throw(s)
    PROVE  Delivery'
<1>1. UNCHANGED <<active, given>> /\ steers' = steers \ {s} /\ s.input \in Input
  BY Parts DEF Confirm, Decline, Throw, Answered, rows, history, MemoryOK, Call
<1>2. Onward(drainer, drainer')
  BY OnwardMoves, Parts DEF Confirm, Decline, Throw, Answered, MemoryOK
<1>3. \A k \in Input : k # s.input /\ Vouched(k) => Vouched(k)'
  BY <1>1 DEF Vouched, Confirm, Decline, Throw, history
<1>4. CASE Confirm(s) \/ Throw(s)
  <2>1. Vouched(s.input)'
    BY <1>1, <1>4 DEF Vouched, Confirm, Throw, Delivery, Handed
  <2>2. UNCHANGED row
    BY <1>4 DEF Confirm, Throw, Unconfirmed, rows
  <2>3. QED
    BY <1>1, <1>2, <1>3, <2>1, <2>2, Stays
<1>5. CASE Decline(s)
  <2>1. row'[s.input].status \in {"queued", "interrupted"}
        /\ \A k \in Input : k # s.input => row'[k] = row[k]
    BY <1>1, <1>5, Parts DEF Decline, SetStatus, RowsFit, RowType
  <2>2. QED
    BY <1>1, <1>2, <1>3, <2>1, Stays
<1>6. QED
  BY <1>4, <1>5

LEMMA ControlDelivers ==
    ASSUME IInv, Delivery, NEW o \in Op, Stop(o) \/ ReplayStop(o) \/ Pause(o) \/ Resume(o)
    PROVE  Delivery'
<1>1. UNCHANGED <<row, active, given, lost, steers>>
  BY DEF Stop, ReplayStop, Pause, Resume, rows, memory, history
<1>2. Onward(drainer, drainer')
  BY OnwardMoves, Parts DEF Stop, ReplayStop, Pause, Resume, memory, MemoryOK
<1>3. QED
  BY <1>1, <1>2, SameCalls, Stays

LEMMA SendDelivers ==
    ASSUME IInv, Delivery, NEW o \in Op, NEW i \in Input, Send(o, i)
    PROVE  Delivery'
<1>1. UNCHANGED <<active, given, lost, steers>>
  BY DEF Send
<1>2. Onward(drainer, drainer')
  BY OnwardMoves, Parts DEF Send, MemoryOK
<1>3. row'[i].status = "queued" /\ \A k \in Input : k # i => row'[k] = row[k]
  BY Parts DEF Send, SendInput, SetStatus, RowsFit, RowType
<1>4. QED
  BY <1>1, <1>2, <1>3, SameCalls, Stays

LEMMA SteerDelivers ==
    ASSUME IInv, Delivery, NEW o \in Op, NEW i \in Input, Steer(o, i)
    PROVE  Delivery'
<1>1. Inject(i, active.run) /\ Calls(o, i) /\ UNCHANGED <<active, given, lost, drainer>>
  BY DEF Steer, SteerInput, history
<1>2. QED
  BY <1>1, InjectDelivers

LEMMA EditDelivers ==
    ASSUME IInv, Delivery, NEW i \in Input, Remove(i) \/ Move(i)
    PROVE  Delivery'
<1>1. UNCHANGED <<active, given, lost, steers>>
  BY DEF Remove, Move, CancelInput, MoveInput, memory, history
<1>2. Onward(drainer, drainer')
  BY OnwardMoves, Parts DEF Remove, Move, memory, MemoryOK
<1>3. \A k \in Input : row'[k].status \in {row[k].status, "cancelled"}
  <2>1. CASE Remove(i)
    <3>1. row' = [row EXCEPT ![i].status = "cancelled"]
      BY <2>1 DEF Remove, CancelInput
    <3>2. row'[i].status = "cancelled" /\ \A k \in Input : k # i => row'[k] = row[k]
      BY <3>1, Parts DEF RowsFit, RowType
    <3>3. QED
      BY <3>2
  <2>2. CASE Move(i)
    <3>1. PICK n \in 0..Cardinality(Input) : MoveInput(i, n)
      BY <2>2 DEF Move
    <3>2. n \in Nat
      BY FS_CardinalityType, QueueAssumption
    <3>3. QED
      BY <3>1, <3>2, MoveFits, Parts
  <2>3. QED
    BY <2>1, <2>2
<1>4. QED
  BY <1>1, <1>2, <1>3, SameCalls, Stays

LEMMA LoopDelivers == ASSUME IInv, Delivery, Leave \/ Delay \/ Elapse PROVE Delivery'
<1>1. UNCHANGED <<active, given, lost, steers>>
  BY DEF Leave, Delay, Elapse, ClaimNothing, rows, history
<1>2. Onward(drainer, drainer')
  BY OnwardMoves, Parts DEF Leave, Delay, Elapse, MemoryOK
<1>3. \A k \in Input : row'[k].status \in {row[k].status, "interrupted"}
  <2>1. UNCHANGED row \/ row' = Parked
    BY DEF Leave, Delay, Elapse, ClaimNothing, rows
  <2>2. QED
    BY <2>1, ParkedFits, Parts
<1>4. QED
  BY <1>1, <1>2, <1>3, SameCalls, Stays

\* What is claimed rides to the start of its run.
LEMMA ClaimDelivers == ASSUME IInv, Delivery, Claim PROVE Delivery'
<1>1. PICK i \in Input, js \in SUBSET Input :
         /\ ClaimNext(i, js)
         /\ drainer' = [at |-> "preflight", aborted |-> FALSE, merged |-> js \cup {i}]
  BY DEF Claim
<1>2. UNCHANGED <<given, lost, steers>>
  BY DEF Claim, history
<1>3. active.run = None /\ active' = [run |-> runs + 1, input |-> i]
  BY <1>1 DEF ClaimNext, MayClaim
<1>4. Handed' /\ Leading'
  BY <1>1, <1>2, <1>3 DEF Delivery, Handed, Leading
<1>5. \A k \in Input : row[k].status # "injecting" /\ row[k] \in RowType
  BY <1>3, NothingRuns, QueueTypes, Parts DEF RowsFit
<1>6. ASSUME NEW k \in Input
      PROVE  /\ row'[k].status = "completed" => row[k].status = "completed"
             /\ row'[k].status = "injecting" => k \in js
  <2>1. CASE k \in js \cup {i}
    <3>1. row'[k] = IF k = i THEN Restated(row[k], "running") ELSE Steered(row[k], runs + 1)
      BY <1>1, <2>1 DEF ClaimNext, Restated, Steered
    <3>2. Restated(row[k], "running").status = "running"
          /\ Steered(row[k], runs + 1).status = "injecting"
      BY <1>5 DEF Restated, Steered, RowType
    <3>3. QED
      BY <2>1, <3>1, <3>2
  <2>2. CASE k \notin js \cup {i}
    <3>1. row'[k] = Parked[k]
      BY <1>1, <2>2 DEF ClaimNext
    <3>2. QED
      BY <1>5, <3>1, ParkedFits, Parts
  <2>3. QED
    BY <2>1, <2>2
<1>7. Backed'
  <2>1. \A k \in js : Riding(drainer', k)
    BY <1>1 DEF Riding
  <2>2. QED
    BY <1>2, <1>6, <2>1, SameCalls DEF Delivery, Backed
<1>8. QED
  BY <1>4, <1>7 DEF Delivery

LEMMA ExecuteDelivers == ASSUME IInv, Delivery, Execute PROVE Delivery'
<1>1. UNCHANGED <<row, active, lost, steers>> /\ drainer.at = "preflight"
  BY DEF Execute, rows
<1>2. \A k \in Input : /\ given[k] \in Nat
                       /\ given'[k] = IF k \in drainer.merged THEN given[k] + 1 ELSE given[k]
  BY Parts DEF Execute, HistoryOK
<1>3. \A k \in Input : /\ given[k] > 0 => given'[k] > 0
                       /\ k \in drainer.merged => given'[k] > 0
  BY <1>2
<1>4. \A s \in steers : s.input \in Input
  BY Parts DEF MemoryOK, Call
<1>5. Handed'
  BY <1>1, <1>3, <1>4 DEF Delivery, Handed
<1>6. Leading'
  <2>1. active.input \in drainer.merged /\ drainer.merged \subseteq Input
    BY <1>1, Parts DEF Delivery, Leading, MemoryOK, Drainer
  <2>2. drainer'.at = "executing"
    BY Parts DEF Execute, At, MemoryOK, Drainer
  <2>3. QED
    BY <1>1, <1>3, <2>1, <2>2 DEF Leading
<1>7. Backed'
  BY <1>1, <1>3 DEF Delivery, Backed, Vouched, Riding
<1>8. QED
  BY <1>5, <1>6, <1>7 DEF Delivery

\* Only a run whose agent was at work completes its input and what it took in.
LEMMA EndDelivers == ASSUME IInv, Delivery, Forgo \/ Finish PROVE Delivery'
<1>1. PICK st \in {"completed", "suspended", "cancelled", "failed"} :
         FinishRun(st) /\ (st = "completed" => drainer.at = "executing")
  BY DEF Forgo, Finish
<1>2. UNCHANGED <<given, lost, steers>> /\ drainer'.at = "claiming"
  BY OnwardMoves, Parts DEF Forgo, Finish, history, MemoryOK
<1>3. Handed' /\ Leading'
  BY <1>2 DEF Delivery, Handed, Leading
<1>4. RowsFit' /\ active'.run = None
  BY <1>1, FinishFits, Parts DEF Status, FinishRun, Released
<1>5. \A k \in Input : row'[k].status # "injecting"
  BY <1>4 DEF RowsFit
<1>6. ASSUME NEW k \in Input, row'[k].status = "completed" PROVE Vouched(k)
  <2>1. row[k] \in RowType
    BY Parts DEF RowsFit
  <2>2. CASE row'[k] = row[k]
    BY <1>6, <2>2 DEF Delivery, Backed
  <2>3. CASE st = "completed" /\ k = active.input
    BY <1>1, <2>3 DEF Delivery, Leading, Vouched
  <2>4. CASE st = "completed" /\ row[k].status = "injecting"
    BY <1>1, <2>4 DEF Delivery, Backed, Riding
  <2>5. CASE st # "completed" /\ row'[k] # row[k]
    <3>1. row'[k] \in {Restated(row[k], st), Restated(row[k], "interrupted")}
      BY <1>1, <2>5 DEF FinishRun, Finished, Restated
    <3>2. Restated(row[k], st).status = st /\ Restated(row[k], "interrupted").status = "interrupted"
      BY <1>1, <2>1 DEF Restated, RowType
    <3>3. QED
      BY <1>6, <2>5, <3>1, <3>2
  <2>6. QED
    BY <1>1, <2>2, <2>3, <2>4, <2>5 DEF FinishRun, Finished
<1>7. Backed'
  BY <1>2, <1>5, <1>6, SameCalls DEF Backed
<1>8. QED
  BY <1>3, <1>7 DEF Delivery

LEMMA SurroundDelivers == ASSUME IInv, Delivery, Surround PROVE Delivery'
<1>1. UNCHANGED <<row, active, given, lost, steers>>
  BY DEF Surround, PreparationEnds, RetryPreparation, NewTranscript, memory, history
<1>2. Onward(drainer, drainer')
  BY OnwardMoves, Parts
     DEF Surround, PreparationEnds, RetryPreparation, NewTranscript, memory, MemoryOK
<1>3. QED
  BY <1>1, <1>2, SameCalls, Stays

LEMMA RestartDelivers == ASSUME IInv, Delivery, Restart PROVE Delivery'
<1>1. /\ UNCHANGED given /\ steers' = {} /\ drainer'.at = "claiming"
      /\ lost' = lost \cup {s.input : s \in {s \in steers : ~s.handed}}
  BY OnwardMoves, Parts DEF Restart, LoopsOn, MemoryOK
<1>2. Handed' /\ Leading'
  BY <1>1 DEF Handed, Leading
<1>3. \A k \in Input : \/ row'[k] = row[k] /\ row[k].status # "injecting"
                       \/ row'[k].status = "interrupted"
  <2>1. \A k \in Input : row'[k] = IF row[k].status \in CutOff
                                   THEN Restated(row[k], "interrupted") ELSE row[k]
    BY DEF Restart, RecoverQueue, Restated
  <2>2. \A k \in Input : Restated(row[k], "interrupted").status = "interrupted"
    BY RestatedRow, Parts DEF RowsFit, Status
  <2>3. QED
    BY <2>1, <2>2 DEF CutOff
<1>4. \A k \in Input : Vouched(k) => Vouched(k)'
  BY <1>1 DEF Vouched, Delivery, Handed
<1>5. Backed'
  BY <1>3, <1>4 DEF Delivery, Backed
<1>6. QED
  BY <1>2, <1>5 DEF Delivery

LEMMA DeliveryKept == IInv /\ Delivery /\ [Next]_vars => Delivery'
<1> SUFFICES ASSUME IInv, Delivery, [Next]_vars PROVE Delivery'
  OBVIOUS
<1>1. CASE Submit
  BY <1>1, SubmitDelivers, AcceptDelivers, DispatchDelivers DEF Submit
<1>2. CASE Steering
  BY <1>2, HandDelivers, AnswerDelivers DEF Steering
<1>3. CASE Control
  BY <1>3, ControlDelivers, SendDelivers, SteerDelivers DEF Control
<1>4. CASE Edit
  BY <1>4, EditDelivers DEF Edit
<1>5. CASE Drain
  BY <1>5, LoopDelivers, ClaimDelivers, ExecuteDelivers, EndDelivers DEF Drain
<1>6. CASE Surround
  BY <1>6, SurroundDelivers
<1>7. CASE Restart
  BY <1>7, RestartDelivers
<1>8. CASE UNCHANGED vars
  <2>1. UNCHANGED <<row, active, given, lost, steers, drainer>>
    BY <1>8 DEF vars, rows, history
  <2>2. Onward(drainer, drainer')
    BY <2>1, OnwardMoves, Parts DEF MemoryOK
  <2>3. QED
    BY <2>1, <2>2, SameCalls, Stays
<1>9. QED
  BY <1>1, <1>2, <1>3, <1>4, <1>5, <1>6, <1>7, <1>8 DEF Next

\* A message ends completed only if an agent received it, unless its steering
\* is still out, threw, or was cut off by a crash.
THEOREM CompletedMeansGiven == Spec => []CompletedWasGiven
<1>1. Init => Delivery
  BY DEF Init, QueueInit, NoRow, AtRest, Delivery, Handed, Backed, Leading
<1>2. IInv /\ Delivery => CompletedWasGiven
  BY DEF Delivery, Backed, Vouched, CompletedWasGiven, With
<1>3. QED
  BY <1>1, <1>2, DeliveryKept, Invariant, PTL DEF Spec

-----------------------------------------------------------------------------
(***************************************************************************)
(* No wake-up of the drain loop is lost: the part of QueueSettles that is  *)
(* about states, and so can be proved.  While the loop rests no run is     *)
(* active, and nothing it could claim waits, unless a submission is under  *)
(* way, whose return starts the loop, or the conversation is not prepared, *)
(* and the end of its preparation will.                                    *)
(***************************************************************************)
Underway == (active.run # None) = (drainer.at \in {"preflight", "executing"})
NoWakeUpLost == drainer.at = "idle" =>
    active.run = None /\ (Accepting \/ preparation # "ready" \/ Claimable = {})
\* A row is bound to no transcript of the future, so none becomes claimable by
\* a reset.
BoundToPast == \A i \in Input : row[i].bound # None => row[i].bound <= transcript
LoopFit == Underway /\ BoundToPast /\ NoWakeUpLost

\* The ways in which a step may leave the loop: at work or awake, with a
\* submission under way, or at rest with nothing more to claim.
LEMMA RestsOnly ==
    ASSUME LoopFit, UNCHANGED <<active, transcript, preparation>>, Onward(drainer, drainer'),
           \A i \in Input : row'[i].bound \in {row[i].bound, None, transcript},
           \/ drainer'.at # "idle"
           \/ Accepting'
           \/ drainer.at = "idle" /\ (Accepting => Accepting') /\ Claimable' \subseteq Claimable,
           transcript \in Nat
    PROVE  LoopFit'
<1>1. Underway'
  BY DEF LoopFit, Underway, Onward
<1>2. BoundToPast'
  <2> SUFFICES ASSUME NEW i \in Input, row'[i].bound # None PROVE row'[i].bound <= transcript
    BY DEF BoundToPast
  <2>1. row'[i].bound = row[i].bound \/ row'[i].bound = transcript
    OBVIOUS
  <2> QED BY <2>1 DEF LoopFit, BoundToPast
<1>3. NoWakeUpLost'
  BY <1>1 DEF LoopFit, NoWakeUpLost, Underway
<1> QED BY <1>1, <1>2, <1>3 DEF LoopFit

\* Where the loop is after a call of drain() or of interrupt().
LEMMA Wakes ==
    ASSUME drainer \in Drainer
    PROVE  /\ Woken(drainer).at # "idle"
           /\ \A r : Interrupted(drainer, r).at = drainer.at
           /\ Prioritize => drainer'.at # "idle"
<1>1. ASSUME NEW d \in Drainer PROVE Woken(d).at # "idle"
  BY <1>1 DEF Woken, Drainer
<1>2. ASSUME NEW r PROVE Interrupted(drainer, r) \in Drainer /\ Interrupted(drainer, r).at = drainer.at
  BY DEF Interrupted, Drainer
<1>3. Prioritize => drainer'.at # "idle"
  BY <1>1, <1>2 DEF Prioritize
<1> QED BY <1>1, <1>2, <1>3

\* Rows keep their binding, or are bound to the transcript of the moment.
LEMMA NewBinding ==
    ASSUME row \in [Input -> RowType], NEW i \in Input, NEW st, NEW target, NEW prio,
           NEW bound \in {None, transcript}, NewInput(i, st, target, prio, bound)
    PROVE  \A k \in Input : row'[k].bound \in {row[k].bound, None, transcript}
<1> DEFINE x == [status |-> st, target |-> target, prio |-> prio, bound |-> bound,
                 position |-> LastPosition + 1]
<1>1. row' = [row EXCEPT ![i] = x] /\ x.bound = bound
  BY DEF NewInput
<1> HIDE DEF x
<1> QED BY <1>1

LEMMA SubmitServes ==
    ASSUME IInv, LoopFit, NEW i \in Input,
           Receive(i) \/ Prepare(i) \/ Refuse(i) \/ ReplaceAborts(i)
    PROVE  LoopFit'
<1>1. UNCHANGED rows
  BY DEF Receive, Prepare, Refuse, ReplaceAborts
<1>2. Onward(drainer, drainer') /\ drainer \in Drainer /\ sub \in [Input -> Request]
  BY OnwardMoves, Parts DEF Receive, Prepare, Refuse, ReplaceAborts, MemoryOK
<1>3. drainer'.at # "idle" \/ (drainer.at = "idle" /\ (Accepting => Accepting'))
  <2>1. CASE Receive(i) \/ Prepare(i)
    <3>1. UNCHANGED drainer /\ sub[i].phase \in {"new", "waiting"}
      BY <2>1 DEF Receive, Prepare
    <3>2. \A k \in Input : k # i => sub'[k] = sub[k]
      BY <1>2, <2>1 DEF Receive, Prepare, To
    <3>3. sub[i].phase = "waiting" => sub'[i].phase = "preparing" /\ sub'[i].kind = sub[i].kind
      BY <1>2, <2>1 DEF Receive, Prepare, To, Request
    <3>4. \A k \in Input : Counted(k) => Counted(k)'
      BY <3>1, <3>2, <3>3 DEF Counted, InFlight
    <3> QED BY <3>1, <3>4 DEF Accepting
  <2>2. CASE Refuse(i)
    <3>1. CASE Counted(i)
      BY <1>2, <2>2, <3>1, Wakes DEF Refuse
    <3>2. CASE ~Counted(i)
      <4>1. UNCHANGED drainer /\ \A k \in Input : k # i => sub'[k] = sub[k]
        BY <2>2, <3>2 DEF Refuse, Returns
      <4>2. \A k \in Input : Counted(k) => Counted(k)'
        BY <3>2, <4>1 DEF Counted, InFlight
      <4> QED BY <4>1, <4>2 DEF Accepting
    <3> QED BY <3>1, <3>2
  <2>3. CASE ReplaceAborts(i)
    BY <1>2, <2>3, Wakes DEF ReplaceAborts
  <2> QED BY <2>1, <2>2, <2>3
<1>4. Claimable' = Claimable
  BY <1>1 DEF rows, Claimable, Stale, With, BoundElsewhere
<1>5. transcript \in Nat /\ UNCHANGED <<row, active, transcript, preparation>>
  BY <1>1, Parts, QueueAssumption DEF rows, QueueRest
<1> QED BY <1>2, <1>3, <1>4, <1>5, RestsOnly

LEMMA AcceptServes ==
    ASSUME IInv, LoopFit, NEW i \in Input, AcceptDirect(i) \/ AcceptCommand(i) \/ AcceptReplace(i)
    PROVE  LoopFit'
<1>1. UNCHANGED <<active, transcript, preparation>>
  BY DEF AcceptDirect, AcceptCommand, AcceptReplace
<1>2. Onward(drainer, drainer') /\ drainer \in Drainer /\ sub \in [Input -> Request]
  BY OnwardMoves, Parts DEF AcceptDirect, AcceptCommand, AcceptReplace, MemoryOK
<1>3. \A k \in Input : row'[k].bound \in {row[k].bound, None, transcript}
  <2>1. \E st, target, prio : \E bound \in {None, transcript} : NewInput(i, st, target, prio, bound)
    BY DEF AcceptDirect, AcceptCommand, AcceptReplace
  <2> QED BY <2>1, NewBinding, Parts DEF RowsFit
<1>4. drainer'.at # "idle" \/ Accepting'
  <2>1. CASE AcceptDirect(i)
    <3>1. \/ drainer' = Woken(drainer) \/ Prioritize
          \/ UNCHANGED drainer /\ active.run # None
      BY <2>1 DEF AcceptDirect
    <3> QED BY <1>2, <3>1, Wakes DEF LoopFit, Underway
  <2>2. CASE AcceptCommand(i)
    <3>1. sub'[i].phase = "accepted" /\ sub'[i].kind.path = "command"
      BY <1>2, <2>2 DEF AcceptCommand, To, Request
    <3> QED BY <3>1 DEF Accepting, Counted, InFlight
  <2>3. CASE AcceptReplace(i)
    BY <1>2, <2>3, Wakes DEF AcceptReplace
  <2> QED BY <2>1, <2>2, <2>3
<1>5. transcript \in Nat
  BY Parts, QueueAssumption DEF QueueRest
<1> QED BY <1>1, <1>2, <1>3, <1>4, <1>5, RestsOnly

LEMMA DispatchServes == ASSUME IInv, LoopFit, NEW i \in Input, Dispatch(i) PROVE LoopFit'
<1>1. UNCHANGED <<active, transcript, preparation>> /\ transcript \in Nat
  BY Parts, QueueAssumption DEF Dispatch, QueueRest
<1>2. Onward(drainer, drainer') /\ drainer \in Drainer
  BY OnwardMoves, Parts DEF Dispatch, MemoryOK
<1>3. \A k \in Input : row'[k].bound = row[k].bound
  <2>1. UNCHANGED row \/ Inject(i, active.run)
    BY DEF Dispatch
  <2> QED BY <2>1, Parts DEF Inject, RowsFit, RowType
<1>4. drainer'.at # "idle"
  <2>1. \/ drainer' = Woken(drainer) \/ Prioritize
        \/ UNCHANGED drainer /\ active.run # None
    BY DEF Dispatch
  <2> QED BY <1>2, <2>1, Wakes DEF LoopFit, Underway
<1> QED BY <1>1, <1>2, <1>3, <1>4, RestsOnly

\* A declined message of a control operation does not return to the queue.
LEMMA SteeringServes ==
    ASSUME IInv, LoopFit, NEW s \in steers, Hand(s) \/ Confirm(s) \/ Decline(s) \/ Throw(s)
    PROVE  LoopFit'
<1>1. /\ UNCHANGED <<active, control, transcript, preparation>> /\ transcript \in Nat
      /\ s.input \in Input
  BY Parts, QueueAssumption
     DEF Hand, Confirm, Decline, Throw, rows, QueueRest, MemoryOK, Call
<1>2. Onward(drainer, drainer') /\ drainer \in Drainer
  BY OnwardMoves, Parts DEF Hand, Confirm, Decline, Throw, Answered, MemoryOK
<1>3. /\ \A k \in Input : row'[k].bound = row[k].bound
      /\ drainer'.at # "idle" \/ \A k \in Input : row'[k].status = "queued" => row[k].status = "queued"
  <2>1. CASE Decline(s)
    <3> DEFINE st == IF s.by \in Input THEN "queued" ELSE "interrupted"
    <3>1. row'[s.input].status = st /\ \A k \in Input : /\ k # s.input => row'[k] = row[k]
                                                        /\ row'[k].bound = row[k].bound
      BY <1>1, <2>1, Parts DEF Decline, SetStatus, RowsFit, RowType
    <3>2. s.by \in Input => drainer'.at # "idle"
      BY <1>2, <2>1, Wakes DEF Decline, Answered
    <3> QED BY <3>1, <3>2
  <2>2. CASE Hand(s) \/ Confirm(s) \/ Throw(s)
    BY <2>2 DEF Hand, Confirm, Throw, Unconfirmed, rows
  <2> QED BY <2>1, <2>2
<1>4. drainer'.at # "idle" \/ (drainer.at = "idle" /\ UNCHANGED sub)
  BY <1>2, Wakes DEF Hand, Confirm, Decline, Throw, Answered
<1>5. drainer'.at # "idle" \/ Claimable' \subseteq Claimable
  BY <1>1, <1>3 DEF Claimable, Stale, With, BoundElsewhere
<1>6. UNCHANGED sub => (Accepting => Accepting')
  BY DEF Accepting, Counted, InFlight
<1> QED BY <1>1, <1>2, <1>3, <1>4, <1>5, <1>6, RestsOnly

\* A pause leaves nothing to claim.
LEMMA ControlServes ==
    ASSUME IInv, LoopFit, NEW o \in Op, Stop(o) \/ ReplayStop(o) \/ Pause(o) \/ Resume(o)
    PROVE  LoopFit'
<1>1. /\ UNCHANGED <<row, active, transcript, preparation, sub>> /\ transcript \in Nat
      /\ control \in ControlRow
  BY Parts, QueueAssumption DEF Stop, ReplayStop, Pause, Resume, rows, memory, QueueRest
<1>2. Onward(drainer, drainer') /\ drainer \in Drainer
  BY OnwardMoves, Parts DEF Stop, ReplayStop, Pause, Resume, memory, MemoryOK
<1>3. drainer'.at # "idle" \/ drainer.at = "idle"
  BY <1>2, Wakes DEF Stop, ReplayStop, Pause, Resume, memory
<1>4. drainer'.at # "idle" \/ UNCHANGED control \/ (control'.paused /\ control'.permitted = None)
  <2>1. CASE Stop(o)
    BY <2>1 DEF Stop, Stopped
  <2>2. CASE ReplayStop(o)
    BY <2>2 DEF ReplayStop, rows
  <2>3. CASE Pause(o)
    BY <1>1, <2>3 DEF Pause, PauseQueue, ControlRow
  <2>4. CASE Resume(o)
    BY <1>2, <2>4, Wakes DEF Resume
  <2> QED BY <2>1, <2>2, <2>3, <2>4
<1>5. drainer'.at # "idle" \/ Claimable' \subseteq Claimable
  BY <1>1, <1>4, QueueAssumption DEF Claimable, Stale, With, BoundElsewhere
<1>6. Accepting => Accepting'
  BY <1>1 DEF Accepting, Counted, InFlight
<1> QED BY <1>1, <1>2, <1>3, <1>5, <1>6, RestsOnly

LEMMA SendServes ==
    ASSUME IInv, LoopFit, NEW o \in Op, NEW i \in Input, Send(o, i) \/ Steer(o, i)
    PROVE  LoopFit'
<1>1. UNCHANGED <<active, transcript, preparation>> /\ transcript \in Nat
  BY Parts, QueueAssumption DEF Send, Steer, QueueRest
<1>2. Onward(drainer, drainer') /\ drainer \in Drainer
  BY OnwardMoves, Parts DEF Send, Steer, MemoryOK
<1>3. \A k \in Input : row'[k].bound = row[k].bound
  BY Parts DEF Send, Steer, SendInput, SteerInput, SetStatus, Inject, RowsFit, RowType
<1>4. drainer'.at # "idle"
  <2>1. drainer' = Woken(drainer) \/ (UNCHANGED drainer /\ active.run # None)
    BY DEF Send, Steer, SteerInput
  <2> QED BY <1>2, <2>1, Wakes DEF LoopFit, Underway
<1> QED BY <1>1, <1>2, <1>3, <1>4, RestsOnly

LEMMA SameBound ==
    ASSUME NEW x \in RowType
    PROVE  /\ \A st : Restated(x, st).bound = x.bound
           /\ \A run : Steered(x, run).bound = x.bound
  BY DEF RowType, Restated, Steered

LEMMA EditServes == ASSUME IInv, LoopFit, NEW i \in Input, Remove(i) \/ Move(i) PROVE LoopFit'
<1>1. /\ UNCHANGED <<active, transcript, preparation, sub>> /\ transcript \in Nat
      /\ row \in [Input -> RowType]
  BY Parts, QueueAssumption DEF Remove, CancelInput, Move, MoveInput, memory, QueueRest, RowsFit
<1>2. Onward(drainer, drainer') /\ drainer \in Drainer
  BY OnwardMoves, Parts DEF Remove, Move, memory, MemoryOK
<1>3. CASE Remove(i)
  <2>1. \A k \in Input : row'[k].bound = row[k].bound
    BY <1>1, <1>3 DEF Remove, CancelInput, RowType
  <2>2. drainer'.at # "idle"
    BY <1>2, <1>3, Wakes DEF Remove
  <2> QED BY <1>1, <1>2, <2>1, <2>2, RestsOnly
<1>4. CASE Move(i)
  <2>1. PICK n \in 0..Cardinality(Input) : MoveInput(i, n)
    BY <1>4 DEF Move
  <2>2. n \in Nat
    BY FS_CardinalityType, QueueAssumption
  <2>3. \A k \in Input : row'[k].bound = row[k].bound /\ row'[k].status = row[k].status
    BY <2>1, <2>2, MoveFits, Parts
  <2>4. UNCHANGED <<drainer, control>> /\ (Accepting => Accepting')
    BY <1>1, <1>4, <2>1 DEF Move, MoveInput, memory, Accepting, Counted, InFlight
  <2>5. Claimable' \subseteq Claimable
    BY <1>1, <2>3, <2>4 DEF Claimable, Stale, With, BoundElsewhere
  <2> QED BY <1>1, <1>2, <2>3, <2>4, <2>5, RestsOnly
<1> QED BY <1>3, <1>4

\* The loop ends when a submission is under way or when nothing may be claimed.
LEMMA LeaveServes == ASSUME IInv, LoopFit, Leave PROVE LoopFit'
<1>1. /\ UNCHANGED <<active, transcript, preparation, sub>> /\ drainer'.at = "idle"
      /\ row \in [Input -> RowType] /\ control \in ControlRow
  BY Parts DEF Leave, ClaimNothing, rows, At, MemoryOK, Drainer, RowsFit, QueueRest
<1>2. active.run = None /\ control.stop = None
  BY Parts DEF Leave, LoopFit, Underway, StopReachesTheAgent
<1>3. UNCHANGED row \/ row' = Parked
  BY DEF Leave, ClaimNothing, rows
<1>4. \A k \in Input : row'[k].bound = row[k].bound
  <2>1. \A k \in Input : row'[k] = row[k] \/ row'[k] = Restated(row[k], "interrupted")
    BY <1>3 DEF Parked, Restated
  <2> QED BY <1>1, <2>1, SameBound
<1>5. Accepting' \/ preparation' # "ready" \/ Claimable' = {}
  <2>1. CASE Accepting
    BY <1>1, <2>1 DEF Accepting, Counted, InFlight
  <2>2. CASE UNCHANGED rows /\ ~MayClaim
    BY <1>2, <2>2, QueueAssumption DEF rows, MayClaim, Claimable, With
  <2>3. CASE Claimable = {} /\ row' = Parked /\ control' = [control EXCEPT !.permitted = None]
    <3>1. \A k \in Input : row'[k].status = "queued" => row[k].status = "queued"
      BY <1>1, <2>3, ParkedFits, Parts
    <3>2. control'.paused = control.paused /\ control'.permitted = None
      BY <1>1, <2>3 DEF ControlRow
    <3> QED BY <1>1, <1>4, <2>3, <3>1, <3>2, QueueAssumption DEF Claimable, Stale, With, BoundElsewhere
  <2> QED BY <2>1, <2>2, <2>3 DEF Leave, ClaimNothing
<1>6. Underway' /\ NoWakeUpLost'
  BY <1>1, <1>2, <1>5 DEF Underway, NoWakeUpLost
<1>7. BoundToPast'
  BY <1>1, <1>4 DEF LoopFit, BoundToPast
<1> QED BY <1>6, <1>7 DEF LoopFit

LEMMA DelayServes == ASSUME IInv, LoopFit, Delay \/ Elapse PROVE LoopFit'
<1>1. UNCHANGED <<row, active, transcript, preparation>> /\ transcript \in Nat
  BY Parts, QueueAssumption DEF Delay, Elapse, rows, QueueRest
<1>2. Onward(drainer, drainer') /\ drainer'.at # "idle"
  BY OnwardMoves, Parts DEF Delay, Elapse, At, MemoryOK, Drainer
<1> QED BY <1>1, <1>2, RestsOnly

\* Where the loop is not at rest, only the active run and the bindings matter.
LEMMA NotAtRest ==
    ASSUME LoopFit, UNCHANGED transcript, \A i \in Input : row'[i].bound = row[i].bound,
           \/ drainer'.at \in {"claiming", "delayed"} /\ active'.run = None
           \/ drainer'.at \in {"preflight", "executing"} /\ active'.run # None
    PROVE  LoopFit'
  BY DEF LoopFit, Underway, BoundToPast, NoWakeUpLost

LEMMA ClaimServes == ASSUME IInv, LoopFit, Claim PROVE LoopFit'
<1>1. PICK i \in Input, js \in SUBSET Input :
         /\ ClaimNext(i, js)
         /\ drainer' = [at |-> "preflight", aborted |-> FALSE, merged |-> js \cup {i}]
  BY DEF Claim
<1>2. drainer'.at = "preflight" /\ active'.run = runs + 1 /\ runs \in Nat
  BY <1>1, Parts DEF ClaimNext, QueueRest
<1>3. active'.run # None
  BY <1>2, QueueAssumption
<1>4. row \in [Input -> RowType] /\ UNCHANGED transcript
  BY <1>1, Parts DEF RowsFit, ClaimNext
<1>5. \A k \in Input : row'[k].bound = row[k].bound
  <2> SUFFICES ASSUME NEW k \in Input PROVE row'[k].bound = row[k].bound
    OBVIOUS
  <2>1. row'[k] \in {Restated(row[k], "running"), Steered(row[k], runs + 1),
                     Restated(row[k], "interrupted"), row[k]}
    BY <1>1 DEF ClaimNext, Parked, Restated, Steered
  <2> QED BY <1>4, <2>1, SameBound
<1> QED BY <1>2, <1>3, <1>4, <1>5, NotAtRest

LEMMA ExecuteServes == ASSUME IInv, LoopFit, Execute PROVE LoopFit'
<1>1. UNCHANGED <<row, active, transcript>> /\ drainer.at = "preflight"
  BY DEF Execute, rows
<1>2. drainer'.at = "executing"
  BY Parts DEF Execute, At, MemoryOK, Drainer
<1> QED BY <1>1, <1>2, NotAtRest DEF LoopFit, Underway

LEMMA EndServes == ASSUME IInv, LoopFit, Forgo \/ Finish PROVE LoopFit'
<1>1. PICK st : FinishRun(st)
  BY DEF Forgo, Finish
<1>2. drainer'.at = "claiming" /\ active'.run = None /\ UNCHANGED transcript
  BY <1>1, OnwardMoves, Parts DEF Forgo, Finish, FinishRun, Released, MemoryOK
<1>3. \A k \in Input : row'[k].bound = row[k].bound
  <2> SUFFICES ASSUME NEW k \in Input PROVE row'[k].bound = row[k].bound
    OBVIOUS
  <2>1. row[k] \in RowType /\ (row'[k] = row[k] \/ \E s : row'[k] = Restated(row[k], s))
    BY <1>1, Parts DEF FinishRun, Finished, Restated, RowsFit
  <2> QED BY <2>1, SameBound
<1> QED BY <1>2, <1>3, NotAtRest

\* A reset makes nothing claimable: no row is bound to the new transcript yet.
LEMMA SurroundServes == ASSUME IInv, LoopFit, Surround PROVE LoopFit'
<1>1. UNCHANGED <<row, active, control, sub>> /\ transcript \in Nat
  BY Parts, QueueAssumption
     DEF Surround, PreparationEnds, RetryPreparation, NewTranscript, memory, QueueRest
<1>2. Onward(drainer, drainer') /\ drainer \in Drainer
  BY OnwardMoves, Parts
     DEF Surround, PreparationEnds, RetryPreparation, NewTranscript, memory, MemoryOK
<1>3. Underway'
  BY <1>1, <1>2 DEF LoopFit, Underway, Onward
<1>4. CASE PreparationEnds \/ RetryPreparation
  <2>1. UNCHANGED transcript /\ (preparation' # "ready" \/ drainer'.at # "idle")
    BY <1>2, <1>4, Wakes DEF PreparationEnds, RetryPreparation
  <2>2. drainer'.at = "idle" => active'.run = None
    BY <1>3 DEF Underway
  <2> QED BY <1>1, <1>3, <2>1, <2>2 DEF LoopFit, BoundToPast, NoWakeUpLost
<1>5. CASE NewTranscript
  <2>1. transcript' = transcript + 1 /\ UNCHANGED <<drainer, preparation>>
    BY <1>5 DEF NewTranscript, memory
  <2>2. \A i \in Input : row[i].bound \in Nat \cup {None}
    BY RowShape, Parts DEF RowsFit, Column
  <2>3. BoundToPast'
    BY <1>1, <2>1, <2>2 DEF LoopFit, BoundToPast
  <2>4. \A i \in Input : BoundElsewhere(i) => BoundElsewhere(i)'
    BY <1>1, <2>1, <2>2 DEF LoopFit, BoundToPast, BoundElsewhere
  <2>5. Claimable' \subseteq Claimable
    BY <1>1, <2>4 DEF Claimable, Stale, With
  <2>6. Accepting => Accepting'
    BY <1>1 DEF Accepting, Counted, InFlight
  <2> QED BY <1>1, <1>3, <2>1, <2>3, <2>5, <2>6 DEF LoopFit, NoWakeUpLost
<1> QED BY <1>4, <1>5 DEF Surround

LEMMA RestartServes == ASSUME IInv, LoopFit, Restart PROVE LoopFit'
<1>1. drainer'.at = "claiming" /\ active'.run = None /\ UNCHANGED transcript
  BY DEF Restart, RecoverQueue, Released, AtRest
<1>2. \A k \in Input : row'[k].bound = row[k].bound
  <2> SUFFICES ASSUME NEW k \in Input PROVE row'[k].bound = row[k].bound
    OBVIOUS
  <2>1. row[k] \in RowType /\ row'[k] \in {row[k], Restated(row[k], "interrupted")}
    BY Parts DEF Restart, RecoverQueue, Restated, RowsFit
  <2> QED BY <2>1, SameBound
<1> QED BY <1>1, <1>2, NotAtRest

LEMMA LoopKept == IInv /\ LoopFit /\ [Next]_vars => LoopFit'
<1> SUFFICES ASSUME IInv, LoopFit, [Next]_vars PROVE LoopFit'
  OBVIOUS
<1>1. CASE Submit
  BY <1>1, SubmitServes, AcceptServes, DispatchServes DEF Submit
<1>2. CASE Steering
  BY <1>2, SteeringServes DEF Steering
<1>3. CASE Control
  BY <1>3, ControlServes, SendServes DEF Control
<1>4. CASE Edit
  BY <1>4, EditServes DEF Edit
<1>5. CASE Drain
  BY <1>5, LeaveServes, DelayServes, ClaimServes, ExecuteServes, EndServes DEF Drain
<1>6. CASE Surround
  BY <1>6, SurroundServes
<1>7. CASE Restart
  BY <1>7, RestartServes
<1>8. CASE UNCHANGED vars
  BY <1>8 DEF vars, rows, memory, LoopFit, Underway, BoundToPast, NoWakeUpLost, Accepting, Counted,
              InFlight, Claimable, Stale, With, BoundElsewhere
<1> QED BY <1>1, <1>2, <1>3, <1>4, <1>5, <1>6, <1>7, <1>8 DEF Next

LEMMA LoopAtFirst == Init => LoopFit
  BY QueueAssumption
     DEF Init, QueueInit, NoRow, AtRest, LoopFit, Underway, BoundToPast, NoWakeUpLost,
         Claimable, With

\* While the drain loop rests, nothing it could claim waits in the queue and
\* no run is active, unless a submission under way or the end of the
\* preparation will start it: drain() is called wherever it is needed, through
\* stops, sends, declined steering, resets and restarts.
THEOREM WakeUpsKept == Spec => []NoWakeUpLost
<1>1. LoopFit => NoWakeUpLost
  BY DEF LoopFit
<1> QED BY <1>1, LoopAtFirst, LoopKept, Invariant, PTL DEF Spec

-----------------------------------------------------------------------------
(***************************************************************************)
(* The life of a message: what may follow what in session_inputs.status.   *)
(* Two writes look at no status and may cut across: the end of the active  *)
(* run, which settles the input it was started for, and the fallback of a  *)
(* declined steering call.  They are all there is to finding that a        *)
(* removed message may return.                                             *)
(***************************************************************************)
Leads(from, to) ==
    \/ from = "absent"      /\ to \in {"queued", "injecting"}
    \/ from = "queued"      /\ to \in {"running", "injecting", "interrupted", "cancelled"}
    \/ from = "interrupted" /\ to \in {"queued", "cancelled"}
    \/ from = "running"     /\ to = "interrupted"
    \/ from = "injecting"   /\ to \in {"completed", "interrupted"}
Ended(i)    == /\ i = active.input /\ active'.run = None
               /\ row'[i].status \in {"completed", "suspended", "cancelled", "failed"}
Declined(i) == \E s \in steers : s.input = i /\ Decline(s)
Lives(i)    == \/ row'[i].status = row[i].status
               \/ Leads(row[i].status, row'[i].status)
               \/ Ended(i)
               \/ Declined(i) /\ row'[i].status \in {"queued", "interrupted"}

\* A row appears when its submission is stored; calls and the active run are
\* about rows there are.
Unstored(i) == sub[i].phase \in {"new", "waiting", "preparing"}
RowsAppear  == /\ \A i \in Input : Unstored(i) => row[i].status = "absent"
               /\ \A s \in steers : row[s.input].status # "absent"
               /\ active.input # None => row[active.input].status # "absent"
LifeGoesOn  == RowsAppear' /\ \A i \in Input : Lives(i)

LEMMA RowsLive ==
    ASSUME IInv, RowsAppear, \A i \in Input : Lives(i),
           \A i \in Input : Unstored(i)' =>
               \/ row'[i].status = "absent"
               \/ Unstored(i) /\ row'[i].status = row[i].status,
           \A s \in steers' : s.input \in Input
               /\ (row'[s.input].status # "absent" \/ \E t \in steers : t.input = s.input),
           \/ active'.input \in {active.input, None}
           \/ row'[active'.input].status # "absent"
    PROVE  LifeGoesOn
<1>1. \A i \in Input : row[i].status # "absent" => row'[i].status # "absent"
  BY DEF Lives, Leads, Ended
<1>2. active.input \in Input \cup {None}
  BY Parts DEF QueueRest, ActiveOK, ActiveRow
<1> QED BY <1>1, <1>2 DEF LifeGoesOn, RowsAppear

\* An action that leaves the rows alone
LEMMA RowsRest ==
    ASSUME IInv, RowsAppear, UNCHANGED <<row, active>>,
           \A i \in Input : Unstored(i)' => Unstored(i),
           \A s \in steers' : \E t \in steers : t.input = s.input
    PROVE  LifeGoesOn
<1>1. \A t \in steers : t.input \in Input
  BY Parts DEF MemoryOK, Call
<1> QED BY <1>1, RowsLive DEF Lives

\* An action on one row
LEMMA OneRowLives ==
    ASSUME IInv, RowsAppear, UNCHANGED active, NEW i \in Input,
           Lives(i), row'[i].status # "absent", ~Unstored(i)',
           \A k \in Input : k # i => row'[k].status = row[k].status /\ (Unstored(k)' => Unstored(k)),
           \A s \in steers' : s.input = i \/ \E t \in steers : t.input = s.input
    PROVE  LifeGoesOn
<1>1. \A t \in steers : t.input \in Input
  BY Parts DEF MemoryOK, Call
<1>2. \A k \in Input : Lives(k)
  BY DEF Lives
<1> QED BY <1>1, <1>2, RowsLive

\* Where the requests are after a step on one of them
LEMMA RequestMoves ==
    ASSUME sub \in [Input -> Request], NEW i \in Input
    PROVE  /\ \A phase : To(i, phase) => sub'[i].phase = phase
           /\ Returns(i) => sub'[i].phase = "over"
           /\ Returns(i) \/ (\E phase : To(i, phase)) =>
                \A k \in Input : k # i => sub'[k] = sub[k]
  BY DEF Returns, To, Request

LEMMA CallsLeft ==
    ASSUME NEW i \in Input, NEW by, Calls(by, i)
    PROVE  \A s \in steers' : s.input = i \/ \E t \in steers : t.input = s.input
<1> DEFINE c == [by |-> by, input |-> i, run |-> active.run, handed |-> FALSE]
<1>1. steers' = steers \cup {c} /\ c.input = i
  BY DEF Calls
<1> HIDE DEF c
<1> QED BY <1>1

LEMMA SubmitLives ==
    ASSUME IInv, RowsAppear, NEW i \in Input,
           Receive(i) \/ Prepare(i) \/ Refuse(i) \/ ReplaceAborts(i)
    PROVE  LifeGoesOn
<1>1. UNCHANGED <<row, active, steers>> /\ sub \in [Input -> Request]
  BY Parts DEF Receive, Prepare, Refuse, ReplaceAborts, rows, MemoryOK
<1>2. \A k \in Input : Unstored(k)' => Unstored(k)
  <2>1. CASE Receive(i)
    BY <1>1, <2>1 DEF Receive, Unstored
  <2>2. CASE Prepare(i) \/ Refuse(i)
    BY <1>1, <2>2, RequestMoves DEF Prepare, Refuse, Unstored
  <2>3. CASE ReplaceAborts(i)
    BY <2>3 DEF ReplaceAborts, Unstored
  <2> QED BY <2>1, <2>2, <2>3
<1> QED BY <1>1, <1>2, RowsRest

LEMMA AcceptLives ==
    ASSUME IInv, RowsAppear, NEW i \in Input, AcceptDirect(i) \/ AcceptCommand(i) \/ AcceptReplace(i)
    PROVE  LifeGoesOn
<1>1. UNCHANGED active /\ sub \in [Input -> Request] /\ sub[i].phase = "preparing"
  BY Parts DEF AcceptDirect, AcceptCommand, AcceptReplace, MemoryOK
<1>2. PICK st \in {"queued", "injecting"} :
         /\ \E target, prio, bound : NewInput(i, st, target, prio, bound)
         /\ UNCHANGED steers \/ Calls(i, i)
  BY DEF AcceptDirect, AcceptCommand, AcceptReplace
<1>3. row'[i].status = st /\ \A k \in Input : k # i => row'[k].status = row[k].status
  BY <1>2, NewRow, Parts DEF RowsFit
<1>4. Lives(i)
  BY <1>1, <1>3 DEF RowsAppear, Unstored, Lives, Leads
<1>5. Returns(i) \/ To(i, "steering") \/ To(i, "accepted")
  BY DEF AcceptDirect, AcceptCommand, AcceptReplace
<1>6. ~Unstored(i)' /\ \A k \in Input : k # i => sub'[k] = sub[k]
  BY <1>1, <1>5, RequestMoves DEF Unstored
<1>7. \A s \in steers' : s.input = i \/ \E t \in steers : t.input = s.input
  BY <1>2, CallsLeft
<1> QED BY <1>1, <1>3, <1>4, <1>6, <1>7, OneRowLives DEF Unstored

\* A queued message is injected.
LEMMA InjectLives ==
    ASSUME IInv, RowsAppear, NEW i \in Input, NEW by, row[i].status = "queued",
           Inject(i, active.run), Calls(by, i), UNCHANGED active,
           \A k \in Input : Unstored(k)' => Unstored(k)
    PROVE  LifeGoesOn
<1>1. row'[i].status = "injecting" /\ \A k \in Input : k # i => row'[k] = row[k]
  BY Parts DEF Inject, RowsFit, RowType
<1>2. Lives(i) /\ ~Unstored(i)
  BY <1>1 DEF Lives, Leads, RowsAppear
<1> QED BY <1>1, <1>2, CallsLeft, OneRowLives

LEMMA DispatchLives == ASSUME IInv, RowsAppear, NEW i \in Input, Dispatch(i) PROVE LifeGoesOn
<1>1. UNCHANGED active /\ sub \in [Input -> Request]
  BY Parts DEF Dispatch, MemoryOK
<1>2. Returns(i) \/ To(i, "steering")
  BY DEF Dispatch
<1>3. \A k \in Input : Unstored(k)' => Unstored(k)
  BY <1>1, <1>2, RequestMoves DEF Unstored
<1>4. \/ UNCHANGED <<row, steers>>
      \/ row[i].status = "queued" /\ Inject(i, active.run) /\ Calls(i, i)
  BY DEF Dispatch
<1> QED BY <1>1, <1>3, <1>4, RowsRest, InjectLives

LEMMA SteeringLives ==
    ASSUME IInv, RowsAppear, NEW s \in steers, Hand(s) \/ Confirm(s) \/ Decline(s) \/ Throw(s)
    PROVE  LifeGoesOn
<1>1. /\ UNCHANGED active /\ s.input \in Input /\ sub \in [Input -> Request]
      /\ [s EXCEPT !.handed = TRUE].input = s.input
  BY Parts DEF Hand, Confirm, Decline, Throw, rows, MemoryOK, Call
<1>2. \A t \in steers' : \E u \in steers : u.input = t.input
  BY <1>1 DEF Hand, Confirm, Decline, Throw, Answered
<1>3. \A k \in Input : Unstored(k)' => Unstored(k)
  <2>1. UNCHANGED sub \/ (s.by \in Input /\ Returns(s.by))
    BY DEF Hand, Confirm, Decline, Throw, Answered
  <2> QED BY <1>1, <2>1, RequestMoves DEF Unstored
<1>4. CASE Hand(s) \/ Confirm(s) \/ Throw(s)
  BY <1>1, <1>2, <1>3, <1>4, RowsRest DEF Hand, Confirm, Throw, Unconfirmed, rows
<1>5. CASE Decline(s)
  <2>1. row'[s.input].status \in {"queued", "interrupted"}
        /\ \A k \in Input : k # s.input => row'[k] = row[k]
    BY <1>1, <1>5, Parts DEF Decline, SetStatus, RowsFit, RowType
  <2>2. Lives(s.input) /\ ~Unstored(s.input)
    BY <1>1, <1>5, <2>1 DEF Lives, Declined, RowsAppear
  <2> QED BY <1>1, <1>2, <1>3, <2>1, <2>2, OneRowLives
<1> QED BY <1>4, <1>5

LEMMA ControlLives ==
    ASSUME IInv, RowsAppear, NEW o \in Op, Stop(o) \/ ReplayStop(o) \/ Pause(o) \/ Resume(o)
    PROVE  LifeGoesOn
<1>1. UNCHANGED <<row, active, sub, steers>>
  BY DEF Stop, ReplayStop, Pause, Resume, rows, memory
<1> QED BY <1>1, RowsRest DEF Unstored

LEMMA SendLives ==
    ASSUME IInv, RowsAppear, NEW o \in Op, NEW i \in Input, Send(o, i) \/ Steer(o, i)
    PROVE  LifeGoesOn
<1>1. UNCHANGED <<active, sub>>
  BY DEF Send, Steer
<1>2. CASE Send(o, i)
  <2>1. /\ UNCHANGED steers /\ row[i].status \in {"queued", "interrupted"}
        /\ row'[i].status = "queued" /\ \A k \in Input : k # i => row'[k] = row[k]
    BY <1>2, Parts DEF Send, SendInput, SetStatus, RowsFit, RowType
  <2>2. Lives(i) /\ ~Unstored(i)
    BY <2>1 DEF Lives, Leads, RowsAppear
  <2> QED BY <1>1, <2>1, <2>2, OneRowLives DEF Unstored
<1>3. CASE Steer(o, i)
  BY <1>1, <1>3, InjectLives DEF Steer, SteerInput, Unstored
<1> QED BY <1>2, <1>3

LEMMA EditLives == ASSUME IInv, RowsAppear, NEW i \in Input, Remove(i) \/ Move(i) PROVE LifeGoesOn
<1>1. UNCHANGED <<active, sub, steers>>
  BY DEF Remove, Move, CancelInput, MoveInput, memory
<1>2. CASE Remove(i)
  <2>1. /\ row[i].status \in {"queued", "interrupted"} /\ row'[i].status = "cancelled"
        /\ \A k \in Input : k # i => row'[k] = row[k]
    BY <1>2, Parts DEF Remove, CancelInput, RowsFit, RowType
  <2>2. Lives(i) /\ ~Unstored(i)
    BY <2>1 DEF Lives, Leads, RowsAppear
  <2> QED BY <1>1, <2>1, <2>2, OneRowLives DEF Unstored
<1>3. CASE Move(i)
  <2>1. PICK n \in 0..Cardinality(Input) : MoveInput(i, n)
    BY <1>3 DEF Move
  <2>2. n \in Nat
    BY FS_CardinalityType, QueueAssumption
  <2>3. \A k \in Input : row'[k].status = row[k].status
    BY <2>1, <2>2, MoveFits, Parts
  <2>4. \A t \in steers : t.input \in Input
    BY Parts DEF MemoryOK, Call
  <2> QED BY <1>1, <2>3, <2>4, RowsLive DEF Lives, Unstored
<1> QED BY <1>2, <1>3

\* What the loop does to rows: it parks stale ones, claims, and settles.
LEMMA LoopLives ==
    ASSUME IInv, RowsAppear, Leave \/ Delay \/ Elapse \/ Claim \/ Execute \/ Forgo \/ Finish
    PROVE  LifeGoesOn
<1>1. UNCHANGED <<sub, steers>> /\ \A t \in steers : t.input \in Input
  BY Parts DEF Leave, Delay, Elapse, Claim, Execute, Forgo, Finish, MemoryOK, Call
<1>2. \A k \in Input : Unstored(k)' => Unstored(k) /\ row[k].status = "absent"
  BY <1>1 DEF RowsAppear, Unstored
<1>3. ASSUME NEW k \in Input
      PROVE  /\ row[k] \in RowType /\ Parked[k] \in {row[k], Restated(row[k], "interrupted")}
             /\ Parked[k] # row[k] => row[k].status = "queued"
             /\ \A st \in Status : Restated(row[k], st).status = st
  <2>1. row[k] \in RowType
    BY Parts DEF RowsFit
  <2> QED BY <2>1, RestatedRow DEF Parked, Restated, Stale, With
<1>4. {"running", "completed", "suspended", "cancelled", "failed", "interrupted"} \subseteq Status
  BY DEF Status
<1>5. CASE UNCHANGED <<row, active>>
  BY <1>1, <1>5, RowsRest DEF Unstored
<1>6. CASE row' = Parked /\ UNCHANGED active
  <2>1. \A k \in Input : \/ row'[k] = row[k]
                         \/ row[k].status = "queued" /\ row'[k].status = "interrupted"
    BY <1>3, <1>4, <1>6
  <2>2. \A k \in Input : Lives(k)
    BY <2>1 DEF Lives, Leads
  <2> QED BY <1>1, <1>2, <1>6, <2>1, <2>2, RowsLive
<1>7. CASE Claim
  <2>1. PICK i \in Input, js \in SUBSET Input : ClaimNext(i, js)
    BY <1>7 DEF Claim
  <2>2. row[i].status = "queued" /\ \A j \in js : row[j].status = "queued"
    BY <2>1 DEF ClaimNext, NextInput, Claimable, Burst, With
  <2>3. ASSUME NEW k \in Input
        PROVE  \/ row'[k] = row[k]
               \/ row[k].status = "queued"
                  /\ row'[k].status \in {"running", "injecting", "interrupted"}
    <3>1. row'[k] \in {Restated(row[k], "running"), Steered(row[k], runs + 1), Parked[k]}
          /\ (row'[k] = Parked[k] \/ k \in js \cup {i})
      BY <2>1 DEF ClaimNext, Restated, Steered
    <3>2. Steered(row[k], runs + 1).status = "injecting"
      BY <1>3 DEF Steered, RowType
    <3> QED BY <1>3, <1>4, <2>2, <3>1, <3>2
  <2>4. \A k \in Input : Lives(k)
    BY <2>3 DEF Lives, Leads
  <2>5. active'.input = i /\ row'[i].status # "absent"
    BY <2>1, <2>2, <2>3 DEF ClaimNext
  <2> QED BY <1>1, <1>2, <2>3, <2>4, <2>5, RowsLive
<1>8. CASE Forgo \/ Finish
  <2>1. PICK st \in {"completed", "suspended", "cancelled", "failed"} : FinishRun(st)
    BY <1>8 DEF Forgo, Finish
  <2>2. active'.run = None /\ active'.input = None
    BY <2>1 DEF FinishRun, Released
  <2>3. ASSUME NEW k \in Input
        PROVE  \/ row'[k] = row[k]
               \/ k = active.input /\ row'[k].status = st
               \/ row[k].status = "injecting" /\ row'[k].status \in {"completed", "interrupted"}
    BY <1>3, <1>4, <2>1 DEF FinishRun, Finished, Restated
  <2>4. \A k \in Input : Lives(k)
    BY <2>2, <2>3 DEF Lives, Leads, Ended
  <2>5. \A k \in Input : row[k].status = "absent" => row'[k] = row[k]
    <3>1. \A k \in Input : row[k].status = "absent" => k # active.input
      BY QueueAssumption DEF RowsAppear
    <3> QED BY <2>3, <3>1
  <2> QED BY <1>1, <1>2, <2>2, <2>4, <2>5, RowsLive
<1> QED BY <1>5, <1>6, <1>7, <1>8 DEF Leave, ClaimNothing, Delay, Elapse, Execute, rows

LEMMA SurroundLives == ASSUME IInv, RowsAppear, Surround PROVE LifeGoesOn
<1>1. UNCHANGED <<row, active, sub, steers>>
  BY DEF Surround, PreparationEnds, RetryPreparation, NewTranscript, memory
<1> QED BY <1>1, RowsRest DEF Unstored

LEMMA RestartLives == ASSUME IInv, RowsAppear, Restart PROVE LifeGoesOn
<1>1. /\ steers' = {} /\ active'.input = None
      /\ sub' = [i \in Input |->
           [phase |-> IF row[i].status = "absent" THEN "new" ELSE "over", kind |-> NoKind]]
  BY DEF Restart, RecoverQueue, Released
<1>2. \A k \in Input : \/ row'[k] = row[k]
                       \/ row[k].status \in {"running", "injecting"} /\ row'[k].status = "interrupted"
  <2>1. \A k \in Input : row'[k] = IF row[k].status \in CutOff
                                   THEN Restated(row[k], "interrupted") ELSE row[k]
    BY DEF Restart, RecoverQueue, Restated
  <2>2. \A k \in Input : Restated(row[k], "interrupted").status = "interrupted"
    BY RestatedRow, Parts DEF RowsFit, Status
  <2> QED BY <2>1, <2>2 DEF CutOff
<1>3. \A k \in Input : Unstored(k)' => row[k].status = "absent"
  BY <1>1 DEF Unstored
<1>4. \A k \in Input : Lives(k)
  BY <1>2 DEF Lives, Leads
<1> QED BY <1>1, <1>2, <1>3, <1>4, RowsLive

LEMMA EveryoneLives == IInv /\ RowsAppear /\ [Next]_vars => LifeGoesOn
<1> SUFFICES ASSUME IInv, RowsAppear, [Next]_vars PROVE LifeGoesOn
  OBVIOUS
<1>1. CASE Submit
  BY <1>1, SubmitLives, AcceptLives, DispatchLives DEF Submit
<1>2. CASE Steering
  BY <1>2, SteeringLives DEF Steering
<1>3. CASE Control
  BY <1>3, ControlLives, SendLives DEF Control
<1>4. CASE Edit
  BY <1>4, EditLives DEF Edit
<1>5. CASE Drain
  BY <1>5, LoopLives DEF Drain
<1>6. CASE Surround
  BY <1>6, SurroundLives
<1>7. CASE Restart
  BY <1>7, RestartLives
<1>8. CASE UNCHANGED vars
  <2>1. UNCHANGED <<row, active, sub, steers>>
    BY <1>8 DEF vars, rows, memory
  <2> QED BY <2>1, RowsRest DEF Unstored
<1> QED BY <1>1, <1>2, <1>3, <1>4, <1>5, <1>6, <1>7, <1>8 DEF Next

\* A message follows its life: stored once, claimed or injected only from the
\* queue, settled at most once, and cut back to interrupted by a crash.  Only
\* the end of the run started for it, and the fallback of a steering call that
\* was declined, write its status whatever it is.
THEOREM MessagesLive ==
    Spec => [][\A i \in Input :
                 \/ row'[i].status = row[i].status
                 \/ Leads(row[i].status, row'[i].status)
                 \/ Ended(i)
                 \/ Declined(i)]_vars
<1>1. Init => RowsAppear
  BY DEF Init, QueueInit, NoRow, RowsAppear
<1>2. IInv /\ RowsAppear /\ [Next]_vars => RowsAppear'
  BY EveryoneLives DEF LifeGoesOn
<1>3. IInv /\ RowsAppear /\ [Next]_vars =>
        [\A i \in Input : \/ row'[i].status = row[i].status
                          \/ Leads(row[i].status, row'[i].status)
                          \/ Ended(i)
                          \/ Declined(i)]_vars
  BY EveryoneLives DEF LifeGoesOn, Lives
<1> QED BY <1>1, <1>2, <1>3, Invariant, PTL DEF Spec

\* What a user removed returns to the queue, or is taken in again, only through
\* a steering call still out for it when it was removed; any other change is
\* the end of the run that had been started for it.
THEOREM RemovedReturnsByDecline ==
    Spec => [][\A i \in Input : row[i].status = "cancelled" =>
                 \/ row'[i].status = "cancelled" \/ Ended(i) \/ Declined(i)]_vars
<1>1. (\A i \in Input : \/ row'[i].status = row[i].status
                        \/ Leads(row[i].status, row'[i].status)
                        \/ Ended(i)
                        \/ Declined(i))
      => \A i \in Input : row[i].status = "cancelled" =>
           \/ row'[i].status = "cancelled" \/ Ended(i) \/ Declined(i)
  BY DEF Leads
<1> QED BY <1>1, MessagesLive, PTL

=============================================================================
