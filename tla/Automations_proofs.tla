------------------------- MODULE Automations_proofs --------------------------
(***************************************************************************)
(* Proofs about Automations, for any finite number of automations and any  *)
(* number of business events, requests, ticks and restarts: types, one     *)
(* unfinished run per automation, one run per occurrence, that what ends   *)
(* is announced and settles its deliveries, and, in the last part, that    *)
(* the timer is armed for everything that waits for it.                    *)
(*                                                                         *)
(* The invariant ties the tables to "todo", what is left of the callback   *)
(* that is executing: which steps may be left in which phase, what a step  *)
(* still to come finds, and what a crash between two steps leaves behind.  *)
(***************************************************************************)
EXTENDS Automations, SequenceTheorems, FiniteSetTheorems, WellFoundedInduction, TLAPS

Kinds   == {"interval", "once", "event"}
AutoRow == [live : BOOLEAN, gen : Nat, enabled : BOOLEAN,
            kind : {"interval", "once", "event"}, at : Nat,
            next : Nat, running : Nat, failures : Nat]
RunRow  == [status : Unfinished \cup Ended, of : Automation, gen : Nat,
            manual : BOOLEAN, event : Events]
Row(n)  == [status : Waiting \cup {"queued", "completed", "cancelled", "failed",
                                   "skipped", "dead_letter"},
            attempts : Nat, run : 0..n]
StepType(n) == ({"arm", "recompute", "open"} \X {0})
               \cup ({"dispatch", "completed", "recover", "free", "announce"} \X (1..n))
               \cup ({"due"} \X Automation)
RestFits == /\ published \subseteq Fact
            /\ announced \subseteq Runs /\ cut \subseteq Runs
           /\ aborted \subseteq executing /\ executing \subseteq Runs
           /\ phase \in {"down", "starting", "up", "stopping"}
           /\ {timer, clock, starts, faults} \subseteq Nat

Steps     == 1..Len(todo)
InTodo(e) == \E i \in Steps : todo[i] = e

\* Every table, with what it may refer to
TypesFit ==
    /\ auto \in [Automation -> AutoRow]
    /\ \A a \in Automation : auto[a].running \in 0..Len(run)
    /\ run \in Seq(RunRow)
    /\ DOMAIN delivery \subseteq Events \X Automation
    /\ \A k \in DOMAIN delivery : delivery[k] \in Row(Len(run))
    /\ todo \in Seq(StepType(Len(run)))
    /\ RestFits

\* Which steps a callback may still have, by the phase and in which order
ByPhase(e) ==
    /\ e[1] \in {"recover", "free", "announce", "recompute", "open"} => phase = "starting"
    /\ e[1] \in {"due", "completed"} => phase # "starting"
Follows(e, d) ==
    /\ e[1] # "open" /\ d[1] # "dispatch"
    /\ e[1] = "recompute" => d[1] \in {"arm", "open"}
    /\ e[1] = "due" => d # e
    /\ e[1] \in {"recover", "dispatch"} /\ d[1] = "recover" => d[2] # e[2]
StepsFit == /\ phase = "down" => todo = <<>> /\ executing = {}
            /\ \A i \in Steps : ByPhase(todo[i])
            /\ \A i, j \in Steps : i < j => Follows(todo[i], todo[j])

\* What a step will find when its turn comes
Expects(e) ==
    /\ e[1] = "recover" => run[e[2]].status \in Unfinished /\ e[2] \notin executing
    /\ e[1] = "free" => run[e[2]].status \in Ended
    /\ e[1] = "due" => auto[e[2]].running = 0
    /\ e[1] = "dispatch" /\ phase = "starting" =>
          /\ run[e[2]].status = "queued" /\ auto[run[e[2]].of].live
          /\ auto[run[e[2]].of].running = e[2]
RecoveryFits ==
    InTodo(<<"recompute", 0>>) =>
       \A r \in Runs : run[r].status \in Unfinished =>
          r \in executing \/ InTodo(<<"recover", r>>) \/ InTodo(<<"dispatch", r>>)
TodoFits == StepsFit /\ (\A i \in Steps : Expects(todo[i])) /\ RecoveryFits

ExecutionsFit ==
    \A r \in executing : /\ run[r].status \in {"running", "cancelling"}
                         /\ run[r].status = "cancelling" => r \in aborted
GenerationsFit == \A r \in Runs : run[r].gen <= auto[run[r].of].gen

\* The row of a delivery, and of the run that took it
RowFits(k) ==
    /\ k[1][1] = "fact" => k[1][2] \in published
    /\ k[1][1] # "fact" => delivery[k].status \in {"queued", "completed", "cancelled", "failed"}
    /\ k[1][1] # "fact" \/ delivery[k].status = "queued" => delivery[k].run # 0
    /\ delivery[k].status \in Waiting \cup {"dead_letter"} =>
          \A r \in Runs : <<run[r].event, run[r].of>> # k
EventsFit == /\ \A k \in DOMAIN delivery : RowFits(k)
             /\ \A r \in Runs : /\ <<run[r].event, run[r].of>> \in DOMAIN delivery
                                /\ run[r].event[1] = "ask" => run[r].event[2] = r
             /\ OccurrenceOnce
DeliveriesFit ==
    phase = "up" => \A k \in DOMAIN delivery : delivery[k].status = "queued" =>
        run[delivery[k].run].status \in Unfinished \/ InTodo(<<"completed", delivery[k].run>>)

AutomationsInv == /\ TypesFit /\ TodoFits /\ ExecutionsFit /\ GenerationsFit /\ OneRunPerAutomation
                  /\ EventsFit /\ DeliveriesFit /\ FinishedIsAnnounced

-----------------------------------------------------------------------------
(* How a step changes the tables.                                          *)

\* A run keeps what it is, an ended one its status, a cancellation its end.
RunStep(r) ==
    /\ run'[r].of = run[r].of /\ run'[r].gen = run[r].gen
    /\ run'[r].event = run[r].event
    /\ run[r].status \in Ended => run'[r].status = run[r].status
    /\ run[r].status = "cancelling" => run'[r].status \in {"cancelling", "cancelled", "timeout"}
\* A run that is new was queued for an automation that had none.
NewRun(r) ==
    LET a == run'[r].of
    IN  /\ run'[r].status = "queued" /\ a \in Automation
        /\ run'[r].gen = auto[a].gen /\ auto[a].running = 0
        /\ auto' = [auto EXCEPT ![a].running = r]
RunsStep ==
    /\ Len(run') \in {Len(run), Len(run) + 1}
    /\ \A r \in Runs : RunStep(r)
    /\ Len(run') = Len(run) + 1 => NewRun(Len(run) + 1)

Keeps(a) == auto'[a].live = auto[a].live /\ auto'[a].gen = auto[a].gen
AutoStep(a) ==
    \/ Keeps(a) /\ auto'[a].running = auto[a].running
    \/ Keeps(a) /\ auto[a].running = 0 /\ run'[auto'[a].running].of = a
         /\ auto'[a].running = Len(run) + 1 /\ Len(run') = Len(run) + 1
    \/ Keeps(a) /\ auto'[a].running = 0 /\ auto[a].running # 0
         /\ run'[auto[a].running].status \in Ended
    \/ ~auto'[a].live /\ auto'[a].gen = auto[a].gen
    \/ ~auto[a].live /\ auto'[a].gen = auto[a].gen + 1

\* What ended, or was to be announced, is announced or remembered.
AnnounceStep ==
    /\ announced \subseteq announced' /\ cut \subseteq cut'
    /\ \A r \in Runs :
         \/ InTodo(<<"announce", r>>)
         \/ run[r].status \in Unfinished /\ run'[r].status \in Ended /\ auto[run[r].of].live
         => r \in announced' \cup cut' \/ InTodo(<<"announce", r>>)'

Moves == /\ RunsStep /\ (\A a \in Automation : AutoStep(a)) /\ AnnounceStep
Stays == /\ TypesFit' /\ TodoFits' /\ ExecutionsFit' /\ EventsFit' /\ DeliveriesFit'

-----------------------------------------------------------------------------
(* What follows from the way the tables change.                            *)

LEMMA RunTyped ==
    ASSUME NEW runs \in Seq(RunRow), NEW r \in 1..Len(runs)
    PROVE  /\ runs[r] \in RunRow /\ runs[r].of \in Automation /\ runs[r].gen \in Nat
           /\ runs[r].status \in Unfinished \cup Ended /\ runs[r].event \in Events
           /\ r \in Nat /\ r # 0 /\ Len(runs) \in Nat
<1>1. Len(runs) \in Nat
  BY LenProperties
<1>2. runs[r] \in RunRow
  BY ElementOfSeq
<1> QED BY <1>1, <1>2 DEF RunRow

LEMMA AutoTyped ==
    ASSUME TypesFit, NEW a \in Automation
    PROVE  /\ auto[a] \in AutoRow /\ auto[a].gen \in Nat
           /\ auto[a].running \in 0..Len(run)
  BY DEF TypesFit, AutoRow

LEMMA OneRunKept ==
    ASSUME AutomationsInv, Moves, TypesFit'
    PROVE  OneRunPerAutomation' /\ GenerationsFit'
<1> SUFFICES ASSUME NEW r \in Runs'
             PROVE  /\ run'[r].gen <= auto'[run'[r].of].gen
                    /\ run'[r].status \in Unfinished /\ auto'[run'[r].of].live
                          /\ auto'[run'[r].of].gen = run'[r].gen
                       => auto'[run'[r].of].running = r
  BY DEF OneRunPerAutomation, GenerationsFit
<1>1. /\ r \in Nat /\ Len(run) \in Nat /\ run'[r].of \in Automation /\ run'[r].gen \in Nat
      /\ \A a \in Automation : auto[a].gen \in Nat /\ auto'[a].gen \in Nat
  <2>1. run'[r].of \in Automation /\ run'[r].gen \in Nat /\ r \in Nat
    BY RunTyped DEF TypesFit, Runs
  <2>2. Len(run) \in Nat
    BY LenProperties DEF AutomationsInv, TypesFit
  <2> QED BY <2>1, <2>2 DEF AutomationsInv, TypesFit, AutoRow
<1>2. CASE r \in Runs
  <2> DEFINE a == run[r].of
  <2>1. /\ run'[r].of = a /\ run'[r].gen = run[r].gen /\ a \in Automation
        /\ r # 0 /\ run[r].gen \in Nat
        /\ run'[r].status \in Unfinished => run[r].status \in Unfinished
    BY <1>2, RunTyped DEF Moves, RunsStep, RunStep, AutomationsInv, TypesFit, Runs, Unfinished, Ended
  <2>2. /\ run[r].gen <= auto[a].gen
        /\ run[r].status \in Unfinished /\ auto[a].live /\ auto[a].gen = run[r].gen
              => auto[a].running = r
    BY <1>2 DEF AutomationsInv, GenerationsFit, OneRunPerAutomation
  <2>3. AutoStep(a)
    BY <2>1 DEF Moves
  <2> QED BY <1>1, <1>2, <2>1, <2>2, <2>3 DEF AutoStep, Keeps, Unfinished, Ended
<1>3. CASE r \notin Runs
  <2>1. r = Len(run) + 1 /\ NewRun(r)
    BY <1>1, <1>3 DEF Moves, RunsStep, Runs
  <2>2. /\ auto'[run'[r].of].gen = auto[run'[r].of].gen
        /\ auto'[run'[r].of].running = r
    BY <1>1, <2>1, AutoTyped DEF NewRun, AutomationsInv, TypesFit, AutoRow
  <2> QED BY <1>1, <2>1, <2>2 DEF NewRun
<1> QED BY <1>2, <1>3

LEMMA AnnouncedKept ==
    ASSUME AutomationsInv, Moves, TypesFit'
    PROVE  FinishedIsAnnounced'
<1> SUFFICES ASSUME NEW r \in Runs', run'[r].status \in Ended, auto'[run'[r].of].live,
                    auto'[run'[r].of].gen = run'[r].gen
             PROVE  r \in announced' \cup cut' \/ InTodo(<<"announce", r>>)'
  BY DEF FinishedIsAnnounced, InTodo, Steps
<1>1. r \in Runs
  BY RunTyped, LenProperties DEF Moves, RunsStep, Runs, NewRun, Ended, AutomationsInv, TypesFit
<1> DEFINE a == run[r].of
<1>2. /\ run'[r].of = a /\ run'[r].gen = run[r].gen /\ a \in Automation /\ run[r].gen \in Nat
      /\ run[r].status \in Unfinished \cup Ended /\ auto[a].gen \in Nat
  BY <1>1, RunTyped, AutoTyped DEF Moves, RunsStep, RunStep, AutomationsInv, TypesFit, Runs
<1>3. auto[a].live /\ auto[a].gen = run[r].gen
  <2>1. AutoStep(a) /\ run[r].gen <= auto[a].gen
    BY <1>1, <1>2 DEF Moves, AutomationsInv, GenerationsFit
  <2> QED BY <1>2, <2>1 DEF AutoStep, Keeps
<1>4. CASE run[r].status \in Unfinished
  BY <1>1, <1>3, <1>4 DEF Moves, AnnounceStep
<1>5. CASE run[r].status \in Ended
  <2>1. r \in announced \cup cut \/ InTodo(<<"announce", r>>)
    BY <1>1, <1>3, <1>5 DEF AutomationsInv, FinishedIsAnnounced, InTodo, Steps
  <2> QED BY <1>1, <2>1 DEF Moves, AnnounceStep
<1> QED BY <1>2, <1>4, <1>5

LEMMA FreedKept ==
    ASSUME AutomationsInv, Moves
    PROVE  \A a \in Automation :
              /\ auto[a].live /\ auto'[a].live /\ auto'[a].gen = auto[a].gen
              /\ auto[a].running # 0 /\ auto'[a].running # auto[a].running
              => run'[auto[a].running].status \in Ended
<1> SUFFICES ASSUME NEW a \in Automation, auto[a].live, auto'[a].live, auto[a].running # 0,
                    auto'[a].running # auto[a].running
             PROVE  run'[auto[a].running].status \in Ended
  OBVIOUS
<1>1. AutoStep(a)
  BY DEF Moves
<1> QED BY <1>1 DEF AutoStep

-----------------------------------------------------------------------------
(* Sequences of steps.                                                     *)

LEMMA Popped ==
    ASSUME NEW S, NEW s \in Seq(S), s # <<>>
    PROVE  /\ Tail(s) \in Seq(S) /\ Len(s) \in Nat \ {0} /\ Len(Tail(s)) = Len(s) - 1
           /\ s[1] \in S
           /\ \A i \in 1..Len(Tail(s)) : i + 1 \in 1..Len(s) /\ Tail(s)[i] = s[i + 1]
           /\ \A j \in 1..Len(s) : j # 1 => /\ j - 1 \in 1..Len(Tail(s))
                                            /\ Tail(s)[j - 1] = s[j]
<1>1. Len(s) \in Nat \ {0}
  BY EmptySeq
<1>2. /\ Tail(s) \in Seq(S) /\ Len(Tail(s)) = Len(s) - 1
      /\ \A i \in 1..Len(Tail(s)) : Tail(s)[i] = s[i + 1]
  BY HeadTailProperties
<1>3. s[1] \in S
  BY <1>1, ElementOfSeq
<1>4. \A i \in 1..Len(Tail(s)) : i + 1 \in 1..Len(s)
  BY <1>1, <1>2
<1>5. \A j \in 1..Len(s) : j # 1 => j - 1 \in 1..Len(Tail(s)) /\ (j - 1) + 1 = j
  BY <1>1, <1>2
<1> QED BY <1>1, <1>2, <1>3, <1>4, <1>5

LEMMA HeadReplaced ==
    ASSUME NEW S, NEW s \in Seq(S), s # <<>>, NEW e \in S
    PROVE  /\ <<e>> \o Tail(s) \in Seq(S) /\ Len(<<e>> \o Tail(s)) = Len(s)
           /\ (<<e>> \o Tail(s))[1] = e /\ Len(s) \in Nat \ {0}
           /\ \A i \in 1..Len(s) : i # 1 => (<<e>> \o Tail(s))[i] = s[i]
<1> DEFINE t == <<e>> \o Tail(s)
<1>1. /\ Tail(s) \in Seq(S) /\ Len(Tail(s)) = Len(s) - 1 /\ Len(s) \in Nat \ {0}
      /\ \A j \in 1..Len(s) : j # 1 => Tail(s)[j - 1] = s[j]
  BY Popped
<1>2. <<e>> \in Seq(S) /\ Len(<<e>>) = 1 /\ <<e>>[1] = e
  OBVIOUS
<1>3. /\ t \in Seq(S) /\ Len(t) = 1 + (Len(s) - 1)
      /\ \A i \in 1..(1 + (Len(s) - 1)) :
            t[i] = IF i <= 1 THEN <<e>>[i] ELSE Tail(s)[i - 1]
  BY <1>1, <1>2, ConcatProperties
<1>4. 1 + (Len(s) - 1) = Len(s) /\ 1 \in 1..Len(s)
  BY <1>1
<1>5. \A i \in 1..Len(s) : i # 1 => ~(i <= 1)
  BY <1>1
<1> HIDE DEF t
<1>6. t[1] = e
  BY <1>2, <1>3, <1>4
<1>7. \A i \in 1..Len(s) : i # 1 => t[i] = s[i]
  BY <1>1, <1>3, <1>4, <1>5
<1> QED BY <1>1, <1>3, <1>4, <1>6, <1>7 DEF t

LEMMA StepsMonotone ==
    ASSUME NEW m \in Nat, NEW n \in Nat, m <= n
    PROVE  /\ Seq(StepType(m)) \subseteq Seq(StepType(n))
           /\ Row(m) \subseteq Row(n)
<1>1. 1..m \subseteq 1..n /\ 0..m \subseteq 0..n
  OBVIOUS
<1>2. StepType(m) \subseteq StepType(n)
  BY <1>1 DEF StepType
<1>3. Seq(StepType(m)) \subseteq Seq(StepType(n))
  BY <1>2, SeqMonotonic
<1>4. Row(m) \subseteq Row(n)
  BY <1>1 DEF Row
<1> QED BY <1>3, <1>4

\* The smallest of some times, for armTimer
LEMMA Earliest ==
    ASSUME NEW T, T \subseteq Nat, T # {}
    PROVE  \E m \in T : \A n \in T : m <= n
<1>1. PICK t \in T : TRUE
  OBVIOUS
<1> DEFINE U == {n \in T : n <= t}
           B == {0..n : n \in U}
<1>2. IsFiniteSet(0..t)
  BY FS_Interval
<1>3. IsWellFoundedOn(StrictSubsetOrdering(0..t), FiniteSubsetsOf(0..t))
  BY FS_StrictSubsetOrderingWellFounded
<1>4. B # {} /\ B \subseteq SUBSET (0..t)
  OBVIOUS
<1>5. B \subseteq FiniteSubsetsOf(0..t)
  BY <1>2, <1>4, FS_Subset DEF FiniteSubsetsOf
<1>6. PICK b \in B : \A c \in B : <<c, b>> \notin StrictSubsetOrdering(0..t)
  BY <1>3, <1>4, <1>5, WFMin
<1>7. PICK m \in U : b = 0..m
  OBVIOUS
<1>8. \A n \in U : m <= n
  <2> SUFFICES ASSUME NEW n \in U, n < m PROVE FALSE
    BY SMT
  <2>1. m \in 0..m /\ m \notin 0..n /\ 0..n \subseteq 0..m
    BY SMT
  <2>2. <<0..n, b>> \in StrictSubsetOrdering(0..t)
    BY <2>1, <1>4, <1>7 DEF StrictSubsetOrdering
  <2> QED BY <2>2, <1>6
<1> QED BY <1>7, <1>8

-----------------------------------------------------------------------------
(* What a step leaves alone stays as it should be.                         *)

LEMMA RunsUntouched ==
    ASSUME TypesFit, UNCHANGED run
    PROVE  RunsStep
  BY LenProperties DEF TypesFit, RunsStep, RunStep, Runs

LEMMA AutosUntouched ==
    ASSUME UNCHANGED auto
    PROVE  \A a \in Automation : AutoStep(a)
  BY DEF AutoStep, Keeps

LEMMA AnnouncesUntouched ==
    ASSUME TypesFit, UNCHANGED <<run, announced, cut>>,
           \A r \in Runs : InTodo(<<"announce", r>>) => InTodo(<<"announce", r>>)'
    PROVE  AnnounceStep
<1>1. \A r \in Runs : ~(run[r].status \in Unfinished /\ run'[r].status \in Ended)
  BY DEF Unfinished, Ended
<1> QED BY <1>1 DEF AnnounceStep

LEMMA ExecutionsUntouched ==
    ASSUME AutomationsInv, UNCHANGED <<run, executing>>, aborted \subseteq aborted'
    PROVE  ExecutionsFit'
  BY DEF AutomationsInv, ExecutionsFit

LEMMA EventsUntouched ==
    ASSUME AutomationsInv, UNCHANGED <<delivery, published>>, Len(run') = Len(run), RunsStep
    PROVE  EventsFit'
<1>1. \A r \in Runs : run'[r].of = run[r].of /\ run'[r].event = run[r].event
  BY DEF RunsStep, RunStep
<1>2. \A k \in DOMAIN delivery : RowFits(k)'
  BY <1>1 DEF AutomationsInv, EventsFit, RowFits, Runs
<1> QED BY <1>1, <1>2 DEF AutomationsInv, EventsFit, OccurrenceOnce, Runs

LEMMA DeliveriesUntouched ==
    ASSUME AutomationsInv, UNCHANGED delivery, phase' = "up" => phase = "up",
           \A r \in Runs :
              /\ InTodo(<<"completed", r>>) => InTodo(<<"completed", r>>)'
              /\ run[r].status \in Unfinished =>
                    run'[r].status \in Unfinished \/ InTodo(<<"completed", r>>)'
    PROVE  DeliveriesFit'
<1> SUFFICES ASSUME phase' = "up", NEW k \in DOMAIN delivery, delivery[k].status = "queued"
             PROVE  run'[delivery[k].run].status \in Unfinished
                    \/ InTodo(<<"completed", delivery[k].run>>)'
  BY DEF DeliveriesFit, InTodo, Steps
<1>1. delivery[k].run \in Runs
  BY LenProperties DEF AutomationsInv, TypesFit, Row, EventsFit, RowFits, Runs
<1>2. run[delivery[k].run].status \in Unfinished \/ InTodo(<<"completed", delivery[k].run>>)
  BY DEF AutomationsInv, DeliveriesFit
<1> QED BY <1>1, <1>2

\* Nothing but a dispatch, timers and settled deliveries is left to do.
LEMMA PlainTodo ==
    ASSUME phase' \in {"up", "stopping"}, Len(todo') \in Nat,
           \A i \in Steps' : \/ todo'[i][1] \in {"arm", "completed"}
                             \/ i = 1 /\ todo'[i][1] = "dispatch"
    PROVE  TodoFits'
<1>1. \A i \in Steps' : ByPhase(todo[i])' /\ Expects(todo[i])'
  BY DEF ByPhase, Expects
<1>2. \A i, j \in Steps' : i < j => Follows(todo[i], todo[j])'
  BY DEF Follows, Steps
<1>3. ~InTodo(<<"recompute", 0>>)'
  BY DEF InTodo
<1> QED BY <1>1, <1>2, <1>3 DEF TodoFits, StepsFit, RecoveryFits

LEMMA NothingInTodo ==
    ASSUME todo = <<>>
    PROVE  \A e : ~InTodo(e)
  BY EmptySeq DEF InTodo, Steps

LEMMA StillInTodo ==
    ASSUME TypesFit, todo # <<>>, todo' = Tail(todo)
    PROVE  \A e : /\ InTodo(e)' => InTodo(e)
                  /\ InTodo(e) /\ e # todo[1] => InTodo(e)'
<1>1. /\ \A i \in Steps' : i + 1 \in Steps /\ todo'[i] = todo[i + 1]
      /\ \A j \in Steps : j # 1 => j - 1 \in Steps' /\ todo'[j - 1] = todo[j]
  BY Popped DEF TypesFit, Steps
<1> QED BY <1>1 DEF InTodo

LEMMA StillFits ==
    ASSUME AutomationsInv, todo # <<>>, todo' = Tail(todo), phase' = phase
    PROVE  /\ StepsFit'
           /\ \A i \in Steps' : /\ i + 1 \in Steps /\ todo'[i] = todo[i + 1]
                                /\ Follows(todo[1], todo[i + 1]) /\ Expects(todo[i + 1])
<1>1. /\ Len(todo) \in Nat \ {0} /\ Len(todo') = Len(todo) - 1
      /\ \A i \in Steps' : i + 1 \in Steps /\ todo'[i] = todo[i + 1]
  BY Popped DEF AutomationsInv, TypesFit, Steps
<1>2. \A i \in Steps' : Follows(todo[1], todo[i + 1]) /\ Expects(todo[i + 1])
  BY <1>1 DEF AutomationsInv, TodoFits, StepsFit, Steps
<1>3. \A i, j \in Steps' : i < j => Follows(todo[i], todo[j])'
  <2> SUFFICES ASSUME NEW i \in Steps', NEW j \in Steps', i < j
               PROVE  Follows(todo[i], todo[j])'
    OBVIOUS
  <2>1. i + 1 < j + 1
    BY <1>1 DEF Steps
  <2>2. Follows(todo[i + 1], todo[j + 1])
    BY <1>1, <2>1 DEF AutomationsInv, TodoFits, StepsFit
  <2> QED BY <1>1, <2>2 DEF Follows
<1>4. \A i \in Steps' : ByPhase(todo[i])'
  BY <1>1 DEF AutomationsInv, TodoFits, StepsFit, ByPhase
<1>5. phase' # "down"
  BY DEF AutomationsInv, TodoFits, StepsFit
<1> QED BY <1>1, <1>2, <1>3, <1>4, <1>5 DEF StepsFit

-----------------------------------------------------------------------------
(* Rows.                                                                   *)

\* What a later time of an automation leaves of it
Same(x, y) == y.live = x.live /\ y.gen = x.gen /\ y.running = x.running

LEMMA RescheduledType ==
    ASSUME NEW x \in AutoRow, NEW now \in Nat
    PROVE  Rescheduled(x, now) \in AutoRow /\ Same(x, Rescheduled(x, now))
<1>1. NextTime(x, now) \in Nat
  <2>1. CASE ~x.enabled
    BY <2>1 DEF NextTime
  <2>2. CASE x.enabled /\ x.kind = "interval"
    BY <2>2 DEF NextTime
  <2>3. CASE x.enabled /\ x.kind = "once" /\ x.at > now
    BY <2>3 DEF NextTime, AutoRow
  <2>4. CASE x.enabled /\ x.kind # "interval" /\ ~(x.kind = "once" /\ x.at > now)
    BY <2>4 DEF NextTime
  <2> QED BY <2>1, <2>2, <2>3, <2>4
<1> DEFINE y == [x EXCEPT !.next = NextTime(x, now)]
<1>2. y \in AutoRow /\ y.live = x.live /\ y.gen = x.gen /\ y.running = x.running
  BY <1>1 DEF AutoRow
<1> QED BY <1>2 DEF Rescheduled, Same

LEMMA OutcomeType ==
    ASSUME AutomationsAssumption, TypesFit, NEW x \in AutoRow, NEW r \in Runs, NEW status
    PROVE  /\ OutcomeOf(x, r, status) \in AutoRow
           /\ OutcomeOf(x, r, status).live = x.live /\ OutcomeOf(x, r, status).gen = x.gen
           /\ OutcomeOf(x, r, status).running = 0
<1> DEFINE failures == IF status \in {"failed", "timeout"} THEN x.failures + 1 ELSE 0
           stays == /\ failures < DisableAfter
                    /\ ~(x.kind = "once" /\ ~run[r].manual)
           y == [x EXCEPT !.failures = failures, !.running = 0,
                          !.enabled = x.enabled /\ stays]
<1>1. failures \in Nat /\ (x.enabled /\ stays) \in BOOLEAN
  BY DEF AutoRow
<1>2. y \in AutoRow /\ y.live = x.live /\ y.gen = x.gen /\ y.running = 0
  <2> HIDE DEF failures, stays
  <2> QED BY <1>1 DEF AutoRow
<1>3. clock \in Nat
  BY DEF TypesFit, RestFits
<1>4. OutcomeOf(x, r, status) = Rescheduled(y, clock)
  BY DEF OutcomeOf
<1> HIDE DEF y
<1>5. Rescheduled(y, clock) \in AutoRow /\ Same(y, Rescheduled(y, clock))
  BY <1>2, <1>3, RescheduledType
<1> QED BY <1>2, <1>4, <1>5 DEF Same

\* finishAutomationRun frees the automation of the run, or leaves it alone.
LEMMA FreedType ==
    ASSUME AutomationsAssumption, TypesFit, NEW r \in Runs, NEW status
    PROVE  LET x == Freed(r, status)
           IN  /\ x \in [Automation -> AutoRow]
               /\ \A a \in Automation :
                     \/ x[a] = auto[a]
                     \/ /\ x[a].live = auto[a].live /\ x[a].gen = auto[a].gen
                        /\ auto[a].running = r /\ x[a].running = 0
                        /\ auto[a].live /\ a = run[r].of
<1> DEFINE a == run[r].of
           y == OutcomeOf(auto[a], r, status)
<1>1. a \in Automation /\ auto \in [Automation -> AutoRow]
  BY RunTyped DEF TypesFit, Runs
<1>2. y \in AutoRow /\ y.live = auto[a].live /\ y.gen = auto[a].gen /\ y.running = 0
  BY <1>1, OutcomeType
<1>3. Freed(r, status) = IF auto[a].live /\ auto[a].running = r
                         THEN [auto EXCEPT ![a] = y] ELSE auto
  BY DEF Freed
<1> HIDE DEF y, a
<1> QED BY <1>1, <1>2, <1>3 DEF a

LEMMA RunEdited ==
    ASSUME NEW runs \in Seq(RunRow), NEW r \in 1..Len(runs), NEW status \in Unfinished \cup Ended
    PROVE  LET x == [runs EXCEPT ![r].status = status]
           IN  /\ x \in Seq(RunRow) /\ Len(x) = Len(runs)
               /\ x[r].status = status /\ x[r].of = runs[r].of /\ x[r].gen = runs[r].gen
               /\ x[r].event = runs[r].event /\ x[r].manual = runs[r].manual
               /\ \A q \in 1..Len(runs) : q # r => x[q] = runs[q]
<1> DEFINE y == [runs[r] EXCEPT !.status = status]
<1>1. runs[r] \in RunRow
  BY RunTyped
<1>2. /\ y \in RunRow /\ y.status = status /\ y.of = runs[r].of /\ y.gen = runs[r].gen
      /\ y.event = runs[r].event /\ y.manual = runs[r].manual
  BY <1>1 DEF RunRow
<1>3. [runs EXCEPT ![r].status = status] = [runs EXCEPT ![r] = y]
  OBVIOUS
<1> HIDE DEF y
<1>4. /\ [runs EXCEPT ![r] = y] \in Seq(RunRow)
      /\ Len([runs EXCEPT ![r] = y]) = Len(runs)
      /\ \A q \in 1..Len(runs) : [runs EXCEPT ![r] = y][q] = IF q = r THEN y ELSE runs[q]
  BY <1>2, ExceptSeq
<1> QED BY <1>2, <1>3, <1>4

LEMMA RunAppended ==
    ASSUME NEW runs \in Seq(RunRow), NEW y \in RunRow
    PROVE  /\ Append(runs, y) \in Seq(RunRow) /\ Len(Append(runs, y)) = Len(runs) + 1
           /\ Append(runs, y)[Len(runs) + 1] = y
           /\ \A q \in 1..Len(runs) : Append(runs, y)[q] = runs[q]
  BY AppendProperties, LenProperties

-----------------------------------------------------------------------------
(* Requests, each a callback of its own.                                   *)

Plain(s, n) ==
    \/ s = <<>> \/ s = <<Arm>>
    \/ \E r \in 1..n : \/ s = <<<<"dispatch", r>>>>
                       \/ s = <<<<"completed", r>>, Arm>>
                       \/ s = <<Arm, <<"completed", r>>>>

LEMMA ShortSequences ==
    ASSUME NEW S, NEW e \in S, NEW f \in S
    PROVE  /\ <<e>> \in Seq(S) /\ Len(<<e>>) = 1 /\ <<e>>[1] = e
           /\ <<e, f>> \in Seq(S) /\ Len(<<e, f>>) = 2
           /\ <<e, f>>[1] = e /\ <<e, f>>[2] = f
  OBVIOUS

LEMMA PlainSteps ==
    ASSUME NEW n \in Nat, NEW s, Plain(s, n)
    PROVE  /\ s \in Seq(StepType(n)) /\ Len(s) \in Nat
           /\ \A i \in 1..Len(s) : \/ s[i][1] \in {"arm", "completed"}
                                   \/ i = 1 /\ s[i][1] = "dispatch"
<1>1. Arm \in StepType(n) /\ Arm[1] = "arm"
  BY DEF Arm, StepType
<1>2. \A r \in 1..n : /\ <<"dispatch", r>> \in StepType(n)
                      /\ <<"completed", r>> \in StepType(n)
  BY DEF StepType
<1>3. CASE s = <<>>
  BY <1>3
<1>4. CASE s = <<Arm>>
  BY <1>1, <1>4
<1>5. ASSUME NEW r \in 1..n, s = <<<<"dispatch", r>>>>
      PROVE  s \in Seq(StepType(n)) /\ Len(s) = 1 /\ s[1][1] = "dispatch"
  BY <1>2, <1>5, ShortSequences
<1>6. ASSUME NEW r \in 1..n, s = <<<<"completed", r>>, Arm>> \/ s = <<Arm, <<"completed", r>>>>
      PROVE  /\ s \in Seq(StepType(n)) /\ Len(s) = 2
             /\ s[1][1] \in {"arm", "completed"} /\ s[2][1] \in {"arm", "completed"}
  <2> DEFINE e == <<"completed", r>>
  <2>1. e \in StepType(n) /\ e[1] = "completed"
    BY <1>2
  <2>2. s = <<e, Arm>> \/ s = <<Arm, e>>
    BY <1>6
  <2> HIDE DEF e
  <2>3. CASE s = <<e, Arm>>
    BY <1>1, <2>1, <2>3, ShortSequences
  <2>4. CASE s = <<Arm, e>>
    BY <1>1, <2>1, <2>4, ShortSequences
  <2> QED BY <2>2, <2>3, <2>4
<1>7. ASSUME NEW r \in 1..n, \/ s = <<<<"dispatch", r>>>> \/ s = <<<<"completed", r>>, Arm>>
                             \/ s = <<Arm, <<"completed", r>>>>
      PROVE  /\ s \in Seq(StepType(n)) /\ Len(s) \in Nat
             /\ \A i \in 1..Len(s) : \/ s[i][1] \in {"arm", "completed"}
                                     \/ i = 1 /\ s[i][1] = "dispatch"
  <2>1. CASE s = <<<<"dispatch", r>>>>
    BY <1>5, <2>1
  <2>2. CASE s = <<<<"completed", r>>, Arm>> \/ s = <<Arm, <<"completed", r>>>>
    BY <1>6, <2>2
  <2> QED BY <1>7, <2>1, <2>2
<1> QED BY <1>3, <1>4, <1>7 DEF Plain

\* A step between two callbacks; what is left is what it does to the tables.
LEMMA BetweenCallbacks ==
    ASSUME AutomationsInv, todo = <<>>, phase' \in {"up", "stopping"},
           Plain(todo', Len(run')), Len(run') \in Nat, RunsStep,
           \A a \in Automation : AutoStep(a),
           announced \subseteq announced', cut \subseteq cut',
           \A r \in Runs : run[r].status \in Unfinished /\ run'[r].status \in Ended
                              /\ auto[run[r].of].live => r \in announced'
    PROVE  Moves /\ TodoFits' /\ todo' \in Seq(StepType(Len(run')))
<1>1. AnnounceStep
  BY NothingInTodo DEF AnnounceStep
<1>2. /\ todo' \in Seq(StepType(Len(run'))) /\ Len(todo') \in Nat
      /\ \A i \in Steps' : \/ todo'[i][1] \in {"arm", "completed"}
                           \/ i = 1 /\ todo'[i][1] = "dispatch"
  BY PlainSteps DEF Steps
<1>3. TodoFits'
  BY <1>2, PlainTodo
<1> QED BY <1>1, <1>2, <1>3 DEF Moves

LEMMA AutoEdited ==
    ASSUME AutomationsInv, Ready, NEW a \in Automation, NEW y \in AutoRow,
           auto' = [auto EXCEPT ![a] = y], y.running = auto[a].running,
           \/ y.live = auto[a].live /\ y.gen = auto[a].gen
           \/ ~auto[a].live /\ y.gen = auto[a].gen + 1,
           Then(<<Arm>>), UNCHANGED <<run, delivery, published, announced>>, unchangedProcess
    PROVE  Moves /\ Stays
<1> USE DEF Ready, Then, unchangedProcess
<1>1. \A b \in Automation : AutoStep(b)
  BY DEF AutomationsInv, TypesFit, AutoStep, Keeps
<1>2. RunsStep /\ Len(run) \in Nat
  BY RunsUntouched, LenProperties DEF AutomationsInv, TypesFit
<1>3. \A r \in Runs : ~(run[r].status \in Unfinished /\ run'[r].status \in Ended)
  BY DEF Unfinished, Ended
<1>4. Moves /\ TodoFits' /\ todo' \in Seq(StepType(Len(run')))
  BY <1>1, <1>2, <1>3, BetweenCallbacks DEF Plain
<1>5. TypesFit'
  BY <1>4 DEF AutomationsInv, TypesFit, RestFits, Runs
<1>6. ExecutionsFit' /\ EventsFit'
  BY <1>2, ExecutionsUntouched, EventsUntouched
<1>7. DeliveriesFit'
  BY NothingInTodo, DeliveriesUntouched
<1> QED BY <1>4, <1>5, <1>6, <1>7 DEF Stays

Created(x, n, kind, when) ==
    [x EXCEPT !.live = TRUE, !.gen = n, !.enabled = TRUE, !.kind = kind, !.at = when]

LEMMA CreatedType ==
    ASSUME NEW x \in AutoRow, NEW n \in Nat, NEW kind \in Kinds,
           NEW when \in Nat
    PROVE  /\ Created(x, n, kind, when) \in AutoRow
           /\ Created(x, n, kind, when).gen = n
           /\ Created(x, n, kind, when).running = x.running
  BY DEF AutoRow, Created, Kinds

LEMMA CreateAutomationStays ==
    ASSUME AutomationsInv, NEW a \in Automation, NEW kind \in {"interval", "once", "event"},
           NEW at \in Nat, CreateAutomation(a, kind, at)
    PROVE  Moves /\ Stays
<1> DEFINE when == IF kind = "once" THEN at ELSE 0
           n == auto[a].gen + 1
           x == Created(auto[a], n, kind, when)
           y == Rescheduled(x, clock)
<1>1. auto[a] \in AutoRow /\ clock \in Nat /\ when \in Nat
  BY DEF AutomationsInv, TypesFit, RestFits
<1>2. x \in AutoRow /\ x.gen = auto[a].gen + 1 /\ x.running = auto[a].running
  <2>1. auto[a].gen + 1 \in Nat
    BY <1>1 DEF AutoRow
  <2>2. \A m, w \in Nat : /\ Created(auto[a], m, kind, w) \in AutoRow
                          /\ Created(auto[a], m, kind, w).gen = m
                          /\ Created(auto[a], m, kind, w).running = auto[a].running
    <3>1. kind \in Kinds
      BY DEF Kinds
    <3> QED BY <1>1, <3>1, CreatedType
  <2> HIDE DEF when
  <2> QED BY <1>1, <2>1, <2>2
<1>3. y \in AutoRow /\ Same(x, y)
  <2> HIDE DEF x
  <2> QED BY <1>1, <1>2, RescheduledType
<1>4. auto' = [auto EXCEPT ![a] = y]
  BY DEF CreateAutomation, Created
<1> HIDE DEF x, y
<1> QED BY <1>2, <1>3, <1>4, AutoEdited DEF Same, CreateAutomation

LEMMA SetEnabledStays ==
    ASSUME AutomationsInv, NEW a \in Automation, NEW on \in BOOLEAN, SetEnabled(a, on)
    PROVE  Moves /\ Stays
<1> DEFINE x == [auto[a] EXCEPT !.enabled = on]
           y == Rescheduled(x, clock)
<1>1. auto[a] \in AutoRow /\ clock \in Nat
  BY DEF AutomationsInv, TypesFit, RestFits
<1>2. x \in AutoRow /\ Same(auto[a], x)
  BY <1>1 DEF AutoRow, Same
<1>3. y \in AutoRow /\ Same(x, y)
  <2> HIDE DEF x
  <2> QED BY <1>1, <1>2, RescheduledType
<1>4. auto' = [auto EXCEPT ![a] = y]
  BY DEF SetEnabled
<1> HIDE DEF x, y
<1> QED BY <1>2, <1>3, <1>4, AutoEdited DEF Same, SetEnabled

LEMMA RetriggerStays ==
    ASSUME AutomationsInv, NEW a \in Automation, NEW kind \in {"interval", "once", "event"},
           NEW at \in Nat, Retrigger(a, kind, at)
    PROVE  Moves /\ Stays
<1> DEFINE x == [auto[a] EXCEPT !.kind = kind, !.at = IF kind = "once" THEN at ELSE 0]
           y == Rescheduled(x, clock)
<1>1. auto[a] \in AutoRow /\ clock \in Nat
  BY DEF AutomationsInv, TypesFit, RestFits
<1>2. x \in AutoRow /\ Same(auto[a], x)
  BY <1>1 DEF AutoRow, Same
<1>3. y \in AutoRow /\ Same(x, y)
  <2> HIDE DEF x
  <2> QED BY <1>1, <1>2, RescheduledType
<1>4. auto' = [auto EXCEPT ![a] = y]
  BY DEF Retrigger
<1> HIDE DEF x, y
<1> QED BY <1>2, <1>3, <1>4, AutoEdited DEF Same, Retrigger

\* One run changes its status.
LEMMA RunMoved ==
    ASSUME TypesFit, NEW r \in Runs, NEW status \in Unfinished \cup Ended,
           run' = [run EXCEPT ![r].status = status], run[r].status \in Unfinished,
           run[r].status = "cancelling" => status \in {"cancelling", "cancelled", "timeout"}
    PROVE  /\ RunsStep /\ run' \in Seq(RunRow) /\ Len(run') = Len(run) /\ Len(run) \in Nat
           /\ run'[r].status = status
           /\ \A q \in Runs : run'[q].of = run[q].of /\ (q # r => run'[q] = run[q])
<1>1. /\ run' \in Seq(RunRow) /\ Len(run') = Len(run) /\ run'[r].status = status
      /\ run'[r].of = run[r].of /\ run'[r].gen = run[r].gen /\ run'[r].event = run[r].event
      /\ \A q \in Runs : q # r => run'[q] = run[q]
  BY RunEdited DEF TypesFit, Runs
<1>2. Len(run) \in Nat
  BY LenProperties DEF TypesFit
<1>3. \A q \in Runs : RunStep(q)
  BY <1>1 DEF RunStep, Unfinished, Ended
<1>4. RunsStep
  <2>1. Len(run') # Len(run) + 1
    <3>1. \A n \in Nat : n # n + 1
      OBVIOUS
    <3>2. Len(run') = Len(run)
      BY <1>1
    <3> QED BY <1>2, <3>1, <3>2
  <2> QED BY <1>1, <1>3, <2>1 DEF RunsStep
<1>5. \A q \in Runs : run'[q].of = run[q].of
  BY <1>3 DEF RunStep
<1> QED BY <1>1, <1>2, <1>4, <1>5

Removed(x) == [x EXCEPT !.live = FALSE, !.enabled = FALSE, !.kind = "event", !.at = 0,
                        !.next = 0, !.running = 0, !.failures = 0]

LEMMA RemovedType ==
    ASSUME NEW x \in AutoRow
    PROVE  /\ Removed(x) \in AutoRow /\ Removed(x).live = FALSE /\ Removed(x).gen = x.gen
           /\ Removed(x).running = 0
  BY DEF AutoRow, Removed, Kinds

LEMMA RemoveAutomationStays ==
    ASSUME AutomationsInv, NEW a \in Automation, RemoveAutomation(a)
    PROVE  Moves /\ Stays
<1> DEFINE r    == auto[a].running
           ends == r # 0 /\ run[r].status \in Unfinished /\ run[r].of = a
           y    == Removed(auto[a])
<1>1. /\ todo = <<>> /\ phase = "up" /\ todo' = <<Arm>>
      /\ auto' = [auto EXCEPT ![a] = y]
      /\ run' = IF ends THEN [run EXCEPT ![r].status = "cancelling"] ELSE run
      /\ aborted' = IF ends /\ r \in executing THEN aborted \cup {r} ELSE aborted
      /\ UNCHANGED <<delivery, published, announced, executing, timer, phase,
                     clock, starts, faults, cut>>
  BY DEF RemoveAutomation, Ready, Then, Removed
<1>2. TypesFit /\ Len(run) \in Nat /\ r \in 0..Len(run)
  BY LenProperties DEF AutomationsInv, TypesFit
<1>3. /\ RunsStep /\ run' \in Seq(RunRow) /\ Len(run') = Len(run)
      /\ \A q \in Runs : q # r \/ ~ends => run'[q] = run[q]
      /\ ends => r \in Runs /\ run'[r].status = "cancelling"
  <2>1. CASE ends
    <3>1. /\ r \in Runs /\ run[r].status \in Unfinished
          /\ run' = [run EXCEPT ![r].status = "cancelling"]
      BY <1>1, <1>2, <2>1 DEF Runs
    <3>2. "cancelling" \in Unfinished \cup Ended
      BY DEF Unfinished
    <3> HIDE DEF r, ends
    <3>3. /\ RunsStep /\ run' \in Seq(RunRow) /\ Len(run') = Len(run)
          /\ run'[r].status = "cancelling"
          /\ \A q \in Runs : q # r => run'[q] = run[q]
      BY <1>2, <3>1, <3>2, RunMoved
    <3> QED BY <2>1, <3>1, <3>3
  <2>2. CASE ~ends
    <3>1. run' = run
      BY <1>1, <2>2
    <3> QED BY <1>2, <2>2, <3>1, RunsUntouched DEF TypesFit
  <2> QED BY <2>1, <2>2
<1>4. y \in AutoRow /\ y.live = FALSE /\ y.gen = auto[a].gen /\ y.running = 0
  BY RemovedType DEF AutomationsInv, TypesFit
<1>5. \A b \in Automation : AutoStep(b)
  <2> HIDE DEF y
  <2> QED BY <1>1, <1>4 DEF AutomationsInv, TypesFit, AutoStep, Keeps
<1>6. \A q \in Runs : run[q].status \in Unfinished => /\ run'[q].status \in Unfinished
                                                      /\ run'[q].status \notin Ended
  <2> HIDE DEF ends, r
  <2> QED BY <1>3 DEF Unfinished, Ended
<1>7. Moves /\ TodoFits' /\ todo' \in Seq(StepType(Len(run')))
  BY <1>1, <1>2, <1>3, <1>5, <1>6, BetweenCallbacks DEF Plain
<1>8. TypesFit'
  <2> HIDE DEF y, ends, r
  <2>1. aborted' \subseteq executing
    BY <1>1 DEF AutomationsInv, TypesFit, RestFits
  <2> QED BY <1>1, <1>2, <1>3, <1>4, <1>7, <2>1 DEF AutomationsInv, TypesFit, RestFits, Runs
<1>9. ExecutionsFit'
  <2> HIDE DEF ends, r
  <2> QED BY <1>1, <1>3 DEF AutomationsInv, ExecutionsFit, TypesFit, RestFits
<1>10. EventsFit' /\ DeliveriesFit'
  BY <1>1, <1>3, <1>6, EventsUntouched, DeliveriesUntouched, NothingInTodo
<1> QED BY <1>7, <1>8, <1>9, <1>10 DEF Stays

\* queueTriggerAtomically: a run is stored, its automation points to it, and
\* the delivery of its event names it.
LEMMA RunQueued ==
    ASSUME AutomationsInv, NEW a \in Automation, NEW event \in Events, NEW manual \in BOOLEAN,
           auto[a].running = 0, QueueRun(a, event, manual), Mark(event, a), UNCHANGED published,
           \A r \in Runs : <<run[r].event, run[r].of>> # <<event, a>>,
           event[1] = "fact" => event[2] \in published,
           event[1] = "ask" => event[2] = Len(run) + 1
    PROVE  /\ RunsStep /\ \A b \in Automation : AutoStep(b)
           /\ Len(run) \in Nat /\ Len(run') = Len(run) + 1 /\ run' \in Seq(RunRow)
           /\ run'[Len(run) + 1].status = "queued"
           /\ \A q \in Runs : run'[q] = run[q]
           /\ auto' \in [Automation -> AutoRow]
           /\ \A b \in Automation : auto'[b].running \in 0..Len(run')
           /\ \A b \in Automation : b # a => auto'[b] = auto[b]
           /\ DOMAIN delivery' = DOMAIN delivery \cup {<<event, a>>}
           /\ \A k \in DOMAIN delivery' :
                 \/ delivery'[k] \in Row(Len(run')) /\ delivery'[k].status = "queued"
                    /\ delivery'[k].run = Len(run) + 1
                 \/ k \in DOMAIN delivery /\ delivery'[k] = delivery[k]
           /\ EventsFit'
<1> DEFINE n == Len(run) + 1
           y == [status |-> "queued", of |-> a, gen |-> auto[a].gen,
                 manual |-> manual, event |-> event]
           x == [auto[a] EXCEPT !.running = n]
           key == <<event, a>>
           tries == IF key \in DOMAIN delivery THEN delivery[key].attempts ELSE 0
           row == [status |-> "queued", attempts |-> tries + 1, run |-> n]
<1>1. /\ run' = Append(run, y) /\ auto' = [auto EXCEPT ![a] = x]
      /\ delivery' = [j \in DOMAIN delivery \cup {key} |->
                        IF j = key THEN row ELSE delivery[j]]
  BY DEF QueueRun, Mark, Put
<1>2. /\ TypesFit /\ Len(run) \in Nat /\ n \in Nat /\ n # 0 /\ auto[a] \in AutoRow
      /\ run \in Seq(RunRow) /\ Runs = 1..Len(run) /\ n \notin Runs /\ n # Len(run)
  BY LenProperties DEF AutomationsInv, TypesFit, Runs
<1>3. /\ y \in RunRow /\ y.status = "queued" /\ y.of = a /\ y.gen = auto[a].gen
      /\ y.event = event
  BY <1>2 DEF AutoRow, RunRow, Unfinished
<1>4. /\ x \in AutoRow /\ x.live = auto[a].live /\ x.gen = auto[a].gen /\ x.running = n
  BY <1>2 DEF AutoRow
<1>5. row \in Row(n) /\ row.status = "queued" /\ row.run = n
  <2>1. tries \in Nat
    BY DEF AutomationsInv, TypesFit, Row
  <2>2. n \in 0..n
    BY <1>2
  <2> HIDE DEF tries, n
  <2> QED BY <2>1, <2>2 DEF Row
<1> HIDE DEF y, x, row
<1>6. /\ run' \in Seq(RunRow) /\ Len(run') = n /\ run'[n] = y
      /\ \A q \in Runs : run'[q] = run[q]
  BY <1>1, <1>2, <1>3, RunAppended
<1>7. RunsStep
  <2>1. \A q \in Runs : RunStep(q)
    BY <1>6 DEF RunStep
  <2>2. NewRun(n)
    <3>1. auto' = [auto EXCEPT ![a].running = n]
      BY <1>1 DEF x
    <3> QED BY <1>3, <1>6, <3>1 DEF NewRun
  <2> QED BY <1>6, <2>1, <2>2 DEF RunsStep
<1>8. /\ auto' \in [Automation -> AutoRow] /\ auto'[a] = x
      /\ \A b \in Automation : b # a => auto'[b] = auto[b]
  BY <1>1, <1>2, <1>4 DEF TypesFit
<1>9. \A b \in Automation : AutoStep(b) /\ auto'[b].running \in 0..Len(run')
  <2>1. AutoStep(a) /\ auto'[a].running \in 0..n
    BY <1>2, <1>3, <1>4, <1>6, <1>8 DEF AutoStep, Keeps
  <2>2. \A b \in Automation : b # a => AutoStep(b) /\ auto'[b].running \in 0..n
    BY <1>2, <1>8 DEF AutoStep, Keeps, TypesFit
  <2> QED BY <1>6, <2>1, <2>2
<1>10. /\ DOMAIN delivery' = DOMAIN delivery \cup {key}
       /\ delivery'[key] = row
       /\ \A k \in DOMAIN delivery : k # key => delivery'[k] = delivery[k]
  BY <1>1
<1>11. EventsFit'
  <2> DEFINE ev(r) == <<run'[r].event, run'[r].of>>
  <2>1. /\ \A r \in Runs : ev(r) = <<run[r].event, run[r].of>> /\ ev(r) # key
        /\ ev(n) = key
    BY <1>3, <1>6
  <2>2. Runs' = Runs \cup {n}
    BY <1>2, <1>6 DEF Runs
  <2>3. \A k \in DOMAIN delivery' : RowFits(k)'
    <3> SUFFICES ASSUME NEW k \in DOMAIN delivery' PROVE RowFits(k)'
      OBVIOUS
    <3>1. CASE k = key
      BY <1>2, <1>5, <1>10, <3>1 DEF RowFits, Waiting
    <3>2. CASE k # key
      <4>1. k \in DOMAIN delivery /\ delivery'[k] = delivery[k] /\ RowFits(k)
        BY <1>10, <3>2 DEF AutomationsInv, EventsFit
      <4> QED BY <2>1, <2>2, <3>2, <4>1 DEF RowFits
    <3> QED BY <3>1, <3>2
  <2>4. \A r \in Runs' : /\ ev(r) \in DOMAIN delivery'
                         /\ run'[r].event[1] = "ask" => run'[r].event[2] = r
    BY <1>3, <1>6, <1>10, <2>1, <2>2 DEF AutomationsInv, EventsFit
  <2>5. OccurrenceOnce'
    <3> SUFFICES ASSUME NEW r \in Runs', NEW q \in Runs', run'[r].of = run'[q].of,
                        run'[r].event = run'[q].event
                 PROVE  r = q
      BY DEF OccurrenceOnce
    <3> QED BY <1>6, <2>1, <2>2 DEF AutomationsInv, EventsFit, OccurrenceOnce
  <2> QED BY <2>3, <2>4, <2>5 DEF EventsFit
<1> QED BY <1>2, <1>3, <1>5, <1>6, <1>7, <1>8, <1>9, <1>10, <1>11

LEMMA RunQueuedBetween ==
    ASSUME AutomationsInv, NEW a \in Automation, NEW event \in Events, NEW manual \in BOOLEAN,
           auto[a].running = 0, QueueRun(a, event, manual), Mark(event, a),
           \A r \in Runs : <<run[r].event, run[r].of>> # <<event, a>>,
           event[1] = "fact" => event[2] \in published,
           event[1] = "ask" => event[2] = Len(run) + 1,
           Ready, Then(<<<<"dispatch", Len(run) + 1>>>>),
           UNCHANGED <<published, announced>>, unchangedProcess
    PROVE  Moves /\ Stays
<1>0. UNCHANGED published
  OBVIOUS
<1>1. /\ RunsStep /\ \A b \in Automation : AutoStep(b)
      /\ Len(run) \in Nat /\ Len(run') = Len(run) + 1 /\ run' \in Seq(RunRow)
      /\ run'[Len(run) + 1].status = "queued"
      /\ \A q \in Runs : run'[q] = run[q]
      /\ auto' \in [Automation -> AutoRow]
      /\ \A b \in Automation : auto'[b].running \in 0..Len(run')
      /\ DOMAIN delivery' = DOMAIN delivery \cup {<<event, a>>}
      /\ \A k \in DOMAIN delivery' :
            \/ delivery'[k] \in Row(Len(run')) /\ delivery'[k].status = "queued"
               /\ delivery'[k].run = Len(run) + 1
            \/ k \in DOMAIN delivery /\ delivery'[k] = delivery[k]
      /\ EventsFit'
  BY <1>0, RunQueued, ZenonT(60)
<1> USE DEF Ready, Then, unchangedProcess
<1>2. Runs \subseteq Runs' /\ Len(run) + 1 \in 1..Len(run') /\ Len(run') \in Nat
  BY <1>1 DEF Runs
<1>3. \A q \in Runs : ~(run[q].status \in Unfinished /\ run'[q].status \in Ended)
  BY <1>1 DEF Unfinished, Ended
<1>4. Moves /\ TodoFits' /\ todo' \in Seq(StepType(Len(run')))
  BY <1>1, <1>2, <1>3, BetweenCallbacks DEF Plain
<1>5. TypesFit'
  <2>1. \A k \in DOMAIN delivery' : delivery'[k] \in Row(Len(run'))
    <3>1. Row(Len(run)) \subseteq Row(Len(run'))
      BY <1>1, StepsMonotone
    <3> QED BY <1>1, <3>1 DEF AutomationsInv, TypesFit
  <2>2. RestFits'
    BY <1>2 DEF AutomationsInv, TypesFit, RestFits
  <2>3. DOMAIN delivery' \subseteq Events \X Automation
    BY <1>1 DEF AutomationsInv, TypesFit
  <2> QED BY <1>1, <1>4, <2>1, <2>2, <2>3 DEF TypesFit
<1>6. ExecutionsFit'
  BY <1>1 DEF AutomationsInv, ExecutionsFit, TypesFit, RestFits
<1>7. DeliveriesFit'
  <2> SUFFICES ASSUME NEW k \in DOMAIN delivery', delivery'[k].status = "queued"
               PROVE  run'[delivery'[k].run].status \in Unfinished
    BY DEF DeliveriesFit
  <2>1. CASE delivery'[k].run = Len(run) + 1
    BY <1>1, <2>1 DEF Unfinished
  <2>2. CASE k \in DOMAIN delivery /\ delivery'[k] = delivery[k]
    <3>1. delivery[k].run \in Runs
      BY <1>1, <2>2 DEF AutomationsInv, TypesFit, Row, EventsFit, RowFits, Runs
    <3>2. run[delivery[k].run].status \in Unfinished
      BY <2>2, NothingInTodo DEF AutomationsInv, DeliveriesFit
    <3> QED BY <1>1, <2>2, <3>1, <3>2
  <2> QED BY <1>1, <2>1, <2>2
<1> QED BY <1>1, <1>4, <1>5, <1>6, <1>7 DEF Stays

LEMMA AskForRunStays ==
    ASSUME AutomationsInv, NEW a \in Automation, AskForRun(a)
    PROVE  Moves /\ Stays
<1> DEFINE event == <<"ask", Len(run) + 1>>
<1>1. Len(run) \in Nat
  BY LenProperties DEF AutomationsInv, TypesFit
<1>2. event \in Events /\ event[1] = "ask" /\ event[2] = Len(run) + 1
  BY <1>1 DEF Events
<1>3. \A r \in Runs : <<run[r].event, run[r].of>> # <<event, a>>
  <2>1. \A r \in Runs : run[r].event[1] = "ask" => run[r].event[2] = r
    BY DEF AutomationsInv, EventsFit
  <2>2. \A r \in Runs : r # Len(run) + 1
    BY <1>1 DEF Runs
  <2> HIDE DEF event
  <2>3. \A r \in Runs : run[r].event # event
    BY <1>2, <2>1, <2>2
  <2> QED BY <2>3
<1> HIDE DEF event
<1>4. /\ QueueRun(a, event, TRUE) /\ Mark(event, a) /\ auto[a].running = 0 /\ Ready
      /\ Then(<<<<"dispatch", Len(run) + 1>>>>)
      /\ UNCHANGED <<published, announced>> /\ unchangedProcess
  BY DEF AskForRun, event
<1> QED BY <1>2, <1>3, <1>4, RunQueuedBetween

LEMMA AskAgainStays ==
    ASSUME AutomationsInv, NEW r \in Runs, AskAgain(r)
    PROVE  Moves /\ Stays
<1> USE DEF AskAgain, Ready, Then, unchangedProcess
<1>1. RunsStep /\ Len(run) \in Nat /\ \A a \in Automation : AutoStep(a)
  BY RunsUntouched, AutosUntouched, LenProperties DEF AutomationsInv, TypesFit
<1>2. \A q \in Runs : ~(run[q].status \in Unfinished /\ run'[q].status \in Ended)
  BY DEF Unfinished, Ended
<1>3. Moves /\ TodoFits' /\ todo' \in Seq(StepType(Len(run')))
  BY <1>1, <1>2, BetweenCallbacks DEF Plain, Runs
<1>4. TypesFit'
  BY <1>3 DEF AutomationsInv, TypesFit, RestFits, Runs
<1>5. ExecutionsFit' /\ EventsFit' /\ DeliveriesFit'
  BY <1>1, ExecutionsUntouched, EventsUntouched, DeliveriesUntouched, NothingInTodo
<1> QED BY <1>3, <1>4, <1>5 DEF Stays

LEMMA FreedSteps ==
    ASSUME AutomationsAssumption, TypesFit, NEW r \in Runs, NEW status, auto' = Freed(r, status),
           run'[r].status \in Ended
    PROVE  /\ auto' \in [Automation -> AutoRow]
           /\ \A a \in Automation : /\ AutoStep(a) /\ auto'[a].running \in 0..Len(run)
                                    /\ auto'[a].running \in {0, auto[a].running}
<1>1. /\ auto' \in [Automation -> AutoRow]
      /\ \A a \in Automation :
            \/ auto'[a] = auto[a]
            \/ /\ auto'[a].live = auto[a].live /\ auto'[a].gen = auto[a].gen
               /\ auto[a].running = r /\ auto'[a].running = 0
  BY FreedType
<1>2. Len(run) \in Nat /\ r # 0
  BY LenProperties DEF TypesFit, Runs
<1> QED BY <1>1, <1>2 DEF AutoStep, Keeps, TypesFit

LEMMA CancelRunStays ==
    ASSUME AutomationsAssumption, AutomationsInv, NEW r \in Runs, CancelRun(r)
    PROVE  Moves /\ Stays
<1>1. /\ todo = <<>> /\ phase = "up" /\ aborted' = aborted \cup ({r} \cap executing)
      /\ UNCHANGED <<delivery, published, executing, timer, phase, clock, starts, faults, cut>>
      /\ TypesFit
  BY DEF CancelRun, Ready, AutomationsInv
<1>2. CASE run[r].status = "queued"
  <2>1. /\ run' = [run EXCEPT ![r].status = "cancelled"] /\ auto' = Freed(r, "cancelled")
        /\ announced' = IF auto[run[r].of].live THEN announced \cup {r} ELSE announced
        /\ todo' = <<<<"completed", r>>, Arm>>
    BY <1>2 DEF CancelRun, Then
  <2>2. "cancelled" \in Unfinished \cup Ended /\ "cancelled" \in Ended
        /\ run[r].status \in Unfinished
    BY <1>2 DEF Unfinished, Ended
  <2>3. /\ RunsStep /\ run' \in Seq(RunRow) /\ Len(run') = Len(run) /\ Len(run) \in Nat
        /\ run'[r].status = "cancelled" /\ \A q \in Runs : q # r => run'[q] = run[q]
    BY <1>1, <1>2, <2>1, <2>2, RunMoved
  <2>4. /\ auto' \in [Automation -> AutoRow]
        /\ \A a \in Automation : AutoStep(a) /\ auto'[a].running \in 0..Len(run)
    BY <1>1, <2>1, <2>2, <2>3, FreedSteps
  <2>5. \A q \in Runs : run[q].status \in Unfinished /\ run'[q].status \in Ended
                          /\ auto[run[q].of].live => q \in announced'
    BY <2>1, <2>3 DEF Unfinished, Ended
  <2>6. Moves /\ TodoFits' /\ todo' \in Seq(StepType(Len(run')))
    BY <1>1, <2>1, <2>3, <2>4, <2>5, BetweenCallbacks DEF Plain, Runs
  <2>7. TypesFit'
    <3>1. announced' \subseteq Runs
      BY <1>1, <2>1 DEF TypesFit, RestFits
    <3> QED BY <1>1, <2>3, <2>4, <2>6, <3>1 DEF TypesFit, RestFits, Runs
  <2>8. ExecutionsFit'
    BY <1>1, <1>2, <2>3 DEF AutomationsInv, ExecutionsFit, TypesFit, RestFits
  <2>9. InTodo(<<"completed", r>>)'
    BY <2>1 DEF InTodo, Steps
  <2>10. EventsFit' /\ DeliveriesFit'
    BY <1>1, <2>3, <2>9, EventsUntouched, DeliveriesUntouched, NothingInTodo
  <2> QED BY <2>6, <2>7, <2>8, <2>10 DEF Stays
<1>3. CASE run[r].status = "running"
  <2>1. /\ run' = [run EXCEPT ![r].status = "cancelling"] /\ todo' = <<Arm>>
        /\ UNCHANGED <<auto, announced>>
    BY <1>3 DEF CancelRun, Then
  <2>2. "cancelling" \in Unfinished \cup Ended /\ run[r].status \in Unfinished
    BY <1>3 DEF Unfinished, Ended
  <2>3. /\ RunsStep /\ run' \in Seq(RunRow) /\ Len(run') = Len(run) /\ Len(run) \in Nat
        /\ run'[r].status = "cancelling" /\ \A q \in Runs : q # r => run'[q] = run[q]
    BY <1>1, <1>3, <2>1, <2>2, RunMoved
  <2>4. \A a \in Automation : AutoStep(a)
    BY <2>1, AutosUntouched
  <2>5. \A q \in Runs : run[q].status \in Unfinished => /\ run'[q].status \in Unfinished
                                                        /\ run'[q].status \notin Ended
    BY <2>3 DEF Unfinished, Ended
  <2>6. Moves /\ TodoFits' /\ todo' \in Seq(StepType(Len(run')))
    BY <1>1, <2>1, <2>3, <2>4, <2>5, BetweenCallbacks DEF Plain
  <2>7. TypesFit'
    BY <1>1, <2>1, <2>3, <2>6 DEF TypesFit, RestFits, Runs
  <2>8. ExecutionsFit'
    BY <1>1, <2>3 DEF AutomationsInv, ExecutionsFit, TypesFit, RestFits
  <2>9. EventsFit' /\ DeliveriesFit'
    BY <1>1, <2>3, <2>5, EventsUntouched, DeliveriesUntouched, NothingInTodo
  <2> QED BY <2>6, <2>7, <2>8, <2>9 DEF Stays
<1> QED BY <1>2, <1>3 DEF CancelRun

-----------------------------------------------------------------------------
(* Business events.                                                        *)

\* Rows of deliveries come or change, but none that waits for its run, and no
\* run takes the event of a row that is to be taken again.
LEMMA OnlyDeliveries ==
    ASSUME AutomationsInv, Ready, UNCHANGED <<auto, run, announced, executing, aborted, timer, phase,
                                              clock, starts, cut, todo>>,
           published' \subseteq Fact, faults' \in Nat,
           DOMAIN delivery \subseteq DOMAIN delivery',
           DOMAIN delivery' \subseteq Events \X Automation,
           \A k \in DOMAIN delivery' :
              /\ delivery'[k] \in Row(Len(run)) /\ RowFits(k)'
              /\ delivery'[k].status = "queued" =>
                    k \in DOMAIN delivery /\ delivery'[k] = delivery[k]
    PROVE  Moves /\ Stays
<1> USE DEF Ready
<1>1. RunsStep /\ Len(run) \in Nat /\ \A a \in Automation : AutoStep(a)
  BY RunsUntouched, AutosUntouched, LenProperties DEF AutomationsInv, TypesFit
<1>2. \A q \in Runs : ~(run[q].status \in Unfinished /\ run'[q].status \in Ended)
  BY DEF Unfinished, Ended
<1>3. Moves /\ TodoFits' /\ todo' \in Seq(StepType(Len(run')))
  BY <1>1, <1>2, BetweenCallbacks DEF Plain
<1>4. TypesFit'
  BY <1>3 DEF AutomationsInv, TypesFit, RestFits, Runs
<1>5. ExecutionsFit'
  BY ExecutionsUntouched
<1>6. EventsFit'
  BY DEF AutomationsInv, EventsFit, OccurrenceOnce, Runs
<1>7. DeliveriesFit'
  <2> SUFFICES ASSUME NEW k \in DOMAIN delivery', delivery'[k].status = "queued"
               PROVE  run'[delivery'[k].run].status \in Unfinished
    BY DEF DeliveriesFit
  <2> QED BY NothingInTodo DEF AutomationsInv, DeliveriesFit
<1> QED BY <1>1, <1>3, <1>4, <1>5, <1>6, <1>7 DEF Stays

LEMMA PublishFactStays ==
    ASSUME AutomationsInv, NEW f \in Fact, PublishFact(f)
    PROVE  Moves /\ Stays
<1> DEFINE new  == [status |-> "pending", attempts |-> 0, run |-> 0]
           matching == {a \in Automation : auto[a].live /\ auto[a].enabled
                                             /\ auto[a].kind = "event"}
           rows == {<<<<"fact", f>>, a>> : a \in matching}
<1>1. /\ f \notin published /\ published' = published \cup {f}
      /\ delivery' = [k \in DOMAIN delivery \cup rows |->
                        IF k \in rows THEN new ELSE delivery[k]]
      /\ UNCHANGED <<auto, run, announced, executing, aborted, timer, phase,
                     clock, starts, faults, cut, todo>>
  BY DEF PublishFact, unchangedProcess
<1>2. TypesFit /\ EventsFit /\ Len(run) \in Nat
  BY LenProperties DEF AutomationsInv, TypesFit
<1>3. /\ new \in Row(Len(run)) /\ new.status = "pending" /\ new.run = 0
  BY <1>2 DEF Row, Waiting
<1>4. \A k \in rows : /\ k \in Events \X Automation /\ k[1] = <<"fact", f>>
                      /\ k[1][1] = "fact" /\ k[1][2] = f
  BY DEF Events
<1> HIDE DEF new, rows
<1>5. /\ DOMAIN delivery' = DOMAIN delivery \cup rows
      /\ \A k \in DOMAIN delivery' :
            IF k \in rows THEN delivery'[k] = new
            ELSE k \in DOMAIN delivery /\ delivery'[k] = delivery[k]
  BY <1>1
<1>6. \A r \in Runs : <<run[r].event, run[r].of>> \notin rows
  <2> SUFFICES ASSUME NEW r \in Runs, <<run[r].event, run[r].of>> \in rows PROVE FALSE
    OBVIOUS
  <2>1. run[r].event[1] = "fact" /\ run[r].event[2] = f
    BY <1>4
  <2>2. RowFits(<<run[r].event, run[r].of>>)
    BY <1>2 DEF EventsFit
  <2> QED BY <1>1, <2>1, <2>2 DEF RowFits
<1>7. \A k \in DOMAIN delivery' :
         /\ delivery'[k] \in Row(Len(run)) /\ RowFits(k)'
         /\ delivery'[k].status = "queued" =>
               k \in DOMAIN delivery /\ delivery'[k] = delivery[k]
  <2> SUFFICES ASSUME NEW k \in DOMAIN delivery'
               PROVE  /\ delivery'[k] \in Row(Len(run)) /\ RowFits(k)'
                      /\ delivery'[k].status = "queued" =>
                            k \in DOMAIN delivery /\ delivery'[k] = delivery[k]
    OBVIOUS
  <2>1. CASE k \in rows
    <3>1. delivery'[k] = new /\ k[1][1] = "fact" /\ k[1][2] \in published'
      BY <1>1, <1>4, <1>5, <2>1
    <3>2. \A r \in Runs' : <<run'[r].event, run'[r].of>> # k
      BY <1>1, <1>6, <2>1 DEF Runs
    <3>3. RowFits(k)'
      BY <1>3, <3>1, <3>2 DEF RowFits
    <3> QED BY <1>3, <3>1, <3>3
  <2>2. CASE k \notin rows
    <3>1. k \in DOMAIN delivery /\ delivery'[k] = delivery[k]
      BY <1>5, <2>2
    <3>2. RowFits(k) /\ delivery[k] \in Row(Len(run))
      BY <1>2, <3>1 DEF EventsFit, TypesFit
    <3>3. RowFits(k)'
      BY <1>1, <3>1, <3>2 DEF RowFits, Runs
    <3> QED BY <3>1, <3>2, <3>3
  <2> QED BY <2>1, <2>2
<1>8. /\ Ready /\ published' \subseteq Fact /\ faults' \in Nat
      /\ DOMAIN delivery' \subseteq Events \X Automation
  BY <1>1, <1>2, <1>4, <1>5 DEF PublishFact, TypesFit, RestFits
<1> QED BY <1>1, <1>5, <1>7, <1>8, OnlyDeliveries

\* One row that is not waiting for a run changes to another such state.
LEMMA ReplayFactStays ==
    ASSUME AutomationsInv, NEW f \in Fact, ReplayFact(f)
    PROVE  Moves /\ Stays
<1> DEFINE dead == {k \in DOMAIN delivery : k[1] = <<"fact", f>>
                                              /\ delivery[k].status = "dead_letter"}
           x(k) == [delivery[k] EXCEPT !.status = "retrying", !.attempts = 0]
<1>1. /\ Ready
      /\ delivery' = [k \in DOMAIN delivery |-> IF k \in dead THEN x(k) ELSE delivery[k]]
      /\ UNCHANGED <<auto, run, published, announced, executing, aborted, timer, phase,
                     clock, starts, faults, cut, todo>>
  BY DEF ReplayFact, unchangedProcess
<1>2. TypesFit /\ EventsFit
  BY DEF AutomationsInv
<1>3. ASSUME NEW k \in DOMAIN delivery'
      PROVE  /\ delivery'[k] \in Row(Len(run)) /\ RowFits(k)'
             /\ delivery'[k].status = "queued" =>
                   k \in DOMAIN delivery /\ delivery'[k] = delivery[k]
  <2>1. k \in DOMAIN delivery /\ RowFits(k) /\ delivery[k] \in Row(Len(run))
    BY <1>1, <1>2 DEF EventsFit, TypesFit
  <2>2. CASE k \in dead
    <3>1. delivery'[k] = x(k) /\ k[1][1] = "fact" /\ delivery[k].status = "dead_letter"
      <4>1. k[1] = <<"fact", f>> /\ delivery[k].status = "dead_letter"
        BY <2>2
      <4>2. delivery'[k] = x(k)
        <5> HIDE DEF dead, x
        <5> QED BY <1>1, <2>1, <2>2
      <4>3. k[1][1] = "fact"
        BY <4>1
      <4> QED BY <4>1, <4>2, <4>3
    <3>2. x(k) \in Row(Len(run)) /\ x(k).status = "retrying" /\ x(k).run = delivery[k].run
      BY <2>1 DEF Row, Waiting
    <3> HIDE DEF x
    <3>3. RowFits(k)'
      BY <1>1, <2>1, <3>1, <3>2 DEF RowFits, Runs, Waiting
    <3> QED BY <3>1, <3>2, <3>3
  <2>3. CASE k \notin dead
    <3>1. delivery'[k] = delivery[k]
      BY <1>1, <2>1, <2>3
    <3>2. RowFits(k)'
      BY <1>1, <2>1, <3>1 DEF RowFits, Runs
    <3> QED BY <2>1, <3>1, <3>2
  <2> QED BY <2>2, <2>3
<1>4. /\ published' \subseteq Fact /\ faults' \in Nat
      /\ DOMAIN delivery' = DOMAIN delivery
      /\ DOMAIN delivery' \subseteq Events \X Automation
  BY <1>1, <1>2 DEF TypesFit, RestFits
<1> HIDE DEF dead, x
<1> QED BY <1>1, <1>3, <1>4, OnlyDeliveries

LEMMA TakeDeliveryStays ==
    ASSUME AutomationsInv, NEW k \in DOMAIN delivery, TakeDelivery(k)
    PROVE  Moves /\ Stays
<1> DEFINE a == k[2]
<1>1. /\ Ready /\ delivery[k].status \in Waiting
      /\ UNCHANGED <<published, announced, executing, aborted, timer, phase, clock, starts, cut>>
  BY DEF TakeDelivery
<1>2. /\ TypesFit /\ EventsFit /\ RowFits(k) /\ delivery[k] \in Row(Len(run))
      /\ k \in Events \X Automation /\ DOMAIN delivery \subseteq Events \X Automation
      /\ Len(run) \in Nat /\ faults \in Nat /\ published \subseteq Fact
  BY LenProperties DEF AutomationsInv, EventsFit, TypesFit, RestFits
<1>3. /\ a \in Automation /\ k[1] \in Events /\ k = <<k[1], a>> /\ k[1][1] = "fact"
      /\ k[1][2] \in published /\ \A r \in Runs : <<run[r].event, run[r].of>> # k
  BY <1>1, <1>2 DEF RowFits, Waiting
<1>4. ASSUME NEW x \in Row(Len(run)), x.status \in Waiting \cup {"dead_letter", "skipped"},
             Put(k, x), UNCHANGED <<auto, run, todo>>, faults' \in Nat
      PROVE  Moves /\ Stays
  <2>1. /\ DOMAIN delivery' = DOMAIN delivery /\ delivery'[k] = x
        /\ \A j \in DOMAIN delivery : j # k => delivery'[j] = delivery[j]
    BY <1>4 DEF Put
  <2>2. x.status # "queued"
    BY <1>4 DEF Waiting
  <2>3. ASSUME NEW j \in DOMAIN delivery'
        PROVE  /\ delivery'[j] \in Row(Len(run)) /\ RowFits(j)'
               /\ delivery'[j].status = "queued" =>
                     j \in DOMAIN delivery /\ delivery'[j] = delivery[j]
    <3>1. CASE j = k
      <4>1. RowFits(j)'
        BY <1>1, <1>3, <1>4, <2>1, <2>2, <3>1 DEF RowFits, Runs
      <4> QED BY <2>1, <2>2, <3>1, <4>1
    <3>2. CASE j # k
      <4>1. delivery'[j] = delivery[j] /\ delivery[j] \in Row(Len(run)) /\ RowFits(j)
        BY <1>2, <2>1, <3>2 DEF EventsFit, TypesFit
      <4>2. RowFits(j)'
        BY <1>1, <1>4, <4>1 DEF RowFits, Runs
      <4> QED BY <2>1, <4>1, <4>2
    <3> QED BY <3>1, <3>2
  <2>4. published' \subseteq Fact /\ DOMAIN delivery' \subseteq Events \X Automation
    BY <1>1, <1>2, <2>1
  <2> QED BY <1>1, <1>4, <2>1, <2>3, <2>4, OnlyDeliveries
<1>5. CASE /\ Put(k, [delivery[k] EXCEPT !.status = "skipped"])
           /\ UNCHANGED <<auto, run, todo, faults>>
  <2>1. /\ [delivery[k] EXCEPT !.status = "skipped"] \in Row(Len(run))
        /\ [delivery[k] EXCEPT !.status = "skipped"].status = "skipped"
    BY <1>2 DEF Row
  <2> QED BY <1>2, <1>4, <1>5, <2>1
<1>6. CASE /\ auto[a].running = 0 /\ QueueRun(a, k[1], FALSE) /\ Mark(k[1], a)
           /\ Then(<<<<"dispatch", Len(run) + 1>>>>) /\ UNCHANGED faults
  <2>1. /\ UNCHANGED <<published, announced>> /\ unchangedProcess
        /\ k[1][1] = "ask" => k[1][2] = Len(run) + 1
    BY <1>1, <1>3, <1>6 DEF unchangedProcess
  <2>2. \A r \in Runs : <<run[r].event, run[r].of>> # <<k[1], a>>
    BY <1>3
  <2> HIDE DEF a
  <2> QED BY <1>1, <1>3, <1>6, <2>1, <2>2, RunQueuedBetween
<1>7. CASE /\ faults' = faults + 1 /\ UNCHANGED <<auto, run, todo>>
           /\ Put(k, [delivery[k] EXCEPT
                        !.status = IF delivery[k].attempts + 1 >= MaxAttempts
                                   THEN "dead_letter" ELSE "retrying",
                        !.attempts = @ + 1])
  <2> DEFINE st == IF delivery[k].attempts + 1 >= MaxAttempts THEN "dead_letter" ELSE "retrying"
             n  == delivery[k].attempts + 1
             x  == [delivery[k] EXCEPT !.status = st, !.attempts = n]
  <2>1. n \in Nat /\ st \in {"dead_letter", "retrying"}
    BY <1>2 DEF Row
  <2>2. Put(k, x)
    BY <1>7
  <2>3. x \in Row(Len(run)) /\ x.status \in {"dead_letter", "retrying"}
    <3> HIDE DEF n, st
    <3> QED BY <1>2, <2>1 DEF Row, Waiting
  <2> HIDE DEF x
  <2> QED BY <1>2, <1>4, <1>7, <2>2, <2>3 DEF Waiting
<1> QED BY <1>5, <1>6, <1>7 DEF TakeDelivery

-----------------------------------------------------------------------------
(* The process between two callbacks.                                      *)

LEMMA Untouched ==
    ASSUME AutomationsInv, todo = <<>>, phase \in {"up", "stopping"}, phase' = phase \/ phase' = "stopping",
           UNCHANGED <<auto, run, delivery, published, announced, executing, starts, faults,
                       cut, todo>>,
           clock' \in Nat, timer' \in Nat, aborted \subseteq aborted', aborted' \subseteq executing
    PROVE  Moves /\ Stays
<1>1. RunsStep /\ Len(run) \in Nat /\ \A a \in Automation : AutoStep(a)
  BY RunsUntouched, AutosUntouched, LenProperties DEF AutomationsInv, TypesFit
<1>2. \A q \in Runs : ~(run[q].status \in Unfinished /\ run'[q].status \in Ended)
  BY DEF Unfinished, Ended
<1>3. Moves /\ TodoFits' /\ todo' \in Seq(StepType(Len(run')))
  BY <1>1, <1>2, BetweenCallbacks DEF Plain
<1>4. TypesFit'
  BY <1>3 DEF AutomationsInv, TypesFit, RestFits, Runs
<1>5. ExecutionsFit' /\ EventsFit'
  BY <1>1, ExecutionsUntouched, EventsUntouched
<1>6. DeliveriesFit'
  BY NothingInTodo, DeliveriesUntouched
<1> QED BY <1>3, <1>4, <1>5, <1>6 DEF Stays

LEMMA StopServiceStays ==
    ASSUME AutomationsInv, StopService
    PROVE  Moves /\ Stays
  BY Untouched DEF StopService, Ready, AutomationsInv, TypesFit, RestFits

\* Time may also pass while nothing runs.
LEMMA TickStays ==
    ASSUME AutomationsInv, Tick
    PROVE  Moves /\ Stays
<1>1. CASE phase \in {"up", "stopping"}
  BY <1>1, Untouched DEF Tick, AutomationsInv, TypesFit, RestFits
<1>2. CASE phase \in {"down", "starting"}
  <2>1. RunsStep /\ \A a \in Automation : AutoStep(a)
    BY RunsUntouched, AutosUntouched DEF AutomationsInv, Tick
  <2>2. Moves
    BY <2>1, AnnouncesUntouched, NothingInTodo DEF Moves, Tick, AutomationsInv
  <2>3. TypesFit'
    BY DEF Tick, AutomationsInv, TypesFit, RestFits, Runs
  <2>4. TodoFits'
    BY DEF Tick, AutomationsInv, TodoFits, StepsFit, RecoveryFits, InTodo, Steps, ByPhase, Follows, Expects,
           Runs
  <2>5. ExecutionsFit' /\ EventsFit' /\ DeliveriesFit'
    BY <2>1, ExecutionsUntouched, EventsUntouched, DeliveriesUntouched, NothingInTodo DEF Tick
  <2> QED BY <2>2, <2>3, <2>4, <2>5 DEF Stays
<1> QED BY <1>1, <1>2 DEF AutomationsInv, TypesFit, RestFits

LEMMA EndRunStays ==
    ASSUME AutomationsAssumption, AutomationsInv, NEW r \in executing, NEW status \in Ended,
           EndRun(r, status)
    PROVE  Moves /\ Stays
<1>1. /\ todo = <<>> /\ phase \in {"up", "stopping"}
      /\ r \in aborted => status \in {"cancelled", "timeout"}
      /\ run' = [run EXCEPT ![r].status = status] /\ auto' = Freed(r, status)
      /\ announced' = announced \cup {r} /\ executing' = executing \ {r}
      /\ aborted' = aborted \ {r} /\ todo' = <<Arm, <<"completed", r>>>>
      /\ UNCHANGED <<delivery, published, timer, phase, clock, starts, faults, cut>>
  BY DEF EndRun, Then
<1>2. /\ TypesFit /\ r \in Runs /\ run[r].status \in {"running", "cancelling"}
      /\ run[r].status = "cancelling" => r \in aborted
  BY DEF AutomationsInv, TypesFit, RestFits, ExecutionsFit
<1>3. /\ RunsStep /\ run' \in Seq(RunRow) /\ Len(run') = Len(run) /\ Len(run) \in Nat
      /\ run'[r].status = status /\ \A q \in Runs : q # r => run'[q] = run[q]
  <2>1. run[r].status \in Unfinished /\ status \in Unfinished \cup Ended
    BY <1>2 DEF Unfinished
  <2>2. run[r].status = "cancelling" => status \in {"cancelling", "cancelled", "timeout"}
    BY <1>1, <1>2
  <2> QED BY <1>1, <1>2, <2>1, <2>2, RunMoved
<1>4. /\ auto' \in [Automation -> AutoRow]
      /\ \A a \in Automation : AutoStep(a) /\ auto'[a].running \in 0..Len(run)
  BY <1>1, <1>2, <1>3, FreedSteps
<1>5. \A q \in Runs : run[q].status \in Unfinished /\ run'[q].status \in Ended
                        => q \in announced'
  BY <1>1, <1>3 DEF Unfinished, Ended
<1>6. Moves /\ TodoFits' /\ todo' \in Seq(StepType(Len(run')))
  BY <1>1, <1>2, <1>3, <1>4, <1>5, BetweenCallbacks DEF Plain, Runs
<1>7. TypesFit'
  <2>1. RestFits'
    BY <1>1, <1>2, <1>3 DEF TypesFit, RestFits, Runs
  <2> QED BY <1>1, <1>2, <1>3, <1>4, <1>6, <2>1 DEF TypesFit
<1>8. ExecutionsFit'
  BY <1>1, <1>3 DEF AutomationsInv, ExecutionsFit, TypesFit, RestFits
<1>9. InTodo(<<"completed", r>>)'
  BY <1>1 DEF InTodo, Steps
<1>10. EventsFit' /\ DeliveriesFit'
  BY <1>1, <1>3, <1>9, EventsUntouched, DeliveriesUntouched, NothingInTodo
<1> QED BY <1>6, <1>7, <1>8, <1>10 DEF Stays

-----------------------------------------------------------------------------
(* The next step of a callback.                                            *)

\* The recovery of a run is not dropped with a step that is done.
LEMMA NextStep ==
    ASSUME AutomationsInv, todo # <<>>, Done, UNCHANGED phase, Len(run') = Len(run),
           executing \subseteq executing',
           \A i \in Steps' : Expects(todo[i])',
           \A r \in Runs : run'[r].status \in Unfinished => run[r].status \in Unfinished,
           \A r \in Runs : todo[1] \in {<<"recover", r>>, <<"dispatch", r>>}
                              /\ phase = "starting" /\ run'[r].status \in Unfinished
                             => r \in executing'
    PROVE  TodoFits' /\ todo' \in Seq(StepType(Len(run')))
<1>1. TypesFit /\ todo' = Tail(todo)
  BY DEF AutomationsInv, Done
<1>2. todo' \in Seq(StepType(Len(run')))
  BY <1>1, Popped DEF TypesFit
<1>3. StepsFit'
  BY <1>1, StillFits
<1>4. RecoveryFits'
  <2> SUFFICES ASSUME InTodo(<<"recompute", 0>>)', NEW r \in Runs,
                      run'[r].status \in Unfinished
               PROVE  \/ r \in executing' \/ InTodo(<<"recover", r>>)'
                      \/ InTodo(<<"dispatch", r>>)'
    BY DEF RecoveryFits, InTodo, Steps, Runs
  <2>1. InTodo(<<"recompute", 0>>)
    BY <1>1, StillInTodo
  <2>2. phase = "starting"
    BY <2>1 DEF InTodo, AutomationsInv, TodoFits, StepsFit, ByPhase
  <2>3. r \in executing \/ InTodo(<<"recover", r>>) \/ InTodo(<<"dispatch", r>>)
    BY <2>1 DEF AutomationsInv, TodoFits, RecoveryFits
  <2>4. CASE todo[1] \in {<<"recover", r>>, <<"dispatch", r>>}
    BY <2>2, <2>4
  <2>5. CASE todo[1] \notin {<<"recover", r>>, <<"dispatch", r>>}
    BY <1>1, <2>3, <2>5, StillInTodo
  <2> QED BY <2>4, <2>5
<1> QED BY <1>2, <1>3, <1>4 DEF TodoFits

LEMMA ExpectsKept ==
    ASSUME AutomationsInv, todo # <<>>, Done, UNCHANGED <<phase, run, auto, executing>>
    PROVE  \A i \in Steps' : Expects(todo[i])'
<1> SUFFICES ASSUME NEW i \in Steps' PROVE Expects(todo[i])'
  OBVIOUS
<1>1. todo'[i] = todo[i + 1] /\ Expects(todo[i + 1])
  BY StillFits DEF Done
<1> QED BY <1>1 DEF Expects

\* Steps that change neither the automations nor their runs
LEMMA QuietStep ==
    ASSUME AutomationsInv, todo # <<>>, Done,
           UNCHANGED <<phase, run, auto, executing, aborted, cut, published>>,
           announced \subseteq announced', announced' \subseteq Runs,
           {timer', clock', starts', faults'} \subseteq Nat,
           \A r \in Runs : todo[1] = <<"announce", r>> => r \in announced',
           phase = "starting" => todo[1][1] \notin {"recover", "dispatch"}
    PROVE  /\ Moves /\ TodoFits' /\ ExecutionsFit'
           /\ DOMAIN delivery' \subseteq Events \X Automation
                /\ (\A k \in DOMAIN delivery' : delivery'[k] \in Row(Len(run))) => TypesFit'
<1>1. TypesFit /\ RestFits /\ todo' = Tail(todo)
  BY DEF AutomationsInv, TypesFit, Done
<1>2. RunsStep /\ \A a \in Automation : AutoStep(a)
  BY <1>1, RunsUntouched, AutosUntouched
<1>3. AnnounceStep
  <2> SUFFICES ASSUME NEW r \in Runs,
                      \/ InTodo(<<"announce", r>>)
                      \/ run[r].status \in Unfinished /\ run'[r].status \in Ended
               PROVE  r \in announced' \cup cut' \/ InTodo(<<"announce", r>>)'
    BY DEF AnnounceStep
  <2>1. InTodo(<<"announce", r>>)
    BY DEF Unfinished, Ended
  <2> QED BY <1>1, <2>1, StillInTodo
<1>4. TodoFits' /\ todo' \in Seq(StepType(Len(run')))
  <2>1. \A i \in Steps' : Expects(todo[i])'
    BY ExpectsKept
  <2>2. \A r \in Runs : todo[1] \in {<<"recover", r>>, <<"dispatch", r>>}
                             => phase # "starting"
    OBVIOUS
  <2> QED BY <2>1, <2>2, NextStep
<1>5. ExecutionsFit'
  BY ExecutionsUntouched
<1>6. RestFits'
  BY <1>1 DEF RestFits, Runs
<1> QED BY <1>1, <1>2, <1>3, <1>4, <1>5, <1>6 DEF Moves, TypesFit

LEMMA ArmedType ==
    ASSUME TypesFit
    PROVE  Armed(auto, executing) \in Nat
<1> DEFINE due == {a \in Automation : auto[a].live /\ auto[a].enabled /\ auto[a].next # 0
                                     /\ auto[a].running = 0}
           T   == {auto[a].next : a \in due}
<1>1. CASE due # {}
  <2>1. T \subseteq Nat /\ T # {}
    <3>1. \A a \in Automation : auto[a].next \in Nat
      BY DEF TypesFit, AutoRow
    <3>2. T \subseteq Nat
      BY <3>1
    <3>3. PICK a \in due : TRUE
      BY <1>1
    <3>4. auto[a].next \in T
      OBVIOUS
    <3> QED BY <3>2, <3>4
  <2>2. PICK m \in T : \A t \in T : m <= t
    <3> HIDE DEF T
    <3> QED BY <2>1, Earliest
  <2>3. \E t \in T : \A a \in due : t <= auto[a].next
    BY <2>2
  <2>4. (CHOOSE t \in T : \A a \in due : t <= auto[a].next) \in T
    BY <2>3
  <2>5. Armed(auto, executing) =
           IF Cardinality(executing) >= Slots \/ due = {} THEN 0
           ELSE CHOOSE t \in T : \A a \in due : t <= auto[a].next
    BY Zenon DEF Armed
  <2> DEFINE t == CHOOSE t \in T : \A a \in due : t <= auto[a].next
  <2>6. t \in Nat
    BY <2>1, <2>4
  <2> HIDE DEF t, T, due
  <2> QED BY <2>5, <2>6 DEF t
<1>2. CASE due = {}
  BY <1>2 DEF Armed
<1> QED BY <1>1, <1>2

LEMMA RearmTimerStays ==
    ASSUME AutomationsInv, RearmTimer
    PROVE  Moves /\ Stays
<1>1. /\ todo # <<>> /\ todo[1][1] = "arm" /\ Done
      /\ timer' = IF phase = "stopping" THEN timer ELSE Armed(auto, executing)
      /\ UNCHANGED <<auto, run, delivery, published, announced, executing, aborted,
                     phase, clock, starts, faults, cut>>
  BY DEF RearmTimer, Step
<1>2. TypesFit /\ timer' \in Nat
  BY <1>1, ArmedType DEF AutomationsInv, TypesFit, RestFits
<1>3. Moves /\ TodoFits' /\ ExecutionsFit' /\ TypesFit'
  <2>1. announced \subseteq announced' /\ announced' \subseteq Runs
        /\ {timer', clock', starts', faults'} \subseteq Nat
    BY <1>1, <1>2 DEF TypesFit, RestFits
  <2>2. /\ DOMAIN delivery' \subseteq Events \X Automation
        /\ \A k \in DOMAIN delivery' : delivery'[k] \in Row(Len(run))
    BY <1>1, <1>2 DEF TypesFit
  <2>3. /\ phase = "starting" => todo[1][1] \notin {"recover", "dispatch"}
        /\ \A r \in Runs : todo[1] = <<"announce", r>> => r \in announced'
    BY <1>1
  <2> QED BY <1>1, <2>1, <2>2, <2>3, QuietStep
<1>4. EventsFit' /\ DeliveriesFit'
  <2>1. \A r \in Runs : InTodo(<<"completed", r>>) => InTodo(<<"completed", r>>)'
    BY <1>1, <1>2, StillInTodo DEF Done
  <2> QED BY <1>1, <1>3, <2>1, EventsUntouched, DeliveriesUntouched DEF Moves
<1> QED BY <1>3, <1>4 DEF Stays

LEMMA DispatchFailsStays ==
    ASSUME AutomationsInv, DispatchFails
    PROVE  Moves /\ Stays
<1>1. /\ todo # <<>> /\ todo[1][1] = "dispatch" /\ Done /\ phase = "up" /\ faults' = faults + 1
      /\ UNCHANGED <<auto, run, delivery, published, announced, executing, aborted, timer,
                     phase, clock, starts, cut>>
  BY DEF DispatchFails, Step
<1>2. TypesFit
  BY DEF AutomationsInv
<1>3. Moves /\ TodoFits' /\ ExecutionsFit' /\ TypesFit'
  <2>1. announced \subseteq announced' /\ announced' \subseteq Runs
        /\ {timer', clock', starts', faults'} \subseteq Nat
    BY <1>1, <1>2 DEF TypesFit, RestFits
  <2>2. /\ DOMAIN delivery' \subseteq Events \X Automation
        /\ \A k \in DOMAIN delivery' : delivery'[k] \in Row(Len(run))
    BY <1>1, <1>2 DEF TypesFit
  <2>3. /\ phase = "starting" => todo[1][1] \notin {"recover", "dispatch"}
        /\ \A r \in Runs : todo[1] = <<"announce", r>> => r \in announced'
    BY <1>1
  <2> QED BY <1>1, <2>1, <2>2, <2>3, QuietStep
<1>4. EventsFit' /\ DeliveriesFit'
  <2>1. \A r \in Runs : InTodo(<<"completed", r>>) => InTodo(<<"completed", r>>)'
    BY <1>1, <1>2, StillInTodo DEF Done
  <2> QED BY <1>1, <1>3, <2>1, EventsUntouched, DeliveriesUntouched DEF Moves
<1> QED BY <1>3, <1>4 DEF Stays

LEMMA AnnounceRecoveredStays ==
    ASSUME AutomationsInv, AnnounceRecovered
    PROVE  Moves /\ Stays
<1>1. /\ todo # <<>> /\ todo[1][1] = "announce" /\ Done
      /\ announced' = announced \cup {todo[1][2]}
      /\ UNCHANGED <<auto, run, delivery, published, executing, aborted, timer,
                     phase, clock, starts, faults, cut>>
  BY DEF AnnounceRecovered, Step, Subject, unchangedProcess
<1>2. TypesFit /\ todo[1][2] \in Runs
  <2>1. todo[1] \in StepType(Len(run))
    BY <1>1, Popped DEF AutomationsInv, TypesFit
  <2> QED BY <1>1, <2>1 DEF AutomationsInv, StepType, Runs
<1>3. Moves /\ TodoFits' /\ ExecutionsFit' /\ TypesFit'
  <2>1. announced \subseteq announced' /\ announced' \subseteq Runs
        /\ {timer', clock', starts', faults'} \subseteq Nat
    BY <1>1, <1>2 DEF TypesFit, RestFits
  <2>2. /\ DOMAIN delivery' \subseteq Events \X Automation
        /\ \A k \in DOMAIN delivery' : delivery'[k] \in Row(Len(run))
    BY <1>1, <1>2 DEF TypesFit
  <2>3. /\ phase = "starting" => todo[1][1] \notin {"recover", "dispatch"}
        /\ \A r \in Runs : todo[1] = <<"announce", r>> => r \in announced'
    BY <1>1
  <2> QED BY <1>1, <2>1, <2>2, <2>3, QuietStep
<1>4. EventsFit' /\ DeliveriesFit'
  <2>1. \A r \in Runs : InTodo(<<"completed", r>>) => InTodo(<<"completed", r>>)'
    BY <1>1, <1>2, StillInTodo DEF Done
  <2> QED BY <1>1, <1>3, <2>1, EventsUntouched, DeliveriesUntouched DEF Moves
<1> QED BY <1>3, <1>4 DEF Stays

\* completeAutomationEventDelivery changes nothing but the status, and leaves
\* no delivery of these runs waiting for a run that has ended.
LEMMA SettledType ==
    ASSUME TypesFit, NEW k \in DOMAIN delivery
    PROVE  LET x == Settled(k)
           IN  /\ x \in Row(Len(run)) /\ x.run = delivery[k].run
               /\ \/ x = delivery[k]
                  \/ /\ delivery[k].status = "queued"
                     /\ x.status \in {"completed", "cancelled", "failed"}
               /\ x.status = "queued" => run[delivery[k].run].status \notin Ended
<1> DEFINE status == run[delivery[k].run].status
           y == [delivery[k] EXCEPT !.status = DeliveryStatus(status)]
<1>1. delivery[k] \in Row(Len(run))
  BY DEF TypesFit
<1>2. DeliveryStatus(status) \in {"completed", "cancelled", "failed"}
  BY DEF DeliveryStatus
<1>3. y \in Row(Len(run)) /\ y.run = delivery[k].run /\ y.status = DeliveryStatus(status)
  <2> HIDE DEF status
  <2> QED BY <1>1, <1>2 DEF Row
<1>4. Settled(k) = IF delivery[k].status = "queued" /\ status \in Ended THEN y ELSE delivery[k]
  BY DEF Settled
<1>5. "queued" \notin {"completed", "cancelled", "failed"}
  OBVIOUS
<1> HIDE DEF y, status
<1>6. CASE delivery[k].status = "queued" /\ status \in Ended
  BY <1>2, <1>3, <1>4, <1>5, <1>6
<1>7. CASE ~(delivery[k].status = "queued" /\ status \in Ended)
  BY <1>1, <1>4, <1>7 DEF status
<1> QED BY <1>6, <1>7

LEMMA Settles ==
    ASSUME AutomationsInv, NEW rs, SettleDeliveries(rs), UNCHANGED <<run, published>>
    PROVE  /\ EventsFit' /\ DOMAIN delivery' \subseteq Events \X Automation
           /\ DOMAIN delivery' = DOMAIN delivery
           /\ \A k \in DOMAIN delivery :
                 /\ delivery'[k] \in Row(Len(run)) /\ delivery'[k].run = delivery[k].run
                 /\ delivery'[k].status = "queued" =>
                       /\ delivery[k].status = "queued"
                       /\ delivery[k].run \in rs => run[delivery[k].run].status \notin Ended
<1>1. /\ DOMAIN delivery' = DOMAIN delivery
      /\ \A k \in DOMAIN delivery :
            delivery'[k] = IF delivery[k].run \in rs THEN Settled(k) ELSE delivery[k]
  BY DEF SettleDeliveries
<1>2. TypesFit /\ EventsFit
  BY DEF AutomationsInv
<1>3. \A k \in DOMAIN delivery :
         /\ delivery[k] \in Row(Len(run)) /\ delivery'[k] \in Row(Len(run))
         /\ delivery'[k].run = delivery[k].run
         /\ \/ delivery'[k] = delivery[k]
            \/ /\ delivery[k].status = "queued"
               /\ delivery'[k].status \in {"completed", "cancelled", "failed"}
         /\ delivery'[k].status = "queued" /\ delivery[k].run \in rs =>
               run[delivery[k].run].status \notin Ended
  <2> SUFFICES ASSUME NEW k \in DOMAIN delivery
               PROVE  /\ delivery[k] \in Row(Len(run)) /\ delivery'[k] \in Row(Len(run))
                      /\ delivery'[k].run = delivery[k].run
                      /\ \/ delivery'[k] = delivery[k]
                         \/ /\ delivery[k].status = "queued"
                            /\ delivery'[k].status \in {"completed", "cancelled", "failed"}
                      /\ delivery'[k].status = "queued" /\ delivery[k].run \in rs =>
                            run[delivery[k].run].status \notin Ended
    OBVIOUS
  <2>1. delivery[k] \in Row(Len(run))
    BY <1>2 DEF TypesFit
  <2>2. CASE delivery[k].run \in rs
    <3>1. delivery'[k] = Settled(k)
      BY <1>1, <2>2
    <3>2. /\ Settled(k) \in Row(Len(run)) /\ Settled(k).run = delivery[k].run
          /\ \/ Settled(k) = delivery[k]
             \/ /\ delivery[k].status = "queued"
                /\ Settled(k).status \in {"completed", "cancelled", "failed"}
          /\ Settled(k).status = "queued" => run[delivery[k].run].status \notin Ended
      BY <1>2, SettledType
    <3> QED BY <2>1, <3>1, <3>2
  <2>3. CASE delivery[k].run \notin rs
    BY <1>1, <2>1, <2>3
  <2> QED BY <2>2, <2>3
<1>4. \A k \in DOMAIN delivery : RowFits(k)'
  <2> SUFFICES ASSUME NEW k \in DOMAIN delivery PROVE RowFits(k)'
    OBVIOUS
  <2>1. RowFits(k)
    BY <1>2 DEF EventsFit
  <2>2. CASE delivery'[k] = delivery[k]
    BY <2>1, <2>2 DEF RowFits, Runs
  <2>3. CASE /\ delivery[k].status = "queued"
             /\ delivery'[k].status \in {"completed", "cancelled", "failed"}
    BY <1>3, <2>1, <2>3 DEF RowFits, Runs, Waiting
  <2> QED BY <1>3, <2>2, <2>3
<1>5. EventsFit'
  BY <1>1, <1>2, <1>4 DEF EventsFit, OccurrenceOnce, Runs
<1>6. \A k \in DOMAIN delivery : delivery'[k].status = "queued" => delivery[k].status = "queued"
  BY <1>3
<1>7. DOMAIN delivery' \subseteq Events \X Automation
  BY <1>1, <1>2 DEF TypesFit
<1> QED BY <1>1, <1>3, <1>5, <1>6, <1>7

LEMMA CompletedStays ==
    ASSUME AutomationsInv, Completed
    PROVE  Moves /\ Stays
<1>1. /\ todo # <<>> /\ todo[1][1] = "completed" /\ Done /\ SettleDeliveries({todo[1][2]})
      /\ UNCHANGED <<auto, run, published, announced, executing, aborted, timer,
                     phase, clock, starts, faults, cut>>
  BY DEF Completed, Step, Subject, unchangedProcess
<1>2. TypesFit /\ todo[1] = <<"completed", todo[1][2]>>
  <2>1. todo[1] \in StepType(Len(run))
    BY <1>1, Popped DEF AutomationsInv, TypesFit
  <2> QED BY <1>1, <2>1 DEF AutomationsInv, StepType
<1>3. /\ EventsFit' /\ DOMAIN delivery' \subseteq Events \X Automation
      /\ DOMAIN delivery' = DOMAIN delivery
      /\ \A k \in DOMAIN delivery :
            /\ delivery'[k] \in Row(Len(run)) /\ delivery'[k].run = delivery[k].run
            /\ delivery'[k].status = "queued" =>
                  /\ delivery[k].status = "queued"
                  /\ delivery[k].run = todo[1][2] => run[delivery[k].run].status \notin Ended
  BY <1>1, Settles
<1>4. Moves /\ TodoFits' /\ ExecutionsFit' /\ TypesFit'
  <2>1. announced \subseteq announced' /\ announced' \subseteq Runs
        /\ {timer', clock', starts', faults'} \subseteq Nat
    BY <1>1, <1>2 DEF TypesFit, RestFits
  <2>2. /\ phase = "starting" => todo[1][1] \notin {"recover", "dispatch"}
        /\ \A r \in Runs : todo[1] = <<"announce", r>> => r \in announced'
    BY <1>1
  <2> QED BY <1>1, <1>3, <2>1, <2>2, QuietStep
<1>5. DeliveriesFit'
  <2> SUFFICES ASSUME phase' = "up", NEW k \in DOMAIN delivery, delivery'[k].status = "queued"
               PROVE  run'[delivery'[k].run].status \in Unfinished
                      \/ InTodo(<<"completed", delivery[k].run>>)'
    BY <1>3 DEF DeliveriesFit, InTodo, Steps
  <2>1. delivery[k].status = "queued" /\ delivery'[k].run = delivery[k].run
    BY <1>3
  <2>2. delivery[k].run \in Runs /\ run[delivery[k].run].status \in Unfinished \cup Ended
    <3>1. delivery[k].run \in Runs
      BY <1>2, <2>1, LenProperties DEF AutomationsInv, TypesFit, Row, EventsFit, RowFits, Runs
    <3> QED BY <1>2, <3>1, RunTyped DEF TypesFit, Runs
  <2>3. run[delivery[k].run].status \in Unfinished \/ InTodo(<<"completed", delivery[k].run>>)
    BY <1>1, <2>1 DEF AutomationsInv, DeliveriesFit
  <2>4. CASE delivery[k].run = todo[1][2]
    BY <1>1, <1>3, <2>1, <2>2, <2>4
  <2>5. CASE delivery[k].run # todo[1][2]
    <3>1. <<"completed", delivery[k].run>> # todo[1]
      BY <1>2, <2>5
    <3> QED BY <1>1, <1>2, <2>1, <2>3, <3>1, StillInTodo DEF Done
  <2> QED BY <2>4, <2>5
<1> QED BY <1>3, <1>4, <1>5 DEF Stays

LEMMA OpenServiceStays ==
    ASSUME AutomationsInv, OpenService
    PROVE  Moves /\ Stays
<1>1. /\ todo # <<>> /\ todo[1][1] = "open" /\ Done /\ phase' = "up" /\ SettleDeliveries(Runs)
      /\ UNCHANGED <<auto, run, published, announced, executing, aborted, timer,
                     clock, starts, faults, cut>>
  BY DEF OpenService, Step, Reconciled
<1>2. TypesFit /\ RestFits /\ todo' = Tail(todo)
  BY <1>1 DEF AutomationsInv, TypesFit, Done
<1>3. todo' \in Seq(StepType(Len(run))) /\ Len(todo') \in Nat /\ Steps' = {}
  <2>1. /\ Tail(todo) \in Seq(StepType(Len(run))) /\ Len(todo) \in Nat \ {0}
        /\ Len(Tail(todo)) = Len(todo) - 1
        /\ \A i \in 1..Len(Tail(todo)) : i + 1 \in 1..Len(todo)
    BY <1>1, <1>2, Popped DEF TypesFit
  <2>2. \A i \in Steps' : FALSE
    <3> SUFFICES ASSUME NEW i \in Steps' PROVE FALSE
      OBVIOUS
    <3>1. 1 \in Steps /\ i + 1 \in Steps /\ 1 < i + 1
      BY <1>2, <2>1 DEF Steps
    <3>2. Follows(todo[1], todo[i + 1])
      BY <3>1 DEF AutomationsInv, TodoFits, StepsFit
    <3> QED BY <1>1, <3>2 DEF Follows
  <2> QED BY <1>2, <2>1, <2>2
<1>4. \A r \in Runs : InTodo(<<"announce", r>>) => InTodo(<<"announce", r>>)'
  BY <1>1, <1>2, StillInTodo
<1>5. Moves
  BY <1>1, <1>2, <1>4, RunsUntouched, AutosUntouched, AnnouncesUntouched DEF Moves
<1>6. TodoFits'
  BY <1>1, <1>3, PlainTodo
<1>7. ExecutionsFit'
  BY <1>1, ExecutionsUntouched
<1>8. /\ EventsFit' /\ DOMAIN delivery' \subseteq Events \X Automation
      /\ DOMAIN delivery' = DOMAIN delivery
      /\ \A k \in DOMAIN delivery :
            /\ delivery'[k] \in Row(Len(run)) /\ delivery'[k].run = delivery[k].run
            /\ delivery'[k].status = "queued" =>
                  /\ delivery[k].status = "queued"
                  /\ delivery[k].run \in Runs => run[delivery[k].run].status \notin Ended
  BY <1>1, Settles
<1>9. TypesFit'
  <2>1. RestFits'
    BY <1>1, <1>2 DEF RestFits, Runs
  <2> QED BY <1>1, <1>2, <1>3, <1>8, <2>1 DEF TypesFit
<1>10. DeliveriesFit'
  <2> SUFFICES ASSUME NEW k \in DOMAIN delivery, delivery'[k].status = "queued"
               PROVE  run'[delivery'[k].run].status \in Unfinished
    BY <1>8 DEF DeliveriesFit
  <2>1. delivery[k].status = "queued" /\ delivery'[k].run = delivery[k].run
    BY <1>8
  <2>2. delivery[k].run \in Runs
    BY <1>2, <2>1, LenProperties DEF AutomationsInv, TypesFit, Row, EventsFit, RowFits, Runs
  <2>3. run[delivery[k].run].status \in Unfinished \cup Ended
    BY <1>2, <2>2, RunTyped DEF TypesFit, Runs
  <2> QED BY <1>1, <1>8, <2>1, <2>2, <2>3
<1> QED BY <1>5, <1>6, <1>7, <1>8, <1>9, <1>10 DEF Stays

LEMMA FreeRecoveredStays ==
    ASSUME AutomationsAssumption, AutomationsInv, FreeRecovered
    PROVE  Moves /\ Stays
<1> DEFINE r == todo[1][2]
<1>1. /\ todo # <<>> /\ todo[1][1] = "free" /\ Done /\ auto' = Freed(r, run[r].status)
      /\ UNCHANGED <<run, delivery, published, announced, executing, aborted, timer,
                     phase, clock, starts, faults, cut>>
  BY DEF FreeRecovered, Step, Subject, unchangedProcess
<1>2. /\ TypesFit /\ RestFits /\ todo' = Tail(todo) /\ r \in Runs /\ run[r].status \in Ended
  <2>1. todo[1] \in StepType(Len(run)) /\ Len(todo) \in Nat \ {0}
    BY <1>1, Popped DEF AutomationsInv, TypesFit
  <2>2. r \in Runs
    BY <1>1, <2>1 DEF StepType, Runs
  <2>3. Expects(todo[1])
    BY <2>1 DEF AutomationsInv, TodoFits, Steps
  <2> QED BY <1>1, <2>2, <2>3 DEF AutomationsInv, TypesFit, Done, Expects
<1> HIDE DEF r
<1>3. /\ auto' \in [Automation -> AutoRow]
      /\ \A a \in Automation : AutoStep(a) /\ auto'[a].running \in 0..Len(run)
  BY <1>1, <1>2, FreedSteps
<1>4. \A a \in Automation :
         \/ auto'[a] = auto[a]
         \/ /\ auto'[a].live = auto[a].live /\ auto[a].running = r /\ auto'[a].running = 0
  BY <1>1, <1>2, FreedType
<1>5. \A i \in Steps' : Expects(todo[i])'
  <2> SUFFICES ASSUME NEW i \in Steps' PROVE Expects(todo[i])'
    OBVIOUS
  <2> DEFINE e == todo[i + 1]
  <2>1. todo'[i] = e /\ Expects(e) /\ e \in StepType(Len(run))
    <3>1. todo'[i] = todo[i + 1] /\ Expects(todo[i + 1]) /\ i + 1 \in Steps
      BY <1>1, <1>2, StillFits
    <3>2. todo[i + 1] \in StepType(Len(run))
      BY <1>2, <3>1, LenProperties, ElementOfSeq DEF TypesFit, Steps
    <3> QED BY <3>1, <3>2
  <2>2. e[1] = "due" => e[2] \in Automation
    BY <2>1 DEF StepType
  <2>3. e[1] = "dispatch" => e[2] \in Runs /\ run[e[2]].of \in Automation
    <3>1. e[1] = "dispatch" => e[2] \in Runs
      BY <2>1 DEF StepType, Runs
    <3> QED BY <1>2, <3>1, RunTyped DEF TypesFit, Runs
  <2> HIDE DEF e
  <2>4. e[1] = "due" => auto'[e[2]].running = 0
    BY <1>4, <2>1, <2>2 DEF Expects
  <2>5. e[1] = "dispatch" /\ phase = "starting" =>
           auto'[run[e[2]].of].live /\ auto'[run[e[2]].of].running = e[2]
    <3>1. "queued" \notin Ended
      BY DEF Ended
    <3> QED BY <1>2, <1>4, <2>1, <2>3, <3>1 DEF Expects
  <2> QED BY <1>1, <2>1, <2>4, <2>5 DEF Expects
<1>6. TodoFits' /\ todo' \in Seq(StepType(Len(run')))
  <2>1. \A q \in Runs : todo[1] \notin {<<"recover", q>>, <<"dispatch", q>>}
    BY <1>1
  <2> QED BY <1>1, <1>5, <2>1, NextStep
<1>7. /\ \A q \in Runs : InTodo(<<"announce", q>>) => InTodo(<<"announce", q>>)'
      /\ \A q \in Runs : InTodo(<<"completed", q>>) => InTodo(<<"completed", q>>)'
  BY <1>1, <1>2, StillInTodo
<1>8. Moves
  BY <1>1, <1>2, <1>3, <1>7, RunsUntouched, AnnouncesUntouched DEF Moves
<1>9. TypesFit'
  <2>1. RestFits'
    BY <1>1, <1>2 DEF RestFits, Runs
  <2> QED BY <1>1, <1>2, <1>3, <1>6, <2>1 DEF TypesFit
<1>10. ExecutionsFit'
  BY <1>1, ExecutionsUntouched
<1>11. EventsFit' /\ DeliveriesFit'
  BY <1>1, <1>7, <1>8, EventsUntouched, DeliveriesUntouched DEF Moves
<1> QED BY <1>6, <1>8, <1>9, <1>10, <1>11 DEF Stays

\* recomputeNextRuns lets go of a run only that the process does not execute.
LEMMA RecomputedType ==
    ASSUME TypesFit, NEW x \in AutoRow
    PROVE  LET y == Recomputed(x)
           IN  /\ y \in AutoRow /\ y.live = x.live /\ y.gen = x.gen
               /\ \/ y.running = x.running
                  \/ y.running = 0 /\ x.running # 0 /\ x.running \notin executing
<1> DEFINE stale == x.running # 0 /\ x.running \notin executing
           z == [x EXCEPT !.running = 0, !.failures = x.failures + 1]
           y == IF stale THEN z ELSE x
<1>1. /\ z \in AutoRow /\ z.live = x.live /\ z.gen = x.gen /\ z.running = 0
  <2> DEFINE n == x.failures + 1
  <2>1. n \in Nat
    BY DEF AutoRow
  <2> HIDE DEF n
  <2>2. LET w == [x EXCEPT !.running = 0, !.failures = n]
        IN  w \in AutoRow /\ w.live = x.live /\ w.gen = x.gen /\ w.running = 0
    BY <2>1 DEF AutoRow
  <2> QED BY <2>2 DEF n
<1>2. /\ y \in AutoRow /\ y.live = x.live /\ y.gen = x.gen
      /\ \/ y.running = x.running
         \/ y.running = 0 /\ x.running # 0 /\ x.running \notin executing
  <2> HIDE DEF z
  <2>1. CASE stale
    <3>1. y = z
      BY <2>1
    <3> HIDE DEF y
    <3> QED BY <1>1, <2>1, <3>1
  <2>2. CASE ~stale
    <3>1. y = x
      BY <2>2
    <3> HIDE DEF y
    <3> QED BY <3>1
  <2> QED BY <2>1, <2>2
<1>3. Recomputed(x) = IF ~x.live THEN x
                      ELSE IF Due(y) /\ y.running = 0 THEN y
                      ELSE Rescheduled(y, clock)
  BY DEF Recomputed
<1>4. clock \in Nat
  BY DEF TypesFit, RestFits
<1> HIDE DEF y, z
<1>5. Rescheduled(y, clock) \in AutoRow /\ Same(y, Rescheduled(y, clock))
  BY <1>2, <1>4, RescheduledType
<1> QED BY <1>2, <1>3, <1>5 DEF Same

LEMMA RecomputeStays ==
    ASSUME AutomationsInv, Recompute
    PROVE  Moves /\ Stays
<1>1. /\ todo # <<>> /\ todo[1][1] = "recompute" /\ Done
      /\ auto' = [a \in Automation |-> Recomputed(auto[a])]
      /\ UNCHANGED <<run, delivery, published, announced, executing, aborted, timer,
                     phase, clock, starts, faults, cut>>
  BY DEF Recompute, Step, unchangedProcess
<1>2. /\ TypesFit /\ RestFits /\ todo' = Tail(todo) /\ Len(todo) \in Nat \ {0}
      /\ todo[1] = <<"recompute", 0>>
  <2>1. todo[1] \in StepType(Len(run)) /\ Len(todo) \in Nat \ {0}
    BY <1>1, Popped DEF AutomationsInv, TypesFit
  <2>2. todo[1] = <<"recompute", 0>>
    BY <1>1, <2>1 DEF StepType
  <2> QED BY <1>1, <2>1, <2>2 DEF AutomationsInv, TypesFit, Done
<1>3. \A i \in Steps' : todo'[i][1] \in {"arm", "open"}
  BY <1>1, <1>2, StillFits DEF Follows
<1>4. \A q \in Runs : run[q].status \in Unfinished => q \in executing
  <2> SUFFICES ASSUME NEW q \in Runs, run[q].status \in Unfinished, q \notin executing
               PROVE  FALSE
    OBVIOUS
  <2>1. InTodo(<<"recompute", 0>>)
    BY <1>2 DEF InTodo, Steps
  <2>2. PICK e \in {<<"recover", q>>, <<"dispatch", q>>} : InTodo(e)
    BY <2>1 DEF AutomationsInv, TodoFits, RecoveryFits
  <2>3. PICK i \in Steps : todo[i] = e
    BY <2>2 DEF InTodo
  <2>4. 1 \in Steps /\ i # 1 /\ 1 < i
    BY <1>1, <1>2, <2>2, <2>3 DEF Steps
  <2>5. Follows(todo[1], todo[i])
    BY <2>4 DEF AutomationsInv, TodoFits, StepsFit
  <2> QED BY <1>1, <2>2, <2>3, <2>5 DEF Follows
<1>5. /\ auto' \in [Automation -> AutoRow]
      /\ \A a \in Automation : AutoStep(a) /\ auto'[a].running \in 0..Len(run)
  <2>1. \A a \in Automation :
           /\ auto'[a] \in AutoRow /\ auto'[a].live = auto[a].live /\ auto'[a].gen = auto[a].gen
           /\ \/ auto'[a].running = auto[a].running
              \/ auto'[a].running = 0 /\ auto[a].running # 0 /\ auto[a].running \notin executing
    BY <1>1, <1>2, RecomputedType, AutoTyped
  <2>2. \A a \in Automation : auto[a].running \in 0..Len(run)
    BY <1>2 DEF TypesFit
  <2>3. Len(run) \in Nat
    BY <1>2, LenProperties DEF TypesFit
  <2>4. auto' \in [Automation -> AutoRow]
    BY <1>1, <2>1
  <2> SUFFICES ASSUME NEW a \in Automation
               PROVE  AutoStep(a) /\ auto'[a].running \in 0..Len(run)
    BY <2>4
  <2>5. CASE auto'[a].running = auto[a].running
    BY <2>1, <2>2, <2>5 DEF AutoStep, Keeps
  <2>6. CASE auto'[a].running = 0 /\ auto[a].running # 0 /\ auto[a].running \notin executing
    <3>1. auto[a].running \in Runs
      BY <2>2, <2>3, <2>6 DEF Runs
    <3>2. run[auto[a].running].status \in Ended
      BY <1>2, <1>4, <2>6, <3>1, RunTyped DEF TypesFit, Runs
    <3> QED BY <1>1, <2>1, <2>3, <2>6, <3>2 DEF AutoStep, Keeps
  <2> QED BY <2>1, <2>5, <2>6
<1>6. TodoFits' /\ todo' \in Seq(StepType(Len(run')))
  <2>1. \A q \in Runs : todo[1] \notin {<<"recover", q>>, <<"dispatch", q>>}
    BY <1>1
  <2>2. \A i \in Steps' : Expects(todo[i])'
    BY <1>3 DEF Expects
  <2> QED BY <1>1, <2>1, <2>2, NextStep
<1>7. /\ \A q \in Runs : InTodo(<<"announce", q>>) => InTodo(<<"announce", q>>)'
      /\ \A q \in Runs : InTodo(<<"completed", q>>) => InTodo(<<"completed", q>>)'
  BY <1>1, <1>2, StillInTodo
<1>8. Moves
  BY <1>1, <1>2, <1>5, <1>7, RunsUntouched, AnnouncesUntouched DEF Moves
<1>9. TypesFit'
  <2>1. RestFits'
    BY <1>1, <1>2 DEF RestFits, Runs
  <2> QED BY <1>1, <1>2, <1>5, <1>6, <2>1 DEF TypesFit
<1>10. ExecutionsFit'
  BY <1>1, ExecutionsUntouched
<1>11. EventsFit' /\ DeliveriesFit'
  BY <1>1, <1>7, <1>8, EventsUntouched, DeliveriesUntouched DEF Moves
<1> QED BY <1>6, <1>8, <1>9, <1>10, <1>11 DEF Stays

LEMMA ExitStays ==
    ASSUME AutomationsInv, Exit
    PROVE  Moves /\ Stays
<1>1. /\ phase' = "down" /\ executing' = {} /\ aborted' = {} /\ timer' = 0 /\ todo' = <<>>
      /\ cut' = cut \cup {r \in Runs : \E i \in 1..Len(todo) :
                                          todo[i] \in {<<"free", r>>, <<"announce", r>>}}
      /\ UNCHANGED <<auto, run, delivery, published, announced, clock, starts, faults>>
  BY DEF Exit
<1>2. TypesFit /\ RestFits
  BY DEF AutomationsInv, TypesFit
<1>3. AnnounceStep
  <2> SUFFICES ASSUME NEW r \in Runs,
                      \/ InTodo(<<"announce", r>>)
                      \/ run[r].status \in Unfinished /\ run'[r].status \in Ended
               PROVE  r \in cut'
    BY <1>1 DEF AnnounceStep
  <2>1. InTodo(<<"announce", r>>)
    BY <1>1 DEF Unfinished, Ended
  <2> QED BY <1>1, <2>1 DEF InTodo, Steps
<1>4. Moves
  BY <1>1, <1>2, <1>3, RunsUntouched, AutosUntouched DEF Moves
<1>5. TodoFits' /\ todo' \in Seq(StepType(Len(run)))
  <2>1. Steps' = {} /\ todo' \in Seq(StepType(Len(run)))
    BY <1>1 DEF Steps
  <2> QED BY <1>1, <2>1 DEF TodoFits, StepsFit, RecoveryFits, InTodo
<1>6. TypesFit'
  <2>1. cut' \subseteq Runs
    BY <1>1, <1>2 DEF RestFits
  <2>2. RestFits'
    BY <1>1, <1>2, <2>1 DEF RestFits, Runs
  <2> QED BY <1>1, <1>2, <1>5, <2>2 DEF TypesFit
<1>7. ExecutionsFit' /\ DeliveriesFit'
  BY <1>1 DEF ExecutionsFit, DeliveriesFit
<1>8. EventsFit'
  BY <1>1, <1>4, EventsUntouched DEF Moves
<1> QED BY <1>4, <1>5, <1>6, <1>7, <1>8 DEF Stays

\* Only a run that is queued for its automation leaves the queue.
LEMMA DispatchStays ==
    ASSUME AutomationsInv, Dispatch
    PROVE  Moves /\ Stays
<1> DEFINE r == todo[1][2]
           claims == run[r].status = "queued" /\ auto[run[r].of].live
                       /\ auto[run[r].of].running = r
<1>1. /\ todo # <<>> /\ todo[1][1] = "dispatch" /\ Done
      /\ IF claims THEN /\ run' = [run EXCEPT ![r].status = "running"]
                        /\ executing' = executing \cup {r}
         ELSE UNCHANGED <<run, executing>>
      /\ UNCHANGED <<auto, delivery, published, announced, aborted, timer,
                     phase, clock, starts, faults, cut>>
  BY DEF Dispatch, Step, Subject
<1>2. /\ TypesFit /\ RestFits /\ todo' = Tail(todo) /\ r \in Runs
      /\ phase = "starting" => claims
  <2>1. todo[1] \in StepType(Len(run)) /\ Len(todo) \in Nat \ {0}
    BY <1>1, Popped DEF AutomationsInv, TypesFit
  <2>2. r \in Runs
    BY <1>1, <2>1 DEF StepType, Runs
  <2>3. Expects(todo[1])
    BY <2>1 DEF AutomationsInv, TodoFits, Steps
  <2> QED BY <1>1, <2>2, <2>3 DEF AutomationsInv, TypesFit, Done, Expects
<1>3. /\ \A q \in Runs : InTodo(<<"announce", q>>) => InTodo(<<"announce", q>>)'
      /\ \A q \in Runs : InTodo(<<"completed", q>>) => InTodo(<<"completed", q>>)'
  BY <1>1, <1>2, StillInTodo
<1>4. CASE claims
  <2> HIDE DEF r
  <2>1. /\ RunsStep /\ run' \in Seq(RunRow) /\ Len(run') = Len(run) /\ Len(run) \in Nat
        /\ run'[r].status = "running" /\ \A q \in Runs : q # r => run'[q] = run[q]
    <3>1. "running" \in Unfinished \cup Ended /\ run[r].status \in Unfinished
          /\ run[r].status # "cancelling"
      BY <1>4 DEF Unfinished
    <3> QED BY <1>1, <1>2, <1>4, <3>1, RunMoved
  <2>2. /\ \A q \in Runs : run'[q].status \in Unfinished <=> run[q].status \in Unfinished
        /\ \A q \in Runs : run'[q].status \in Ended <=> run[q].status \in Ended
    BY <1>4, <2>1 DEF Unfinished, Ended
  <2>3. \A q \in Runs : ~(run[q].status \in Unfinished /\ run'[q].status \in Ended)
    BY <2>2 DEF Unfinished, Ended
  <2>4. Moves
    BY <1>1, <1>3, <2>1, <2>3, AutosUntouched DEF Moves, AnnounceStep
  <2>5. \A i \in Steps' : Expects(todo[i])'
    <3> SUFFICES ASSUME NEW i \in Steps' PROVE Expects(todo[i])'
      OBVIOUS
    <3> DEFINE e == todo[i + 1]
    <3>1. todo'[i] = e /\ Expects(e) /\ Follows(todo[1], e) /\ e \in StepType(Len(run))
      <4>1. /\ todo'[i] = todo[i + 1] /\ Expects(todo[i + 1]) /\ i + 1 \in Steps
            /\ Follows(todo[1], todo[i + 1])
        BY <1>1, <1>2, StillFits
      <4>2. todo[i + 1] \in StepType(Len(run))
        BY <1>2, <4>1, LenProperties, ElementOfSeq DEF TypesFit, Steps
      <4> QED BY <4>1, <4>2
    <3>2. e[1] \in {"recover", "free"} => e[2] \in Runs
      BY <3>1 DEF StepType, Runs
    <3> HIDE DEF e
    <3>3. e[1] # "dispatch" /\ (e[1] = "recover" => e[2] # r)
      BY <1>1, <3>1 DEF Follows, r
    <3> QED BY <1>1, <1>4, <2>1, <2>2, <3>1, <3>2, <3>3 DEF Expects
  <2>6. TodoFits' /\ todo' \in Seq(StepType(Len(run')))
    <3>1. \A q \in Runs : todo[1] \in {<<"recover", q>>, <<"dispatch", q>>} => q \in executing'
      BY <1>1, <1>4 DEF r
    <3>2. executing \subseteq executing'
      BY <1>1, <1>4
    <3>3. \A q \in Runs : run'[q].status \in Unfinished => run[q].status \in Unfinished
      BY <2>2
    <3> QED BY <1>1, <2>1, <2>5, <3>1, <3>2, <3>3, NextStep
  <2>7. TypesFit'
    <3>1. executing' \subseteq Runs /\ aborted' \subseteq executing'
      BY <1>1, <1>2, <1>4 DEF RestFits
    <3>2. RestFits'
      BY <1>1, <1>2, <2>1, <3>1 DEF RestFits, Runs
    <3> QED BY <1>1, <1>2, <2>1, <2>6, <3>2 DEF TypesFit
  <2>8. ExecutionsFit'
    <3>1. executing' = executing \cup {r} /\ executing \subseteq Runs
      BY <1>1, <1>2, <1>4 DEF RestFits
    <3>2. r \notin executing
      BY <1>4 DEF AutomationsInv, ExecutionsFit
    <3> QED BY <1>1, <2>1, <3>1, <3>2 DEF AutomationsInv, ExecutionsFit
  <2>9. EventsFit' /\ DeliveriesFit'
    BY <1>1, <1>3, <2>1, <2>2, EventsUntouched, DeliveriesUntouched
  <2> QED BY <2>4, <2>6, <2>7, <2>8, <2>9 DEF Stays
<1>5. CASE ~claims
  <2>1. UNCHANGED <<run, executing>> /\ phase # "starting"
    BY <1>1, <1>2, <1>5
  <2> HIDE DEF claims, r
  <2>2. Moves /\ TodoFits' /\ ExecutionsFit' /\ TypesFit'
    <3>1. announced \subseteq announced' /\ announced' \subseteq Runs
          /\ {timer', clock', starts', faults'} \subseteq Nat
      BY <1>1, <1>2 DEF RestFits
    <3>2. /\ DOMAIN delivery' \subseteq Events \X Automation
          /\ \A k \in DOMAIN delivery' : delivery'[k] \in Row(Len(run))
      BY <1>1, <1>2 DEF TypesFit
    <3>3. \A q \in Runs : todo[1] = <<"announce", q>> => q \in announced'
      BY <1>1
    <3> QED BY <1>1, <2>1, <3>1, <3>2, <3>3, QuietStep
  <2>3. EventsFit' /\ DeliveriesFit'
    BY <1>1, <1>3, <2>1, <2>2, EventsUntouched, DeliveriesUntouched DEF Moves
  <2> QED BY <2>2, <2>3 DEF Stays
<1> QED BY <1>4, <1>5

-----------------------------------------------------------------------------
(* Due automations.                                                        *)

\* The step that serves a due automation.
LEMMA DueStep ==
    ASSUME NEW n, NEW e \in StepType(n), e[1] = "due"
    PROVE  e = <<"due", e[2]>> /\ e[2] \in Automation
<1>1. e \in {"due"} \X Automation
  BY DEF StepType
<1> QED BY <1>1

LEMMA DueReplaced ==
    ASSUME AutomationsInv, todo # <<>>, todo[1][1] = "due", UNCHANGED phase, NEW r \in 1..Len(run'),
           todo' = <<<<"dispatch", r>>>> \o Tail(todo),
           Len(run') \in Nat, Len(run) <= Len(run'),
           \A b \in Automation : b # todo[1][2] => auto'[b] = auto[b]
    PROVE  /\ TodoFits' /\ todo' \in Seq(StepType(Len(run')))
           /\ \A e : InTodo(e) /\ e # todo[1] => InTodo(e)'
<1> DEFINE h == <<"dispatch", r>>
           n == Len(run')
<1>1. h \in StepType(n) /\ h[1] = "dispatch" /\ h[2] = r
  BY DEF StepType
<1>2. todo \in Seq(StepType(n)) /\ todo \in Seq(StepType(Len(run)))
  <2>1. Len(run) \in Nat
    BY LenProperties DEF AutomationsInv, TypesFit
  <2>2. Seq(StepType(Len(run))) \subseteq Seq(StepType(n))
    BY <2>1, StepsMonotone
  <2> QED BY <2>2 DEF AutomationsInv, TypesFit
<1> HIDE DEF n, h
<1>3. /\ todo' \in Seq(StepType(n)) /\ Len(todo') = Len(todo) /\ Len(todo) \in Nat \ {0}
      /\ todo'[1] = h /\ \A i \in Steps : i # 1 => todo'[i] = todo[i]
  <2>1. todo' = <<h>> \o Tail(todo)
    BY DEF h
  <2>2. /\ <<h>> \o Tail(todo) \in Seq(StepType(n)) /\ Len(<<h>> \o Tail(todo)) = Len(todo)
        /\ (<<h>> \o Tail(todo))[1] = h /\ Len(todo) \in Nat \ {0}
        /\ \A i \in 1..Len(todo) : i # 1 => (<<h>> \o Tail(todo))[i] = todo[i]
    BY <1>1, <1>2, HeadReplaced
  <2> QED BY <2>1, <2>2 DEF Steps
<1>4. /\ Steps' = Steps /\ 1 \in Steps
      /\ \A i \in Steps : i \in Nat /\ (i # 1 => 1 < i)
  BY <1>3 DEF Steps
<1>5. /\ phase \notin {"starting", "down"} /\ todo[1] \in StepType(Len(run))
      /\ todo[1] = <<"due", todo[1][2]>>
  <2>1. ByPhase(todo[1]) /\ phase # "down"
    BY <1>4 DEF AutomationsInv, TodoFits, StepsFit
  <2>2. todo[1] \in StepType(Len(run))
    BY <1>2, <1>4, ElementOfSeq DEF Steps
  <2>3. todo[1] = <<"due", todo[1][2]>>
    BY <2>2 DEF StepType
  <2> QED BY <2>1, <2>2, <2>3 DEF ByPhase
<1>6. \A i \in Steps : i # 1 => /\ Follows(todo[1], todo[i]) /\ ByPhase(todo[i])
                                /\ Expects(todo[i]) /\ todo[i] \in StepType(Len(run))
  <2>1. \A i \in Steps : todo[i] \in StepType(Len(run))
    BY <1>2, <1>3, ElementOfSeq DEF Steps
  <2> QED BY <1>4, <2>1 DEF AutomationsInv, TodoFits, StepsFit
<1>7. \A i \in Steps : i # 1 =>
         /\ todo[i][1] \notin {"recover", "free", "announce", "recompute", "open", "dispatch"}
         /\ todo[i][1] = "due" => /\ todo[i][2] \in Automation /\ todo[i][2] # todo[1][2]
                                  /\ auto[todo[i][2]].running = 0
  <2> SUFFICES ASSUME NEW i \in Steps, i # 1
               PROVE  /\ todo[i][1] \notin {"recover", "free", "announce", "recompute",
                                            "open", "dispatch"}
                      /\ todo[i][1] = "due" =>
                            /\ todo[i][2] \in Automation /\ todo[i][2] # todo[1][2]
                            /\ auto[todo[i][2]].running = 0
    OBVIOUS
  <2>1. todo[i][1] \notin {"recover", "free", "announce", "recompute", "open", "dispatch"}
    BY <1>5, <1>6 DEF Follows, ByPhase
  <2>2. todo[i][1] = "due" => todo[i] = <<"due", todo[i][2]>> /\ todo[i][2] \in Automation
    BY <1>6, DueStep
  <2>3. todo[i][1] = "due" => todo[i] # todo[1] /\ auto[todo[i][2]].running = 0
    BY <1>6 DEF Follows, Expects
  <2> QED BY <1>5, <2>1, <2>2, <2>3
<1>8. \A i \in Steps' : ByPhase(todo[i])' /\ Expects(todo[i])'
  <2> SUFFICES ASSUME NEW i \in Steps PROVE ByPhase(todo[i])' /\ Expects(todo[i])'
    BY <1>4
  <2>1. CASE i = 1
    BY <1>1, <1>3, <1>5, <2>1 DEF ByPhase, Expects
  <2>2. CASE i # 1
    BY <1>3, <1>5, <1>7, <2>2 DEF ByPhase, Expects
  <2> QED BY <2>1, <2>2
<1>9. \A i, j \in Steps' : i < j => Follows(todo[i], todo[j])'
  <2> SUFFICES ASSUME NEW i \in Steps, NEW j \in Steps, i < j
               PROVE  Follows(todo[i], todo[j])'
    BY <1>4
  <2>1. j # 1 /\ todo'[j] = todo[j]
    <3>1. j # 1
      BY <1>3 DEF Steps
    <3> QED BY <1>3, <3>1
  <2>2. CASE i = 1
    BY <1>1, <1>3, <1>7, <2>1, <2>2 DEF Follows
  <2>3. CASE i # 1
    <3>1. Follows(todo[i], todo[j]) /\ todo'[i] = todo[i]
      BY <1>3, <2>3 DEF AutomationsInv, TodoFits, StepsFit
    <3> QED BY <2>1, <3>1 DEF Follows
  <2> QED BY <2>2, <2>3
<1>10. ~InTodo(<<"recompute", 0>>)'
  <2>1. todo'[1][1] # "recompute"
    BY <1>1, <1>3
  <2>2. \A i \in Steps : i # 1 => todo'[i][1] # "recompute"
    BY <1>3, <1>7
  <2>3. \A e : e = <<"recompute", 0>> => e[1] = "recompute"
    OBVIOUS
  <2>4. \A i \in Steps : todo'[i] # <<"recompute", 0>>
    BY <2>1, <2>2, <2>3
  <2> QED BY <1>4, <2>4 DEF InTodo
<1>11. \A e : InTodo(e) /\ e # todo[1] => InTodo(e)'
  BY <1>3, <1>4 DEF InTodo
<1>12. TodoFits'
  BY <1>5, <1>8, <1>9, <1>10 DEF TodoFits, StepsFit, RecoveryFits
<1> QED BY <1>3, <1>11, <1>12 DEF n

LEMMA QueueDueStays ==
    ASSUME AutomationsInv, QueueDue
    PROVE  Moves /\ Stays
<1> DEFINE a     == todo[1][2]
           event == <<"due", auto[a].next>>
           k     == <<event, a>>
           n     == Len(run) + 1
<1>1. /\ todo # <<>> /\ todo[1][1] = "due"
      /\ \/ /\ k \in DOMAIN delivery
            /\ todo' = <<<<"dispatch", delivery[k].run>>>> \o Tail(todo)
            /\ UNCHANGED <<auto, run, delivery>>
         \/ /\ k \notin DOMAIN delivery
            /\ QueueRun(a, event, FALSE) /\ Mark(event, a)
            /\ todo' = <<<<"dispatch", n>>>> \o Tail(todo)
      /\ UNCHANGED <<published, announced, executing, aborted, timer, phase,
                     clock, starts, faults, cut>>
  BY DEF QueueDue, Step, Subject, unchangedProcess
<1>2. /\ TypesFit /\ RestFits /\ EventsFit /\ Len(run) \in Nat /\ a \in Automation
      /\ todo[1] = <<"due", a>> /\ auto[a].running = 0 /\ auto[a].next \in Nat
  <2>1. todo[1] \in StepType(Len(run)) /\ Len(todo) \in Nat \ {0}
    BY <1>1, Popped DEF AutomationsInv, TypesFit
  <2>2. a \in Automation /\ todo[1] = <<"due", a>>
    BY <1>1, <2>1 DEF StepType
  <2>3. Expects(todo[1])
    BY <2>1 DEF AutomationsInv, TodoFits, Steps
  <2>4. auto[a].next \in Nat
    BY <2>2 DEF AutomationsInv, TypesFit, AutoRow
  <2> QED BY <1>1, <2>2, <2>3, <2>4, LenProperties DEF AutomationsInv, TypesFit, Expects
<1> HIDE DEF a
<1>3. CASE /\ k \in DOMAIN delivery
           /\ todo' = <<<<"dispatch", delivery[k].run>>>> \o Tail(todo)
           /\ UNCHANGED <<auto, run, delivery>>
  <2> DEFINE r == delivery[k].run
  <2>1. r \in 1..Len(run')
    <3>1. RowFits(k) /\ delivery[k] \in Row(Len(run)) /\ k[1][1] = "due"
      BY <1>2, <1>3 DEF EventsFit, TypesFit
    <3> HIDE DEF k
    <3> QED BY <1>2, <1>3, <3>1 DEF RowFits, Row
  <2> HIDE DEF r
  <2>2. /\ TodoFits' /\ todo' \in Seq(StepType(Len(run')))
        /\ \A e : InTodo(e) /\ e # todo[1] => InTodo(e)'
    <3>1. todo' = <<<<"dispatch", r>>>> \o Tail(todo)
      BY <1>3 DEF r
    <3>2. Len(run') \in Nat /\ Len(run) <= Len(run')
      BY <1>2, <1>3
    <3>3. \A b \in Automation : b # todo[1][2] => auto'[b] = auto[b]
      BY <1>3
    <3> QED BY <1>1, <2>1, <3>1, <3>2, <3>3, DueReplaced
  <2>3. /\ \A q \in Runs : InTodo(<<"announce", q>>) => InTodo(<<"announce", q>>)'
        /\ \A q \in Runs : InTodo(<<"completed", q>>) => InTodo(<<"completed", q>>)'
    BY <1>1, <2>2
  <2>4. Moves
    BY <1>1, <1>2, <1>3, <2>3, RunsUntouched, AutosUntouched, AnnouncesUntouched DEF Moves
  <2>5. TypesFit'
    <3>1. RestFits'
      BY <1>1, <1>2, <1>3 DEF RestFits, Runs
    <3> QED BY <1>1, <1>2, <1>3, <2>2, <3>1 DEF TypesFit
  <2>6. ExecutionsFit'
    BY <1>1, <1>3, ExecutionsUntouched
  <2>7. EventsFit' /\ DeliveriesFit'
    BY <1>1, <1>3, <2>3, <2>4, EventsUntouched, DeliveriesUntouched DEF Moves
  <2> QED BY <2>2, <2>4, <2>5, <2>6, <2>7 DEF Stays
<1>4. CASE /\ k \notin DOMAIN delivery
           /\ QueueRun(a, event, FALSE) /\ Mark(event, a)
           /\ todo' = <<<<"dispatch", n>>>> \o Tail(todo)
  <2>1. \A r \in Runs : <<run[r].event, run[r].of>> # <<event, a>>
    BY <1>2, <1>4 DEF EventsFit
  <2>2. event \in Events /\ event[1] = "due" /\ FALSE \in BOOLEAN
    BY <1>2 DEF Events
  <2>3. event[1] # "fact" /\ event[1] # "ask"
    BY <2>2
  <2> HIDE DEF k, event
  <2>4. /\ RunsStep /\ \A b \in Automation : AutoStep(b)
        /\ Len(run) \in Nat /\ Len(run') = Len(run) + 1 /\ run' \in Seq(RunRow)
        /\ run'[Len(run) + 1].status = "queued"
        /\ \A q \in Runs : run'[q] = run[q]
        /\ auto' \in [Automation -> AutoRow]
        /\ \A b \in Automation : auto'[b].running \in 0..Len(run')
        /\ \A b \in Automation : b # a => auto'[b] = auto[b]
        /\ DOMAIN delivery' = DOMAIN delivery \cup {<<event, a>>}
        /\ \A j \in DOMAIN delivery' :
              \/ delivery'[j] \in Row(Len(run')) /\ delivery'[j].status = "queued"
                 /\ delivery'[j].run = Len(run) + 1
              \/ j \in DOMAIN delivery /\ delivery'[j] = delivery[j]
        /\ EventsFit'
    BY <1>1, <1>2, <1>4, <2>1, <2>2, <2>3, RunQueued
  <2>5. n \in 1..Len(run') /\ Len(run') \in Nat /\ Len(run) <= Len(run')
    BY <2>4
  <2>6. /\ TodoFits' /\ todo' \in Seq(StepType(Len(run')))
        /\ \A e : InTodo(e) /\ e # todo[1] => InTodo(e)'
    <3>1. \A b \in Automation : b # todo[1][2] => auto'[b] = auto[b]
      BY <1>2, <2>4
    <3> HIDE DEF n
    <3> QED BY <1>1, <1>4, <2>5, <3>1, DueReplaced
  <2>7. /\ \A q \in Runs : InTodo(<<"announce", q>>) => InTodo(<<"announce", q>>)'
        /\ \A q \in Runs : InTodo(<<"completed", q>>) => InTodo(<<"completed", q>>)'
    BY <1>1, <2>6
  <2>8. AnnounceStep
    <3>1. \A q \in Runs : ~(run[q].status \in Unfinished /\ run'[q].status \in Ended)
      BY <2>4 DEF Unfinished, Ended
    <3> QED BY <1>1, <2>7, <3>1 DEF AnnounceStep
  <2>9. Moves
    BY <2>4, <2>8 DEF Moves
  <2>10. Runs \subseteq Runs'
    BY <2>4 DEF Runs
  <2>11. TypesFit'
    <3>1. RestFits'
      BY <1>1, <1>2, <2>10 DEF RestFits
    <3>2. DOMAIN delivery' \subseteq Events \X Automation
      BY <1>2, <2>2, <2>4 DEF TypesFit
    <3>3. Row(Len(run)) \subseteq Row(Len(run'))
      BY <2>4, <2>5, StepsMonotone
    <3>4. \A j \in DOMAIN delivery' : delivery'[j] \in Row(Len(run'))
      BY <1>2, <2>4, <3>3 DEF TypesFit
    <3> QED BY <2>4, <2>6, <3>1, <3>2, <3>4 DEF TypesFit
  <2>12. ExecutionsFit'
    BY <1>1, <1>2, <2>4 DEF AutomationsInv, ExecutionsFit, RestFits
  <2>13. DeliveriesFit'
    <3> SUFFICES ASSUME phase' = "up", NEW j \in DOMAIN delivery', delivery'[j].status = "queued"
                 PROVE  run'[delivery'[j].run].status \in Unfinished
                        \/ InTodo(<<"completed", delivery[j].run>>)'
      BY DEF DeliveriesFit, InTodo, Steps
    <3>1. CASE delivery'[j].run = Len(run) + 1
      BY <2>4, <3>1 DEF Unfinished
    <3>2. CASE j \in DOMAIN delivery /\ delivery'[j] = delivery[j]
      <4>1. delivery[j].run \in Runs
        BY <1>2, <3>2 DEF TypesFit, Row, EventsFit, RowFits, Runs
      <4>2. run[delivery[j].run].status \in Unfinished
            \/ InTodo(<<"completed", delivery[j].run>>)
        BY <1>1, <3>2 DEF AutomationsInv, DeliveriesFit
      <4> QED BY <2>4, <2>7, <3>2, <4>1, <4>2
    <3> QED BY <2>4, <3>1, <3>2
  <2> QED BY <2>4, <2>6, <2>9, <2>11, <2>12, <2>13 DEF Stays
<1> QED BY <1>1, <1>3, <1>4

-----------------------------------------------------------------------------
(* Recovery.                                                               *)

LEMMA Prefixed ==
    ASSUME NEW S, NEW h \in Seq(S), NEW t \in Seq(S)
    PROVE  /\ h \o t \in Seq(S) /\ Len(h) \in Nat /\ Len(t) \in Nat
           /\ Len(h \o t) = Len(h) + Len(t)
           /\ \A i \in 1..Len(h \o t) :
                 \/ i \in 1..Len(h) /\ (h \o t)[i] = h[i]
                 \/ /\ i - Len(h) \in 1..Len(t) /\ i = (i - Len(h)) + Len(h)
                    /\ (h \o t)[i] = t[i - Len(h)]
           /\ \A i \in 1..Len(h) : i \in 1..Len(h \o t) /\ (h \o t)[i] = h[i]
           /\ \A i \in 1..Len(t) :
                 i + Len(h) \in 1..Len(h \o t) /\ (h \o t)[i + Len(h)] = t[i]
<1> DEFINE s == h \o t
<1>1. /\ s \in Seq(S) /\ Len(s) = Len(h) + Len(t)
      /\ \A i \in 1..(Len(h) + Len(t)) : s[i] = IF i <= Len(h) THEN h[i] ELSE t[i - Len(h)]
  BY ConcatProperties
<1>2. Len(h) \in Nat /\ Len(t) \in Nat
  BY LenProperties
<1> HIDE DEF s
<1>3. \A i \in 1..Len(s) :
         \/ i \in 1..Len(h) /\ s[i] = h[i]
         \/ i - Len(h) \in 1..Len(t) /\ i = (i - Len(h)) + Len(h) /\ s[i] = t[i - Len(h)]
  <2> SUFFICES ASSUME NEW i \in 1..Len(s)
               PROVE  \/ i \in 1..Len(h) /\ s[i] = h[i]
                      \/ /\ i - Len(h) \in 1..Len(t) /\ i = (i - Len(h)) + Len(h)
                         /\ s[i] = t[i - Len(h)]
    OBVIOUS
  <2>1. CASE i <= Len(h)
    BY <1>1, <1>2, <2>1
  <2>2. CASE ~(i <= Len(h))
    BY <1>1, <1>2, <2>2
  <2> QED BY <2>1, <2>2
<1>4. \A i \in 1..Len(h) : i \in 1..Len(s) /\ s[i] = h[i]
  BY <1>1, <1>2
<1>5. \A i \in 1..Len(t) : i + Len(h) \in 1..Len(s) /\ s[i + Len(h)] = t[i]
  <2> SUFFICES ASSUME NEW i \in 1..Len(t)
               PROVE  i + Len(h) \in 1..Len(s) /\ s[i + Len(h)] = t[i]
    OBVIOUS
  <2>1. i + Len(h) \in 1..Len(s) /\ ~(i + Len(h) <= Len(h)) /\ (i + Len(h)) - Len(h) = i
    BY <1>1, <1>2
  <2> QED BY <1>1, <2>1
<1> QED BY <1>1, <1>2, <1>3, <1>4, <1>5 DEF s

\* The steps that take the place of the recovery of a run
LEMMA RecoveryReplaced ==
    ASSUME AutomationsInv, todo # <<>>, NEW r \in Runs, todo[1] = <<"recover", r>>,
           NEW h \in Seq(StepType(Len(run))), todo' = h \o Tail(todo),
           UNCHANGED <<phase, executing, auto>>, Len(run') = Len(run),
           \A q \in Runs : q # r => run'[q] = run[q],
           \A i \in 1..Len(h) : h[i] \in {<<"dispatch", r>>, <<"free", r>>, <<"announce", r>>},
           \A i, j \in 1..Len(h) : i < j => h[j] # <<"dispatch", r>>,
           \A i \in 1..Len(h) : h[i] = <<"free", r>> => run'[r].status \in Ended,
           \A i \in 1..Len(h) : h[i] = <<"dispatch", r>> =>
              run'[r].status = "queued" /\ auto[run'[r].of].live /\ auto[run'[r].of].running = r,
           run'[r].status \in Unfinished => \E i \in 1..Len(h) : h[i] = <<"dispatch", r>>
    PROVE  /\ TodoFits' /\ todo' \in Seq(StepType(Len(run')))
           /\ \A e : InTodo(e) /\ e # todo[1] => InTodo(e)'
           /\ \A i \in 1..Len(h) : InTodo(h[i])'
<1> DEFINE t == Tail(todo)
<1>1. TypesFit /\ todo \in Seq(StepType(Len(run))) /\ run \in Seq(RunRow)
  BY DEF AutomationsInv, TypesFit
<1>2. /\ t \in Seq(StepType(Len(run))) /\ Len(todo) \in Nat \ {0}
      /\ \A i \in 1..Len(t) : i + 1 \in Steps /\ t[i] = todo[i + 1]
      /\ \A j \in Steps : j # 1 => j - 1 \in 1..Len(t) /\ t[j - 1] = todo[j]
  BY <1>1, Popped DEF Steps
<1> HIDE DEF t
<1>3. /\ todo' \in Seq(StepType(Len(run))) /\ Len(h) \in Nat /\ Len(t) \in Nat
      /\ Len(todo') = Len(h) + Len(t)
      /\ \A i \in Steps' :
            \/ i \in 1..Len(h) /\ todo'[i] = h[i]
            \/ /\ i - Len(h) \in 1..Len(t) /\ i = (i - Len(h)) + Len(h)
               /\ todo'[i] = t[i - Len(h)]
      /\ \A i \in 1..Len(h) : i \in Steps' /\ todo'[i] = h[i]
      /\ \A i \in 1..Len(t) : i + Len(h) \in Steps' /\ todo'[i + Len(h)] = t[i]
  <2>1. todo' = h \o t
    BY DEF t
  <2>2. /\ h \o t \in Seq(StepType(Len(run))) /\ Len(h) \in Nat /\ Len(t) \in Nat
        /\ Len(h \o t) = Len(h) + Len(t)
        /\ \A i \in 1..Len(h \o t) :
              \/ i \in 1..Len(h) /\ (h \o t)[i] = h[i]
              \/ /\ i - Len(h) \in 1..Len(t) /\ i = (i - Len(h)) + Len(h)
                 /\ (h \o t)[i] = t[i - Len(h)]
        /\ \A i \in 1..Len(h) : i \in 1..Len(h \o t) /\ (h \o t)[i] = h[i]
        /\ \A i \in 1..Len(t) :
              i + Len(h) \in 1..Len(h \o t) /\ (h \o t)[i + Len(h)] = t[i]
    BY <1>2, Prefixed
  <2> QED BY <2>1, <2>2 DEF Steps
<1>4. phase = "starting" /\ 1 \in Steps /\ Expects(todo[1])
  <2>1. 1 \in Steps
    BY <1>2 DEF Steps
  <2>2. ByPhase(todo[1]) /\ Expects(todo[1])
    BY <2>1 DEF AutomationsInv, TodoFits, StepsFit
  <2>3. todo[1][1] = "recover"
    OBVIOUS
  <2>4. phase = "starting"
    BY <2>2, <2>3 DEF ByPhase
  <2> QED BY <2>1, <2>2, <2>4
<1>5. \A i \in 1..Len(t) :
         /\ t[i] \in StepType(Len(run)) /\ ByPhase(t[i]) /\ Expects(t[i]) /\ Follows(todo[1], t[i])
         /\ \A j \in 1..Len(t) : i < j => Follows(t[i], t[j])
  <2> SUFFICES ASSUME NEW i \in 1..Len(t)
               PROVE  /\ t[i] \in StepType(Len(run)) /\ ByPhase(t[i]) /\ Expects(t[i])
                      /\ Follows(todo[1], t[i])
                      /\ \A j \in 1..Len(t) : i < j => Follows(t[i], t[j])
    OBVIOUS
  <2>1. i + 1 \in Steps /\ t[i] = todo[i + 1] /\ 1 < i + 1
    BY <1>2
  <2>2. t[i] \in StepType(Len(run))
    BY <1>2, <2>1, ElementOfSeq
  <2>3. ByPhase(t[i]) /\ Expects(t[i]) /\ Follows(todo[1], t[i])
    BY <1>4, <2>1 DEF AutomationsInv, TodoFits, StepsFit
  <2>4. \A j \in 1..Len(t) : i < j => Follows(t[i], t[j])
    <3> SUFFICES ASSUME NEW j \in 1..Len(t), i < j PROVE Follows(t[i], t[j])
      OBVIOUS
    <3>1. j + 1 \in Steps /\ t[j] = todo[j + 1] /\ i + 1 < j + 1
      BY <1>2
    <3> QED BY <2>1, <3>1 DEF AutomationsInv, TodoFits, StepsFit
  <2> QED BY <2>2, <2>3, <2>4
<1>6. \A i \in 1..Len(t) :
         /\ t[i][1] # "dispatch"
         /\ t[i][1] = "recover" => t[i][2] # r
         /\ t[i][1] \in {"recover", "free"} => t[i][2] \in Runs
  BY <1>5 DEF Follows, StepType, Runs
<1>7. \A i \in 1..Len(h) :
         /\ h[i][1] \in {"dispatch", "free", "announce"} /\ h[i][2] = r
         /\ h[i][1] = "dispatch" => h[i] = <<"dispatch", r>>
         /\ h[i][1] = "free" => h[i] = <<"free", r>>
  OBVIOUS
<1>8. ASSUME NEW i \in Steps' PROVE ByPhase(todo[i])' /\ Expects(todo[i])'
  <2>1. CASE i \in 1..Len(h) /\ todo'[i] = h[i]
    <3>1. ByPhase(todo[i])'
      BY <1>4, <1>7, <2>1 DEF ByPhase
    <3>2. Expects(todo[i])'
      BY <1>7, <2>1 DEF Expects
    <3> QED BY <3>1, <3>2
  <2>2. CASE i - Len(h) \in 1..Len(t) /\ todo'[i] = t[i - Len(h)]
    <3> DEFINE e == t[i - Len(h)]
    <3>1. /\ ByPhase(e) /\ Expects(e) /\ e[1] # "dispatch" /\ (e[1] = "recover" => e[2] # r)
          /\ e[1] \in {"recover", "free"} => e[2] \in Runs
      BY <1>5, <1>6, <2>2
    <3> HIDE DEF e
    <3>2. todo'[i] = e
      BY <2>2 DEF e
    <3>3. ByPhase(todo[i])'
      BY <3>1, <3>2 DEF ByPhase
    <3>4. e[1] = "free" => run'[e[2]].status \in Ended
      <4>1. Expects(todo[1]) /\ todo[1][1] = "recover" /\ todo[1][2] = r
        BY <1>4
      <4>2. run[r].status \in Unfinished
        BY <4>1 DEF Expects
      <4>3. e[1] = "free" => run[e[2]].status \in Ended
        BY <3>1 DEF Expects
      <4>4. e[1] = "free" => e[2] # r
        BY <4>2, <4>3 DEF Unfinished, Ended
      <4> QED BY <3>1, <4>3, <4>4
    <3>5. Expects(todo[i])'
      BY <3>1, <3>2, <3>4 DEF Expects
    <3> QED BY <3>3, <3>5
  <2> QED BY <1>3, <2>1, <2>2
<1>9. ASSUME NEW i \in Steps', NEW j \in Steps', i < j
      PROVE  Follows(todo[i], todo[j])'
  <2>1. CASE j \in 1..Len(h) /\ todo'[j] = h[j]
    <3>1. i \in 1..Len(h)
      BY <1>9, <2>1 DEF Steps
    <3>2. todo'[i] = h[i] /\ h[j] # <<"dispatch", r>>
      BY <1>3, <1>9, <2>1, <3>1
    <3> QED BY <1>7, <2>1, <3>1, <3>2 DEF Follows
  <2>2. CASE j - Len(h) \in 1..Len(t) /\ todo'[j] = t[j - Len(h)]
    <3> DEFINE d == t[j - Len(h)]
    <3>1. CASE i \in 1..Len(h) /\ todo'[i] = h[i]
      <4>1. d[1] # "dispatch" /\ (d[1] = "recover" => d[2] # r) /\ todo'[j] = d
        BY <1>6, <2>2
      <4> HIDE DEF d
      <4> QED BY <1>7, <3>1, <4>1 DEF Follows
    <3>2. CASE i - Len(h) \in 1..Len(t) /\ todo'[i] = t[i - Len(h)]
      <4>1. i - Len(h) < j - Len(h)
        BY <1>3, <1>9 DEF Steps
      <4>2. Follows(t[i - Len(h)], d) /\ todo'[j] = d
        BY <1>5, <2>2, <3>2, <4>1
      <4> HIDE DEF d
      <4> QED BY <3>2, <4>2 DEF Follows
    <3> QED BY <1>3, <3>1, <3>2
  <2> QED BY <1>3, <2>1, <2>2
<1>10. \A e : InTodo(e) /\ e # todo[1] => InTodo(e)'
  <2> SUFFICES ASSUME NEW e, NEW j \in Steps, todo[j] = e, e # todo[1]
               PROVE  \E i \in Steps' : todo'[i] = e
    BY DEF InTodo
  <2>1. j # 1
    OBVIOUS
  <2>2. j - 1 \in 1..Len(t) /\ t[j - 1] = e
    BY <1>2, <2>1
  <2>3. (j - 1) + Len(h) \in Steps' /\ todo'[(j - 1) + Len(h)] = t[j - 1]
    BY <1>3, <2>2
  <2> QED BY <2>2, <2>3
<1>11. \A i \in 1..Len(h) : InTodo(h[i])'
  <2> SUFFICES ASSUME NEW i \in 1..Len(h)
               PROVE  \E j \in Steps' : todo'[j] = h[i]
    BY DEF InTodo
  <2> QED BY <1>3
<1>12. RecoveryFits'
  <2> SUFFICES ASSUME InTodo(<<"recompute", 0>>)', NEW q \in Runs, run'[q].status \in Unfinished
               PROVE  \/ q \in executing' \/ InTodo(<<"recover", q>>)'
                      \/ InTodo(<<"dispatch", q>>)'
    BY DEF RecoveryFits, InTodo, Steps, Runs
  <2>1. CASE q = r
    <3>1. PICK i \in 1..Len(h) : h[i] = <<"dispatch", r>>
      BY <2>1
    <3> QED BY <1>11, <2>1, <3>1 DEF InTodo
  <2>2. CASE q # r
    <3>1. InTodo(<<"recompute", 0>>)
      <4>1. PICK i \in Steps' : todo'[i] = <<"recompute", 0>>
        BY DEF InTodo
      <4>2. todo'[i][1] = "recompute"
        <5>1. \A e : e = <<"recompute", 0>> => e[1] = "recompute"
          OBVIOUS
        <5> QED BY <4>1, <5>1
      <4>3. i \notin 1..Len(h) \/ todo'[i] # h[i]
        BY <1>7, <4>2
      <4>4. i - Len(h) \in 1..Len(t) /\ t[i - Len(h)] = <<"recompute", 0>>
        BY <1>3, <4>1, <4>3
      <4>5. (i - Len(h)) + 1 \in Steps /\ todo[(i - Len(h)) + 1] = <<"recompute", 0>>
        BY <1>2, <4>4
      <4> QED BY <4>5 DEF InTodo
    <3>2. q \in executing \/ InTodo(<<"recover", q>>) \/ InTodo(<<"dispatch", q>>)
      BY <2>2, <3>1 DEF AutomationsInv, TodoFits, RecoveryFits
    <3>3. <<"recover", q>> # todo[1] /\ <<"dispatch", q>> # todo[1]
      BY <2>2
    <3> QED BY <1>10, <3>2, <3>3
  <2> QED BY <2>1, <2>2
<1>13. TodoFits'
  BY <1>4, <1>8, <1>9, <1>12 DEF TodoFits, StepsFit
<1> QED BY <1>3, <1>10, <1>11, <1>13

LEMMA RecoverRunStays ==
    ASSUME AutomationsInv, RecoverRun
    PROVE  Moves /\ Stays
<1>1. /\ todo # <<>> /\ todo[1][1] = "recover"
      /\ UNCHANGED <<auto, delivery, published, announced, executing, aborted, timer, phase,
                     clock, starts, faults, cut>>
  BY DEF RecoverRun, Step, unchangedProcess
<1>2. PICK r \in Runs : todo[1] = <<"recover", r>>
  <2>1. todo[1] \in StepType(Len(run))
    BY <1>1, Popped DEF AutomationsInv, TypesFit
  <2>2. PICK r \in 1..Len(run) : todo[1] = <<"recover", r>>
    BY <1>1, <2>1 DEF StepType
  <2> QED BY <2>2 DEF Runs
<1>3. /\ TypesFit /\ RestFits
      /\ run[r].status \in Unfinished /\ r \notin executing /\ phase = "starting"
  <2>1. Len(todo) \in Nat \ {0}
    BY <1>1, Popped DEF AutomationsInv, TypesFit
  <2>2. Expects(todo[1]) /\ ByPhase(todo[1])
    BY <2>1 DEF AutomationsInv, TodoFits, StepsFit, Steps
  <2>3. todo[1][1] = "recover" /\ todo[1][2] = r
    BY <1>2
  <2> QED BY <2>2, <2>3 DEF AutomationsInv, TypesFit, Expects, ByPhase
<1> DEFINE live  == auto[run[r].of].live
           waits == run[r].status = "queued" /\ live /\ auto[run[r].of].running = r
<1>4. \/ waits /\ UNCHANGED run /\ todo' = <<<<"dispatch", r>>>> \o Tail(todo)
      \/ /\ ~waits /\ run' = [run EXCEPT ![r].status = RecoveredStatus(r)]
         /\ todo' = (IF live THEN AfterRecovery(r) ELSE <<>>) \o Tail(todo)
  <2>1. Subject = r
    BY <1>2 DEF Subject
  <2> QED BY <2>1 DEF RecoverRun
<1> HIDE DEF live
<1>5. /\ <<"dispatch", r>> \in StepType(Len(run)) /\ <<"free", r>> \in StepType(Len(run))
      /\ <<"announce", r>> \in StepType(Len(run))
  BY DEF StepType, Runs
<1>6. CASE /\ waits /\ UNCHANGED run /\ todo' = <<<<"dispatch", r>>>> \o Tail(todo)
  <2> DEFINE g == <<<<"dispatch", r>>>>
  <2>1. UNCHANGED run /\ todo' = g \o Tail(todo)
    BY <1>6
  <2>2. g \in Seq(StepType(Len(run))) /\ Len(g) = 1 /\ g[1] = <<"dispatch", r>>
    BY <1>5
  <2> HIDE DEF g
  <2>3. \A i \in 1..Len(g) : g[i] = <<"dispatch", r>>
    BY <2>2
  <2>4. \A i, j \in 1..Len(g) : ~(i < j)
    BY <2>2
  <2>5. \A i \in 1..Len(g) : g[i] # <<"free", r>>
    <3>1. <<"dispatch", r>> # <<"free", r>>
      OBVIOUS
    <3> QED BY <2>3, <3>1
  <2>6. 1 \in 1..Len(g)
    BY <2>2
  <2>7. /\ TodoFits' /\ todo' \in Seq(StepType(Len(run')))
        /\ \A e : InTodo(e) /\ e # todo[1] => InTodo(e)'
    <3>1. run'[r].status = "queued" /\ auto[run'[r].of].live /\ auto[run'[r].of].running = r
      BY <1>6, <2>1 DEF live
    <3>2. /\ UNCHANGED <<phase, executing, auto>> /\ Len(run') = Len(run)
          /\ \A q \in Runs : q # r => run'[q] = run[q]
      BY <1>1, <2>1
    <3> QED BY <1>1, <1>2, <1>3, <2>1, <2>2, <2>3, <2>4, <2>5, <2>6, <3>1, <3>2, RecoveryReplaced
  <2>8. /\ \A q \in Runs : InTodo(<<"announce", q>>) => InTodo(<<"announce", q>>)'
        /\ \A q \in Runs : InTodo(<<"completed", q>>) => InTodo(<<"completed", q>>)'
    BY <1>1, <2>7
  <2>9. Moves
    BY <1>1, <1>2, <1>3, <2>1, <2>8, RunsUntouched, AutosUntouched, AnnouncesUntouched DEF Moves
  <2>10. TypesFit'
    <3>1. RestFits'
      BY <1>1, <1>2, <1>3, <2>1 DEF RestFits, Runs
    <3> QED BY <1>1, <1>2, <1>3, <2>1, <2>7, <3>1 DEF TypesFit
  <2>11. ExecutionsFit'
    BY <1>1, <2>1, ExecutionsUntouched
  <2>12. EventsFit' /\ DeliveriesFit'
    BY <1>1, <2>1, <2>8, <2>9, EventsUntouched, DeliveriesUntouched DEF Moves
  <2> QED BY <2>7, <2>9, <2>10, <2>11, <2>12 DEF Stays
<1>7. CASE /\ ~waits /\ run' = [run EXCEPT ![r].status = RecoveredStatus(r)]
           /\ todo' = (IF live THEN AfterRecovery(r) ELSE <<>>) \o Tail(todo)
  <2> DEFINE status == RecoveredStatus(r)
  <2>1. run' = [run EXCEPT ![r].status = status]
    BY <1>7
  <2>2. /\ status \in Unfinished \cup Ended /\ status \in Ended
        /\ run[r].status = "cancelling" => status \in {"cancelling", "cancelled", "timeout"}
    BY DEF RecoveredStatus, Ended
  <2>3. PICK g \in Seq(StepType(Len(run))) :
           /\ todo' = g \o Tail(todo)
           /\ \A i \in 1..Len(g) : g[i] \in {<<"free", r>>, <<"announce", r>>}
           /\ live => \E i \in 1..Len(g) : g[i] = <<"announce", r>>
    <3>1. CASE live
      <4> DEFINE s == <<<<"free", r>>, <<"announce", r>>>>
      <4>1. todo' = s \o Tail(todo)
        BY <1>7, <3>1 DEF AfterRecovery
      <4>2. /\ s \in Seq(StepType(Len(run))) /\ Len(s) = 2
            /\ s[1] = <<"free", r>> /\ s[2] = <<"announce", r>>
        BY <1>5, ShortSequences
      <4> HIDE DEF s
      <4>3. /\ \A i \in 1..Len(s) : s[i] \in {<<"free", r>>, <<"announce", r>>}
            /\ \E i \in 1..Len(s) : s[i] = <<"announce", r>>
        BY <4>2
      <4> QED BY <4>1, <4>2, <4>3
    <3>2. CASE ~live
      <4>1. todo' = <<>> \o Tail(todo)
        BY <1>7, <3>2
      <4>2. <<>> \in Seq(StepType(Len(run))) /\ 1..Len(<<>>) = {}
        OBVIOUS
      <4> QED BY <3>2, <4>1, <4>2
    <3> QED BY <3>1, <3>2
  <2> HIDE DEF status
  <2>4. /\ RunsStep /\ run' \in Seq(RunRow) /\ Len(run') = Len(run) /\ Len(run) \in Nat
        /\ run'[r].status = status
        /\ \A q \in Runs : run'[q].of = run[q].of /\ (q # r => run'[q] = run[q])
    BY <1>2, <1>3, <2>1, <2>2, RunMoved
  <2>5. \A i \in 1..Len(g) : g[i] # <<"dispatch", r>>
    <3>1. <<"dispatch", r>> \notin {<<"free", r>>, <<"announce", r>>}
      OBVIOUS
    <3> QED BY <2>3, <3>1
  <2>6. /\ TodoFits' /\ todo' \in Seq(StepType(Len(run')))
        /\ \A e : InTodo(e) /\ e # todo[1] => InTodo(e)'
        /\ \A i \in 1..Len(g) : InTodo(g[i])'
    <3>1. run'[r].status \in Ended /\ run'[r].status \notin Unfinished
      BY <2>2, <2>4 DEF Unfinished, Ended
    <3>2. UNCHANGED <<phase, executing, auto>>
      BY <1>1
    <3>3. /\ \A i \in 1..Len(g) : g[i] \in {<<"dispatch", r>>, <<"free", r>>, <<"announce", r>>}
          /\ \A i, j \in 1..Len(g) : i < j => g[j] # <<"dispatch", r>>
      BY <2>3, <2>5
    <3>4. /\ todo # <<>> /\ todo' = g \o Tail(todo)
          /\ \A q \in Runs : q # r => run'[q] = run[q]
      BY <1>1, <2>3, <2>4
    <3> QED BY <1>2, <1>3, <2>3, <2>4, <2>5, <3>1, <3>2, <3>3, <3>4, RecoveryReplaced
  <2>7. /\ \A q \in Runs : InTodo(<<"announce", q>>) => InTodo(<<"announce", q>>)'
        /\ live => InTodo(<<"announce", r>>)'
    <3>1. \A q \in Runs : InTodo(<<"announce", q>>) => InTodo(<<"announce", q>>)'
      BY <1>1, <2>6
    <3>2. ASSUME live PROVE InTodo(<<"announce", r>>)'
      <4>1. PICK i \in 1..Len(g) : g[i] = <<"announce", r>>
        BY <2>3, <3>2
      <4>2. InTodo(g[i])'
        BY <2>6
      <4> QED BY <4>1, <4>2 DEF InTodo
    <3> QED BY <3>1, <3>2
  <2>8. Moves
    <3>1. AnnounceStep
      <4> SUFFICES ASSUME NEW q \in Runs,
                          \/ InTodo(<<"announce", q>>)
                          \/ /\ run[q].status \in Unfinished /\ run'[q].status \in Ended
                             /\ auto[run[q].of].live
                   PROVE  InTodo(<<"announce", q>>)'
        BY <1>1 DEF AnnounceStep
      <4>1. CASE InTodo(<<"announce", q>>)
        BY <2>7, <4>1
      <4>2. CASE /\ run[q].status \in Unfinished /\ run'[q].status \in Ended
                 /\ auto[run[q].of].live
        <5>1. q = r
          BY <2>4, <4>2 DEF Unfinished, Ended
        <5>2. InTodo(<<"announce", r>>)'
          BY <2>7, <4>2, <5>1 DEF live
        <5> QED BY <5>1, <5>2 DEF InTodo
      <4> QED BY <4>1, <4>2
    <3> QED BY <1>1, <2>4, <3>1, AutosUntouched DEF Moves
  <2>9. TypesFit'
    <3>1. RestFits'
      BY <1>1, <1>2, <1>3, <2>4 DEF RestFits, Runs
    <3> QED BY <1>1, <1>2, <1>3, <2>4, <2>6, <3>1 DEF TypesFit
  <2>10. ExecutionsFit'
    BY <1>1, <1>2, <1>3, <2>4 DEF AutomationsInv, ExecutionsFit, RestFits
  <2>11. EventsFit'
    BY <1>1, <2>4, EventsUntouched
  <2>12. DeliveriesFit'
    BY <1>1, <1>3 DEF DeliveriesFit
  <2> QED BY <2>6, <2>8, <2>9, <2>10, <2>11, <2>12 DEF Stays
<1> QED BY <1>4, <1>6, <1>7

\* A sequence given by its function
LEMMA InList ==
    ASSUME NEW S, NEW n \in Nat, NEW f \in [1..n -> S]
    PROVE  f \in Seq(S) /\ Len(f) = n
<1>1. f \in Seq(S)
  BY SeqDef
<1>2. DOMAIN f = 1..Len(f) /\ Len(f) \in Nat
  BY <1>1, LenProperties
<1> QED BY <1>1, <1>2

LEMMA FreeSlotsType ==
    ASSUME AutomationsAssumption, TypesFit
    PROVE  FreeSlots \in Nat
<1>1. Len(run) \in Nat /\ executing \subseteq 1..Len(run)
  BY LenProperties DEF TypesFit, RestFits, Runs
<1>2. Cardinality(executing) \in Nat
  <2>1. 1 \in Int /\ Len(run) \in Int
    BY <1>1
  <2>2. IsFiniteSet(1..Len(run))
    BY <2>1, FS_Interval
  <2>3. IsFiniteSet(executing)
    BY <1>1, <2>2, FS_Subset
  <2> QED BY <2>3, FS_CardinalityType
<1>3. Slots \in Nat
  BY DEF AutomationsAssumption
<1> QED BY <1>2, <1>3 DEF FreeSlots

LEMMA TimerFiresStays ==
    ASSUME AutomationsAssumption, AutomationsInv, TimerFires
    PROVE  Moves /\ Stays
<1> DEFINE due == {a \in Automation : Due(auto[a]) /\ auto[a].running = 0}
           m   == IF Cardinality(due) < FreeSlots THEN Cardinality(due) ELSE FreeSlots
<1>1. /\ todo = <<>> /\ phase = "up" /\ timer' = 0
      /\ \E s \in [1..m -> due] : /\ \A i, j \in 1..m : s[i] = s[j] => i = j
                                  /\ todo' = [i \in 1..m |-> <<"due", s[i]>>] \o <<Arm>>
      /\ UNCHANGED <<auto, run, delivery, published, announced, executing, aborted,
                     phase, clock, starts, faults, cut>>
  BY DEF TimerFires, Ready, Then
<1>2. TypesFit /\ RestFits /\ Len(run) \in Nat
  BY LenProperties DEF AutomationsInv, TypesFit
<1>3. m \in Nat
  <2>1. IsFiniteSet(due)
    <3>1. due \subseteq Automation /\ IsFiniteSet(Automation)
      BY DEF AutomationsAssumption
    <3> QED BY <3>1, FS_Subset
  <2>2. Cardinality(due) \in Nat
    BY <2>1, FS_CardinalityType
  <2> QED BY <1>2, <2>2, FreeSlotsType
<1>4. PICK n \in Nat :
         \E s \in [1..n -> due] : /\ \A i, j \in 1..n : s[i] = s[j] => i = j
                                  /\ todo' = [i \in 1..n |-> <<"due", s[i]>>] \o <<Arm>>
  <2> HIDE DEF m, due
  <2> QED BY <1>1, <1>3
<1>5. PICK s \in [1..n -> due] : /\ \A i, j \in 1..n : s[i] = s[j] => i = j
                                 /\ todo' = [i \in 1..n |-> <<"due", s[i]>>] \o <<Arm>>
  BY <1>4
<1> DEFINE h == [i \in 1..n |-> <<"due", s[i]>>]
<1>6. /\ h \in Seq(StepType(Len(run))) /\ Len(h) = n
      /\ \A i \in 1..n : h[i] = <<"due", s[i]>> /\ s[i] \in Automation /\ auto[s[i]].running = 0
  <2>1. \A i \in 1..n : s[i] \in Automation /\ auto[s[i]].running = 0
    OBVIOUS
  <2>2. h \in [1..n -> StepType(Len(run))]
    BY <2>1 DEF StepType
  <2>3. h \in Seq(StepType(Len(run))) /\ Len(h) = n
    <3> HIDE DEF h
    <3> QED BY <2>2, InList
  <2> QED BY <2>1, <2>3
<1>7. <<Arm>> \in Seq(StepType(Len(run))) /\ Len(<<Arm>>) = 1 /\ <<Arm>>[1] = Arm
  BY DEF Arm, StepType
<1>8. todo' = h \o <<Arm>>
  BY <1>5
<1> HIDE DEF h
<1>9. /\ todo' \in Seq(StepType(Len(run))) /\ Len(todo') = n + 1
      /\ \A i \in Steps' : \/ i \in 1..n /\ todo'[i] = <<"due", s[i]>>
                           \/ i = n + 1 /\ todo'[i] = Arm
  <2>1. /\ h \o <<Arm>> \in Seq(StepType(Len(run))) /\ Len(h \o <<Arm>>) = n + 1
        /\ \A i \in 1..Len(h \o <<Arm>>) :
              \/ i \in 1..n /\ (h \o <<Arm>>)[i] = h[i]
              \/ /\ i - n \in 1..1 /\ i = (i - n) + n
                 /\ (h \o <<Arm>>)[i] = <<Arm>>[i - n]
    BY <1>6, <1>7, Prefixed
  <2>2. \A i \in 1..Len(h \o <<Arm>>) :
              \/ i \in 1..n /\ (h \o <<Arm>>)[i] = h[i]
              \/ i = n + 1 /\ (h \o <<Arm>>)[i] = Arm
    <3> SUFFICES ASSUME NEW i \in 1..Len(h \o <<Arm>>), i \notin 1..n
                 PROVE  i = n + 1 /\ (h \o <<Arm>>)[i] = Arm
      BY <2>1
    <3>1. i - n = 1 /\ i = n + 1
      BY <2>1
    <3> QED BY <1>7, <2>1, <3>1
  <2> QED BY <1>6, <1>8, <2>1, <2>2 DEF Steps
<1>10. Arm[1] = "arm"
  BY DEF Arm
<1>11. TodoFits'
  <2>1. \A i \in Steps' : ByPhase(todo[i])' /\ Expects(todo[i])'
    <3> SUFFICES ASSUME NEW i \in Steps' PROVE ByPhase(todo[i])' /\ Expects(todo[i])'
      OBVIOUS
    <3>1. CASE i \in 1..n /\ todo'[i] = <<"due", s[i]>>
      <4>1. auto'[s[i]].running = 0
        BY <1>1, <1>6, <3>1
      <4>2. todo'[i][1] = "due" /\ todo'[i][2] = s[i]
        <5>1. \A e, a : e = <<"due", a>> => e[1] = "due" /\ e[2] = a
          OBVIOUS
        <5> QED BY <3>1, <5>1
      <4> QED BY <1>1, <4>1, <4>2 DEF ByPhase, Expects
    <3>2. CASE todo'[i] = Arm
      BY <1>1, <1>10, <3>2 DEF ByPhase, Expects
    <3> QED BY <1>9, <3>1, <3>2
  <2>2. \A i, j \in Steps' : i < j => Follows(todo[i], todo[j])'
    <3> SUFFICES ASSUME NEW i \in Steps', NEW j \in Steps', i < j
                 PROVE  Follows(todo[i], todo[j])'
      OBVIOUS
    <3>1. i \in 1..n
      BY <1>9 DEF Steps
    <3>2. todo'[i][1] = "due" /\ todo'[i][2] = s[i]
      BY <1>9, <3>1
    <3>3. CASE j \in 1..n /\ todo'[j] = <<"due", s[j]>>
      <4>1. todo'[j][1] = "due" /\ todo'[j][2] = s[j]
        BY <3>3
      <4>2. s[i] # s[j]
        BY <1>5, <3>1, <3>3
      <4>3. todo'[j] # todo'[i]
        BY <3>2, <4>1, <4>2
      <4> QED BY <3>2, <4>1, <4>3 DEF Follows
    <3>4. CASE todo'[j] = Arm
      <4>1. todo'[j][1] = "arm"
        BY <1>10, <3>4
      <4> QED BY <3>2, <4>1 DEF Follows
    <3> QED BY <1>9, <3>3, <3>4
  <2>3. ~InTodo(<<"recompute", 0>>)'
    <3>1. \A i \in Steps' : todo'[i][1] # "recompute"
      BY <1>9, <1>10
    <3>2. \A e : e = <<"recompute", 0>> => e[1] = "recompute"
      OBVIOUS
    <3> QED BY <3>1, <3>2 DEF InTodo
  <2> QED BY <1>1, <2>1, <2>2, <2>3 DEF TodoFits, StepsFit, RecoveryFits
<1>12. \A e : ~InTodo(e)
  BY <1>1, NothingInTodo
<1>13. Moves
  BY <1>1, <1>2, <1>12, RunsUntouched, AutosUntouched, AnnouncesUntouched DEF Moves
<1>14. TypesFit'
  <2>1. RestFits'
    BY <1>1, <1>2 DEF RestFits, Runs
  <2> QED BY <1>1, <1>2, <1>9, <2>1 DEF TypesFit
<1>15. ExecutionsFit'
  BY <1>1, ExecutionsUntouched
<1>16. EventsFit' /\ DeliveriesFit'
  BY <1>1, <1>12, <1>13, EventsUntouched, DeliveriesUntouched DEF Moves
<1> QED BY <1>11, <1>13, <1>14, <1>15, <1>16 DEF Stays

LEMMA StartServiceStays ==
    ASSUME AutomationsInv, StartService
    PROVE  Moves /\ Stays
<1> DEFINE t == <<<<"recompute", 0>>, Arm, <<"open", 0>>>>
<1>1. /\ phase = "down" /\ phase' = "starting" /\ starts' = starts + 1
      /\ \E n \in 0..Len(run) : \E open \in [1..n -> Runs] :
            /\ {open[i] : i \in 1..n} = {r \in Runs : run[r].status \in Unfinished}
            /\ \A i, j \in 1..n : i < j => open[i] < open[j]
            /\ todo' = [i \in 1..n |-> <<"recover", open[i]>>] \o t
      /\ UNCHANGED <<auto, run, delivery, published, announced, executing, aborted,
                     timer, clock, faults, cut>>
  BY DEF StartService, Then
<1>2. /\ TypesFit /\ RestFits /\ Len(run) \in Nat /\ Runs \subseteq Nat
      /\ todo = <<>> /\ executing = {}
  BY <1>1, LenProperties DEF AutomationsInv, TypesFit, TodoFits, StepsFit, Runs
<1>3. PICK n \in Nat : \E open \in [1..n -> Runs] :
         /\ {open[i] : i \in 1..n} = {r \in Runs : run[r].status \in Unfinished}
         /\ \A i, j \in 1..n : i < j => open[i] < open[j]
         /\ todo' = [i \in 1..n |-> <<"recover", open[i]>>] \o t
  <2>1. 0..Len(run) \subseteq Nat
    BY <1>2
  <2> HIDE DEF t
  <2> QED BY <1>1, <2>1
<1>4. PICK open \in [1..n -> Runs] :
         /\ {open[i] : i \in 1..n} = {r \in Runs : run[r].status \in Unfinished}
         /\ \A i, j \in 1..n : i < j => open[i] < open[j]
         /\ todo' = [i \in 1..n |-> <<"recover", open[i]>>] \o t
  <2> HIDE DEF t
  <2> QED BY <1>3
<1> DEFINE h == [i \in 1..n |-> <<"recover", open[i]>>]
<1>5. /\ h \in Seq(StepType(Len(run))) /\ Len(h) = n
      /\ \A i \in 1..n : h[i] = <<"recover", open[i]>> /\ open[i] \in Runs
  <2>1. h \in [1..n -> StepType(Len(run))]
    BY DEF StepType, Runs
  <2>2. h \in Seq(StepType(Len(run))) /\ Len(h) = n
    <3> HIDE DEF h
    <3> QED BY <2>1, InList
  <2> QED BY <2>2
<1>6. /\ t \in Seq(StepType(Len(run))) /\ Len(t) = 3
      /\ t[1] = <<"recompute", 0>> /\ t[2] = Arm /\ t[3] = <<"open", 0>>
  <2>1. /\ <<"recompute", 0>> \in StepType(Len(run)) /\ Arm \in StepType(Len(run))
        /\ <<"open", 0>> \in StepType(Len(run))
    BY DEF StepType, Arm
  <2> QED BY <2>1
<1>7. todo' = h \o t
  BY <1>4
<1> HIDE DEF h, t
<1>8. /\ todo' \in Seq(StepType(Len(run))) /\ Len(todo') = n + 3
      /\ \A i \in Steps' : \/ i \in 1..n /\ todo'[i] = <<"recover", open[i]>>
                           \/ i = n + 1 /\ todo'[i] = <<"recompute", 0>>
                           \/ i = n + 2 /\ todo'[i] = Arm
                           \/ i = n + 3 /\ todo'[i] = <<"open", 0>>
      /\ \A i \in 1..n : i \in Steps' /\ todo'[i] = <<"recover", open[i]>>
  <2>1. /\ h \o t \in Seq(StepType(Len(run))) /\ Len(h \o t) = n + 3
        /\ \A i \in 1..Len(h \o t) :
              \/ i \in 1..n /\ (h \o t)[i] = h[i]
              \/ i - n \in 1..3 /\ i = (i - n) + n /\ (h \o t)[i] = t[i - n]
        /\ \A i \in 1..n : i \in 1..Len(h \o t) /\ (h \o t)[i] = h[i]
    <3>1. /\ h \o t \in Seq(StepType(Len(run))) /\ Len(h \o t) = Len(h) + Len(t)
          /\ \A i \in 1..Len(h \o t) :
                \/ i \in 1..Len(h) /\ (h \o t)[i] = h[i]
                \/ /\ i - Len(h) \in 1..Len(t) /\ i = (i - Len(h)) + Len(h)
                   /\ (h \o t)[i] = t[i - Len(h)]
          /\ \A i \in 1..Len(h) : i \in 1..Len(h \o t) /\ (h \o t)[i] = h[i]
      <4>1. h \in Seq(StepType(Len(run))) /\ t \in Seq(StepType(Len(run)))
        BY <1>5, <1>6
      <4> QED BY <4>1, Prefixed
    <3> QED BY <1>5, <1>6, <3>1
  <2>2. \A i \in 1..Len(h \o t) :
              \/ i \in 1..n /\ (h \o t)[i] = h[i]
              \/ i = n + 1 /\ (h \o t)[i] = t[1]
              \/ i = n + 2 /\ (h \o t)[i] = t[2]
              \/ i = n + 3 /\ (h \o t)[i] = t[3]
    <3> SUFFICES ASSUME NEW i \in 1..Len(h \o t), i \notin 1..n
                 PROVE  \/ i = n + 1 /\ (h \o t)[i] = t[1]
                        \/ i = n + 2 /\ (h \o t)[i] = t[2]
                        \/ i = n + 3 /\ (h \o t)[i] = t[3]
      BY <2>1
    <3>1. i - n \in 1..3 /\ i = (i - n) + n /\ (h \o t)[i] = t[i - n]
      BY <2>1
    <3>2. \/ i - n = 1 /\ i = n + 1
          \/ i - n = 2 /\ i = n + 2
          \/ i - n = 3 /\ i = n + 3
      BY <3>1
    <3> QED BY <3>1, <3>2
  <2> QED BY <1>5, <1>6, <1>7, <2>1, <2>2 DEF Steps
<1>9. /\ Arm[1] = "arm"
      /\ \A e : e = <<"recompute", 0>> => e[1] = "recompute"
      /\ \A e : e = <<"open", 0>> => e[1] = "open"
      /\ \A e, r : e = <<"recover", r>> => e[1] = "recover" /\ e[2] = r
  BY DEF Arm
<1>10. TodoFits'
  <2>1. \A i \in Steps' : ByPhase(todo[i])' /\ Expects(todo[i])'
    <3> SUFFICES ASSUME NEW i \in Steps' PROVE ByPhase(todo[i])' /\ Expects(todo[i])'
      OBVIOUS
    <3>1. CASE i \in 1..n /\ todo'[i] = <<"recover", open[i]>>
      <4>1. todo'[i][1] = "recover" /\ todo'[i][2] = open[i]
        BY <1>9, <3>1
      <4>2. run'[open[i]].status \in Unfinished
        BY <1>1, <1>4, <3>1
      <4> QED BY <1>1, <1>2, <4>1, <4>2 DEF ByPhase, Expects
    <3>2. CASE todo'[i] \in {<<"recompute", 0>>, Arm, <<"open", 0>>}
      <4>1. todo'[i][1] \in {"recompute", "arm", "open"}
        BY <1>9, <3>2
      <4> QED BY <1>1, <4>1 DEF ByPhase, Expects
    <3> QED BY <1>8, <3>1, <3>2
  <2>2. \A i, j \in Steps' : i < j => Follows(todo[i], todo[j])'
    <3> SUFFICES ASSUME NEW i \in Steps', NEW j \in Steps', i < j
                 PROVE  Follows(todo[i], todo[j])'
      OBVIOUS
    <3>1. i \in 1..(n + 3) /\ j \in 1..(n + 3)
      BY <1>8 DEF Steps
    <3>2. CASE i \in 1..n
      <4>1. todo'[i][1] = "recover" /\ todo'[i][2] = open[i]
        BY <1>8, <1>9, <3>2
      <4>2. CASE j \in 1..n
        <5>1. todo'[j][1] = "recover" /\ todo'[j][2] = open[j]
          BY <1>8, <1>9, <4>2
        <5>2. open[i] # open[j]
          <6>1. open[i] < open[j] /\ open[i] \in Nat /\ open[j] \in Nat
            BY <1>2, <1>4, <1>5, <3>2, <4>2
          <6> QED BY <6>1
        <5> QED BY <4>1, <5>1, <5>2 DEF Follows
      <4>3. CASE j \notin 1..n
        <5>1. todo'[j][1] \in {"recompute", "arm", "open"}
          BY <1>8, <1>9, <4>3
        <5> QED BY <4>1, <5>1 DEF Follows
      <4> QED BY <4>2, <4>3
    <3>3. CASE i \notin 1..n
      <4>1. \/ i = n + 1 /\ todo'[i][1] = "recompute"
            \/ i = n + 2 /\ todo'[i][1] = "arm"
            \/ i = n + 3 /\ todo'[i][1] = "open"
        BY <1>8, <1>9, <3>3
      <4>2. i # n + 3 /\ j \in {n + 2, n + 3}
        BY <3>1, <4>1
      <4>3. todo'[j][1] \in {"arm", "open"}
        BY <1>8, <1>9, <4>2
      <4> QED BY <4>1, <4>2, <4>3 DEF Follows
    <3> QED BY <3>2, <3>3
  <2>3. RecoveryFits'
    <3> SUFFICES ASSUME NEW r \in Runs, run'[r].status \in Unfinished
                 PROVE  InTodo(<<"recover", r>>)'
      BY <1>1 DEF RecoveryFits, Runs
    <3>1. PICK i \in 1..n : open[i] = r
      BY <1>1, <1>4
    <3> QED BY <1>8, <3>1 DEF InTodo
  <2> QED BY <1>1, <2>1, <2>2, <2>3 DEF TodoFits, StepsFit
<1>11. \A e : ~InTodo(e)
  BY <1>2, NothingInTodo
<1>12. Moves
  BY <1>1, <1>2, <1>11, RunsUntouched, AutosUntouched, AnnouncesUntouched DEF Moves
<1>13. TypesFit'
  <2>1. RestFits'
    BY <1>1, <1>2 DEF RestFits, Runs
  <2> QED BY <1>1, <1>2, <1>8, <2>1 DEF TypesFit
<1>14. ExecutionsFit'
  BY <1>1, ExecutionsUntouched
<1>15. EventsFit' /\ DeliveriesFit'
  <2>1. DeliveriesFit'
    BY <1>1 DEF DeliveriesFit
  <2> QED BY <1>1, <1>12, <2>1, EventsUntouched DEF Moves
<1> QED BY <1>10, <1>12, <1>13, <1>14, <1>15 DEF Stays

-----------------------------------------------------------------------------
(* The invariant, and what it says of every behavior.                      *)

LEMMA EmptyGateway ==
    ASSUME AutomationsAssumption, AutomationsInit
    PROVE  AutomationsInv
<1> USE DEF AutomationsInit
<1>1. Runs = {} /\ Steps = {} /\ Len(run) = 0 /\ Len(todo) = 0
  BY DEF Runs, Steps
<1>2. DOMAIN delivery = {}
  OBVIOUS
<1>3. TypesFit
  <2>1. auto \in [Automation -> AutoRow]
    BY DEF AutoRow
  <2>2. \A a \in Automation : auto[a].running \in 0..Len(run)
    BY <1>1
  <2>3. run \in Seq(RunRow) /\ todo \in Seq(StepType(Len(run)))
    OBVIOUS
  <2>4. RestFits
    BY DEF RestFits
  <2> QED BY <1>2, <2>1, <2>2, <2>3, <2>4 DEF TypesFit
<1>4. TodoFits
  BY <1>1 DEF TodoFits, StepsFit, RecoveryFits, InTodo
<1>5. ExecutionsFit /\ GenerationsFit /\ OneRunPerAutomation /\ FinishedIsAnnounced
  BY <1>1 DEF ExecutionsFit, GenerationsFit, OneRunPerAutomation, FinishedIsAnnounced
<1>6. EventsFit /\ DeliveriesFit
  BY <1>1, <1>2 DEF EventsFit, OccurrenceOnce, DeliveriesFit
<1> QED BY <1>3, <1>4, <1>5, <1>6 DEF AutomationsInv

LEMMA EveryStepStays ==
    ASSUME AutomationsAssumption, AutomationsInv, AutomationsNext
    PROVE  Moves /\ Stays
<1>1. CASE Requests
  <2>1. 1..MaxTime \subseteq Nat
    BY DEF AutomationsAssumption
  <2>2. ASSUME NEW a \in Automation, NEW kind \in {"interval", "once", "event"},
               NEW at \in 1..MaxTime, CreateAutomation(a, kind, at) \/ Retrigger(a, kind, at)
        PROVE  Moves /\ Stays
    <3>1. at \in Nat
      BY <2>1
    <3> QED BY <2>2, <3>1, CreateAutomationStays, RetriggerStays
  <2>3. ASSUME NEW a \in Automation, NEW on \in BOOLEAN, SetEnabled(a, on)
        PROVE  Moves /\ Stays
    BY <2>3, SetEnabledStays
  <2>4. ASSUME NEW a \in Automation, RemoveAutomation(a) \/ AskForRun(a)
        PROVE  Moves /\ Stays
    BY <2>4, RemoveAutomationStays, AskForRunStays
  <2>5. ASSUME NEW r \in Runs, AskAgain(r) \/ CancelRun(r)
        PROVE  Moves /\ Stays
    BY <2>5, AskAgainStays, CancelRunStays
  <2> QED BY <1>1, <2>2, <2>3, <2>4, <2>5 DEF Requests
<1>2. CASE FactLoop
  BY <1>2, PublishFactStays, ReplayFactStays, TakeDeliveryStays DEF FactLoop
<1>3. CASE TimerFires
  BY <1>3, TimerFiresStays
<1>4. CASE Callback
  BY <1>4, QueueDueStays, DispatchStays, RearmTimerStays, CompletedStays, RecoverRunStays,
     FreeRecoveredStays, AnnounceRecoveredStays, RecomputeStays, OpenServiceStays DEF Callback
<1>5. CASE Execution
  BY <1>5, EndRunStays DEF Execution
<1>6. CASE Process
  BY <1>6, StartServiceStays, StopServiceStays, ExitStays, TickStays, DispatchFailsStays
     DEF Process
<1> QED BY <1>1, <1>2, <1>3, <1>4, <1>5, <1>6 DEF AutomationsNext

LEMMA Inductive ==
    ASSUME AutomationsAssumption, AutomationsInv, [AutomationsNext]_autoVars
    PROVE  AutomationsInv'
<1>1. CASE AutomationsNext
  <2>1. Moves /\ Stays
    BY <1>1, EveryStepStays
  <2>2. OneRunPerAutomation' /\ GenerationsFit'
    BY <2>1, OneRunKept DEF Stays
  <2>3. FinishedIsAnnounced'
    BY <2>1, AnnouncedKept DEF Stays
  <2> QED BY <2>1, <2>2, <2>3 DEF Stays, AutomationsInv
<1>2. CASE UNCHANGED autoVars
  <2> USE <1>2 DEF autoVars
  <2>1. TypesFit' /\ ExecutionsFit' /\ GenerationsFit'
    BY DEF AutomationsInv, TypesFit, RestFits, Runs, ExecutionsFit, GenerationsFit
  <2>2. TodoFits'
    <3>1. StepsFit'
      BY DEF AutomationsInv, TodoFits, StepsFit, ByPhase, Follows, Steps
    <3>2. \A i \in Steps' : Expects(todo[i])'
      BY DEF AutomationsInv, TodoFits, Expects, Steps
    <3>3. RecoveryFits'
      BY DEF AutomationsInv, TodoFits, RecoveryFits, InTodo, Steps, Runs
    <3> QED BY <3>1, <3>2, <3>3 DEF TodoFits
  <2>3. OneRunPerAutomation' /\ FinishedIsAnnounced'
    BY DEF AutomationsInv, OneRunPerAutomation, FinishedIsAnnounced, Runs
  <2>4. EventsFit' /\ DeliveriesFit'
    BY DEF AutomationsInv, EventsFit, RowFits, OccurrenceOnce, DeliveriesFit, InTodo, Steps, Runs
  <2> QED BY <2>1, <2>2, <2>3, <2>4 DEF AutomationsInv
<1> QED BY <1>1, <1>2

\* The tables, the executions and what is left of the callback under way stay in
\* step with each other through every action, crashes and recovery included.
THEOREM AutomationsInvariant ==
    AutomationsSpec => []AutomationsInv
<1>1. AutomationsAssumption /\ AutomationsInit => AutomationsInv
  BY EmptyGateway
<1>2. AutomationsAssumption /\ AutomationsInv /\ [AutomationsNext]_autoVars => AutomationsInv'
  BY Inductive
<1>3. AutomationsAssumption
  BY AutomationsAssumption
<1> QED BY <1>1, <1>2, <1>3, PTL DEF AutomationsSpec

\* The rows the gateway stores, and what it keeps in memory, have their types,
\* and refer to automations and runs that exist.
THEOREM AutomationsTypes ==
    AutomationsSpec => []AutomationsTypeOK
<1>1. AutomationsInv => AutomationsTypeOK
  BY DEF AutomationsInv, TypesFit, AutomationsTypeOK, AutoRow, RunRow, Row, RestFits
<1> QED BY <1>1, AutomationsInvariant, PTL

\* An automation has at most one unfinished run, the one it points to, however
\* schedules, events, requests, deletions and restarts interleave
\* (persistQueuedRun, finishAutomationRun, recoverInterruptedRuns).
THEOREM OneRun ==
    AutomationsSpec => []OneRunPerAutomation
<1>1. AutomationsInv => OneRunPerAutomation
  BY DEF AutomationsInv
<1> QED BY <1>1, AutomationsInvariant, PTL

\* The result of a run that ended reaches delivery, or is still to be announced
\* by the recovery that ended it, unless a crash cut that recovery short.
THEOREM Announced ==
    AutomationsSpec => []FinishedIsAnnounced
<1>1. AutomationsInv => FinishedIsAnnounced
  BY DEF AutomationsInv
<1> QED BY <1>1, AutomationsInvariant, PTL

\* No occurrence of a schedule and no delivery of an event is run twice, also
\* when a crash leaves the occurrence due (queueTriggerAtomically).
THEOREM Once ==
    AutomationsSpec => []OccurrenceOnce
<1>1. AutomationsInv => OccurrenceOnce
  BY DEF AutomationsInv, EventsFit
<1> QED BY <1>1, AutomationsInvariant, PTL

\* Between two callbacks a delivery waits for a run only that is still to end,
\* since the start settles what a crash left (reconcileAutomationEventDeliveries).
THEOREM DeliveriesFollow ==
    AutomationsSpec => []DeliveryFollowsRun
<1>1. AutomationsInv => DeliveryFollowsRun
  BY NothingInTodo DEF AutomationsInv, DeliveriesFit, DeliveryFollowsRun
<1> QED BY <1>1, AutomationsInvariant, PTL

\* Only the end of its own run frees an automation: not that of a deleted one
\* whose id it took over, and not recomputeNextRuns while the run goes on.
THEOREM FreedByOwnRun ==
    AutomationsSpec => FreedByItsOwnRun
<1>1. AutomationsAssumption /\ AutomationsInv /\ [AutomationsNext]_autoVars =>
         [\A a \in Automation :
             /\ auto[a].live /\ auto'[a].live /\ auto'[a].gen = auto[a].gen
             /\ auto[a].running # 0 /\ auto'[a].running # auto[a].running
             => run'[auto[a].running].status \in Ended]_autoVars
  BY EveryStepStays, FreedKept
<1>2. AutomationsAssumption
  BY AutomationsAssumption
<1> QED BY <1>1, <1>2, AutomationsInvariant, PTL DEF AutomationsSpec, FreedByItsOwnRun

\* A cancellation that was accepted is not undone by the run's own end or by
\* a restart (cancelRunAtomically, executeRun, recoverInterruptedRuns).
THEOREM CancelKept ==
    AutomationsSpec => CancelIsKept
<1>1. AutomationsAssumption /\ AutomationsInv /\ [AutomationsNext]_autoVars =>
         [\A r \in Runs : run[r].status = "cancelling"
             => run'[r].status \in {"cancelling", "cancelled", "timeout"}]_autoVars
  BY EveryStepStays DEF Moves, RunsStep, RunStep
<1>2. AutomationsAssumption
  BY AutomationsAssumption
<1> QED BY <1>1, <1>2, AutomationsInvariant, PTL DEF AutomationsSpec, CancelIsKept

-----------------------------------------------------------------------------
(* The timer.  Whatever changes what is due, or gives a slot back, arms it   *)
(* in the same callback; in between, what waits can only become less.        *)

\* Automations armTimer looks at, and what it promises them
Wants(a) == auto[a].live /\ auto[a].enabled /\ auto[a].next # 0 /\ auto[a].running = 0
Served   == Cardinality(executing) < Slots =>
               \A a \in Automation : Wants(a) => timer # 0 /\ timer <= auto[a].next

\* Between two callbacks the timer fires no later than any automation that is
\* idle falls due, as long as a slot is free.
TimerArmed == phase = "up" /\ todo = <<>> => Served

\* A step that may free an automation has an armTimer after it.
Frees       == {"recover", "free", "recompute"}
ArmAfter(i) == \E j \in Steps : i < j /\ todo[j] = Arm
ArmsFollow  == \A i \in Steps : todo[i][1] \in Frees => ArmAfter(i)
TimerFits   == /\ phase \in {"starting", "up"} => InTodo(Arm) \/ Served
               /\ ArmsFollow

\* A step after which no more automations wait, none falls due earlier, and no
\* execution has ended
Calms == /\ UNCHANGED timer /\ executing \subseteq executing'
         /\ \A a \in Automation : Wants(a)' => Wants(a) /\ auto'[a].next = auto[a].next

LEMMA ServedKept ==
    ASSUME AutomationsAssumption, TypesFit', Calms, Served
    PROVE  Served'
<1>1. Len(run') \in Nat /\ executing' \subseteq 1..Len(run')
  BY LenProperties DEF TypesFit, RestFits, Runs
<1>2. IsFiniteSet(executing')
  <2>1. 1 \in Int /\ Len(run') \in Int
    BY <1>1
  <2> QED BY <1>1, <2>1, FS_Interval, FS_Subset
<1>3. /\ Cardinality(executing) <= Cardinality(executing')
      /\ Cardinality(executing) \in Nat /\ Cardinality(executing') \in Nat
  <2>1. executing \subseteq executing'
    BY DEF Calms
  <2> QED BY <1>2, <2>1, FS_Subset, FS_CardinalityType
<1>4. Slots \in Nat
  BY DEF AutomationsAssumption
<1>5. Cardinality(executing') < Slots => Cardinality(executing) < Slots
  BY <1>3, <1>4
<1> QED BY <1>5 DEF Calms, Served, Wants

\* What is left has one step less, or some others in the place of the first.
LEMMA ArmsStay ==
    ASSUME NEW S, todo \in Seq(S), todo # <<>>, NEW h \in Seq(S), todo' = h \o Tail(todo),
           ArmsFollow, \A i \in 1..Len(h) : h[i][1] \in Frees => todo[1][1] \in Frees
    PROVE  /\ ArmsFollow'
           /\ InTodo(Arm) /\ todo[1] # Arm => InTodo(Arm)'
           /\ todo[1][1] \in Frees => InTodo(Arm)'
<1> DEFINE t == Tail(todo)
           s == h \o t
<1>1. /\ t \in Seq(S) /\ Len(todo) \in Nat \ {0} /\ Len(t) = Len(todo) - 1
      /\ \A i \in 1..Len(t) : i + 1 \in Steps /\ t[i] = todo[i + 1]
      /\ \A j \in Steps : j # 1 => j - 1 \in 1..Len(t) /\ t[j - 1] = todo[j]
  BY Popped DEF Steps
<1> HIDE DEF t
<1>2. /\ Len(h) \in Nat /\ Len(t) \in Nat
      /\ \A i \in 1..Len(s) :
            \/ i \in 1..Len(h) /\ s[i] = h[i]
            \/ /\ i - Len(h) \in 1..Len(t) /\ i = (i - Len(h)) + Len(h)
               /\ s[i] = t[i - Len(h)]
      /\ \A i \in 1..Len(t) : i + Len(h) \in 1..Len(s) /\ s[i + Len(h)] = t[i]
  <2>1. t \in Seq(S)
    BY <1>1
  <2> QED BY ONLY <2>1, h \in Seq(S), Prefixed
<1>3. todo' = s /\ Steps' = 1..Len(s) /\ 1 \in Steps
  BY <1>1 DEF t, Steps
<1> HIDE DEF s
<1>4. ASSUME NEW j \in Steps, j # 1, todo[j] = Arm
      PROVE  \E m \in Steps' : /\ todo'[m] = Arm /\ m = (j - 1) + Len(h)
                               /\ \A i \in 1..Len(h) : i < m
  <2>1. PICK m \in 1..Len(t) : m = j - 1 /\ t[m] = Arm
    BY <1>1, <1>4
  <2>2. m + Len(h) \in Steps' /\ todo'[m + Len(h)] = Arm
    BY <1>2, <1>3, <2>1
  <2>3. \A i \in 1..Len(h) : i < m + Len(h)
    BY <1>2
  <2> QED BY <2>1, <2>2, <2>3
<1>5. ASSUME NEW i \in Steps', todo'[i][1] \in Frees
      PROVE  ArmAfter(i)'
  <2>1. CASE i \in 1..Len(h) /\ s[i] = h[i]
    <3>1. ArmAfter(1)
      BY <1>3, <1>5, <2>1 DEF ArmsFollow
    <3>2. PICK j \in Steps : 1 < j /\ todo[j] = Arm
      BY <3>1 DEF ArmAfter
    <3>3. j # 1
      BY <3>2 DEF Steps
    <3> QED BY <1>4, <2>1, <3>2, <3>3 DEF ArmAfter
  <2>2. CASE i - Len(h) \in 1..Len(t) /\ i = (i - Len(h)) + Len(h) /\ s[i] = t[i - Len(h)]
    <3>1. PICK m \in 1..Len(t) : i = m + Len(h) /\ s[i] = t[m]
      BY <2>2
    <3>2. m + 1 \in Steps /\ todo[m + 1][1] \in Frees
      BY <1>1, <1>3, <1>5, <3>1
    <3>3. PICK j \in Steps : m + 1 < j /\ todo[j] = Arm
      BY <3>2 DEF ArmsFollow, ArmAfter
    <3>4. j # 1 /\ i < (j - 1) + Len(h)
      BY <1>2, <3>1, <3>3 DEF Steps
    <3> QED BY <1>4, <3>3, <3>4 DEF ArmAfter
  <2> QED BY <1>2, <1>3, <2>1, <2>2
<1>6. ASSUME InTodo(Arm), todo[1] # Arm PROVE InTodo(Arm)'
  <2>1. PICK j \in Steps : todo[j] = Arm
    BY <1>6 DEF InTodo
  <2> QED BY <1>4, <1>6, <2>1 DEF InTodo
<1>7. ASSUME todo[1][1] \in Frees PROVE InTodo(Arm)'
  <2>1. PICK j \in Steps : 1 < j /\ todo[j] = Arm
    BY <1>3, <1>7 DEF ArmsFollow, ArmAfter
  <2>2. j # 1
    BY <2>1 DEF Steps
  <2> QED BY <1>4, <2>1, <2>2 DEF InTodo
<1> QED BY <1>5, <1>6, <1>7 DEF ArmsFollow

LEMMA CallbackTimer ==
    ASSUME AutomationsAssumption, TypesFit', TimerFits,
           NEW S, todo \in Seq(S), todo # <<>>, NEW h \in Seq(S), todo' = h \o Tail(todo),
           \A i \in 1..Len(h) : h[i][1] \in Frees => todo[1][1] \in Frees,
           todo[1][1] \in Frees \/ (Calms /\ todo[1] # Arm),
           phase' \in {"starting", "up"} => phase \in {"starting", "up"}
    PROVE  TimerFits'
<1>1. ArmsFollow
  BY DEF TimerFits
<1>2. /\ ArmsFollow'
      /\ InTodo(Arm) /\ todo[1] # Arm => InTodo(Arm)'
      /\ todo[1][1] \in Frees => InTodo(Arm)'
  BY <1>1, ArmsStay
<1>3. ASSUME Calms, phase' \in {"starting", "up"}, ~InTodo(Arm) PROVE Served'
  BY <1>3, ServedKept DEF TimerFits
<1> QED BY <1>2, <1>3 DEF TimerFits

LEMMA PoppedTimer ==
    ASSUME AutomationsAssumption, TypesFit, TypesFit', TimerFits, todo # <<>>, Done,
           todo[1][1] \in Frees \/ (Calms /\ todo[1] # Arm),
           phase' \in {"starting", "up"} => phase \in {"starting", "up"}
    PROVE  TimerFits'
<1> DEFINE S == StepType(Len(run))
           h == <<>>
<1>1. todo \in Seq(S) /\ Tail(todo) \in Seq(S) /\ h \in Seq(S) /\ Len(h) = 0
  BY Popped DEF TypesFit
<1>2. todo' = h \o Tail(todo)
  BY <1>1, ConcatEmptySeq DEF Done
<1>3. \A i \in 1..Len(h) : h[i][1] \in Frees => todo[1][1] \in Frees
  BY <1>1
<1> HIDE DEF S, h
<1> QED BY <1>1, <1>2, <1>3, CallbackTimer

\* Between two callbacks: an armTimer to come, or nothing that matters to it
LEMMA ArmedAtOnce ==
    ASSUME NEW e, e[1] \notin Frees, todo' \in {<<Arm>>, <<Arm, e>>, <<e, Arm>>}
    PROVE  TimerFits'
<1>1. Arm[1] \notin Frees
  BY DEF Arm, Frees
<1>2. \A i \in Steps' : todo'[i][1] \notin Frees
  BY <1>1 DEF Steps
<1>3. InTodo(Arm)'
  <2>1. CASE todo' \in {<<Arm>>, <<Arm, e>>}
    <3>1. 1 \in Steps' /\ todo'[1] = Arm
      BY <2>1 DEF Steps
    <3> QED BY <3>1 DEF InTodo
  <2>2. CASE todo' = <<e, Arm>>
    <3>1. 2 \in Steps' /\ todo'[2] = Arm
      BY <2>2 DEF Steps
    <3> QED BY <3>1 DEF InTodo
  <2> QED BY <2>1, <2>2
<1> QED BY <1>2, <1>3 DEF TimerFits, ArmsFollow

LEMMA CalmlyBetween ==
    ASSUME AutomationsAssumption, TypesFit', TimerFits, todo = <<>>, Calms, UNCHANGED phase,
           NEW e, e[1] \notin Frees, todo' \in {<<>>, <<e>>}
    PROVE  TimerFits'
<1>1. ~InTodo(Arm)
  BY NothingInTodo
<1>2. phase' \in {"starting", "up"} => Served'
  BY <1>1, ServedKept DEF TimerFits
<1>3. \A i \in Steps' : todo'[i][1] \notin Frees
  BY DEF Steps
<1> QED BY <1>2, <1>3 DEF TimerFits, ArmsFollow

LEMMA QueuedCalmly ==
    ASSUME TypesFit, NEW a \in Automation, auto' = [auto EXCEPT ![a].running = Len(run) + 1],
           UNCHANGED <<timer, executing>>
    PROVE  Calms
<1>1. Len(run) \in Nat /\ auto \in [Automation -> AutoRow]
  BY LenProperties DEF TypesFit
<1>2. ASSUME NEW b \in Automation, Wants(b)' PROVE Wants(b) /\ auto'[b].next = auto[b].next
  <2>1. CASE b = a
    <3>1. auto'[a].running = Len(run) + 1
      BY <1>1 DEF AutoRow
    <3> QED BY <1>1, <1>2, <2>1, <3>1 DEF Wants
  <2>2. CASE b # a
    BY <1>1, <1>2, <2>2 DEF Wants
  <2> QED BY <2>1, <2>2
<1> QED BY <1>2 DEF Calms

LEMMA ArmedServes ==
    ASSUME TypesFit, Cardinality(executing) < Slots, AutomationsAssumption,
           NEW a \in Automation, Wants(a)
    PROVE  Armed(auto, executing) # 0 /\ Armed(auto, executing) <= auto[a].next
<1> DEFINE due == {b \in Automation : auto[b].live /\ auto[b].enabled /\ auto[b].next # 0
                                     /\ auto[b].running = 0}
           T   == {auto[b].next : b \in due}
<1>1. a \in due
  BY DEF Wants
<1>2. T \subseteq Nat \ {0} /\ T # {}
  <2>1. \A b \in due : auto[b].next \in Nat \ {0}
    BY DEF TypesFit, AutoRow
  <2> QED BY <1>1, <2>1
<1>3. PICK m \in T : \A t \in T : m <= t
  <2> HIDE DEF T
  <2>1. T \subseteq Nat
    BY <1>2
  <2> QED BY <1>2, <2>1, Earliest
<1>4. \E t \in T : \A b \in due : t <= auto[b].next
  BY <1>3
<1> DEFINE first == CHOOSE t \in T : \A b \in due : t <= auto[b].next
<1>5. first \in T /\ \A b \in due : first <= auto[b].next
  BY <1>4
<1>6. ~(Cardinality(executing) >= Slots)
  <2>1. Cardinality(executing) \in Nat
    <3>1. Len(run) \in Nat /\ executing \subseteq 1..Len(run)
      BY LenProperties DEF TypesFit, RestFits, Runs
    <3>2. 1 \in Int /\ Len(run) \in Int
      BY <3>1
    <3> QED BY <3>1, <3>2, FS_Interval, FS_Subset, FS_CardinalityType
  <2>2. Slots \in Nat
    BY DEF AutomationsAssumption
  <2> QED BY <2>1, <2>2
<1>7. Armed(auto, executing) =
         IF Cardinality(executing) >= Slots \/ due = {} THEN 0
         ELSE CHOOSE t \in T : \A b \in due : t <= auto[b].next
  BY Zenon DEF Armed
<1>8. due # {}
  BY <1>1
<1>9. Armed(auto, executing) = first
  BY <1>6, <1>7, <1>8
<1> HIDE DEF first, T, due
<1> QED BY <1>1, <1>2, <1>5, <1>9

\* One lemma for each kind of action.
LEMMA RequestTimer ==
    ASSUME AutomationsAssumption, AutomationsInv, TypesFit', TimerFits, Requests
    PROVE  TimerFits'
<1>1. TypesFit
  BY DEF AutomationsInv
<1>2. ASSUME todo' = <<Arm>> PROVE TimerFits'
  <2>1. <<"dispatch", 0>>[1] \notin Frees
    BY DEF Frees
  <2> QED BY <1>2, <2>1, ArmedAtOnce
<1>3. ASSUME NEW r, todo = <<>>, todo' = <<<<"dispatch", r>>>>, Calms, UNCHANGED phase
      PROVE  TimerFits'
  <2> DEFINE e == <<"dispatch", r>>
  <2>1. e[1] \notin Frees
    BY DEF Frees
  <2>2. todo' \in {<<>>, <<e>>}
    BY <1>3
  <2> HIDE DEF e
  <2> QED BY <1>3, <2>1, <2>2, CalmlyBetween
<1>4. ASSUME NEW r \in Runs, CancelRun(r) PROVE TimerFits'
  <2> DEFINE e == <<"completed", r>>
  <2>1. e[1] \notin Frees
    BY DEF Frees
  <2>2. todo' = <<e, Arm>> \/ todo' = <<Arm>>
    BY <1>4 DEF CancelRun, Then
  <2> HIDE DEF e
  <2> QED BY <2>1, <2>2, ArmedAtOnce
<1>5. ASSUME NEW a \in Automation, AskForRun(a) PROVE TimerFits'
  <2>1. /\ auto' = [auto EXCEPT ![a].running = Len(run) + 1] /\ todo = <<>>
        /\ todo' = <<<<"dispatch", Len(run) + 1>>>> /\ UNCHANGED <<timer, executing, phase>>
    BY <1>5 DEF AskForRun, QueueRun, Then, Ready, unchangedProcess
  <2> QED BY <1>1, <1>3, <2>1, QueuedCalmly
<1>6. ASSUME NEW r \in Runs, AskAgain(r) PROVE TimerFits'
  <2>1. /\ todo = <<>> /\ todo' = <<<<"dispatch", r>>>>
        /\ UNCHANGED <<auto, timer, executing, phase>>
    BY <1>6 DEF AskAgain, Then, Ready, unchangedProcess
  <2>2. Calms
    BY <2>1 DEF Calms, Wants
  <2> QED BY <1>3, <2>1, <2>2
<1>7. ASSUME NEW a \in Automation, NEW kind \in Kinds, NEW at,
             CreateAutomation(a, kind, at) \/ Retrigger(a, kind, at)
      PROVE  TimerFits'
  BY <1>2, <1>7 DEF CreateAutomation, Retrigger, Then
<1>8. ASSUME NEW a \in Automation, NEW on \in BOOLEAN, SetEnabled(a, on) PROVE TimerFits'
  BY <1>2, <1>8 DEF SetEnabled, Then
<1>9. ASSUME NEW a \in Automation, RemoveAutomation(a) PROVE TimerFits'
  BY <1>2, <1>9 DEF RemoveAutomation, Then
<1> QED BY <1>4, <1>5, <1>6, <1>7, <1>8, <1>9 DEF Requests, Kinds

LEMMA FactTimer ==
    ASSUME AutomationsAssumption, AutomationsInv, TypesFit', TimerFits, FactLoop
    PROVE  TimerFits'
<1>1. TypesFit /\ todo = <<>> /\ UNCHANGED <<phase, timer, executing>>
  BY DEF AutomationsInv, FactLoop, PublishFact, ReplayFact, TakeDelivery, Ready, unchangedProcess
<1>2. \/ UNCHANGED <<auto, todo>>
      \/ \E a \in Automation, r \in Nat : /\ auto' = [auto EXCEPT ![a].running = Len(run) + 1]
                                          /\ todo' = <<<<"dispatch", r>>>>
  <2>1. CASE \E f \in Fact : PublishFact(f) \/ ReplayFact(f)
    BY <2>1 DEF PublishFact, ReplayFact
  <2>2. ASSUME NEW k \in DOMAIN delivery, TakeDelivery(k)
        PROVE  \/ UNCHANGED <<auto, todo>>
               \/ /\ auto' = [auto EXCEPT ![k[2]].running = Len(run) + 1]
                  /\ todo' = <<<<"dispatch", Len(run) + 1>>>>
                  /\ k[2] \in Automation /\ Len(run) + 1 \in Nat
    <3>1. k[2] \in Automation /\ Len(run) + 1 \in Nat
      BY <1>1, LenProperties DEF TypesFit
    <3> QED BY <2>2, <3>1 DEF TakeDelivery, QueueRun, Then
  <2> QED BY <2>1, <2>2 DEF FactLoop
<1>3. ASSUME NEW r, todo' \in {<<>>, <<<<"dispatch", r>>>>}, Calms
      PROVE  TimerFits'
  <2> DEFINE e == <<"dispatch", r>>
  <2>1. e[1] \notin Frees
    BY DEF Frees
  <2>2. todo' \in {<<>>, <<e>>}
    BY <1>3
  <2> HIDE DEF e
  <2> QED BY <1>1, <1>3, <2>1, <2>2, CalmlyBetween
<1>4. CASE UNCHANGED <<auto, todo>>
  <2>1. Calms
    BY <1>1, <1>4 DEF Calms, Wants
  <2> QED BY <1>1, <1>3, <1>4, <2>1
<1>5. ASSUME NEW a \in Automation, NEW r \in Nat, todo' = <<<<"dispatch", r>>>>,
             auto' = [auto EXCEPT ![a].running = Len(run) + 1]
      PROVE  TimerFits'
  <2>1. Calms
    BY <1>1, <1>5, QueuedCalmly
  <2> QED BY <1>3, <1>5, <2>1
<1> QED BY <1>2, <1>4, <1>5

LEMMA FiringTimer ==
    ASSUME AutomationsAssumption, AutomationsInv, TimerFires
    PROVE  TimerFits'
<1> DEFINE due == {a \in Automation : Due(auto[a]) /\ auto[a].running = 0}
           m   == IF Cardinality(due) < FreeSlots THEN Cardinality(due) ELSE FreeSlots
<1>1. m \in Nat
  <2>1. TypesFit
    BY DEF AutomationsInv
  <2>2. due \subseteq Automation /\ IsFiniteSet(Automation)
    BY DEF AutomationsAssumption
  <2>3. Cardinality(due) \in Nat
    BY <2>2, FS_Subset, FS_CardinalityType
  <2> QED BY <2>1, <2>3, FreeSlotsType
<1>2. \E s \in [1..m -> due] : todo' = [i \in 1..m |-> <<"due", s[i]>>] \o <<Arm>>
  BY DEF TimerFires, Then
<1>3. PICK n \in Nat :
         \E s \in [1..n -> due] : todo' = [i \in 1..n |-> <<"due", s[i]>>] \o <<Arm>>
  <2> HIDE DEF m, due
  <2> QED BY <1>1, <1>2
<1>4. PICK s \in [1..n -> due] : todo' = [i \in 1..n |-> <<"due", s[i]>>] \o <<Arm>>
  <2> HIDE DEF due
  <2> QED BY <1>3
<1> DEFINE S == ({"due"} \X due) \cup {Arm}
           h == [i \in 1..n |-> <<"due", s[i]>>]
           t == <<Arm>>
<1>5. h \in Seq(S) /\ Len(h) = n /\ \A i \in 1..n : h[i][1] = "due"
  <2>1. h \in [1..n -> S] /\ \A i \in 1..n : h[i][1] = "due"
    BY DEF Arm
  <2> HIDE DEF h, S
  <2> QED BY <2>1, InList
<1>6. t \in Seq(S) /\ Len(t) = 1 /\ t[1] = Arm
  OBVIOUS
<1>7. todo' = h \o t
  BY <1>4
<1> HIDE DEF S, h, t
<1>8. /\ \A i \in 1..Len(h \o t) :
            \/ i \in 1..Len(h) /\ (h \o t)[i] = h[i]
            \/ /\ i - Len(h) \in 1..Len(t) /\ i = (i - Len(h)) + Len(h)
               /\ (h \o t)[i] = t[i - Len(h)]
      /\ \A i \in 1..Len(t) :
            i + Len(h) \in 1..Len(h \o t) /\ (h \o t)[i + Len(h)] = t[i]
  <2>1. h \in Seq(S) /\ t \in Seq(S)
    BY <1>5, <1>6
  <2> QED BY ONLY <2>1, Prefixed
<1>9. \A i \in Steps' : todo'[i][1] \notin Frees
  BY <1>5, <1>6, <1>7, <1>8 DEF Steps, Frees, Arm
<1>10. InTodo(Arm)'
  BY <1>6, <1>7, <1>8 DEF Steps, InTodo
<1> QED BY <1>9, <1>10 DEF TimerFits, ArmsFollow

LEMMA StartingTimer ==
    ASSUME AutomationsInv, StartService
    PROVE  TimerFits'
<1> DEFINE t == <<<<"recompute", 0>>, Arm, <<"open", 0>>>>
<1>1. Len(run) \in Nat
  BY LenProperties DEF AutomationsInv, TypesFit
<1>2. PICK n \in Nat : \E open \in [1..n -> Runs] :
         todo' = [i \in 1..n |-> <<"recover", open[i]>>] \o t
  <2>1. 0..Len(run) \subseteq Nat
    BY <1>1
  <2>2. \E n \in 0..Len(run) : \E open \in [1..n -> Runs] :
           todo' = [i \in 1..n |-> <<"recover", open[i]>>] \o t
    BY DEF StartService, Then
  <2> HIDE DEF t
  <2> QED BY <2>1, <2>2
<1>3. PICK open \in [1..n -> Runs] : todo' = [i \in 1..n |-> <<"recover", open[i]>>] \o t
  <2> HIDE DEF t
  <2> QED BY <1>2
<1> DEFINE S == StepType(Len(run))
           h == [i \in 1..n |-> <<"recover", open[i]>>]
<1>4. h \in Seq(S) /\ Len(h) = n
  <2>1. h \in [1..n -> S]
    BY DEF StepType, Runs
  <2> HIDE DEF h, S
  <2> QED BY <2>1, InList
<1>5. t \in Seq(S) /\ Len(t) = 3 /\ t[2] = Arm /\ t[3][1] = "open"
  <2>1. <<"recompute", 0>> \in S /\ Arm \in S /\ <<"open", 0>> \in S
    BY DEF StepType, Arm
  <2> QED BY <2>1
<1>6. todo' = h \o t
  BY <1>3
<1> HIDE DEF S, h, t
<1>7. /\ \A i \in 1..Len(h \o t) :
            \/ i \in 1..Len(h) /\ (h \o t)[i] = h[i]
            \/ /\ i - Len(h) \in 1..Len(t) /\ i = (i - Len(h)) + Len(h)
               /\ (h \o t)[i] = t[i - Len(h)]
      /\ \A i \in 1..Len(t) :
            i + Len(h) \in 1..Len(h \o t) /\ (h \o t)[i + Len(h)] = t[i]
  <2>1. h \in Seq(S) /\ t \in Seq(S)
    BY <1>4, <1>5
  <2> QED BY ONLY <2>1, Prefixed
<1>8. 2 + n \in Steps' /\ todo'[2 + n] = Arm
  BY <1>4, <1>5, <1>6, <1>7 DEF Steps
<1>9. ASSUME NEW i \in Steps', todo'[i][1] \in Frees PROVE i < 2 + n
  <2>1. CASE i \in 1..n
    BY <2>1
  <2>2. CASE i - n \in 1..3 /\ i = (i - n) + n /\ todo'[i] = t[i - n]
    <3>1. PICK m \in 1..3 : i = m + n /\ todo'[i] = t[m]
      BY <2>2
    <3>2. m # 2 /\ m # 3
      BY <1>5, <1>9, <3>1 DEF Frees, Arm
    <3> QED BY <3>1, <3>2
  <2> QED BY <1>4, <1>5, <1>6, <1>7, <2>1, <2>2 DEF Steps
<1> QED BY <1>8, <1>9 DEF TimerFits, ArmsFollow, ArmAfter, InTodo

LEMMA RearmedTimer ==
    ASSUME AutomationsAssumption, AutomationsInv, TimerFits, RearmTimer
    PROVE  TimerFits'
<1>1. /\ TypesFit /\ todo # <<>> /\ todo[1][1] = "arm" /\ Done
      /\ timer' = IF phase = "stopping" THEN timer ELSE Armed(auto, executing)
      /\ UNCHANGED <<auto, executing, phase>>
  BY DEF AutomationsInv, RearmTimer, Step
<1>2. ASSUME phase \in {"starting", "up"} PROVE Served'
  <2>1. timer' = Armed(auto, executing)
    BY <1>1, <1>2
  <2>2. ASSUME Cardinality(executing) < Slots, NEW a \in Automation, Wants(a)
        PROVE  timer' # 0 /\ timer' <= auto[a].next
    BY <1>1, <2>1, <2>2, ArmedServes
  <2> QED BY <1>1, <2>2 DEF Served, Wants
<1>3. ArmsFollow'
  <2> DEFINE S == StepType(Len(run))
             h == <<>>
  <2>1. todo \in Seq(S) /\ Tail(todo) \in Seq(S) /\ h \in Seq(S) /\ Len(h) = 0
    BY <1>1, Popped DEF TypesFit
  <2>2. todo' = h \o Tail(todo)
    BY <1>1, <2>1, ConcatEmptySeq DEF Done
  <2>3. \A i \in 1..Len(h) : h[i][1] \in Frees => todo[1][1] \in Frees
    BY <2>1
  <2> HIDE DEF S, h
  <2> QED BY <1>1, <2>1, <2>2, <2>3, ArmsStay DEF TimerFits
<1> QED BY <1>1, <1>2, <1>3 DEF TimerFits

LEMMA QueueDueTimer ==
    ASSUME AutomationsAssumption, AutomationsInv, TypesFit', TimerFits, QueueDue
    PROVE  TimerFits'
<1>1. /\ TypesFit /\ todo # <<>> /\ todo[1][1] = "due" /\ UNCHANGED <<phase, timer, executing>>
  BY DEF AutomationsInv, QueueDue, Step, unchangedProcess
<1>2. todo[1][2] \in Automation /\ todo[1] # Arm /\ todo[1][1] \notin Frees
  <2>1. todo[1] \in StepType(Len(run))
    BY <1>1, Popped DEF TypesFit
  <2> QED BY <1>1, <2>1, DueStep DEF Arm, Frees
<1>3. \/ UNCHANGED auto
      \/ auto' = [auto EXCEPT ![todo[1][2]].running = Len(run) + 1]
  BY DEF QueueDue, QueueRun, Subject
<1>4. Calms
  <2>1. CASE UNCHANGED auto
    BY <1>1, <2>1 DEF Calms, Wants
  <2>2. CASE auto' = [auto EXCEPT ![todo[1][2]].running = Len(run) + 1]
    BY <1>1, <1>2, <2>2, QueuedCalmly
  <2> QED BY <1>3, <2>1, <2>2
<1>5. \E r : todo' = <<<<"dispatch", r>>>> \o Tail(todo)
  BY DEF QueueDue
<1>6. PICK r : todo' = <<<<"dispatch", r>>>> \o Tail(todo)
  BY <1>5
<1> DEFINE e == <<"dispatch", r>>
           S == StepType(Len(run)) \cup {e}
           h == <<e>>
<1>7. todo \in Seq(S) /\ h \in Seq(S) /\ Len(h) = 1 /\ h[1] = e
  <2>1. StepType(Len(run)) \subseteq S /\ e \in S
    OBVIOUS
  <2> HIDE DEF S, e
  <2> QED BY <1>1, <2>1, SeqMonotonic DEF TypesFit
<1>8. \A i \in 1..Len(h) : h[i][1] \notin Frees
  BY <1>7 DEF Frees
<1>9. todo' = h \o Tail(todo)
  BY <1>6
<1> HIDE DEF S, h, e
<1> QED BY <1>1, <1>2, <1>4, <1>7, <1>8, <1>9, CallbackTimer

LEMMA RecoverRunTimer ==
    ASSUME AutomationsAssumption, AutomationsInv, TypesFit', TimerFits, RecoverRun
    PROVE  TimerFits'
<1>1. TypesFit /\ todo # <<>> /\ todo[1][1] = "recover" /\ UNCHANGED phase
  BY DEF AutomationsInv, RecoverRun, Step, unchangedProcess
<1>2. PICK r \in Runs : todo[1] = <<"recover", r>>
  <2>1. todo[1] \in StepType(Len(run))
    BY <1>1, Popped DEF TypesFit
  <2>2. PICK r \in 1..Len(run) : todo[1] = <<"recover", r>>
    BY <1>1, <2>1 DEF StepType
  <2> QED BY <2>2 DEF Runs
<1>3. PICK h \in {<<<<"dispatch", r>>>>, AfterRecovery(r), <<>>} : todo' = h \o Tail(todo)
  <2>1. Subject = r
    BY <1>2 DEF Subject
  <2>2. \/ todo' = <<<<"dispatch", r>>>> \o Tail(todo)
        \/ todo' = AfterRecovery(r) \o Tail(todo)
        \/ todo' = <<>> \o Tail(todo)
    BY <2>1 DEF RecoverRun
  <2> QED BY <2>2
<1> DEFINE S == StepType(Len(run))
<1>4. todo \in Seq(S) /\ h \in Seq(S)
  <2>1. <<"dispatch", r>> \in S /\ <<"free", r>> \in S /\ <<"announce", r>> \in S
    BY DEF StepType, Runs
  <2>2. <<<<"dispatch", r>>>> \in Seq(S) /\ AfterRecovery(r) \in Seq(S) /\ <<>> \in Seq(S)
    <3> HIDE DEF S
    <3> QED BY <2>1, ShortSequences DEF AfterRecovery
  <2> QED BY <1>1, <1>3, <2>2 DEF TypesFit
<1>5. todo[1][1] \in Frees
  BY <1>1 DEF Frees
<1> HIDE DEF S
<1> QED BY <1>1, <1>3, <1>4, <1>5, CallbackTimer

\* The other steps of a callback take themselves from what is left.
LEMMA DoneTimer ==
    ASSUME AutomationsAssumption, AutomationsInv, TypesFit', TimerFits,
           Dispatch \/ DispatchFails \/ Completed \/ FreeRecovered \/ AnnounceRecovered
           \/ Recompute \/ OpenService
    PROVE  TimerFits'
<1>1. TypesFit /\ todo # <<>> /\ Done
  BY DEF AutomationsInv, Dispatch, DispatchFails, Completed, FreeRecovered, AnnounceRecovered,
         Recompute, OpenService, Step
<1>2. CASE FreeRecovered \/ Recompute
  <2>1. todo[1][1] \in Frees /\ UNCHANGED phase
    BY <1>2 DEF FreeRecovered, Recompute, Step, Frees, unchangedProcess
  <2> QED BY <1>1, <2>1, PoppedTimer
<1>3. CASE Dispatch \/ DispatchFails \/ Completed \/ AnnounceRecovered
  <2>1. /\ todo[1] # Arm /\ UNCHANGED <<phase, timer, auto>> /\ executing \subseteq executing'
    BY <1>3 DEF Dispatch, DispatchFails, Completed, AnnounceRecovered, Step, Arm,
                unchangedProcess
  <2>2. Calms
    BY <2>1 DEF Calms, Wants
  <2> QED BY <1>1, <2>1, <2>2, PoppedTimer
<1>4. CASE OpenService
  <2>1. todo[1][1] = "open" /\ todo[1] # Arm /\ UNCHANGED <<timer, auto, executing>>
    BY <1>4 DEF OpenService, Step, Arm
  <2>2. phase = "starting"
    <3>1. 1 \in Steps
      BY <1>1, Popped DEF TypesFit, Steps
    <3> QED BY <2>1, <3>1 DEF AutomationsInv, TodoFits, StepsFit, ByPhase
  <2>3. Calms
    BY <2>1 DEF Calms, Wants
  <2> QED BY <1>1, <2>1, <2>2, <2>3, PoppedTimer
<1> QED BY <1>2, <1>3, <1>4

LEMMA EndRunTimer ==
    ASSUME NEW r \in executing, NEW status \in Ended, EndRun(r, status)
    PROVE  TimerFits'
<1> DEFINE e == <<"completed", r>>
<1>1. e[1] \notin Frees /\ todo' = <<Arm, e>>
  BY DEF Frees, EndRun, Then
<1> HIDE DEF e
<1> QED BY <1>1, ArmedAtOnce

LEMMA ProcessTimer ==
    ASSUME AutomationsAssumption, AutomationsInv, TypesFit', TimerFits,
           StopService \/ Exit \/ Tick
    PROVE  TimerFits'
<1>1. CASE StopService \/ Exit
  <2>1. todo' = <<>> /\ phase' \in {"stopping", "down"}
    BY <1>1 DEF StopService, Exit, Ready
  <2> QED BY <2>1 DEF TimerFits, ArmsFollow, Steps
<1>2. CASE Tick
  <2>1. todo = <<>> /\ todo' = <<>> /\ UNCHANGED <<phase, timer, executing, auto>>
    BY <1>2 DEF Tick
  <2>2. Calms /\ <<"dispatch", 0>>[1] \notin Frees
    BY <2>1 DEF Calms, Wants, Frees
  <2> QED BY <2>1, <2>2, CalmlyBetween
<1> QED BY <1>1, <1>2

\* Between two callbacks the timer is armed for the earliest time an idle
\* automation falls due while a slot is free, whatever came and went before:
\* what changes the schedule or gives a slot back arms it in the same callback
\* (armTimer).  It is the safety part of DueRuns.
THEOREM TimerServes ==
    AutomationsSpec => []TimerArmed
<1>1. AutomationsInit => TimerFits
  BY DEF AutomationsInit, TimerFits, ArmsFollow, Steps
<1>2. AutomationsAssumption /\ AutomationsInv /\ AutomationsInv' /\ TimerFits
         /\ [AutomationsNext]_autoVars => TimerFits'
  <2> SUFFICES ASSUME AutomationsAssumption, AutomationsInv, AutomationsInv', TimerFits,
                      [AutomationsNext]_autoVars
               PROVE  TimerFits'
    OBVIOUS
  <2>1. TypesFit'
    BY DEF AutomationsInv
  <2>2. CASE Requests
    BY <2>1, <2>2, RequestTimer
  <2>3. CASE FactLoop
    BY <2>1, <2>3, FactTimer
  <2>4. CASE TimerFires
    BY <2>4, FiringTimer
  <2>5. CASE Callback
    BY <2>1, <2>5, QueueDueTimer, RearmedTimer, RecoverRunTimer, DoneTimer DEF Callback
  <2>6. CASE Execution
    BY <2>6, EndRunTimer DEF Execution
  <2>7. CASE Process
    BY <2>1, <2>7, StartingTimer, ProcessTimer, DoneTimer DEF Process
  <2>8. CASE UNCHANGED autoVars
    BY <2>8 DEF autoVars, TimerFits, ArmsFollow, ArmAfter, InTodo, Steps, Served, Wants
  <2> QED BY <2>2, <2>3, <2>4, <2>5, <2>6, <2>7, <2>8 DEF AutomationsNext
<1>3. AutomationsInv /\ TimerFits => TimerArmed
  BY NothingInTodo DEF TimerFits, TimerArmed
<1>4. AutomationsAssumption
  BY AutomationsAssumption
<1> QED BY <1>1, <1>2, <1>3, <1>4, AutomationsInvariant, PTL DEF AutomationsSpec

=============================================================================
