------------------------- MODULE AgentInbox_proofs ---------------------------
(***************************************************************************)
(* Proofs about AgentInbox, for any number of messages and watchers: type  *)
(* correctness, and that the inbox implements ClaimedWork.  The invariant  *)
(* behind the latter says that a row shows no token but that of its latest *)
(* claim, so an acknowledgement whose token matches is of the latest claim.*)
(***************************************************************************)
EXTENDS AgentInbox, TLAPS

\* A row at rest between two steps
MessageOK(x) == /\ x \in MessageRow
                /\ x.token \in {0, x.claims}
                /\ x.status # "waiting" => x.token = 0
                /\ x.status # "processed" => x.by = 0
ClaimsHaveTokens == \A w \in Watcher : handling[w] # NoClaim => handling[w].token # 0
InboxInv == InboxTypeOK /\ (\A m \in Message : MessageOK(inbox[m])) /\ ClaimsHaveTokens

\* How a step changes a row.
MessageMoves(x, y) ==
    \/ x.status = y.status /\ x.token = y.token /\ x.claims = y.claims /\ x.by = y.by
    \/ /\ x.status = "absent" /\ y.status = "waiting"
       /\ y.token = x.token /\ y.claims = x.claims /\ y.by = x.by
    \/ /\ x.status = "waiting" /\ y.status = "waiting" /\ y.by = x.by
       /\ y.claims = x.claims + 1 /\ y.token = y.claims
    \/ /\ x.status = "waiting" /\ x.token # 0 /\ y.token = 0 /\ y.claims = x.claims
       /\ \/ y.status = "processed" /\ y.by = x.token
          \/ y.status = "waiting" /\ y.by = x.by
    \/ /\ x.status = "processed" /\ y.status = "absent"
       /\ y.token = x.token /\ y.claims = x.claims /\ y.by = 0
MessageStep(m) == MessageOK(inbox'[m]) /\ MessageMoves(inbox[m], inbox'[m])

-----------------------------------------------------------------------------
(* The statements of the queue, on one row.                                *)

LEMMA QueuedRow ==
    ASSUME NEW x \in MessageRow, MessageOK(x), x.status = "absent", NEW n \in Nat
    PROVE  MessageOK(Queued(x, n)) /\ MessageMoves(x, Queued(x, n))
  BY DEF MessageOK, MessageRow, Queued, MessageMoves

LEMMA TakenRow ==
    ASSUME NEW x \in MessageRow, MessageOK(x), x.status = "waiting"
    PROVE  MessageOK(Taken(x)) /\ MessageMoves(x, Taken(x))
<1>1. x.claims + 1 \in Nat /\ x.claims \in Nat
  BY DEF MessageRow
<1>2. \A n \in Nat : [x EXCEPT !.token = n, !.leased = TRUE, !.claims = n] \in MessageRow
  BY DEF MessageRow
<1>3. Taken(x) \in MessageRow
  BY <1>1, <1>2 DEF Taken
<1>4. /\ Taken(x).token = x.claims + 1 /\ Taken(x).claims = x.claims + 1
      /\ Taken(x).status = x.status /\ Taken(x).by = x.by
  BY DEF Taken, MessageRow
<1>5. QED
  BY <1>1, <1>3, <1>4 DEF MessageOK, MessageMoves

LEMMA LeasedRow ==
    ASSUME NEW x \in MessageRow, MessageOK(x), NEW on \in BOOLEAN
    PROVE  MessageOK(Leased(x, on)) /\ MessageMoves(x, Leased(x, on))
  BY DEF MessageOK, MessageRow, Leased, MessageMoves

LEMMA FinishedRow ==
    ASSUME NEW x \in MessageRow, MessageOK(x), x.status = "waiting", x.token # 0
    PROVE  /\ MessageOK(Processed(x, x.token)) /\ MessageMoves(x, Processed(x, x.token))
           /\ MessageOK(Refused(x)) /\ MessageMoves(x, Refused(x))
<1>1. /\ x.token \in Nat /\ x.refusals + 1 \in Nat /\ x.by = 0
      /\ x.claims = x.token
  BY DEF MessageRow, MessageOK
<1>2. \A n \in Nat : /\ [x EXCEPT !.status = "processed", !.token = 0, !.leased = FALSE,
                                  !.by = n] \in MessageRow
                    /\ [x EXCEPT !.token = 0, !.leased = FALSE, !.refusals = n] \in MessageRow
  BY DEF MessageRow
<1>3. Processed(x, x.token) \in MessageRow /\ Refused(x) \in MessageRow
  BY <1>1, <1>2 DEF Processed, Refused
<1> DEFINE y == Processed(x, x.token)
           z == Refused(x)
<1>4. y.status = "processed" /\ y.token = 0 /\ y.claims = x.claims /\ y.by = x.token
  BY DEF Processed, MessageRow
<1>5. z.status = x.status /\ z.token = 0 /\ z.claims = x.claims /\ z.by = x.by
  BY DEF Refused, MessageRow
<1> HIDE DEF y, z
<1>6. MessageOK(y) /\ MessageMoves(x, y)
  BY <1>3, <1>4 DEF MessageOK, MessageMoves, y
<1>7. MessageOK(z) /\ MessageMoves(x, z)
  BY <1>1, <1>3, <1>5 DEF MessageOK, MessageMoves, z
<1>8. QED
  BY <1>6, <1>7 DEF y, z

LEMMA ClearedRow ==
    ASSUME NEW x \in MessageRow, MessageOK(x), x.status = "processed"
    PROVE  MessageOK(Cleared(x)) /\ MessageMoves(x, Cleared(x))
  BY DEF MessageOK, MessageRow, Cleared, MessageMoves

-----------------------------------------------------------------------------
(* The steps.                                                              *)

LEMMA HandledClaim ==
    ASSUME InboxTypeOK, NEW w \in Watcher, handling[w] # NoClaim
    PROVE  handling[w].message \in Message /\ handling[w].token \in Nat
  BY DEF InboxTypeOK, Claim

LEMMA OneMessage ==
    ASSUME InboxInv, NEW m \in Message, NEW row, SetMessage(m, row), MessageOK(row),
           MessageMoves(inbox[m], row)
    PROVE  inbox' \in [Message -> MessageRow] /\ \A k \in Message : MessageStep(k)
<1>1. inbox'[m] = row /\ \A k \in Message \ {m} : inbox'[k] = inbox[k]
  BY DEF SetMessage, InboxInv, InboxTypeOK
<1>2. MessageStep(m)
  BY <1>1 DEF MessageStep
<1>3. \A k \in Message \ {m} : MessageStep(k)
  BY <1>1 DEF MessageStep, InboxInv, MessageMoves
<1>4. inbox' \in [Message -> MessageRow]
  BY DEF SetMessage, InboxInv, InboxTypeOK, MessageOK
<1>5. QED
  BY <1>2, <1>3, <1>4

LEMMA SameMessages ==
    ASSUME InboxInv, UNCHANGED inbox
    PROVE  inbox' \in [Message -> MessageRow] /\ \A k \in Message : MessageStep(k)
  BY DEF InboxInv, InboxTypeOK, MessageStep, MessageMoves

LEMMA FinishRows ==
    ASSUME InboxInv, NEW w \in Watcher, handling[w] # NoClaim,
           HandlerSucceeds(w) \/ HandlerFails(w)
    PROVE  inbox' \in [Message -> MessageRow] /\ \A k \in Message : MessageStep(k)
<1> DEFINE c == handling[w]
           x == inbox[c.message]
<1>1. c.message \in Message /\ c.token \in Nat /\ c.token # 0
  BY HandledClaim DEF InboxInv, ClaimsHaveTokens
<1>2. x \in MessageRow /\ MessageOK(x)
  BY <1>1 DEF InboxInv, InboxTypeOK
<1>3. CASE ~Acknowledges(c)
  <2>1. UNCHANGED inbox
    BY <1>3 DEF HandlerSucceeds, HandlerFails, Finish
  <2>2. QED
    BY <2>1, SameMessages
<1>4. CASE Acknowledges(c)
  <2>1. x.status = "waiting" /\ x.token = c.token
    BY <1>4 DEF Acknowledges
  <2>2. \/ SetMessage(c.message, Processed(x, x.token))
        \/ SetMessage(c.message, Refused(x))
    BY <1>4, <2>1 DEF HandlerSucceeds, HandlerFails, Finish
  <2> HIDE DEF x, c
  <2>3. /\ MessageOK(Processed(x, x.token)) /\ MessageMoves(x, Processed(x, x.token))
        /\ MessageOK(Refused(x)) /\ MessageMoves(x, Refused(x))
    BY <1>1, <1>2, <2>1, FinishedRow
  <2>4. x = inbox[c.message]
    BY DEF x
  <2>5. QED
    BY <1>1, <2>2, <2>3, <2>4, OneMessage
<1>5. QED
  BY <1>3, <1>4

\* What a step does to the rows, whichever it is
LEMMA MessagesStep ==
    ASSUME InboxInv, InboxNext
    PROVE  inbox' \in [Message -> MessageRow] /\ \A k \in Message : MessageStep(k)
<1>0. \A m \in Message : inbox[m] \in MessageRow /\ MessageOK(inbox[m])
  BY DEF InboxInv, InboxTypeOK
<1>1. ASSUME NEW m \in Message, Enqueue(m)
      PROVE  inbox' \in [Message -> MessageRow] /\ \A k \in Message : MessageStep(k)
  <2>1. enqueued + 1 \in Nat
    BY DEF InboxInv, InboxTypeOK
  <2>2. QED
    BY <1>0, <1>1, <2>1, QueuedRow, OneMessage DEF Enqueue
<1>2. ASSUME NEW m \in Message, InboxLeaseRunsOut(m)
      PROVE  inbox' \in [Message -> MessageRow] /\ \A k \in Message : MessageStep(k)
  BY <1>0, <1>2, LeasedRow, OneMessage DEF InboxLeaseRunsOut
<1>3. ASSUME NEW m \in Message, NEW w \in Watcher, Take(w, m)
      PROVE  inbox' \in [Message -> MessageRow] /\ \A k \in Message : MessageStep(k)
  BY <1>0, <1>3, TakenRow, OneMessage DEF Take, Available
<1>4. ASSUME NEW w \in Watcher, Renew(w)
      PROVE  inbox' \in [Message -> MessageRow] /\ \A k \in Message : MessageStep(k)
  <2>1. handling[w].message \in Message
    BY <1>4, HandledClaim DEF Renew, InboxInv
  <2>2. QED
    BY <1>0, <1>4, <2>1, LeasedRow, OneMessage DEF Renew
<1>5. ASSUME NEW w \in Watcher, HandlerEnds(w)
      PROVE  inbox' \in [Message -> MessageRow] /\ \A k \in Message : MessageStep(k)
  <2>1. handling[w] # NoClaim
    BY <1>5 DEF HandlerEnds, HandlerSucceeds, HandlerFails, Finish
  <2>2. QED
    BY <1>5, <2>1, FinishRows DEF HandlerEnds
<1>6. ASSUME NEW w \in Watcher, NEW how \in {"on", "off", "dead"}, Watch(w, how)
      PROVE  inbox' \in [Message -> MessageRow] /\ \A k \in Message : MessageStep(k)
  BY <1>6, SameMessages DEF Watch
<1>7. CASE ClearProcessed
  <2>1. \A m \in Message : /\ inbox'[m] \in MessageRow
                           /\ MessageStep(m)
    <3> SUFFICES ASSUME NEW m \in Message PROVE inbox'[m] \in MessageRow /\ MessageStep(m)
      OBVIOUS
    <3>1. CASE inbox[m].status = "processed"
      <4>1. inbox'[m] = Cleared(inbox[m])
        BY <1>7, <3>1 DEF ClearProcessed
      <4>2. QED
        BY <1>0, <3>1, <4>1, ClearedRow DEF MessageStep, MessageOK
    <3>2. CASE inbox[m].status # "processed"
      <4>1. inbox'[m] = inbox[m]
        BY <1>7, <3>2 DEF ClearProcessed
      <4>2. QED
        BY <1>0, <4>1 DEF MessageStep, MessageMoves
    <3>3. QED
      BY <3>1, <3>2
  <2>2. inbox' = [m \in Message |-> inbox'[m]]
    BY <1>7 DEF ClearProcessed
  <2>3. QED
    BY <2>1, <2>2
<1>8. QED
  BY <1>1, <1>2, <1>3, <1>4, <1>5, <1>6, <1>7 DEF InboxNext

LEMMA InboxInitKeeps == InboxInit => InboxInv
<1>1. NewMessage \in MessageRow /\ MessageOK(NewMessage)
  BY DEF NewMessage, MessageRow, MessageOK
<1>2. QED
  BY <1>1 DEF InboxInit, InboxInv, InboxTypeOK, ClaimsHaveTokens

LEMMA InboxStepKeeps == InboxInv /\ [InboxNext]_inboxVars => InboxInv'
<1> SUFFICES ASSUME InboxInv, [InboxNext]_inboxVars PROVE InboxInv'
  OBVIOUS
<1>1. CASE UNCHANGED inboxVars
  BY <1>1 DEF inboxVars, InboxInv, InboxTypeOK, ClaimsHaveTokens
<1>2. CASE InboxNext
  <2>1. inbox' \in [Message -> MessageRow] /\ \A k \in Message : MessageOK(inbox'[k])
    BY <1>2, MessagesStep DEF MessageStep
  <2>2. /\ enqueued' \in Nat
        /\ handling' \in [Watcher -> Claim \cup {NoClaim}]
        /\ watching' \in [Watcher -> {"on", "off", "dead"}]
        /\ ClaimsHaveTokens'
    <3>0. /\ enqueued \in Nat /\ ClaimsHaveTokens
          /\ handling \in [Watcher -> Claim \cup {NoClaim}]
          /\ watching \in [Watcher -> {"on", "off", "dead"}]
      BY DEF InboxInv, InboxTypeOK
    <3> DEFINE Kept == /\ enqueued' \in Nat
                       /\ handling' \in [Watcher -> Claim \cup {NoClaim}]
                       /\ watching' \in [Watcher -> {"on", "off", "dead"}]
                       /\ ClaimsHaveTokens'
    <3>1. CASE UNCHANGED <<handling, watching>> /\ enqueued' \in {enqueued, enqueued + 1}
      BY <3>0, <3>1 DEF ClaimsHaveTokens
    <3>2. ASSUME NEW w \in Watcher, UNCHANGED <<enqueued, watching>>,
                 handling' = [handling EXCEPT ![w] = NoClaim]
          PROVE  Kept
      BY <3>0, <3>2 DEF ClaimsHaveTokens
    <3>3. ASSUME NEW w \in Watcher, NEW m \in Message, Take(w, m) PROVE Kept
      <4>1. inbox[m].claims + 1 \in Nat \ {0}
        BY DEF InboxInv, InboxTypeOK, MessageRow
      <4> DEFINE c == [message |-> m, token |-> inbox[m].claims + 1]
      <4>2. c \in Claim /\ c.token # 0
        BY <4>1 DEF Claim
      <4>3. handling' = [handling EXCEPT ![w] = c] /\ UNCHANGED <<enqueued, watching>>
        BY <3>3 DEF Take
      <4> HIDE DEF c
      <4>4. QED
        BY <3>0, <4>2, <4>3 DEF ClaimsHaveTokens
    <3>4. ASSUME NEW w \in Watcher, NEW how \in {"on", "off", "dead"}, Watch(w, how)
          PROVE  Kept
      BY <3>0, <3>4 DEF Watch, ClaimsHaveTokens
    <3>5. ASSUME NEW w \in Watcher, HandlerEnds(w) PROVE Kept
      BY <3>2, <3>5 DEF HandlerEnds, HandlerSucceeds, HandlerFails, Finish
    <3>6. QED
      BY <1>2, <3>1, <3>3, <3>4, <3>5
      DEF InboxNext, Enqueue, InboxLeaseRunsOut, Renew, ClearProcessed
  <2>3. QED
    BY <2>1, <2>2 DEF InboxInv, InboxTypeOK
<1>3. QED
  BY <1>1, <1>2

-----------------------------------------------------------------------------
(* The theorems.                                                           *)

LEMMA InboxInvariant == InboxSpec => []InboxInv
  BY InboxInitKeeps, InboxStepKeeps, PTL DEF InboxSpec

\* The rows of the queue and the memory of its watchers keep their types
\* (claim, renew, finish, clearProcessed).
THEOREM InboxTyped == InboxSpec => []InboxTypeOK
<1>1. InboxInv => InboxTypeOK
  BY DEF InboxInv
<1>2. QED
  BY InboxInvariant, <1>1, PTL

LEMMA MessageIsWork ==
    ASSUME InboxInv, NEW m \in Message, MessageStep(m), inbox' \in [Message -> MessageRow]
    PROVE  \/ Messages!Stays(m) \/ Messages!Claim(m) \/ Messages!GiveBack(m)
           \/ Messages!Settle(m) \/ Messages!Withdraw(m) \/ Messages!Reopen(m)
<1> DEFINE x == inbox[m]
           y == inbox'[m]
<1>1. /\ x \in MessageRow /\ MessageOK(x) /\ y \in MessageRow /\ MessageOK(y) /\ MessageMoves(x, y)
  BY DEF InboxInv, InboxTypeOK, MessageStep
<1>2. /\ MessageState(m) = CASE x.status = "processed"                  -> "settled"
                             [] x.status = "waiting" /\ x.token # 0 -> "held"
                             [] OTHER                                  -> "open"
      /\ MessageState(m)' = CASE y.status = "processed"                  -> "settled"
                              [] y.status = "waiting" /\ y.token # 0 -> "held"
                              [] OTHER                                  -> "open"
  BY DEF MessageState
<1>3. x.status \in {"absent", "waiting", "processed"} /\ x.claims \in Nat
  BY <1>1 DEF MessageRow
<1> HIDE DEF x, y
<1> DEFINE B(s, c, b) == MessageState(m)' = s /\ y.claims = c /\ y.by = b
<1>4. \/ B(MessageState(m), x.claims, x.by)
      \/ MessageState(m) \in {"open", "held"} /\ B("held", x.claims + 1, 0)
      \/ MessageState(m) = "held" /\ B("open", x.claims, 0)
      \/ MessageState(m) = "held" /\ B("settled", x.claims, x.claims)
      \/ MessageState(m) # "held" /\ B("open", x.claims, 0)
  <2>1. CASE x.status = "absent"
    BY <1>1, <1>2, <2>1 DEF MessageOK, MessageMoves
  <2>2. CASE x.status = "waiting" /\ x.token = 0
    BY <1>1, <1>2, <1>3, <2>2 DEF MessageOK, MessageMoves
  <2>3. CASE x.status = "waiting" /\ x.token # 0
    BY <1>1, <1>2, <1>3, <2>3 DEF MessageOK, MessageMoves
  <2>4. CASE x.status = "processed"
    BY <1>1, <1>2, <2>4 DEF MessageOK, MessageMoves
  <2>5. QED
    BY <1>3, <2>1, <2>2, <2>3, <2>4
<1>5. QED
  BY <1>4 DEF x, y, Messages!Becomes, Messages!Stays, Messages!Claim, Messages!GiveBack,
              Messages!Settle, Messages!Reopen

\* The inbox implements ClaimedWork: a stale acknowledgement settles nothing.
THEOREM InboxIsClaimedWork == InboxSpec => MessagesAreClaimedWork
<1>1. InboxInit => Messages!WorkInit
  BY DEF InboxInit, NewMessage, Messages!WorkInit, MessageState
<1>2. InboxInv /\ [InboxNext]_inboxVars => [Messages!WorkNext]_(Messages!workVars)
  <2> SUFFICES ASSUME InboxInv, [InboxNext]_inboxVars
               PROVE  [Messages!WorkNext]_(Messages!workVars)
    OBVIOUS
  <2>1. CASE UNCHANGED inboxVars
    BY <2>1 DEF inboxVars, Messages!workVars, MessageState
  <2>2. CASE InboxNext
    BY <2>2, MessagesStep, MessageIsWork DEF Messages!WorkNext
  <2>3. QED
    BY <2>1, <2>2
<1>3. QED
  BY InboxInvariant, <1>1, <1>2, PTL DEF InboxSpec, MessagesAreClaimedWork
=============================================================================
