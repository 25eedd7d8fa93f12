----------------------------- MODULE AgentInbox ------------------------------
(***************************************************************************)
(* The inbox of an agent: a durable queue that the processes of one host   *)
(* share (src/src/storage/sqlite/durable-queue.ts), and the loop that      *)
(* works it off (src/src/agent/ipc/inbox.ts).  A claim is a lease with a   *)
(* token.  The loop renews it, but a process that is stalled or dead does  *)
(* not, so a lease may run out at any time.  Not kept: payloads, the       *)
(* replies a bus waits for, and the other user of the table, the outbound  *)
(* sender, which takes no claims.                                          *)
(***************************************************************************)
EXTENDS Naturals, FiniteSets

CONSTANTS Message,
          Watcher,      \* processes that watch the inbox; Keeper never dies
          Keeper,
          NoMessage,
          MaxRefusals,  \* bound: handler failures of one message
          MaxTakes,     \* bound: claims of one message
          MaxEnqueues   \* bound: rows

ASSUME InboxAssumption ==
    /\ Keeper \in Watcher /\ NoMessage \notin Message
    /\ MaxRefusals \in Nat /\ MaxTakes \in Nat \ {0} /\ MaxEnqueues \in Nat

VARIABLES
    inbox,     \* durable_messages, by id
    enqueued,  \* rows so far: the next "sequence"
    handling,  \* per watcher: the message its handler has, and the claim
    watching   \* per watcher: "on", "off" (stopWatching) or "dead"
inboxVars == <<inbox, enqueued, handling, watching>>

Claim   == [message : Message, token : Nat]
NoClaim == [message |-> NoMessage, token |-> 0]

\* ghosts: claims so far, the one whose success is recorded, failures
MessageRow == [status : {"absent", "waiting", "processed"}, sequence : Nat, token : Nat,
               leased : BOOLEAN, claims : Nat, by : Nat, refusals : Nat]
NewMessage == [status |-> "absent", sequence |-> 0, token |-> 0, leased |-> FALSE,
               claims |-> 0, by |-> 0, refusals |-> 0]

InboxTypeOK ==
    /\ inbox \in [Message -> MessageRow]
    /\ enqueued \in Nat
    /\ handling \in [Watcher -> Claim \cup {NoClaim}]
    /\ watching \in [Watcher -> {"on", "off", "dead"}]

InboxInit ==
    /\ inbox = [m \in Message |-> NewMessage]
    /\ enqueued = 0
    /\ handling = [w \in Watcher |-> NoClaim]
    /\ watching = [w \in Watcher |-> "on"]

-----------------------------------------------------------------------------
\* What the statements of the queue do to a row x
Queued(x, n)     == [x EXCEPT !.status = "waiting", !.sequence = n]
Taken(x)         == [x EXCEPT !.token = x.claims + 1, !.leased = TRUE, !.claims = x.claims + 1]
Leased(x, on)    == [x EXCEPT !.leased = on]
Processed(x, by) == [x EXCEPT !.status = "processed", !.token = 0, !.leased = FALSE, !.by = by]
Refused(x)       == [x EXCEPT !.token = 0, !.leased = FALSE, !.refusals = x.refusals + 1]
Cleared(x)       == [x EXCEPT !.status = "absent", !.sequence = 0, !.by = 0]
SetMessage(m, row) == inbox' = [inbox EXCEPT ![m] = row]

\* enqueue: an id that is there already is left as it is.
Enqueue(m) ==
    /\ inbox[m].status = "absent" /\ enqueued < MaxEnqueues
    /\ enqueued' = enqueued + 1
    /\ SetMessage(m, Queued(inbox[m], enqueued + 1))
    /\ UNCHANGED <<handling, watching>>

\* claim: the first row that is not processed nor leased
Available_NeverAgain(m) == inbox[m].status = "waiting" /\ inbox[m].token = 0
Available(m) == inbox[m].status = "waiting" /\ ~inbox[m].leased /\ inbox[m].claims < MaxTakes
Take(w, m) ==
    /\ watching[w] = "on" /\ handling[w] = NoClaim
    /\ Available(m)
    /\ \A k \in Message : Available(k) => inbox[m].sequence <= inbox[k].sequence
    /\ SetMessage(m, Taken(inbox[m]))
    /\ handling' = [handling EXCEPT ![w] = [message |-> m, token |-> inbox[m].claims + 1]]
    /\ UNCHANGED <<enqueued, watching>>

Acknowledges_Anyone(c) == inbox[c.message].status = "waiting"
Acknowledges(c) == inbox[c.message].status = "waiting" /\ inbox[c.message].token = c.token
\* renew
Renew(w) ==
    LET c == handling[w]
    IN  /\ watching[w] # "dead" /\ c # NoClaim
        /\ Acknowledges(c) /\ ~inbox[c.message].leased
        /\ SetMessage(c.message, Leased(inbox[c.message], TRUE))
        /\ UNCHANGED <<enqueued, handling, watching>>
\* The handler ends; finish records it unless the message is another's by now.
\* A watcher that was told to stop finishes what it has begun.
Finish(w, new) ==
    LET c == handling[w]
    IN  /\ watching[w] # "dead" /\ c # NoClaim
        /\ IF Acknowledges(c) THEN SetMessage(c.message, new) ELSE UNCHANGED inbox
        /\ handling' = [handling EXCEPT ![w] = NoClaim]
        /\ UNCHANGED <<enqueued, watching>>
HandlerSucceeds(w) == LET c == handling[w] IN
    Finish(w, Processed(inbox[c.message], c.token))
HandlerFails(w) == LET c == handling[w] IN
    /\ c # NoClaim /\ inbox[c.message].refusals < MaxRefusals
    /\ Finish(w, Refused(inbox[c.message]))

InboxLeaseRunsOut(m) ==
    /\ inbox[m].leased
    /\ SetMessage(m, Leased(inbox[m], FALSE))
    /\ UNCHANGED <<enqueued, handling, watching>>

\* clearProcessed forgets the ids as well: they may be enqueued once more.
ClearProcessed ==
    /\ inbox' = [m \in Message |->
                   IF inbox[m].status = "processed" THEN Cleared(inbox[m]) ELSE inbox[m]]
    /\ UNCHANGED <<enqueued, handling, watching>>

\* stopWatching, watch, and the end of the process
Watch(w, how) ==
    /\ watching[w] # "dead" /\ w # Keeper
    /\ watching' = [watching EXCEPT ![w] = how]
    /\ handling' = IF how = "dead" THEN [handling EXCEPT ![w] = NoClaim] ELSE handling
    /\ UNCHANGED <<inbox, enqueued>>

HandlerEnds(w) == HandlerSucceeds(w) \/ HandlerFails(w)
InboxNext ==
    \/ \E m \in Message : Enqueue(m) \/ InboxLeaseRunsOut(m) \/ \E w \in Watcher : Take(w, m)
    \/ \E w \in Watcher : \/ Renew(w) \/ HandlerEnds(w)
                          \/ \E how \in {"on", "off", "dead"} : Watch(w, how)
    \/ ClearProcessed
InboxSpec == InboxInit /\ [][InboxNext]_inboxVars

-----------------------------------------------------------------------------
(* Properties. *)

\* "A stale owner's acknowledgement cannot finish a newer claim": whoever
\* handles a message, its row records the success of its latest claim only.
MessageState(m) == CASE inbox[m].status = "processed"                    -> "settled"
                     [] inbox[m].status = "waiting" /\ inbox[m].token # 0 -> "held"
                     [] OTHER                                            -> "open"
Messages == INSTANCE ClaimedWork WITH
    Work  <- Message,
    state <- [m \in Message |-> MessageState(m)],
    claim <- [m \in Message |-> inbox[m].claims],
    by    <- [m \in Message |-> inbox[m].by]
MessagesAreClaimedWork == Messages!WorkInit /\ [][Messages!WorkNext]_(Messages!workVars)

\* While one process watches, every message is processed, also one whose
\* handler failed or died with its process, and those queued behind it.
Unprocessed(m) == inbox[m].status = "waiting" /\ inbox[m].claims < MaxTakes
MessagesAreProcessed ==
    (\E m \in Message : Unprocessed(m)) ~> ~(\E m \in Message : Unprocessed(m))
=============================================================================
