-------------------------- MODULE ResultDeliveries ---------------------------
(***************************************************************************)
(* Delivery of the results of automation runs                              *)
(* (src/src/automations/delivery/delivery-router.ts).  A router is one     *)
(* process: it claims a batch of due rows under one lease, sends them one  *)
(* after another and records each outcome.  Nothing renews the lease while *)
(* it sends, so it may run out at any time.  Not kept: destinations and    *)
(* their handlers, the order within a batch, back-off times (a row may     *)
(* fall due at once or later), and rows whose run is gone: history         *)
(* trimming spares a run with an undelivered result.                       *)
(***************************************************************************)
EXTENDS Naturals, FiniteSets

CONSTANTS Result,       \* deliveries: a run's result and a destination
          Router,       \* router processes, of which Survivor never dies
          Survivor,
          NoRouter,
          MaxTries,     \* MAX_ATTEMPTS
          MaxRetries    \* bound: user retries of a dead letter

ASSUME DeliveriesAssumption ==
    /\ Survivor \in Router /\ NoRouter \notin Router
    /\ MaxTries \in Nat \ {0} /\ MaxRetries \in Nat

VARIABLES
    parcel,   \* automation_result_deliveries
    batch,    \* per router: the rows of its batch it has not sent, with the attempt
    sending,  \* per router: the row its handler is sending
    router    \* per router: "up", "stopping" or "dead"
deliveryVars == <<parcel, batch, sending, router>>

Slip      == [row : Result, claim : Nat \ {0}, attempt : Nat \ {0}]
NoSlip    == [row |-> NoRouter, claim |-> 0, attempt |-> 0]
Undelivered == {"pending", "retrying"}

\* ghosts: times claimed; the claim that settled it; the claims since the last user
\* retry for which the handler was called, but for those a shutdown undid; claims
\* before that retry; and the number of retries
Parcel == [status : Undelivered \cup {"absent", "delivering", "delivered", "dead_letter"},
           attempts : Nat, owner : Router \cup {NoRouter}, leased : BOOLEAN,
           claims : Nat, by : Nat, called : SUBSET Nat, since : Nat, retries : Nat]
NewParcel == [status |-> "absent", attempts |-> 0, owner |-> NoRouter, leased |-> FALSE,
              claims |-> 0, by |-> 0, called |-> {}, since |-> 0, retries |-> 0]

DeliveriesTypeOK ==
    /\ parcel \in [Result -> Parcel]
    /\ batch \in [Router -> SUBSET Slip]
    /\ sending \in [Router -> Slip \cup {NoSlip}]
    /\ router \in [Router -> {"up", "stopping", "dead"}]

DeliveriesInit ==
    /\ parcel = [d \in Result |-> NewParcel]
    /\ batch = [r \in Router |-> {}]
    /\ sending = [r \in Router |-> NoSlip]
    /\ router = [r \in Router |-> "up"]

-----------------------------------------------------------------------------
Owns(r, d)   == parcel[d].status = "delivering" /\ parcel[d].owner = r
Expired(d)   == parcel[d].status = "delivering" /\ ~parcel[d].leased
Claimable_NeverExpired(d) == parcel[d].attempts < MaxTries /\ parcel[d].status \in Undelivered
Claimable(d) == parcel[d].attempts < MaxTries
                  /\ (parcel[d].status \in Undelivered \/ Expired(d))
Exhausted    == {d \in Result : Expired(d) /\ parcel[d].attempts >= MaxTries}
Idling(r)    == batch[r] = {} /\ sending[r] = NoSlip

\* What the statements of the router do to a row x.  The first: it lets go.
LetGo(x, status)      == [x EXCEPT !.status = status, !.owner = NoRouter, !.leased = FALSE]
DeadLetter(x)         == LetGo(x, "dead_letter")
SettledBy(x, st, by)  == [LetGo(x, st) EXCEPT !.by = by]
Held_KeepsAttempts(x, r) ==
    [x EXCEPT !.status = "delivering", !.owner = r, !.leased = TRUE, !.claims = x.claims + 1,
              !.attempts = IF x.status = "delivering" THEN @ ELSE @ + 1]
Held(x, r) == [x EXCEPT !.status = "delivering", !.owner = r, !.leased = TRUE,
                        !.claims = x.claims + 1, !.attempts = x.attempts + 1]
Called(x, n)  == [x EXCEPT !.called = IF n > x.since THEN x.called \cup {n} ELSE x.called]
\* release: what a shutdown interrupts has not used up an attempt.
Released(x) == [LetGo(x, "retrying") EXCEPT
                  !.attempts = IF x.attempts = 0 THEN 0 ELSE x.attempts - 1]
Uncalled(x, n) == [x EXCEPT !.called = x.called \ {n}]
Retried(x)  == [LetGo(x, "retrying") EXCEPT !.attempts = 0, !.called = {}, !.by = 0,
                                            !.since = x.claims, !.retries = x.retries + 1]
SetParcel(d, row) == parcel' = [parcel EXCEPT ![d] = row]

\* enqueue
EnqueueResult(d) ==
    /\ parcel[d].status = "absent"
    /\ SetParcel(d, [parcel[d] EXCEPT !.status = "pending"])
    /\ UNCHANGED <<batch, sending, router>>

\* claim: rows out of attempts become dead letters, the due ones are taken.
ClaimBatch(r, due) ==
    /\ router[r] = "up" /\ Idling(r)
    /\ \A d \in due : Claimable(d)
    /\ due # {} \/ Exhausted # {}
    /\ parcel' = [d \in Result |-> CASE d \in Exhausted -> DeadLetter(parcel[d])
                                     [] d \in due       -> Held(parcel[d], r)
                                     [] OTHER           -> parcel[d]]
    /\ batch' = [batch EXCEPT ![r] =
                   {[row |-> d, claim |-> parcel[d].claims + 1,
                     attempt |-> parcel[d].attempts + 1] : d \in due}]
    /\ UNCHANGED <<sending, router>>

\* The handler is called; ownership is not looked at again.
Send(r, s) ==
    /\ router[r] = "up" /\ sending[r] = NoSlip /\ s \in batch[r]
    /\ sending' = [sending EXCEPT ![r] = s]
    /\ batch' = [batch EXCEPT ![r] = @ \ {s}]
    /\ SetParcel(s.row, Called(parcel[s.row], s.claim))
    /\ UNCHANGED router

MayRecord_Anyone(r, s) == parcel[s.row].status = "delivering"
MayRecord(r, s)        == Owns(r, s.row)
Record(r, new) ==
    LET s == sending[r]
    IN  /\ router[r] # "dead" /\ s # NoSlip
        /\ IF MayRecord(r, s) THEN SetParcel(s.row, new) ELSE UNCHANGED parcel
        /\ sending' = [sending EXCEPT ![r] = NoSlip]
        /\ UNCHANGED <<batch, router>>

SendSucceeds(r) == LET s == sending[r] IN
    Record(r, SettledBy(parcel[s.row], "delivered", s.claim))
\* fail
SendFails(r) == LET s == sending[r] IN
    /\ router[r] = "up"
    /\ Record(r, IF s.attempt >= MaxTries
                 THEN SettledBy(parcel[s.row], "dead_letter", s.claim)
                 ELSE LetGo(parcel[s.row], "retrying"))
SendInterrupted(r) == LET s == sending[r] IN
    /\ router[r] = "stopping"
    /\ Record(r, Uncalled(Released(parcel[s.row]), s.claim))
ReleaseRest(r) ==
    /\ router[r] = "stopping" /\ sending[r] = NoSlip /\ batch[r] # {}
    /\ parcel' = [d \in Result |-> IF Owns(r, d) /\ \E s \in batch[r] : s.row = d
                                   THEN Released(parcel[d]) ELSE parcel[d]]
    /\ batch' = [batch EXCEPT ![r] = {}]
    /\ UNCHANGED <<sending, router>>

\* stop, and the end of the process
StopRouter(r) ==
    /\ router[r] = "up" /\ r # Survivor
    /\ router' = [router EXCEPT ![r] = "stopping"]
    /\ UNCHANGED <<parcel, batch, sending>>
RouterDies(r) ==
    /\ router[r] # "dead" /\ r # Survivor
    /\ router' = [router EXCEPT ![r] = "dead"]
    /\ batch' = [batch EXCEPT ![r] = {}]
    /\ sending' = [sending EXCEPT ![r] = NoSlip]
    /\ UNCHANGED parcel

LeaseRunsOut(d) ==
    /\ parcel[d].leased
    /\ SetParcel(d, [parcel[d] EXCEPT !.leased = FALSE])
    /\ UNCHANGED <<batch, sending, router>>

\* retryAutomationResultDelivery
RetryResult(d) ==
    /\ parcel[d].status = "dead_letter" /\ parcel[d].retries < MaxRetries
    /\ SetParcel(d, Retried(parcel[d]))
    /\ UNCHANGED <<batch, sending, router>>

Outcome(r) == SendSucceeds(r) \/ SendFails(r) \/ SendInterrupted(r)
DeliveriesNext ==
    \/ \E d \in Result : EnqueueResult(d) \/ LeaseRunsOut(d) \/ RetryResult(d)
    \/ \E r \in Router : \/ \E due \in SUBSET Result : ClaimBatch(r, due)
                         \/ \E s \in batch[r] : Send(r, s)
                         \/ Outcome(r) \/ ReleaseRest(r) \/ StopRouter(r) \/ RouterDies(r)
DeliveriesSpec == DeliveriesInit /\ [][DeliveriesNext]_deliveryVars

-----------------------------------------------------------------------------
(* Properties. *)

\* A row records the outcome of its latest claim only: the answer to a send
\* that outlived its lease changes nothing.
ParcelState(d) == CASE parcel[d].status \in {"delivered", "dead_letter"} -> "settled"
                    [] parcel[d].status = "delivering"                   -> "held"
                    [] OTHER                                             -> "open"
Parcels == INSTANCE ClaimedWork WITH
    Work  <- Result,
    state <- [d \in Result |-> ParcelState(d)],
    claim <- [d \in Result |-> parcel[d].claims],
    by    <- [d \in Result |-> parcel[d].by]
DeliveriesAreClaimedWork == Parcels!WorkInit /\ [][Parcels!WorkNext]_(Parcels!workVars)

\* A destination is not called more often than MAX_ATTEMPTS for one result,
\* crashes and lost leases included, unless the user asks for more; a call a
\* shutdown interrupted does not count.
BoundedTries == \A d \in Result : Cardinality(parcel[d].called) <= MaxTries

\* While one router survives, every result is delivered or becomes a dead letter.
UnderWay(d) == parcel[d].status \notin {"absent", "delivered", "dead_letter"}
ResultsSettle ==
    (\E d \in Result : UnderWay(d)) ~> ~(\E d \in Result : UnderWay(d))
=============================================================================
