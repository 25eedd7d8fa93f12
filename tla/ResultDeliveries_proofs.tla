----------------------- MODULE ResultDeliveries_proofs -----------------------
(***************************************************************************)
(* Proofs about ResultDeliveries, for any number of results and routers:   *)
(* type correctness, that the rows are ClaimedWork, and that a destination *)
(* is called at most MaxTries times.  The invariant relates the rows to    *)
(* what the routers have in memory: a claim is in the memory of one router *)
(* at most, and a row that its router still owns was not claimed since.    *)
(***************************************************************************)
EXTENDS ResultDeliveries, FiniteSetTheorems, TLAPS

Over == {"delivered", "dead_letter"}
ParcelOK(x) == /\ x \in Parcel
               /\ x.status \notin Over => x.by = 0
               /\ x.status = "delivering" => x.since < x.claims
               /\ x.since <= x.claims
               /\ \A c \in x.called : x.since < c /\ c <= x.claims

\* A router's slips
Holding(r) == batch[r] \cup ({sending[r]} \ {NoSlip})

SlipsOK == \A r \in Router : \A s \in Holding(r) :
    /\ s.claim \in 1..parcel[s.row].claims
    /\ Owns(r, s.row) => s.claim = parcel[s.row].claims
Apart == \A r, q \in Router : \A s \in Holding(r), u \in Holding(q) :
    s.row = u.row /\ s.claim = u.claim => r = q /\ s = u
NotTwice == \A r \in Router : sending[r] \notin batch[r]
DeliveriesInv == DeliveriesTypeOK /\ (\A d \in Result : ParcelOK(parcel[d]))
                   /\ SlipsOK /\ Apart /\ NotTwice

\* How a step changes a row.
ParcelQuietly(x, y)  == x.status = y.status /\ x.owner = y.owner /\ x.claims = y.claims /\ x.by = y.by
ParcelOpens(x, y)    == /\ x.status = "absent" /\ y.status = "pending"
                        /\ x.owner = y.owner /\ x.claims = y.claims /\ x.by = y.by
ParcelTakenBy(x, y)  == /\ x.status \in Undelivered \cup {"delivering"} /\ y.status = "delivering"
                        /\ y.claims = x.claims + 1 /\ y.by = x.by
ParcelGivenUp(x, y)  == /\ x.status = "delivering" /\ y.owner = NoRouter /\ y.claims = x.claims
                        /\ \/ y.status = "retrying" /\ y.by = x.by
                           \/ y.status \in Over /\ y.by = x.claims
                           \/ y.status = "dead_letter" /\ y.by = x.by
AskedFor(x, y) == /\ x.status = "dead_letter" /\ y.status = "retrying" /\ y.owner = NoRouter
                  /\ y.claims = x.claims /\ y.by = 0
ParcelMoves(x, y) == \/ ParcelQuietly(x, y) \/ ParcelOpens(x, y) \/ ParcelTakenBy(x, y)
                     \/ ParcelGivenUp(x, y) \/ AskedFor(x, y)
ParcelStep(d)  == ParcelOK(parcel'[d]) /\ ParcelMoves(parcel[d], parcel'[d])
ParcelsStep    == parcel' \in [Result -> Parcel] /\ \A d \in Result : ParcelStep(d)

-----------------------------------------------------------------------------
(* The statements of the router, on one row.                               *)

LEMMA RouterNotNone == NoRouter \notin Router
  BY DeliveriesAssumption

LEMMA EnqueuedRow ==
    ASSUME NEW x \in Parcel, ParcelOK(x), x.status = "absent"
    PROVE  /\ ParcelOK([x EXCEPT !.status = "pending"])
           /\ ParcelMoves(x, [x EXCEPT !.status = "pending"])
  BY DEF ParcelOK, Parcel, ParcelMoves, ParcelOpens, Over, Undelivered

LEMMA UnleasedRow ==
    ASSUME NEW x \in Parcel, ParcelOK(x)
    PROVE  ParcelOK([x EXCEPT !.leased = FALSE]) /\ ParcelMoves(x, [x EXCEPT !.leased = FALSE])
  BY DEF ParcelOK, Parcel, ParcelMoves, ParcelQuietly

LEMMA LetGoRow ==
    ASSUME NEW x \in Parcel, NEW st \in {"retrying", "delivered", "dead_letter"}
    PROVE  /\ LetGo(x, st) \in Parcel
           /\ LetGo(x, st).status = st /\ LetGo(x, st).owner = NoRouter
           /\ LetGo(x, st).claims = x.claims /\ LetGo(x, st).by = x.by
           /\ LetGo(x, st).since = x.since /\ LetGo(x, st).called = x.called
           /\ LetGo(x, st).attempts = x.attempts
  BY DEF LetGo, Parcel, Undelivered

LEMMA DeadLetterRow ==
    ASSUME NEW x \in Parcel, ParcelOK(x), x.status = "delivering"
    PROVE  ParcelOK(DeadLetter(x)) /\ ParcelMoves(x, DeadLetter(x))
  BY LetGoRow DEF DeadLetter, ParcelOK, ParcelMoves, ParcelGivenUp, Over

LEMMA RetryingRow ==
    ASSUME NEW x \in Parcel, ParcelOK(x), x.status = "delivering"
    PROVE  ParcelOK(LetGo(x, "retrying")) /\ ParcelMoves(x, LetGo(x, "retrying"))
  BY LetGoRow DEF ParcelOK, ParcelMoves, ParcelGivenUp, Over

LEMMA SettledParcel ==
    ASSUME NEW x \in Parcel, ParcelOK(x), x.status = "delivering", NEW st \in Over
    PROVE  ParcelOK(SettledBy(x, st, x.claims)) /\ ParcelMoves(x, SettledBy(x, st, x.claims))
<1> DEFINE g == LetGo(x, st)
           y == SettledBy(x, st, x.claims)
<1>1. /\ g \in Parcel /\ g.status = st /\ g.owner = NoRouter /\ g.claims = x.claims
      /\ g.since = x.since /\ g.called = x.called
  BY LetGoRow DEF Over
<1>2. x.claims \in Nat
  BY DEF Parcel
<1> HIDE DEF g
<1>3. [g EXCEPT !.by = x.claims] \in Parcel
  BY <1>1, <1>2 DEF Parcel
<1>4. y = [g EXCEPT !.by = x.claims]
  BY DEF SettledBy, g
<1> HIDE DEF y
<1>5. /\ y.status = st /\ y.owner = NoRouter /\ y.claims = x.claims /\ y.by = x.claims
      /\ y.since = x.since /\ y.called = x.called
  BY <1>1, <1>4 DEF Parcel
<1>6. ParcelOK(y) /\ ParcelMoves(x, y)
  BY <1>3, <1>4, <1>5 DEF ParcelOK, ParcelMoves, ParcelGivenUp, Over
<1>7. QED
  BY <1>6 DEF y

LEMMA HeldRow ==
    ASSUME NEW x \in Parcel, ParcelOK(x), x.status \in Undelivered \cup {"delivering"},
           NEW r \in Router
    PROVE  /\ ParcelOK(Held(x, r)) /\ ParcelMoves(x, Held(x, r))
           /\ Held(x, r).owner = r /\ Held(x, r).status = "delivering"
           /\ Held(x, r).claims = x.claims + 1 /\ Held(x, r).attempts = x.attempts + 1
           /\ Held(x, r).called = x.called /\ Held(x, r).since = x.since
<1>1. x.claims + 1 \in Nat /\ x.attempts + 1 \in Nat /\ x.claims \in Nat /\ x.since \in Nat
      /\ x.called \subseteq Nat
  BY DEF Parcel
<1>2. \A n, m \in Nat : [x EXCEPT !.status = "delivering", !.owner = r, !.leased = TRUE,
                                  !.claims = n, !.attempts = m] \in Parcel
  BY DEF Parcel
<1> DEFINE y == Held(x, r)
<1>3. y \in Parcel
  BY <1>1, <1>2 DEF Held
<1>4. /\ y.status = "delivering" /\ y.owner = r /\ y.claims = x.claims + 1 /\ y.by = x.by
      /\ y.attempts = x.attempts + 1 /\ y.since = x.since /\ y.called = x.called
  BY DEF Held, Parcel
<1> HIDE DEF y
<1>5. ParcelOK(y)
  <2>1. x.by = 0 /\ x.since <= x.claims /\ \A c \in x.called : x.since < c /\ c <= x.claims
    BY DEF ParcelOK, Over, Undelivered
  <2>2. x.since < x.claims + 1 /\ \A c \in x.called : c <= x.claims + 1
    BY <1>1, <2>1
  <2>3. QED
    BY <1>1, <1>3, <1>4, <2>1, <2>2 DEF ParcelOK
<1>6. ParcelMoves(x, y)
  BY <1>4 DEF ParcelMoves, ParcelTakenBy
<1>7. QED
  BY <1>4, <1>5, <1>6 DEF y

LEMMA CalledRow ==
    ASSUME NEW x \in Parcel, ParcelOK(x), NEW n \in 1..x.claims
    PROVE  ParcelOK(Called(x, n)) /\ ParcelMoves(x, Called(x, n))
<1> DEFINE c == IF n > x.since THEN x.called \cup {n} ELSE x.called
           y == Called(x, n)
<1>1. c \in SUBSET Nat /\ x.claims \in Nat /\ x.since \in Nat
  BY DEF Parcel
<1>2. \A k \in c : x.since < k /\ k <= x.claims
  BY <1>1 DEF ParcelOK
<1>3. y = [x EXCEPT !.called = c]
  BY DEF Called
<1> HIDE DEF c, y
<1>4. /\ y \in Parcel /\ y.called = c /\ y.status = x.status /\ y.owner = x.owner
      /\ y.claims = x.claims /\ y.by = x.by /\ y.since = x.since
  BY <1>1, <1>3 DEF Parcel
<1>5. ParcelOK(y) /\ ParcelMoves(x, y)
  BY <1>2, <1>4 DEF ParcelOK, ParcelMoves, ParcelQuietly
<1>6. QED
  BY <1>5 DEF y

LEMMA ReleasedRow ==
    ASSUME NEW x \in Parcel, ParcelOK(x), x.status = "delivering"
    PROVE  /\ ParcelOK(Released(x)) /\ ParcelMoves(x, Released(x))
           /\ Released(x).status = "retrying" /\ Released(x).owner = NoRouter
           /\ Released(x).claims = x.claims /\ Released(x).since = x.since
           /\ Released(x).called = x.called /\ Released(x).by = x.by
           /\ Released(x).attempts = IF x.attempts = 0 THEN 0 ELSE x.attempts - 1
<1> DEFINE g == LetGo(x, "retrying")
           n == IF x.attempts = 0 THEN 0 ELSE x.attempts - 1
           y == Released(x)
<1>1. /\ g \in Parcel /\ g.status = "retrying" /\ g.owner = NoRouter /\ g.claims = x.claims
      /\ g.since = x.since /\ g.called = x.called /\ g.by = x.by
  BY LetGoRow
<1>2. n \in Nat
  BY DEF Parcel
<1>3. y = [g EXCEPT !.attempts = n]
  BY DEF Released
<1> HIDE DEF g, n, y
<1>4. /\ y \in Parcel /\ y.attempts = n /\ y.status = "retrying" /\ y.owner = NoRouter
      /\ y.claims = x.claims /\ y.by = x.by /\ y.since = x.since /\ y.called = x.called
  BY <1>1, <1>2, <1>3 DEF Parcel
<1>5. ParcelOK(y) /\ ParcelMoves(x, y)
  BY <1>4 DEF ParcelOK, ParcelMoves, ParcelGivenUp, Over
<1>6. QED
  BY <1>4, <1>5 DEF y, n

LEMMA UncalledRow ==
    ASSUME NEW x \in Parcel, ParcelOK(x), x.status = "delivering", NEW n \in Nat
    PROVE  /\ ParcelOK(Uncalled(Released(x), n)) /\ ParcelMoves(x, Uncalled(Released(x), n))
           /\ Uncalled(Released(x), n).called = x.called \ {n}
           /\ Uncalled(Released(x), n).since = x.since
           /\ Uncalled(Released(x), n).attempts = IF x.attempts = 0 THEN 0 ELSE x.attempts - 1
<1> DEFINE g == Released(x)
           c == x.called \ {n}
           y == Uncalled(Released(x), n)
<1>1. /\ ParcelOK(g) /\ g.status = "retrying" /\ g.owner = NoRouter /\ g.claims = x.claims
      /\ g.since = x.since /\ g.called = x.called /\ g.by = x.by
      /\ g.attempts = IF x.attempts = 0 THEN 0 ELSE x.attempts - 1
  BY ReleasedRow
<1>2. g \in Parcel /\ c \in SUBSET Nat
  BY <1>1 DEF ParcelOK, Parcel
<1>3. y = [g EXCEPT !.called = c]
  BY <1>1 DEF Uncalled
<1> HIDE DEF g, c, y
<1>4. /\ y \in Parcel /\ y.called = c /\ y.status = "retrying" /\ y.owner = NoRouter
      /\ y.claims = x.claims /\ y.by = x.by /\ y.since = x.since /\ y.attempts = g.attempts
  BY <1>1, <1>2, <1>3 DEF Parcel
<1>5. ParcelOK(y) /\ ParcelMoves(x, y)
  BY <1>4 DEF ParcelOK, ParcelMoves, ParcelGivenUp, Over, c
<1>6. QED
  BY <1>1, <1>4, <1>5 DEF y, c

LEMMA RetriedRow ==
    ASSUME NEW x \in Parcel, ParcelOK(x), x.status = "dead_letter"
    PROVE  /\ ParcelOK(Retried(x)) /\ ParcelMoves(x, Retried(x))
           /\ Retried(x).called = {} /\ Retried(x).since = x.claims
           /\ Retried(x).attempts = 0
<1> DEFINE g == LetGo(x, "retrying")
           y == Retried(x)
<1>1. g \in Parcel /\ g.status = "retrying" /\ g.owner = NoRouter /\ g.claims = x.claims
  BY LetGoRow
<1>2. x.claims \in Nat /\ x.retries + 1 \in Nat
  BY DEF Parcel
<1> HIDE DEF g
<1>3. \A n, m \in Nat : [g EXCEPT !.attempts = 0, !.called = {}, !.by = 0, !.since = n,
                                  !.retries = m] \in Parcel
  BY <1>1 DEF Parcel
<1>4. y = [g EXCEPT !.attempts = 0, !.called = {}, !.by = 0, !.since = x.claims,
                    !.retries = x.retries + 1]
  BY DEF Retried, g
<1> HIDE DEF y
<1>5. /\ y \in Parcel /\ y.called = {} /\ y.status = "retrying" /\ y.owner = NoRouter
      /\ y.claims = x.claims /\ y.by = 0 /\ y.since = x.claims /\ y.attempts = 0
  BY <1>1, <1>2, <1>3, <1>4 DEF Parcel
<1>6. ParcelOK(y) /\ ParcelMoves(x, y)
  BY <1>2, <1>5 DEF ParcelOK, ParcelMoves, AskedFor
<1>7. QED
  BY <1>5, <1>6 DEF y

-----------------------------------------------------------------------------
(* What the steps do to the rows.                                          *)

LEMMA NoSlipIsNone == NoSlip \notin Slip
  BY DEF NoSlip, Slip

LEMMA Slips ==
    ASSUME DeliveriesTypeOK, NEW r \in Router
    PROVE  /\ batch[r] \subseteq Slip /\ Holding(r) \subseteq Slip
           /\ sending[r] # NoSlip => sending[r] \in Slip /\ sending[r] \in Holding(r)
           /\ \A s \in Slip : s.row \in Result /\ s.claim \in Nat \ {0} /\ s.attempt \in Nat \ {0}
  BY DEF DeliveriesTypeOK, Holding, Slip

LEMMA ParcelTypes ==
    ASSUME DeliveriesInv, NEW d \in Result
    PROVE  parcel[d] \in Parcel /\ ParcelOK(parcel[d])
  BY DEF DeliveriesInv, DeliveriesTypeOK

LEMMA OneParcel ==
    ASSUME DeliveriesInv, NEW d \in Result, NEW row, SetParcel(d, row), ParcelOK(row),
           ParcelMoves(parcel[d], row)
    PROVE  ParcelsStep /\ parcel'[d] = row /\ \A k \in Result \ {d} : parcel'[k] = parcel[k]
<1>1. parcel'[d] = row /\ \A k \in Result \ {d} : parcel'[k] = parcel[k]
  BY DEF SetParcel, DeliveriesInv, DeliveriesTypeOK
<1>2. ParcelStep(d)
  BY <1>1 DEF ParcelStep
<1>3. \A k \in Result \ {d} : ParcelStep(k)
  BY <1>1, ParcelTypes DEF ParcelStep, ParcelMoves, ParcelQuietly
<1>4. parcel' \in [Result -> Parcel]
  BY DEF SetParcel, DeliveriesInv, DeliveriesTypeOK, ParcelOK
<1>5. QED
  BY <1>1, <1>2, <1>3, <1>4 DEF ParcelsStep

LEMMA SameParcels ==
    ASSUME DeliveriesInv, UNCHANGED parcel
    PROVE  ParcelsStep
  BY ParcelTypes DEF DeliveriesInv, DeliveriesTypeOK, ParcelsStep, ParcelStep, ParcelMoves, ParcelQuietly

LEMMA RecordRows ==
    ASSUME DeliveriesInv, NEW r \in Router, Outcome(r)
    PROVE  ParcelsStep
<1> DEFINE s == sending[r]
           x == parcel[s.row]
<1>0. sending[r] # NoSlip
  BY DEF Outcome, SendSucceeds, SendFails, SendInterrupted, Record
<1>1. s \in Slip /\ s \in Holding(r) /\ s.row \in Result /\ s.claim \in Nat \ {0}
  BY <1>0, Slips DEF DeliveriesInv
<1>2. CASE ~MayRecord(r, s)
  <2>1. UNCHANGED parcel
    BY <1>2 DEF Outcome, SendSucceeds, SendFails, SendInterrupted, Record
  <2>2. QED
    BY <2>1, SameParcels
<1>3. CASE MayRecord(r, s)
  <2>1. x.status = "delivering" /\ s.claim = x.claims
    BY <1>1, <1>3 DEF MayRecord, Owns, DeliveriesInv, SlipsOK
  <2>2. \/ SetParcel(s.row, SettledBy(x, "delivered", s.claim))
        \/ SetParcel(s.row, SettledBy(x, "dead_letter", s.claim))
        \/ SetParcel(s.row, LetGo(x, "retrying"))
        \/ SetParcel(s.row, Uncalled(Released(x), s.claim))
    BY <1>3 DEF Outcome, SendSucceeds, SendFails, SendInterrupted, Record
  <2>3. x \in Parcel /\ ParcelOK(x)
    BY <1>1, ParcelTypes
  <2>4. x = parcel[s.row]
    OBVIOUS
  <2> HIDE DEF x, s
  <2>5. /\ ParcelOK(SettledBy(x, "delivered", s.claim))
        /\ ParcelMoves(x, SettledBy(x, "delivered", s.claim))
    BY <2>1, <2>3, SettledParcel DEF Over
  <2>6. /\ ParcelOK(SettledBy(x, "dead_letter", s.claim))
        /\ ParcelMoves(x, SettledBy(x, "dead_letter", s.claim))
    BY <2>1, <2>3, SettledParcel DEF Over
  <2>7. ParcelOK(LetGo(x, "retrying")) /\ ParcelMoves(x, LetGo(x, "retrying"))
    BY <2>1, <2>3, RetryingRow
  <2>8. /\ ParcelOK(Uncalled(Released(x), s.claim))
        /\ ParcelMoves(x, Uncalled(Released(x), s.claim))
    BY <1>1, <2>1, <2>3, UncalledRow
  <2>9. QED
    BY <1>1, <2>2, <2>4, <2>5, <2>6, <2>7, <2>8, OneParcel
<1>4. QED
  BY <1>2, <1>3

LEMMA SomeParcels ==
    ASSUME DeliveriesInv, parcel' = [d \in Result |-> parcel'[d]], \A d \in Result : ParcelStep(d)
    PROVE  ParcelsStep
  BY DEF ParcelsStep, ParcelStep, ParcelOK

LEMMA ClaimParcels ==
    ASSUME DeliveriesInv, NEW r \in Router, NEW due \in SUBSET Result, ClaimBatch(r, due)
    PROVE  /\ ParcelsStep
           /\ \A d \in due : parcel'[d] = Held(parcel[d], r)
           /\ \A d \in Result \ due :
                 parcel'[d] = IF d \in Exhausted THEN DeadLetter(parcel[d]) ELSE parcel[d]
<1>1. \A d \in due : d \notin Exhausted /\ parcel[d].status \in Undelivered \cup {"delivering"}
  BY ParcelTypes, DeliveriesAssumption
  DEF ClaimBatch, Claimable, Exhausted, Expired, Parcel
<1>2. /\ \A d \in due : parcel'[d] = Held(parcel[d], r)
      /\ \A d \in Result \ due :
            parcel'[d] = IF d \in Exhausted THEN DeadLetter(parcel[d]) ELSE parcel[d]
      /\ parcel' = [d \in Result |-> parcel'[d]]
  BY <1>1 DEF ClaimBatch
<1>3. \A d \in due : ParcelStep(d)
  BY <1>1, <1>2, ParcelTypes, HeldRow DEF ParcelStep
<1>4. ASSUME NEW d \in Result \ due PROVE ParcelStep(d)
  <2>1. CASE d \in Exhausted
    BY <1>2, <2>1, ParcelTypes, DeadLetterRow DEF ParcelStep, Exhausted, Expired
  <2>2. CASE d \notin Exhausted
    BY <1>2, <2>2, ParcelTypes DEF ParcelStep, ParcelMoves, ParcelQuietly
  <2>3. QED
    BY <2>1, <2>2
<1>5. QED
  BY <1>2, <1>3, <1>4, SomeParcels

LEMMA RestRows ==
    ASSUME DeliveriesInv, NEW r \in Router, ReleaseRest(r)
    PROVE  ParcelsStep
<1>1. \A d \in Result : parcel'[d] = IF Owns(r, d) /\ \E s \in batch[r] : s.row = d
                                     THEN Released(parcel[d]) ELSE parcel[d]
  BY DEF ReleaseRest
<1>2. ASSUME NEW d \in Result PROVE ParcelStep(d)
  <2>1. CASE Owns(r, d) /\ \E s \in batch[r] : s.row = d
    BY <1>1, <2>1, ParcelTypes, ReleasedRow DEF ParcelStep, Owns
  <2>2. CASE ~(Owns(r, d) /\ \E s \in batch[r] : s.row = d)
    BY <1>1, <2>2, ParcelTypes DEF ParcelStep, ParcelMoves, ParcelQuietly
  <2>3. QED
    BY <2>1, <2>2
<1>3. parcel' = [d \in Result |-> parcel'[d]]
  BY <1>1 DEF ReleaseRest
<1>4. QED
  BY <1>2, <1>3, SomeParcels

LEMMA SendRows ==
    ASSUME DeliveriesInv, NEW r \in Router, NEW s \in batch[r], Send(r, s)
    PROVE  ParcelsStep
<1>1. s \in Holding(r) /\ s \in Slip /\ s.row \in Result
  BY Slips DEF DeliveriesInv, Holding
<1>2. s.claim \in 1..parcel[s.row].claims
  BY <1>1 DEF DeliveriesInv, SlipsOK
<1>3. QED
  BY <1>1, <1>2, ParcelTypes, CalledRow, OneParcel DEF Send

LEMMA ParcelsMove == ASSUME DeliveriesInv, DeliveriesNext PROVE ParcelsStep
<1>1. ASSUME NEW d \in Result, EnqueueResult(d) PROVE ParcelsStep
  BY <1>1, ParcelTypes, EnqueuedRow, OneParcel DEF EnqueueResult
<1>2. ASSUME NEW d \in Result, LeaseRunsOut(d) PROVE ParcelsStep
  BY <1>2, ParcelTypes, UnleasedRow, OneParcel DEF LeaseRunsOut
<1>3. ASSUME NEW d \in Result, RetryResult(d) PROVE ParcelsStep
  BY <1>3, ParcelTypes, RetriedRow, OneParcel DEF RetryResult
<1>4. ASSUME NEW r \in Router, StopRouter(r) \/ RouterDies(r) PROVE ParcelsStep
  BY <1>4, SameParcels DEF StopRouter, RouterDies
<1>5. QED
  BY <1>1, <1>2, <1>3, <1>4, ClaimParcels, SendRows, RecordRows, RestRows DEF DeliveriesNext

-----------------------------------------------------------------------------
(* What the steps do to the slips.  Most only throw some away.             *)

LEMMA ThrownAway ==
    ASSUME DeliveriesInv, DeliveriesTypeOK',
           \A r \in Router : batch'[r] \subseteq batch[r] /\ sending'[r] \in {sending[r], NoSlip},
           \A d \in Result : parcel'[d].claims = parcel[d].claims,
           \A r \in Router, d \in Result : Owns(r, d)' => Owns(r, d)
    PROVE  SlipsOK' /\ Apart' /\ NotTwice'
<1>1. \A r \in Router : Holding(r)' \subseteq Holding(r)
  BY DEF Holding
<1>2. \A r \in Router : \A s \in Holding(r) : s.row \in Result
  BY Slips DEF DeliveriesInv
<1>3. SlipsOK'
  BY <1>1, <1>2 DEF DeliveriesInv, SlipsOK
<1>4. Apart'
  BY <1>1 DEF DeliveriesInv, Apart
<1>5. NotTwice'
  BY NoSlipIsNone, Slips DEF DeliveriesInv, NotTwice
<1>6. QED
  BY <1>3, <1>4, <1>5

\* A row no step takes is not owned by a router that did not own it before.
LEMMA OwnedBefore ==
    ASSUME DeliveriesInv, NEW d \in Result, ParcelStep(d), ~ParcelTakenBy(parcel[d], parcel'[d]),
           NEW r \in Router
    PROVE  Owns(r, d)' => Owns(r, d) /\ parcel'[d].claims = parcel[d].claims
  BY RouterNotNone DEF ParcelStep, ParcelMoves, ParcelQuietly, ParcelOpens, ParcelGivenUp,
                        AskedFor, Owns, Over

LEMMA ClaimsStay ==
    ASSUME DeliveriesInv, NEW d \in Result, ParcelStep(d), ~ParcelTakenBy(parcel[d], parcel'[d])
    PROVE  parcel'[d].claims = parcel[d].claims
  BY DEF ParcelStep, ParcelMoves, ParcelQuietly, ParcelOpens, ParcelGivenUp, AskedFor

LEMMA NotTaken ==
    ASSUME DeliveriesInv, NEW d \in Result, parcel'[d].claims = parcel[d].claims
    PROVE  ~ParcelTakenBy(parcel[d], parcel'[d])
  BY ParcelTypes DEF ParcelTakenBy, Parcel

LEMMA ClaimSlips ==
    ASSUME DeliveriesInv, DeliveriesTypeOK', NEW r \in Router, NEW due \in SUBSET Result,
           ClaimBatch(r, due)
    PROVE  SlipsOK' /\ Apart' /\ NotTwice'
<1> DEFINE new == {[row |-> d, claim |-> parcel[d].claims + 1,
                    attempt |-> parcel[d].attempts + 1] : d \in due}
<1>1. /\ Holding(r)' = new /\ Holding(r) = {} /\ sending'[r] = NoSlip /\ batch'[r] = new
      /\ \A q \in Router \ {r} : /\ Holding(q)' = Holding(q) /\ batch'[q] = batch[q]
                                 /\ sending'[q] = sending[q]
  BY DEF ClaimBatch, Idling, Holding, DeliveriesInv, DeliveriesTypeOK
<1>2. \A s \in new : /\ s.row \in due /\ s.claim = parcel[s.row].claims + 1
                     /\ \A u \in new : u.row = s.row => u = s
  OBVIOUS
<1>3. /\ \A d \in due : /\ parcel'[d].claims = parcel[d].claims + 1
                        /\ parcel'[d].owner = r
      /\ \A d \in Result \ due : /\ parcel'[d].claims = parcel[d].claims
                                 /\ \A q \in Router : Owns(q, d)' => Owns(q, d)
  <2>1. ASSUME NEW d \in due
        PROVE  parcel'[d].claims = parcel[d].claims + 1 /\ parcel'[d].owner = r
    <3>1. parcel[d].status \in Undelivered \cup {"delivering"}
      BY DEF ClaimBatch, Claimable, Expired
    <3>2. QED
      BY <2>1, <3>1, ClaimParcels, HeldRow, ParcelTypes
  <2>2. ASSUME NEW d \in Result \ due
        PROVE  /\ parcel'[d].claims = parcel[d].claims
               /\ \A q \in Router : Owns(q, d)' => Owns(q, d)
    <3>1. CASE d \in Exhausted
      <4>1. parcel'[d].claims = parcel[d].claims /\ parcel'[d].status = "dead_letter"
        BY <3>1, ClaimParcels, LetGoRow, ParcelTypes DEF DeadLetter
      <4>2. QED
        BY <4>1 DEF Owns
    <3>2. CASE d \notin Exhausted
      BY <3>2, ClaimParcels DEF Owns
    <3>3. QED
      BY <3>1, <3>2
  <2>3. QED
    BY <2>1, <2>2
<1>4. \A d \in Result : parcel[d].claims \in Nat
  BY ParcelTypes DEF Parcel
<1> HIDE DEF new
<1>5. \A q \in Router : \A s \in Holding(q) : /\ s.row \in Result
                                              /\ s.claim \in 1..parcel[s.row].claims
  BY Slips DEF DeliveriesInv, SlipsOK
<1>6. SlipsOK'
  <2> SUFFICES ASSUME NEW q \in Router, NEW s \in Holding(q)'
               PROVE  /\ s.claim \in 1..parcel'[s.row].claims
                      /\ Owns(q, s.row)' => s.claim = parcel'[s.row].claims
    BY DEF SlipsOK
  <2>1. CASE q = r
    <3>1. s.row \in due /\ s.claim = parcel[s.row].claims + 1
      BY <1>1, <1>2, <2>1
    <3>2. parcel'[s.row].claims = parcel[s.row].claims + 1 /\ parcel[s.row].claims \in Nat
      BY <1>3, <1>4, <3>1
    <3>3. QED
      BY <3>1, <3>2
  <2>2. CASE q # r
    <3>1. s \in Holding(q)
      BY <1>1, <2>2
    <3>2. s.row \in Result /\ s.claim \in 1..parcel[s.row].claims
      BY <1>5, <3>1
    <3>3. CASE s.row \in due
      <4>1. parcel'[s.row].claims = parcel[s.row].claims + 1 /\ parcel[s.row].claims \in Nat
            /\ ~Owns(q, s.row)'
        BY <1>3, <1>4, <2>2, <3>3 DEF Owns
      <4>2. QED
        BY <3>2, <4>1
    <3>4. CASE s.row \notin due
      BY <1>3, <3>1, <3>2, <3>4 DEF DeliveriesInv, SlipsOK
    <3>5. QED
      BY <3>3, <3>4
  <2>3. QED
    BY <2>1, <2>2
<1>7. Apart'
  <2> SUFFICES ASSUME NEW p \in Router, NEW q \in Router,
                      NEW s \in Holding(p)', NEW u \in Holding(q)',
                      s.row = u.row, s.claim = u.claim
               PROVE  p = q /\ s = u
    BY DEF Apart
  <2>1. \A k \in Router \ {r} : \A v \in Holding(k)' :
            v.claim # parcel[v.row].claims + 1
    BY <1>1, <1>4, <1>5
  <2>2. \A v \in Holding(r)' : v.claim = parcel[v.row].claims + 1
    BY <1>1, <1>2
  <2>3. CASE p = r
    BY <1>1, <1>2, <2>1, <2>2, <2>3
  <2>4. CASE p # r
    BY <1>1, <2>1, <2>2, <2>4 DEF DeliveriesInv, Apart
  <2>5. QED
    BY <2>3, <2>4
<1>8. NotTwice'
  <2>1. NoSlip \notin new
    BY <1>1, NoSlipIsNone DEF DeliveriesTypeOK
  <2>2. QED
    BY <1>1, <2>1 DEF DeliveriesInv, NotTwice
<1>9. QED
  BY <1>6, <1>7, <1>8

LEMMA SendSlips ==
    ASSUME DeliveriesInv, DeliveriesTypeOK', NEW r \in Router, NEW s \in batch[r], Send(r, s)
    PROVE  SlipsOK' /\ Apart' /\ NotTwice'
<1>1. s \in Slip /\ s # NoSlip /\ s \in Holding(r) /\ s.row \in Result
  BY Slips, NoSlipIsNone DEF DeliveriesInv, Holding
<1>2. /\ batch'[r] = batch[r] \ {s} /\ sending'[r] = s /\ sending[r] = NoSlip
      /\ \A q \in Router \ {r} : batch'[q] = batch[q] /\ sending'[q] = sending[q]
  BY DEF Send, DeliveriesInv, DeliveriesTypeOK
<1>3. \A q \in Router : Holding(q)' = Holding(q)
  BY <1>1, <1>2 DEF Holding
<1>4. \A d \in Result : /\ parcel'[d].claims = parcel[d].claims
                        /\ parcel'[d].status = parcel[d].status
                        /\ parcel'[d].owner = parcel[d].owner
  BY <1>1, ParcelTypes DEF Send, SetParcel, Called, DeliveriesInv, DeliveriesTypeOK, Parcel
<1>5. \A q \in Router : \A u \in Holding(q) : u.row \in Result
  BY Slips DEF DeliveriesInv
<1>6. SlipsOK'
  BY <1>3, <1>4, <1>5 DEF DeliveriesInv, SlipsOK, Owns
<1>7. Apart'
  BY <1>3 DEF DeliveriesInv, Apart
<1>8. NotTwice'
  BY <1>2 DEF DeliveriesInv, NotTwice
<1>9. QED
  BY <1>6, <1>7, <1>8

-----------------------------------------------------------------------------
(* The invariant.                                                          *)

LEMMA DeliveriesInitKeeps == DeliveriesInit => DeliveriesInv
<1> SUFFICES ASSUME DeliveriesInit PROVE DeliveriesInv
  OBVIOUS
<1>1. NewParcel \in Parcel /\ ParcelOK(NewParcel)
  BY DEF NewParcel, Parcel, ParcelOK, Over
<1>2. DeliveriesTypeOK
  BY <1>1 DEF DeliveriesInit, DeliveriesTypeOK
<1>3. \A r \in Router : Holding(r) = {} /\ batch[r] = {}
  BY DEF DeliveriesInit, Holding
<1>4. QED
  BY <1>1, <1>2, <1>3 DEF DeliveriesInit, DeliveriesInv, SlipsOK, Apart, NotTwice

LEMMA TypesKept == ASSUME DeliveriesInv, DeliveriesNext PROVE DeliveriesTypeOK'
<1>1. parcel' \in [Result -> Parcel]
  BY ParcelsMove DEF ParcelsStep
<1>2. /\ batch \in [Router -> SUBSET Slip]
      /\ sending \in [Router -> Slip \cup {NoSlip}]
      /\ router \in [Router -> {"up", "stopping", "dead"}]
  BY DEF DeliveriesInv, DeliveriesTypeOK
<1> DEFINE Kept == /\ batch' \in [Router -> SUBSET Slip]
                   /\ sending' \in [Router -> Slip \cup {NoSlip}]
                   /\ router' \in [Router -> {"up", "stopping", "dead"}]
<1>3. ASSUME NEW r \in Router, NEW due \in SUBSET Result, ClaimBatch(r, due) PROVE Kept
  <2> DEFINE new == {[row |-> d, claim |-> parcel[d].claims + 1,
                      attempt |-> parcel[d].attempts + 1] : d \in due}
  <2>1. \A d \in due : parcel[d].claims + 1 \in Nat \ {0} /\ parcel[d].attempts + 1 \in Nat \ {0}
    BY ParcelTypes DEF Parcel
  <2>2. new \subseteq Slip
    BY <2>1 DEF Slip
  <2>3. batch' = [batch EXCEPT ![r] = new] /\ UNCHANGED <<sending, router>>
    BY <1>3 DEF ClaimBatch
  <2> HIDE DEF new
  <2>4. QED
    BY <1>2, <2>2, <2>3
<1>4. ASSUME NEW r \in Router, NEW s \in batch[r], Send(r, s) PROVE Kept
  BY <1>2, <1>4 DEF Send
<1>5. ASSUME NEW r \in Router, \/ Outcome(r) \/ ReleaseRest(r) \/ StopRouter(r) \/ RouterDies(r)
      PROVE  Kept
  BY <1>2, <1>5 DEF Outcome, SendSucceeds, SendFails, SendInterrupted, Record, ReleaseRest,
                    StopRouter, RouterDies
<1>6. ASSUME NEW d \in Result, EnqueueResult(d) \/ LeaseRunsOut(d) \/ RetryResult(d) PROVE Kept
  <2>1. UNCHANGED <<batch, sending, router>>
    BY <1>6 DEF EnqueueResult, LeaseRunsOut, RetryResult
  <2>2. QED
    BY <1>2, <2>1
<1> HIDE DEF Kept
<1>7. Kept
  BY <1>3, <1>4, <1>5, <1>6 DEF DeliveriesNext
<1>8. QED
  BY <1>1, <1>7 DEF DeliveriesTypeOK, Kept

\* Steps other than a claim and a send take no row and add no slip.
LEMMA OthersThrowAway ==
    ASSUME DeliveriesInv, DeliveriesNext, DeliveriesTypeOK',
           \/ \E d \in Result : EnqueueResult(d) \/ LeaseRunsOut(d) \/ RetryResult(d)
           \/ \E r \in Router : Outcome(r) \/ ReleaseRest(r) \/ StopRouter(r) \/ RouterDies(r)
    PROVE  SlipsOK' /\ Apart' /\ NotTwice'
<1>1. \A r \in Router : batch'[r] \subseteq batch[r] /\ sending'[r] \in {sending[r], NoSlip}
  BY DEF DeliveriesInv, DeliveriesTypeOK, EnqueueResult, LeaseRunsOut, RetryResult, Outcome, SendSucceeds,
         SendFails, SendInterrupted, Record, ReleaseRest, StopRouter, RouterDies
<1>2. \A d \in Result : parcel'[d].claims = parcel[d].claims
  <2>1. ASSUME NEW d \in Result, NEW row, SetParcel(d, row), row.claims = parcel[d].claims
        PROVE  \A k \in Result : parcel'[k].claims = parcel[k].claims
    BY <2>1 DEF SetParcel, DeliveriesInv, DeliveriesTypeOK
  <2>2. ASSUME NEW d \in Result, EnqueueResult(d) \/ LeaseRunsOut(d) \/ RetryResult(d)
        PROVE  \A k \in Result : parcel'[k].claims = parcel[k].claims
    <3>1. parcel[d] \in Parcel
      BY ParcelTypes
    <3>2. /\ [parcel[d] EXCEPT !.status = "pending"].claims = parcel[d].claims
          /\ [parcel[d] EXCEPT !.leased = FALSE].claims = parcel[d].claims
      BY <3>1 DEF Parcel
    <3>3. \A x \in Parcel : Retried(x).claims = x.claims
      <4>1. \A x \in Parcel : LetGo(x, "retrying") \in Parcel
                                /\ LetGo(x, "retrying").claims = x.claims
        BY LetGoRow
      <4>2. \A x \in Parcel : Retried(x).claims = LetGo(x, "retrying").claims
        BY <4>1 DEF Retried, Parcel
      <4>3. QED
        BY <4>1, <4>2
    <3>4. QED
      BY <2>1, <2>2, <3>1, <3>2, <3>3 DEF EnqueueResult, LeaseRunsOut, RetryResult
  <2>3. ASSUME NEW r \in Router, Outcome(r)
        PROVE  \A k \in Result : parcel'[k].claims = parcel[k].claims
    <3> DEFINE s == sending[r]
               x == parcel[s.row]
    <3>1. s \in Slip /\ s.row \in Result /\ s.claim \in Nat
      BY <2>3, Slips DEF DeliveriesInv, Outcome, SendSucceeds, SendFails, SendInterrupted, Record
    <3>2. x \in Parcel
      BY <3>1, ParcelTypes
    <3>3. \/ UNCHANGED parcel
          \/ SetParcel(s.row, SettledBy(x, "delivered", s.claim))
          \/ SetParcel(s.row, SettledBy(x, "dead_letter", s.claim))
          \/ SetParcel(s.row, LetGo(x, "retrying"))
          \/ SetParcel(s.row, Uncalled(Released(x), s.claim))
      BY <2>3 DEF Outcome, SendSucceeds, SendFails, SendInterrupted, Record
    <3>4. \A y \in Parcel, st \in {"retrying", "delivered", "dead_letter"} :
             LetGo(y, st) \in Parcel /\ LetGo(y, st).claims = y.claims
      BY LetGoRow
    <3>5. \A y \in Parcel : \A n : /\ [y EXCEPT !.by = n].claims = y.claims
                                   /\ [y EXCEPT !.called = n].claims = y.claims
                                   /\ [y EXCEPT !.attempts = n].claims = y.claims
      BY DEF Parcel
    <3>6. /\ SettledBy(x, "delivered", s.claim).claims = x.claims
          /\ SettledBy(x, "dead_letter", s.claim).claims = x.claims
      BY <3>2, <3>4, <3>5 DEF SettledBy
    <3>7. Released(x).claims = x.claims /\ Released(x) \in Parcel
      <4>1. x.attempts \in Nat /\ \A n \in Nat : \A y \in Parcel :
                                     [y EXCEPT !.attempts = n] \in Parcel
        BY <3>2 DEF Parcel
      <4>2. (IF x.attempts = 0 THEN 0 ELSE x.attempts - 1) \in Nat
        BY <4>1
      <4>3. QED
        BY <3>2, <3>4, <3>5, <4>1, <4>2 DEF Released
    <3>8. Uncalled(Released(x), s.claim).claims = x.claims
      BY <3>5, <3>7 DEF Uncalled
    <3> HIDE DEF x
    <3>9. x = parcel[s.row]
      BY DEF x
    <3>10. QED
      BY <2>1, <3>1, <3>2, <3>3, <3>4, <3>6, <3>8, <3>9
  <2>4. ASSUME NEW r \in Router, ReleaseRest(r)
        PROVE  \A k \in Result : parcel'[k].claims = parcel[k].claims
    <3>1. ASSUME NEW k \in Result PROVE parcel'[k].claims = parcel[k].claims
      <4>1. \/ parcel'[k] = parcel[k]
            \/ parcel'[k] = Released(parcel[k]) /\ parcel[k].status = "delivering"
        BY <2>4 DEF ReleaseRest, Owns
      <4>2. QED
        BY <4>1, ParcelTypes, ReleasedRow
    <3>2. QED
      BY <3>1
  <2>5. ASSUME NEW r \in Router, StopRouter(r) \/ RouterDies(r)
        PROVE  \A k \in Result : parcel'[k].claims = parcel[k].claims
    BY <2>5 DEF StopRouter, RouterDies
  <2>6. QED
    BY <2>2, <2>3, <2>4, <2>5
<1>3. \A r \in Router, d \in Result : Owns(r, d)' => Owns(r, d)
  BY <1>2, ParcelsMove, NotTaken, OwnedBefore DEF ParcelsStep
<1>4. QED
  BY <1>1, <1>2, <1>3, ThrownAway

LEMMA DeliveriesStepKeeps == DeliveriesInv /\ [DeliveriesNext]_deliveryVars => DeliveriesInv'
<1> SUFFICES ASSUME DeliveriesInv, [DeliveriesNext]_deliveryVars PROVE DeliveriesInv'
  OBVIOUS
<1>1. CASE UNCHANGED deliveryVars
  BY <1>1 DEF deliveryVars, DeliveriesInv, DeliveriesTypeOK, SlipsOK, Apart, NotTwice, Holding, Owns
<1>2. CASE DeliveriesNext
  <2>1. DeliveriesTypeOK'
    BY <1>2, TypesKept
  <2>2. \A d \in Result : ParcelOK(parcel'[d])
    BY <1>2, ParcelsMove DEF ParcelsStep, ParcelStep
  <2>3. SlipsOK' /\ Apart' /\ NotTwice'
    BY <1>2, <2>1, ClaimSlips, SendSlips, OthersThrowAway DEF DeliveriesNext
  <2>4. QED
    BY <2>1, <2>2, <2>3 DEF DeliveriesInv
<1>3. QED
  BY <1>1, <1>2

LEMMA DeliveriesInvariant == DeliveriesSpec => []DeliveriesInv
  BY DeliveriesInitKeeps, DeliveriesStepKeeps, PTL DEF DeliveriesSpec

\* The rows and the memory of the routers keep their types (claim, release, fail,
\* deliver).
THEOREM DeliveriesTyped == DeliveriesSpec => []DeliveriesTypeOK
<1>1. DeliveriesInv => DeliveriesTypeOK
  BY DEF DeliveriesInv
<1>2. QED
  BY DeliveriesInvariant, <1>1, PTL

LEMMA ParcelIsWork ==
    ASSUME DeliveriesInv, NEW d \in Result, ParcelStep(d)
    PROVE  \/ Parcels!Stays(d) \/ Parcels!Claim(d) \/ Parcels!GiveBack(d)
           \/ Parcels!Settle(d) \/ Parcels!Withdraw(d) \/ Parcels!Reopen(d)
<1> DEFINE x == parcel[d]
           y == parcel'[d]
<1>1. /\ x \in Parcel /\ ParcelOK(x) /\ y \in Parcel /\ ParcelOK(y) /\ ParcelMoves(x, y)
  BY ParcelTypes DEF ParcelStep, ParcelOK
<1>2. /\ ParcelState(d) = CASE x.status \in {"delivered", "dead_letter"} -> "settled"
                            [] x.status = "delivering"                   -> "held"
                            [] OTHER                                     -> "open"
      /\ ParcelState(d)' = CASE y.status \in {"delivered", "dead_letter"} -> "settled"
                             [] y.status = "delivering"                   -> "held"
                             [] OTHER                                     -> "open"
  BY DEF ParcelState
<1>3. x.status \in Undelivered \cup {"absent", "delivering", "delivered", "dead_letter"}
  BY <1>1 DEF Parcel
<1> HIDE DEF x, y
<1> DEFINE B(s, c, b) == ParcelState(d)' = s /\ y.claims = c /\ y.by = b
<1>4. \/ B(ParcelState(d), x.claims, x.by)
      \/ ParcelState(d) \in {"open", "held"} /\ B("held", x.claims + 1, 0)
      \/ ParcelState(d) = "held" /\ B("open", x.claims, 0)
      \/ ParcelState(d) = "held" /\ B("settled", x.claims, x.claims)
      \/ ParcelState(d) # "settled" /\ B("settled", x.claims, 0)
      \/ ParcelState(d) # "held" /\ B("open", x.claims, 0)
  <2>1. CASE ParcelQuietly(x, y)
    BY <1>2, <2>1 DEF ParcelQuietly
  <2>2. CASE ParcelOpens(x, y)
    BY <1>2, <2>2 DEF ParcelOpens
  <2>3. CASE ParcelTakenBy(x, y)
    BY <1>1, <1>2, <1>3, <2>3 DEF ParcelTakenBy, ParcelOK, Over, Undelivered
  <2>4. CASE ParcelGivenUp(x, y)
    BY <1>1, <1>2, <2>4 DEF ParcelGivenUp, ParcelOK, Over
  <2>5. CASE AskedFor(x, y)
    BY <1>2, <2>5 DEF AskedFor
  <2>6. QED
    BY <1>1, <2>1, <2>2, <2>3, <2>4, <2>5 DEF ParcelMoves
<1>5. QED
  BY <1>4 DEF x, y, Parcels!Becomes, Parcels!Stays, Parcels!Claim, Parcels!GiveBack,
              Parcels!Settle, Parcels!Withdraw, Parcels!Reopen

\* The deliveries implement ClaimedWork: the answer to a send that outlived its
\* lease is not recorded.
THEOREM DeliveriesRefineWork == DeliveriesSpec => DeliveriesAreClaimedWork
<1>1. DeliveriesInit => Parcels!WorkInit
  BY DEF DeliveriesInit, NewParcel, Parcels!WorkInit, ParcelState
<1>2. DeliveriesInv /\ [DeliveriesNext]_deliveryVars => [Parcels!WorkNext]_(Parcels!workVars)
  <2> SUFFICES ASSUME DeliveriesInv, [DeliveriesNext]_deliveryVars
               PROVE  [Parcels!WorkNext]_(Parcels!workVars)
    OBVIOUS
  <2>1. CASE UNCHANGED deliveryVars
    BY <2>1 DEF deliveryVars, Parcels!workVars, ParcelState
  <2>2. CASE DeliveriesNext
    BY <2>2, ParcelsMove, ParcelIsWork DEF ParcelsStep, Parcels!WorkNext
  <2>3. QED
    BY <2>1, <2>2
<1>3. QED
  BY DeliveriesInvariant, <1>1, <1>2, PTL DEF DeliveriesSpec, DeliveriesAreClaimedWork

-----------------------------------------------------------------------------
(* The tries are bounded.  A claim is live while it may still call the      *)
(* handler or has done so; every live claim has used up one attempt.       *)

Unsent(d) == {c \in (parcel[d].since + 1)..parcel[d].claims :
                 \E r \in Router : \E s \in batch[r] : s.row = d /\ s.claim = c}
Live(d)   == parcel[d].called \cup Unsent(d)

NotYetCalled == \A r \in Router : \A s \in batch[r] : s.claim \notin parcel[s.row].called
BeingCalled  == \A r \in Router : LET s == sending[r] IN
                   s # NoSlip /\ s.claim > parcel[s.row].since => s.claim \in parcel[s.row].called
Budget(d)    == Cardinality(Live(d)) <= parcel[d].attempts /\ parcel[d].attempts <= MaxTries
BInv == DeliveriesInv /\ NotYetCalled /\ BeingCalled /\ \A d \in Result : Budget(d)

LEMMA LiveFinite ==
    ASSUME DeliveriesInv, NEW d \in Result
    PROVE  IsFiniteSet(Live(d)) /\ Cardinality(Live(d)) \in Nat
<1>1. parcel[d].since \in Nat /\ parcel[d].claims \in Nat
  BY ParcelTypes DEF Parcel
<1>2. parcel[d].called \subseteq 1..parcel[d].claims
  BY <1>1, ParcelTypes DEF ParcelOK, Parcel
<1>3. Live(d) \subseteq 1..parcel[d].claims
  BY <1>1, <1>2 DEF Live, Unsent
<1>4. IsFiniteSet(1..parcel[d].claims)
  BY <1>1, FS_Interval
<1>5. QED
  BY <1>3, <1>4, FS_Subset, FS_CardinalityType

\* What a step may do to the budget of a row
Spends(d) ==
    \/ Live(d)' \subseteq Live(d) /\ parcel'[d].attempts = parcel[d].attempts
    \/ /\ \E c : Live(d)' \subseteq Live(d) \cup {c}
       /\ parcel[d].attempts < MaxTries /\ parcel'[d].attempts = parcel[d].attempts + 1
    \/ /\ \E c \in Live(d) : Live(d)' \subseteq Live(d) \ {c}
       /\ parcel'[d].attempts = IF parcel[d].attempts = 0 THEN 0 ELSE parcel[d].attempts - 1
    \/ Live(d)' = {} /\ parcel'[d].attempts = 0

LEMMA SpendsWithin ==
    ASSUME BInv, NEW d \in Result, Spends(d), DeliveriesInv'
    PROVE  Budget(d)'
<1>1. /\ IsFiniteSet(Live(d)) /\ Cardinality(Live(d)) \in Nat
      /\ parcel[d].attempts \in Nat /\ MaxTries \in Nat
      /\ Cardinality(Live(d)) <= parcel[d].attempts /\ parcel[d].attempts <= MaxTries
  BY LiveFinite, ParcelTypes, DeliveriesAssumption DEF BInv, Budget, Parcel
<1>2. CASE Live(d)' \subseteq Live(d) /\ parcel'[d].attempts = parcel[d].attempts
  <2>1. Cardinality(Live(d)') \in Nat /\ Cardinality(Live(d)') <= Cardinality(Live(d))
    BY <1>1, <1>2, FS_Subset, FS_CardinalityType
  <2>2. QED
    BY <1>1, <1>2, <2>1 DEF Budget
<1>3. ASSUME NEW c, Live(d)' \subseteq Live(d) \cup {c}, parcel[d].attempts < MaxTries,
             parcel'[d].attempts = parcel[d].attempts + 1
      PROVE  Budget(d)'
  <2>1. /\ IsFiniteSet(Live(d) \cup {c})
        /\ Cardinality(Live(d) \cup {c}) \in {Cardinality(Live(d)), Cardinality(Live(d)) + 1}
    BY <1>1, FS_AddElement
  <2>2. /\ Cardinality(Live(d)') \in Nat
        /\ Cardinality(Live(d)') <= Cardinality(Live(d) \cup {c})
    BY <1>3, <2>1, FS_Subset, FS_CardinalityType
  <2>3. QED
    BY <1>1, <1>3, <2>1, <2>2 DEF Budget
<1>4. ASSUME NEW c \in Live(d), Live(d)' \subseteq Live(d) \ {c},
             parcel'[d].attempts = IF parcel[d].attempts = 0 THEN 0 ELSE parcel[d].attempts - 1
      PROVE  Budget(d)'
  <2>1. /\ IsFiniteSet(Live(d) \ {c})
        /\ Cardinality(Live(d) \ {c}) = Cardinality(Live(d)) - 1
    BY <1>1, FS_RemoveElement
  <2>2. /\ Cardinality(Live(d)') \in Nat
        /\ Cardinality(Live(d)') <= Cardinality(Live(d) \ {c})
    BY <1>4, <2>1, FS_Subset, FS_CardinalityType
  <2>3. QED
    BY <1>1, <1>4, <2>1, <2>2 DEF Budget
<1>5. CASE Live(d)' = {} /\ parcel'[d].attempts = 0
  BY <1>1, <1>5, FS_EmptySet DEF Budget
<1>6. QED
  BY <1>2, <1>3, <1>4, <1>5 DEF Spends

SameBudget(x, y) == /\ y.called = x.called /\ y.since = x.since
                    /\ y.attempts = x.attempts /\ y.claims = x.claims

LEMMA SpendsNothing ==
    ASSUME DeliveriesInv, NEW d \in Result, SameBudget(parcel[d], parcel'[d]),
           \A r \in Router : \A s \in batch'[r] : s.row = d => s \in batch[r]
    PROVE  Spends(d)
  BY DEF Spends, Live, Unsent, SameBudget

LEMMA QuietBudget ==
    ASSUME BInv, \A d \in Result : SameBudget(parcel[d], parcel'[d]),
           \A r \in Router : batch'[r] \subseteq batch[r] /\ sending'[r] \in {sending[r], NoSlip}
    PROVE  NotYetCalled' /\ BeingCalled' /\ \A d \in Result : Spends(d)
<1>1. \A r \in Router : \A s \in batch[r] : s.row \in Result
  BY Slips DEF BInv, DeliveriesInv
<1>2. \A r \in Router : sending[r] # NoSlip => sending[r].row \in Result
  BY Slips DEF BInv, DeliveriesInv
<1>3. NotYetCalled'
  BY <1>1 DEF BInv, NotYetCalled, SameBudget
<1>4. BeingCalled'
  BY <1>2 DEF BInv, BeingCalled, SameBudget
<1>5. \A d \in Result : Spends(d)
  BY SpendsNothing DEF BInv
<1>6. QED
  BY <1>3, <1>4, <1>5

LEMMA QuietParcels ==
    ASSUME NEW x \in Parcel, NEW n \in Nat, NEW st \in {"retrying", "delivered", "dead_letter"}
    PROVE  /\ SameBudget(x, [x EXCEPT !.status = "pending"])
           /\ SameBudget(x, [x EXCEPT !.leased = FALSE])
           /\ SameBudget(x, LetGo(x, st)) /\ SameBudget(x, SettledBy(x, st, n))
<1>1. /\ SameBudget(x, [x EXCEPT !.status = "pending"])
      /\ SameBudget(x, [x EXCEPT !.leased = FALSE])
  BY DEF SameBudget, Parcel
<1>2. LetGo(x, st) \in Parcel /\ SameBudget(x, LetGo(x, st))
  BY LetGoRow DEF SameBudget
<1>3. \A y \in Parcel : SameBudget(y, [y EXCEPT !.by = n])
  BY DEF SameBudget, Parcel
<1>4. SameBudget(x, SettledBy(x, st, n))
  BY <1>2, <1>3 DEF SettledBy, SameBudget
<1>5. QED
  BY <1>1, <1>2, <1>4

LEMMA OneBudget ==
    ASSUME DeliveriesInv, NEW d \in Result, NEW row, SetParcel(d, row)
    PROVE  /\ parcel'[d] = row
           /\ \A k \in Result \ {d} : SameBudget(parcel[k], parcel'[k])
  BY DEF SetParcel, SameBudget, DeliveriesInv, DeliveriesTypeOK

LEMMA RowsQuiet ==
    ASSUME BInv, NEW d \in Result, EnqueueResult(d) \/ LeaseRunsOut(d)
    PROVE  \A k \in Result : SameBudget(parcel[k], parcel'[k])
<1>1. parcel[d] \in Parcel
  BY ParcelTypes DEF BInv
<1>2. CASE EnqueueResult(d)
  <2> DEFINE row == [parcel[d] EXCEPT !.status = "pending"]
  <2>1. SetParcel(d, row)
    BY <1>2 DEF EnqueueResult
  <2>2. SameBudget(parcel[d], row)
    BY <1>1, QuietParcels
  <2> HIDE DEF row
  <2>3. QED
    BY <2>1, <2>2, OneBudget DEF BInv
<1>3. CASE LeaseRunsOut(d)
  <2> DEFINE row == [parcel[d] EXCEPT !.leased = FALSE]
  <2>1. SetParcel(d, row)
    BY <1>3 DEF LeaseRunsOut
  <2>2. SameBudget(parcel[d], row)
    BY <1>1, QuietParcels
  <2> HIDE DEF row
  <2>3. QED
    BY <2>1, <2>2, OneBudget DEF BInv
<1>4. QED
  BY <1>2, <1>3

\* The outcomes but for an interrupted send of a row that is still owned
LEMMA OutcomeQuiet ==
    ASSUME BInv, NEW r \in Router, Outcome(r),
           ~(SendInterrupted(r) /\ MayRecord(r, sending[r]))
    PROVE  \A k \in Result : SameBudget(parcel[k], parcel'[k])
<1> DEFINE s == sending[r]
           x == parcel[s.row]
<1>1. s \in Slip /\ s.row \in Result /\ s.claim \in Nat
  BY Slips DEF BInv, DeliveriesInv, Outcome, SendSucceeds, SendFails, SendInterrupted, Record
<1>2. x \in Parcel
  BY <1>1, ParcelTypes DEF BInv
<1>3. \/ UNCHANGED parcel
      \/ SetParcel(s.row, SettledBy(x, "delivered", s.claim))
      \/ SetParcel(s.row, SettledBy(x, "dead_letter", s.claim))
      \/ SetParcel(s.row, LetGo(x, "retrying"))
  BY DEF Outcome, SendSucceeds, SendFails, SendInterrupted, Record
<1>4. x = parcel[s.row]
  OBVIOUS
<1> HIDE DEF x, s
<1>5. \A st \in {"delivered", "dead_letter"} : SameBudget(x, SettledBy(x, st, s.claim))
  BY <1>1, <1>2, QuietParcels
<1>6. SameBudget(x, LetGo(x, "retrying"))
  BY <1>2, QuietParcels
<1>7. CASE UNCHANGED parcel
  BY <1>7 DEF SameBudget
<1>8. QED
  BY <1>1, <1>3, <1>4, <1>5, <1>6, <1>7, OneBudget DEF BInv

LEMMA Memory ==
    ASSUME DeliveriesInv,
           \/ \E d \in Result : EnqueueResult(d) \/ LeaseRunsOut(d) \/ RetryResult(d)
           \/ \E r \in Router : Outcome(r) \/ ReleaseRest(r) \/ StopRouter(r) \/ RouterDies(r)
    PROVE  \A r \in Router : batch'[r] \subseteq batch[r] /\ sending'[r] \in {sending[r], NoSlip}
<1>1. ASSUME NEW d \in Result, EnqueueResult(d) \/ LeaseRunsOut(d) \/ RetryResult(d)
      PROVE  UNCHANGED <<batch, sending>>
  BY <1>1 DEF EnqueueResult, LeaseRunsOut, RetryResult
<1>2. ASSUME NEW q \in Router, Outcome(q) \/ ReleaseRest(q) \/ StopRouter(q) \/ RouterDies(q)
      PROVE  \A r \in Router : batch'[r] \subseteq batch[r] /\ sending'[r] \in {sending[r], NoSlip}
  BY <1>2 DEF DeliveriesInv, DeliveriesTypeOK, Outcome, SendSucceeds, SendFails, SendInterrupted, Record,
              ReleaseRest, StopRouter, RouterDies
<1>3. QED
  BY <1>1, <1>2

LEMMA ClaimBudget ==
    ASSUME BInv, NEW r \in Router, NEW due \in SUBSET Result, ClaimBatch(r, due)
    PROVE  NotYetCalled' /\ BeingCalled' /\ \A d \in Result : Spends(d)
<1> DEFINE new == {[row |-> d, claim |-> parcel[d].claims + 1,
                    attempt |-> parcel[d].attempts + 1] : d \in due}
<1>0. DeliveriesInv
  BY DEF BInv
<1>1. /\ batch'[r] = new /\ batch[r] = {} /\ sending' = sending
      /\ \A q \in Router \ {r} : batch'[q] = batch[q]
  BY <1>0 DEF ClaimBatch, Idling, DeliveriesInv, DeliveriesTypeOK
<1>2. \A s \in new : s.row \in due /\ s.claim = parcel[s.row].claims + 1
  OBVIOUS
<1> HIDE DEF new
<1>3. ASSUME NEW d \in due
      PROVE  /\ parcel'[d].claims = parcel[d].claims + 1
             /\ parcel'[d].attempts = parcel[d].attempts + 1
             /\ parcel'[d].called = parcel[d].called /\ parcel'[d].since = parcel[d].since
  <2>1. parcel[d].status \in Undelivered \cup {"delivering"}
    BY DEF ClaimBatch, Claimable, Expired
  <2>2. QED
    BY <1>0, <2>1, ClaimParcels, HeldRow, ParcelTypes
<1>4. ASSUME NEW d \in Result \ due PROVE SameBudget(parcel[d], parcel'[d])
  <2>1. CASE d \in Exhausted
    BY <1>0, <2>1, ClaimParcels, ParcelTypes, LetGoRow DEF SameBudget, DeadLetter
  <2>2. CASE d \notin Exhausted
    BY <1>0, <2>2, ClaimParcels DEF SameBudget
  <2>3. QED
    BY <2>1, <2>2
<1>5. \A d \in Result : parcel'[d].called = parcel[d].called /\ parcel'[d].since = parcel[d].since
  BY <1>3, <1>4 DEF SameBudget
<1>6. \A d \in Result : /\ parcel[d].claims \in Nat /\ parcel[d].since \in Nat
                        /\ \A c \in parcel[d].called : c <= parcel[d].claims
                        /\ parcel[d].called \subseteq Nat
  BY <1>0, ParcelTypes DEF Parcel, ParcelOK
<1>7. NotYetCalled'
  <2> SUFFICES ASSUME NEW q \in Router, NEW s \in batch'[q]
               PROVE  s.claim \notin parcel'[s.row].called
    BY DEF NotYetCalled
  <2>1. CASE q = r
    <3>1. s.row \in Result /\ s.claim = parcel[s.row].claims + 1
      BY <1>1, <1>2, <2>1
    <3>2. QED
      BY <1>5, <1>6, <3>1
  <2>2. CASE q # r
    <3>1. s \in batch[q] /\ s.row \in Result
      BY <1>0, <1>1, <2>2, Slips DEF DeliveriesInv
    <3>2. QED
      BY <1>5, <3>1 DEF BInv, NotYetCalled
  <2>3. QED
    BY <2>1, <2>2
<1>8. BeingCalled'
  <2>1. \A q \in Router : sending[q] # NoSlip => sending[q].row \in Result
    BY <1>0, Slips DEF DeliveriesInv
  <2>2. QED
    BY <1>1, <1>5, <2>1 DEF BInv, BeingCalled
<1>9. ASSUME NEW d \in Result PROVE Spends(d)
  <2>1. CASE d \in due
    <3>1. Unsent(d)' \subseteq Unsent(d) \cup {parcel[d].claims + 1}
      <4> SUFFICES ASSUME NEW c \in Unsent(d)', c # parcel[d].claims + 1
                   PROVE  c \in Unsent(d)
        OBVIOUS
      <4>1. PICK q \in Router : \E s \in batch'[q] : s.row = d /\ s.claim = c
        BY DEF Unsent
      <4>2. PICK s \in batch'[q] : s.row = d /\ s.claim = c
        BY <4>1
      <4>3. q # r
        BY <1>1, <1>2, <4>2
      <4>4. s \in batch[q]
        BY <1>1, <4>2, <4>3
      <4>5. c \in (parcel[d].since + 1)..(parcel[d].claims + 1)
        BY <1>3, <2>1 DEF Unsent
      <4>6. c \in (parcel[d].since + 1)..parcel[d].claims
        BY <1>6, <4>5
      <4>7. QED
        BY <4>2, <4>4, <4>6 DEF Unsent
    <3>2. Live(d)' \subseteq Live(d) \cup {parcel[d].claims + 1}
      BY <1>5, <3>1 DEF Live
    <3>3. parcel[d].attempts < MaxTries
      BY <2>1 DEF ClaimBatch, Claimable
    <3>4. parcel'[d].attempts = parcel[d].attempts + 1
      BY <1>3, <2>1
    <3>5. QED
      BY <3>2, <3>3, <3>4 DEF Spends
  <2>2. CASE d \notin due
    <3>1. \A q \in Router : \A s \in batch'[q] : s.row = d => s \in batch[q]
      BY <1>1, <1>2, <2>2
    <3>2. SameBudget(parcel[d], parcel'[d])
      BY <1>4, <2>2
    <3>3. QED
      BY <1>0, <3>1, <3>2, SpendsNothing
  <2>3. QED
    BY <2>1, <2>2
<1>10. QED
  BY <1>7, <1>8, <1>9

LEMMA SendBudget ==
    ASSUME BInv, NEW r \in Router, NEW s \in batch[r], Send(r, s)
    PROVE  NotYetCalled' /\ BeingCalled' /\ \A d \in Result : Spends(d)
<1> DEFINE x == parcel[s.row]
           y == parcel'[s.row]
<1>0. DeliveriesInv
  BY DEF BInv
<1>1. s \in Slip /\ s # NoSlip /\ s \in Holding(r) /\ s.row \in Result /\ s.claim \in 1..x.claims
  BY <1>0, Slips, NoSlipIsNone DEF DeliveriesInv, Holding, SlipsOK
<1>2. /\ batch'[r] = batch[r] \ {s} /\ sending'[r] = s /\ sending[r] = NoSlip
      /\ \A q \in Router \ {r} : batch'[q] = batch[q] /\ sending'[q] = sending[q]
  BY <1>0 DEF Send, DeliveriesInv, DeliveriesTypeOK
<1>3. SetParcel(s.row, Called(x, s.claim))
  BY DEF Send
<1>4. y = Called(x, s.claim) /\ \A k \in Result \ {s.row} : SameBudget(parcel[k], parcel'[k])
  BY <1>0, <1>1, <1>3, OneBudget
<1>5. /\ y.called = IF s.claim > x.since THEN x.called \cup {s.claim} ELSE x.called
      /\ y.since = x.since /\ y.attempts = x.attempts /\ y.claims = x.claims
  BY <1>0, <1>1, <1>4, ParcelTypes DEF Called, Parcel
<1>6. \A q \in Router : \A u \in batch[q] : u.row \in Result /\ u \in Holding(q)
  BY <1>0, Slips DEF DeliveriesInv, Holding
<1>7. NotYetCalled'
  <2> SUFFICES ASSUME NEW q \in Router, NEW u \in batch'[q]
               PROVE  u.claim \notin parcel'[u.row].called
    BY DEF NotYetCalled
  <2>1. u \in batch[q] /\ (q = r => u # s) /\ u.row \in Result
    BY <1>2, <1>6
  <2>2. u.claim \notin parcel[u.row].called
    BY <2>1 DEF BInv, NotYetCalled
  <2>3. CASE u.row # s.row
    BY <1>4, <2>1, <2>2, <2>3 DEF SameBudget
  <2>4. CASE u.row = s.row
    <3>1. u.claim # s.claim
      BY <1>0, <1>1, <1>6, <2>1, <2>4 DEF DeliveriesInv, Apart
    <3>2. QED
      BY <1>5, <2>2, <2>4, <3>1
  <2>5. QED
    BY <2>3, <2>4
<1>8. BeingCalled'
  <2> SUFFICES ASSUME NEW q \in Router, sending'[q] # NoSlip,
                      sending'[q].claim > parcel'[sending'[q].row].since
               PROVE  sending'[q].claim \in parcel'[sending'[q].row].called
    BY DEF BeingCalled
  <2>1. CASE q = r
    BY <1>2, <1>5, <2>1
  <2>2. CASE q # r
    <3>1. sending'[q] = sending[q] /\ sending[q].row \in Result
      BY <1>0, <1>2, <2>2, Slips DEF DeliveriesInv
    <3>2. CASE sending[q].row = s.row
      BY <1>5, <3>1, <3>2 DEF BInv, BeingCalled
    <3>3. CASE sending[q].row # s.row
      BY <1>4, <3>1, <3>3 DEF BInv, BeingCalled, SameBudget
    <3>4. QED
      BY <3>2, <3>3
  <2>3. QED
    BY <2>1, <2>2
<1>9. ASSUME NEW d \in Result PROVE Spends(d)
  <2>1. CASE d # s.row
    <3>1. SameBudget(parcel[d], parcel'[d])
      BY <1>4, <2>1
    <3>2. \A q \in Router : \A u \in batch'[q] : u \in batch[q]
      BY <1>2
    <3>3. QED
      BY <1>0, <3>1, <3>2, SpendsNothing
  <2>2. CASE d = s.row
    <3>1. Unsent(d)' \subseteq Unsent(d)
      BY <1>2, <1>5, <2>2 DEF Unsent
    <3>2. s.claim > x.since => s.claim \in Unsent(d)
      BY <1>0, <1>1, <2>2, ParcelTypes DEF Unsent, Parcel
    <3>3. Live(d)' \subseteq Live(d)
      BY <1>5, <2>2, <3>1, <3>2 DEF Live
    <3>4. QED
      BY <1>5, <2>2, <3>3 DEF Spends
  <2>3. QED
    BY <2>1, <2>2
<1>10. QED
  BY <1>7, <1>8, <1>9

LEMMA InterruptedBudget ==
    ASSUME BInv, NEW r \in Router, SendInterrupted(r), MayRecord(r, sending[r])
    PROVE  NotYetCalled' /\ BeingCalled' /\ \A d \in Result : Spends(d)
<1> DEFINE s == sending[r]
           x == parcel[s.row]
           y == parcel'[s.row]
<1>0. DeliveriesInv
  BY DEF BInv
<1>1. s # NoSlip /\ s \in Slip /\ s \in Holding(r) /\ s.row \in Result /\ s.claim \in Nat
  BY <1>0, Slips DEF DeliveriesInv, SendInterrupted, Record
<1>2. x \in Parcel /\ ParcelOK(x) /\ x.status = "delivering" /\ s.claim = x.claims
  BY <1>0, <1>1, ParcelTypes DEF MayRecord, Owns, DeliveriesInv, SlipsOK
<1>3. SetParcel(s.row, Uncalled(Released(x), s.claim)) /\ sending' = [sending EXCEPT ![r] = NoSlip]
      /\ UNCHANGED batch
  BY DEF SendInterrupted, Record
<1>4. y = Uncalled(Released(x), s.claim)
      /\ \A k \in Result \ {s.row} : SameBudget(parcel[k], parcel'[k])
  BY <1>0, <1>1, <1>3, OneBudget
<1>5. /\ y.called = x.called \ {s.claim} /\ y.since = x.since
      /\ y.attempts = IF x.attempts = 0 THEN 0 ELSE x.attempts - 1
  BY <1>1, <1>2, <1>4, UncalledRow
<1>6. y.claims = x.claims
  <2>1. DeliveriesNext
    BY DEF DeliveriesNext, Outcome
  <2>2. ParcelStep(s.row)
    BY <1>0, <1>1, <2>1, ParcelsMove DEF ParcelsStep
  <2>3. y.status = "retrying"
    <3>1. Released(x).status = "retrying" /\ ParcelOK(Released(x))
      BY <1>2, ReleasedRow
    <3>2. Uncalled(Released(x), s.claim).status = Released(x).status
      BY <3>1 DEF Uncalled, ParcelOK, Parcel
    <3>3. QED
      BY <1>4, <3>1, <3>2
  <2>4. QED
    BY <1>0, <1>1, <2>2, <2>3, ClaimsStay DEF ParcelTakenBy
<1>7. s.claim \in x.called
  BY <1>1, <1>2, ParcelTypes DEF BInv, BeingCalled, ParcelOK, Parcel
<1>8. NotYetCalled'
  <2> SUFFICES ASSUME NEW q \in Router, NEW u \in batch[q]
               PROVE  u.claim \notin parcel'[u.row].called
    BY <1>3 DEF NotYetCalled
  <2>1. u.row \in Result /\ u.claim \notin parcel[u.row].called
    BY <1>0, Slips DEF BInv, NotYetCalled, DeliveriesInv
  <2>2. QED
    BY <1>4, <1>5, <2>1 DEF SameBudget
<1>9. BeingCalled'
  <2> SUFFICES ASSUME NEW q \in Router, sending'[q] # NoSlip,
                      sending'[q].claim > parcel'[sending'[q].row].since
               PROVE  sending'[q].claim \in parcel'[sending'[q].row].called
    BY DEF BeingCalled
  <2>1. q # r /\ sending'[q] = sending[q] /\ sending[q] \in Holding(q) /\ sending[q].row \in Result
    BY <1>0, <1>3, Slips DEF DeliveriesInv, DeliveriesTypeOK
  <2>2. CASE sending[q].row = s.row
    <3>1. sending[q].claim # s.claim
      BY <1>0, <1>1, <2>1, <2>2 DEF DeliveriesInv, Apart
    <3>2. QED
      BY <1>5, <2>1, <2>2, <3>1 DEF BInv, BeingCalled
  <2>3. CASE sending[q].row # s.row
    BY <1>4, <2>1, <2>3 DEF BInv, BeingCalled, SameBudget
  <2>4. QED
    BY <2>2, <2>3
<1>10. ASSUME NEW d \in Result PROVE Spends(d)
  <2>1. CASE d # s.row
    BY <1>0, <1>3, <1>4, <2>1, SpendsNothing
  <2>2. CASE d = s.row
    <3>1. \A q \in Router : \A u \in batch[q] : u.row = d => u.claim # s.claim
      BY <1>7, <2>2 DEF BInv, NotYetCalled
    <3>2. Unsent(d)' \subseteq Unsent(d) \ {s.claim}
      BY <1>3, <1>5, <1>6, <2>2, <3>1 DEF Unsent
    <3>3. s.claim \in Live(d) /\ Live(d)' \subseteq Live(d) \ {s.claim}
      BY <1>5, <1>7, <2>2, <3>2 DEF Live
    <3>4. QED
      BY <1>5, <2>2, <3>3 DEF Spends
  <2>3. QED
    BY <2>1, <2>2
<1>11. QED
  BY <1>8, <1>9, <1>10

LEMMA RestBudget ==
    ASSUME BInv, NEW r \in Router, ReleaseRest(r)
    PROVE  NotYetCalled' /\ BeingCalled' /\ \A d \in Result : Spends(d)
<1> DEFINE Let(d) == Owns(r, d) /\ \E s \in batch[r] : s.row = d
<1>0. DeliveriesInv
  BY DEF BInv
<1>1. /\ batch'[r] = {} /\ sending' = sending /\ \A q \in Router \ {r} : batch'[q] = batch[q]
      /\ \A d \in Result : parcel'[d] = IF Let(d) THEN Released(parcel[d]) ELSE parcel[d]
  BY <1>0 DEF ReleaseRest, DeliveriesInv, DeliveriesTypeOK
<1>2. \A d \in Result : /\ parcel'[d].called = parcel[d].called
                        /\ parcel'[d].since = parcel[d].since
                        /\ parcel'[d].claims = parcel[d].claims
                        /\ Let(d) => parcel'[d].attempts =
                             IF parcel[d].attempts = 0 THEN 0 ELSE parcel[d].attempts - 1
  BY <1>0, <1>1, ParcelTypes, ReleasedRow DEF Owns
<1>3. \A q \in Router : \A u \in batch'[q] : u \in batch[q] /\ q # r /\ u.row \in Result
  BY <1>0, <1>1, Slips DEF DeliveriesInv
<1>4. NotYetCalled'
  BY <1>2, <1>3 DEF BInv, NotYetCalled
<1>5. BeingCalled'
  <2>1. \A q \in Router : sending[q] # NoSlip => sending[q].row \in Result
    BY <1>0, Slips DEF DeliveriesInv
  <2>2. QED
    BY <1>1, <1>2, <2>1 DEF BInv, BeingCalled
<1>6. ASSUME NEW d \in Result PROVE Spends(d)
  <2>1. CASE ~Let(d)
    <3>1. SameBudget(parcel[d], parcel'[d])
      BY <1>1, <2>1 DEF SameBudget
    <3>2. QED
      BY <1>0, <1>3, <3>1, SpendsNothing
  <2>2. CASE Let(d)
    <3>1. PICK s \in batch[r] : s.row = d
      BY <2>2
    <3>2. s \in Holding(r) /\ s.claim = parcel[d].claims
      BY <1>0, <2>2, <3>1 DEF DeliveriesInv, SlipsOK, Holding
    <3>3. parcel[d].since < parcel[d].claims /\ parcel[d].since \in Nat /\ parcel[d].claims \in Nat
      BY <1>0, <2>2, ParcelTypes DEF Owns, ParcelOK, Parcel
    <3>4. s.claim \in Unsent(d)
      BY <3>1, <3>2, <3>3 DEF Unsent
    <3>5. \A q \in Router \ {r} : \A u \in batch[q] : u.row = d => u.claim # s.claim
      BY <1>0, <3>1, <3>2 DEF DeliveriesInv, Apart, Holding
    <3>6. Unsent(d)' \subseteq Unsent(d) \ {s.claim}
      BY <1>2, <1>3, <3>5 DEF Unsent
    <3>7. s.claim \notin parcel[d].called
      BY <3>1 DEF BInv, NotYetCalled
    <3>8. s.claim \in Live(d) /\ Live(d)' \subseteq Live(d) \ {s.claim}
      BY <1>2, <3>4, <3>6, <3>7 DEF Live
    <3>9. QED
      BY <1>2, <2>2, <3>8 DEF Spends
  <2>3. QED
    BY <2>1, <2>2
<1>7. QED
  BY <1>4, <1>5, <1>6

LEMMA RetryBudget ==
    ASSUME BInv, NEW d \in Result, RetryResult(d)
    PROVE  NotYetCalled' /\ BeingCalled' /\ \A k \in Result : Spends(k)
<1>0. DeliveriesInv
  BY DEF BInv
<1>1. SetParcel(d, Retried(parcel[d])) /\ UNCHANGED <<batch, sending>>
  BY DEF RetryResult
<1>2. /\ parcel'[d] = Retried(parcel[d])
      /\ \A k \in Result \ {d} : SameBudget(parcel[k], parcel'[k])
  BY <1>0, <1>1, OneBudget
<1>3. /\ parcel'[d].called = {} /\ parcel'[d].since = parcel[d].claims
      /\ parcel'[d].attempts = 0
  BY <1>0, <1>2, ParcelTypes, RetriedRow DEF RetryResult
<1>4. parcel'[d].claims = parcel[d].claims /\ parcel[d].claims \in Nat
  <2>1. DeliveriesNext
    BY DEF DeliveriesNext
  <2>2. ParcelStep(d)
    BY <1>0, <2>1, ParcelsMove DEF ParcelsStep
  <2>3. QED
    BY <1>0, <2>2, ParcelTypes, ClaimsStay DEF RetryResult, ParcelTakenBy, Parcel, Undelivered
<1>5. \A q \in Router : \A u \in batch[q] : u.row \in Result
  BY <1>0, Slips DEF DeliveriesInv
<1>6. NotYetCalled'
  BY <1>1, <1>2, <1>3, <1>5 DEF BInv, NotYetCalled, SameBudget
<1>7. BeingCalled'
  <2> SUFFICES ASSUME NEW q \in Router, sending[q] # NoSlip,
                      sending[q].claim > parcel'[sending[q].row].since
               PROVE  sending[q].claim \in parcel'[sending[q].row].called
    BY <1>1 DEF BeingCalled
  <2>1. /\ sending[q].row \in Result
        /\ sending[q].claim \in 1..parcel[sending[q].row].claims
    BY <1>0, Slips DEF DeliveriesInv, SlipsOK
  <2>2. sending[q].row # d
    BY <1>3, <1>4, <2>1
  <2>3. QED
    BY <1>2, <2>1, <2>2 DEF BInv, BeingCalled, SameBudget
<1>8. ASSUME NEW k \in Result PROVE Spends(k)
  <2>1. CASE k # d
    BY <1>0, <1>1, <1>2, <2>1, SpendsNothing
  <2>2. CASE k = d
    <3>1. Unsent(d)' = {}
      BY <1>3, <1>4 DEF Unsent
    <3>2. QED
      BY <1>3, <2>2, <3>1 DEF Live, Spends
  <2>3. QED
    BY <2>1, <2>2
<1>9. QED
  BY <1>6, <1>7, <1>8

LEMMA BudgetStep ==
    ASSUME BInv, DeliveriesNext
    PROVE  NotYetCalled' /\ BeingCalled' /\ \A d \in Result : Spends(d)
<1>0. DeliveriesInv
  BY DEF BInv
<1>1. ASSUME NEW d \in Result, EnqueueResult(d) \/ LeaseRunsOut(d)
      PROVE  NotYetCalled' /\ BeingCalled' /\ \A k \in Result : Spends(k)
  BY <1>0, <1>1, RowsQuiet, Memory, QuietBudget
<1>2. ASSUME NEW r \in Router, StopRouter(r) \/ RouterDies(r)
      PROVE  NotYetCalled' /\ BeingCalled' /\ \A k \in Result : Spends(k)
  <2>1. \A k \in Result : SameBudget(parcel[k], parcel'[k])
    BY <1>2 DEF StopRouter, RouterDies, SameBudget
  <2>2. QED
    BY <1>0, <1>2, <2>1, Memory, QuietBudget
<1>3. ASSUME NEW r \in Router, Outcome(r)
      PROVE  NotYetCalled' /\ BeingCalled' /\ \A k \in Result : Spends(k)
  <2>1. CASE SendInterrupted(r) /\ MayRecord(r, sending[r])
    BY <2>1, InterruptedBudget
  <2>2. CASE ~(SendInterrupted(r) /\ MayRecord(r, sending[r]))
    BY <1>0, <1>3, <2>2, OutcomeQuiet, Memory, QuietBudget
  <2>3. QED
    BY <2>1, <2>2
<1>4. QED
  BY <1>1, <1>2, <1>3, ClaimBudget, SendBudget, RestBudget, RetryBudget DEF DeliveriesNext

LEMMA BudgetInit == DeliveriesInit => BInv
<1> SUFFICES ASSUME DeliveriesInit PROVE BInv
  OBVIOUS
<1>1. DeliveriesInv
  BY DeliveriesInitKeeps
<1>2. ASSUME NEW d \in Result PROVE Budget(d)
  <2>1. Live(d) = {} /\ parcel[d].attempts = 0
    BY DEF DeliveriesInit, NewParcel, Live, Unsent
  <2>2. MaxTries \in Nat
    BY DeliveriesAssumption
  <2>3. QED
    BY <2>1, <2>2, FS_EmptySet DEF Budget
<1>3. NotYetCalled /\ BeingCalled
  BY DEF DeliveriesInit, NotYetCalled, BeingCalled
<1>4. QED
  BY <1>1, <1>2, <1>3 DEF BInv

LEMMA BudgetKept == BInv /\ [DeliveriesNext]_deliveryVars => BInv'
<1> SUFFICES ASSUME BInv, [DeliveriesNext]_deliveryVars PROVE BInv'
  OBVIOUS
<1>1. DeliveriesInv'
  BY DeliveriesStepKeeps DEF BInv
<1>2. CASE DeliveriesNext
  BY <1>1, <1>2, BudgetStep, SpendsWithin DEF BInv
<1>3. CASE UNCHANGED deliveryVars
  BY <1>1, <1>3 DEF deliveryVars, BInv, NotYetCalled, BeingCalled, Budget, Live, Unsent
<1>4. QED
  BY <1>2, <1>3

\* A destination is called at most MAX_ATTEMPTS times for one result, unless the
\* user asks for more: each call has used up an attempt that no release undid.
THEOREM TriesBounded == DeliveriesSpec => []BoundedTries
<1>1. BInv => BoundedTries
  <2> SUFFICES ASSUME BInv, NEW d \in Result PROVE Cardinality(parcel[d].called) <= MaxTries
    BY DEF BoundedTries
  <2>1. /\ IsFiniteSet(Live(d)) /\ Cardinality(Live(d)) \in Nat
        /\ parcel[d].attempts \in Nat /\ MaxTries \in Nat
    BY LiveFinite, ParcelTypes, DeliveriesAssumption DEF BInv, Parcel
  <2>2. /\ Cardinality(parcel[d].called) \in Nat
        /\ Cardinality(parcel[d].called) <= Cardinality(Live(d))
    BY <2>1, FS_Subset, FS_CardinalityType DEF Live
  <2>3. QED
    BY <2>1, <2>2 DEF BInv, Budget
<1>2. QED
  BY BudgetInit, BudgetKept, <1>1, PTL DEF DeliveriesSpec
=============================================================================
