----------------------------- MODULE ClaimedWork -----------------------------
(***************************************************************************)
(* What every table of leased background work promises: a worker claims a  *)
(* row, and only the latest claim of a row can settle it or give it back.  *)
(* "by" is the claim whose outcome the row records, 0 when nobody's.  One  *)
(* transaction may change several rows, each in its own way.               *)
(***************************************************************************)
EXTENDS Naturals

CONSTANT Work

VARIABLES state, claim, by
workVars == <<state, claim, by>>

WorkInit == /\ state = [w \in Work |-> "open"]
            /\ claim = [w \in Work |-> 0]
            /\ by = [w \in Work |-> 0]

Becomes(w, s, c, b) == state'[w] = s /\ claim'[w] = c /\ by'[w] = b

Stays(w)    == Becomes(w, state[w], claim[w], by[w])
\* An open row, or one whose lease ran out
Claim(w)    == state[w] \in {"open", "held"} /\ Becomes(w, "held", claim[w] + 1, 0)
GiveBack(w) == state[w] = "held" /\ Becomes(w, "open", claim[w], 0)
Settle(w)   == state[w] = "held" /\ Becomes(w, "settled", claim[w], claim[w])
\* By others than its worker: given up, put back on the list
Withdraw(w) == state[w] # "settled" /\ Becomes(w, "settled", claim[w], 0)
Reopen(w)   == state[w] # "held" /\ Becomes(w, "open", claim[w], 0)

WorkNext == \A w \in Work :
    Stays(w) \/ Claim(w) \/ GiveBack(w) \/ Settle(w) \/ Withdraw(w) \/ Reopen(w)
WorkSpec == WorkInit /\ [][WorkNext]_workVars
=============================================================================
