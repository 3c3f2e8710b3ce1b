--------------------------- MODULE DispatchLedger ---------------------------
(***************************************************************************)
(* What the dispatch pipeline promises about an idempotency key, without   *)
(* the pipeline: a key is claimed by one dispatch at a time, the claim is  *)
(* settled once, by a run or by a refusal, and a settled key stays settled *)
(* until it is forgotten.  Only the smallest key is ever forgotten, and    *)
(* only to make room.                                                      *)
(***************************************************************************)
EXTENDS Naturals, FiniteSets

CONSTANTS Key, Capacity

VARIABLE ledger

Free     == {k \in Key : ledger[k] = "free"}
Pending  == {k \in Key : ledger[k] \in {"claimed", "passing"}}
Settled  == {k \in Key : ledger[k] \in {"ran", "refused"}}

Init == ledger = [k \in Key |-> "free"]

\* Room for one more: the claim is remembered.
Claim(k) == /\ k \in Free /\ Pending = {}
            /\ Cardinality(Settled) < Capacity
            /\ ledger' = [ledger EXCEPT ![k] = "claimed"]

\* No room: the smallest settled key makes way for a larger one.
ClaimForgetting(k, old) ==
    /\ k \in Free /\ Pending = {}
    /\ Cardinality(Settled) = Capacity
    /\ old \in Settled
    /\ \A s \in Settled : old <= s
    /\ old < k
    /\ ledger' = [ledger EXCEPT ![k] = "claimed", ![old] = "free"]

\* No room, and the key is smaller than all: the claim is good for one run
\* but leaves no trace.
ClaimPassing(k) ==
    /\ k \in Free /\ Pending = {}
    /\ Cardinality(Settled) = Capacity
    /\ \A s \in Settled : k < s
    /\ ledger' = [ledger EXCEPT ![k] = "passing"]

Settle(k, outcome) ==
    \/ /\ ledger[k] = "claimed"
       /\ ledger' = [ledger EXCEPT ![k] = outcome]
    \/ /\ ledger[k] = "passing"
       /\ ledger' = [ledger EXCEPT ![k] = "free"]

Run(k)    == Settle(k, "ran")
Refuse(k) == Settle(k, "refused")

Next == \E k \in Key :
            \/ Claim(k)
            \/ \E old \in Key : ClaimForgetting(k, old)
            \/ ClaimPassing(k)
            \/ Run(k)
            \/ Refuse(k)

Spec == Init /\ [][Next]_ledger

=============================================================================
