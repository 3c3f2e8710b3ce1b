-------------------------- MODULE IdempotencyGuard --------------------------
(***************************************************************************)
(* The duplicate filter of the orchestrator (src/idempotency.rs): an       *)
(* ordered set of the request ids accepted so far, bounded by dropping the *)
(* smallest id.  `accepts` is a history variable, not a field of the       *)
(* struct: how many times check_qpid has answered true for each id.        *)
(***************************************************************************)
EXTENDS Naturals, FiniteSets, FiniteSetsExt

CONSTANTS
    Qpid,        \* the request ids (u64 in the code; ordered as numbers)
    MaxEntries,  \* IdempotencyGuard::max_entries (8192 in the orchestrator)
    MaxAccepts   \* bound of the model: acceptances counted per id

ASSUME QpidAssumption == Qpid \subseteq Nat
ASSUME MaxEntriesAssumption == MaxEntries \in Nat
ASSUME MaxAcceptsAssumption == MaxAccepts \in Nat

VARIABLES
    seen,        \* IdempotencyGuard::seen
    accepts      \* history: accepts[q] = times q was accepted

guard == <<seen, accepts>>

GuardInit == /\ seen = {}
             /\ accepts = [q \in Qpid |-> 0]

\* Possible slips in the eviction, for the mutation checks.
RememberEvictLargest(S, q) ==
    LET T == S \cup {q}
    IN  IF Cardinality(T) > MaxEntries THEN T \ {Max(T)} ELSE T

RememberEvictEarly(S, q) ==
    LET T == S \cup {q}
    IN  IF Cardinality(T) > 1 /\ Cardinality(T) >= MaxEntries
        THEN T \ {Min(T)} ELSE T

\* The set after a fresh id is inserted: over the limit, the smallest id
\* goes, which may be the one just inserted.
Remember(S, q) ==
    LET T == S \cup {q}
    IN  IF Cardinality(T) > MaxEntries THEN T \ {Min(T)} ELSE T

\* check_qpid answers false and changes nothing.
Duplicate(q) == /\ q \in seen
                /\ UNCHANGED guard

\* check_qpid answers true and remembers the id.
Fresh(q) == /\ q \notin seen
            /\ accepts[q] < MaxAccepts
            /\ seen' = Remember(seen, q)
            /\ accepts' = [accepts EXCEPT ![q] = @ + 1]

CheckQpid(q) == Duplicate(q) \/ Fresh(q)

GuardNext == \E q \in Qpid : CheckQpid(q)

GuardSpec == GuardInit /\ [][GuardNext]_guard

-----------------------------------------------------------------------------

\* Every id that was accepted at least once.
Accepted == {q \in Qpid : accepts[q] > 0}

\* The variables have their types, and the set never holds more ids than
\* the limit, whatever is inserted ("bounded memory", idempotency.rs:26).
GuardTypeOK == /\ seen \subseteq Qpid
               /\ IsFiniteSet(seen)
               /\ Cardinality(seen) <= MaxEntries
               /\ accepts \in [Qpid -> 0..MaxAccepts]

\* What the guard remembers depends on which ids were accepted and not on
\* their order or number: the MaxEntries largest accepted ids.
RemembersLargest ==
    seen = {q \in Accepted : Cardinality({r \in Accepted : r > q}) < MaxEntries}

\* An id the guard still remembers was accepted exactly once in the whole
\* history: being remembered now rules out an earlier eviction and replay.
RememberedOnce == \A q \in seen : accepts[q] = 1

\* An id is accepted a second time only when the guard is full and the id is
\* smaller than every id it remembers.
ReplayOnlyBelowFloor ==
    [][\A q \in Accepted :
           accepts'[q] # accepts[q] => /\ Cardinality(seen) = MaxEntries
                                       /\ \A r \in seen : q < r]_guard

=============================================================================
