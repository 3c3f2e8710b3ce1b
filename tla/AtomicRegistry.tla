--------------------------- MODULE AtomicRegistry ---------------------------
(***************************************************************************)
(* What the strategy registry promises its callers: every change and every *)
(* lookup happens at one instant between call and return, so a lookup sees *)
(* entries and fallback as they were together at some moment.              *)
(***************************************************************************)
EXTENDS StrategyTable

CONSTANTS
    Thread,
    Unanswered   \* a lookup without an answer yet

VARIABLES
    asked,       \* the domain a thread is looking up, or None
    answer       \* the answer it has got

vars == <<table, asked, answer>>

Init == /\ TableInit
        /\ asked = [t \in Thread |-> None]
        /\ answer = [t \in Thread |-> Unanswered]

Ask(t, d) == /\ asked[t] = None
             /\ asked' = [asked EXCEPT ![t] = d]
             /\ UNCHANGED <<table, answer>>

\* The one instant at which the lookup happens.
Reply(t) == /\ asked[t] # None
            /\ answer[t] = Unanswered
            /\ answer' = [answer EXCEPT ![t] = Lookup(asked[t])]
            /\ UNCHANGED <<table, asked>>

Return(t) == /\ answer[t] # Unanswered
             /\ asked' = [asked EXCEPT ![t] = None]
             /\ answer' = [answer EXCEPT ![t] = Unanswered]
             /\ UNCHANGED table

Next == \/ \E t \in Thread : Reply(t) \/ Return(t) \/ \E d \in Domain : Ask(t, d)
        \/ Change /\ UNCHANGED <<asked, answer>>

Spec == Init /\ [][Next]_vars

=============================================================================
