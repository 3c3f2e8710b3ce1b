---------------------------- MODULE StrategyTable ----------------------------
(***************************************************************************)
(* The contents of the strategy registry (src/registry.rs) and what each   *)
(* of its operations does to them, taken as one step.  StrategyRegistry    *)
(* gives the locks back and shows that one step is what callers observe.   *)
(***************************************************************************)
CONSTANTS
    Domain,      \* domain names
    Strategy,    \* registered strategy objects
    None         \* Option::None

ASSUME NoStrategyAssumption == None \notin Strategy

VARIABLES
    entries,     \* domain -> strategy, or None where absent
    fallback     \* the fallback strategy, or None

table == <<entries, fallback>>

TableInit == /\ entries = [d \in Domain |-> None]
             /\ fallback = None

TableTypeOK == /\ entries \in [Domain -> Strategy \cup {None}]
               /\ fallback \in Strategy \cup {None}

\* resolve: the entry of the domain, or else the fallback.
Lookup(d) == IF entries[d] # None THEN entries[d] ELSE fallback

Register(d, s) == entries' = [entries EXCEPT ![d] = s] /\ UNCHANGED fallback
Unregister(d)  == entries' = [entries EXCEPT ![d] = None] /\ UNCHANGED fallback
Clear          == entries' = [d \in Domain |-> None] /\ UNCHANGED fallback
SetFallback(s) == fallback' = s /\ UNCHANGED entries
ClearFallback  == fallback' = None /\ UNCHANGED entries

Change == \/ \E d \in Domain : Unregister(d)
          \/ \E d \in Domain, s \in Strategy : Register(d, s)
          \/ Clear
          \/ \E s \in Strategy : SetFallback(s)
          \/ ClearFallback

=============================================================================
