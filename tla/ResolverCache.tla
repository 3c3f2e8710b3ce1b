---------------------------- MODULE ResolverCache ----------------------------
(***************************************************************************)
(* The cache of the resolver table (ResolverCache, src/resolver.rs): one   *)
(* atomic pointer.  Lookups dereference it while reloads replace it, both  *)
(* through a shared reference; drop needs the cache for itself.            *)
(***************************************************************************)
EXTENDS Naturals, FiniteSets

CONSTANTS
    Table,     \* the tables that are boxed and handed to reload
    Default,   \* DEFAULT_TABLE, which is static
    Holder     \* the threads that share the cache

ASSUME CacheAssumption == Default \notin Table

Any == Table \cup {Default}

VARIABLES
    ptr,      \* the table the cache points to
    reading,  \* thread -> set of at most one table: what get handed out
    loading,  \* thread -> the table it is about to publish, likewise
    boxed,    \* the tables given to reload so far
    frees,    \* table -> how often it was freed
    dropped   \* is the cache gone?

cacheVars == <<ptr, reading, loading, boxed, frees, dropped>>

Idle(t) == reading[t] = {} /\ loading[t] = {}

CacheInit == /\ ptr = Default
             /\ reading = [t \in Holder |-> {}]
             /\ loading = [t \in Holder |-> {}]
             /\ boxed = {}
             /\ frees = [x \in Any |-> 0]
             /\ dropped = FALSE

Free(x) == frees' = [frees EXCEPT ![x] = @ + 1]

\* A thread keeps one reference at a time, and may call reload meanwhile.
Get(t) == /\ ~dropped /\ reading[t] = {}
          /\ reading' = [reading EXCEPT ![t] = {ptr}]
          /\ UNCHANGED <<ptr, loading, boxed, frees, dropped>>

\* resolve_uri has its descriptor, a copy; the reference is gone.
ResolveUri(t) == /\ reading[t] # {}
                 /\ reading' = [reading EXCEPT ![t] = {}]
                 /\ UNCHANGED <<ptr, loading, boxed, frees, dropped>>

\* reload: Box::into_raw
IntoRaw(t, x) == /\ ~dropped /\ loading[t] = {} /\ x \notin boxed
                 /\ loading' = [loading EXCEPT ![t] = {x}]
                 /\ boxed' = boxed \cup {x}
                 /\ UNCHANGED <<ptr, reading, frees, dropped>>

\* Mutant: reload frees the table it replaces.
PublishFreeing(t) == /\ loading[t] # {}
                     /\ ptr' \in loading[t]
                     /\ loading' = [loading EXCEPT ![t] = {}]
                     /\ IF ptr = Default THEN UNCHANGED frees ELSE Free(ptr)
                     /\ UNCHANGED <<reading, boxed, dropped>>

\* reload: the store; what was there before is left as it is.
Publish(t) == /\ loading[t] # {}
              /\ ptr' \in loading[t]
              /\ loading' = [loading EXCEPT ![t] = {}]
              /\ UNCHANGED <<reading, boxed, frees, dropped>>

\* Mutant: drop does not look whether the table is the static one.
DropAlways == /\ ~dropped /\ \A t \in Holder : Idle(t)
              /\ dropped' = TRUE
              /\ Free(ptr)
              /\ UNCHANGED <<ptr, reading, loading, boxed>>

\* Mutant: drop frees everything that was ever boxed and is not in the cache.
DropOthers == /\ ~dropped /\ \A t \in Holder : Idle(t)
              /\ dropped' = TRUE
              /\ frees' = [x \in Any |->
                               IF x \in boxed \ {ptr} THEN frees[x] + 1 ELSE frees[x]]
              /\ UNCHANGED <<ptr, reading, loading, boxed>>

Drop == /\ ~dropped /\ \A t \in Holder : Idle(t)
        /\ dropped' = TRUE
        /\ IF ptr = Default THEN UNCHANGED frees ELSE Free(ptr)
        /\ UNCHANGED <<ptr, reading, loading, boxed>>

CacheNext == \/ \E t \in Holder : \/ Get(t) \/ ResolveUri(t) \/ Publish(t)
                                  \/ \E x \in Table : IntoRaw(t, x)
             \/ Drop

CacheSpec == CacheInit /\ [][CacheNext]_cacheVars

-----------------------------------------------------------------------------

\* The variables have their types; the cache points to the default or to a table
\* that was boxed.
CacheTypeOK == /\ ptr \in boxed \cup {Default}
               /\ reading \in [Holder -> SUBSET Any] /\ loading \in [Holder -> SUBSET Table]
               /\ \A t \in Holder : loading[t] \subseteq boxed
               /\ boxed \subseteq Table
               /\ frees \in [Any -> Nat]
               /\ dropped \in BOOLEAN

\* No lookup reads a table that was freed, however many reloads pass it
\* (resolver.rs:97): this is what leaving replaced tables alone buys.
ReadersSafe == \A t \in Holder : \A x \in reading[t] : frees[x] = 0

\* No table is freed twice, and the static one never.
FreedOnce == frees[Default] = 0 /\ \A x \in Table : frees[x] <= 1

\* What the cache leaks are exactly the tables that were replaced: when it is
\* gone, the one it ended with is the only one freed (resolver.rs:103).
LeaksReplaced ==
    dropped => \A x \in boxed : frees[x] = (IF x = ptr THEN 1 ELSE 0)

=============================================================================
