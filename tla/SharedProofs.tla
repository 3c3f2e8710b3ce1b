---------------------------- MODULE SharedProofs -----------------------------
(***************************************************************************)
(* Proofs about what threads share by reference.  StrategyRegistry is      *)
(* linearizable, for any number of threads, domains and strategies: with   *)
(* its two locks it implements AtomicRegistry.  ResolverCache is safe for  *)
(* any number of tables and threads: its invariants follow from one that   *)
(* says how often each table was freed: once, if it is the boxed table a   *)
(* dropped cache ended with, and never otherwise; and nobody is inside a   *)
(* call of a dropped cache.                                                *)
(***************************************************************************)
EXTENDS StrategyRegistry, ResolverCache, TLAPS

\* Where a thread holds what: from its first read to its return a lookup holds
\* `entries`, and after a miss what it read is still true.
LookupInv ==
    \A t \in Thread :
        /\ pc[t] \in {"missed", "releaseBoth", "release"} => t \in readers["entries"]
        /\ pc[t] \in {"idle", "entries", "fallback", "write"} => asked[t] = None
        /\ pc[t] \notin {"releaseBoth", "release"} => answer[t] = Unanswered
        /\ pc[t] \in {"resolve", "missed"} => asked[t] \in Domain
        /\ pc[t] \in {"releaseBoth", "release"} => answer[t] # Unanswered
        /\ pc[t] = "missed" => entries[asked[t]] = None

IInv == TypeOK /\ LookupInv

-----------------------------------------------------------------------------

\* A thread that is past its read keeps every writer of `entries` out.
LEMMA ReadersExclude ==
    ASSUME IInv, NEW t \in Thread, pc[t] \in {"missed", "releaseBoth", "release"}
    PROVE  writer["entries"] = None
BY DEF IInv, TypeOK, LookupInv, Lock

\* The table keeps its type, whatever is changed.
LEMMA TableStep ==
    ASSUME TableTypeOK, EntriesChange \/ FallbackChange
    PROVE  TableTypeOK'
BY DEF TableTypeOK, EntriesChange, FallbackChange, Register, Unregister, Clear,
       SetFallback, ClearFallback

\* The calls and locks keep their types, and writers are alone.
LEMMA TypeStep ==
    ASSUME IInv, [Next]_vars
    PROVE  TypeOK'
<1>0. TypeOK /\ None \notin Thread /\ MaxCalls \in Nat
  BY RegistryAssumption DEF IInv
<1>. USE <1>0 DEF TypeOK, Goto, Lock, locks, table, TableTypeOK
<1>1. ASSUME NEW t \in Thread, Call(t)
      PROVE  TypeOK'
  BY <1>1 DEF Call, CallResolve, CallWrite
<1>2. ASSUME NEW t \in Thread, ReadEntries(t)
      PROVE  TypeOK'
  <2>1. asked[t] \in Domain
    BY <1>2 DEF IInv, LookupInv, ReadEntries
  <2>. QED
    BY <1>2, <2>1 DEF ReadEntries, AcquireRead, Found
<1>3. ASSUME NEW t \in Thread, ReadFallback(t)
      PROVE  TypeOK'
  BY <1>3 DEF ReadFallback, AcquireRead
<1>4. ASSUME NEW t \in Thread, ReleaseFallback(t)
      PROVE  TypeOK'
  BY <1>4 DEF ReleaseFallback, ReleaseRead
<1>5. ASSUME NEW t \in Thread, ReturnResolve(t)
      PROVE  TypeOK'
  BY <1>5 DEF ReturnResolve, ReleaseRead
<1>6. ASSUME NEW t \in Thread, NEW l \in Lock, Lockup(t, l)
      PROVE  TypeOK'
  BY <1>6 DEF Lockup, AcquireWrite
<1>7. ASSUME NEW t \in Thread, Write(t)
      PROVE  TypeOK'
  <2>1. TableTypeOK'
    BY <1>7, TableStep DEF Write
  <2>2. /\ readers' \in [Lock -> SUBSET Thread]
        /\ writer' \in [Lock -> Thread \cup {None}]
        /\ \A l \in Lock : writer'[l] # None => readers'[l] = {}
    BY <1>7 DEF Write, ReleaseWrite
  <2>. QED
    BY <1>7, <2>1, <2>2 DEF Write
<1>8. CASE UNCHANGED vars
  BY <1>8 DEF vars
<1>. QED
  BY <1>1, <1>2, <1>3, <1>4, <1>5, <1>6, <1>7, <1>8 DEF Next, Step

\* What a lookup knows stays true until it returns.
LEMMA LookupStep ==
    ASSUME IInv, [Next]_vars
    PROVE  LookupInv'
<1>0. TypeOK /\ LookupInv /\ None \notin Domain /\ Unanswered \notin Strategy \cup {None}
  BY RegistryAssumption DEF IInv
<1>. USE <1>0 DEF TypeOK, LookupInv, Goto, Lock, locks, table, TableTypeOK
<1>1. ASSUME NEW t \in Thread, Call(t)
      PROVE  LookupInv'
  BY <1>1 DEF Call, CallResolve, CallWrite
<1>2. ASSUME NEW t \in Thread, ReadEntries(t)
      PROVE  LookupInv'
  <2>1. asked[t] \in Domain
    BY <1>2 DEF ReadEntries
  <2>2. /\ \A u \in Thread : u \in readers["entries"] => u \in readers'["entries"]
        /\ t \in readers'["entries"]
        /\ UNCHANGED <<entries, asked>>
    BY <1>2 DEF ReadEntries, AcquireRead
  <2>3. CASE Found(t)
    BY <1>2, <2>1, <2>2, <2>3 DEF ReadEntries, Found
  <2>4. CASE ~Found(t)
    BY <1>2, <2>1, <2>2, <2>4 DEF ReadEntries, Found
  <2>. QED
    BY <2>3, <2>4
<1>3. ASSUME NEW t \in Thread, ReadFallback(t)
      PROVE  LookupInv'
  BY <1>3 DEF ReadFallback, AcquireRead
<1>4. ASSUME NEW t \in Thread, ReleaseFallback(t)
      PROVE  LookupInv'
  BY <1>4 DEF ReleaseFallback, ReleaseRead
<1>5. ASSUME NEW t \in Thread, ReturnResolve(t)
      PROVE  LookupInv'
  BY <1>5 DEF ReturnResolve, ReleaseRead
<1>6. ASSUME NEW t \in Thread, NEW l \in Lock, Lockup(t, l)
      PROVE  LookupInv'
  BY <1>6 DEF Lockup, AcquireWrite
<1>7. ASSUME NEW t \in Thread, Write(t)
      PROVE  LookupInv'
  <2>1. CASE writer["entries"] = t
    <3>1. \A u \in Thread : pc[u] \notin {"missed", "releaseBoth", "release"}
      BY <2>1, RegistryAssumption
    <3>. QED
      BY <1>7, <3>1 DEF Write
  <2>2. CASE writer["entries"] # t
    <3>1. UNCHANGED <<entries, readers>>
      BY <1>7, <2>2
         DEF Write, ReleaseWrite, FallbackChange, SetFallback, ClearFallback
    <3>. QED
      BY <1>7, <3>1 DEF Write
  <2>. QED
    BY <2>1, <2>2
<1>8. CASE UNCHANGED vars
  BY <1>8 DEF vars
<1>. QED
  BY <1>1, <1>2, <1>3, <1>4, <1>5, <1>6, <1>7, <1>8 DEF Next, Step

\* The lookup takes place when it has its answer: at its first read on a hit,
\* and at its second after a miss, when the miss still holds.
LEMMA AtomicStep ==
    ASSUME IInv, [Next]_vars
    PROVE  [Atomic!Next]_(Atomic!vars)
<1>0. TypeOK /\ LookupInv /\ Unanswered \notin Strategy \cup {None}
  BY RegistryAssumption DEF IInv
<1>1. ASSUME NEW t \in Thread, NEW d \in Domain, CallResolve(t, d)
      PROVE  Atomic!Ask(t, d)
  BY <1>0, <1>1
     DEF CallResolve, Goto, LookupInv, Atomic!Ask, Atomic!table, table
<1>2. ASSUME NEW t \in Thread, ReadEntries(t), Found(t)
      PROVE  Atomic!Reply(t)
  <2>1. asked[t] \in Domain /\ answer[t] = Unanswered /\ None \notin Domain
    BY <1>0, <1>2, RegistryAssumption DEF ReadEntries, LookupInv
  <2>. QED
    BY <1>2, <2>1
       DEF ReadEntries, Found, Atomic!Reply, Atomic!Lookup, Atomic!table, table
<1>3. ASSUME NEW t \in Thread, ReadFallback(t)
      PROVE  Atomic!Reply(t)
  <2>1. /\ asked[t] \in Domain /\ answer[t] = Unanswered /\ None \notin Domain
        /\ entries[asked[t]] = None
    BY <1>0, <1>3, RegistryAssumption DEF ReadFallback, Goto, LookupInv
  <2>. QED
    BY <1>3, <2>1 DEF ReadFallback, Atomic!Reply, Atomic!Lookup, Atomic!table, table
<1>4. ASSUME NEW t \in Thread, ReturnResolve(t)
      PROVE  Atomic!Return(t)
  BY <1>0, <1>4 DEF ReturnResolve, Goto, LookupInv, Atomic!Return, Atomic!table, table
<1>5. ASSUME NEW t \in Thread, Write(t)
      PROVE  Atomic!Change /\ UNCHANGED <<asked, answer>>
  BY <1>5
     DEF Write, EntriesChange, FallbackChange, Register, Unregister, Clear, SetFallback,
         ClearFallback, Atomic!Change, Atomic!Register, Atomic!Unregister, Atomic!Clear,
         Atomic!SetFallback, Atomic!ClearFallback
<1>6. ASSUME NEW t \in Thread,
             \/ \E l \in Lock : CallWrite(t, l) \/ Lockup(t, l)
             \/ ReadEntries(t) /\ ~Found(t)
             \/ ReleaseFallback(t)
      PROVE  UNCHANGED Atomic!vars
  BY <1>6 DEF CallWrite, Lockup, ReadEntries, ReleaseFallback, Atomic!vars, Atomic!table,
              table
<1>7. CASE UNCHANGED vars
  BY <1>7 DEF vars, Atomic!vars, Atomic!table, table
<1>8. ASSUME NEW t \in Thread, Call(t)
      PROVE  [Atomic!Next]_(Atomic!vars)
  BY <1>1, <1>6, <1>8 DEF Call, Atomic!Next
<1>9. ASSUME NEW t \in Thread, Step(t)
      PROVE  [Atomic!Next]_(Atomic!vars)
  BY <1>2, <1>3, <1>4, <1>5, <1>6, <1>9 DEF Step, Atomic!Next
<1>. QED
  BY <1>7, <1>8, <1>9 DEF Next

-----------------------------------------------------------------------------

\* Locks and lookups agree in every reachable state.
THEOREM Invariance == Spec => []IInv
<1>1. Init => IInv
  BY RegistryAssumption
     DEF Init, TableInit, TableTypeOK, Lock, IInv, TypeOK, LookupInv
<1>2. IInv /\ [Next]_vars => IInv'
  BY TypeStep, LookupStep DEF IInv
<1>. QED
  BY <1>1, <1>2, PTL DEF Spec

\* The registry keeps its types, and a writer is alone with its lock.
THEOREM TypeCorrect == Spec => []TypeOK
<1>1. IInv => TypeOK
  BY DEF IInv
<1>. QED
  BY <1>1, Invariance, PTL

\* Every lookup and every change is one step to its callers, for any number of
\* threads, calls and domains.
THEOREM LookupsAtomic == Spec => Linearizable
<1>1. Init => Atomic!Init
  BY DEF Init, TableInit, Atomic!Init, Atomic!TableInit
<1>2. IInv /\ [Next]_vars => [Atomic!Next]_(Atomic!vars)
  BY AtomicStep
<1>. QED
  BY <1>1, <1>2, Invariance, PTL DEF Spec, Linearizable, Atomic!Spec

-----------------------------------------------------------------------------
(* The cache.                                                              *)

\* How often each table was freed.
FreesExact == frees = [x \in Any |-> IF dropped /\ x = ptr /\ x # Default THEN 1 ELSE 0]

\* The drop has the cache for itself.
DropAlone == dropped => \A t \in Holder : Idle(t)

CacheInv == CacheTypeOK /\ FreesExact /\ DropAlone

-----------------------------------------------------------------------------

\* The initial state satisfies the inductive invariant.
LEMMA CacheStart == CacheInit => CacheInv
<1> SUFFICES ASSUME CacheInit PROVE CacheInv
  OBVIOUS
<1>1. CacheTypeOK
  BY DEF CacheInit, CacheTypeOK, Any
<1>2. FreesExact /\ DropAlone
  BY DEF CacheInit, FreesExact, DropAlone
<1> QED
  BY <1>1, <1>2 DEF CacheInv

\* Every step preserves the inductive invariant (get, reload and drop of
\* ResolverCache).
LEMMA CacheStep == CacheInv /\ [CacheNext]_cacheVars => CacheInv'
<1> SUFFICES ASSUME CacheInv, [CacheNext]_cacheVars PROVE CacheInv'
  OBVIOUS
<1> USE DEF CacheInv, CacheTypeOK, FreesExact, DropAlone, Idle
<1>1. ASSUME NEW t \in Holder, Get(t) PROVE CacheInv'
  BY <1>1 DEF Get, Any
<1>2. ASSUME NEW t \in Holder, ResolveUri(t) PROVE CacheInv'
  BY <1>2 DEF ResolveUri
<1>3. ASSUME NEW t \in Holder, NEW x \in Table, IntoRaw(t, x) PROVE CacheInv'
  BY <1>3 DEF IntoRaw
<1>4. ASSUME NEW t \in Holder, Publish(t) PROVE CacheInv'
  <2>1. ~dropped /\ UNCHANGED <<reading, boxed, frees, dropped>>
    BY <1>4 DEF Publish
  <2>2. ptr' \in boxed' \cup {Default} /\ loading' \in [Holder -> SUBSET Table]
    BY <1>4 DEF Publish
  <2>3. \A u \in Holder : loading'[u] \subseteq boxed'
    BY <1>4 DEF Publish
  <2>4. FreesExact'
    BY <2>1
  <2> QED
    BY <2>1, <2>2, <2>3, <2>4
<1>5. CASE Drop
  <2>1. CASE ptr = Default
    BY <1>5, <2>1 DEF Drop, Any
  <2>2. CASE ptr # Default
    <3>1. frees' = [x \in Any |-> IF x = ptr THEN 1 ELSE 0]
      BY <1>5, <2>2 DEF Drop, Free, Any
    <3> QED
      BY <1>5, <2>2, <3>1 DEF Drop, Any
  <2> QED
    BY <2>1, <2>2
<1>6. CASE UNCHANGED cacheVars
  BY <1>6 DEF cacheVars
<1> QED
  BY <1>1, <1>2, <1>3, <1>4, <1>5, <1>6 DEF CacheNext

\* The inductive invariant holds always.
LEMMA CacheInvariance == CacheSpec => []CacheInv
  BY CacheStart, CacheStep, PTL DEF CacheSpec

-----------------------------------------------------------------------------

\* The cache points to the default or to a table that was given to reload
\* (ResolverCache::reload), whatever the threads do.
THEOREM CacheTypeCorrect == CacheSpec => []CacheTypeOK
  BY CacheInvariance, PTL DEF CacheInv

\* No lookup reads a freed table (ResolverCache::get), for any number of reloads
\* under way.
THEOREM LookupsSafe == CacheSpec => []ReadersSafe
<1>1. CacheInv => ReadersSafe
  BY DEF CacheInv, CacheTypeOK, FreesExact, DropAlone, Idle, ReadersSafe
<1> QED
  BY <1>1, CacheInvariance, PTL

\* No table is freed twice and the static one never (Drop for ResolverCache).
THEOREM NoDoubleFree == CacheSpec => []FreedOnce
<1>1. CacheInv => FreedOnce
  BY DEF CacheInv, CacheTypeOK, FreesExact, FreedOnce, Any
<1> QED
  BY <1>1, CacheInvariance, PTL

\* What is never freed is what reload replaced (ResolverCache::reload).
THEOREM LeakIsReplaced == CacheSpec => []LeaksReplaced
<1>1. CacheInv => LeaksReplaced
  BY CacheAssumption DEF CacheInv, CacheTypeOK, FreesExact, LeaksReplaced, Any
<1> QED
  BY <1>1, CacheInvariance, PTL

=============================================================================
