-------------------------- MODULE OrchestratorProofs -------------------------
(***************************************************************************)
(* Proofs about the pipeline, for every set of requests, keys and          *)
(* strategies and every limit.  First the guard by itself: its properties  *)
(* speak of the whole history, so none of them is inductive, and GuardInv  *)
(* adds that what was evicted lies below what is remembered, and that      *)
(* nothing is evicted before the guard is full.  Then the dispatch, which  *)
(* uses the guard as specified, and the ledger that it implements.         *)
(***************************************************************************)
EXTENDS Orchestrator, DataLemmas

Evicted == Accepted \ seen

Forgotten ==
    /\ \A a \in Evicted, s \in seen : a < s
    /\ Evicted # {} => Cardinality(seen) = MaxEntries

GuardInv == /\ GuardTypeOK
            /\ IsFiniteSet(Accepted)
            /\ seen \subseteq Accepted
            /\ Forgotten
            /\ RememberedOnce

-----------------------------------------------------------------------------

\* What Remember does to a guard that respects its limit: either nothing is
\* dropped, or the least element of the enlarged set is and the guard is full.
LEMMA RememberCases ==
    ASSUME NEW S, S \subseteq Nat, IsFiniteSet(S),
           Cardinality(S) <= MaxEntries,
           NEW q \in Nat, q \notin S
    PROVE  LET T == S \cup {q}
               R == Remember(S, q)
           IN  /\ IsFiniteSet(R)
               /\ \/ R = T /\ Cardinality(R) <= MaxEntries
                  \/ \E m \in T : /\ R = T \ {m}
                                  /\ \A y \in R : m < y
                                  /\ Cardinality(S) = MaxEntries
                                  /\ Cardinality(R) = MaxEntries
<1> DEFINE T == S \cup {q}
<1>1. /\ IsFiniteSet(T)
      /\ Cardinality(T) = Cardinality(S) + 1
      /\ Cardinality(S) \in Nat
  BY FS_AddElement, FS_CardinalityType
<1>2. PICK m \in T : /\ m = Min(T)
                     /\ \A y \in T : m <= y
  BY MinOfNats
<1>3. CASE Cardinality(T) > MaxEntries
  <2>1. Remember(S, q) = T \ {m}
    BY <1>2, <1>3 DEF Remember
  <2>2. /\ IsFiniteSet(T \ {m})
        /\ Cardinality(T \ {m}) = Cardinality(S)
    <3>1. /\ IsFiniteSet(T \ {m})
          /\ Cardinality(T \ {m}) = Cardinality(T) - 1
      <4>. HIDE DEF T
      <4>. QED
        BY <1>1, <1>2, FS_RemoveElement
    <3>. QED
      BY <1>1, <3>1
  <2>3. Cardinality(S) = MaxEntries
    BY <1>1, <1>3, MaxEntriesAssumption
  <2>4. \A y \in T \ {m} : m < y
    <3>1. T \subseteq Nat
      OBVIOUS
    <3>. QED
      BY <1>2, <3>1
  <2>. QED
    BY <1>2, <2>1, <2>2, <2>3, <2>4
<1>4. CASE ~(Cardinality(T) > MaxEntries)
  <2>1. Remember(S, q) = T
    BY <1>4 DEF Remember
  <2>2. Cardinality(T) <= MaxEntries
    BY <1>1, <1>4, MaxEntriesAssumption
  <2>. QED
    BY <1>1, <2>1, <2>2
<1>. QED
  BY <1>3, <1>4

\* The effect of accepting one id on the history.
LEMMA AcceptedAfter ==
    ASSUME GuardTypeOK, NEW q \in Qpid, Fresh(q)
    PROVE  /\ accepts' \in [Qpid -> 0..MaxAccepts]
           /\ Accepted' = Accepted \cup {q}
           /\ accepts'[q] = accepts[q] + 1
           /\ \A r \in Qpid \ {q} : accepts'[r] = accepts[r]
<1>1. /\ accepts'[q] = accepts[q] + 1
      /\ \A r \in Qpid \ {q} : accepts'[r] = accepts[r]
      /\ accepts[q] + 1 \in 0..MaxAccepts
  BY MaxAcceptsAssumption DEF GuardTypeOK, Fresh
<1>2. accepts' \in [Qpid -> 0..MaxAccepts]
  BY <1>1 DEF GuardTypeOK, Fresh
<1>3. \A r \in Qpid : accepts[r] \in Nat
  BY MaxAcceptsAssumption DEF GuardTypeOK
<1>4. Accepted' = Accepted \cup {q}
  BY <1>1, <1>3 DEF Accepted
<1>. QED
  BY <1>1, <1>2, <1>4

\* The dropped id, if any, is below the rest, so what is remembered stays a
\* part of what was accepted and GuardInv is preserved.
LEMMA FreshPreservesGuardInv ==
    ASSUME GuardInv, NEW q \in Qpid, Fresh(q)
    PROVE  GuardInv'
<1>1. /\ seen \subseteq Nat /\ q \in Nat /\ q \notin seen
      /\ seen \subseteq Qpid
      /\ IsFiniteSet(seen) /\ Cardinality(seen) <= MaxEntries
      /\ seen' = Remember(seen, q)
  BY QpidAssumption DEF GuardInv, GuardTypeOK, Fresh
<1>2. /\ accepts' \in [Qpid -> 0..MaxAccepts]
      /\ Accepted' = Accepted \cup {q}
      /\ accepts'[q] = accepts[q] + 1
      /\ \A r \in Qpid \ {q} : accepts'[r] = accepts[r]
  BY AcceptedAfter DEF GuardInv
<1>3. /\ IsFiniteSet(seen')
      /\ \/ seen' = seen \cup {q} /\ Cardinality(seen') <= MaxEntries
         \/ \E m \in seen \cup {q} : /\ seen' = (seen \cup {q}) \ {m}
                                     /\ \A y \in seen' : m < y
                                     /\ Cardinality(seen) = MaxEntries
                                     /\ Cardinality(seen') = MaxEntries
  BY <1>1, RememberCases
<1>4. Cardinality(seen') <= MaxEntries
  BY <1>3, MaxEntriesAssumption
<1>5. GuardTypeOK'
  BY <1>1, <1>2, <1>3, <1>4 DEF GuardTypeOK
<1>6. IsFiniteSet(Accepted')
  BY <1>2, FS_AddElement DEF GuardInv
<1>7. seen' \subseteq Accepted'
  BY <1>2, <1>3 DEF GuardInv
<1>8. Forgotten'
  <2>1. Accepted \subseteq Nat /\ seen' \subseteq Nat
    BY <1>1, <1>3, QpidAssumption DEF Accepted
  <2>2. CASE seen' = seen \cup {q} /\ Cardinality(seen') <= MaxEntries
    <3>1. Evicted' \subseteq Evicted
      BY <1>2, <2>2 DEF Evicted
    <3>2. Evicted = {}
      <4>. SUFFICES ASSUME Evicted # {}
                    PROVE  FALSE
        OBVIOUS
      <4>1. Cardinality(seen) = MaxEntries
        BY DEF GuardInv, Forgotten
      <4>2. Cardinality(seen') = Cardinality(seen) + 1
        BY <1>1, <2>2, FS_AddElement
      <4>. QED
        BY <2>2, <4>1, <4>2, MaxEntriesAssumption
    <3>. QED
      BY <3>1, <3>2 DEF Forgotten
  <2>3. ASSUME NEW m \in seen \cup {q},
               seen' = (seen \cup {q}) \ {m},
               \A y \in seen' : m < y,
               Cardinality(seen) = MaxEntries,
               Cardinality(seen') = MaxEntries
        PROVE  Forgotten'
    <3>1. Evicted' \subseteq Evicted \cup {m}
      BY <1>2, <2>3 DEF Evicted
    <3>2. m \in Nat
      BY <1>1
    <3>3. ASSUME NEW a \in Evicted, NEW s \in seen'
          PROVE  a < s
      <4>0. a \in Nat /\ s \in Nat
        BY <2>1 DEF Evicted
      <4>1. CASE s \in seen
        BY <4>1 DEF GuardInv, Forgotten
      <4>2. CASE s = q /\ m = q
        BY <2>3, <4>2
      <4>3. CASE s = q /\ m \in seen
        <5>1. a < m
          BY <4>3 DEF GuardInv, Forgotten
        <5>2. m < s
          BY <2>3
        <5>. QED
          BY <3>2, <4>0, <5>1, <5>2
      <4>. QED
        BY <2>3, <4>1, <4>2, <4>3
    <3>. QED
      BY <2>3, <3>1, <3>3 DEF Forgotten
  <2>. QED
    BY <1>3, <2>2, <2>3
<1>9. RememberedOnce'
  <2>1. q \in seen' => accepts[q] = 0
    <3>. SUFFICES ASSUME q \in seen', accepts[q] # 0
                  PROVE  FALSE
      OBVIOUS
    <3>1. q \in Evicted
      <4>1. accepts[q] \in Nat
        BY MaxAcceptsAssumption DEF GuardInv, GuardTypeOK
      <4>. QED
        BY <1>1, <4>1 DEF Evicted, Accepted
    <3>2. Cardinality(seen) = MaxEntries /\ \A s \in seen : q < s
      BY <3>1 DEF GuardInv, Forgotten
    <3>3. Cardinality(seen \cup {q}) = Cardinality(seen) + 1
      BY <1>1, FS_AddElement
    <3>4. PICK m \in seen \cup {q} : /\ seen' = (seen \cup {q}) \ {m}
                                     /\ \A y \in seen' : m < y
      BY <1>3, <3>2, <3>3, MaxEntriesAssumption
    <3>5. m \in seen /\ m < q /\ q < m
      BY <3>2, <3>4
    <3>. QED
      BY <1>1, <3>5
  <2>2. \A r \in seen' \ {q} : accepts'[r] = 1
    BY <1>1, <1>2, <1>3 DEF GuardInv, RememberedOnce
  <2>3. q \in seen' => accepts'[q] = 1
    BY <1>2, <2>1
  <2>. QED
    BY <2>2, <2>3 DEF RememberedOnce
<1>. QED
  BY <1>5, <1>6, <1>7, <1>8, <1>9 DEF GuardInv

-----------------------------------------------------------------------------

\* GuardInv holds in every reachable state.
THEOREM GuardInvariance == GuardSpec => []GuardInv
<1>1. GuardInit => GuardInv
  <2>. SUFFICES ASSUME GuardInit
                PROVE  GuardInv
    OBVIOUS
  <2>1. Accepted = {}
    BY DEF GuardInit, Accepted
  <2>2. seen = {} /\ IsFiniteSet({}) /\ Cardinality({}) = 0
    BY FS_EmptySet DEF GuardInit
  <2>3. GuardTypeOK
    BY <2>2, MaxEntriesAssumption, MaxAcceptsAssumption DEF GuardInit, GuardTypeOK
  <2>. QED
    BY <2>1, <2>2, <2>3 DEF GuardInv, Forgotten, Evicted, RememberedOnce
<1>2. GuardInv /\ [GuardNext]_guard => GuardInv'
  <2>. SUFFICES ASSUME GuardInv, [GuardNext]_guard
                PROVE  GuardInv'
    OBVIOUS
  <2>1. ASSUME NEW q \in Qpid, Fresh(q)
        PROVE  GuardInv'
    BY <2>1, FreshPreservesGuardInv
  <2>2. CASE UNCHANGED guard
    BY <2>2 DEF guard, GuardInv, GuardTypeOK, Forgotten, Evicted, Accepted, RememberedOnce
  <2>3. ASSUME NEW q \in Qpid, Duplicate(q)
        PROVE  GuardInv'
    BY <2>2, <2>3 DEF Duplicate
  <2>. QED
    BY <2>1, <2>2, <2>3 DEF GuardNext, CheckQpid
<1>. QED
  BY <1>1, <1>2, PTL DEF GuardSpec

\* The guard keeps its types and its memory bound for every set of ids and
\* every limit.
THEOREM GuardTypeCorrect == GuardSpec => []GuardTypeOK
<1>1. GuardInv => GuardTypeOK
  BY DEF GuardInv
<1>. QED
  BY <1>1, GuardInvariance, PTL

\* A remembered id was accepted once, for every limit and every order of the
\* requests.
THEOREM AcceptedOnce == GuardSpec => []RememberedOnce
<1>1. GuardInv => RememberedOnce
  BY DEF GuardInv
<1>. QED
  BY <1>1, GuardInvariance, PTL

\* What is remembered is exactly the MaxEntries largest ids ever accepted.
THEOREM RemembersExactlyLargest == GuardSpec => []RemembersLargest
<1> DEFINE Above(q) == {r \in Accepted : r > q}
<1>1. GuardInv => RemembersLargest
  <2>. SUFFICES ASSUME GuardInv
                PROVE  RemembersLargest
    OBVIOUS
  <2>1. /\ IsFiniteSet(seen) /\ Cardinality(seen) <= MaxEntries
        /\ Cardinality(seen) \in Nat
        /\ seen \subseteq Accepted
        /\ Accepted \subseteq Nat
    BY FS_CardinalityType, QpidAssumption DEF GuardInv, GuardTypeOK, Accepted
  <2>2. ASSUME NEW q \in seen
        PROVE  Cardinality(Above(q)) < MaxEntries
    <3>1. Above(q) \subseteq seen \ {q}
      <4>. SUFFICES ASSUME NEW r \in Above(q)
                    PROVE  r \in seen /\ r # q
        OBVIOUS
      <4>1. r \in Accepted /\ r \in Nat /\ q \in Nat /\ r > q
        BY <2>1, <2>2
      <4>2. r \notin seen => r < q
        BY <4>1, <2>2 DEF GuardInv, Forgotten, Evicted
      <4>. QED
        BY <4>1, <4>2
    <3>2. /\ IsFiniteSet(seen \ {q})
          /\ Cardinality(seen \ {q}) = Cardinality(seen) - 1
      BY <2>1, <2>2, FS_RemoveElement
    <3>3. /\ Cardinality(Above(q)) <= Cardinality(seen \ {q})
          /\ Cardinality(Above(q)) \in Nat
      <4>. HIDE DEF Above
      <4>. QED
        BY <3>1, <3>2, FS_Subset, FS_CardinalityType
    <3>. HIDE DEF Above
    <3>. QED
      BY <2>1, <3>2, <3>3, MaxEntriesAssumption
  <2>3. ASSUME NEW q \in Evicted
        PROVE  ~(Cardinality(Above(q)) < MaxEntries)
    <3>1. Cardinality(seen) = MaxEntries
      BY <2>3 DEF GuardInv, Forgotten
    <3>2. seen \subseteq Above(q)
      <4>. SUFFICES ASSUME NEW r \in seen
                    PROVE  r > q
        BY <2>1
      <4>1. r \in Nat /\ q \in Nat /\ q < r
        BY <2>1, <2>3 DEF GuardInv, Forgotten, Evicted
      <4>. QED
        BY <4>1
    <3>3. Above(q) \subseteq Accepted
      OBVIOUS
    <3>4. /\ IsFiniteSet(Above(q))
          /\ Cardinality(Above(q)) \in Nat
          /\ Cardinality(seen) <= Cardinality(Above(q))
      <4>. HIDE DEF Above
      <4>. QED
        BY <3>2, <3>3, FS_Subset, FS_CardinalityType DEF GuardInv
    <3>. HIDE DEF Above
    <3>. QED
      BY <2>1, <3>1, <3>4, MaxEntriesAssumption
  <2>4. Accepted = seen \cup Evicted
    BY <2>1 DEF Evicted
  <2>5. RemembersLargest <=> seen = {q \in Accepted : Cardinality(Above(q)) < MaxEntries}
    BY DEF RemembersLargest
  <2>. HIDE DEF Above
  <2>6. seen = {q \in Accepted : Cardinality(Above(q)) < MaxEntries}
    BY <2>2, <2>3, <2>4
  <2>. QED
    BY <2>5, <2>6
<1>. QED
  BY <1>1, GuardInvariance, PTL

\* An id is accepted again only below the floor of a full guard.
THEOREM ReplayNeedsEviction == GuardSpec => ReplayOnlyBelowFloor
<1> DEFINE Replay == \A q \in Accepted :
                        accepts'[q] # accepts[q] =>
                            /\ Cardinality(seen) = MaxEntries
                            /\ \A r \in seen : q < r
<1>1. GuardInv /\ [GuardNext]_guard => [Replay]_guard
  <2>. SUFFICES ASSUME GuardInv, GuardNext, NEW q \in Accepted,
                       accepts'[q] # accepts[q]
                PROVE  /\ Cardinality(seen) = MaxEntries
                       /\ \A r \in seen : q < r
    OBVIOUS
  <2>1. PICK p \in Qpid : Duplicate(p) \/ Fresh(p)
    BY DEF GuardNext, CheckQpid
  <2>2. Fresh(p)
    BY <2>1 DEF Duplicate, guard
  <2>3. p = q
    BY <2>2, AcceptedAfter DEF GuardInv, Accepted
  <2>4. q \in Evicted
    BY <2>2, <2>3 DEF Fresh, Evicted
  <2>. QED
    BY <2>4 DEF GuardInv, Forgotten
<1>. QED
  BY <1>1, GuardInvariance, PTL DEF GuardSpec, ReplayOnlyBelowFloor

-----------------------------------------------------------------------------
(* The dispatch.                                                           *)

\* A key's runs, and the claim that is still to run, were all accepted.
ClaimsAccounted ==
    \A k \in Qpid : executed[k] + Count(key = k /\ Waiting) <= accepts[k]

\* A dispatch holds a key from its claim to its end, has run it once it
\* settles, and has an answer only while it returns.
AnswerInv ==
    /\ pc \in {"idle", "breaker", "claim"} => key = None
    /\ pc \in {"settle", "succeed"} => executed[key] > 0
    /\ pc # "return" => status = None
    /\ AnswerTruthful
    /\ pc = "return" /\ status \in {200, 404, 429} => key \in Qpid

\* The longest interval the clock can show is at least d.
Shown(d) == \E first, last \in Instants : d <= last - first

\* stamp is a reading while the request runs, and then an interval.
LatencyInv == /\ LatencyBounded
              /\ pc = "execute" => stamp \in Instants
              /\ pc = "settle" => Shown(stamp)

IInv == /\ TypeOK
        /\ GuardInv
        /\ QueueBalance
        /\ InflightBalance
        /\ ClaimsAccounted
        /\ AnswerInv
        /\ LatencyInv

-----------------------------------------------------------------------------

\* Every step accepts one fresh key or leaves the guard alone.
LEMMA GuardStep ==
    ASSUME TypeOK, [Next]_vars
    PROVE  \/ UNCHANGED guard
           \/ \E k \in Qpid : Fresh(k) /\ pc = "claim" /\ key' = k /\ pc' = "gate"
                              /\ UNCHANGED executed
<1>1. ASSUME Claim
      PROVE  \/ UNCHANGED guard
             \/ \E k \in Qpid : Fresh(k) /\ pc = "claim" /\ key' = k /\ pc' = "gate"
                                /\ UNCHANGED executed
  <2>1. key' \in Qpid
    BY <1>1, RequestAssumption
       DEF Claim, KeyUnder, StrategyFor, Lookup, TypeOK, TableTypeOK
  <2>. QED
    BY <1>1, <2>1 DEF Claim, Duplicate, guard, Goto, runs
<1>2. CASE UNCHANGED vars
  BY <1>2 DEF vars
<1>3. CASE Dispatch /\ ~Claim
  BY <1>3 DEF Dispatch, Step, Enter, CheckBreaker, Gate, Resolve, Route, Execute, Settle,
              Succeed, Return, Unwind
<1>4. CASE Surroundings
  BY <1>4 DEF Surroundings, Arrive, Depart, SuperviseBreaker, Tick, SetStrategy,
              ChangeRegistry, Reload
<1>. QED
  BY <1>1, <1>2, <1>3, <1>4 DEF Next

\* The guard's invariant holds of the guard the dispatch uses.
LEMMA GuardInvStep ==
    ASSUME TypeOK, GuardInv, [Next]_vars
    PROVE  GuardInv'
<1>1. CASE UNCHANGED guard
  BY <1>1 DEF guard, GuardInv, GuardTypeOK, Forgotten, Evicted, Accepted, RememberedOnce
<1>2. ASSUME NEW k \in Qpid, Fresh(k)
      PROVE  GuardInv'
  BY <1>2, FreshPreservesGuardInv
<1>. QED
  BY <1>1, <1>2, GuardStep

\* The types are kept by every step.  The stamp is a reading of the clock or a
\* difference of two, the counters wrap and the sums saturate.
LEMMA TypeStep ==
    ASSUME TypeOK, GuardInv, [Next]_vars
    PROVE  TypeOK'
<1>0. GuardTypeOK'
  BY GuardInvStep DEF GuardInv
<1>. USE <1>0 DEF TypeOK, PressureTypeOK, TableTypeOK, SupervisionTypeOK, Pcs, Status,
                 Waiting, Running, pressure, latency, breaker, config, table, local,
                 others, runs, Goto, Answer
<1>1. ASSUME NEW r \in Request, Enter(r)
      PROVE  TypeOK'
  BY <1>1, SizesAssumption, ClockAssumption, NoneAssumption DEF Enter, IncQueue, Inc
<1>2. ASSUME CheckBreaker
      PROVE  TypeOK'
  BY <1>2 DEF CheckBreaker
<1>3. ASSUME Claim
      PROVE  TypeOK'
  BY <1>3, RequestAssumption, NoneAssumption DEF Claim, KeyUnder, StrategyFor, Lookup
<1>4. ASSUME Gate
      PROVE  TypeOK'
  BY <1>4 DEF Gate
<1>5. ASSUME Resolve
      PROVE  TypeOK'
  BY <1>5, RequestAssumption, TableAssumption DEF Resolve, ResolveUri, SchemeOf
<1>6. ASSUME Route
      PROVE  TypeOK'
  <2>1. PressureTypeOK'
    BY <1>6, SizesAssumption DEF Route, IncInflight, Inc
  <2>2. target' \in {"Local", "Remote"} /\ stamp' \in 0..MaxU64
    BY <1>6, ClockAssumption DEF Route, Targets
  <2>. QED
    BY <1>6, <2>1, <2>2 DEF Route, EnsureLoaded
<1>7. ASSUME Execute
      PROVE  TypeOK'
  BY <1>7, ClockAssumption DEF Execute, Ran, SaturatingSub
<1>8. ASSUME Unwind
      PROVE  TypeOK'
  BY <1>8, WidthAssumption DEF Unwind, Ran
<1>9. ASSUME Settle
      PROVE  TypeOK'
  BY <1>9, SizesAssumption, ClockAssumption
     DEF Settle, UpdateLatency, Average, Saturate, DecInflight, Dec
<1>10. ASSUME Succeed
      PROVE  TypeOK'
  BY <1>10, SizesAssumption DEF Succeed, OnSuccess
<1>11. ASSUME Return
      PROVE  TypeOK'
  <2>1. PressureTypeOK'
    BY <1>11, SizesAssumption DEF Return, DecQueue, Dec
  <2>2. stamp' \in 0..MaxU64
    BY <1>11, ClockAssumption DEF Return
  <2>. QED
    BY <1>11, <2>1, <2>2 DEF Return
<1>12. ASSUME NEW p \in Intake, Arrive(p) \/ Depart(p)
      PROVE  TypeOK'
  BY <1>12, SizesAssumption DEF Arrive, Depart, IncQueue, DecQueue, Inc, Dec
<1>13. ASSUME NEW s \in Supervisor, SuperviseBreaker(s)
       PROVE  TypeOK'
  <2>1. CASE ReportFailure(s)
    BY <1>13, <2>1, SizesAssumption, SupervisionAssumption
       DEF SuperviseBreaker, ReportFailure, Becomes, OnFailure, Inc
  <2>2. CASE CheckThreshold(s)
    BY <1>13, <2>2 DEF SuperviseBreaker, CheckThreshold, Becomes
  <2>3. CASE ReadTripClock(s)
    BY <1>13, <2>3, ClockAssumption DEF SuperviseBreaker, ReadTripClock
  <2>4. CASE StoreTrip(s)
    BY <1>13, <2>4, ClockAssumption, SupervisionAssumption
       DEF SuperviseBreaker, StoreTrip, Trip, Saturate, Watching
  <2>. QED
    BY <1>13, <2>1, <2>2, <2>3, <2>4 DEF SuperviseBreaker, Supervise
<1>14. ASSUME Tick
      PROVE  TypeOK'
  BY <1>14 DEF Tick
<1>15. ASSUME NEW s \in Strategy \cup {None}, SetStrategy(s)
      PROVE  TypeOK'
  BY <1>15 DEF SetStrategy
<1>16. ASSUME ChangeRegistry
      PROVE  TypeOK'
  BY <1>16
     DEF ChangeRegistry, Change, Register, Unregister, Clear, SetFallback, ClearFallback
<1>17. ASSUME NEW t \in FanTable, Reload(t)
      PROVE  TypeOK'
  BY <1>17 DEF Reload
<1>18. ASSUME UNCHANGED vars
      PROVE  TypeOK'
  BY <1>18 DEF vars
<1>. QED
  BY <1>1, <1>2, <1>3, <1>4, <1>5, <1>6, <1>7, <1>8, <1>9, <1>10, <1>11, <1>12, <1>13,
     <1>14, <1>15, <1>16, <1>17, <1>18
     DEF Next, Dispatch, Step, Surroundings

\* Who touches which counter: a step moves the queue for the dispatch or for
\* one intake thread, and never for both.
LEMMA QueueStep ==
    ASSUME TypeOK, QueueBalance, [Next]_vars
    PROVE  QueueBalance'
<1> DEFINE n == Cardinality(held)
<1>1. /\ n \in Nat /\ n + 1 < U32
      /\ IsFiniteSet(held)
      /\ U32 \in Nat
  BY WidthAssumption, SizesAssumption, FS_Subset, FS_CardinalityType DEF TypeOK
<1>2. ASSUME NEW r \in Request, Enter(r)
      PROVE  QueueBalance'
  BY <1>1, <1>2 DEF Enter, Goto, IncQueue, Inc, QueueBalance, Count, others
<1>3. ASSUME CheckBreaker \/ Claim \/ Gate \/ Resolve \/ Route \/ Execute \/ Settle
             \/ Succeed \/ Unwind
      PROVE  QueueBalance'
  <2>1. /\ UNCHANGED <<queue_depth, held>>
        /\ pc # "idle" /\ pc' # "idle"
    BY <1>3 DEF CheckBreaker, Claim, Gate, Resolve, Route, Execute, Settle, Succeed,
                Unwind, Goto, Answer, others, pressure
  <2>. QED
    BY <2>1 DEF QueueBalance
<1>4. ASSUME Return
      PROVE  QueueBalance'
  BY <1>1, <1>4 DEF Return, Goto, DecQueue, Dec, QueueBalance, Count, others
<1>5. ASSUME NEW p \in Intake, Arrive(p)
      PROVE  QueueBalance'
  <2>1. Cardinality(held') = n + 1
    BY <1>1, <1>5, FS_AddElement DEF Arrive
  <2>2. n + 2 < U32 + 1 /\ n + 1 <= Cardinality(Intake)
    <3>1. held' \subseteq Intake
      BY <1>5 DEF Arrive, TypeOK
    <3>2. Cardinality(held') <= Cardinality(Intake) /\ Cardinality(Intake) \in Nat
      BY <3>1, WidthAssumption, FS_Subset, FS_CardinalityType
    <3>. QED
      BY <1>1, <2>1, <3>2
  <2>3. n + Count(pc # "idle") + 1 < U32
    BY <1>1, <2>2, WidthAssumption, FS_CardinalityType DEF Count
  <2>4. pc' = pc
    BY <1>5 DEF Arrive, local
  <2>5. queue_depth' = n + Count(pc # "idle") + 1
    BY <1>1, <1>5, <2>3 DEF Arrive, IncQueue, Inc, QueueBalance, Count
  <2>. QED
    BY <1>1, <2>1, <2>4, <2>5 DEF QueueBalance, Count
<1>6. ASSUME NEW p \in Intake, Depart(p)
      PROVE  QueueBalance'
  <2>1. Cardinality(held') = n - 1
    BY <1>1, <1>6, FS_RemoveElement DEF Depart
  <2>2. n # 0
    BY <1>1, <1>6, FS_EmptySet DEF Depart
  <2>3. pc' = pc
    BY <1>6 DEF Depart, local
  <2>. QED
    BY <1>1, <1>6, <2>1, <2>2, <2>3 DEF Depart, DecQueue, Dec, QueueBalance, Count
<1>7. ASSUME \/ Tick \/ ChangeRegistry \/ UNCHANGED vars
             \/ \E s \in Supervisor : SuperviseBreaker(s)
             \/ \E s \in Strategy \cup {None} : SetStrategy(s)
             \/ \E t \in FanTable : Reload(t)
      PROVE  QueueBalance'
  BY <1>7 DEF SuperviseBreaker, Tick, ChangeRegistry, SetStrategy, Reload, QueueBalance,
              pressure, local, others, vars
<1>. QED
  BY <1>2, <1>3, <1>4, <1>5, <1>6, <1>7 DEF Next, Dispatch, Step, Surroundings

\* The running request is counted once; an unwinding one stays counted.
LEMMA InflightStep ==
    ASSUME TypeOK, InflightBalance, [Next]_vars
    PROVE  InflightBalance'
<1>1. /\ panics \in Nat /\ panics + 1 < U32
      /\ U32 \in Nat
  BY WidthAssumption, SizesAssumption DEF TypeOK
<1>2. ASSUME Route
      PROVE  InflightBalance'
  BY <1>1, <1>2 DEF Route, Goto, IncInflight, Inc, InflightBalance, Running, Count
<1>3. ASSUME Execute
      PROVE  InflightBalance'
  BY <1>3 DEF Execute, Goto, InflightBalance, Running, Count, pressure
<1>4. ASSUME Unwind
      PROVE  InflightBalance'
  BY <1>1, <1>4 DEF Unwind, Goto, InflightBalance, Running, Count, pressure
<1>5. ASSUME Settle
      PROVE  InflightBalance'
  BY <1>1, <1>5 DEF Settle, Goto, DecInflight, Dec, InflightBalance, Running, Count, runs
<1>6. CASE UNCHANGED <<in_flight, panics>> /\ ~Running /\ ~Running'
  BY <1>6 DEF InflightBalance, Count
<1>7. CASE UNCHANGED <<in_flight, panics, pc>>
  BY <1>7 DEF InflightBalance, Running, Count
<1>8. ASSUME NEW r \in Request, Enter(r)
      PROVE  InflightBalance'
  BY <1>6, <1>8 DEF Enter, Goto, Running, runs
<1>9. ASSUME CheckBreaker \/ Claim \/ Gate \/ Resolve \/ Succeed \/ Return
      PROVE  InflightBalance'
  BY <1>6, <1>9 DEF CheckBreaker, Claim, Gate, Resolve, Succeed, Return, Goto, Answer,
                    Running, pressure, runs
<1>10. ASSUME Surroundings \/ UNCHANGED vars
       PROVE  InflightBalance'
  BY <1>7, <1>10 DEF Surroundings, Arrive, Depart, SuperviseBreaker, Tick, ChangeRegistry,
              SetStrategy, Reload, pressure, local, runs, vars
<1>. QED
  BY <1>2, <1>3, <1>4, <1>5, <1>8, <1>9, <1>10 DEF Next, Dispatch, Step

\* A step that accepts no key may only use up the claim it has.
LEMMA AccountStep ==
    ASSUME TypeOK, GuardInv, ClaimsAccounted, [Next]_vars
    PROVE  ClaimsAccounted'
<1>0. /\ \A k \in Qpid : executed[k] \in Nat /\ accepts[k] \in Nat
      /\ executed \in [Qpid -> Nat]
  BY MaxAcceptsAssumption DEF TypeOK, GuardTypeOK
<1>1. ASSUME NEW q \in Qpid, Fresh(q), pc = "claim", key' = q, pc' = "gate",
             UNCHANGED executed
      PROVE  ClaimsAccounted'
  <2>1. /\ accepts'[q] = accepts[q] + 1
        /\ \A k \in Qpid \ {q} : accepts'[k] = accepts[k]
    BY <1>1, AcceptedAfter DEF GuardInv
  <2>2. \A k \in Qpid : executed[k] <= accepts[k]
    BY <1>0, <1>1 DEF ClaimsAccounted, Waiting, Count
  <2>. QED
    BY <1>0, <1>1, <2>1, <2>2 DEF ClaimsAccounted, Waiting, Count
<1>2. ASSUME Ran, pc = "execute", key \in Qpid, pc' \in {"settle", "return"},
             UNCHANGED guard
      PROVE  ClaimsAccounted'
  <2>1. /\ executed'[key] = executed[key] + 1
        /\ \A k \in Qpid \ {key} : executed'[k] = executed[k]
    BY <1>0, <1>2 DEF Ran
  <2>. QED
    BY <1>0, <1>2, <2>1 DEF ClaimsAccounted, Waiting, Count, guard
<1>3. CASE /\ UNCHANGED <<guard, executed>>
           /\ Waiting' => Waiting /\ key' = key
  BY <1>0, <1>3 DEF ClaimsAccounted, Count, guard
<1>4. ASSUME Execute \/ Unwind
      PROVE  ClaimsAccounted'
  BY <1>2, <1>4 DEF Execute, Unwind, Goto, TypeOK, Waiting
<1>5. ASSUME Claim, UNCHANGED guard
      PROVE  ClaimsAccounted'
  <2>1. ~Fresh(key')
    <3>. SUFFICES ASSUME Fresh(key')
                  PROVE  FALSE
      OBVIOUS
    <3>1. key' \in Qpid
      BY <1>5, RequestAssumption
         DEF Claim, KeyUnder, StrategyFor, Lookup, TypeOK, TableTypeOK
    <3>2. accepts'[key'] = accepts[key'] + 1
      BY <3>1, <1>0 DEF Fresh, GuardTypeOK, TypeOK
    <3>. QED
      BY <1>0, <1>5, <3>1, <3>2 DEF guard
  <2>. QED
    BY <1>3, <1>5, <2>1 DEF Claim, Answer, Goto, Waiting, runs
<1>6. ASSUME \/ \E r \in Request : Enter(r)
             \/ CheckBreaker \/ Gate \/ Resolve \/ Route \/ Settle \/ Succeed \/ Return
      PROVE  ClaimsAccounted'
  BY <1>3, <1>6 DEF Enter, CheckBreaker, Gate, Resolve, Route, Settle, Succeed, Return,
                    Goto, Answer, Waiting, runs
<1>7. ASSUME Surroundings \/ UNCHANGED vars
      PROVE  ClaimsAccounted'
  BY <1>3, <1>7 DEF Surroundings, Arrive, Depart, SuperviseBreaker, Tick, ChangeRegistry,
              SetStrategy, Reload, Waiting, local, runs, vars
<1>8. CASE UNCHANGED guard
  BY <1>4, <1>5, <1>6, <1>7, <1>8 DEF Next, Dispatch, Step
<1>. QED
  BY <1>1, <1>8, GuardStep

\* A refusal after the claim leaves an acceptance that has not run; a run is
\* never taken back.
LEMMA AnswerStep ==
    ASSUME TypeOK, GuardInv, ClaimsAccounted, AnswerInv, [Next]_vars
    PROVE  AnswerInv'
<1>0. /\ \A k \in Qpid : executed[k] \in Nat /\ accepts[k] \in Nat
      /\ executed \in [Qpid -> Nat]
  BY MaxAcceptsAssumption DEF TypeOK, GuardTypeOK
<1>1. ASSUME NEW r \in Request, Enter(r)
      PROVE  AnswerInv'
  BY <1>1 DEF Enter, Goto, AnswerInv, AnswerTruthful
<1>2. ASSUME CheckBreaker
      PROVE  AnswerInv'
  BY <1>2 DEF CheckBreaker, Answer, Goto, AnswerInv, AnswerTruthful
<1>3. ASSUME Claim
      PROVE  AnswerInv'
  BY <1>3 DEF Claim, Answer, Goto, AnswerInv, AnswerTruthful
<1>4. ASSUME Gate \/ Resolve
      PROVE  AnswerInv'
  <2>1. key \in Qpid /\ Waiting
    BY <1>4 DEF Gate, Resolve, Answer, Goto, Waiting, TypeOK
  <2>2. executed[key] < accepts[key]
    BY <1>0, <2>1 DEF ClaimsAccounted, Count
  <2>3. UNCHANGED <<key, executed, accepts>>
    BY <1>4 DEF Gate, Resolve, guard, runs
  <2>. QED
    BY <1>4, <2>1, <2>2, <2>3
       DEF Gate, Resolve, Answer, Goto, AnswerInv, AnswerTruthful
<1>5. ASSUME Route
      PROVE  AnswerInv'
  BY <1>5 DEF Route, Goto, AnswerInv, AnswerTruthful
<1>6. ASSUME Execute \/ Unwind
      PROVE  AnswerInv'
  <2>1. key \in Qpid
    BY <1>6 DEF Execute, Unwind, Goto, Waiting, TypeOK
  <2>2. executed'[key'] > 0
    BY <1>0, <1>6, <2>1 DEF Execute, Unwind, Ran
  <2>. QED
    BY <1>6, <2>2, NoneAssumption
       DEF Execute, Unwind, Goto, AnswerInv, AnswerTruthful, Status
<1>7. ASSUME Settle \/ Succeed
      PROVE  AnswerInv'
  BY <1>7
     DEF Settle, Succeed, Answer, Goto, AnswerInv, AnswerTruthful, runs, TypeOK, Running
<1>8. ASSUME Return
      PROVE  AnswerInv'
  BY <1>8 DEF Return, Goto, AnswerInv, AnswerTruthful
<1>9. ASSUME Surroundings \/ UNCHANGED vars
      PROVE  AnswerInv'
  <2>1. UNCHANGED <<guard, local, runs>>
    BY <1>9 DEF Surroundings, Arrive, Depart, SuperviseBreaker, Tick, ChangeRegistry,
                SetStrategy, Reload, vars
  <2>. QED
    BY <2>1 DEF guard, local, runs, AnswerInv, AnswerTruthful
<1>. QED
  BY <1>1, <1>2, <1>3, <1>4, <1>5, <1>6, <1>7, <1>8, <1>9 DEF Next, Dispatch, Step

\* One part in eight of a new interval keeps the average below what bounds both.
LEMMA AverageBounded ==
    ASSUME NEW old \in Nat, NEW new \in Nat, NEW d \in Nat, old <= d, new <= d
    PROVE  Average(old, new) <= d
<1>1. MaxU64 \in Nat
  BY ClockAssumption
<1>2. Saturate(7 * old) \in Nat /\ Saturate(7 * old) <= 7 * old
  BY <1>1 DEF Saturate
<1>3. /\ Saturate(Saturate(7 * old) + new) \in Nat
      /\ Saturate(Saturate(7 * old) + new) <= 8 * d
  BY <1>1, <1>2 DEF Saturate
<1>4. \A n \in Nat : n <= 8 * d => n \div 8 <= d
  OBVIOUS
<1>. QED
  BY <1>3, <1>4 DEF Average

\* What is measured and averaged are intervals between two readings.
LEMMA LatencyStep ==
    ASSUME TypeOK, LatencyInv, [Next]_vars
    PROVE  LatencyInv'
<1>0. /\ MaxU64 \in Nat /\ Instants \subseteq Nat /\ now \in Instants
      /\ avg_latency_ns \in Nat /\ stamp \in Nat
  BY ClockAssumption DEF TypeOK, PressureTypeOK
<1>1. CASE UNCHANGED avg_latency_ns /\ pc' \notin {"execute", "settle"}
  BY <1>1 DEF LatencyInv, LatencyBounded
<1>2. ASSUME Route
      PROVE  LatencyInv'
  BY <1>0, <1>2 DEF Route, Goto, latency, LatencyInv, LatencyBounded
<1>3. ASSUME Execute
      PROVE  LatencyInv'
  <2>1. stamp \in Instants
    BY <1>3 DEF Execute, Goto, LatencyInv
  <2>2. Shown(IF now >= stamp THEN now - stamp ELSE 0)
    BY <1>0, <2>1 DEF Shown
  <2>3. Shown(stamp')
    BY <1>3, <2>2 DEF Execute, SaturatingSub
  <2>. QED
    BY <1>3, <2>3 DEF Execute, Goto, latency, LatencyInv, LatencyBounded
<1>4. ASSUME Settle
      PROVE  LatencyInv'
  <2>1. PICK f \in Instants, l \in Instants : avg_latency_ns <= l - f
    BY DEF LatencyInv, LatencyBounded
  <2>2. PICK g \in Instants, m \in Instants : stamp <= m - g
    BY <1>4 DEF Settle, Goto, LatencyInv, Shown
  <2>3. PICK i \in Instants, j \in Instants : avg_latency_ns <= j - i /\ stamp <= j - i
    <3>1. CASE l - f <= m - g
      BY <1>0, <2>1, <2>2, <3>1
    <3>2. CASE m - g <= l - f
      BY <1>0, <2>1, <2>2, <3>2
    <3>. QED
      BY <1>0, <3>1, <3>2
  <2>4. j - i \in Nat
    BY <1>0, <2>3
  <2>5. Average(avg_latency_ns, stamp) <= j - i
    BY <1>0, <2>3, <2>4, AverageBounded
  <2>. QED
    BY <1>4, <2>5 DEF Settle, UpdateLatency, Goto, LatencyInv, LatencyBounded
<1>5. ASSUME Surroundings \/ UNCHANGED vars
      PROVE  LatencyInv'
  <2>1. UNCHANGED <<avg_latency_ns, pc, stamp>>
    BY <1>5 DEF Surroundings, Arrive, Depart, SuperviseBreaker, Tick, ChangeRegistry,
                SetStrategy, Reload, latency, local, vars
  <2>. QED
    BY <2>1 DEF LatencyInv, LatencyBounded, Shown
<1>6. ASSUME \/ \E r \in Request : Enter(r)
             \/ CheckBreaker \/ Claim \/ Gate \/ Resolve \/ Unwind \/ Succeed \/ Return
      PROVE  LatencyInv'
  BY <1>1, <1>6 DEF Enter, CheckBreaker, Claim, Gate, Resolve, Unwind, Succeed, Return,
                    Goto, Answer, latency
<1>. QED
  BY <1>2, <1>3, <1>4, <1>5, <1>6 DEF Next, Dispatch, Step

\* Nothing runs, nothing is counted, nothing is claimed at the start.
LEMMA InitInv ==
    ASSUME Init
    PROVE  IInv
<1>1. seen = {} /\ IsFiniteSet({}) /\ Cardinality({}) = 0
  BY FS_EmptySet DEF Init, GuardInit
<1>2. GuardTypeOK
  BY <1>1, MaxEntriesAssumption, MaxAcceptsAssumption DEF Init, GuardInit, GuardTypeOK
<1>3. Accepted = {}
  BY DEF Init, GuardInit, Accepted
<1>4. GuardInv
  BY <1>1, <1>2, <1>3 DEF GuardInv, Forgotten, Evicted, RememberedOnce
<1>5. PressureTypeOK /\ TableTypeOK
  BY SizesAssumption, ClockAssumption
     DEF Init, PressureInit, PressureTypeOK, TableInit, TableTypeOK
<1>6. TypeOK
  BY <1>2, <1>5, ClockAssumption, TableAssumption, SupervisionAssumption, WidthAssumption
     DEF Init, NoDispatch, TypeOK, Pcs, Waiting, Running, SupervisionInit,
         SupervisionTypeOK, Watching
<1>7. QueueBalance /\ InflightBalance
  BY <1>1 DEF Init, PressureInit, NoDispatch, QueueBalance, InflightBalance, Running, Count
<1>8. ClaimsAccounted
  BY DEF Init, GuardInit, NoDispatch, ClaimsAccounted, Waiting, Count
<1>9. AnswerInv
  BY DEF Init, NoDispatch, AnswerInv, AnswerTruthful
<1>10. LatencyInv
  BY ClockAssumption
     DEF Init, PressureInit, NoDispatch, LatencyInv, LatencyBounded
<1>. QED
  BY <1>4, <1>6, <1>7, <1>8, <1>9, <1>10 DEF IInv

-----------------------------------------------------------------------------

\* The invariant of the dispatch holds in every reachable state.
THEOREM Invariance == Spec => []IInv
<1>1. Init => IInv
  BY InitInv
<1>2. IInv /\ [Next]_vars => IInv'
  BY TypeStep, GuardInvStep, QueueStep, InflightStep, AccountStep,
     AnswerStep, LatencyStep DEF IInv
<1>. QED
  BY <1>1, <1>2, PTL DEF Spec

\* The dispatch keeps its types, and its counters their width, whatever the
\* other threads do.
THEOREM TypeCorrect == Spec => []TypeOK
<1>1. IInv => TypeOK
  BY DEF IInv
<1>. QED
  BY <1>1, Invariance, PTL

\* Every exit gives the place in the queue back, for any number of intake
\* threads.
THEOREM QueueBalanced == Spec => []QueueBalance
<1>1. IInv => QueueBalance
  BY DEF IInv
<1>. QED
  BY <1>1, Invariance, PTL

\* in_flight is the running request and the executions that unwound.
THEOREM InflightBalanced == Spec => []InflightBalance
<1>1. IInv => InflightBalance
  BY DEF IInv
<1>. QED
  BY <1>1, Invariance, PTL

\* The dispatch uses the guard as the guard is specified, so what is proved of
\* the guard alone (RemembersLargest, ReplayOnlyBelowFloor) holds in it.
THEOREM ImplementsGuard == Spec => GuardSpec
<1>1. Init => GuardInit
  BY DEF Init
<1>2. IInv /\ [Next]_vars => [GuardNext]_guard
  BY GuardStep DEF IInv, GuardNext, CheckQpid
<1>. QED
  BY <1>1, <1>2, Invariance, PTL DEF Spec, GuardSpec

\* No request runs twice under a key the guard remembers, for every size of
\* the guard, every set of keys, and strategies that change between requests.
THEOREM RunsAtMostOnce == Spec => []AtMostOnce
<1>1. IInv => AtMostOnce
  <2>. SUFFICES ASSUME IInv, NEW k \in seen
                PROVE  executed[k] <= 1
    BY DEF AtMostOnce
  <2>1. k \in Qpid /\ executed[k] \in Nat /\ accepts[k] = 1
    BY DEF IInv, GuardInv, GuardTypeOK, RememberedOnce, TypeOK
  <2>2. executed[k] + Count(key = k /\ Waiting) <= accepts[k]
    BY <2>1 DEF IInv, ClaimsAccounted
  <2>. QED
    BY <2>1, <2>2 DEF Count
<1>. QED
  BY <1>1, Invariance, PTL

\* The answer agrees with what became of the key, whatever the table, the
\* strategies and the pressure do meanwhile.
THEOREM AnswersTruthful == Spec => []AnswerTruthful
<1>1. IInv => AnswerTruthful
  BY DEF IInv, AnswerInv
<1>. QED
  BY <1>1, Invariance, PTL

\* The average stays below the longest interval of the clock, for every clock
\* and also when it is set back.
THEOREM LatencyStaysBounded == Spec => []LatencyBounded
<1>1. IInv => LatencyBounded
  BY DEF IInv, LatencyInv
<1>. QED
  BY <1>1, Invariance, PTL

-----------------------------------------------------------------------------
(* The refinement of DispatchLedger.  The mapping is Standing; each step   *)
(* of the dispatch is a claim, a run, a refusal or a stutter.              *)

\* What the ledger shows of the orchestrator's state.
Book == [k \in Qpid |-> Standing(k)]

\* The ledger counts its keys as the guard does.
LEMMA SameCardinality == \A S : Ledger!Cardinality(S) = Cardinality(S)
BY DEF Ledger!Cardinality, Cardinality

\* Between two claims nothing is pending and what is settled is what the guard
\* remembers.
LEMMA NothingPending ==
    ASSUME TypeOK, ~Waiting
    PROVE  /\ Ledger!Free = Qpid \ seen
           /\ Ledger!Pending = {}
           /\ Ledger!Settled = seen
<1>1. seen \subseteq Qpid
  BY DEF TypeOK, GuardTypeOK
<1>2. \A k \in Qpid : Standing(k) = IF k \in seen
                                    THEN IF executed[k] > 0 THEN "ran" ELSE "refused"
                                    ELSE "free"
  BY DEF Standing
<1>. QED
  BY <1>1, <1>2 DEF Ledger!Free, Ledger!Pending, Ledger!Settled

\* Accepting a key is one of the three claims of the ledger, as the guard has
\* room, drops its smallest id, or drops the new one.
LEMMA ClaimMaps ==
    ASSUME TypeOK, GuardInv, pc = "claim", pc' = "gate", UNCHANGED executed,
           NEW q \in Qpid, Fresh(q), key' = q
    PROVE  Ledger!Next
<1>1. /\ ~Waiting /\ Waiting'
      /\ seen \subseteq Nat /\ seen \subseteq Qpid /\ q \in Nat /\ q \notin seen
      /\ IsFiniteSet(seen) /\ Cardinality(seen) \in Nat /\ MaxEntries \in Nat
      /\ Cardinality(seen) <= MaxEntries
      /\ seen' = Remember(seen, q)
  BY QpidAssumption, MaxEntriesAssumption, FS_CardinalityType
     DEF Waiting, TypeOK, GuardTypeOK, Fresh
<1>2. /\ Ledger!Free = Qpid \ seen
      /\ Ledger!Pending = {}
      /\ Ledger!Settled = seen
  BY <1>1, NothingPending
<1>3. \A k \in Qpid : Standing(k) = IF k \in seen
                                    THEN IF executed[k] > 0 THEN "ran" ELSE "refused"
                                    ELSE "free"
  BY <1>1 DEF Standing
<1>4. \A k \in Qpid :
          Standing(k)' = IF k = q THEN IF k \in seen' THEN "claimed" ELSE "passing"
                         ELSE IF k \in seen'
                              THEN IF executed[k] > 0 THEN "ran" ELSE "refused"
                         ELSE "free"
  BY <1>1 DEF Standing
<1>5. Cardinality(seen \cup {q}) = Cardinality(seen) + 1
  BY <1>1, FS_AddElement
<1>6. \/ seen' = seen \cup {q} /\ Cardinality(seen') <= MaxEntries
      \/ \E m \in seen \cup {q} : /\ seen' = (seen \cup {q}) \ {m}
                                  /\ \A y \in seen' : m < y
                                  /\ Cardinality(seen) = MaxEntries
  BY <1>1, RememberCases
<1>7. CASE seen' = seen \cup {q} /\ Cardinality(seen') <= MaxEntries
  <2>1. Cardinality(seen) < MaxEntries
    BY <1>1, <1>5, <1>7
  <2>2. Book' = [Book EXCEPT ![q] = "claimed"]
    BY <1>3, <1>4, <1>7 DEF Book
  <2>3. Ledger!Claim(q)
    BY <1>1, <1>2, <2>1, <2>2, SameCardinality DEF Ledger!Claim, Book
  <2>. QED
    BY <2>3 DEF Ledger!Next
<1>8. ASSUME NEW m \in seen, seen' = (seen \cup {q}) \ {m}, \A y \in seen' : m < y,
             Cardinality(seen) = MaxEntries
      PROVE  Ledger!Next
  <2>1. m < q /\ \A s \in seen : m <= s
    BY <1>1, <1>8
  <2>2. Book' = [Book EXCEPT ![q] = "claimed", ![m] = "free"]
    BY <1>1, <1>3, <1>4, <1>8 DEF Book
  <2>3. Ledger!ClaimForgetting(q, m)
    BY <1>1, <1>2, <1>8, <2>1, <2>2, SameCardinality DEF Ledger!ClaimForgetting, Book
  <2>. QED
    BY <1>1, <2>3 DEF Ledger!Next
<1>9. CASE seen' = seen /\ (\A y \in seen : q < y) /\ Cardinality(seen) = MaxEntries
  <2>1. Book' = [Book EXCEPT ![q] = "passing"]
    BY <1>1, <1>3, <1>4, <1>9 DEF Book
  <2>2. Ledger!ClaimPassing(q)
    BY <1>1, <1>2, <1>9, <2>1, SameCardinality DEF Ledger!ClaimPassing, Book
  <2>. QED
    BY <2>2 DEF Ledger!Next
<1>. QED
  BY <1>1, <1>6, <1>7, <1>8, <1>9

\* The claim ends with a run: the key has run if the guard holds it, and is as
\* good as new if not.
LEMMA RunMaps ==
    ASSUME TypeOK, Execute \/ Unwind
    PROVE  Ledger!Next
<1>1. /\ key \in Qpid /\ Waiting /\ ~Waiting' /\ UNCHANGED <<seen, key>>
      /\ \A k \in Qpid : executed'[k] = IF k = key THEN executed[k] + 1 ELSE executed[k]
      /\ executed[key] \in Nat
  BY DEF Execute, Unwind, Ran, Goto, Waiting, guard, TypeOK
<1>2. /\ Standing(key) = IF key \in seen THEN "claimed" ELSE "passing"
      /\ Standing(key)' = IF key \in seen THEN "ran" ELSE "free"
      /\ \A k \in Qpid \ {key} : Standing(k)' = Standing(k)
  BY <1>1 DEF Standing
<1>3. Book' = [Book EXCEPT ![key] = IF key \in seen THEN "ran" ELSE "free"]
  BY <1>1, <1>2 DEF Book
<1>4. PICK k \in Qpid : k = key
  BY <1>1
<1>5. Ledger!Run(k)
  BY <1>2, <1>3, <1>4 DEF Ledger!Run, Ledger!Settle, Book
<1>. QED
  BY <1>5 DEF Ledger!Next

\* A refusal after the claim: the key was accepted once and has not run.
LEMMA RefuseMaps ==
    ASSUME TypeOK, GuardInv, ClaimsAccounted, Gate \/ Resolve, pc' = "return"
    PROVE  Ledger!Next
<1>1. /\ key \in Qpid /\ Waiting /\ ~Waiting' /\ UNCHANGED <<seen, executed, key>>
      /\ executed[key] \in Nat
  BY DEF Gate, Resolve, Answer, Goto, Waiting, guard, runs, TypeOK
<1>2. key \in seen => executed[key] = 0
  <2>1. key \in seen => accepts[key] = 1
    BY DEF GuardInv, RememberedOnce
  <2>. QED
    BY <1>1, <2>1 DEF ClaimsAccounted, Count
<1>3. /\ Standing(key) = IF key \in seen THEN "claimed" ELSE "passing"
      /\ Standing(key)' = IF key \in seen THEN "refused" ELSE "free"
      /\ \A k \in Qpid \ {key} : Standing(k)' = Standing(k)
  BY <1>1, <1>2 DEF Standing
<1>4. Book' = [Book EXCEPT ![key] = IF key \in seen THEN "refused" ELSE "free"]
  BY <1>1, <1>3 DEF Book
<1>5. PICK k \in Qpid : k = key
  BY <1>1
<1>6. Ledger!Refuse(k)
  BY <1>3, <1>4, <1>5 DEF Ledger!Refuse, Ledger!Settle, Book
<1>. QED
  BY <1>6 DEF Ledger!Next

\* A step that neither claims nor settles shows nothing.
LEMMA Stutters ==
    ASSUME UNCHANGED <<seen, executed>>,
           \/ ~Waiting /\ ~Waiting'
           \/ Waiting /\ Waiting' /\ key' = key
    PROVE  UNCHANGED Book
<1>1. \A k \in Qpid : Standing(k)' = Standing(k)
  BY DEF Standing
<1>. QED
  BY <1>1 DEF Book

\* Every step of the dispatch and of its surroundings is one of the ledger's.
LEMMA LedgerStep ==
    ASSUME IInv, [Next]_vars
    PROVE  Ledger!Next \/ UNCHANGED Book
<1>1. TypeOK /\ GuardInv /\ ClaimsAccounted
  BY DEF IInv
<1>2. ASSUME \/ \E r \in Request : Enter(r)
             \/ CheckBreaker \/ Route \/ Settle \/ Succeed \/ Return
      PROVE  UNCHANGED Book
  <2>1. /\ UNCHANGED <<seen, executed>>
        /\ \/ ~Waiting /\ ~Waiting'
           \/ Waiting /\ Waiting' /\ key' = key
    BY <1>2 DEF Enter, CheckBreaker, Route, Settle, Succeed, Return, Goto, Answer,
                Waiting, guard, runs
  <2>. QED
    BY <2>1, Stutters
<1>3. ASSUME Claim
      PROVE  Ledger!Next \/ UNCHANGED Book
  <2>1. key' \in Qpid
    BY <1>1, <1>3, RequestAssumption
       DEF Claim, KeyUnder, StrategyFor, Lookup, TypeOK, TableTypeOK
  <2>2. pc = "claim" /\ UNCHANGED executed
    BY <1>3 DEF Claim, runs
  <2>3. CASE Fresh(key') /\ pc' = "gate"
    <3>. DEFINE q == key'
    <3>1. q \in Qpid /\ Fresh(q) /\ key' = q
      BY <2>1, <2>3
    <3>. HIDE DEF q
    <3>. QED
      BY <1>1, <2>2, <2>3, <3>1, ClaimMaps
  <2>4. CASE Duplicate(key') /\ pc' = "return"
    BY <2>2, <2>4, Stutters DEF Duplicate, guard, Waiting
  <2>. QED
    BY <1>3, <2>3, <2>4 DEF Claim, Goto, Answer
<1>4. ASSUME Gate \/ Resolve
      PROVE  Ledger!Next \/ UNCHANGED Book
  <2>1. CASE pc' = "return"
    BY <1>1, <1>4, <2>1, RefuseMaps
  <2>2. CASE pc' # "return"
    <3>1. /\ UNCHANGED <<seen, executed>>
          /\ Waiting /\ Waiting' /\ key' = key
      BY <1>4, <2>2 DEF Gate, Resolve, Goto, Answer, Waiting, guard, runs
    <3>. QED
      BY <3>1, Stutters
  <2>. QED
    BY <2>1, <2>2
<1>5. ASSUME Execute \/ Unwind
      PROVE  Ledger!Next
  BY <1>1, <1>5, RunMaps
<1>6. ASSUME Surroundings \/ UNCHANGED vars
      PROVE  UNCHANGED Book
  <2>1. UNCHANGED <<seen, executed, pc, key>>
    BY <1>6 DEF Surroundings, Arrive, Depart, SuperviseBreaker, Tick, ChangeRegistry,
                SetStrategy, Reload, guard, local, runs, vars
  <2>. QED
    BY <2>1, Stutters DEF Waiting
<1>. QED
  BY <1>2, <1>3, <1>4, <1>5, <1>6 DEF Next, Dispatch, Step

-----------------------------------------------------------------------------

\* The pipeline implements the ledger: claims are exclusive, settled once and
\* final until the guard forgets the key.
THEOREM ImplementsLedger == Spec => LedgerSpec
<1>1. Init => Ledger!Init
  BY DEF Init, GuardInit, NoDispatch, Ledger!Init, Standing, Waiting
<1>2. IInv /\ [Next]_vars => [Ledger!Next]_([k \in Qpid |-> Standing(k)])
  BY LedgerStep DEF Book
<1>. QED
  BY <1>1, <1>2, Invariance, PTL DEF Spec, LedgerSpec, Ledger!Spec

=============================================================================
