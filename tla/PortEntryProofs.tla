-------------------------- MODULE PortEntryProofs --------------------------
(***************************************************************************)
(* Proofs about PortEntry, for every number of tasks and supervisors and   *)
(* every size of the queue.                                                *)
(***************************************************************************)
EXTENDS PortEntry, FiniteSetTheorems, TLAPS

\* The tasks that hold a place in the queue.
Present == {t \in Task : pc[t] # "idle"}

\* The tasks let through, or about to be, on the load they found.
Passing == Admitted \cup {t \in Task : pc[t] = "inflight" /\ 10 * load[t] <= 9 * MaxQueue}

\* A deadline is stored from a reading of the clock, which is in the past.
ReadingsPast == \A s \in Supervisor : supervisor[s].at <= now

IInv == /\ TypeOK
        /\ queue_depth = Cardinality(Present)
        /\ 10 * Cardinality(Passing) <= 9 * MaxQueue
        /\ ReadingsPast
        /\ DeadlineBounded

-----------------------------------------------------------------------------

\* Sets of tasks are finite and smaller than the counters' modulus.
LEMMA TaskSets ==
    ASSUME NEW S, S \subseteq Task
    PROVE  IsFiniteSet(S) /\ Cardinality(S) \in Nat /\ Cardinality(S) < U32
<1>1. IsFiniteSet(S) /\ Cardinality(S) <= Cardinality(Task)
  BY TaskAssumption, FS_Subset
<1>. QED
  BY <1>1, TaskAssumption, SizesAssumption, FS_CardinalityType

\* A step of one task moves at most that task in or out of the queue.
LEMMA PresentAfter ==
    ASSUME TypeOK, queue_depth = Cardinality(Present), NEW t \in Task,
           NEW from \in Pcs, NEW to \in Pcs, Goto(t, from, to)
    PROVE  /\ (from = "idle" /\ to # "idle" /\ IncQueue)
                => queue_depth' = Cardinality(Present')
           /\ (from # "idle" /\ to = "idle" /\ DecQueue)
                => queue_depth' = Cardinality(Present')
           /\ (from # "idle" /\ to # "idle" /\ UNCHANGED queue_depth)
                => queue_depth' = Cardinality(Present')
<1>1. /\ IsFiniteSet(Present) /\ IsFiniteSet(Present')
      /\ Cardinality(Present) \in Nat /\ Cardinality(Present') \in Nat
      /\ Cardinality(Present) < U32 /\ Cardinality(Present') < U32
  BY TaskSets DEF Present
<1>2. pc[t] = from /\ pc'[t] = to /\ \A u \in Task \ {t} : pc'[u] = pc[u]
  BY DEF Goto, TypeOK
<1>3. ASSUME from = "idle", to # "idle", IncQueue
      PROVE  queue_depth' = Cardinality(Present')
  <2>1. Present' = Present \cup {t} /\ t \notin Present
    BY <1>2, <1>3 DEF Present
  <2>2. Cardinality(Present') = Cardinality(Present) + 1
    BY <1>1, <2>1, FS_AddElement
  <2>. QED
    BY <1>1, <1>3, <2>2, SizesAssumption DEF IncQueue, Inc
<1>4. ASSUME from # "idle", to = "idle", DecQueue
      PROVE  queue_depth' = Cardinality(Present')
  <2>1. Present' = Present \ {t} /\ t \in Present
    BY <1>2, <1>4 DEF Present
  <2>2. Cardinality(Present') = Cardinality(Present) - 1 /\ Cardinality(Present) # 0
    BY <1>1, <2>1, FS_RemoveElement, FS_EmptySet
  <2>. QED
    BY <1>1, <1>4, <2>2, SizesAssumption DEF DecQueue, Dec
<1>5. ASSUME from # "idle", to # "idle", UNCHANGED queue_depth
      PROVE  queue_depth' = Cardinality(Present')
  <2>1. Present' = Present
    BY <1>2, <1>5 DEF Present
  <2>. QED
    BY <1>5, <2>1
<1>. QED
  BY <1>3, <1>4, <1>5

\* The bound survives a step that adds no task to those that pass.
LEMMA FewerPassing ==
    ASSUME 10 * Cardinality(Passing) <= 9 * MaxQueue, Passing' \subseteq Passing
    PROVE  10 * Cardinality(Passing') <= 9 * MaxQueue
<1>1. Passing \subseteq Task /\ Passing' \subseteq Task
  BY DEF Passing, Admitted
<1>2. Cardinality(Passing') <= Cardinality(Passing)
  BY <1>1, TaskSets, FS_Subset
<1>. QED
  BY <1>1, <1>2, TaskSets, SizesAssumption

\* A task that finds an acceptable load counted everyone who passes, and
\* itself.
LEMMA LoadCounts ==
    ASSUME TypeOK, queue_depth = Cardinality(Present),
           10 * Cardinality(Passing) <= 9 * MaxQueue,
           NEW t \in Task, LoadQueue(t)
    PROVE  10 * Cardinality(Passing') <= 9 * MaxQueue
<1>1. /\ pc[t] = "queue" /\ pc'[t] = "inflight" /\ load'[t] = queue_depth
      /\ \A u \in Task \ {t} : pc'[u] = pc[u] /\ load'[u] = load[u]
  BY DEF LoadQueue, Goto, TypeOK
<1>2. CASE 10 * queue_depth <= 9 * MaxQueue
  <2>1. Passing' \subseteq Present
    BY <1>1 DEF Passing, Admitted, Present
  <2>2. Cardinality(Passing') <= Cardinality(Present)
    BY <2>1, TaskSets, FS_Subset DEF Present
  <2>3. Cardinality(Passing') \in Nat /\ Cardinality(Present) \in Nat
    BY TaskSets DEF Passing, Admitted, Present
  <2>. QED
    BY <1>2, <2>2, <2>3, SizesAssumption
<1>3. CASE ~(10 * queue_depth <= 9 * MaxQueue)
  <2>1. Passing' \subseteq Passing
    BY <1>1, <1>3 DEF Passing, Admitted
  <2>. QED
    BY <2>1, FewerPassing
<1>. QED
  BY <1>2, <1>3

-----------------------------------------------------------------------------

\* Nothing of the breaker's promise moves when deadline, clock and
\* supervisors stand.
LEMMA BreakerStands ==
    ASSUME ReadingsPast, DeadlineBounded, UNCHANGED <<open_until, now, supervisor>>
    PROVE  ReadingsPast' /\ DeadlineBounded'
  BY DEF ReadingsPast, DeadlineBounded

\* What each step of a task keeps.
LEMMA TaskStep ==
    ASSUME IInv, NEW t \in Task, Enter(t) \/ Proceed(t)
    PROVE  IInv'
<1>. USE DEF IInv
<1>0. /\ UNCHANGED <<open_until, now, supervisor, failures>>
      /\ ReadingsPast' /\ DeadlineBounded'
  <2>1. UNCHANGED <<open_until, now, supervisor, failures>>
    BY DEF Enter, Proceed, ReadClock, CheckBreaker, LoadQueue, PassGate, Wake, Begin,
           Finish, Succeed, Leave, watch, breaker
  <2>. QED
    BY <2>1, BreakerStands
<1>1. TypeOK'
  <2>. USE <1>0, SizesAssumption, ClockAssumption
       DEF TypeOK, PressureTypeOK, SupervisionTypeOK, Goto, Pcs, pressure, latency, breaker
  <2>1. CASE Enter(t) \/ Leave(t)
    BY <2>1 DEF Enter, Leave, IncQueue, DecQueue, Inc, Dec
  <2>2. CASE ReadClock(t) \/ CheckBreaker(t) \/ Wake(t)
    BY <2>2 DEF ReadClock, CheckBreaker, Wake
  <2>3. CASE LoadQueue(t) \/ PassGate(t)
    BY <2>3 DEF LoadQueue, PassGate
  <2>4. CASE Begin(t) \/ Finish(t) \/ Succeed(t)
    BY <2>4 DEF Begin, Finish, Succeed, IncInflight, DecInflight, OnSuccess, Inc, Dec
  <2>. QED
    BY <2>1, <2>2, <2>3, <2>4 DEF Proceed
<1>2. queue_depth' = Cardinality(Present')
  <2>1. CASE Enter(t)
    BY <2>1, PresentAfter DEF Enter, Pcs
  <2>2. CASE Leave(t)
    BY <2>2, PresentAfter DEF Leave, Pcs
  <2>3. CASE Proceed(t) /\ ~Leave(t)
    <3>1. PICK from \in Pcs \ {"idle"}, to \in Pcs \ {"idle"} : Goto(t, from, to)
      BY <2>3 DEF Proceed, ReadClock, CheckBreaker, LoadQueue, PassGate, Wake, Begin,
                  Finish, Succeed, Pcs
    <3>2. UNCHANGED queue_depth
      BY <2>3 DEF Proceed, ReadClock, CheckBreaker, LoadQueue, PassGate, Wake, Begin,
                  Finish, Succeed, pressure
    <3>. QED
      BY <3>1, <3>2, PresentAfter
  <2>. QED
    BY <2>1, <2>2, <2>3
<1>3. 10 * Cardinality(Passing') <= 9 * MaxQueue
  <2>1. CASE LoadQueue(t)
    BY <2>1, LoadCounts
  <2>2. CASE PassGate(t)
    <3>1. /\ pc[t] = "inflight"
          /\ \A u \in Task \ {t} : pc'[u] = pc[u] /\ load'[u] = load[u]
          /\ 10 * load[t] > 9 * MaxQueue => pc'[t] = "leave"
          /\ pc'[t] # "inflight"
      BY <2>2 DEF PassGate, Goto, Decide, TypeOK
    <3>2. ~(10 * load[t] > 9 * MaxQueue) <=> 10 * load[t] <= 9 * MaxQueue
      BY SizesAssumption DEF TypeOK
    <3>3. Passing' \subseteq Passing
      BY <3>1, <3>2 DEF Passing, Admitted
    <3>. QED
      BY <3>3, FewerPassing
  <2>3. CASE (Enter(t) \/ Proceed(t)) /\ ~LoadQueue(t) /\ ~PassGate(t)
    <3>1. /\ load' = load /\ \A u \in Task \ {t} : pc'[u] = pc[u]
          /\ pc'[t] # "inflight"
          /\ t \in Admitted' => t \in Admitted
      BY <2>3 DEF Enter, Proceed, ReadClock, CheckBreaker, Wake, Begin, Finish, Succeed,
                  Leave, Goto, TypeOK, Admitted
    <3>2. Passing' \subseteq Passing
      BY <3>1 DEF Passing, Admitted
    <3>. QED
      BY <3>2, FewerPassing
  <2>. QED
    BY <2>1, <2>2, <2>3
<1>. QED
  BY <1>0, <1>1, <1>2, <1>3

\* A supervisor stores what it read, plus one duration, and no more.
LEMMA SupervisorStep ==
    ASSUME IInv, NEW s \in Supervisor, SuperviseBreaker(s)
    PROVE  IInv'
<1>. USE DEF IInv, SuperviseBreaker
<1>1. Present' = Present /\ Passing' = Passing /\ UNCHANGED <<queue_depth, now>>
  BY DEF Present, Passing, Admitted, tasks, pressure
<1>2. /\ now \in Nat /\ open_until \in Nat
      /\ supervisor[s].at \in Nat /\ supervisor[s].at <= now
  BY ClockAssumption DEF TypeOK, PressureTypeOK, SupervisionTypeOK, ReadingsPast
<1>3. TypeOK' /\ ReadingsPast' /\ DeadlineBounded'
  <2>. USE <1>2, SizesAssumption, ClockAssumption, SupervisionAssumption
       DEF TypeOK, PressureTypeOK, SupervisionTypeOK, ReadingsPast, DeadlineBounded,
           Becomes, pressure, latency, breaker, tasks
  <2>1. CASE ReportFailure(s)
    BY <2>1 DEF ReportFailure, OnFailure, Inc
  <2>2. CASE CheckThreshold(s)
    BY <2>2 DEF CheckThreshold
  <2>3. CASE ReadTripClock(s)
    BY <2>3 DEF ReadTripClock
  <2>4. CASE StoreTrip(s)
    BY <2>4 DEF StoreTrip, Trip, Saturate, Watching
  <2>. QED
    BY <2>1, <2>2, <2>3, <2>4 DEF Supervise
<1>. QED
  BY <1>1, <1>3

\* As time passes, deadlines only come nearer.
LEMMA TickStep ==
    ASSUME IInv, Tick
    PROVE  IInv'
<1>. USE DEF IInv, Tick
<1>1. Present' = Present /\ Passing' = Passing /\ UNCHANGED queue_depth
  BY DEF Present, Passing, Admitted, tasks, pressure
<1>2. TypeOK'
  BY DEF TypeOK, PressureTypeOK, SupervisionTypeOK, tasks, watch, pressure, latency, breaker
<1>3. now \in Nat /\ now' \in Nat /\ now' > now /\ UNCHANGED <<open_until, supervisor>>
  BY ClockAssumption DEF TypeOK, PressureTypeOK, breaker, watch
<1>4. ReadingsPast' /\ DeadlineBounded'
  BY <1>3, SupervisionAssumption, ClockAssumption
     DEF ReadingsPast, DeadlineBounded, TypeOK, PressureTypeOK, SupervisionTypeOK
<1>. QED
  BY <1>1, <1>2, <1>4

\* No one is in the queue at the start, and the breaker is closed.
LEMMA InitInv ==
    ASSUME Init
    PROVE  IInv
<1>1. TypeOK
  BY SizesAssumption, ClockAssumption, SupervisionAssumption
     DEF Init, PressureInit, SupervisionInit, Watching, TypeOK, PressureTypeOK,
         SupervisionTypeOK, Pcs
<1>2. Present = {} /\ Passing = {}
  BY DEF Init, Present, Passing, Admitted
<1>3. Cardinality({}) = 0
  BY FS_EmptySet
<1>4. ReadingsPast /\ DeadlineBounded
  BY ClockAssumption, SupervisionAssumption
     DEF Init, PressureInit, SupervisionInit, Watching, ReadingsPast, DeadlineBounded
<1>. QED
  BY <1>1, <1>2, <1>3, <1>4, SizesAssumption DEF IInv, Init, PressureInit

\* The invariant of the port holds in every reachable state.
THEOREM PortInvariance == Spec => []IInv
<1>1. Init => IInv
  BY InitInv
<1>2. IInv /\ [Next]_vars => IInv'
  <2>. SUFFICES ASSUME IInv, [Next]_vars
                PROVE  IInv'
    OBVIOUS
  <2>1. CASE UNCHANGED vars
    BY <2>1 DEF vars, IInv, TypeOK, PressureTypeOK, SupervisionTypeOK, Present, Passing,
                Admitted, ReadingsPast, DeadlineBounded, tasks, watch, pressure, latency,
                breaker
  <2>. QED
    BY <2>1, TaskStep, SupervisorStep, TickStep DEF Next
<1>. QED
  BY <1>1, <1>2, PTL DEF Spec

\* The port keeps its types, and the queue its width, for any number of tasks
\* below that width.
THEOREM PortTypeCorrect == Spec => []TypeOK
<1>1. IInv => TypeOK
  BY DEF IInv
<1>. QED
  BY <1>1, PortInvariance, PTL

\* Admission stays below the share of the queue at which gate rejects.
THEOREM AdmissionBounded == Spec => []AdmittedBounded
<1>1. IInv => AdmittedBounded
  <2>. SUFFICES ASSUME IInv
                PROVE  AdmittedBounded
    OBVIOUS
  <2>1. Admitted \subseteq Passing /\ Passing \subseteq Task
    BY DEF Passing, Admitted
  <2>2. Cardinality(Admitted) <= Cardinality(Passing)
    BY <2>1, TaskSets, FS_Subset
  <2>. QED
    BY <2>1, <2>2, TaskSets, SizesAssumption DEF IInv, AdmittedBounded
<1>. QED
  BY <1>1, PortInvariance, PTL

\* The breaker is open for at most one duration from now, however many
\* supervisors trip it on old readings.
THEOREM DeadlineNear == Spec => []DeadlineBounded
<1>1. IInv => DeadlineBounded
  BY DEF IInv
<1>. QED
  BY <1>1, PortInvariance, PTL

=============================================================================
