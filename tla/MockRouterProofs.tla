-------------------------- MODULE MockRouterProofs --------------------------
(***************************************************************************)
(* Proofs about MockRouter, for every set of FEMs, threads, chains and     *)
(* configurations.                                                         *)
(***************************************************************************)
EXTENDS MockRouter, SequenceTheorems, TLAPS

\* The count never exceeds the failures reported, an open circuit has earned
\* it, and so has the thread that is about to trip it.
Earned == /\ OpenEarned
          /\ \A f \in fems : failures[f] <= injected[f]
          /\ \A t \in Thread : pc[t] = "trip" => injected[At(t)] >= limits[At(t)].threshold

\* The circuit of a call under way was closed to it unless it was tripped since.
Admitted == \A t \in Thread : pc[t] \in {"execute", "reset"} =>
                t \in late \/ ~IsOpen(At(t), epoch[t])

IInv == TypeOK /\ Earned /\ Admitted

\* A call that is under way has no answer yet.
ChainInv == /\ ChainInOrder
            /\ \A t \in Thread : pc[t] # "idle" => answer[t] = "none"

-----------------------------------------------------------------------------

\* The types are kept by every step.
LEMMA TypeStep == TypeOK /\ [Next]_vars => TypeOK'
<1>. USE DEF TypeOK, Idle, Goto, Return, local, circuits
<1>1. ASSUME TypeOK, NEW c \in Config, Configure(c)
      PROVE  TypeOK'
  BY <1>1 DEF Configure, HopLeft, At
<1>2. ASSUME TypeOK, NEW f \in Fem, RegisterFem(f)
      PROVE  TypeOK'
  BY <1>2 DEF RegisterFem, HopLeft, At
<1>3. ASSUME TypeOK, NEW t \in Thread, NEW c \in Chain, NEW e \in Epoch, CallChain(t, c, e)
      PROVE  TypeOK'
  <2>1. HopLeft'
    BY <1>3 DEF CallChain, HopLeft, At
  <2>. QED
    BY <1>3, <2>1, RouterAssumption DEF CallChain
<1>4. ASSUME TypeOK, NEW t \in Thread, Check(t)
      PROVE  TypeOK'
  <2>1. pc' \in [Thread -> {"idle", "check", "execute", "reset", "trip"}]
    BY <1>4 DEF Check
  <2>2. answer' \in [Thread -> {"none", "Ok", "FemNotFound", "CircuitOpen", "Panicked"}]
    BY <1>4 DEF Check
  <2>3. late' \subseteq Thread
    BY <1>4 DEF Check
  <2>4. epoch' = epoch \/ epoch' = [epoch EXCEPT ![t] = 0]
    BY <1>4 DEF Check
  <2>5. epoch' \in [Thread -> Nat]
    BY <1>4, <2>4
  <2>6. HopLeft'
    BY <1>4 DEF Check, HopLeft, At
  <2>7. UNCHANGED <<config, circuits, hops, resets, asked, trail, injected>>
    BY <1>4 DEF Check
  <2>. QED
    BY <1>4, <2>1, <2>2, <2>3, <2>6, <2>7, <2>5
<1>5. ASSUME TypeOK, NEW t \in Thread, ChainDone(t)
      PROVE  TypeOK'
  BY <1>5 DEF ChainDone, HopLeft, At
<1>6. ASSUME TypeOK, NEW t \in Thread, Execute(t)
      PROVE  TypeOK'
  <2>1. At(t) \in Fem
    BY <1>6 DEF Execute, HopLeft
  <2>2. trail' \in [Thread -> Seq(Fem)] /\ resets' \in [Thread -> SUBSET Cells]
    BY <1>6, <2>1 DEF Execute
  <2>3. HopLeft'
    BY <1>6 DEF Execute, HopLeft, At
  <2>. QED
    BY <1>6, <2>2, <2>3 DEF Execute
<1>7. ASSUME TypeOK, NEW t \in Thread, Unwind(t)
      PROVE  TypeOK'
  BY <1>7 DEF Unwind, HopLeft, At
<1>8. ASSUME TypeOK, NEW t \in Thread, NEW cell \in Cells, Reset(t, cell)
      PROVE  TypeOK'
  <2>1. hops[t] # <<>> /\ hops[t] \in Seq(Fem)
    BY <1>8 DEF Reset, HopLeft
  <2>2. Tail(hops[t]) \in Seq(Fem)
    BY <2>1
  <2>3. hops' \in [Thread -> Seq(Fem)]
    BY <1>8, <2>2 DEF Reset
  <2>4. pc' \in [Thread -> {"idle", "check", "execute", "reset", "trip"}]
    BY <1>8 DEF Reset
  <2>5. failures' \in [Fem -> Nat] /\ open_until' \in [Fem -> Nat]
    <3>1. \/ failures' = [failures EXCEPT ![At(t)] = 0] /\ UNCHANGED open_until
          \/ open_until' = [open_until EXCEPT ![At(t)] = 0] /\ UNCHANGED failures
      BY <1>8 DEF Reset
    <3>2. failures \in [Fem -> Nat] /\ open_until \in [Fem -> Nat]
      BY <1>8
    <3>. QED
      BY <3>1, <3>2
  <2>6. resets' \in [Thread -> SUBSET Cells]
    BY <1>8 DEF Reset
  <2>7. HopLeft'
    BY <1>8 DEF Reset, HopLeft, At
  <2>8. UNCHANGED <<config, fems, limits, epoch, answer, asked, trail, injected, late>>
    BY <1>8 DEF Reset
  <2>. QED
    BY <1>8, <2>3, <2>5, <2>6, <2>7, <2>8, <2>4
<1>9. ASSUME TypeOK, NEW t \in Thread, NEW f \in Fem, NEW e \in Epoch, CountFailure(t, f, e)
      PROVE  TypeOK'
  <2>1. failures' \in [Fem -> Nat]
    BY <1>9 DEF CountFailure
  <2>2. injected' \in [Fem -> Nat]
    BY <1>9 DEF CountFailure
  <2>3. CASE Trips(f)
    <3>1. hops' = [hops EXCEPT ![t] = <<f>>] /\ f \in fems
      BY <1>9, <2>3 DEF CountFailure
    <3>2. pc' = [pc EXCEPT ![t] = "trip"]
      BY <1>9, <2>3 DEF CountFailure
    <3>3. HopLeft'
      BY <1>9, <3>1, <3>2 DEF CountFailure, HopLeft, At
    <3>4. hops' \in [Thread -> Seq(Fem)]
      BY <1>9, <3>1
    <3>5. asked' = [asked EXCEPT ![t] = <<f>>] /\ trail' = [trail EXCEPT ![t] = <<>>]
      BY <1>9, <2>3 DEF CountFailure
    <3>6. asked' \in [Thread -> Seq(Fem)] /\ trail' \in [Thread -> Seq(Fem)]
      BY <1>9, <3>5
    <3>7. epoch' = [epoch EXCEPT ![t] = e] /\ answer' = [answer EXCEPT ![t] = "none"]
      BY <1>9, <2>3 DEF CountFailure
    <3>8. e \in Nat
      BY RouterAssumption
    <3>9. epoch' \in [Thread -> Nat]
      BY <1>9, <3>7, <3>8
    <3>10. UNCHANGED <<config, fems, open_until, limits, resets, late>>
      BY <1>9 DEF CountFailure
    <3>. QED
      BY <1>9, <2>1, <2>2, <3>2, <3>3, <3>4, <3>6, <3>7, <3>9, <3>10
  <2>4. CASE ~Trips(f)
    <3>1. UNCHANGED <<pc, hops, fems>>
      BY <1>9, <2>4 DEF CountFailure
    <3>2. HopLeft'
      BY <1>9, <3>1 DEF HopLeft, At
    <3>. QED
      BY <1>9, <2>1, <2>2, <2>4, <3>2 DEF CountFailure
  <2>. QED
    BY <2>3, <2>4
<1>10. ASSUME TypeOK, NEW t \in Thread, Trip(t)
       PROVE  TypeOK'
  <2>1. At(t) \in Fem /\ limits[At(t)].cool_epochs \in Nat
    BY <1>10, RouterAssumption DEF Trip, HopLeft
  <2>2. open_until' \in [Fem -> Nat] /\ late' \subseteq Thread
    BY <1>10, <2>1 DEF Trip
  <2>3. HopLeft'
    BY <1>10 DEF Trip, HopLeft, At
  <2>4. pc' \in [Thread -> {"idle", "check", "execute", "reset", "trip"}]
    BY <1>10 DEF Trip
  <2>5. answer' \in [Thread -> {"none", "Ok", "FemNotFound", "CircuitOpen", "Panicked"}]
    BY <1>10 DEF Trip
  <2>6. epoch' \in [Thread -> Nat]
    BY <1>10 DEF Trip
  <2>7. UNCHANGED <<config, fems, failures, limits, hops, resets, asked, trail, injected>>
    BY <1>10 DEF Trip
  <2>. QED
    BY <1>10, <2>2, <2>3, <2>4, <2>5, <2>7, <2>6
<1>11. ASSUME TypeOK, UNCHANGED vars
       PROVE  TypeOK'
  BY <1>11 DEF vars, HopLeft, At
<1>. QED
  BY <1>1, <1>2, <1>3, <1>4, <1>5, <1>6, <1>7, <1>8, <1>9, <1>10, <1>11 DEF Next

\* Every step keeps a trip earned: the count is compared and the store made by
\* the same thread, and only a registration, with nobody inside, lowers the
\* number of failures reported.
LEMMA EarnedStep == IInv /\ [Next]_vars => Earned'
<1>. USE DEF Earned, OpenEarned, TypeOK, IInv, Idle, Goto, Return, local, circuits, At
<1>1. ASSUME IInv, NEW c \in Config, Configure(c)
      PROVE  Earned'
  BY <1>1 DEF Configure
<1>2. ASSUME IInv, NEW f \in Fem, RegisterFem(f)
      PROVE  Earned'
  BY <1>2 DEF RegisterFem
<1>3. ASSUME IInv, NEW t \in Thread, NEW c \in Chain, NEW e \in Epoch, CallChain(t, c, e)
      PROVE  Earned'
  BY <1>3 DEF CallChain
<1>4. ASSUME IInv, NEW t \in Thread, Check(t)
      PROVE  Earned'
  BY <1>4 DEF Check
<1>5. ASSUME IInv, NEW t \in Thread, ChainDone(t) \/ Execute(t) \/ Unwind(t)
      PROVE  Earned'
  BY <1>5 DEF ChainDone, Execute, Unwind
<1>6. ASSUME IInv, NEW t \in Thread, NEW cell \in Cells, Reset(t, cell)
      PROVE  Earned'
  <2>1. /\ \A f \in fems : /\ failures'[f] \in {0, failures[f]}
                          /\ open_until'[f] \in {0, open_until[f]}
        /\ \A u \in Thread : pc'[u] = "trip" => pc[u] = "trip" /\ hops'[u] = hops[u]
    BY <1>6 DEF Reset
  <2>2. UNCHANGED <<fems, limits, injected>>
    BY <1>6 DEF Reset
  <2>3. \A f \in fems : f \in Fem /\ failures[f] \in Nat /\ injected[f] \in Nat
    BY <1>6
  <2>4. \A f \in fems : /\ failures[f] <= injected[f]
                        /\ open_until[f] > 0 => injected[f] >= limits[f].threshold
    BY <1>6
  <2>5. \A f \in fems : failures'[f] <= injected'[f]
    BY <2>1, <2>2, <2>3, <2>4
  <2>6. \A f \in fems : open_until'[f] > 0 => injected'[f] >= limits'[f].threshold
    BY <2>1, <2>2, <2>4
  <2>7. \A u \in Thread : pc'[u] = "trip" =>
            injected'[Head(hops'[u])] >= limits'[Head(hops'[u])].threshold
    BY <1>6, <2>1, <2>2
  <2>. QED
    BY <2>2, <2>5, <2>6, <2>7
<1>7. ASSUME IInv, NEW t \in Thread, NEW f \in Fem, NEW e \in Epoch, CountFailure(t, f, e)
      PROVE  Earned'
  <2>1. /\ failures' = [failures EXCEPT ![f] = @ + 1]
        /\ injected' = [injected EXCEPT ![f] = @ + 1]
        /\ UNCHANGED <<fems, open_until, limits>>
    BY <1>7 DEF CountFailure
  <2>2. \A g \in fems : /\ g \in Fem /\ failures[g] \in Nat /\ injected[g] \in Nat
                        /\ limits[g].threshold \in Nat
    BY <1>7, RouterAssumption
  <2>3. \A g \in fems : /\ injected'[g] >= injected[g]
                        /\ failures'[g] <= injected'[g]
    BY <1>7, <2>1, <2>2
  <2>4. \A g \in fems : open_until'[g] > 0 => injected'[g] >= limits[g].threshold
    BY <1>7, <2>1, <2>2, <2>3
  <2>5. Trips(f) => injected'[f] >= limits[f].threshold
    BY <1>7, <2>1, <2>2 DEF CountFailure, Trips
  <2>6. ASSUME NEW u \in Thread, pc'[u] = "trip"
        PROVE  injected'[Head(hops'[u])] >= limits[Head(hops'[u])].threshold
    <3>1. CASE Trips(f) /\ u = t
      <4>1. Head(hops'[u]) = f
        BY <1>7, <3>1 DEF CountFailure
      <4>. QED
        BY <2>5, <3>1, <4>1
    <3>2. CASE ~(Trips(f) /\ u = t)
      <4>1. pc[u] = "trip" /\ hops'[u] = hops[u]
        BY <1>7, <2>6, <3>2 DEF CountFailure
      <4>2. Head(hops[u]) \in fems
        BY <1>7, <4>1 DEF HopLeft
      <4>3. injected[Head(hops[u])] >= limits[Head(hops[u])].threshold
        BY <1>7, <4>1
      <4>. QED
        BY <2>2, <2>3, <4>1, <4>2, <4>3, <2>1
    <3>. QED
      BY <3>1, <3>2
  <2>. QED
    BY <2>1, <2>3, <2>4, <2>6
<1>8. ASSUME IInv, NEW t \in Thread, Trip(t)
       PROVE  Earned'
  BY <1>8 DEF Trip, HopLeft
<1>9. ASSUME IInv, UNCHANGED vars
       PROVE  Earned'
  BY <1>9 DEF vars
<1>. QED
  BY <1>1, <1>2, <1>3, <1>4, <1>5, <1>6, <1>7, <1>8, <1>9 DEF Next

\* A store to a circuit either opens it, and every call inside it becomes late,
\* or clears a cell; a thread reaches its handler only through the check.
LEMMA AdmittedStep == IInv /\ [Next]_vars => Admitted'
<1>. USE DEF Admitted, IsOpen, TypeOK, IInv, Idle, Goto, Return, local, circuits
<1>1. ASSUME IInv, NEW c \in Config, Configure(c)
      PROVE  Admitted'
  BY <1>1 DEF Configure, At
<1>2. ASSUME IInv, NEW f \in Fem, RegisterFem(f)
      PROVE  Admitted'
  BY <1>2 DEF RegisterFem, At
<1>3. ASSUME IInv, NEW t \in Thread, NEW c \in Chain, NEW e \in Epoch, CallChain(t, c, e)
      PROVE  Admitted'
  BY <1>3 DEF CallChain, At
<1>4. ASSUME IInv, NEW t \in Thread, Check(t)
      PROVE  Admitted'
  BY <1>4 DEF Check, At
<1>5. ASSUME IInv, NEW t \in Thread, ChainDone(t) \/ Execute(t) \/ Unwind(t)
      PROVE  Admitted'
  BY <1>5 DEF ChainDone, Execute, Unwind, At
<1>6. ASSUME IInv, NEW t \in Thread, NEW cell \in Cells, Reset(t, cell)
      PROVE  Admitted'
  <2>1. /\ \A f \in Fem : open_until'[f] \in {0, open_until[f]}
        /\ \A u \in Thread : pc'[u] \in {"execute", "reset"} =>
               pc[u] \in {"execute", "reset"} /\ hops'[u] = hops[u]
    BY <1>6 DEF Reset
  <2>2. UNCHANGED <<epoch, late>>
    BY <1>6 DEF Reset
  <2>3. \A u \in Thread : pc[u] \in {"execute", "reset"} => Head(hops[u]) \in Fem
    BY <1>6 DEF HopLeft, At
  <2>4. ASSUME NEW u \in Thread, pc'[u] \in {"execute", "reset"}
        PROVE  u \in late' \/ ~IsOpen(At(u), epoch[u])'
    <3>1. u \in late \/ ~IsOpen(Head(hops[u]), epoch[u])
      BY <1>6, <2>1, <2>4 DEF At
    <3>2. open_until'[Head(hops[u])] \in {0, open_until[Head(hops[u])]}
      BY <2>1, <2>3, <2>4
    <3>. QED
      BY <2>1, <2>2, <2>4, <3>1, <3>2 DEF At
  <2>. QED
    BY <2>4
<1>7. ASSUME IInv, NEW t \in Thread, NEW f \in Fem, NEW e \in Epoch, CountFailure(t, f, e)
      PROVE  Admitted'
  BY <1>7 DEF CountFailure, At
<1>8. ASSUME IInv, NEW t \in Thread, Trip(t)
       PROVE  Admitted'
  BY <1>8 DEF Trip, At
<1>9. ASSUME IInv, UNCHANGED vars
       PROVE  Admitted'
  BY <1>9 DEF vars, At
<1>. QED
  BY <1>1, <1>2, <1>3, <1>4, <1>5, <1>6, <1>7, <1>8, <1>9 DEF Next

\* Running a handler moves its hop from what is left to the trail.
LEMMA MoveHop ==
    ASSUME NEW S, NEW s \in Seq(S), NEW h \in Seq(S), h # <<>>
    PROVE  Append(s, Head(h)) \o Tail(h) = s \o h
<1>1. /\ Head(h) \in S /\ Tail(h) \in Seq(S)
      /\ <<Head(h)>> \in Seq(S)
  BY HeadTailProperties
<1>2. <<Head(h)>> \o Tail(h) = h
  <2>1. <<Head(h)>> \o Tail(h) \in Seq(S)
    BY <1>1, ConcatProperties
  <2>2. Len(<<Head(h)>> \o Tail(h)) = Len(h)
    BY <1>1, ConcatProperties, HeadTailProperties
  <2>3. \A i \in 1..Len(h) : (<<Head(h)>> \o Tail(h))[i] = h[i]
    BY <1>1, ConcatProperties, HeadTailProperties
  <2>. QED
    BY <2>1, <2>2, <2>3, SeqEqual
<1>3. Append(s, Head(h)) = s \o <<Head(h)>>
  BY <1>1, AppendIsConcat
<1>4. (s \o <<Head(h)>>) \o Tail(h) = s \o (<<Head(h)>> \o Tail(h))
  BY <1>1, ConcatAssociative
<1>. QED
  BY <1>2, <1>3, <1>4

\* What has run and what is left make up the chain that was asked for.
LEMMA ChainStep == TypeOK /\ ChainInv /\ [Next]_vars => ChainInv'
<1>. USE DEF TypeOK, ChainInv, ChainInOrder, Idle, Goto, Return, local, circuits
<1>1. ASSUME TypeOK, ChainInv, NEW c \in Config, Configure(c)
      PROVE  ChainInv'
  BY <1>1 DEF Configure
<1>2. ASSUME TypeOK, ChainInv, NEW f \in Fem, RegisterFem(f)
      PROVE  ChainInv'
  BY <1>2 DEF RegisterFem
<1>3. ASSUME TypeOK, ChainInv, NEW t \in Thread, NEW c \in Chain, NEW e \in Epoch,
             CallChain(t, c, e)
      PROVE  ChainInv'
  <2>1. <<>> \o c = c
    BY RouterAssumption, ConcatEmptySeq
  <2>. QED
    BY <1>3, <2>1 DEF CallChain
<1>4. ASSUME TypeOK, ChainInv, NEW t \in Thread, Check(t) \/ ChainDone(t) \/ Unwind(t)
      PROVE  ChainInv'
  <2>1. /\ UNCHANGED <<hops, trail, asked>>
        /\ pc[t] \in {"check", "execute"}
        /\ \/ pc' = [pc EXCEPT ![t] = "execute"] /\ UNCHANGED answer
           \/ /\ pc' = [pc EXCEPT ![t] = "idle"]
              /\ \/ hops[t] = <<>> /\ answer' = [answer EXCEPT ![t] = "Ok"]
                 \/ /\ hops[t] # <<>>
                    /\ \E a \in {"FemNotFound", "CircuitOpen", "Panicked"} :
                           answer' = [answer EXCEPT ![t] = a]
    BY <1>4 DEF Check, ChainDone, Unwind, HopLeft
  <2>2. \A u \in Thread : (pc'[u] = "reset") <=> (pc[u] = "reset")
    BY <1>4, <2>1
  <2>. QED
    BY <1>4, <2>1, <2>2
<1>5. ASSUME TypeOK, ChainInv, NEW t \in Thread, Execute(t)
      PROVE  ChainInv'
  <2>1. hops[t] # <<>> /\ hops[t] \in Seq(Fem) /\ trail[t] \in Seq(Fem)
    BY <1>5 DEF Execute, HopLeft
  <2>2. Append(trail[t], Head(hops[t])) \o Tail(hops[t]) = trail[t] \o hops[t]
    BY <2>1, MoveHop
  <2>. QED
    BY <1>5, <2>2 DEF Execute, At
<1>6. ASSUME TypeOK, ChainInv, NEW t \in Thread, NEW cell \in Cells, Reset(t, cell)
      PROVE  ChainInv'
  BY <1>6 DEF Reset
<1>7. ASSUME TypeOK, ChainInv, NEW t \in Thread, NEW f \in Fem, NEW e \in Epoch,
             CountFailure(t, f, e)
      PROVE  ChainInv'
  <2>1. <<>> \o <<f>> = <<f>>
    BY ConcatEmptySeq
  <2>2. CASE Trips(f)
    <3>1. /\ hops'[t] = <<f>> /\ asked'[t] = <<f>> /\ trail'[t] = <<>>
          /\ pc'[t] = "trip" /\ answer'[t] = "none"
      BY <1>7, <2>2 DEF CountFailure
    <3>2. \A u \in Thread \ {t} : /\ hops'[u] = hops[u] /\ asked'[u] = asked[u]
                                   /\ trail'[u] = trail[u] /\ pc'[u] = pc[u]
                                   /\ answer'[u] = answer[u]
      BY <1>7, <2>2 DEF CountFailure
    <3>3. trail'[t] \o hops'[t] = asked'[t]
      BY <2>1, <3>1
    <3>4. ASSUME NEW u \in Thread
          PROVE  /\ trail'[u] \o (IF pc'[u] = "reset" THEN Tail(hops'[u]) ELSE hops'[u])
                    = asked'[u]
                 /\ pc'[u] # "idle" => answer'[u] = "none"
      <4>1. CASE u = t
        <5>1. pc'[u] # "reset"
          BY <3>1, <4>1
        <5>. QED
          BY <3>1, <3>3, <4>1, <5>1
      <4>2. CASE u # t
        <5>1. trail[u] \o (IF pc[u] = "reset" THEN Tail(hops[u]) ELSE hops[u]) = asked[u]
          BY <1>7
        <5>. QED
          BY <1>7, <3>2, <4>2, <5>1
      <4>. QED
        BY <4>1, <4>2
    <3>5. \A u \in Thread :
              /\ answer'[u] = "Ok" => hops'[u] = <<>>
              /\ answer'[u] \in {"FemNotFound", "CircuitOpen", "Panicked"} =>
                     hops'[u] # <<>>
      BY <1>7, <3>1, <3>2
    <3>. QED
      BY <3>4, <3>5
  <2>3. CASE ~Trips(f)
    BY <1>7, <2>3 DEF CountFailure
  <2>. QED
    BY <2>2, <2>3
<1>8. ASSUME TypeOK, ChainInv, NEW t \in Thread, Trip(t)
      PROVE  ChainInv'
  BY <1>8 DEF Trip
<1>9. ASSUME ChainInv, UNCHANGED vars
      PROVE  ChainInv'
  BY <1>9 DEF vars
<1>. QED
  BY <1>1, <1>2, <1>3, <1>4, <1>5, <1>6, <1>7, <1>8, <1>9 DEF Next

\* IInv holds of the initial states.
LEMMA InitIInv == Init => IInv
<1>1. Init => TypeOK
  BY RouterAssumption DEF Init, TypeOK, HopLeft, Cells
<1>2. Init => Earned /\ Admitted
  BY DEF Init, Earned, OpenEarned, Admitted
<1>. QED
  BY <1>1, <1>2 DEF IInv

LEMMA IInvAlways == Spec => []IInv
<1>1. IInv /\ [Next]_vars => IInv'
  BY TypeStep, EarnedStep, AdmittedStep DEF IInv
<1>. QED
  BY InitIInv, <1>1, PTL DEF Spec

\* The types of the variables, for every instance.
THEOREM TypeCorrect == Spec => []TypeOK
<1>1. IInv => TypeOK
  BY DEF IInv
<1>. QED
  BY IInvAlways, <1>1, PTL

\* No circuit opens before its threshold of failures has been reported.
THEOREM TripsAreEarned == Spec => []OpenEarned
<1>1. IInv => OpenEarned
  BY DEF IInv, Earned
<1>. QED
  BY IInvAlways, <1>1, PTL

\* No hop is skipped, run twice or run after a refusal, for chains of any length.
THEOREM ChainsInOrder == Spec => []ChainInOrder
<1>1. Init => ChainInv
  BY ConcatEmptySeq DEF Init, ChainInv, ChainInOrder
<1>2. TypeOK /\ ChainInv /\ [Next]_vars => ChainInv'
  BY ChainStep
<1>3. ChainInv => ChainInOrder
  BY DEF ChainInv
<1>. QED
  BY <1>1, <1>2, <1>3, TypeCorrect, PTL DEF Spec

\* Only a call that was under way when a circuit was tripped, or whose epoch has
\* reached the deadline, closes an open circuit.
THEOREM ClosesLate == Spec => ClosedByAdmitted
<1>. DEFINE Closing == \A f \in fems :
               open_until[f] > 0 /\ open_until'[f] = 0 =>
                 \/ \A t \in Thread : Idle(t)
                 \/ \E t \in Thread : /\ pc[t] = "reset" /\ At(t) = f
                                      /\ t \in late \/ epoch[t] >= open_until[f]
<1>1. ASSUME IInv, [Next]_vars
      PROVE  Closing
  <2>. SUFFICES ASSUME NEW f \in fems, open_until[f] > 0, open_until'[f] = 0,
                       ~ \A t \in Thread : Idle(t)
                PROVE  \E t \in Thread : /\ pc[t] = "reset" /\ At(t) = f
                                         /\ t \in late \/ epoch[t] >= open_until[f]
    OBVIOUS
  <2>1. f \in Fem /\ open_until[f] \in Nat
    BY <1>1 DEF IInv, TypeOK
  <2>2. ASSUME NEW t \in Thread, Trip(t)
        PROVE  FALSE
    <3>1. At(t) \in Fem /\ epoch[t] \in Nat /\ limits[At(t)].cool_epochs \in Nat \ {0}
      BY <1>1, <2>2, RouterAssumption DEF IInv, TypeOK, HopLeft, Trip
    <3>2. open_until' = [open_until EXCEPT ![At(t)] = epoch[t] + limits[At(t)].cool_epochs]
      BY <2>2 DEF Trip
    <3>3. open_until'[At(t)] > 0
      BY <1>1, <3>1, <3>2 DEF IInv, TypeOK
    <3>. QED
      BY <1>1, <2>1, <3>1, <3>2, <3>3 DEF IInv, TypeOK
  <2>3. ASSUME NEW t \in Thread, NEW cell \in Cells, Reset(t, cell)
        PROVE  pc[t] = "reset" /\ At(t) = f
    BY <1>1, <2>1, <2>3 DEF Reset, IInv, TypeOK
  <2>4. \E t \in Thread : pc[t] = "reset" /\ At(t) = f
    BY <1>1, <2>1, <2>2, <2>3 DEF Next, Configure, RegisterFem, CallChain, Check, ChainDone,
       Execute, Unwind, CountFailure, vars, circuits
  <2>5. PICK t \in Thread : pc[t] = "reset" /\ At(t) = f
    BY <2>4
  <2>6. t \in late \/ ~(epoch[t] < open_until[f])
    BY <1>1, <2>1, <2>5 DEF IInv, Admitted, IsOpen
  <2>7. epoch[t] \in Nat
    BY <1>1 DEF IInv, TypeOK
  <2>. QED
    BY <2>1, <2>5, <2>6, <2>7
<1>. QED
  BY IInvAlways, <1>1, PTL DEF Spec, ClosedByAdmitted

=============================================================================
