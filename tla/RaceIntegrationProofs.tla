------------------------ MODULE RaceIntegrationProofs ------------------------
(***************************************************************************)
(* Proofs about RaceIntegration, for every set of envelopes, every limit   *)
(* of the drive and every hook, and about the drives, whatever they are    *)
(* asked to store and to delete.                                           *)
(***************************************************************************)
EXTENDS MCRaceIntegration, DataLemmas

IInv == TypeOK /\ PlanMatchesDrive /\ StoredWasPlanned /\ RemotePlansInfer

-----------------------------------------------------------------------------

\* The initial state satisfies the invariant.
LEMMA NewInv ==
    ASSUME New
    PROVE  IInv
<1>1. drive!TypeOK
  BY IntegrationAssumption DEF New, drive!Init, drive!TypeOK
<1>2. DOMAIN active_plans = {} /\ DOMAIN entries = {}
  BY DEF New, drive!Init
<1>. QED
  BY <1>1, <1>2
     DEF New, IInv, TypeOK, PlanMatchesDrive, StoredWasPlanned, RemotePlansInfer, Planned

\* The new plan is for the envelope, and only inference is planned to be sent away.
LEMMA RecordStep ==
    ASSUME TypeOK, RemotePlansInfer, NEW e \in Envelope, Record(e)
    PROVE  /\ DOMAIN active_plans' = DOMAIN active_plans \cup {e.id}
           /\ DOMAIN active_plans' \subseteq Id
           /\ \A i \in DOMAIN active_plans' : active_plans'[i] \in Plan
           /\ active_plans'[e.id].type = e.type
           /\ \A i \in DOMAIN active_plans \ {e.id} : active_plans'[i] = active_plans[i]
           /\ RemotePlansInfer'
<1>1. /\ DOMAIN active_plans' = DOMAIN active_plans \cup {e.id}
      /\ active_plans'[e.id] = Route(e)
      /\ \A i \in DOMAIN active_plans \ {e.id} : active_plans'[i] = active_plans[i]
  BY DEF Record
<1>2. e.id \in Id /\ e.type \in Type
  BY DEF Envelope
<1>3. /\ PlanProtocol(e.type, e.remote) \in RacProtocol
      /\ IsRemote(PlanProtocol(e.type, e.remote)) => RequiresCompilation(e.type)
  BY DEF PlanProtocol, RacProtocol, IsRemote
<1>4. Route(e) \in Plan /\ Route(e).type = e.type
  BY <1>2, <1>3 DEF Route, Plan
<1>5. Route(e).protocol = PlanProtocol(e.type, e.remote)
  BY DEF Route
<1>6. RemotePlansInfer'
  BY <1>1, <1>3, <1>4, <1>5 DEF RemotePlansInfer
<1>. QED
  BY <1>1, <1>2, <1>4, <1>6 DEF TypeOK

\* A store files the envelope and touches no other entry.
LEMMA StoreStep ==
    ASSUME TypeOK, NEW e \in Envelope, drive!Store(e.id, Content(e))
    PROVE  /\ drive!TypeOK'
           /\ DOMAIN entries' = DOMAIN entries \cup {e.id}
           /\ entries'[e.id].type = e.type
           /\ \A i \in DOMAIN entries \ {e.id} : entries'[i] = entries[i]
<1>1. /\ e.id \in Id /\ Content(e) \in drive!Entry
      /\ Content(e).type = e.type /\ e.type \in Type
  BY DEF Envelope, Content, drive!Entry
<1>2. /\ DOMAIN entries' = DOMAIN entries \cup {e.id}
      /\ entries'[e.id] = Content(e)
      /\ \A i \in DOMAIN entries \ {e.id} : entries'[i] = entries[i]
  BY DEF drive!Store, drive!Put
<1>3. by_type_map' \in [Type -> Seq(Id)] /\ stores' \in 0..MaxStores
  BY <1>1, IntegrationAssumption DEF TypeOK, drive!TypeOK, drive!Store
<1>4. DOMAIN entries' \subseteq Id /\ \A i \in DOMAIN entries' : entries'[i] \in drive!Entry
  BY <1>1, <1>2 DEF TypeOK, drive!TypeOK
<1>. QED
  BY <1>1, <1>2, <1>3, <1>4 DEF drive!TypeOK

\* Every step keeps plan and store together: what is stored has just been
\* planned, and what is refused is marked.
LEMMA StepInv ==
    ASSUME IInv, [Next]_vars
    PROVE  IInv'
<1>0. TypeOK /\ PlanMatchesDrive /\ StoredWasPlanned /\ RemotePlansInfer
  BY DEF IInv
<1>1. ASSUME InitHooks
      PROVE  IInv'
  BY <1>0, <1>1 DEF InitHooks, driveVars, IInv, TypeOK, PlanMatchesDrive,
        StoredWasPlanned, RemotePlansInfer, Planned, drive!TypeOK
<1>2. ASSUME NEW e \in Envelope, ProcessEnvelope(e)
      PROVE  IInv'
  <2>1. /\ DOMAIN active_plans' = DOMAIN active_plans \cup {e.id}
        /\ DOMAIN active_plans' \subseteq Id
        /\ \A i \in DOMAIN active_plans' : active_plans'[i] \in Plan
        /\ active_plans'[e.id].type = e.type
        /\ \A i \in DOMAIN active_plans \ {e.id} : active_plans'[i] = active_plans[i]
        /\ RemotePlansInfer'
    BY <1>0, <1>2, RecordStep DEF ProcessEnvelope
  <2>2. e.id \in Id /\ UNCHANGED <<config, hook_context>> /\ removed' = removed \ {e.id}
    BY <1>2 DEF ProcessEnvelope, Envelope
  <2>3. CASE /\ UNCHANGED driveVars
             /\ \/ ~config.sio_drive /\ UNCHANGED refused
                \/ refused' = refused \cup {e.id}
    BY <1>0, <2>1, <2>2, <2>3 DEF driveVars, IInv, TypeOK, PlanMatchesDrive,
          StoredWasPlanned, Planned, drive!TypeOK
  <2>4. CASE /\ config.sio_drive /\ drive!Store(e.id, Content(e))
             /\ refused' = refused \ {e.id}
    <3>1. /\ drive!TypeOK'
          /\ DOMAIN entries' = DOMAIN entries \cup {e.id}
          /\ entries'[e.id].type = e.type
          /\ \A i \in DOMAIN entries \ {e.id} : entries'[i] = entries[i]
      BY <1>0, <2>4, StoreStep
    <3>2. PlanMatchesDrive'
      BY <1>0, <2>1, <2>2, <2>4, <3>1 DEF PlanMatchesDrive, Planned
    <3>3. StoredWasPlanned'
      BY <1>0, <2>1, <2>2, <2>4, <3>1 DEF StoredWasPlanned, Planned
    <3>4. TypeOK'
      BY <1>0, <2>1, <2>2, <2>4, <3>1 DEF TypeOK
    <3>. QED
      BY <2>1, <3>2, <3>3, <3>4 DEF IInv
  <2>. QED
    BY <1>2, <2>3, <2>4
       DEF ProcessEnvelope, Persist, drive!StoreRefused, drive!vars, driveVars
<1>3. ASSUME NEW i \in Id, RemovePlan(i)
      PROVE  IInv'
  <2>1. /\ DOMAIN active_plans' = DOMAIN active_plans \ {i}
        /\ \A j \in DOMAIN active_plans' : active_plans'[j] = active_plans[j]
        /\ removed' = IF Planned(i) THEN removed \cup {i} ELSE removed
        /\ UNCHANGED <<config, hook_context, entries, by_type_map, stores, refused>>
    BY <1>3 DEF RemovePlan, driveVars
  <2>. QED
    BY <1>0, <2>1 DEF IInv, TypeOK, PlanMatchesDrive, StoredWasPlanned,
          RemotePlansInfer, Planned, drive!TypeOK
<1>4. ASSUME UNCHANGED vars
      PROVE  IInv'
  BY <1>0, <1>4 DEF vars, driveVars, IInv, TypeOK, PlanMatchesDrive, StoredWasPlanned,
        RemotePlansInfer, Planned, drive!TypeOK
<1>. QED
  BY <1>1, <1>2, <1>3, <1>4 DEF Next, HookError

\* The integration stores through the drive's own operation or leaves it alone.
LEMMA DriveStep ==
    ASSUME [Next]_vars
    PROVE  drive!Next \/ UNCHANGED driveVars
<1>1. ASSUME NEW e \in Envelope, ProcessEnvelope(e)
      PROVE  drive!Next \/ UNCHANGED driveVars
  <2>1. e.id \in Id /\ Content(e) \in drive!Entry
    BY DEF Envelope, Content, drive!Entry
  <2>2. CASE drive!Store(e.id, Content(e))
    BY <2>1, <2>2 DEF drive!Next
  <2>. QED
    BY <1>1, <2>2
       DEF ProcessEnvelope, Persist, drive!StoreRefused, drive!vars, driveVars
<1>2. ASSUME \/ InitHooks \/ UNCHANGED vars
             \/ \E e \in Envelope : HookError(e)
             \/ \E i \in Id : RemovePlan(i)
      PROVE  UNCHANGED driveVars
  BY <1>2 DEF InitHooks, HookError, RemovePlan, vars
<1>. QED
  BY <1>1, <1>2 DEF Next

-----------------------------------------------------------------------------
(* What a drive holds and what its queries find, for any ids and any limit: *)
(* the integration's drive and its owner's are both one of these.          *)

Used(e) == SumFunction([i \in DOMAIN e |-> e[i].size])

Found(e, b) == \A i \in DOMAIN e : i \in Range(b[e[i].type])

Stored == [type : Type, size : Size]

\* A drive of these ids with this limit: what it holds is finite, within the
\* limit, and found.
DriveInv(ids, max, e, b) ==
    /\ DOMAIN e \subseteq ids /\ IsFiniteSet(DOMAIN e)
    /\ \A i \in DOMAIN e : e[i] \in Stored
    /\ b \in [Type -> Seq(ids)]
    /\ Used(e) <= max
    /\ Found(e, b)

\* A drive without one of its entries has room for what that took.
LEMMA UsedWithout ==
    ASSUME NEW e, IsFiniteSet(DOMAIN e), \A i \in DOMAIN e : e[i].size \in Nat,
           NEW f, NEW i, DOMAIN f = DOMAIN e \ {i}, \A j \in DOMAIN f : f[j] = e[j]
    PROVE  /\ Used(e) \in Nat /\ Used(f) \in Nat
           /\ Used(e) = IF i \in DOMAIN e THEN e[i].size + Used(f) ELSE Used(f)
<1> DEFINE g == [j \in DOMAIN e |-> e[j].size]
           h == [j \in DOMAIN f |-> f[j].size]
<1>1. IsFiniteSet(DOMAIN f)
  BY FS_Subset
<1>2. /\ \A j \in DOMAIN e : g[j] \in Nat
      /\ \A j \in DOMAIN f : h[j] = g[j] /\ h[j] \in Nat
  OBVIOUS
<1>3. Used(e) = SumFunctionOnSet(g, DOMAIN e) /\ Used(f) = SumFunctionOnSet(h, DOMAIN f)
  BY DEF Used, SumFunction
<1>. HIDE DEF g, h
<1>4. SumFunctionOnSet(h, DOMAIN f) = SumFunctionOnSet(g, DOMAIN f)
  BY <1>1, <1>2, SumSame
<1>5. Used(e) \in Nat /\ Used(f) \in Nat
  BY <1>1, <1>2, <1>3, SumType
<1>6. CASE i \in DOMAIN e
  <2>1. SumFunctionOnSet(g, DOMAIN e) = g[i] + SumFunctionOnSet(g, DOMAIN e \ {i})
    BY <1>2, <1>6, SumSplits
  <2>2. g[i] = e[i].size
    BY <1>6 DEF g
  <2>. QED
    BY <1>3, <1>4, <1>5, <1>6, <2>1, <2>2
<1>7. CASE i \notin DOMAIN e
  <2>1. DOMAIN f = DOMAIN e
    BY <1>7
  <2>. QED
    BY <1>3, <1>4, <1>5, <1>7, <2>1
<1>. QED
  BY <1>6, <1>7

\* A store within the limit keeps the drive sound, an overwrite included: what is
\* replaced was counted once more by the check.
LEMMA DriveStores ==
    ASSUME NEW ids, NEW max \in Nat, NEW e, NEW b, DriveInv(ids, max, e, b),
           NEW i \in ids, NEW x \in Stored, Used(e) + x.size <= max,
           NEW f, f = [j \in DOMAIN e \cup {i} |-> IF j = i THEN x ELSE e[j]],
           NEW c, c = [b EXCEPT ![x.type] = Append(@, i)]
    PROVE  DriveInv(ids, max, f, c)
<1>1. /\ \A k \in DOMAIN e : e[k] \in Stored /\ e[k].size \in Nat
      /\ x.type \in Type /\ x.size \in Nat
  BY IntegrationAssumption DEF Stored, DriveInv
<1>2. /\ DOMAIN f = DOMAIN e \cup {i} /\ f[i] = x
      /\ \A j \in DOMAIN e \ {i} : f[j] = e[j]
  OBVIOUS
<1>3. /\ DOMAIN f \subseteq ids /\ IsFiniteSet(DOMAIN f)
      /\ \A k \in DOMAIN f : f[k] \in Stored /\ f[k].size \in Nat
  BY <1>1, <1>2, FS_AddElement DEF DriveInv
<1>4. Used(f) <= max
  <2> DEFINE r == [j \in DOMAIN e \ {i} |-> e[j]]
  <2>1. DOMAIN r = DOMAIN e \ {i} /\ \A j \in DOMAIN r : r[j] = e[j]
    OBVIOUS
  <2>2. DOMAIN r = DOMAIN f \ {i} /\ \A j \in DOMAIN r : r[j] = f[j]
    BY <1>2
  <2>. HIDE DEF r
  <2>3. Used(r) \in Nat /\ Used(r) <= Used(e) /\ Used(e) \in Nat
    <3>1. /\ Used(e) \in Nat /\ Used(r) \in Nat
          /\ Used(e) = IF i \in DOMAIN e THEN e[i].size + Used(r) ELSE Used(r)
      BY <1>1, <2>1, UsedWithout DEF DriveInv
    <3>. QED
      BY <1>1, <3>1
  <2>4. Used(f) = x.size + Used(r)
    <3>1. Used(f) = IF i \in DOMAIN f THEN f[i].size + Used(r) ELSE Used(r)
      BY <1>3, <2>2, UsedWithout
    <3>. QED
      BY <1>2, <3>1
  <2>. QED
    BY <1>1, <2>3, <2>4
<1>5. /\ c \in [Type -> Seq(ids)]
      /\ i \in Range(c[x.type])
      /\ \A t \in Type : Range(b[t]) \subseteq Range(c[t])
  <2>1. b \in [Type -> Seq(ids)]
    BY DEF DriveInv
  <2> DEFINE s == b[x.type]
             w == Append(s, i)
  <2>2. s \in Seq(ids)
    BY <1>1, <2>1
  <2>3. /\ w \in Seq(ids) /\ Len(w) = Len(s) + 1
        /\ \A k \in 1..Len(s) : w[k] = s[k]
        /\ w[Len(s) + 1] = i
    BY <2>2, AppendProperties
  <2>4. /\ Range(w) = {w[k] : k \in 1..Len(w)} /\ Range(s) = {s[k] : k \in 1..Len(s)}
        /\ Len(s) \in Nat
    BY <2>2, <2>3, RangeEquality, LenProperties
  <2>5. c = [b EXCEPT ![x.type] = w]
    OBVIOUS
  <2>. HIDE DEF w
  <2>6. i \in Range(w) /\ Range(s) \subseteq Range(w)
    BY <2>3, <2>4
  <2>. QED
    BY <1>1, <2>1, <2>3, <2>5, <2>6
<1>6. Found(f, c)
  <2>1. Found(e, b)
    BY DEF DriveInv
  <2>. QED
    BY <1>1, <1>2, <1>5, <2>1 DEF Found, Stored
<1>. QED
  BY <1>3, <1>4, <1>5, <1>6 DEF DriveInv

\* A delete that takes the id off the list of its type keeps the drive sound.
LEMMA DriveDeletes ==
    ASSUME NEW ids, NEW max \in Nat, NEW e, NEW b, DriveInv(ids, max, e, b),
           NEW i \in DOMAIN e,
           NEW f, f = [j \in DOMAIN e \ {i} |-> e[j]],
           NEW c, c = [b EXCEPT ![e[i].type] =
                          (CHOOSE h : Keeps(b[e[i].type], i, h))[Len(b[e[i].type])]]
    PROVE  DriveInv(ids, max, f, c)
<1>1. \A k \in DOMAIN e : e[k] \in Stored /\ e[k].size \in Nat /\ e[k].type \in Type
  BY IntegrationAssumption DEF Stored, DriveInv
<1>2. DOMAIN f = DOMAIN e \ {i} /\ \A j \in DOMAIN f : f[j] = e[j]
  OBVIOUS
<1>3. /\ DOMAIN f \subseteq ids /\ IsFiniteSet(DOMAIN f)
      /\ \A k \in DOMAIN f : f[k] \in Stored
  BY <1>1, <1>2, FS_Subset DEF DriveInv
<1>4. Used(f) <= max
  <2>0. IsFiniteSet(DOMAIN e) /\ Used(e) <= max
    BY DEF DriveInv
  <2>1. /\ Used(e) \in Nat /\ Used(f) \in Nat
        /\ Used(e) = IF i \in DOMAIN e THEN e[i].size + Used(f) ELSE Used(f)
    BY <1>1, <1>2, <2>0, UsedWithout
  <2>. QED
    BY <1>1, <2>0, <2>1
<1>5. /\ c \in [Type -> Seq(ids)]
      /\ \A t \in Type : Range(b[t]) \ {i} \subseteq Range(c[t])
  <2> DEFINE s == b[e[i].type]
             h == CHOOSE k : Keeps(s, i, k)
  <2>1. b \in [Type -> Seq(ids)] /\ s \in Seq(ids) /\ Len(s) \in Nat
    BY <1>1, LenProperties DEF DriveInv
  <2>2. Keeps(s, i, h)
    BY <2>1, KeepsExist
  <2>3. c = [b EXCEPT ![e[i].type] = h[Len(s)]]
    OBVIOUS
  <2>. HIDE DEF h
  <2>4. h[Len(s)] \in Seq(ids) /\ Range(h[Len(s)]) = Range(s) \ {i}
    BY <2>1, <2>2, KeepsAll
  <2>. QED
    BY <1>1, <2>1, <2>3, <2>4
<1>6. Found(f, c)
  <2>1. Found(e, b)
    BY DEF DriveInv
  <2>. QED
    BY <1>1, <1>2, <1>5, <2>1 DEF Found
<1>. QED
  BY <1>3, <1>4, <1>5, <1>6 DEF DriveInv

\* A new drive is empty.
LEMMA DriveStarts ==
    ASSUME NEW ids, NEW max \in Nat
    PROVE  DriveInv(ids, max, [i \in {} |-> 0], [t \in Type |-> <<>>])
<1> DEFINE e == [i \in {} |-> 0]
           b == [t \in Type |-> <<>>]
<1>1. DOMAIN e = {} /\ IsFiniteSet({})
  BY FS_EmptySet
<1>2. b \in [Type -> Seq(ids)]
  OBVIOUS
<1>3. Used(e) = 0
  <2> DEFINE g == [i \in DOMAIN e |-> e[i].size]
  <2>1. DOMAIN g = {}
    OBVIOUS
  <2>2. Used(e) = SumFunctionOnSet(g, DOMAIN g)
    BY DEF Used, SumFunction
  <2>. HIDE DEF g
  <2>. QED
    BY <2>1, <2>2, SumOfNone
<1>. HIDE DEF e, b
<1>4. DriveInv(ids, max, e, b)
  BY <1>1, <1>2, <1>3 DEF DriveInv, Found
<1>. QED
  BY <1>4 DEF e, b

\* The integration's drive is such a drive: its sums, lists and properties are
\* those above.
LEMMA IntegratedMeans ==
    /\ drive!WithinLimit <=> Used(entries) <= MaxSize
    /\ drive!QueryComplete <=> Found(entries, by_type_map)
    /\ \A s, i : drive!Without(s, i) = (CHOOSE h : Keeps(s, i, h))[Len(s)]
    /\ \A e : drive!UsedSize(e) = Used(e)
<1>1. \A e : drive!UsedSize(e) = Used(e)
  BY Zenon
     DEF drive!UsedSize, drive!SumFunction, drive!SumFunctionOnSet, drive!FoldFunctionOnSet,
         drive!MapThenFoldSet, Used, SumFunction, SumFunctionOnSet, FoldFunctionOnSet,
         MapThenFoldSet
<1>2. \A s, i : drive!Without(s, i) = (CHOOSE h : Keeps(s, i, h))[Len(s)]
  BY Zenon DEF drive!Without, Keeps
<1>3. drive!QueryComplete <=> Found(entries, by_type_map)
  BY Zenon DEF drive!QueryComplete, Found, drive!Range, Range, drive!QueryByType
<1>4. drive!WithinLimit <=> Used(entries) <= MaxSize
  BY <1>1, Zenon DEF drive!WithinLimit
<1>. QED
  BY <1>1, <1>2, <1>3, <1>4

\* Every operation of it keeps it sound.
LEMMA IntegratedSound == drive!Spec => []DriveInv(Id, MaxSize, entries, by_type_map)
<1> DEFINE Sound == DriveInv(Id, MaxSize, entries, by_type_map)
<1>1. drive!Init => Sound
  BY DriveStarts, IntegrationAssumption DEF drive!Init
<1>2. ASSUME Sound, [drive!Next]_(drive!vars)
      PROVE  Sound'
  <2>0. MaxSize \in Nat
    BY IntegrationAssumption
  <2>1. ASSUME NEW x \in drive!Entry, NEW i \in Id, drive!Store(i, x)
        PROVE  Sound'
    <3>1. /\ x \in Stored /\ Used(entries) + x.size <= MaxSize
          /\ entries' = [j \in DOMAIN entries \cup {i} |->
                             IF j = i THEN x ELSE entries[j]]
          /\ by_type_map' = [by_type_map EXCEPT ![x.type] = Append(@, i)]
      BY <2>1, IntegratedMeans
         DEF drive!Store, drive!RoomFor, drive!Put, drive!Entry, Stored
    <3>. QED
      BY <1>2, <2>0, <3>1, DriveStores
  <2>2. ASSUME NEW i \in Id, drive!Delete(i)
        PROVE  Sound'
    <3>1. /\ i \in DOMAIN entries
          /\ entries' = [j \in DOMAIN entries \ {i} |-> entries[j]]
          /\ by_type_map' = [by_type_map EXCEPT ![entries[i].type] =
                 (CHOOSE h : Keeps(by_type_map[entries[i].type], i, h))
                     [Len(by_type_map[entries[i].type])]]
      BY <2>2, IntegratedMeans DEF drive!Delete
    <3>. QED
      BY <1>2, <2>0, <3>1, DriveDeletes
  <2>3. ASSUME UNCHANGED drive!vars
        PROVE  Sound'
    BY <1>2, <2>3 DEF drive!vars
  <2>. QED
    BY <1>2, <2>1, <2>2, <2>3 DEF drive!Next, drive!StoreRefused, drive!DeleteMissing
<1>. QED
  BY <1>1, <1>2, PTL DEF drive!Spec

\* So is the drive that its owner uses directly.
LEMMA OwnedMeans ==
    /\ own!WithinLimit <=> Used(own_entries) <= MaxSize + 1
    /\ own!QueryComplete <=> Found(own_entries, own_by_type_map)
    /\ \A s, i : own!Without(s, i) = (CHOOSE h : Keeps(s, i, h))[Len(s)]
    /\ \A e : own!UsedSize(e) = Used(e)
<1>1. \A e : own!UsedSize(e) = Used(e)
  BY Zenon
     DEF own!UsedSize, own!SumFunction, own!SumFunctionOnSet, own!FoldFunctionOnSet,
         own!MapThenFoldSet, Used, SumFunction, SumFunctionOnSet, FoldFunctionOnSet,
         MapThenFoldSet
<1>2. \A s, i : own!Without(s, i) = (CHOOSE h : Keeps(s, i, h))[Len(s)]
  BY Zenon DEF own!Without, Keeps
<1>3. own!QueryComplete <=> Found(own_entries, own_by_type_map)
  BY Zenon DEF own!QueryComplete, Found, own!Range, Range, own!QueryByType
<1>4. own!WithinLimit <=> Used(own_entries) <= MaxSize + 1
  BY <1>1, Zenon DEF own!WithinLimit
<1>. QED
  BY <1>1, <1>2, <1>3, <1>4

\* Every operation of it keeps it sound.
LEMMA OwnedSound == own!Spec => []DriveInv(OwnId, MaxSize + 1, own_entries, own_by_type_map)
<1> DEFINE Sound == DriveInv(OwnId, MaxSize + 1, own_entries, own_by_type_map)
<1>1. own!Init => Sound
  BY DriveStarts, IntegrationAssumption DEF own!Init
<1>2. ASSUME Sound, [own!Next]_(own!vars)
      PROVE  Sound'
  <2>0. MaxSize + 1 \in Nat
    BY IntegrationAssumption
  <2>1. ASSUME NEW x \in own!Entry, NEW i \in OwnId, own!Store(i, x)
        PROVE  Sound'
    <3>1. /\ x \in Stored /\ Used(own_entries) + x.size <= MaxSize + 1
          /\ own_entries' = [j \in DOMAIN own_entries \cup {i} |->
                             IF j = i THEN x ELSE own_entries[j]]
          /\ own_by_type_map' = [own_by_type_map EXCEPT ![x.type] = Append(@, i)]
      BY <2>1, OwnedMeans
         DEF own!Store, own!RoomFor, own!Put, own!Entry, Stored
    <3>. QED
      BY <1>2, <2>0, <3>1, DriveStores
  <2>2. ASSUME NEW i \in OwnId, own!Delete(i)
        PROVE  Sound'
    <3>1. /\ i \in DOMAIN own_entries
          /\ own_entries' = [j \in DOMAIN own_entries \ {i} |-> own_entries[j]]
          /\ own_by_type_map' = [own_by_type_map EXCEPT ![own_entries[i].type] =
                 (CHOOSE h : Keeps(own_by_type_map[own_entries[i].type], i, h))
                     [Len(own_by_type_map[own_entries[i].type])]]
      BY <2>2, OwnedMeans DEF own!Delete
    <3>. QED
      BY <1>2, <2>0, <3>1, DriveDeletes
  <2>3. ASSUME UNCHANGED own!vars
        PROVE  Sound'
    BY <1>2, <2>3 DEF own!vars
  <2>. QED
    BY <1>2, <2>1, <2>2, <2>3 DEF own!Next, own!StoreRefused, own!DeleteMissing
<1>. QED
  BY <1>1, <1>2, PTL DEF own!Spec

-----------------------------------------------------------------------------

\* Plans, drive and history agree in every reachable state.
THEOREM Invariance == Spec => []IInv
<1>1. New => IInv
  BY NewInv
<1>2. IInv /\ [Next]_vars => IInv'
  BY StepInv
<1>. QED
  BY <1>1, <1>2, PTL DEF Spec

\* The integration keeps its types, the drive's included.
THEOREM TypeCorrect == Spec => []TypeOK
<1>1. IInv => TypeOK
  BY DEF IInv
<1>. QED
  BY <1>1, Invariance, PTL

\* An id whose last envelope was not refused has plan and entry of one type.
THEOREM PlansMatchDrive == Spec => []PlanMatchesDrive
<1>1. IInv => PlanMatchesDrive
  BY DEF IInv
<1>. QED
  BY <1>1, Invariance, PTL

\* Nothing is in the drive that was not planned.
THEOREM StoredIsPlanned == Spec => []StoredWasPlanned
<1>1. IInv => StoredWasPlanned
  BY DEF IInv
<1>. QED
  BY <1>1, Invariance, PTL

\* No plan sends an execution away, whatever the hook lets through.
THEOREM PlansStayHome == Spec => []RemotePlansInfer
<1>1. IInv => RemotePlansInfer
  BY DEF IInv
<1>. QED
  BY <1>1, Invariance, PTL

\* The integration uses the drive as SioDrive specifies it.
THEOREM ImplementsDrive == Spec => DriveSpec
<1>1. New => drive!Init
  BY DEF New
<1>2. [Next]_vars => [drive!Next]_(drive!vars)
  BY DriveStep DEF driveVars, drive!vars
<1>. QED
  BY <1>1, <1>2, PTL DEF Spec, DriveSpec, drive!Spec

\* Both drives of a behaviour keep to their specification.
LEMMA BothDrives == MCSpec => drive!Spec /\ own!Spec
<1>1. MCInit => New /\ own!Init
  BY DEF MCInit
<1>2. [MCNext]_<<user, vars, ownVars>> => [Next]_vars /\ [own!Next]_(own!vars)
  BY DEF MCNext, ownVars, own!vars
<1>3. New /\ [][Next]_vars => drive!Spec
  BY ImplementsDrive DEF Spec, DriveSpec
<1>. QED
  BY <1>1, <1>2, <1>3, PTL DEF MCSpec, own!Spec

\* What a drive holds never exceeds its limit, after any history of stores,
\* overwrites and deletes (sio_drive.rs:188).
THEOREM LimitKept == MCSpec => []WithinLimit
<1>1. /\ DriveInv(Id, MaxSize, entries, by_type_map)
      /\ DriveInv(OwnId, MaxSize + 1, own_entries, own_by_type_map)
      => WithinLimit
  BY IntegratedMeans, OwnedMeans DEF DriveInv, WithinLimit
<1>. QED
  BY <1>1, BothDrives, IntegratedSound, OwnedSound, PTL

\* A query by type misses no stored envelope of that type, although an overwrite
\* leaves the list of the older type alone (sio_drive.rs:283).
THEOREM QueriesComplete == MCSpec => []QueryComplete
<1>1. /\ DriveInv(Id, MaxSize, entries, by_type_map)
      /\ DriveInv(OwnId, MaxSize + 1, own_entries, own_by_type_map)
      => QueryComplete
  BY IntegratedMeans, OwnedMeans DEF DriveInv, QueryComplete
<1>. QED
  BY <1>1, BothDrives, IntegratedSound, OwnedSound, PTL

=============================================================================
