-------------------------- MODULE RacMemoryProofs ---------------------------
(***************************************************************************)
(* Proofs about what the transports keep.  SharedMemory: any number of     *)
(* regions and blocks and any width of the counter that the calls do not   *)
(* exhaust.  Two facts carry them: what a region's counter can be before   *)
(* and after it deallocates (Counted), and that of two regions with one    *)
(* block, both accounting for it, one was made from the address (Apart).   *)
(* RacChannels: any number of ends and channels and any width of the ids,  *)
(* from how far a counter stands beyond an id that it gave (IdsBehind).    *)
(***************************************************************************)
EXTENDS SharedMemory, RacChannels, TLAPS

\* The counter: one to calls + 1 while the region has its memory (one less once it
\* is dropped); after that zero, or wrapped, unless somebody retained it again.
Counted ==
    \A r \in Region :
        /\ status[r] = "new" => ref_count[r] = 0 /\ calls[r] = 0 /\ r \notin released
        /\ status[r] # "new" /\ r \notin released => ref_count[r] \in 1..(calls[r] + 1)
        /\ status[r] = "dropped" /\ r \notin released => ref_count[r] <= calls[r]
        /\ r \in released /\ r \notin revived =>
               ref_count[r] = 0 \/ ref_count[r] >= Width - calls[r]

Account(r) == status[r] # "new" /\ r \notin released

Apart == \A r, q \in Region :
             r # q /\ Account(r) /\ Account(q) /\ block[r] = block[q] => Shared(r)

\* A region that was made has a block, those made from an address were made, and
\* only deallocations are faulty.
Made == /\ \A r \in Region : status[r] # "new" => block[r] \in Block
        /\ \A r \in adopted : status[r] # "new"
        /\ faults \subseteq released

IInv == TypeOK /\ Counted /\ Apart /\ Made /\ AddressUsable /\ FaultsExplained

-----------------------------------------------------------------------------

\* The initial state satisfies the inductive invariant.
LEMMA InitIInv == Init => IInv
<1> SUFFICES ASSUME Init PROVE IInv
  OBVIOUS
<1>1. TypeOK
  BY RegionAssumption DEF Init, TypeOK
<1>2. Counted /\ Apart /\ Made /\ AddressUsable /\ FaultsExplained
  BY DEF Init, Counted, Apart, Account, Made, AddressUsable, FaultsExplained
<1> QED
  BY <1>1, <1>2 DEF IInv

\* A region that is made (new, from_address) preserves everything but the heap's part.
LEMMA MakeStep ==
  ASSUME IInv, NEW r \in Region, NEW b \in Block, Make(r, b),
         heap' \subseteq Block, adopted' \subseteq adopted \cup {r},
         adopted \subseteq adopted',
         heap \subseteq heap',
         \/ r \in adopted' /\ heap' = heap
         \/ b \notin heap /\ b \in heap' /\ adopted' = adopted
  PROVE  IInv'
<1> USE DEF IInv
<1>1. /\ status[r] = "new" /\ status' = [status EXCEPT ![r] = "live"]
      /\ address' = [address EXCEPT ![r] = b] /\ block' = [block EXCEPT ![r] = b]
      /\ ref_count' = [ref_count EXCEPT ![r] = 1]
      /\ calls' = calls /\ released' = released /\ revived' = revived /\ faults' = faults
      /\ r \notin released
  BY DEF Make, Counted
<1>2. TypeOK'
  <2>1. status' \in [Region -> {"new", "live", "dropped"}]
    BY <1>1 DEF TypeOK
  <2>2. /\ address' \in [Region -> Block \cup {Null}]
        /\ block' \in [Region -> Block \cup {Null}]
    BY <1>1 DEF TypeOK
  <2>3. ref_count' \in [Region -> 0..(Width - 1)] /\ calls' \in [Region -> 0..MaxCalls]
    BY <1>1, RegionAssumption DEF TypeOK
  <2>4. \A q \in Region : address'[q] = (IF q \in released' THEN Null ELSE block'[q])
    BY <1>1 DEF TypeOK
  <2>5. adopted' \cup released' \cup revived' \cup faults' \subseteq Region
    BY <1>1 DEF TypeOK
  <2> QED
    BY <2>1, <2>2, <2>3, <2>4, <2>5 DEF TypeOK
<1>3. Counted'
  BY <1>1 DEF Counted, TypeOK
<1>4. \A q \in Region : q # r => block'[q] = block[q] /\ address'[q] = address[q]
                                 /\ status'[q] = status[q]
  BY <1>1 DEF TypeOK
<1>5. block'[r] = b /\ address'[r] = b /\ status'[r] = "live"
  BY <1>1 DEF TypeOK
<1>6. Made'
  <2>1. \A q \in Region : status'[q] # "new" => block'[q] \in Block
    BY <1>4, <1>5 DEF Made
  <2>2. \A q \in adopted' : status'[q] # "new"
    BY <1>4, <1>5 DEF Made, TypeOK
  <2> QED
    BY <2>1, <2>2, <1>1 DEF Made
<1>7. \A q \in Region : q # r /\ Shared(q) => Shared(q)'
  <2> SUFFICES ASSUME NEW q \in Region, q # r, NEW p \in adopted, block[p] = block[q]
               PROVE  Shared(q)'
    BY DEF Shared
  <2>1. p \in Region /\ p # r
    BY <1>1 DEF TypeOK, Made
  <2> QED
    BY <2>1, <1>4 DEF Shared
<1>8. r \in adopted' => \A q \in Region : block'[q] = b => Shared(q)'
  BY <1>5 DEF Shared
<1>9. \A q \in Region : q # r /\ Account(q) /\ block[q] = b => Shared(q)' /\ Shared(r)'
  <2> SUFFICES ASSUME NEW q \in Region, q # r, Account(q), block[q] = b
               PROVE  Shared(q)' /\ Shared(r)'
    OBVIOUS
  <2>1. CASE r \in adopted'
    BY <2>1, <1>8, <1>4, <1>5
  <2>2. CASE b \notin heap
    <3>1. address[q] = b
      BY DEF Account, TypeOK
    <3>2. Shared(q)
      BY <2>2, <3>1 DEF AddressUsable, Account
    <3>3. Shared(q)'
      BY <3>2, <1>7
    <3> QED
      BY <3>3, <1>4, <1>5 DEF Shared
  <2> QED
    BY <2>1, <2>2
<1>10. \A q \in Region : Account(q)' /\ q # r => Account(q)
  BY <1>1, <1>4 DEF Account
<1>11. Apart'
  <2> SUFFICES ASSUME NEW p \in Region, NEW q \in Region, p # q, Account(p)', Account(q)',
                      block'[p] = block'[q]
               PROVE  Shared(p)'
    BY DEF Apart
  <2>1. CASE p = r
    BY <2>1, <1>4, <1>5, <1>9, <1>10
  <2>2. CASE q = r
    BY <2>2, <1>4, <1>5, <1>9, <1>10
  <2>3. CASE p # r /\ q # r
    BY <2>3, <1>4, <1>7, <1>10 DEF Apart
  <2> QED
    BY <2>1, <2>2, <2>3
<1>12. AddressUsable'
  <2> SUFFICES ASSUME NEW q \in Region, status'[q] # "new", q \notin released', ~Shared(q)'
               PROVE  address'[q] \in heap'
    BY DEF AddressUsable
  <2>1. CASE q = r
    BY <2>1, <1>5, <1>8
  <2>2. CASE q # r
    BY <2>2, <1>1, <1>4, <1>7 DEF AddressUsable
  <2> QED
    BY <2>1, <2>2
<1>13. FaultsExplained'
  <2> SUFFICES ASSUME NEW q \in faults PROVE q \in revived \/ Shared(q)'
    BY <1>1 DEF FaultsExplained
  <2>1. q \in Region
    BY DEF TypeOK
  <2>2. q \in revived \/ Shared(q)
    BY DEF FaultsExplained
  <2>3. q # r
    BY <1>1 DEF Made
  <2> QED
    BY <2>1, <2>2, <2>3, <1>7
<1> QED
  BY <1>2, <1>3, <1>6, <1>11, <1>12, <1>13

\* What a call leaves alone when it does not deallocate.
LEMMA KeepStep ==
  ASSUME IInv, UNCHANGED <<address, heap, block, adopted, released, faults>>,
         \A r \in Region : status'[r] = "new" <=> status[r] = "new",
         revived \subseteq revived'
  PROVE  Apart' /\ Made' /\ AddressUsable' /\ FaultsExplained'
<1> USE DEF IInv
<1>1. Apart' /\ Made'
  BY DEF Apart, Account, Made, Shared, TypeOK
<1>2. AddressUsable'
  BY DEF AddressUsable, Shared
<1>3. FaultsExplained'
  BY DEF FaultsExplained, Shared
<1> QED
  BY <1>1, <1>2, <1>3

\* Retaining (SharedMemoryRegion::retain).
LEMMA RetainStep ==
  ASSUME IInv, NEW r \in Region, Retain(r) PROVE IInv'
<1> USE DEF IInv
<1>1. /\ status[r] = "live" /\ calls[r] < MaxCalls
      /\ calls' = [calls EXCEPT ![r] = @ + 1]
      /\ ref_count' = [ref_count EXCEPT ![r] = Inc(@)]
      /\ revived' = (IF r \in released THEN revived \cup {r} ELSE revived)
      /\ UNCHANGED <<status, address, heap, block, adopted, released, faults>>
  BY DEF Retain, Call
<1>2. ref_count[r] \in 0..(Width - 1) /\ calls[r] \in 0..MaxCalls
  BY DEF TypeOK
<1>3. Inc(ref_count[r]) \in 0..(Width - 1)
  BY <1>2, RegionAssumption DEF Inc
<1>4. r \notin released => Inc(ref_count[r]) = ref_count[r] + 1
  <2>1. r \notin released => ref_count[r] <= calls[r] + 1
    BY <1>1 DEF Counted
  <2> QED
    BY <1>1, <1>2, <2>1, RegionAssumption DEF Inc
<1>5. TypeOK'
  <2>1. ref_count' \in [Region -> 0..(Width - 1)]
    BY <1>1, <1>3 DEF TypeOK
  <2>2. calls' \in [Region -> 0..MaxCalls]
    BY <1>1, <1>2, RegionAssumption DEF TypeOK
  <2>3. adopted' \cup released' \cup revived' \cup faults' \subseteq Region
    BY <1>1 DEF TypeOK
  <2> QED
    BY <1>1, <2>1, <2>2, <2>3 DEF TypeOK
<1>6. Counted'
  <2> SUFFICES ASSUME NEW q \in Region
               PROVE  /\ status'[q] = "new" => /\ ref_count'[q] = 0 /\ calls'[q] = 0
                                               /\ q \notin released'
                      /\ status'[q] # "new" /\ q \notin released' =>
                             ref_count'[q] \in 1..(calls'[q] + 1)
                      /\ status'[q] = "dropped" /\ q \notin released' =>
                             ref_count'[q] <= calls'[q]
                      /\ q \in released' /\ q \notin revived' =>
                             ref_count'[q] = 0 \/ ref_count'[q] >= Width - calls'[q]
    BY DEF Counted
  <2>1. CASE q = r
    <3>1. ref_count'[q] = Inc(ref_count[r]) /\ calls'[q] = calls[r] + 1
      BY <2>1, <1>1 DEF TypeOK
    <3>2. r \notin released => ref_count[r] \in 1..(calls[r] + 1)
      BY <1>1 DEF Counted
    <3> QED
      BY <2>1, <3>1, <3>2, <1>1, <1>2, <1>4
  <2>2. CASE q # r
    <3>1. ref_count'[q] = ref_count[q] /\ calls'[q] = calls[q]
      BY <2>2, <1>1 DEF TypeOK
    <3> QED
      BY <2>2, <3>1, <1>1 DEF Counted
  <2> QED
    BY <2>1, <2>2
<1>7. Apart' /\ Made' /\ AddressUsable' /\ FaultsExplained'
  BY <1>1, KeepStep
<1> QED
  BY <1>5, <1>6, <1>7

\* Deallocating, for the first time or again (SharedMemoryRegion::deallocate).
LEMMA DeallocateStep ==
  ASSUME IInv, NEW r \in Region, Deallocate(r), status[r] = "live",
         r \in released => r \in revived,
         \A q \in Region : status'[q] = "new" <=> status[q] = "new"
  PROVE  Apart' /\ Made' /\ AddressUsable' /\ FaultsExplained'
<1> USE DEF IInv
<1>1. /\ heap' = heap \ {address[r]} /\ address' = [address EXCEPT ![r] = Null]
      /\ faults' = (IF address[r] \in heap THEN faults ELSE faults \cup {r})
      /\ released' = released \cup {r}
      /\ block' = block /\ adopted' = adopted /\ revived' = revived
  BY DEF Deallocate
<1>2. \A q \in Region : Shared(q)' <=> Shared(q)
  BY <1>1 DEF Shared
<1>3. Apart'
  BY <1>1, <1>2 DEF Apart, Account
<1>4. Made'
  <2>1. \A q \in Region : status'[q] # "new" => block'[q] \in Block
    BY <1>1 DEF Made
  <2>2. \A q \in adopted' : status'[q] # "new"
    BY <1>1 DEF Made, TypeOK
  <2>3. faults' \subseteq released'
    BY <1>1 DEF Made
  <2> QED
    BY <2>1, <2>2, <2>3 DEF Made
<1>5. AddressUsable'
  <2> SUFFICES ASSUME NEW q \in Region, status'[q] # "new", q \notin released', ~Shared(q)'
               PROVE  address'[q] \in heap'
    BY DEF AddressUsable
  <2>1. q # r /\ q \notin released /\ Account(q) /\ ~Shared(q)
    BY <1>1, <1>2 DEF Account
  <2>2. address[q] \in heap /\ address'[q] = address[q] /\ address[q] = block[q]
    BY <2>1, <1>1 DEF AddressUsable, TypeOK, Account
  <2>3. address[q] # address[r]
    <3>1. CASE r \in released
      <4>1. address[r] = Null /\ address[q] \in Block
        BY <3>1, <2>2 DEF TypeOK
      <4> QED
        BY <4>1, RegionAssumption
    <3>2. CASE r \notin released
      <4>1. address[r] = block[r] /\ Account(r)
        BY <3>2 DEF TypeOK, Account
      <4>2. block[q] # block[r]
        BY <4>1, <2>1 DEF Apart
      <4> QED
        BY <4>1, <4>2, <2>2
    <3> QED
      BY <3>1, <3>2
  <2> QED
    BY <2>2, <2>3, <1>1
<1>6. FaultsExplained'
  <2>1. address[r] \notin heap => r \in revived \/ Shared(r)
    BY DEF AddressUsable
  <2>2. \A q \in faults : q \in Region /\ (q \in revived \/ Shared(q))
    BY DEF FaultsExplained, TypeOK
  <2> QED
    BY <2>1, <2>2, <1>1, <1>2 DEF FaultsExplained
<1> QED
  BY <1>3, <1>4, <1>5, <1>6

\* Releasing and dropping (SharedMemoryRegion::release and drop), at once.
LEMMA ReleaseStep ==
  ASSUME IInv, NEW r \in Region, Call(r), FetchSub(r),
         status' \in {status, [status EXCEPT ![r] = "dropped"]}
  PROVE  IInv'
<1> USE DEF IInv
<1>1. /\ status[r] = "live" /\ calls[r] < MaxCalls
      /\ calls' = [calls EXCEPT ![r] = @ + 1]
      /\ ref_count' = [ref_count EXCEPT ![r] = Dec(@)]
  BY DEF Call, FetchSub
<1>2. ref_count[r] \in 0..(Width - 1) /\ calls[r] \in 0..MaxCalls
  BY DEF TypeOK
<1>3. Dec(ref_count[r]) \in 0..(Width - 1)
  BY <1>2, RegionAssumption DEF Dec
<1>4. /\ status' \in [Region -> {"new", "live", "dropped"}]
      /\ \A q \in Region : status'[q] = "new" <=> status[q] = "new"
      /\ \A q \in Region : q # r => status'[q] = status[q]
  BY <1>1 DEF TypeOK
<1>5. ref_count' \in [Region -> 0..(Width - 1)]
  BY <1>1, <1>3 DEF TypeOK
<1>6. calls' \in [Region -> 0..MaxCalls]
  BY <1>1, <1>2, RegionAssumption DEF TypeOK
<1>7. /\ ref_count'[r] = Dec(ref_count[r]) /\ calls'[r] = calls[r] + 1
      /\ \A q \in Region : q # r => ref_count'[q] = ref_count[q] /\ calls'[q] = calls[q]
  BY <1>1 DEF TypeOK
<1>8. r \in released /\ r \notin revived => ref_count[r] # 1
  <2>1. r \in released /\ r \notin revived =>
            ref_count[r] = 0 \/ ref_count[r] >= Width - calls[r]
    BY DEF Counted
  <2> QED
    BY <2>1, <1>1, <1>2, RegionAssumption
<1>9. revived' = revived
  BY DEF FetchSub, Deallocate, history
<1>10. released' = (IF ref_count[r] = 1 THEN released \cup {r} ELSE released)
  BY DEF FetchSub, Deallocate, history
<1>11. Counted'
  <2> SUFFICES ASSUME NEW q \in Region
               PROVE  /\ status'[q] = "new" => /\ ref_count'[q] = 0 /\ calls'[q] = 0
                                               /\ q \notin released'
                      /\ status'[q] # "new" /\ q \notin released' =>
                             ref_count'[q] \in 1..(calls'[q] + 1)
                      /\ status'[q] = "dropped" /\ q \notin released' =>
                             ref_count'[q] <= calls'[q]
                      /\ q \in released' /\ q \notin revived' =>
                             ref_count'[q] = 0 \/ ref_count'[q] >= Width - calls'[q]
    BY DEF Counted
  <2>1. CASE q = r
    <3>1. CASE ref_count[r] = 1
      BY <2>1, <3>1, <1>1, <1>4, <1>7, <1>10 DEF Dec
    <3>2. CASE ref_count[r] # 1 /\ r \notin released
      <4>1. ref_count[r] \in 1..(calls[r] + 1)
        BY <1>1, <3>2 DEF Counted
      <4> QED
        BY <2>1, <3>2, <4>1, <1>1, <1>2, <1>4, <1>7, <1>10 DEF Dec
    <3>3. CASE ref_count[r] # 1 /\ r \in released
      <4>1. r \notin revived => ref_count[r] = 0 \/ ref_count[r] >= Width - calls[r]
        BY <3>3 DEF Counted
      <4> QED
        BY <2>1, <3>3, <4>1, <1>1, <1>2, <1>4, <1>7, <1>9, <1>10, RegionAssumption DEF Dec
    <3> QED
      BY <3>1, <3>2, <3>3
  <2>2. CASE q # r
    BY <2>2, <1>4, <1>7, <1>9, <1>10 DEF Counted
  <2> QED
    BY <2>1, <2>2
<1>12. CASE ref_count[r] = 1
  <2>1. Deallocate(r)
    BY <1>12 DEF FetchSub
  <2>2. Apart' /\ Made' /\ AddressUsable' /\ FaultsExplained'
    BY <2>1, <1>1, <1>4, <1>8, <1>12, DeallocateStep
  <2>3. TypeOK'
    <3>1. /\ address' = [address EXCEPT ![r] = Null] /\ heap' \subseteq heap
          /\ block' = block /\ adopted' = adopted
          /\ released' = released \cup {r} /\ faults' \subseteq faults \cup {r}
      BY <2>1 DEF Deallocate
    <3>2. /\ address' \in [Region -> Block \cup {Null}]
          /\ block' \in [Region -> Block \cup {Null}]
      BY <3>1 DEF TypeOK
    <3>3. \A q \in Region : address'[q] = (IF q \in released' THEN Null ELSE block'[q])
      BY <3>1 DEF TypeOK
    <3>4. adopted' \cup released' \cup revived' \cup faults' \subseteq Region
      BY <3>1, <1>9 DEF TypeOK
    <3>5. heap' \subseteq Block
      BY <3>1 DEF TypeOK
    <3> QED
      BY <1>4, <1>5, <1>6, <3>2, <3>3, <3>4, <3>5 DEF TypeOK
  <2> QED
    BY <1>11, <2>2, <2>3
<1>13. CASE ref_count[r] # 1
  <2>1. UNCHANGED <<address, heap, block, adopted, released, faults, revived>>
    BY <1>13 DEF FetchSub, history
  <2>2. Apart' /\ Made' /\ AddressUsable' /\ FaultsExplained'
    BY <2>1, <1>4, KeepStep
  <2>3. TypeOK'
    BY <2>1, <1>4, <1>5, <1>6 DEF TypeOK
  <2> QED
    BY <1>11, <2>2, <2>3
<1> QED
  BY <1>12, <1>13

\* Every step preserves the inductive invariant.
LEMMA StepIInv == IInv /\ [Next]_vars => IInv'
<1> SUFFICES ASSUME IInv, [Next]_vars PROVE IInv'
  OBVIOUS
<1>1. ASSUME NEW r \in Region, NEW b \in Block, New(r, b) PROVE IInv'
  <2>1. Make(r, b) /\ b \notin heap /\ heap' = heap \cup {b} /\ adopted' = adopted
    BY <1>1 DEF New
  <2>2. heap' \subseteq Block
    BY <2>1 DEF IInv, TypeOK
  <2> QED
    BY <2>1, <2>2, MakeStep
<1>2. ASSUME NEW r \in Region, NEW b \in Block, FromAddress(r, b) PROVE IInv'
  <2>1. Make(r, b) /\ heap' = heap /\ adopted' = adopted \cup {r}
    BY <1>2 DEF FromAddress
  <2>2. heap' \subseteq Block
    BY <2>1 DEF IInv, TypeOK
  <2> QED
    BY <2>1, <2>2, MakeStep
<1>3. ASSUME NEW r \in Region, Retain(r) PROVE IInv'
  BY <1>3, RetainStep
<1>4. ASSUME NEW r \in Region, Release(r) PROVE IInv'
  BY <1>4, ReleaseStep DEF Release
<1>5. ASSUME NEW r \in Region, Drop(r) PROVE IInv'
  BY <1>5, ReleaseStep DEF Drop
<1>6. CASE UNCHANGED vars
  BY <1>6 DEF vars, history, IInv, TypeOK, Counted, Apart, Account, Made, AddressUsable,
              FaultsExplained, Shared
<1> QED
  BY <1>1, <1>2, <1>3, <1>4, <1>5, <1>6 DEF Next

\* The inductive invariant holds always.
LEMMA IInvAlways == Spec => []IInv
  BY InitIInv, StepIInv, PTL DEF Spec

-----------------------------------------------------------------------------

\* The regions keep their types, and their addresses until they deallocate
\* (SharedMemoryRegion).
THEOREM TypeCorrect == Spec => []TypeOK
  BY IInvAlways, PTL DEF IInv

\* A region that nobody made another from has its memory until it deallocates
\* (SharedMemoryRegion::from_address is the only way to lose it).
THEOREM MemoryStays == Spec => []AddressUsable
  BY IInvAlways, PTL DEF IInv

\* However releases and the drop follow one another, memory is freed twice only
\* by a region that was revived or shares its address (release and drop).
THEOREM NoDoubleFree == Spec => []FaultsExplained
  BY IInvAlways, PTL DEF IInv

\* A dropped region loses its memory exactly if retains outnumbered releases
\* (SharedMemoryRegion::retain).
THEOREM LeakIsRetained == Spec => []LeaksRetained
<1>1. IInv => LeaksRetained
  <2> SUFFICES ASSUME IInv, NEW r \in Region, status[r] = "dropped", r \notin revived
               PROVE  r \notin released <=> ref_count[r] \in 1..MaxCalls
    BY DEF LeaksRetained
  <2>1. ref_count[r] \in 0..(Width - 1) /\ calls[r] \in 0..MaxCalls
    BY DEF IInv, TypeOK
  <2>2. r \notin released => ref_count[r] \in 1..(calls[r] + 1) /\ ref_count[r] <= calls[r]
    BY DEF IInv, Counted
  <2>3. r \in released => ref_count[r] = 0 \/ ref_count[r] >= Width - calls[r]
    BY DEF IInv, Counted
  <2> QED
    BY <2>1, <2>2, <2>3, RegionAssumption
<1> QED
  BY <1>1, IInvAlways, PTL

-----------------------------------------------------------------------------
(* The channels.                                                           *)

\* The id that follows another by so many steps, fewer than go round.
After(id, steps) == IF id + steps < IdWidth THEN id + steps ELSE id + steps - IdWidth

\* The counter stands as far beyond an id as ids were taken since.
IdsBehind == \A c \in channels :
    /\ c.nth < made[c.kind]
    /\ made[c.kind] - c.nth < IdWidth =>
           counter[c.kind] = After(c.id, made[c.kind] - c.nth)

ChannelInv == /\ ChannelsAccounted
              /\ server \in [Server -> {"Idle", "Connecting", "Connected", "Closed"}]
              /\ made \in [Kind -> Nat]
              /\ IdsBehind

\* Who makes channels: nobody, a client, or a server that has listened.
Maker(from) == \/ from \in RacexClient \cup {Nobody}
               \/ from \in RacexServer /\ server[from] # "Idle"

\* A counter that is taken from goes on by one, and from its last value to 0.
LEMMA TakenNext ==
    ASSUME NEW id \in 0..(IdWidth - 1)
    PROVE  (id + 1) % IdWidth = After(id, 1)
<1>1. IdWidth \in Nat /\ IdWidth > 1
  BY SizesAssumption
<1>. QED
  BY <1>1 DEF After

\* A new channel is accounted for next to those in use: fewer than IdWidth steps
\* back, no id is the counter's.
LEMMA MakeChannelStep ==
    ASSUME ChannelInv, NEW k \in Kind, NEW from, NEW endpoint \in Endpoint \cup {Nobody},
           k = "Racex" <=> endpoint # Nobody,
           Maker(from),
           MakeChannel(k, from, endpoint), UNCHANGED ends
    PROVE  ChannelInv'
<1> DEFINE new == [kind |-> k, id |-> counter[k], nth |-> made[k],
                   from |-> from, endpoint |-> endpoint]
<1>1. /\ IdWidth \in Nat /\ IdWidth > 1 /\ MaxMade \in [Kind -> Nat]
      /\ RacexClient \cap Server = {} /\ Nobody \notin Server
  BY SizesAssumption, EndpointAssumption
<1>2. /\ counter \in [Kind -> 0..(IdWidth - 1)] /\ made \in [Kind -> Nat]
      /\ channels \subseteq Channel
  BY DEF ChannelInv, ChannelsAccounted, ChannelTypeOK
<1>3. /\ channels' = channels \cup {new}
      /\ made' = [made EXCEPT ![k] = @ + 1] /\ made[k] < MaxMade[k]
      /\ counter' = [counter EXCEPT ![k] = After(@, 1)]
  BY <1>2, TakenNext DEF MakeChannel, Take
<1>4. /\ counter' \in [Kind -> 0..(IdWidth - 1)]
      /\ made' \in [Kind -> Nat]
      /\ \A j \in Kind : made'[j] \in 0..MaxMade[j]
  <2>1. After(counter[k], 1) \in 0..(IdWidth - 1)
    BY <1>1, <1>2 DEF After
  <2>2. \A j \in Kind : made[j] \in 0..MaxMade[j]
    BY DEF ChannelInv, ChannelsAccounted, ChannelTypeOK
  <2>. QED
    BY <1>1, <1>2, <1>3, <2>1, <2>2
<1>5. new \in Channel
  BY <1>2 DEF Channel, Server, Maker
<1>6. ChannelTypeOK'
  <2>1. \A c \in channels' : c.kind = "Racex" <=> c.endpoint # Nobody
    BY <1>3 DEF ChannelInv, ChannelsAccounted, ChannelTypeOK
  <2>2. channels' \subseteq Channel
    BY <1>2, <1>3, <1>5
  <2>. QED
    BY <1>4, <2>1, <2>2 DEF ChannelInv, ChannelsAccounted, ChannelTypeOK, ends
<1>7. OnlyListenersServe'
  BY <1>1, <1>3 DEF ChannelInv, ChannelsAccounted, OnlyListenersServe, ends, Server, Maker
<1>8. IdsBehind'
  <2>1. new.nth < made'[k] /\ counter'[k] = After(new.id, 1) /\ made'[k] - new.nth = 1
    BY <1>2, <1>3
  <2>2. ASSUME NEW c \in channels
        PROVE  /\ c.nth < made'[c.kind]
               /\ made'[c.kind] - c.nth < IdWidth =>
                      counter'[c.kind] = After(c.id, made'[c.kind] - c.nth)
    <3>1. /\ c.kind \in Kind /\ c.nth \in Nat /\ c.id \in 0..(IdWidth - 1)
          /\ c.nth < made[c.kind]
          /\ made[c.kind] - c.nth < IdWidth =>
                 counter[c.kind] = After(c.id, made[c.kind] - c.nth)
      BY <1>2 DEF Channel, ChannelInv, IdsBehind
    <3>2. CASE c.kind # k
      BY <1>2, <1>3, <3>1, <3>2
    <3>3. CASE c.kind = k
      <4>1. made'[k] = made[k] + 1 /\ counter'[k] = After(counter[k], 1)
        BY <1>2, <1>3
      <4>2. made[k] \in Nat /\ counter[k] \in 0..(IdWidth - 1)
        BY <1>2
      <4>. QED
        BY <1>1, <3>1, <3>3, <4>1, <4>2 DEF After
    <3>. QED
      BY <3>2, <3>3
  <2>. QED
    BY <1>3, <2>1, <2>2 DEF IdsBehind
<1>9. IdsUnique'
  <2>1. ASSUME NEW c \in channels, c.kind = k, c.id = new.id
        PROVE  c.nth < new.nth /\ new.nth - c.nth >= IdWidth
    <3>1. /\ c.nth \in Nat /\ c.id \in 0..(IdWidth - 1)
          /\ c.nth < made[k]
          /\ made[k] - c.nth < IdWidth => counter[k] = After(c.id, made[k] - c.nth)
      BY <1>2, <2>1 DEF Channel, ChannelInv, IdsBehind
    <3>2. made[k] \in Nat
      BY <1>2
    <3>. QED
      BY <1>1, <2>1, <3>1, <3>2 DEF After
  <2>2. IdsUnique /\ \A c \in channels : c.nth \in Nat
    BY <1>2 DEF ChannelInv, ChannelsAccounted, Channel
  <2>3. new.nth \in Nat /\ new.kind = k
    BY <1>2
  <2>4. SUFFICES ASSUME NEW c \in channels', NEW d \in channels',
                        c.kind = d.kind, c.id = d.id, c.nth < d.nth
                 PROVE  d.nth - c.nth >= IdWidth
    BY DEF IdsUnique
  <2>5. CASE c \in channels /\ d \in channels
    BY <2>2, <2>4, <2>5 DEF IdsUnique
  <2>6. CASE c \in channels /\ d = new
    BY <2>1, <2>3, <2>4, <2>6
  <2>7. CASE c = new
    BY <1>3, <2>1, <2>2, <2>3, <2>4, <2>7
  <2>. QED
    BY <1>3, <2>5, <2>6, <2>7
<1>. QED
  BY <1>4, <1>6, <1>7, <1>8, <1>9 DEF ChannelInv, ChannelsAccounted, ends

\* A server that enters a state of its own keeps the channels accounted for.
LEMMA EntersStep ==
    ASSUME ChannelInv, NEW s \in Server, NEW state, Enters(s, state),
           \/ s \in RacidServer /\ state \in {"Connecting", "Closed"}
           \/ s \in RacexServer /\ state \in {"Connected", "Closed"},
           RacidServer \cap RacexServer = {}
    PROVE  ChannelInv'
<1>1. /\ server' = [server EXCEPT ![s] = state]
      /\ UNCHANGED <<counter, made, channels, client, default_endpoint>>
  BY DEF Enters, ids
<1>2. server' \in [Server -> {"Idle", "Connecting", "Connected", "Closed"}]
  BY <1>1 DEF ChannelInv
<1>3. ChannelTypeOK'
  BY <1>1 DEF ChannelInv, ChannelsAccounted, ChannelTypeOK, Server
<1>4. OnlyListenersServe'
  BY <1>1 DEF ChannelInv, ChannelsAccounted, OnlyListenersServe
<1>5. IdsUnique' /\ IdsBehind'
  BY <1>1 DEF ChannelInv, ChannelsAccounted, IdsUnique, IdsBehind
<1>. QED
  BY <1>1, <1>2, <1>3, <1>4, <1>5 DEF ChannelInv, ChannelsAccounted

\* A client that changes state or endpoint touches no channel.
LEMMA ClientStep ==
    ASSUME ChannelInv, UNCHANGED <<ids, server>>,
           client' \in [RacidClient -> {"Idle", "Connecting", "Closed"}],
           default_endpoint' \in [RacexClient -> Endpoint \cup {Nobody}]
    PROVE  ChannelInv'
BY DEF ids, ChannelInv, ChannelsAccounted, ChannelTypeOK, OnlyListenersServe, IdsUnique,
       IdsBehind

\* Every operation keeps the channels accounted for.
LEMMA ChannelStep ==
    ASSUME ChannelInv, [ChannelNext]_channelVars
    PROVE  ChannelInv'
<1>1. /\ RacexClient \cap Server = {} /\ RacidServer \cap RacexServer = {}
      /\ Nobody \notin Server \cup RacexClient \cup Endpoint /\ Local \in Endpoint
  BY EndpointAssumption DEF Server
<1>2. /\ \A s \in RacidServer : server[s] # "Connected"
      /\ client \in [RacidClient -> {"Idle", "Connecting", "Closed"}]
      /\ default_endpoint \in [RacexClient -> Endpoint \cup {Nobody}]
  BY DEF ChannelInv, ChannelsAccounted, ChannelTypeOK
<1>3. /\ Maker(Nobody) /\ \A c \in RacexClient : Maker(c)
      /\ \A s \in RacexServer : server[s] = "Connected" => Maker(s)
  BY DEF Maker
<1>4. ASSUME NEW from, Maker(from), UNCHANGED ends,
             \/ NewRacin(from) \/ NewRacid(from)
             \/ \E e \in Endpoint : NewRacex(from, e)
             \/ MakeChannel("Ffi", from, Nobody)
      PROVE  ChannelInv'
  <2>1. ASSUME NEW k \in Kind \ {"Racex"}, MakeChannel(k, from, Nobody)
        PROVE  ChannelInv'
    BY <1>1, <1>4, <2>1, MakeChannelStep
  <2>2. ASSUME NEW e \in Endpoint, MakeChannel("Racex", from, e)
        PROVE  ChannelInv'
    <3>1. "Racex" \in Kind /\ e # Nobody
      BY <1>1 DEF Kind
    <3>. QED
      BY <1>4, <2>2, <3>1, MakeChannelStep
  <2>. QED
    BY <1>4, <2>1, <2>2 DEF NewRacin, NewRacid, NewRacex, Kind
<1>5. ASSUME NEW c \in channels, DropChannel(c)
      PROVE  ChannelInv'
  BY <1>5 DEF DropChannel, ends, ChannelInv, ChannelsAccounted, ChannelTypeOK,
              OnlyListenersServe, IdsUnique, IdsBehind
<1>6. CASE Serve
  <2>1. ASSUME NEW s \in RacidServer, RacidListen(s) \/ RacidClose(s)
        PROVE  ChannelInv'
    BY <1>1, <2>1, EntersStep DEF RacidListen, RacidClose, Server
  <2>2. ASSUME NEW s \in RacexServer, RacexListen(s) \/ RacexClose(s)
        PROVE  ChannelInv'
    BY <1>1, <2>2, EntersStep DEF RacexListen, RacexClose, Server
  <2>3. ASSUME UNCHANGED channelVars
        PROVE  ChannelInv'
    BY <1>2, <2>3, ClientStep DEF channelVars, ends
  <2>4. ASSUME NEW s \in RacidServer, RacidAccept(s)
        PROVE  ChannelInv'
    BY <1>2, <2>3, <2>4 DEF RacidAccept, Refuse
  <2>5. ASSUME NEW s \in RacexServer, RacexAccept(s)
        PROVE  ChannelInv'
    BY <1>3, <1>4, <2>3, <2>5 DEF RacexAccept, Refuse
  <2>. QED
    BY <1>6, <2>1, <2>2, <2>4, <2>5 DEF Serve
<1>7. CASE Connect
  <2>1. ASSUME NEW c \in RacidClient,
               RacidConnect(c) \/ RacidTransfer(c) \/ RacidDisconnect(c)
        PROVE  ChannelInv'
    BY <1>2, <2>1, ClientStep
       DEF RacidConnect, RacidTransfer, RacidDisconnect, channelVars, ends
  <2>2. ASSUME NEW c \in RacexClient, NEW e \in Endpoint, WithDefaultEndpoint(c, e)
        PROVE  ChannelInv'
    BY <1>2, <2>2, ClientStep DEF WithDefaultEndpoint
  <2>3. ASSUME NEW c \in RacexClient, NEW e \in Endpoint, RacexConnect(c, e)
        PROVE  ChannelInv'
    BY <1>3, <1>4, <2>3 DEF RacexConnect
  <2>4. ASSUME NEW c \in RacexClient, ConnectDefault(c)
        PROVE  ChannelInv'
    BY <1>2, <2>3, <2>4 DEF ConnectDefault
  <2>. QED
    BY <1>7, <2>1, <2>2, <2>3, <2>4 DEF Connect
<1>8. ASSUME UNCHANGED channelVars
      PROVE  ChannelInv'
  BY <1>2, <1>8, ClientStep DEF channelVars, ends
<1>9. ASSUME NewBridge \/ \E p \in RacProtocol : CreateChannel(p)
      PROVE  ChannelInv'
  BY <1>1, <1>3, <1>4, <1>9 DEF NewBridge, CreateChannel
<1>. QED
  BY <1>5, <1>6, <1>7, <1>8, <1>9 DEF ChannelNext, Send

-----------------------------------------------------------------------------

\* The channels are accounted for in every reachable state.
THEOREM ChannelInvariance == ChannelSpec => []ChannelInv
<1>1. ChannelInit => ChannelInv
  BY SizesAssumption, EndpointAssumption
     DEF ChannelInit, ChannelInv, ChannelsAccounted, ChannelTypeOK, OnlyListenersServe,
         IdsUnique, IdsBehind, Server, Kind
<1>2. ChannelInv /\ [ChannelNext]_channelVars => ChannelInv'
  BY ChannelStep
<1>. QED
  BY <1>1, <1>2, PTL DEF ChannelSpec

\* Two channels in use of one type share an id only if the counter went all the way
\* round between them, and only ends that may hand out channels did
\* (generate_channel_id, accept), for any width and any number of ends.
THEOREM ChannelsTold == ChannelSpec => []ChannelsAccounted
<1>1. ChannelInv => ChannelsAccounted
  BY DEF ChannelInv
<1>. QED
  BY <1>1, ChannelInvariance, PTL

=============================================================================
