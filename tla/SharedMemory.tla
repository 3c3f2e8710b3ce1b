---------------------------- MODULE SharedMemory -----------------------------
(***************************************************************************)
(* The shared memory regions of RACIN channels (SharedMemoryRegion,        *)
(* src/rac/racin.rs, with std).  A region counts references, but has one   *)
(* owner: whoever retains, releases and drops it does so through the same  *)
(* value, and drop releases once more.  The heap is the allocator's.       *)
(***************************************************************************)
EXTENDS Integers

CONSTANTS
    Region,      \* the values of SharedMemoryRegion that are ever made
    Block,       \* addresses
    Null,
    Width,       \* the counter's values are 0..(Width - 1)
    MaxCalls     \* bound: retains and releases of one region, its drop included

ASSUME RegionAssumption == /\ Null \notin Block
                           /\ Width \in Nat /\ MaxCalls \in Nat /\ Width > 1
                           /\ 2 * MaxCalls < Width

VARIABLES
    status,      \* of a region: not made yet, live or dropped
    address, ref_count,
    heap,        \* the blocks that are allocated
    calls,       \* retains and releases so far
    block,       \* history: the address the region was made with
    adopted,     \* history: the regions made by from_address
    released,    \* history: the regions that deallocated
    revived,     \* history: the regions retained after that
    faults       \* history: the regions that deallocated what is not allocated

history == <<block, adopted, released, revived, faults>>
vars == <<status, address, ref_count, heap, calls, history>>

Init == /\ status = [r \in Region |-> "new"]
        /\ address = [r \in Region |-> Null] /\ block = [r \in Region |-> Null]
        /\ ref_count = [r \in Region |-> 0] /\ calls = [r \in Region |-> 0]
        /\ heap = {}
        /\ adopted = {} /\ released = {} /\ revived = {} /\ faults = {}

Make(r, b) == /\ status[r] = "new"
              /\ status' = [status EXCEPT ![r] = "live"]
              /\ address' = [address EXCEPT ![r] = b]
              /\ block' = [block EXCEPT ![r] = b]
              /\ ref_count' = [ref_count EXCEPT ![r] = 1]
              /\ UNCHANGED <<calls, released, revived, faults>>

\* Mutant: the region takes an address that it did not allocate.
NewAnywhere(r, b) == /\ Make(r, b)
                     /\ UNCHANGED <<heap, adopted>>

\* When the allocator has nothing to give, no region is made.
New(r, b) == /\ b \notin heap
             /\ Make(r, b)
             /\ heap' = heap \cup {b}
             /\ UNCHANGED adopted

\* Any address will do, in use or not.
FromAddress(r, b) == /\ Make(r, b)
                     /\ adopted' = adopted \cup {r}
                     /\ UNCHANGED heap

\* fetch_add and fetch_sub on an AtomicU32
Inc(n) == IF n = Width - 1 THEN 0 ELSE n + 1
Dec(n) == IF n = 0 THEN Width - 1 ELSE n - 1

Call(r) == /\ status[r] = "live" /\ calls[r] < MaxCalls
           /\ calls' = [calls EXCEPT ![r] = @ + 1]

Retain(r) == /\ Call(r)
             /\ ref_count' = [ref_count EXCEPT ![r] = Inc(@)]
             /\ revived' = IF r \in released THEN revived \cup {r} ELSE revived
             /\ UNCHANGED <<status, address, heap, block, adopted, released, faults>>

Deallocate(r) == /\ heap' = heap \ {address[r]}
                 /\ address' = [address EXCEPT ![r] = Null]
                 /\ faults' = IF address[r] \in heap THEN faults ELSE faults \cup {r}
                 /\ released' = released \cup {r}
                 /\ UNCHANGED <<block, adopted, revived>>

\* Mutant: the counter stops at zero, which then looks like the last reference.
FetchSubSaturating(r) ==
    /\ ref_count' = [ref_count EXCEPT ![r] = IF @ = 0 THEN 0 ELSE @ - 1]
    /\ IF ref_count[r] \in {0, 1} THEN Deallocate(r)
       ELSE UNCHANGED <<address, heap, history>>

\* Mutant: the value after the subtraction is compared, one reference early.
FetchSubEarly(r) ==
    /\ ref_count' = [ref_count EXCEPT ![r] = Dec(@)]
    /\ IF Dec(ref_count[r]) = 1 THEN Deallocate(r)
       ELSE UNCHANGED <<address, heap, history>>

\* The old value decides; the counter wraps below zero.
FetchSub(r) ==
    /\ ref_count' = [ref_count EXCEPT ![r] = Dec(@)]
    /\ IF ref_count[r] = 1 THEN Deallocate(r)
       ELSE UNCHANGED <<address, heap, history>>

Release(r) == /\ Call(r) /\ calls[r] < MaxCalls - 1
              /\ FetchSub(r)
              /\ UNCHANGED status

\* The owner, a RacinChannel or another, lets the region go.
Drop(r) == /\ Call(r)
           /\ FetchSub(r)
           /\ status' = [status EXCEPT ![r] = "dropped"]

Next == \E r \in Region : \/ \E b \in Block : New(r, b) \/ FromAddress(r, b)
                          \/ Retain(r) \/ Release(r) \/ Drop(r)

Spec == Init /\ [][Next]_vars

-----------------------------------------------------------------------------

\* Does another account for the block exist, next to the region's own?
Shared(r) == \E q \in adopted : block[q] = block[r]

\* The variables have their types, and a region has its address until it
\* deallocates.
TypeOK == /\ status \in [Region -> {"new", "live", "dropped"}]
          /\ address \in [Region -> Block \cup {Null}]
          /\ block \in [Region -> Block \cup {Null}]
          /\ ref_count \in [Region -> 0..(Width - 1)] /\ calls \in [Region -> 0..MaxCalls]
          /\ heap \subseteq Block
          /\ adopted \cup released \cup revived \cup faults \subseteq Region
          /\ \A r \in Region : address[r] = (IF r \in released THEN Null ELSE block[r])

\* A region that has not deallocated has memory behind its address, unless some
\* region was made from that address (racin.rs:150).
AddressUsable == \A r \in Region :
    status[r] # "new" /\ r \notin released /\ ~Shared(r) => address[r] \in heap

\* Releasing a region by hand before it is dropped does not free its memory
\* twice (racin.rs:175): the counter wraps.  Only a region that was retained after
\* it deallocated, or shares its address with one made from it, can.
FaultsExplained == \A r \in faults : r \in revived \/ Shared(r)

\* The memory of a dropped region is lost exactly when it was retained more often
\* than released (racin.rs:170): nobody is left who could release it.
LeaksRetained == \A r \in Region :
    status[r] = "dropped" /\ r \notin revived =>
        (r \notin released <=> ref_count[r] \in 1..MaxCalls)

=============================================================================
