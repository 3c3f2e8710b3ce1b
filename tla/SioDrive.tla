------------------------------ MODULE SioDrive ------------------------------
(***************************************************************************)
(* The in-memory SIO store (src/rac/sio_drive.rs): envelopes by id under a *)
(* size limit, and a second map from type to the list of ids stored with   *)
(* it.  The tag map is left out: no operation of the drive puts a tag on   *)
(* an entry, so it stays empty.                                            *)
(***************************************************************************)
EXTENDS Naturals, FiniteSets, Sequences, Functions

CONSTANTS
    Id,          \* intent ids
    Type,        \* SioType
    Size,        \* payload lengths of the envelopes
    MaxSize,     \* SioDriveConfig::max_size
    MaxStores    \* bound: inserts in a behaviour

VARIABLES
    entries,     \* id -> [type, size], for the ids stored
    by_type_map, \* type -> list of ids
    stores

vars == <<entries, by_type_map, stores>>

Entry == [type : Type, size : Size]

Init == /\ entries = [i \in {} |-> 0]
        /\ by_type_map = [t \in Type |-> <<>>]
        /\ stores = 0

\* total_size
UsedSize(e) == SumFunction([i \in DOMAIN e |-> e[i].size])

\* Mutant: the limit is compared with the new envelope only.
RoomForAlone(size) == size <= MaxSize

\* The check of store, which counts an entry about to be replaced as well.
RoomFor(size) == UsedSize(entries) + size <= MaxSize

\* Mutant: an id already stored keeps what it has.
PutOnce(i, e) == entries' = [j \in DOMAIN entries \cup {i} |->
                                 IF j \in DOMAIN entries THEN entries[j] ELSE e]

\* BTreeMap::insert
Put(i, e) == entries' = [j \in DOMAIN entries \cup {i} |-> IF j = i THEN e ELSE entries[j]]

\* Mutant: an id already stored is not pushed again, whatever its type was.
StoreOnce(i, e) ==
    /\ stores < MaxStores /\ RoomFor(e.size)
    /\ Put(i, e)
    /\ by_type_map' = IF i \in DOMAIN entries THEN by_type_map
                      ELSE [by_type_map EXCEPT ![e.type] = Append(@, i)]
    /\ stores' = stores + 1

\* store: the id is pushed on the list of its type even when an older entry
\* is replaced, and the list of the older entry's type is not touched.
Store(i, e) ==
    /\ stores < MaxStores
    /\ RoomFor(e.size)
    /\ Put(i, e)
    /\ by_type_map' = [by_type_map EXCEPT ![e.type] = Append(@, i)]
    /\ stores' = stores + 1

\* StorageFull
StoreRefused(e) == ~RoomFor(e.size) /\ UNCHANGED vars

\* retain: every occurrence of the id leaves the list.
Without(s, i) ==
    LET kept[n \in 0..Len(s)] == IF n = 0 THEN << >>
                                 ELSE IF s[n] = i THEN kept[n - 1]
                                 ELSE Append(kept[n - 1], s[n])
    IN  kept[Len(s)]

Delete(i) ==
    /\ i \in DOMAIN entries
    /\ entries' = [j \in DOMAIN entries \ {i} |-> entries[j]]
    /\ by_type_map' = [by_type_map EXCEPT ![entries[i].type] = Without(@, i)]
    /\ UNCHANGED stores

\* NotFound
DeleteMissing(i) == i \notin DOMAIN entries /\ UNCHANGED vars

Next == \/ \E e \in Entry : StoreRefused(e) \/ \E i \in Id : Store(i, e)
        \/ \E i \in Id : Delete(i) \/ DeleteMissing(i)

Spec == Init /\ [][Next]_vars

-----------------------------------------------------------------------------

\* query_by_type
QueryByType(t) == by_type_map[t]

\* The variables have their types.
TypeOK == /\ DOMAIN entries \subseteq Id
          /\ \A i \in DOMAIN entries : entries[i] \in Entry
          /\ by_type_map \in [Type -> Seq(Id)]
          /\ stores \in 0..MaxStores

\* What is stored never exceeds the limit, overwrites included.
WithinLimit == UsedSize(entries) <= MaxSize

\* Every stored envelope is found by a query for its type, after any history
\* of overwrites, changes of type and deletes.
QueryComplete == \A i \in DOMAIN entries : i \in Range(QueryByType(entries[i].type))

\* A query by type returns stored envelopes of that type and no other id
\* (sio_drive.rs:210, "Query SIOs by type").
QuerySound == \A t \in Type : \A i \in Range(QueryByType(t)) :
                  i \in DOMAIN entries /\ entries[i].type = t

=============================================================================
