-------------------------- MODULE MCRaceIntegration --------------------------
(***************************************************************************)
(* RaceIntegration with its drive, and next to it a drive that its owner   *)
(* uses directly, which deletes as well.  The two share nothing, so a      *)
(* behaviour moves one of them.                                            *)
(***************************************************************************)
EXTENDS RaceIntegration

CONSTANT OwnId

VARIABLES
    user,                                     \* whose calls the behaviour shows
    own_entries, own_by_type_map, own_stores  \* the drive used directly

own == INSTANCE SioDrive WITH
           entries <- own_entries, by_type_map <- own_by_type_map, stores <- own_stores,
           Id <- OwnId, MaxSize <- MaxSize + 1, MaxStores <- MaxStores + 1

ownVars == <<own_entries, own_by_type_map, own_stores>>

\* The hook the wire's tests describe: an execution is never remote.
MCRejected == {"Racag", "Racex"} \X {"Execute"}

MCInit == user \in {"integration", "owner"} /\ New /\ own!Init

MCNext == /\ UNCHANGED user
          /\ \/ user = "integration" /\ Next /\ UNCHANGED ownVars
             \/ user = "owner" /\ own!Next /\ UNCHANGED vars

MCSpec == MCInit /\ [][MCNext]_<<user, vars, ownVars>>

-----------------------------------------------------------------------------

\* Both drives stay within their limit, overwrites included (sio_drive.rs:188).
WithinLimit == drive!WithinLimit /\ own!WithinLimit

\* A query by type misses no entry of that type, in either drive (sio_drive.rs:283).
QueryComplete == drive!QueryComplete /\ own!QueryComplete

=============================================================================
