----------------------------- MODULE MCRacMemory -----------------------------
(***************************************************************************)
(* What the transports of rac/ keep: the shared memory regions and the     *)
(* channels with their ids.  They do not touch each other, so a behaviour  *)
(* moves one of them and the other stays as it is new.                     *)
(***************************************************************************)
EXTENDS SharedMemory, RacChannels

VARIABLE part   \* the one that moves

\* The counter of one kind goes round.
MCMaxMade == [k \in Kind |-> IF k = "Racid" THEN 3 ELSE 1]

MCInit == part \in {"regions", "channels"} /\ Init /\ ChannelInit

MCNext == /\ UNCHANGED part
          /\ \/ part = "regions" /\ Next /\ UNCHANGED channelVars
             \/ part = "channels" /\ ChannelNext /\ UNCHANGED vars

MCSpec == MCInit /\ [][MCNext]_<<part, vars, channelVars>>

=============================================================================
