---------------------------- MODULE MCPortEntry ----------------------------
(***************************************************************************)
(* PortEntry for TLC: tasks are interchangeable, and so are supervisors.   *)
(***************************************************************************)
EXTENDS PortEntry, TLC

Symmetry == Permutations(Task) \cup Permutations(Supervisor)

=============================================================================
