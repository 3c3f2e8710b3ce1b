---------------------------- MODULE MCMockRouter ----------------------------
(***************************************************************************)
(* Instances of MockRouter.                                                *)
(***************************************************************************)
EXTENDS MockRouter, TLC

CONSTANTS A, B

MCConfig == {[threshold |-> 2, cool_epochs |-> 1], [threshold |-> 1, cool_epochs |-> 2]}
MCEpoch == {0, 1}
MCChain == {<<A>>, <<B>>, <<A, B>>, <<B, A>>}

\* Neither the FEMs nor the threads are told apart.
MCSymmetry == Permutations({A, B}) \cup Permutations(Thread)

=============================================================================
