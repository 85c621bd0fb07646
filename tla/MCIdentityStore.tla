-------------------------- MODULE MCIdentityStore --------------------------
(***************************************************************************)
(* Small instances of IdentityStore for TLC.                               *)
(***************************************************************************)
EXTENDS IdentityStore, TLC

CONSTANTS k1, k2, k3, k4

\* The own keypairs are interchangeable; a foreign one is not one of them.
Symmetry == Permutations(Key \ Foreign)

=============================================================================
