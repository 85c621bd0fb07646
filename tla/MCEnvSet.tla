------------------------------ MODULE MCEnvSet ------------------------------
(* Small instances of EnvSet for TLC. *)
EXTENDS EnvSet, TLC

CONSTANTS local, f1, f2

Symmetry == Permutations(Flow)
=============================================================================
