--------------------------- MODULE MCSessionAgent ---------------------------
(***************************************************************************)
(* SessionAgent with two clients and two or three daemons.                 *)
(***************************************************************************)
EXTENDS SessionAgent, TLC

Symmetry == Permutations(Client) \cup Permutations(Agent)
=============================================================================
