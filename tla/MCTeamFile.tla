------------------------------ MODULE MCTeamFile ------------------------------
(* Instances of TeamFile for TLC. *)
EXTENDS TeamFile, TLC

\* The owner's row has every key, and one other recipient has some.
OwnerAndOne ==
  {row \in [Id -> SUBSET Name] : row[Local] = Name /\ \E l \in Label : Rows([row |-> row]) = {l, Local}}

\* Persons, labels, names and values are interchangeable.
Symmetry == Permutations(Person) \cup Permutations(Label)
              \cup Permutations(Name) \cup Permutations(Value)
=============================================================================
