----------------------------- MODULE MCKeySearch -----------------------------
(***************************************************************************)
(* KeySearch over every way to nest three directories and to put three     *)
(* files into them, with one directory skipped or unreadable.              *)
(***************************************************************************)
EXTENDS KeySearch

CONSTANTS d1, d2, d3, f1, f2, f3, k1, k2

MCDir  == {d1, d2, d3}
MCFile == {f1, f2, f3}
MCKey  == {k1, k2}

\* d1 is the home directory or a project outside it; no directory is below itself.
Nestings ==
  {in \in [MCDir \cup MCFile -> MCDir \cup {Top}] :
     /\ in[d1] = Top /\ in[f3] # Top
     /\ in[d2] # d2 /\ in[d3] # d3
     /\ ~(in[d2] = d3 /\ in[d3] = d2)
     /\ in[f1] # Top}

MCTree == {[in |-> n, skip |-> x[1], shut |-> x[2]] :
             n \in Nestings, x \in {<<{}, {}>>, <<{d3}, {}>>, <<{}, {d2}>>}}

Holding(t, k) == [type |-> t, key |-> k]
Holdings(x, y, z) == [f \in MCFile |-> IF f = f1 THEN x ELSE IF f = f2 THEN y ELSE z]
MCContent ==
  {Holdings(Holding("identity-private", k1), Holding("key-bundle", k2), Holding("other", NoKey)),
   Holdings(Holding("identity-public", k1), Holding("key-bundle", k1), Holding("link", k1)),
   Holdings(Holding("public-key", k1), Holding("identity-private", NoKey), Holding("other", k1)),
   Holdings(Holding("identity-public", k2), Holding("key-bundle", NoKey), Holding("public-key", k2))}

\* Quick scans from two roots that may overlap, and a deep one from the home directory.
MCScans == {[roots |-> <<d2, d1>>, depth |-> 1, files |-> 3],
            [roots |-> <<d2, d1>>, depth |-> 1, files |-> 1],
            [roots |-> <<d1>>, depth |-> 2, files |-> 2]}
=============================================================================
