------------------------------ MODULE MCBrowse ------------------------------
EXTENDS Browse, TLC

CONSTANTS f1, f2, k1, k2

Symmetry == Permutations(Slots)

(* More than the window holds on both paths, and less, differently on each. *)
MCHits ==
  [f \in Filters |-> IF f = f1 THEN [path \in Paths |-> 7]
                               ELSE [path \in Paths |-> IF path = "es" THEN 4 ELSE 3]]
=============================================================================
