------------------------------- MODULE MCSaga -------------------------------
(* Instances of Saga for TLC: one seat. *)
EXTENDS Saga, TLC

CONSTANTS t1, e1, u1, u2, w1, w2, o1, o2, h1, h2

Symmetry == Permutations(Users) \cup Permutations(Workers)
              \cup Permutations(OrderIds) \cup Permutations(Handlers)

OneSeatAlias == [i \in Ids |-> i]
OneSeatEventOf == [i \in Ids |-> None]
OneSeatSeatsOf == [e \in Events |-> {}]
OneSeatSeedEvent == [i \in Ids |-> e1]
=============================================================================
