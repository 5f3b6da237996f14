---------------------------- MODULE MCInventory ----------------------------
(* Instances of Inventory for TLC. *)
EXTENDS Inventory, TLC

CONSTANTS t1, t2, t3, e1, u1, u2, w1, w2

Symmetry == Permutations(Users) \cup Permutations(Workers)

(* One seeded seat with one spelling. *)
OneSeatAlias == [i \in Ids |-> i]
OneSeatEventOf == [i \in Ids |-> None]
OneSeatSeatsOf == [e \in Events |-> {}]
OneSeatSeedEvent == [i \in Ids |-> e1]

(* t1 and t2 are the two spellings of one seeded seat of e1 (tkt_evt1_n and  *)
(* tkt_evt_1_n), t3 an id of e1 that no provisioning writes (number > 54);   *)
(* the row of t1 was seeded, the provisioning of e1 writes t2.               *)
SpellingsAlias == [i \in Ids |-> IF i = t1 THEN t2 ELSE IF i = t2 THEN t1 ELSE i]
SpellingsEventOf == [i \in Ids |-> e1]
SpellingsSeatsOf == [e \in Events |-> {t2}]
SpellingsSeedEvent == [i \in Ids |-> IF i = t1 THEN e1 ELSE None]
=============================================================================
