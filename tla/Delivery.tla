------------------------------ MODULE Delivery ------------------------------
(***************************************************************************)
(* What the pipeline from the catalog to the search index promises of an   *)
(* event, without relay, broker, channels or handlers: once confirmed it   *)
(* is never forgotten on the way, except where the carrier itself drops    *)
(* it; it may arrive more than once; and nothing arrives that was not      *)
(* created.                                                                *)
(***************************************************************************)
CONSTANT Events

VARIABLES
  stage,     \* stage[e]: "NONE", "PENDING" (created) or "PUBLISHED" (confirmed)
  carried,   \* the events on their way
  index,     \* the events that have arrived
  lost       \* the events of which the carrier has dropped a copy

vars == <<stage, carried, index, lost>>

Created == {e \in Events : stage[e] # "NONE"}

Init == stage = [e \in Events |-> "NONE"] /\ carried = {} /\ index = {} /\ lost = {}

Create(e) ==
  /\ stage[e] = "NONE"
  /\ stage' = [stage EXCEPT ![e] = "PENDING"]
  /\ UNCHANGED <<carried, index, lost>>

(* As often as it takes, and the carrier may drop a copy. *)
Send(e) ==
  /\ stage[e] = "PENDING"
  /\ \/ carried' = carried \cup {e} /\ UNCHANGED lost
     \/ lost' = lost \cup {e} /\ UNCHANGED carried
  /\ UNCHANGED <<stage, index>>

Confirm(e) ==
  /\ stage[e] = "PENDING"
  /\ e \in carried \cup index \cup lost
  /\ stage' = [stage EXCEPT ![e] = "PUBLISHED"]
  /\ UNCHANGED <<carried, index, lost>>

(* Perhaps not the last copy, or one handed over before the carrier forgot. *)
Arrive(e) ==
  /\ e \in carried \cup lost
  /\ index' = index \cup {e}
  /\ carried' \in {carried, carried \ {e}}
  /\ UNCHANGED <<stage, lost>>

(* What was created may also be brought over without the carrier. *)
Load ==
  /\ \E S \in SUBSET Created : index' = index \cup S
  /\ UNCHANGED <<stage, carried, lost>>

Forget ==
  /\ carried' = {} /\ lost' = lost \cup carried
  /\ UNCHANGED <<stage, index>>

Next ==
  \/ \E e \in Events : Create(e) \/ Send(e) \/ Confirm(e) \/ Arrive(e)
  \/ Load \/ Forget

Spec == Init /\ [][Next]_vars

(* Nothing is carried, dropped or found that was not created. *)
OnlyCreatedArrives == carried \cup index \cup lost \subseteq Created
=============================================================================
