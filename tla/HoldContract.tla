---------------------------- MODULE HoldContract ----------------------------
(***************************************************************************)
(* What the hold service promises its callers, without rows, Redis or      *)
(* handlers: a hold of a key is granted until some time, and while it      *)
(* lasts nobody else is granted that key - unless the key's protection was *)
(* withdrawn, which the service may do at any time and which lasts until   *)
(* the clock has moved on and no hold of the key is left.                  *)
(***************************************************************************)
EXTENDS Naturals

CONSTANTS Ids, Users

VARIABLES
  now,
  claims,     \* the unexpired holds that callers were granted
  exposed     \* the keys whose protection was withdrawn

vars == <<now, claims, exposed>>

Claim == [key : Ids, user : Users, until : Nat]

Init == now = 0 /\ claims = {} /\ exposed = {}

Grant ==
  \E c \in claims' :
    /\ claims' = claims \cup {c}
    /\ c \in Claim
    /\ c.until > now
    /\ c.key \in exposed \/ \A d \in claims : d.key # c.key
    /\ UNCHANGED <<now, exposed>>

GiveUp ==
  /\ claims' \subseteq claims
  /\ UNCHANGED <<now, exposed>>

Withdraw ==
  /\ exposed \subseteq exposed'
  /\ exposed' \subseteq Ids
  /\ UNCHANGED <<now, claims>>

Tick ==
  /\ now' = now + 1
  /\ claims' = {c \in claims : c.until > now'}
  /\ exposed' \subseteq exposed
  /\ \A k \in exposed \ exposed' : \A c \in claims' : c.key # k

Next == Grant \/ GiveUp \/ Withdraw \/ Tick

Spec == Init /\ [][Next]_vars

(* The promise: at most one hold of a protected key at a time. *)
OneHolder ==
  \A c, d \in claims : c.key = d.key /\ c.key \notin exposed => c = d
=============================================================================
