---------------------------- MODULE OrderContract ----------------------------
(***************************************************************************)
(* What placing an order promises, without services, queues or handlers:   *)
(* an order is placed once, for one buyer and one seat, may be charged     *)
(* from then on, and is marked as completed only when it was.  It may be   *)
(* marked again: a cancellation may overtake a completion, or follow it.   *)
(***************************************************************************)
CONSTANTS OrderIds, Buyers, Seats, None

VARIABLES
  orders,     \* orders[o]: status, buyer and seat
  charged     \* the orders whose payment was accepted

vars == <<orders, charged>>

Ended == {"COMPLETED", "CANCELLED"}

Placed(o) == orders[o].status # "NONE"

Init ==
  /\ orders = [o \in OrderIds |-> [status |-> "NONE", user |-> None, seat |-> None]]
  /\ charged = {}

Place(o) ==
  /\ ~Placed(o)
  /\ \E u \in Buyers, s \in Seats :
       orders' = [orders EXCEPT ![o] = [status |-> "PENDING", user |-> u, seat |-> s]]
  /\ UNCHANGED charged

Charge(o) ==
  /\ Placed(o) /\ o \notin charged
  /\ charged' = charged \cup {o}
  /\ UNCHANGED orders

Mark(o, status) ==
  /\ Placed(o)
  /\ status = "COMPLETED" => o \in charged
  /\ orders' = [orders EXCEPT ![o].status = status]
  /\ UNCHANGED charged

Next ==
  \E o \in OrderIds : Place(o) \/ Charge(o) \/ \E status \in Ended : Mark(o, status)

Spec == Init /\ [][Next]_vars

(* The promise: only a placed order is charged, and only a charged one is   *)
(* completed.                                                               *)
CompletedIsCharged ==
  \A o \in OrderIds : /\ o \in charged => Placed(o)
                      /\ orders[o].status = "COMPLETED" => o \in charged

(* ... and a placed order keeps its buyer and seat, and a charge stays.     *)
OrderKept(o) ==
  /\ o \in charged => o \in charged'
  /\ Placed(o) => /\ Placed(o)'
                  /\ orders'[o].user = orders[o].user /\ orders'[o].seat = orders[o].seat
OrdersAreKept == [][\A o \in OrderIds : OrderKept(o)]_vars
=============================================================================
