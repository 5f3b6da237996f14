------------------------------ MODULE Checkout ------------------------------
(***************************************************************************)
(* A checkout as the buyer sees it: handleCompletePayment in App.tsx, the  *)
(* POST through the gateway, monitorOrderSaga, the payment outcome on its  *)
(* queues, orderUpdated, and the list My Tickets.  Seats are the subject   *)
(* of SeatMap: here a buyer may hold any of them.                          *)
(***************************************************************************)
EXTENDS Gateway

CONSTANT MaxPolls   \* attempts of the monitor, 25 in the code
ASSUME MaxPollsAssumption == MaxPolls \in Nat \ {0}

VARIABLES
  orders,      \* orders[o]: the order service's row and what payment decided
  todo,        \* todo[o]: queues that still hold the payment outcome of o
  monitor,     \* monitor[o]: the interval of monitorOrderSaga and its polls
  processing,  \* processing[b]: isProcessingCheckout
  mine,        \* mine[b]: orders, the entries of My Tickets
  load,        \* load[b]: the request for the session's orders
  excused      \* history: browsers and orders that a message was lost of

saga == <<orders, todo, monitor>>
page == <<processing, mine, load>>
checkoutVars == <<call, inbox, user, saga, page, excused>>

Queues == {"order", "gateway"}

Order == [status : Ended \cup {"NONE", "PENDING"}, user : Users \cup {Guest, None},
          seat : Seats \cup {None}, good : BOOLEAN,
          charge : {"due", "charged", "declined"}]
Monitor == [on : BOOLEAN, attempts : 0 .. MaxPolls, polls : 0 .. MaxPolls]
Entry == [order : OrderIds, status : Ended \cup {"PENDING"}]

Placed(o) == orders[o].status # "NONE"

(* Orders may still be placed: a bound for TLC. *)
OrdersLeft ==
  Cardinality({k \in Slots : At(k, "sent", "pay")}) < Cardinality({o \in OrderIds : ~Placed(o)})
Load(u) == [pc |-> "sent", user |-> u, data |-> {}]
Loaded == [pc |-> "done", user |-> None, data |-> {}]
EntryOf(o) == [order |-> o, status |-> orders[o].status]
SetProcessing(b, v) == processing' = [processing EXCEPT ![b] = v]

(***************************************************************************)
(* POST orders: the row, then in the gateway the monitor and the reply.    *)
(***************************************************************************)
PayHeld(b, k) ==
  /\ ~processing[b] /\ OrdersLeft
  /\ \E s \in Seats, good \in BOOLEAN :
       Send(k, [Idle EXCEPT !.kind = "pay", !.by = b, !.user = user[b],
                            !.seat = s, !.good = good])
  /\ SetProcessing(b, TRUE)
  /\ UNCHANGED <<inbox, user, saga, mine, load, excused>>

OutsidePay(k) ==
  /\ OrdersLeft
  /\ \E u \in Outsiders, s \in Seats :
       Send(k, [Idle EXCEPT !.kind = "pay", !.user = u, !.seat = s])
  /\ UNCHANGED <<inbox, user, saga, page, excused>>

CreateOrder(k) ==
  LET c == call[k] IN
  /\ At(k, "sent", "pay")
  /\ \E o \in OrderIds :
       /\ ~Placed(o)
       /\ orders' = [orders EXCEPT ![o] =
            [status |-> "PENDING", user |-> c.user, seat |-> c.seat, good |-> c.good,
             charge |-> "due"]]
       /\ call' = [call EXCEPT ![k].pc = "served", ![k].order = o]
  /\ UNCHANGED <<inbox, user, todo, monitor, page, excused>>

StartMonitor(k) ==
  /\ At(k, "served", "pay")
  /\ monitor' = [monitor EXCEPT ![call[k].order].on = TRUE]
  /\ Reply(k, "ok", {})
  /\ UNCHANGED <<inbox, user, orders, todo, page, excused>>

(***************************************************************************)
(* monitorOrderSaga: every tick of the interval counts an attempt and asks *)
(* for the order without waiting for the polls before it; only a poll that *)
(* comes back stops the interval.  A poll that comes back after that still *)
(* announces what it found.  Attempts are counted up to MaxPolls, and no   *)
(* more than MaxPolls polls are under way: bounds for TLC.                 *)
(***************************************************************************)
NeverGivesUp(m) == FALSE                   \* variant: attempts are not limited
GivesUp(m) == m.attempts >= MaxPolls

Tick(o) ==
  LET m == monitor[o] IN
  /\ m.on /\ m.polls < MaxPolls
  /\ monitor' = [monitor EXCEPT ![o].polls = m.polls + 1,
       ![o].attempts = IF m.attempts < MaxPolls THEN m.attempts + 1 ELSE m.attempts]
  /\ UNCHANGED <<call, inbox, user, orders, todo, page, excused>>

ReturnsUnasked(o, found) ==                \* variant: a poll comes back twice
  monitor' = [monitor EXCEPT ![o].polls = @ - 1,
                ![o].on = @ /\ ~found /\ ~GivesUp(monitor[o])]
PollReturns(o, found) ==
  /\ monitor[o].polls > 0
  /\ monitor' = [monitor EXCEPT ![o].polls = @ - 1,
                   ![o].on = @ /\ ~found /\ ~GivesUp(monitor[o])]

(* The seat's part of an announcement is in SeatMap. *)
Announce(o, status) ==
  Broadcast(<<OrderNews(o, orders[o].seat, status)>>)

PollAnswered(o) ==
  LET status == orders[o].status IN
  /\ PollReturns(o, status \in Ended)
  /\ IF status \in Ended THEN Announce(o, status) ELSE UNCHANGED inbox
  /\ UNCHANGED <<call, user, orders, todo, page, excused>>

PollFails(o) ==
  /\ Lossy
  /\ PollReturns(o, FALSE)
  /\ UNCHANGED <<call, inbox, user, orders, todo, page, excused>>

(***************************************************************************)
(* The saga behind the gateway: payment decides, and the outcome reaches   *)
(* the order service and the gateway each through its queue.               *)
(***************************************************************************)
Verdict(o) == IF orders[o].charge = "charged" THEN "COMPLETED" ELSE "CANCELLED"

Settle(o) ==
  /\ Placed(o) /\ orders[o].charge = "due"
  /\ orders' = [orders EXCEPT ![o].charge = IF orders[o].good THEN "charged" ELSE "declined"]
  /\ todo' = [todo EXCEPT ![o] = Queues]
  /\ UNCHANGED <<call, inbox, user, monitor, page, excused>>

Take(o, queue) == queue \in todo[o] /\ todo' = [todo EXCEPT ![o] = @ \ {queue}]

MarkOrder(o) ==
  /\ Take(o, "order")
  /\ orders' = [orders EXCEPT ![o].status = Verdict(o)]
  /\ UNCHANGED <<call, inbox, user, monitor, page, excused>>

AnnounceAsPaid(o) ==                       \* variant: a decline is announced as a sale
  /\ Take(o, "gateway")
  /\ Announce(o, "COMPLETED")
  /\ UNCHANGED <<call, user, orders, monitor, page, excused>>

(* handlePaymentSucceeded and handlePaymentFailed of the gateway. *)
AnnounceOutcome(o) ==
  /\ Take(o, "gateway")
  /\ Announce(o, Verdict(o))
  /\ UNCHANGED <<call, user, orders, monitor, page, excused>>

LoseOutcome(o) ==
  /\ Lossy
  /\ Take(o, "gateway")
  /\ excused' = excused \cup {o}
  /\ UNCHANGED <<call, inbox, user, orders, monitor, page>>

(* POST orders/:id/cancel, which the web client never sends, marks an order *)
(* in any status.  The order.cancelled it emits reaches payment_queue only, *)
(* so the gateway's handler for it does not run.                            *)
CancelOrder(o) ==
  /\ Placed(o) /\ orders[o].status # "CANCELLED"
  /\ orders' = [orders EXCEPT ![o].status = "CANCELLED"]
  /\ UNCHANGED <<call, inbox, user, todo, monitor, page, excused>>

(***************************************************************************)
(* handleCompletePayment after its POST: in 1.6 s either the reset of a    *)
(* simulated decline or one GET of the order.  The status of the reply is  *)
(* not looked at: after a refusal the order has no id, and nothing of this *)
(* checkout is left that could end it.                                     *)
(***************************************************************************)
PayAnswered(b, k) ==
  LET c == call[k] IN
  /\ Back(b, k, "pay")
  /\ IF c.result = "lost" THEN SetProcessing(b, FALSE) /\ Done(k) /\ UNCHANGED excused
     ELSE /\ Becomes(k, "timer")
          /\ excused' = IF c.result = "refused" THEN excused \cup {b} ELSE excused
          /\ UNCHANGED processing
  /\ UNCHANGED <<inbox, user, saga, mine, load>>

Declined(b, k) ==
  /\ At(k, "timer", "pay") /\ call[k].by = b /\ ~call[k].good
  /\ SetProcessing(b, FALSE)
  /\ Done(k)
  /\ UNCHANGED <<inbox, user, saga, mine, load, excused>>

AskForOrder(b, k) ==
  /\ At(k, "timer", "pay") /\ call[k].by = b /\ call[k].good
  /\ IF call[k].order = None THEN Done(k) ELSE Becomes(k, "asked")
  /\ UNCHANGED <<inbox, user, saga, page, excused>>

ReadOrder(k) ==
  /\ At(k, "asked", "pay")
  /\ call' = [call EXCEPT ![k].pc = "checked", ![k].data = {EntryOf(call[k].order)}]
  /\ UNCHANGED <<inbox, user, saga, page, excused>>

LoseOrderRead(k) ==
  /\ Lossy
  /\ call[k].pc \in {"asked", "checked"}
  /\ Done(k)
  /\ UNCHANGED <<inbox, user, saga, page, excused>>

AddEntry(b, e) ==
  mine' = [mine EXCEPT ![b] = {e} \cup {f \in @ : f.order # e.order}]

OrderRead(b, k) ==
  /\ At(k, "checked", "pay") /\ call[k].by = b
  /\ \E e \in call[k].data :
       IF e.status = "COMPLETED"
       THEN AddEntry(b, e) /\ SetProcessing(b, FALSE)
       ELSE UNCHANGED <<mine, processing>>
  /\ Done(k)
  /\ UNCHANGED <<inbox, user, saga, load, excused>>

(***************************************************************************)
(* orderUpdated: handled without asking whose order it is.                 *)
(***************************************************************************)
HandleSpinning(b, n) ==                    \* variant: the checkout is not ended
  /\ IF n.status = "COMPLETED"
     THEN AddEntry(b, [order |-> n.order, status |-> "COMPLETED"])
     ELSE UNCHANGED mine
  /\ UNCHANGED processing

OrderUpdated(b, n) ==
  /\ IF n.status = "COMPLETED"
     THEN AddEntry(b, [order |-> n.order, status |-> "COMPLETED"])
     ELSE UNCHANGED mine
  /\ SetProcessing(b, FALSE)

HandleNews(b) ==
  /\ Receive(b)
  /\ OrderUpdated(b, Head(inbox[b]))
  /\ UNCHANGED <<call, user, saga, load, excused>>

(***************************************************************************)
(* The session and its orders.  An answer replaces the whole list, however *)
(* old it is and whoever has signed in since.  A checkout goes on; of two  *)
(* requests for orders under way only the later is modelled.               *)
(***************************************************************************)
ChangeSession(b) ==
  /\ b \notin excused        \* once: a bound for TLC
  /\ \E u \in Sessions :
       /\ SwitchUser(b, u)
       /\ load' = [load EXCEPT ![b] = Load(u)]
  /\ excused' = excused \cup {b}
  /\ UNCHANGED <<call, saga, processing, mine>>

ReadOrders(b) ==
  /\ load[b].pc = "sent"
  /\ load' = [load EXCEPT ![b].pc = "answered",
       ![b].data = {EntryOf(o) : o \in {o \in OrderIds : Placed(o) /\ orders[o].user = load[b].user}}]
  /\ UNCHANGED <<call, inbox, user, saga, processing, mine, excused>>

OrdersLoaded(b) ==
  /\ load[b].pc = "answered"
  /\ mine' = [mine EXCEPT ![b] = load[b].data]
  /\ load' = [load EXCEPT ![b] = Loaded]
  /\ UNCHANGED <<call, inbox, user, saga, processing, excused>>

(* Without an answer, or after a refusal, the list stays as it is. *)
LoseOrders(b) ==
  /\ Lossy
  /\ load[b].pc # "done"
  /\ load' = [load EXCEPT ![b] = Loaded]
  /\ UNCHANGED <<call, inbox, user, saga, processing, mine, excused>>

(* handleListResale takes the entry from the list, whatever its status; the *)
(* request it sends and forgets is the subject of SeatMap.                  *)
RemoveListed(b) ==
  /\ \E e \in mine[b] : mine' = [mine EXCEPT ![b] = @ \ {e}]
  /\ UNCHANGED <<call, inbox, user, saga, processing, load, excused>>

(***************************************************************************)
CheckoutInit ==
  /\ GatewayInit
  /\ orders = [o \in OrderIds |-> [status |-> "NONE", user |-> None, seat |-> None,
                                   good |-> TRUE, charge |-> "due"]]
  /\ todo = [o \in OrderIds |-> {}]
  /\ monitor = [o \in OrderIds |-> [on |-> FALSE, attempts |-> 0, polls |-> 0]]
  /\ processing = [b \in Browsers |-> FALSE]
  /\ mine = [b \in Browsers |-> {}]
  /\ load = [b \in Browsers |-> IF user[b] = Guest THEN Loaded ELSE Load(user[b])]
  /\ excused = {}

ServeCall(k) == CreateOrder(k) \/ StartMonitor(k) \/ ReadOrder(k)

AnswerCall(b, k) ==
  \/ PayAnswered(b, k) \/ Declined(b, k) \/ AskForOrder(b, k) \/ OrderRead(b, k)

CallFault(k) ==
  \/ (Refuse(k) \/ LoseCall(k)) /\ UNCHANGED <<inbox, user, saga, page, excused>>
  \/ LoseOrderRead(k)

CheckoutNext ==
  \/ \E k \in Slots : \/ ServeCall(k) \/ OutsidePay(k) \/ CallFault(k)
                      \/ OutsideAnswer(k) /\ UNCHANGED <<inbox, user, saga, page, excused>>
  \/ \E o \in OrderIds : \/ Settle(o) \/ MarkOrder(o) \/ AnnounceOutcome(o) \/ Tick(o)
                         \/ PollAnswered(o) \/ PollFails(o) \/ LoseOutcome(o) \/ CancelOrder(o)
  \/ \E b \in Browsers : HandleNews(b) \/ ChangeSession(b) \/ RemoveListed(b)
                         \/ ReadOrders(b) \/ OrdersLoaded(b) \/ LoseOrders(b)
  \/ \E b \in Browsers, k \in Slots : AnswerCall(b, k) \/ PayHeld(b, k)

CheckoutSpec == CheckoutInit /\ [][CheckoutNext]_checkoutVars

-----------------------------------------------------------------------------
(* Every variable of the checkout stays in its domain. *)
CheckoutTypeOK ==
  /\ GatewayTypeOK(SUBSET Entry)
  /\ orders \in [OrderIds -> Order] /\ todo \in [OrderIds -> SUBSET Queues]
  /\ monitor \in [OrderIds -> Monitor]
  /\ processing \in [Browsers -> BOOLEAN]
  /\ mine \in [Browsers -> SUBSET Entry]
  /\ load \in [Browsers -> [pc : {"sent", "answered", "done"}, user : Sessions \cup {None},
                          data : SUBSET Entry]]
  /\ excused \subseteq Browsers \cup OrderIds

(* A pass shown in My Tickets is of an order that was charged, and shown    *)
(* once, though monitor, queue, check and load all report it, in any order  *)
(* and more than once.                                                      *)
PassesArePaid ==
  \A b \in Browsers : \A e, f \in mine[b] :
    /\ e.status = "COMPLETED" => orders[e.order].charge = "charged"
    /\ e.order = f.order => e = f

-----------------------------------------------------------------------------
OrderPromise == INSTANCE OrderContract WITH
  Buyers <- Users \cup {Guest},
  charged <- {o \in OrderIds : orders[o].charge = "charged"},
  orders <- [o \in OrderIds |-> [status |-> orders[o].status, user |-> orders[o].user,
                                 seat |-> orders[o].seat]]

(* Seen from the gateway, the order and payment services keep what placing  *)
(* an order promises.                                                       *)
KeepsOrderContract == OrderPromise!Spec

-----------------------------------------------------------------------------
(* Services, queues, timers and open sockets keep going. *)
CheckoutFairness ==
  /\ \A k \in Slots : WF_checkoutVars(ServeCall(k))
  /\ \A o \in OrderIds :
       /\ WF_checkoutVars(Settle(o) \/ MarkOrder(o)) /\ WF_checkoutVars(AnnounceOutcome(o))
       /\ WF_checkoutVars(Tick(o)) /\ WF_checkoutVars(PollAnswered(o) \/ PollFails(o))
  /\ \A b \in Browsers : /\ WF_checkoutVars(HandleNews(b))
                         /\ \A k \in Slots : WF_checkoutVars(AnswerCall(b, k))

FairCheckoutSpec == CheckoutSpec /\ CheckoutFairness

(* The monitor of every order ends, whether its polls find the outcome,     *)
(* fail, overtake each other or come back after the interval is cleared.    *)
MonitorEnds == \A o \in OrderIds : monitor[o].on ~> ~monitor[o].on

(* A checkout that was begun comes to its end, by the queue, the monitor,   *)
(* the timer or the check, unless the POST was refused, the session changed *)
(* or the outcome's message to the gateway was lost and the monitor is off. *)
CheckoutEnds ==
  \A b \in Browsers : processing[b] ~>
    \/ ~processing[b] \/ b \in excused
    \/ \E o \in OrderIds \cap excused : ~monitor[o].on

-----------------------------------------------------------------------------
(* gateway-events.controller.ts: "Broadcast order completion with QR pass   *)
(* directly to the buying user": My Tickets shows the user's own orders.    *)
PassGoesToBuyer ==
  \A b \in Browsers \ excused : \A e \in mine[b] : orders[e.order].user = user[b]
=============================================================================
