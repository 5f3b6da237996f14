-------------------------------- MODULE Saga --------------------------------
(***************************************************************************)
(* The purchase saga around Inventory: the order service with its table    *)
(* orders, the payment service, and the RabbitMQ queues between them.      *)
(*                                                                         *)
(*   createOrder --payment_queue--> payment --order_queue-----> order      *)
(*                                     \------inventory_queue-> inventory  *)
(*                                                                         *)
(* Consumers use no acknowledgements and any number of handlers run at     *)
(* once, so a queue is a set: a message is handled at some later time, or  *)
(* lost with the process that was to handle it.                            *)
(***************************************************************************)
EXTENDS Inventory

CONSTANTS
  OrderIds,     \* ord_<ms>, one per millisecond in which an order is made
  Handlers,     \* order-service invocations that may be in flight at once
  ClientCalls,  \* what clients ask of the inventory through the gateway
  Amounts,      \* {"accepted"}, or with "declined" for the amount 999.99
  Cancellable,  \* the orders whose buyer may cancel, once each (bound)
  SameMs,       \* two orders may be made in one millisecond
  Lossy         \* a service may stop with what it is handling

ASSUME SagaAssumption ==
  /\ None \notin OrderIds
  /\ ClientCalls \subseteq Calls \ {"confirm", "view"}
  /\ {"confirm", "release"} \subseteq Calls
  /\ Amounts \subseteq {"accepted", "declined"}
  /\ Cancellable \subseteq OrderIds
  /\ SameMs \in BOOLEAN /\ Lossy \in BOOLEAN

VARIABLES
  orders,          \* orders[o]: the orders row, status "NONE" when there is none
  handler,         \* handler[h]: the order-service invocation h
  paymentQueue, paying, orderQueue, inventoryQueue,
  charged,         \* history: the payments made
  cancelled,       \* history: the orders for which cancelOrder was called
  lost             \* history: the orders with a lost message or handler

sagaVars == <<orders, handler, paymentQueue, paying, orderQueue, inventoryQueue,
              charged, cancelled, lost>>
allVars == <<vars, sagaVars>>

OrderStatuses == {"PENDING", "COMPLETED", "CANCELLED"}

Order == [status : OrderStatuses \cup {"NONE"}, user : Users \cup {None},
          ticket : Ids \cup {None}, amount : {"accepted", "declined"}]

NoOrder == [status |-> "NONE", user |-> None, ticket |-> None, amount |-> "accepted"]

(* Messages: order.created and order.cancelled, and payment.succeeded or     *)
(* payment.failed (ok).                                                      *)
OrderEvent == [event : {"created", "cancelled"}, order : OrderIds, user : Users,
               ticket : Ids, amount : {"accepted", "declined"}]
Result == [order : OrderIds, user : Users, ticket : Ids, ok : BOOLEAN]

(* What a handler is about to do: save copy with status write, or emit event. *)
Handling == [pc : {"idle", "save", "emit"}, event : {"created", "cancelled", "result"},
             order : OrderIds \cup {None}, copy : Order, write : OrderStatuses]

IdleHandler == [pc |-> "idle", event |-> "result", order |-> None,
                copy |-> NoOrder, write |-> "PENDING"]

HandlerGoes(h, pc, event, o, copy, write) ==
  handler' = [handler EXCEPT ![h] =
    [pc |-> pc, event |-> event, order |-> o, copy |-> copy, write |-> write]]
HandlerDone(h) == handler' = [handler EXCEPT ![h] = IdleHandler]

(***************************************************************************)
(* The order service                                                       *)
(***************************************************************************)
(* createOrder: the save, an upsert.  The service asks for no hold; the web *)
(* client checks out only the seat it was told it holds.                    *)
CreateOrder(h) ==
  /\ handler[h].pc = "idle"
  /\ \E o \in OrderIds, c \in claims, amount \in Amounts :
       LET order == [status |-> "PENDING", user |-> c.user, ticket |-> c.key,
                     amount |-> amount] IN
       /\ orders[o].status = "NONE" \/ SameMs
       /\ orders' = [orders EXCEPT ![o] = order]
       /\ HandlerGoes(h, "emit", "created", o, order, "PENDING")
  /\ UNCHANGED <<vars, paymentQueue, paying, orderQueue, inventoryQueue,
                 charged, cancelled, lost>>

(* The emit after the save: order.created and order.cancelled both go to    *)
(* payment_queue, the only client of the order module.                      *)
Emit(h) ==
  LET j == handler[h] IN
  /\ j.pc = "emit"
  /\ paymentQueue' = paymentQueue \cup
       {[event |-> j.event, order |-> j.order, user |-> j.copy.user,
         ticket |-> j.copy.ticket, amount |-> j.copy.amount]}
  /\ HandlerDone(h)
  /\ UNCHANGED <<vars, orders, paying, orderQueue, inventoryQueue, charged, cancelled, lost>>

(* cancelOrder: the find, of an order in any status. *)
CancelOrder(h) ==
  /\ handler[h].pc = "idle"
  /\ \E o \in Cancellable \ cancelled :
       /\ orders[o].status # "NONE"
       /\ HandlerGoes(h, "save", "cancelled", o, orders[o], "CANCELLED")
       /\ cancelled' = cancelled \cup {o}
  /\ UNCHANGED <<vars, orders, paymentQueue, paying, orderQueue, inventoryQueue,
                 charged, lost>>

TakeResultUnread(h) ==                     \* variant: a decline completes too
  /\ handler[h].pc = "idle"
  /\ \E m \in orderQueue :
       /\ orderQueue' = orderQueue \ {m}
       /\ orders[m.order].status # "NONE"
       /\ HandlerGoes(h, "save", "result", m.order, orders[m.order], "COMPLETED")
  /\ UNCHANGED <<vars, orders, paymentQueue, paying, inventoryQueue, charged, cancelled, lost>>

TakeResultFailed(h) ==                     \* variant: a status of its own
  /\ handler[h].pc = "idle"
  /\ \E m \in orderQueue :
       /\ orderQueue' = orderQueue \ {m}
       /\ orders[m.order].status # "NONE"
       /\ HandlerGoes(h, "save", "result", m.order, orders[m.order], 
                      IF m.ok THEN "COMPLETED" ELSE "FAILED")
  /\ UNCHANGED <<vars, orders, paymentQueue, paying, inventoryQueue, charged, cancelled, lost>>

(* markOrderCompleted and markOrderFailed: the find. *)
TakeResult(h) ==
  /\ handler[h].pc = "idle"
  /\ \E m \in orderQueue :
       /\ orderQueue' = orderQueue \ {m}
       /\ IF orders[m.order].status = "NONE" THEN UNCHANGED handler
          ELSE HandlerGoes(h, "save", "result", m.order, orders[m.order],
                           IF m.ok THEN "COMPLETED" ELSE "CANCELLED")
  /\ UNCHANGED <<vars, orders, paymentQueue, paying, inventoryQueue, charged, cancelled, lost>>

SaveStatusUnset(h) ==                      \* variant: saved before it is set
  LET j == handler[h] IN
  /\ j.pc = "save"
  /\ orders' = [orders EXCEPT ![j.order] = j.copy]
  /\ HandlerDone(h)
  /\ UNCHANGED <<vars, paymentQueue, paying, orderQueue, inventoryQueue,
                 charged, cancelled, lost>>

(* ... and the save of the whole row; cancelOrder goes on to its emit. *)
SaveStatus(h) ==
  LET j == handler[h] IN
  /\ j.pc = "save"
  /\ orders' = [orders EXCEPT ![j.order] = [j.copy EXCEPT !.status = j.write]]
  /\ IF j.event = "cancelled"
     THEN HandlerGoes(h, "emit", "cancelled", j.order, j.copy, j.write)
     ELSE HandlerDone(h)
  /\ UNCHANGED <<vars, paymentQueue, paying, orderQueue, inventoryQueue,
                 charged, cancelled, lost>>

(***************************************************************************)
(* The payment service                                                     *)
(***************************************************************************)
TakeAnyOrderEvent ==                       \* variant: a cancellation is paid
  /\ \E m \in paymentQueue :
       /\ paymentQueue' = paymentQueue \ {m}
       /\ paying' = paying \cup {m}
  /\ UNCHANGED <<vars, orders, handler, orderQueue, inventoryQueue, charged, cancelled, lost>>

(* order.created starts the payment; order.cancelled has no handler there. *)
TakeOrderEvent ==
  /\ \E m \in paymentQueue :
       /\ paymentQueue' = paymentQueue \ {m}
       /\ paying' = IF m.event = "created" THEN paying \cup {m} ELSE paying
  /\ UNCHANGED <<vars, orders, handler, orderQueue, inventoryQueue, charged, cancelled, lost>>

SettleUntoldOrder ==                       \* variant: order_queue is left out
  /\ \E m \in paying :
       LET r == [order |-> m.order, user |-> m.user, ticket |-> m.ticket,
                 ok |-> m.amount = "accepted"] IN
       /\ paying' = paying \ {m}
       /\ inventoryQueue' = inventoryQueue \cup {r}
       /\ charged' = IF r.ok THEN charged \cup {r} ELSE charged
  /\ UNCHANGED <<vars, orders, handler, paymentQueue, orderQueue, cancelled, lost>>

(* The gateway answers after its delay, and both services are told. *)
Settle ==
  /\ \E m \in paying :
       LET r == [order |-> m.order, user |-> m.user, ticket |-> m.ticket,
                 ok |-> m.amount = "accepted"] IN
       /\ paying' = paying \ {m}
       /\ orderQueue' = orderQueue \cup {r}
       /\ inventoryQueue' = inventoryQueue \cup {r}
       /\ charged' = IF r.ok THEN charged \cup {r} ELSE charged
  /\ UNCHANGED <<vars, orders, handler, paymentQueue, cancelled, lost>>

(***************************************************************************)
(* The inventory service's consumer, and its clients                       *)
(***************************************************************************)
ConfirmAnyResult(w) ==                     \* variant: a decline sells too
  /\ \E m \in inventoryQueue :
       /\ inventoryQueue' = inventoryQueue \ {m}
       /\ Start(w, "confirm", m.ticket, m.user, None)
  /\ UNCHANGED <<orders, handler, paymentQueue, paying, orderQueue, charged, cancelled, lost>>

TakeInventoryResult(w) ==
  /\ \E m \in inventoryQueue :
       /\ inventoryQueue' = inventoryQueue \ {m}
       /\ Start(w, IF m.ok THEN "confirm" ELSE "release", m.ticket, m.user, None)
  /\ UNCHANGED <<orders, handler, paymentQueue, paying, orderQueue, charged, cancelled, lost>>

ClientCall(w) ==
  /\ \E op \in ClientCalls, id \in Ids, u \in Users : Start(w, op, id, u, None)
  /\ UNCHANGED sagaVars

InventoryStep(w) == (Step(w) \/ Abort(w)) /\ UNCHANGED sagaVars
InventoryEnvironment == Environment /\ UNCHANGED sagaVars

(***************************************************************************)
(* Losses: a message whose consumer stops or whose broker connection fails *)
(* is gone, and so is what a handler had left to do.                       *)
(***************************************************************************)
Lose ==
  /\ Lossy
  /\ \/ \E m \in paymentQueue : paymentQueue' = paymentQueue \ {m} /\ lost' = lost \cup {m.order}
                                /\ UNCHANGED <<paying, orderQueue, inventoryQueue>>
     \/ \E m \in paying : paying' = paying \ {m} /\ lost' = lost \cup {m.order}
                          /\ UNCHANGED <<paymentQueue, orderQueue, inventoryQueue>>
     \/ \E m \in orderQueue : orderQueue' = orderQueue \ {m} /\ lost' = lost \cup {m.order}
                              /\ UNCHANGED <<paymentQueue, paying, inventoryQueue>>
     \/ \E m \in inventoryQueue : inventoryQueue' = inventoryQueue \ {m} /\ lost' = lost \cup {m.order}
                                  /\ UNCHANGED <<paymentQueue, paying, orderQueue>>
  /\ UNCHANGED <<vars, orders, handler, charged, cancelled>>

HandlerStops(h) ==
  /\ Lossy
  /\ handler[h].pc # "idle"
  /\ HandlerDone(h)
  /\ lost' = lost \cup {handler[h].order}
  /\ UNCHANGED <<vars, orders, paymentQueue, paying, orderQueue, inventoryQueue,
                 charged, cancelled>>

OrderStep(h) ==
  CreateOrder(h) \/ CancelOrder(h) \/ TakeResult(h) \/ SaveStatus(h) \/ Emit(h) \/ HandlerStops(h)

SagaInit ==
  /\ Init
  /\ orders = [o \in OrderIds |-> NoOrder]
  /\ handler = [h \in Handlers |-> IdleHandler]
  /\ paymentQueue = {} /\ paying = {} /\ orderQueue = {} /\ inventoryQueue = {}
  /\ charged = {} /\ cancelled = {} /\ lost = {}

SagaNext ==
  \/ \E h \in Handlers : OrderStep(h)
  \/ TakeOrderEvent \/ Settle \/ Lose
  \/ \E w \in Workers : TakeInventoryResult(w) \/ ClientCall(w) \/ InventoryStep(w)
  \/ InventoryEnvironment

SagaSpec == SagaInit /\ [][SagaNext]_allVars

-----------------------------------------------------------------------------
Placed(o) == o.status # "NONE" /\ o.user \in Users /\ o.ticket \in Ids

HandlerFits(j) == j.pc # "idle" =>
  j.order \in OrderIds /\ Placed(j.copy) /\ (j.pc = "emit" => j.event # "result")

(* Every variable of the saga stays in its domain; an order that exists has *)
(* a buyer and a ticket, and so has the copy a handler works on.            *)
SagaTypeOK ==
  /\ TypeOK
  /\ orders \in [OrderIds -> Order]
  /\ handler \in [Handlers -> Handling]
  /\ \A o \in OrderIds : orders[o].status # "NONE" => Placed(orders[o])
  /\ \A h \in Handlers : HandlerFits(handler[h])
  /\ paymentQueue \subseteq OrderEvent /\ paying \subseteq OrderEvent
  /\ orderQueue \subseteq Result /\ inventoryQueue \subseteq Result /\ charged \subseteq Result
  /\ cancelled \subseteq OrderIds /\ lost \subseteq OrderIds

(* Where the saga of order o has got to: what will still move it on. *)
Tokens(o) ==
  {<<"handler", h>> : h \in {h \in Handlers :
      /\ handler[h].order = o
      /\ \/ handler[h].pc = "emit" /\ handler[h].event = "created"
         \/ handler[h].pc = "save" /\ handler[h].event = "result"}}
  \cup {<<"message", m>> : m \in {m \in paymentQueue : m.order = o /\ m.event = "created"}}
  \cup {<<"payment", m>> : m \in {m \in paying : m.order = o}}
  \cup {<<"result", m>> : m \in {m \in orderQueue : m.order = o}}

(* An order is on its way in at most one place, so it is never charged or   *)
(* finished twice; and while it is PENDING it is in exactly one, unless a   *)
(* message or handler of it was lost.                                       *)
OneToken ==
  \A o \in OrderIds :
    /\ Cardinality(Tokens(o)) <= 1
    /\ orders[o].status = "PENDING" /\ o \notin lost => Tokens(o) # {}

(* When the saga of an order that nobody cancelled has run its course, the  *)
(* buyer has a completed order exactly if charged, in the order's name.     *)
SettledMatchesPayment ==
  \A o \in OrderIds \ (cancelled \cup lost) :
    orders[o].status # "NONE" /\ Tokens(o) = {} =>
      (orders[o].status = "COMPLETED" <=>
         \E p \in charged : p.order = o /\ p.user = orders[o].user /\ p.ticket = orders[o].ticket)

(* A row is SOLD only to somebody charged for that seat, under either       *)
(* spelling of its id, however confirmations, releases, sweeps and          *)
(* relistings that read it earlier are still to be saved.                   *)
SoldWasPaid ==
  \A r \in Ids : row[r].status = "SOLD" =>
    \E p \in charged : p.user = row[r].holder /\ r \in {p.ticket, Alias[p.ticket]}

-----------------------------------------------------------------------------
OrderPromise == INSTANCE OrderContract WITH
  Buyers <- Users, Seats <- Ids, charged <- {p.order : p \in charged},
  orders <- [o \in OrderIds |-> [status |-> orders[o].status, user |-> orders[o].user,
                                 seat |-> orders[o].ticket]]

(* The two services and their queues keep what placing an order promises:   *)
(* whole rows saved from copies read earlier change the status only, and    *)
(* complete only what was charged.                                          *)
KeepsOrderContract == OrderPromise!Spec

-----------------------------------------------------------------------------
(* Services that run keep handling what they were given.  The bound on      *)
(* concurrent inventory handlers is the model's, so a consumer that gets a  *)
(* slot again and again takes its message.                                  *)
Fairness ==
  /\ \A h \in Handlers : WF_allVars(SaveStatus(h) \/ Emit(h))
  /\ WF_allVars(\E h \in Handlers : TakeResult(h))
  /\ WF_allVars(TakeOrderEvent) /\ WF_allVars(Settle)
  /\ SF_allVars(\E w \in Workers : TakeInventoryResult(w))
  /\ \A w \in Workers : WF_allVars(Step(w) /\ UNCHANGED sagaVars)

FairSagaSpec == SagaSpec /\ Fairness

(* Every order is completed or cancelled in the end, unless a message or     *)
(* handler of it was lost: nothing else keeps a saga from its end.          *)
OrderSettles ==
  \A o \in OrderIds : orders[o].status = "PENDING"
    ~> orders[o].status \in {"COMPLETED", "CANCELLED"} \/ o \in lost

(* A success the inventory is told of makes the seat the buyer's, whatever   *)
(* became of the hold and whatever other handlers are about to save.        *)
PaidSeatIsSold ==
  \A o \in OrderIds, u \in Users, t \in Ids :
    [order |-> o, user |-> u, ticket |-> t, ok |-> TRUE] \in inventoryQueue
      ~> \/ \E r \in {t, Alias[t]} : row[r].status = "SOLD" /\ row[r].holder = u
         \/ o \in lost

(* README 3: a declined payment releases the seat: the buyer's hold on it   *)
(* is not left in the row.                                                  *)
DeclinedSeatIsFreed ==
  \A o \in OrderIds, u \in Users, t \in Ids :
    [order |-> o, user |-> u, ticket |-> t, ok |-> FALSE] \in inventoryQueue
      ~> ~(row[t].status = "HELD" /\ row[t].holder = u) \/ o \in lost

-----------------------------------------------------------------------------
(* README 4, zero double-booking: one seat is not sold to two buyers. *)
NoDoubleBooking ==
  \A p, q \in charged : p.ticket = q.ticket => p.user = q.user

(* Nothing that concerns order o is under way any more. *)
Quiet(o) ==
  /\ Tokens(o) = {}
  /\ \A h \in Handlers : handler[h].order # o
  /\ \A m \in paymentQueue \cup inventoryQueue : m.order # o
  /\ \A w \in Workers : At(w, "idle")

(* inventory.controller.ts, "Order ... cancelled. Releasing ticket hold":    *)
(* when all is quiet again, a cancelled order's buyer has neither a hold of *)
(* the seat nor the seat.                                                   *)
CancelledSeatIsReleased ==
  \A o \in cancelled : Quiet(o) /\ orders[o].status = "CANCELLED" =>
    ~ \E r \in {orders[o].ticket, Alias[orders[o].ticket]} :
        row[r].status \in {"HELD", "SOLD"} /\ row[r].holder = orders[o].user
=============================================================================
