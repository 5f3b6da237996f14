--------------------------- MODULE CheckoutProofs ---------------------------
(***************************************************************************)
(* What a buyer is shown of orders, proved for any number of orders,       *)
(* browsers, calls under way, polls and undelivered broadcasts.            *)
(***************************************************************************)
EXTENDS Checkout, SequenceTheorems, TLAPS

-----------------------------------------------------------------------------
(* Whatever reports an order as completed, reports one that was charged.    *)
Charged(o) == orders[o].charge = "charged"
Paid(r) == r.status = "COMPLETED" => Charged(r.order)
AllPaid(entries) == \A e \in entries : Paid(e)
Single(entries) == \A e, f \in entries : e.order = f.order => e = f

(* An order not placed is not charged either, so placing it cannot make a   *)
(* report untrue, and its outcome is on no queue.                           *)
OrderFits(o) ==
  /\ Placed(o) => orders[o].seat \in Seats
  /\ ~Placed(o) => orders[o].charge = "due" /\ todo[o] = {}
  /\ orders[o].status = "COMPLETED" => Charged(o)

(* A call that is past the order service has the order it placed.           *)
CallFits(c) ==
  /\ AllPaid(c.data)
  /\ c.pc # "idle" => c.kind = "pay" /\ c.user \in Users \cup {Guest} /\ c.seat \in Seats
  /\ c.pc \in {"served", "asked", "checked"} => c.order # None
  /\ c.order # None => Placed(c.order)

NewsFits(n) == n.about = "order" /\ Paid(n)
InboxFits(b) == \A i \in DOMAIN inbox[b] : NewsFits(inbox[b][i])

ListFits(entries) == AllPaid(entries) /\ Single(entries)
ListsFit(b) == ListFits(mine[b]) /\ ListFits(load[b].data)

CheckoutInv ==
  /\ CheckoutTypeOK
  /\ \A o \in OrderIds : OrderFits(o)
  /\ \A k \in Slots : CallFits(call[k])
  /\ \A b \in Browsers : InboxFits(b) /\ ListsFit(b)

CallType == Call(SUBSET Entry)
Calls == [Slots -> CallType]
Inboxes == [Browsers -> Seq(News)]
Loading == [pc : {"sent", "answered", "done"}, user : Sessions \cup {None}, data : SUBSET Entry]

-----------------------------------------------------------------------------
(***************************************************************************)
(* Orders only get placed and charged, so a report stays true.             *)
(***************************************************************************)
OrdersGrow == \A o \in OrderIds : (Placed(o) => Placed(o)') /\ (Charged(o) => Charged(o)')

LEMMA EntriesStayPaid ==
  ASSUME OrdersGrow, NEW entries \in SUBSET Entry, AllPaid(entries)
  PROVE  AllPaid(entries)'
  BY DEF OrdersGrow, AllPaid, Paid, Entry

LEMMA CallStaysFit ==
  ASSUME OrdersGrow, NEW c \in CallType, CallFits(c)
  PROVE  CallFits(c)'
<1>1. c.data \in SUBSET Entry /\ c.order \in OrderIds \cup {None}
  BY DEF CallType, Call
<1>2. AllPaid(c.data)'
  BY <1>1, EntriesStayPaid DEF CallFits
<1> QED
  BY <1>1, <1>2 DEF CallFits, OrdersGrow

LEMMA CallsStay ==
  ASSUME call \in Calls, \A k \in Slots : CallFits(call[k]), OrdersGrow, call' = call
  PROVE  \A k \in Slots : CallFits(call[k])'
<1> SUFFICES ASSUME NEW k \in Slots PROVE CallFits(call[k])'
  OBVIOUS
<1>1. PICK c \in CallType : c = call[k]
  BY DEF Calls
<1>2. CallFits(c)'
  BY <1>1, CallStaysFit
<1> QED
  BY <1>1, <1>2

LEMMA InboxStays ==
  ASSUME inbox \in Inboxes, OrdersGrow, NEW b \in Browsers, InboxFits(b), inbox'[b] = inbox[b]
  PROVE  InboxFits(b)'
<1> SUFFICES ASSUME NEW i \in DOMAIN inbox[b] PROVE NewsFits(inbox[b][i])'
  BY DEF InboxFits
<1>1. inbox[b][i] \in News
  BY DEF Inboxes
<1>2. PICK n \in News : n = inbox[b][i]
  BY <1>1
<1>3. NewsFits(n)
  BY <1>2 DEF InboxFits
<1>4. NewsFits(n)'
  BY <1>3 DEF NewsFits, Paid, OrdersGrow, News
<1> QED
  BY <1>2, <1>4

LEMMA ListStays ==
  ASSUME OrdersGrow, NEW entries \in SUBSET Entry, ListFits(entries)
  PROVE  ListFits(entries)'
  BY EntriesStayPaid DEF ListFits, Single

LEMMA ListsStay ==
  ASSUME CheckoutTypeOK, OrdersGrow, NEW b \in Browsers, ListsFit(b),
         mine'[b] = mine[b], load'[b] = load[b]
  PROVE  ListsFit(b)'
<1>1. mine[b] \in SUBSET Entry /\ load[b].data \in SUBSET Entry
  BY DEF CheckoutTypeOK
<1>2. PICK m \in SUBSET Entry, d \in SUBSET Entry : m = mine[b] /\ d = load[b].data
  BY <1>1
<1>3. ListFits(m)' /\ ListFits(d)'
  BY <1>2, ListStays DEF ListsFit
<1> QED
  BY <1>2, <1>3 DEF ListsFit

-----------------------------------------------------------------------------
(***************************************************************************)
(* Steps of one call, that leave orders, broadcasts and lists alone.       *)
(***************************************************************************)
LEMMA CallKeeps ==
  ASSUME CheckoutInv, NEW k \in Slots, NEW c \in CallType, call' = [call EXCEPT ![k] = c],
         CallFits(c), UNCHANGED <<inbox, user, orders, todo, mine, load>>,
         monitor' \in [OrderIds -> Monitor], processing' \in [Browsers -> BOOLEAN],
         excused' \subseteq Browsers \cup OrderIds
  PROVE  CheckoutInv'
<1>1. OrdersGrow /\ (\A o \in OrderIds : OrderFits(o)')
  BY DEF OrdersGrow, Placed, Charged, CheckoutInv, OrderFits
<1>2. call \in Calls /\ inbox \in Inboxes
  BY DEF CheckoutInv, CheckoutTypeOK, GatewayTypeOK, Calls, CallType, Inboxes
<1>3. call' \in Calls /\ call'[k] = c /\ \A j \in Slots \ {k} : call'[j] = call[j]
  BY <1>2 DEF Calls
<1>4. CheckoutTypeOK'
  BY <1>3 DEF CheckoutInv, CheckoutTypeOK, GatewayTypeOK, Calls, CallType
<1>5. \A j \in Slots : CallFits(call[j])'
  <2> SUFFICES ASSUME NEW j \in Slots PROVE CallFits(call[j])'
    OBVIOUS
  <2>1. PICK d \in CallType : d = call'[j] /\ CallFits(d)
    BY <1>2, <1>3 DEF CheckoutInv, Calls
  <2>2. CallFits(d)'
    BY <1>1, <2>1, CallStaysFit
  <2> QED
    BY <2>1, <2>2
<1>6. \A b \in Browsers : InboxFits(b)' /\ ListsFit(b)'
  BY <1>1, <1>2, InboxStays, ListsStay DEF CheckoutInv
<1> QED
  BY <1>1, <1>4, <1>5, <1>6 DEF CheckoutInv

(* The slot k gets a call that fits. *)
CallSteps(k) == \E c \in CallType : CallFits(c) /\ call' = [call EXCEPT ![k] = c]

LEMMA SentFits ==
  ASSUME NEW k \in Slots, NEW c \in CallType, CallFits(c), c.order = None, c.kind = "pay",
         c.user \in Users \cup {Guest}, c.seat \in Seats, Send(k, c)
  PROVE  CallSteps(k)
<1>1. PICK d : d = [c EXCEPT !.pc = "sent"]
  OBVIOUS
<1>2. d \in CallType /\ CallFits(d)
  BY <1>1 DEF CallType, Call, PCs, CallFits
<1> QED
  BY <1>1, <1>2 DEF CallSteps, Send

LEMMA ReplyFits ==
  ASSUME call \in Calls, NEW k \in Slots, CallFits(call[k]), call[k].pc # "idle",
         NEW result \in Results, Reply(k, result, {})
  PROVE  CallSteps(k)
<1>1. PICK c \in CallType : c = call[k]
  BY DEF Calls
<1>2. PICK d : d = [c EXCEPT !.pc = "answered", !.result = result, !.data = {}]
  OBVIOUS
<1>3. d \in CallType /\ CallFits(d)
  BY <1>1, <1>2 DEF CallType, Call, PCs, CallFits, AllPaid
<1>4. call' = [call EXCEPT ![k] = d]
  BY <1>1, <1>2 DEF Reply, Calls, CallType, Call
<1> QED
  BY <1>3, <1>4 DEF CallSteps

LEMMA BecomesFits ==
  ASSUME call \in Calls, NEW k \in Slots, CallFits(call[k]), call[k].pc # "idle",
         NEW pc \in PCs, pc \in {"served", "asked", "checked"} => call[k].order # None,
         Becomes(k, pc)
  PROVE  CallSteps(k)
<1>1. PICK c \in CallType : c = call[k]
  BY DEF Calls
<1>2. PICK d : d = [c EXCEPT !.pc = pc]
  OBVIOUS
<1>3. d \in CallType /\ CallFits(d)
  BY <1>1, <1>2 DEF CallType, Call, CallFits, AllPaid
<1> QED
  BY <1>1, <1>2, <1>3 DEF CallSteps, Becomes

LEMMA IdleFits == Idle \in CallType /\ CallFits(Idle)
  BY DEF Idle, CallType, Call, PCs, Results, CallFits, AllPaid

LEMMA DoneFits ==
  ASSUME NEW k \in Slots, Done(k) PROVE CallSteps(k)
  BY IdleFits DEF CallSteps, Done

LEMMA ReadFits ==
  ASSUME CheckoutInv, NEW k \in Slots, ReadOrder(k) PROVE CallSteps(k)
<1>1. PICK c \in CallType : c = call[k] /\ CallFits(c)
  BY DEF CheckoutInv, CheckoutTypeOK, GatewayTypeOK, CallType
<1>2. c.pc = "asked" /\ c.order \in OrderIds /\ Placed(c.order)
  BY <1>1 DEF ReadOrder, At, CallFits, CallType, Call
<1>3. PICK e : e = EntryOf(c.order)
  OBVIOUS
<1>4. e \in Entry /\ Paid(e)
  BY <1>2, <1>3 DEF EntryOf, Entry, Paid, Charged, Placed, CheckoutInv, CheckoutTypeOK, Order, OrderFits
<1>5. PICK d : d = [c EXCEPT !.pc = "checked", !.data = {e}]
  OBVIOUS
<1>6. d \in CallType /\ CallFits(d)
  BY <1>1, <1>2, <1>4, <1>5 DEF CallType, Call, PCs, CallFits, AllPaid
<1>7. call' = [call EXCEPT ![k] = d]
  BY <1>1, <1>3, <1>5 DEF ReadOrder, CheckoutInv, CheckoutTypeOK, GatewayTypeOK, Call
<1> QED
  BY <1>6, <1>7 DEF CallSteps

(* A checkout is begun. *)
LEMMA PayKeeps ==
  ASSUME CheckoutInv, NEW k \in Slots, OutsidePay(k) \/ \E b \in Browsers : PayHeld(b, k)
  PROVE  CheckoutInv'
<1>1. CallSteps(k)
  <2>1. CASE OutsidePay(k)
    <3>1. PICK u \in Outsiders, s \in Seats : Send(k, [Idle EXCEPT !.kind = "pay", !.user = u, !.seat = s])
      BY <2>1 DEF OutsidePay
    <3>2. PICK c : c = [Idle EXCEPT !.kind = "pay", !.user = u, !.seat = s]
      OBVIOUS
    <3>3. c \in CallType /\ c.order = None /\ c.kind = "pay" /\ c.user \in Users /\ c.seat \in Seats
      BY <3>2, GatewayAssumption DEF Idle, CallType, Call, PCs, Results, Kinds
    <3>4. CallFits(c)
      BY <3>2 DEF Idle, CallFits, AllPaid
    <3> QED
      BY <3>1, <3>2, <3>3, <3>4, SentFits
  <2>2. ASSUME NEW b \in Browsers, PayHeld(b, k) PROVE CallSteps(k)
    <3>1. PICK u \in Users \cup {Guest} : u = user[b]
      BY GatewayAssumption DEF CheckoutInv, CheckoutTypeOK, GatewayTypeOK, Sessions
    <3>2. PICK s \in Seats, good \in BOOLEAN :
            Send(k, [Idle EXCEPT !.kind = "pay", !.by = b, !.user = u, !.seat = s, !.good = good])
      BY <2>2, <3>1 DEF PayHeld
    <3>3. PICK c : c = [Idle EXCEPT !.kind = "pay", !.by = b, !.user = u, !.seat = s, !.good = good]
      OBVIOUS
    <3>4. /\ c \in CallType /\ c.order = None /\ c.kind = "pay"
          /\ c.user \in Users \cup {Guest} /\ c.seat \in Seats
      BY <3>3 DEF Idle, CallType, Call, PCs, Results, Kinds
    <3>5. CallFits(c)
      BY <3>3 DEF Idle, CallFits, AllPaid
    <3> QED
      BY <3>2, <3>3, <3>4, <3>5, SentFits
  <2> QED
    BY <2>1, <2>2
<1>2. UNCHANGED <<inbox, user, saga, mine, load, excused>>
  BY DEF OutsidePay, PayHeld, page
<1>3. processing' \in [Browsers -> BOOLEAN]
  BY DEF OutsidePay, PayHeld, page, SetProcessing, CheckoutInv, CheckoutTypeOK
<1> QED
  BY <1>1, <1>2, <1>3, CallKeeps DEF CallSteps, saga, CheckoutInv, CheckoutTypeOK

(* A call is answered, waits, or is over. *)
LEMMA CallMovesKeep ==
  ASSUME CheckoutInv, NEW k \in Slots,
         \/ StartMonitor(k) \/ ReadOrder(k) \/ CallFault(k)
         \/ OutsideAnswer(k) /\ UNCHANGED <<inbox, user, saga, page, excused>>
         \/ \E b \in Browsers : PayAnswered(b, k) \/ Declined(b, k) \/ AskForOrder(b, k)
  PROVE  CheckoutInv'
<1>1. call \in Calls /\ CallFits(call[k])
  BY DEF CheckoutInv, CheckoutTypeOK, GatewayTypeOK, Calls, CallType
<1>2. CallSteps(k)
  <2>1. CASE StartMonitor(k) \/ Refuse(k) \/ LoseCall(k)
    BY <1>1, <2>1, ReplyFits DEF StartMonitor, Refuse, LoseCall, At, Results
  <2>2. CASE LoseOrderRead(k) \/ OutsideAnswer(k) \/ \E b \in Browsers : Declined(b, k)
    BY <2>2, DoneFits DEF LoseOrderRead, OutsideAnswer, Declined
  <2>3. CASE \E b \in Browsers : PayAnswered(b, k) \/ AskForOrder(b, k)
    BY <1>1, <2>3, DoneFits, BecomesFits DEF PayAnswered, AskForOrder, Back, At, PCs
  <2> QED
    BY <2>1, <2>2, <2>3, ReadFits DEF CallFault
<1>3. UNCHANGED <<inbox, user, orders, todo, mine, load>>
  BY DEF StartMonitor, ReadOrder, CallFault, LoseOrderRead, PayAnswered, Declined, AskForOrder,
         saga, page
<1>4. monitor' \in [OrderIds -> Monitor]
  <2>1. CASE StartMonitor(k)
    <3>1. call[k].order \in OrderIds
      BY <1>1, <2>1 DEF StartMonitor, At, CallFits, Calls, CallType, Call
    <3> QED
      BY <2>1, <3>1 DEF StartMonitor, CheckoutInv, CheckoutTypeOK, Monitor
  <2>2. CASE ~StartMonitor(k)
    BY <2>2 DEF ReadOrder, CallFault, LoseOrderRead, PayAnswered, Declined, AskForOrder,
                saga, CheckoutInv, CheckoutTypeOK
  <2> QED
    BY <2>1, <2>2
<1>5. processing' \in [Browsers -> BOOLEAN]
  BY DEF StartMonitor, ReadOrder, CallFault, LoseOrderRead, PayAnswered, Declined, AskForOrder,
         page, SetProcessing, CheckoutInv, CheckoutTypeOK
<1>6. excused' \subseteq Browsers \cup OrderIds
  BY DEF StartMonitor, ReadOrder, CallFault, LoseOrderRead, PayAnswered, Declined, AskForOrder,
         CheckoutInv, CheckoutTypeOK
<1> QED
  BY <1>2, <1>3, <1>4, <1>5, <1>6, CallKeeps DEF CallSteps

-----------------------------------------------------------------------------
(***************************************************************************)
(* Steps of the order service and of payment.                              *)
(***************************************************************************)
LEMMA OrdersKeep ==
  ASSUME CheckoutInv, OrdersGrow, \A o \in OrderIds : OrderFits(o)',
         orders' \in [OrderIds -> Order], todo' \in [OrderIds -> SUBSET Queues],
         call' \in Calls, \A k \in Slots : CallFits(call[k])',
         UNCHANGED <<inbox, user, monitor, page, excused>>
  PROVE  CheckoutInv'
<1>1. inbox \in Inboxes
  BY DEF CheckoutInv, CheckoutTypeOK, GatewayTypeOK, Inboxes
<1>2. CheckoutTypeOK'
  BY DEF CheckoutInv, CheckoutTypeOK, GatewayTypeOK, Calls, CallType, page
<1>3. \A b \in Browsers : InboxFits(b)' /\ ListsFit(b)'
  BY <1>1, InboxStays, ListsStay DEF CheckoutInv, page
<1> QED
  BY <1>2, <1>3 DEF CheckoutInv

(* One order's row is replaced by one that is as far, or farther. *)
LEMMA OrderGrows ==
  ASSUME CheckoutInv, NEW o \in OrderIds, NEW row \in Order,
         orders' = [orders EXCEPT ![o] = row], row.status # "NONE", row.seat \in Seats,
         Charged(o) => row.charge = "charged",
         row.status = "COMPLETED" => row.charge = "charged",
         \A p \in OrderIds \ {o} : todo'[p] = todo[p]
  PROVE  /\ OrdersGrow /\ orders' \in [OrderIds -> Order]
         /\ \A p \in OrderIds : OrderFits(p)'
<1>1. orders \in [OrderIds -> Order]
  BY DEF CheckoutInv, CheckoutTypeOK
<1>2. orders'[o] = row /\ \A p \in OrderIds \ {o} : orders'[p] = orders[p]
  BY <1>1
<1> QED
  BY <1>1, <1>2 DEF OrdersGrow, Placed, Charged, OrderFits, CheckoutInv

LEMMA CreateOrderKeeps ==
  ASSUME CheckoutInv, NEW k \in Slots, CreateOrder(k)
  PROVE  CheckoutInv'
<1>1. PICK c \in CallType : c = call[k] /\ CallFits(c)
  BY DEF CheckoutInv, CheckoutTypeOK, GatewayTypeOK, CallType
<1>2. c.pc = "sent" /\ c.user \in Users \cup {Guest} /\ c.seat \in Seats /\ c.good \in BOOLEAN
  BY <1>1 DEF CreateOrder, At, CallFits, CallType, Call
<1>3. PICK o \in OrderIds :
        /\ ~Placed(o)
        /\ orders' = [orders EXCEPT ![o] =
             [status |-> "PENDING", user |-> c.user, seat |-> c.seat, good |-> c.good,
              charge |-> "due"]]
        /\ call' = [call EXCEPT ![k].pc = "served", ![k].order = o]
  BY <1>1 DEF CreateOrder
<1>4. UNCHANGED <<inbox, user, todo, monitor, page, excused>>
  BY DEF CreateOrder
<1>5. [status |-> "PENDING", user |-> c.user, seat |-> c.seat, good |-> c.good, charge |-> "due"]
        \in Order
  BY <1>2 DEF Order, Ended
<1>6. ~Charged(o)
  BY <1>3 DEF CheckoutInv, OrderFits, Charged
<1>7. /\ OrdersGrow /\ orders' \in [OrderIds -> Order]
      /\ \A p \in OrderIds : OrderFits(p)'
  BY <1>2, <1>3, <1>4, <1>5, <1>6, OrderGrows
<1>8. PICK d : d = [c EXCEPT !.pc = "served", !.order = o]
  OBVIOUS
<1>9. d \in CallType /\ d.data = c.data /\ d.pc = "served" /\ d.order = o
      /\ d.kind = c.kind /\ d.user = c.user /\ d.seat = c.seat
  BY <1>1, <1>8 DEF CallType, Call, PCs
<1>10. CallFits(d)'
  <2>1. CallFits(c)'
    BY <1>1, <1>7, CallStaysFit
  <2>2. Placed(o)' /\ o # None
    BY <1>3, GatewayAssumption DEF Placed, CheckoutInv, CheckoutTypeOK
  <2>3. AllPaid(d.data)'
    BY <1>9, <2>1 DEF CallFits
  <2> QED
    BY <1>2, <1>9, <2>1, <2>2, <2>3 DEF CallFits
<1>11. call \in Calls /\ call' = [call EXCEPT ![k] = d]
  BY <1>1, <1>3, <1>8 DEF CheckoutInv, CheckoutTypeOK, GatewayTypeOK, Calls, CallType, Call
<1>12. call' \in Calls /\ call'[k] = d /\ \A j \in Slots \ {k} : call'[j] = call[j]
  BY <1>9, <1>11 DEF Calls
<1>13. \A j \in Slots : CallFits(call[j])'
  <2> SUFFICES ASSUME NEW j \in Slots PROVE CallFits(call[j])'
    OBVIOUS
  <2>1. CASE j = k
    BY <1>10, <1>12, <2>1
  <2>2. CASE j # k
    <3>1. PICK a \in CallType : a = call[j] /\ CallFits(a)
      BY <1>11 DEF CheckoutInv, Calls
    <3>2. CallFits(a)'
      BY <1>7, <3>1, CallStaysFit
    <3> QED
      BY <1>12, <2>2, <3>1, <3>2
  <2> QED
    BY <2>1, <2>2
<1>14. todo' \in [OrderIds -> SUBSET Queues]
  BY <1>4 DEF CheckoutInv, CheckoutTypeOK
<1> QED
  BY <1>4, <1>7, <1>12, <1>13, <1>14, OrdersKeep

LEMMA OrderStepKeeps ==
  ASSUME CheckoutInv, NEW o \in OrderIds, Settle(o) \/ MarkOrder(o) \/ CancelOrder(o)
  PROVE  CheckoutInv'
<1>1. orders \in [OrderIds -> Order] /\ todo \in [OrderIds -> SUBSET Queues] /\ OrderFits(o)
  BY DEF CheckoutInv, CheckoutTypeOK
<1>2. UNCHANGED <<call, inbox, user, monitor, page, excused>>
  BY DEF Settle, MarkOrder, CancelOrder
<1>3. /\ todo' \in [OrderIds -> SUBSET Queues]
      /\ \A p \in OrderIds \ {o} : todo'[p] = todo[p]
  BY <1>1 DEF Settle, MarkOrder, Take, CancelOrder, Queues
<1>4. Placed(o)
  BY <1>1 DEF Settle, MarkOrder, Take, CancelOrder, OrderFits
<1>5. PICK r \in Order : r = orders[o]
  BY <1>1
<1>6. ASSUME NEW row, row \in Order, orders' = [orders EXCEPT ![o] = row], row.seat = r.seat,
             row.status # "NONE", r.charge = "charged" => row.charge = "charged",
             row.status = "COMPLETED" => row.charge = "charged"
      PROVE  CheckoutInv'
  <2>1. row.seat \in Seats
    BY <1>1, <1>4, <1>5, <1>6 DEF OrderFits
  <2>2. Charged(o) => row.charge = "charged"
    BY <1>5, <1>6 DEF Charged
  <2>3. OrdersGrow /\ orders' \in [OrderIds -> Order] /\ \A p \in OrderIds : OrderFits(p)'
    BY <1>3, <1>6, <2>1, <2>2, OrderGrows
  <2>4. call \in Calls /\ \A k \in Slots : CallFits(call[k])
    BY DEF CheckoutInv, CheckoutTypeOK, GatewayTypeOK, Calls, CallType
  <2>5. call' \in Calls /\ \A k \in Slots : CallFits(call[k])'
    BY <1>2, <2>3, <2>4, CallsStay
  <2> QED
    BY <1>2, <1>3, <2>3, <2>5, OrdersKeep
<1>7. CASE Settle(o)
  <2>1. PICK row : row = [r EXCEPT !.charge = IF r.good THEN "charged" ELSE "declined"]
    OBVIOUS
  <2>2. /\ row \in Order /\ row.seat = r.seat /\ row.status = r.status
        /\ row.charge \in {"charged", "declined"} /\ r.charge = "due"
    BY <1>5, <1>7, <2>1 DEF Order, Settle
  <2>3. orders' = [orders EXCEPT ![o] = row]
    BY <1>1, <1>5, <1>7, <2>1 DEF Settle, Order
  <2>4. r.status # "NONE" /\ r.status # "COMPLETED"
    BY <1>1, <1>4, <1>5, <2>2 DEF Placed, OrderFits, Charged
  <2> QED
    BY <1>6, <2>2, <2>3, <2>4
<1>8. CASE MarkOrder(o)
  <2>1. PICK row : row = [r EXCEPT !.status = IF r.charge = "charged" THEN "COMPLETED" ELSE "CANCELLED"]
    OBVIOUS
  <2>2. /\ row \in Order /\ row.seat = r.seat /\ row.charge = r.charge
        /\ row.status = IF r.charge = "charged" THEN "COMPLETED" ELSE "CANCELLED"
    BY <2>1 DEF Order, Ended
  <2>3. orders' = [orders EXCEPT ![o] = row]
    BY <1>1, <1>5, <1>8, <2>1 DEF MarkOrder, Verdict, Order
  <2> QED
    BY <1>6, <2>2, <2>3
<1>9. CASE CancelOrder(o)
  <2>1. PICK row : row = [r EXCEPT !.status = "CANCELLED"]
    OBVIOUS
  <2>2. /\ row \in Order /\ row.seat = r.seat /\ row.charge = r.charge
        /\ row.status = "CANCELLED"
    BY <2>1 DEF Order, Ended
  <2>3. orders' = [orders EXCEPT ![o] = row]
    BY <1>1, <1>5, <1>9, <2>1 DEF CancelOrder, Order
  <2> QED
    BY <1>6, <2>2, <2>3
<1> QED
  BY <1>7, <1>8, <1>9

-----------------------------------------------------------------------------
(***************************************************************************)
(* The monitor and the queue of the gateway: what they announce of an      *)
(* order is its row's status, or what payment decided.                     *)
(***************************************************************************)
LEMMA AnnounceFits ==
  ASSUME CheckoutInv, NEW o \in OrderIds, NEW status \in Ended, Announce(o, status),
         Placed(o), status = "COMPLETED" => Charged(o), orders' = orders
  PROVE  /\ inbox' \in Inboxes
         /\ \A b \in Browsers : Len(inbox'[b]) <= MaxNews /\ InboxFits(b)'
<1>1. inbox \in Inboxes /\ orders[o].seat \in Seats
  BY DEF CheckoutInv, CheckoutTypeOK, GatewayTypeOK, Inboxes, OrderFits
<1>2. PICK n : n = OrderNews(o, orders[o].seat, status)
  OBVIOUS
<1>3. n \in News /\ n.about = "order" /\ n.status = status /\ n.order = o
  BY <1>1, <1>2 DEF OrderNews, News
<1>4. NewsFits(n) /\ \A m : NewsFits(m) => NewsFits(m)'
  BY <1>3 DEF NewsFits, Paid, Charged
<1>5. \A b \in Browsers : inbox'[b] = inbox[b] \o <<n>> /\ Len(inbox[b]) + Len(<<n>>) <= MaxNews
  BY <1>2 DEF Announce, Broadcast
<1>6. ASSUME NEW b \in Browsers
      PROVE  /\ inbox'[b] \in Seq(News) /\ Len(inbox'[b]) <= MaxNews
             /\ \A i \in DOMAIN inbox'[b] : inbox'[b][i] = n \/ \E j \in DOMAIN inbox[b] : inbox'[b][i] = inbox[b][j]
  <2>1. PICK old \in Seq(News) : old = inbox[b]
    BY <1>1 DEF Inboxes
  <2>2. /\ old \o <<n>> \in Seq(News)
        /\ Len(old \o <<n>>) = Len(old) + Len(<<n>>)
        /\ \A i \in 1 .. Len(old) + Len(<<n>>) :
             (old \o <<n>>)[i] = IF i <= Len(old) THEN old[i] ELSE <<n>>[i - Len(old)]
    BY <1>3, <2>1, ConcatProperties
  <2>3. /\ DOMAIN old = 1 .. Len(old) /\ Len(<<n>>) = 1 /\ <<n>>[1] = n /\ Len(old) \in Nat
        /\ DOMAIN (old \o <<n>>) = 1 .. Len(old) + 1
    BY <2>1, <2>2, LenProperties
  <2>4. \A i \in DOMAIN (old \o <<n>>) :
          (old \o <<n>>)[i] = n \/ \E j \in DOMAIN old : (old \o <<n>>)[i] = old[j]
    BY <2>2, <2>3
  <2>5. inbox'[b] = old \o <<n>> /\ Len(old \o <<n>>) <= MaxNews
    BY <1>5, <2>1, <2>2
  <2> QED
    BY <2>1, <2>2, <2>4, <2>5
<1>7. ASSUME NEW b \in Browsers PROVE InboxFits(b)'
  <2> SUFFICES ASSUME NEW i \in DOMAIN inbox'[b] PROVE NewsFits(inbox[b][i])'
    BY DEF InboxFits
  <2>1. PICK m : m = inbox'[b][i]
    OBVIOUS
  <2>2. NewsFits(m)
    BY <1>4, <1>6, <2>1 DEF CheckoutInv, InboxFits
  <2> QED
    BY <1>4, <2>1, <2>2
<1>8. inbox' \in Inboxes
  BY <1>6 DEF Announce, Broadcast, Inboxes
<1> QED
  BY <1>6, <1>7, <1>8

LEMMA ReportKeeps ==
  ASSUME CheckoutInv, NEW o \in OrderIds, NEW status \in Ended,
         \/ /\ Announce(o, status) /\ Placed(o)
            /\ status = "COMPLETED" => Charged(o)
         \/ UNCHANGED inbox,
         UNCHANGED <<call, user, orders, page>>, excused' \subseteq Browsers \cup OrderIds,
         monitor' \in [OrderIds -> Monitor],
         \/ Take(o, "gateway")
         \/ UNCHANGED todo
  PROVE  CheckoutInv'
<1>1. /\ todo \in [OrderIds -> SUBSET Queues] /\ call \in Calls /\ inbox \in Inboxes
      /\ \A k \in Slots : CallFits(call[k])
  BY DEF CheckoutInv, CheckoutTypeOK, GatewayTypeOK, Calls, CallType, Inboxes
<1>2. todo' \in [OrderIds -> SUBSET Queues] /\ \A p \in OrderIds : todo'[p] \subseteq todo[p]
  BY <1>1 DEF Take
<1>3. OrdersGrow /\ \A p \in OrderIds : OrderFits(p)'
  BY <1>2 DEF OrdersGrow, Placed, Charged, OrderFits, CheckoutInv
<1>4. /\ inbox' \in Inboxes
      /\ \A b \in Browsers : Len(inbox'[b]) <= MaxNews /\ InboxFits(b)'
  <2>1. CASE UNCHANGED inbox
    BY <1>1, <1>3, <2>1, InboxStays DEF CheckoutInv, CheckoutTypeOK, GatewayTypeOK
  <2>2. CASE ~UNCHANGED inbox
    BY <2>2, AnnounceFits
  <2> QED
    BY <2>1, <2>2
<1>5. CheckoutTypeOK'
  BY <1>2, <1>4 DEF CheckoutInv, CheckoutTypeOK, GatewayTypeOK, Inboxes, page
<1>6. \A b \in Browsers : ListsFit(b)'
  BY <1>3, ListsStay DEF CheckoutInv, page
<1>7. \A k \in Slots : CallFits(call[k])'
  BY <1>1, <1>3, CallsStay
<1> QED
  BY <1>3, <1>4, <1>5, <1>6, <1>7 DEF CheckoutInv

LEMMA ReportsKeep ==
  ASSUME CheckoutInv, NEW o \in OrderIds,
         \/ Tick(o) \/ PollAnswered(o) \/ PollFails(o) \/ AnnounceOutcome(o) \/ LoseOutcome(o)
  PROVE  CheckoutInv'
<1>1. /\ monitor \in [OrderIds -> Monitor] /\ excused \subseteq Browsers \cup OrderIds
      /\ orders \in [OrderIds -> Order] /\ OrderFits(o) /\ MaxPolls \in Nat \ {0}
  BY MaxPollsAssumption DEF CheckoutInv, CheckoutTypeOK
<1>2. /\ UNCHANGED <<call, user, orders, page>> /\ excused' \subseteq Browsers \cup OrderIds
      /\ Take(o, "gateway") \/ UNCHANGED todo
  BY <1>1 DEF Tick, PollAnswered, PollFails, AnnounceOutcome, LoseOutcome
<1>3. ASSUME NEW found, PollReturns(o, found) PROVE monitor' \in [OrderIds -> Monitor]
  <2>1. PICK m \in Monitor : m = monitor[o]
    BY <1>1
  <2>2. m.polls - 1 \in 0 .. MaxPolls
    BY <1>1, <1>3, <2>1 DEF PollReturns, Monitor
  <2>3. (m.on /\ ~found /\ ~GivesUp(m)) \in BOOLEAN
    OBVIOUS
  <2>4. PICK d : d = [m EXCEPT !.polls = @ - 1, !.on = @ /\ ~found /\ ~GivesUp(m)]
    OBVIOUS
  <2>5. d \in Monitor
    BY <2>2, <2>3, <2>4 DEF Monitor
  <2>6. monitor' = [monitor EXCEPT ![o] = d]
    BY <1>1, <1>3, <2>1, <2>4 DEF PollReturns, Monitor
  <2> QED
    BY <1>1, <2>5, <2>6
<1>4. monitor' \in [OrderIds -> Monitor]
  <2>1. CASE Tick(o)
    <3>1. PICK m \in Monitor : m = monitor[o]
      BY <1>1
    <3>2. m.polls + 1 \in 0 .. MaxPolls /\ m.attempts \in 0 .. MaxPolls
          /\ (m.attempts < MaxPolls => m.attempts + 1 \in 0 .. MaxPolls)
      BY <1>1, <2>1, <3>1 DEF Tick, Monitor
    <3> QED
      BY <1>1, <2>1, <3>1, <3>2 DEF Tick, Monitor
  <2>2. CASE PollAnswered(o) \/ PollFails(o)
    BY <1>3, <2>2 DEF PollAnswered, PollFails
  <2>3. CASE AnnounceOutcome(o) \/ LoseOutcome(o)
    BY <1>1, <2>3 DEF AnnounceOutcome, LoseOutcome
  <2> QED
    BY <2>1, <2>2, <2>3
<1>5. \/ UNCHANGED inbox
      \/ \E status \in Ended : /\ Announce(o, status) /\ Placed(o)
                               /\ status = "COMPLETED" => Charged(o)
  <2>1. CASE PollAnswered(o)
    BY <1>1, <2>1 DEF PollAnswered, Placed, OrderFits, Ended
  <2>2. CASE AnnounceOutcome(o)
    <3>1. Announce(o, Verdict(o)) /\ todo[o] # {}
      BY <2>2 DEF AnnounceOutcome, Take
    <3>2. Verdict(o) \in Ended /\ (Verdict(o) = "COMPLETED" => Charged(o)) /\ Placed(o)
      BY <1>1, <3>1 DEF Verdict, Ended, Charged, OrderFits
    <3>3. PICK status \in Ended : status = Verdict(o)
      BY <3>2
    <3> QED
      BY <3>1, <3>2, <3>3
  <2>3. CASE Tick(o) \/ PollFails(o) \/ LoseOutcome(o)
    BY <2>3 DEF Tick, PollFails, LoseOutcome
  <2> QED
    BY <2>1, <2>2, <2>3
<1>6. \E status \in Ended : TRUE
  BY DEF Ended
<1> QED
  BY <1>2, <1>4, <1>5, <1>6, ReportKeeps

-----------------------------------------------------------------------------
(***************************************************************************)
(* The page: what it adds to the list, replaces the list by and takes from *)
(* it are paid orders, and one entry for each.                             *)
(***************************************************************************)
LEMMA InboxShrinks ==
  ASSUME inbox \in Inboxes, \A a \in Browsers : Len(inbox[a]) <= MaxNews /\ InboxFits(a),
         orders' = orders, NEW b \in Browsers,
         Receive(b) \/ inbox' = [inbox EXCEPT ![b] = <<>>] \/ inbox' = inbox
  PROVE  inbox' \in Inboxes /\ \A a \in Browsers : Len(inbox'[a]) <= MaxNews /\ InboxFits(a)'
<1>1. ASSUME NEW a \in Browsers
      PROVE  /\ inbox'[a] \in Seq(News) /\ Len(inbox'[a]) <= MaxNews
             /\ \A i \in DOMAIN inbox'[a] : \E j \in DOMAIN inbox[a] : inbox'[a][i] = inbox[a][j]
  <2>1. PICK old \in Seq(News) : old = inbox[a]
    BY DEF Inboxes
  <2>2. inbox'[a] = old \/ inbox'[a] = <<>> \/ (old # <<>> /\ inbox'[a] = Tail(old))
    BY <2>1 DEF Receive, Inboxes
  <2>3. Len(old) \in Nat /\ Len(old) <= MaxNews /\ DOMAIN old = 1 .. Len(old) /\ MaxNews \in Nat
    BY <2>1, LenProperties, GatewayAssumption
  <2>4. CASE old # <<>> /\ inbox'[a] = Tail(old)
    <3>1. /\ Tail(old) \in Seq(News) /\ Len(Tail(old)) = Len(old) - 1 /\ Len(old) # 0
          /\ \A i \in 1 .. Len(old) - 1 : Tail(old)[i] = old[i + 1]
      BY <2>4, HeadTailProperties, EmptySeq, LenProperties
    <3>2. DOMAIN Tail(old) = 1 .. Len(old) - 1
      BY <3>1, LenProperties
    <3>3. \A i \in DOMAIN Tail(old) : \E j \in DOMAIN old : Tail(old)[i] = old[j]
      <4> SUFFICES ASSUME NEW i \in DOMAIN Tail(old)
                   PROVE  \E j \in DOMAIN old : Tail(old)[i] = old[j]
        OBVIOUS
      <4>1. i + 1 \in DOMAIN old /\ Tail(old)[i] = old[i + 1]
        BY <2>3, <3>1, <3>2
      <4> QED
        BY <4>1
    <3>4. Len(Tail(old)) <= MaxNews
      BY <2>3, <3>1
    <3> QED
      BY <2>1, <2>4, <3>1, <3>3, <3>4
  <2>5. CASE inbox'[a] = old
    BY <2>1, <2>3, <2>5
  <2>6. CASE inbox'[a] = <<>>
    BY <2>3, <2>6
  <2> QED
    BY <2>2, <2>4, <2>5, <2>6
<1>2. ASSUME NEW a \in Browsers PROVE InboxFits(a)'
  <2> SUFFICES ASSUME NEW i \in DOMAIN inbox'[a] PROVE NewsFits(inbox[a][i])'
    BY DEF InboxFits
  <2>1. PICK n : n = inbox'[a][i]
    OBVIOUS
  <2>2. NewsFits(n)
    BY <1>1, <2>1 DEF InboxFits
  <2>3. NewsFits(n)'
    BY <2>2 DEF NewsFits, Paid, Charged
  <2> QED
    BY <2>1, <2>3
<1>3. inbox' \in Inboxes
  BY <1>1 DEF Receive, Inboxes
<1> QED
  BY <1>1, <1>2, <1>3

LEMMA PageKeeps ==
  ASSUME CheckoutInv, UNCHANGED saga, NEW b \in Browsers,
         NEW m \in SUBSET Entry, ListFits(m), mine' = [mine EXCEPT ![b] = m],
         NEW l \in Loading, ListFits(l.data), load' = [load EXCEPT ![b] = l],
         UNCHANGED call \/ \E k \in Slots : Done(k),
         Receive(b) \/ inbox' = [inbox EXCEPT ![b] = <<>>] \/ inbox' = inbox,
         user' \in [Browsers -> Sessions], processing' \in [Browsers -> BOOLEAN],
         excused' \subseteq Browsers \cup OrderIds
  PROVE  CheckoutInv'
<1>1. OrdersGrow /\ (\A o \in OrderIds : OrderFits(o)')
  BY DEF OrdersGrow, Placed, Charged, CheckoutInv, OrderFits, saga
<1>2. /\ call \in Calls /\ inbox \in Inboxes /\ \A k \in Slots : CallFits(call[k])
      /\ \A a \in Browsers : Len(inbox[a]) <= MaxNews /\ InboxFits(a)
  BY DEF CheckoutInv, CheckoutTypeOK, GatewayTypeOK, Calls, CallType, Inboxes
<1>3. call' \in Calls /\ \A k \in Slots : CallFits(call[k])'
  <2>1. CASE UNCHANGED call
    BY <1>1, <1>2, <2>1, CallsStay
  <2>2. CASE \E k \in Slots : Done(k)
    <3>1. PICK k \in Slots : call' = [call EXCEPT ![k] = Idle]
      BY <2>2 DEF Done
    <3>2. call' \in Calls
      BY <1>2, <3>1, IdleFits DEF Calls
    <3>3. ASSUME NEW j \in Slots PROVE CallFits(call[j])'
      <4>1. PICK c \in CallType : c = call'[j] /\ CallFits(c)
        BY <1>2, <3>1, IdleFits DEF Calls
      <4>2. CallFits(c)'
        BY <1>1, <4>1, CallStaysFit
      <4> QED
        BY <4>1, <4>2
    <3> QED
      BY <3>2, <3>3
  <2> QED
    BY <2>1, <2>2
<1>4. inbox' \in Inboxes /\ \A a \in Browsers : Len(inbox'[a]) <= MaxNews /\ InboxFits(a)'
  BY <1>2, InboxShrinks DEF saga
<1>5. /\ mine \in [Browsers -> SUBSET Entry] /\ load \in [Browsers -> Loading]
      /\ mine' \in [Browsers -> SUBSET Entry] /\ load' \in [Browsers -> Loading]
  BY DEF CheckoutInv, CheckoutTypeOK, Loading
<1>6. ASSUME NEW a \in Browsers PROVE ListsFit(a)'
  <2>1. CASE a = b
    <3>1. ListFits(m)' /\ ListFits(l.data)'
      BY <1>1, ListStays DEF Loading
    <3> QED
      BY <1>5, <2>1, <3>1 DEF ListsFit
  <2>2. CASE a # b
    <3>1. mine'[a] = mine[a] /\ load'[a] = load[a]
      BY <1>5, <2>2
    <3> QED
      BY <1>1, <3>1, ListsStay DEF CheckoutInv
  <2> QED
    BY <2>1, <2>2
<1>7. CheckoutTypeOK'
  BY <1>3, <1>4, <1>5
     DEF CheckoutInv, CheckoutTypeOK, GatewayTypeOK, Calls, CallType, Inboxes, Loading, saga
<1> QED
  BY <1>1, <1>3, <1>4, <1>6, <1>7 DEF CheckoutInv

(* A new entry takes the place of the one the list had of its order. *)
LEMMA AddFits ==
  ASSUME NEW m \in SUBSET Entry, ListFits(m), NEW e \in Entry, Paid(e)
  PROVE  /\ ListFits({e} \cup {f \in m : f.order # e.order})
         /\ {e} \cup {f \in m : f.order # e.order} \in SUBSET Entry
  BY DEF ListFits, AllPaid, Single

LEMMA PageStepKeeps ==
  ASSUME CheckoutInv, NEW b \in Browsers,
         \/ HandleNews(b) \/ ChangeSession(b) \/ RemoveListed(b)
         \/ ReadOrders(b) \/ OrdersLoaded(b) \/ LoseOrders(b)
         \/ \E k \in Slots : OrderRead(b, k)
  PROVE  CheckoutInv'
<1>1. /\ mine \in [Browsers -> SUBSET Entry] /\ load \in [Browsers -> Loading]
      /\ ListFits(mine[b]) /\ ListFits(load[b].data)
      /\ user \in [Browsers -> Sessions] /\ processing \in [Browsers -> BOOLEAN]
      /\ excused \subseteq Browsers \cup OrderIds
  BY DEF CheckoutInv, CheckoutTypeOK, GatewayTypeOK, Loading, ListsFit
<1>2. PICK m \in SUBSET Entry, l \in Loading : m = mine[b] /\ l = load[b]
  BY <1>1
<1>3. /\ ListFits(m) /\ ListFits(l.data)
      /\ mine = [mine EXCEPT ![b] = m] /\ load = [load EXCEPT ![b] = l]
  BY <1>1, <1>2
<1>4. Loaded \in Loading /\ Loaded.data = {} /\ ListFits({})
  BY DEF Loaded, Loading, ListFits, AllPaid, Single
<1>5. CASE HandleNews(b)
  <2>1. PICK n : n = Head(inbox[b])
    OBVIOUS
  <2>2. n \in News /\ NewsFits(n)
    <3>1. PICK old \in Seq(News) : old = inbox[b]
      BY DEF CheckoutInv, CheckoutTypeOK, GatewayTypeOK
    <3>2. old # <<>>
      BY <1>5, <3>1 DEF HandleNews, Receive
    <3>3. Head(old) = old[1] /\ Head(old) \in News /\ 1 \in DOMAIN old
      BY <3>2, HeadTailProperties, LenProperties, EmptySeq
    <3> QED
      BY <2>1, <3>1, <3>3 DEF CheckoutInv, InboxFits
  <2>3. PICK e : e = [order |-> n.order, status |-> "COMPLETED"]
    OBVIOUS
  <2>4. n.status = "COMPLETED" => e \in Entry /\ Paid(e)
    BY <2>2, <2>3 DEF NewsFits, Paid, News, Entry, Ended
  <2>5. \/ mine' = mine
        \/ n.status = "COMPLETED" /\ mine' = [mine EXCEPT ![b] = {e} \cup {f \in m : f.order # e.order}]
    BY <1>1, <1>2, <1>5, <2>1, <2>3 DEF HandleNews, OrderUpdated, AddEntry
  <2>6. PICK p \in SUBSET Entry : ListFits(p) /\ mine' = [mine EXCEPT ![b] = p]
    BY <1>3, <2>4, <2>5, AddFits
  <2>7. /\ UNCHANGED <<call, user, saga, load, excused>> /\ Receive(b)
        /\ processing' \in [Browsers -> BOOLEAN]
    BY <1>1, <1>5 DEF HandleNews, OrderUpdated, SetProcessing
  <2> QED
    BY <1>1, <1>3, <2>6, <2>7, PageKeeps
<1>6. CASE \E k \in Slots : OrderRead(b, k)
  <2>1. PICK k \in Slots : OrderRead(b, k)
    BY <1>6
  <2>2. PICK c \in CallType : c = call[k] /\ CallFits(c)
    BY DEF CheckoutInv, CheckoutTypeOK, GatewayTypeOK, CallType
  <2>3. PICK e \in c.data :
          IF e.status = "COMPLETED" THEN AddEntry(b, e) /\ SetProcessing(b, FALSE)
                                    ELSE UNCHANGED <<mine, processing>>
    BY <2>1, <2>2 DEF OrderRead
  <2>4. e \in Entry /\ Paid(e)
    BY <2>2, <2>3 DEF CallType, Call, CallFits, AllPaid
  <2>5. mine' = mine \/ mine' = [mine EXCEPT ![b] = {e} \cup {f \in m : f.order # e.order}]
    BY <1>1, <1>2, <2>3 DEF AddEntry
  <2>6. PICK p \in SUBSET Entry : ListFits(p) /\ mine' = [mine EXCEPT ![b] = p]
    BY <1>3, <2>4, <2>5, AddFits
  <2>7. /\ UNCHANGED <<inbox, user, saga, load, excused>> /\ Done(k)
        /\ processing' \in [Browsers -> BOOLEAN]
    BY <1>1, <2>1, <2>3 DEF OrderRead, SetProcessing
  <2> QED
    BY <1>1, <1>3, <2>6, <2>7, PageKeeps
<1>7. CASE ChangeSession(b)
  <2>1. PICK u \in Sessions : SwitchUser(b, u) /\ load' = [load EXCEPT ![b] = Load(u)]
    BY <1>7 DEF ChangeSession
  <2>2. PICK p : p = Load(u)
    OBVIOUS
  <2>3. p \in Loading /\ p.data = {} /\ ListFits(p.data)
    BY <1>4, <2>2 DEF Load, Loading
  <2>4. user' \in [Browsers -> Sessions] /\ inbox' = [inbox EXCEPT ![b] = <<>>]
    BY <1>1, <2>1 DEF SwitchUser
  <2>5. UNCHANGED <<call, saga, processing, mine>> /\ excused' \subseteq Browsers \cup OrderIds
    BY <1>1, <1>7 DEF ChangeSession
  <2> QED
    BY <1>1, <1>3, <2>1, <2>2, <2>3, <2>4, <2>5, PageKeeps
<1>8. CASE ReadOrders(b)
  <2>1. PICK d : d = {EntryOf(o) : o \in {o \in OrderIds : Placed(o) /\ orders[o].user = load[b].user}}
    OBVIOUS
  <2>2. \A o \in OrderIds : Placed(o) => EntryOf(o) \in Entry /\ Paid(EntryOf(o)) /\ EntryOf(o).order = o
    BY DEF EntryOf, Entry, Paid, Charged, Placed, CheckoutInv, CheckoutTypeOK, Order, OrderFits
  <2>3. d \in SUBSET Entry /\ ListFits(d)
    BY <2>1, <2>2 DEF ListFits, AllPaid, Single
  <2>4. PICK p : p = [l EXCEPT !.pc = "answered", !.data = d]
    OBVIOUS
  <2>5. p \in Loading /\ p.data = d
    BY <2>3, <2>4 DEF Loading
  <2>6. load' = [load EXCEPT ![b] = p]
    BY <1>1, <1>2, <1>8, <2>1, <2>4 DEF ReadOrders, Loading
  <2>7. UNCHANGED <<call, inbox, user, saga, processing, mine, excused>>
    BY <1>8 DEF ReadOrders
  <2> QED
    BY <1>1, <1>3, <2>3, <2>5, <2>6, <2>7, PageKeeps
<1>9. CASE OrdersLoaded(b)
  <2>1. l.data \in SUBSET Entry /\ mine' = [mine EXCEPT ![b] = l.data]
    BY <1>2, <1>9 DEF OrdersLoaded, Loading
  <2>2. PICK p \in SUBSET Entry : p = l.data
    BY <2>1
  <2>3. PICK d \in Loading : d = Loaded /\ ListFits(d.data)
    BY <1>4
  <2>4. /\ UNCHANGED <<call, inbox, user, saga, processing, excused>>
        /\ load' = [load EXCEPT ![b] = d]
    BY <1>9, <2>3 DEF OrdersLoaded
  <2> QED
    BY <1>1, <1>3, <2>1, <2>2, <2>3, <2>4, PageKeeps
<1>10. CASE LoseOrders(b)
  BY <1>1, <1>3, <1>4, <1>10, PageKeeps DEF LoseOrders
<1>11. CASE RemoveListed(b)
  <2>1. PICK e \in m : mine' = [mine EXCEPT ![b] = m \ {e}]
    BY <1>1, <1>2, <1>11 DEF RemoveListed
  <2>2. PICK p : p = m \ {e}
    OBVIOUS
  <2>3. p \in SUBSET Entry /\ ListFits(p)
    BY <1>3, <2>2 DEF ListFits, AllPaid, Single
  <2>4. UNCHANGED <<call, inbox, user, saga, processing, load, excused>>
    BY <1>11 DEF RemoveListed
  <2> QED
    BY <1>1, <1>3, <2>1, <2>2, <2>3, <2>4, PageKeeps
<1> QED
  BY <1>5, <1>6, <1>7, <1>8, <1>9, <1>10, <1>11

-----------------------------------------------------------------------------
(***************************************************************************)
(* The invariant, and what follows from it.                                *)
(***************************************************************************)
LEMMA CheckoutInitially == CheckoutInit => CheckoutInv
<1> SUFFICES ASSUME CheckoutInit PROVE CheckoutInv
  OBVIOUS
<1>1. /\ call \in [Slots -> CallType] /\ \A k \in Slots : CallFits(call[k])
  BY IdleFits DEF CheckoutInit, GatewayInit
<1>2. /\ inbox \in [Browsers -> Seq(News)] /\ user \in [Browsers -> Sessions]
      /\ \A b \in Browsers : Len(inbox[b]) <= MaxNews /\ InboxFits(b)
  BY GatewayAssumption DEF CheckoutInit, GatewayInit, InboxFits
<1>3. /\ orders \in [OrderIds -> Order] /\ todo \in [OrderIds -> SUBSET Queues]
      /\ \A o \in OrderIds : OrderFits(o)
  BY DEF CheckoutInit, Order, Ended, OrderFits, Placed
<1>4. monitor \in [OrderIds -> Monitor]
  <2>1. [on |-> FALSE, attempts |-> 0, polls |-> 0] \in Monitor
    BY MaxPollsAssumption DEF Monitor
  <2> QED
    BY <2>1 DEF CheckoutInit
<1>5. /\ processing \in [Browsers -> BOOLEAN] /\ mine \in [Browsers -> SUBSET Entry]
      /\ excused \subseteq Browsers \cup OrderIds /\ \A b \in Browsers : mine[b] = {}
  BY DEF CheckoutInit
<1>6. load \in [Browsers -> Loading] /\ \A b \in Browsers : load[b].data = {}
  <2>1. \A u \in Sessions : Load(u) \in Loading /\ Load(u).data = {}
    BY DEF Load, Loading
  <2>2. Loaded \in Loading /\ Loaded.data = {}
    BY DEF Loaded, Loading
  <2> QED
    BY <1>2, <2>1, <2>2 DEF CheckoutInit
<1>7. \A b \in Browsers : ListsFit(b)
  BY <1>5, <1>6 DEF ListsFit, ListFits, AllPaid, Single
<1>8. CheckoutTypeOK
  BY <1>1, <1>2, <1>3, <1>4, <1>5, <1>6 DEF CheckoutTypeOK, GatewayTypeOK, CallType, Loading
<1> QED
  BY <1>1, <1>2, <1>3, <1>7, <1>8 DEF CheckoutInv

LEMMA CheckoutStep == CheckoutInv /\ [CheckoutNext]_checkoutVars => CheckoutInv'
<1> SUFFICES ASSUME CheckoutInv, [CheckoutNext]_checkoutVars PROVE CheckoutInv'
  OBVIOUS
<1>1. CASE \E k \in Slots : CreateOrder(k)
  BY <1>1, CreateOrderKeeps
<1>2. CASE \E k \in Slots :
             \/ StartMonitor(k) \/ ReadOrder(k) \/ CallFault(k)
             \/ OutsideAnswer(k) /\ UNCHANGED <<inbox, user, saga, page, excused>>
             \/ \E b \in Browsers : PayAnswered(b, k) \/ Declined(b, k) \/ AskForOrder(b, k)
  BY <1>2, CallMovesKeep
<1>3. CASE \E k \in Slots : OutsidePay(k) \/ \E b \in Browsers : PayHeld(b, k)
  BY <1>3, PayKeeps
<1>4. CASE \E o \in OrderIds : Settle(o) \/ MarkOrder(o) \/ CancelOrder(o)
  BY <1>4, OrderStepKeeps
<1>5. CASE \E o \in OrderIds : \/ Tick(o) \/ PollAnswered(o) \/ PollFails(o)
                               \/ AnnounceOutcome(o) \/ LoseOutcome(o)
  BY <1>5, ReportsKeep
<1>6. CASE \E b \in Browsers :
             \/ HandleNews(b) \/ ChangeSession(b) \/ RemoveListed(b)
             \/ ReadOrders(b) \/ OrdersLoaded(b) \/ LoseOrders(b)
             \/ \E k \in Slots : OrderRead(b, k)
  BY <1>6, PageStepKeeps
<1>7. CASE UNCHANGED checkoutVars
  <2>1. UNCHANGED <<call, inbox, user, orders, todo, monitor, processing, mine, load, excused>>
    BY <1>7 DEF checkoutVars, saga, page
  <2>2. call \in Calls /\ \A k \in Slots : CallFits(call[k])
    BY DEF CheckoutInv, CheckoutTypeOK, GatewayTypeOK, Calls, CallType
  <2>3. OrdersGrow /\ (\A o \in OrderIds : OrderFits(o)')
    BY <2>1 DEF OrdersGrow, Placed, Charged, CheckoutInv, OrderFits
  <2>4. call' \in Calls /\ \A k \in Slots : CallFits(call[k])'
    BY <2>1, <2>2, <2>3, CallsStay
  <2>5. /\ orders' \in [OrderIds -> Order] /\ todo' \in [OrderIds -> SUBSET Queues]
        /\ UNCHANGED <<inbox, user, monitor, page, excused>>
    BY <2>1 DEF CheckoutInv, CheckoutTypeOK, page
  <2> QED
    BY <2>3, <2>4, <2>5, OrdersKeep
<1> QED
  BY <1>1, <1>2, <1>3, <1>4, <1>5, <1>6, <1>7 DEF CheckoutNext, ServeCall, AnswerCall

(* The invariant the theorems below rest on: whatever reports an order as   *)
(* completed - a row, a broadcast on its way, a poll or a check answered    *)
(* and not yet handled, a list loaded or shown - reports a charged order.   *)
THEOREM CheckoutInvariance == CheckoutSpec => []CheckoutInv
<1> QED
  BY CheckoutInitially, CheckoutStep, PTL DEF CheckoutSpec

(* Every variable of the checkout, the calls and the broadcasts stays in    *)
(* its domain; the monitor counts no attempt beyond its limit.              *)
THEOREM CheckoutTypeCorrect == CheckoutSpec => []CheckoutTypeOK
<1>1. CheckoutInv => CheckoutTypeOK
  BY DEF CheckoutInv
<1> QED
  BY <1>1, CheckoutInvariance, PTL

(* A pass shown in My Tickets is of an order that was charged, and shown    *)
(* once, in whatever order and however often monitor, queue, check and load *)
(* report it.                                                               *)
THEOREM PassesPaid == CheckoutSpec => []PassesArePaid
<1>1. CheckoutInv => PassesArePaid
  BY DEF CheckoutInv, ListsFit, ListFits, AllPaid, Single, Paid, Charged, PassesArePaid
<1> QED
  BY <1>1, CheckoutInvariance, PTL

-----------------------------------------------------------------------------
(***************************************************************************)
(* Refinement of OrderContract.                                            *)
(***************************************************************************)
Terms(r) == [status |-> r.status, user |-> r.user, seat |-> r.seat]
AllTerms == [o \in OrderIds |-> Terms(orders[o])]
Buys == {o \in OrderIds : orders[o].charge = "charged"}

LEMMA TermsExcept ==
  ASSUME orders \in [OrderIds -> Order], NEW o \in OrderIds, NEW r \in Order,
         orders' = [orders EXCEPT ![o] = r]
  PROVE  /\ AllTerms' = [AllTerms EXCEPT ![o] = Terms(r)]
         /\ Buys' = IF r.charge = "charged" THEN Buys \cup {o} ELSE Buys \ {o}
<1>1. \A p \in OrderIds : orders'[p] = IF p = o THEN r ELSE orders[p]
  OBVIOUS
<1>2. AllTerms' = [p \in OrderIds |-> IF p = o THEN Terms(r) ELSE Terms(orders[p])]
  BY <1>1 DEF AllTerms, Terms
<1>3. AllTerms' = [AllTerms EXCEPT ![o] = Terms(r)]
  BY <1>2 DEF AllTerms
<1>4. Buys' = IF r.charge = "charged" THEN Buys \cup {o} ELSE Buys \ {o}
  BY <1>1 DEF Buys
<1> QED
  BY <1>3, <1>4

LEMMA CreateIsPlace ==
  ASSUME CheckoutInv, NEW k \in Slots, CreateOrder(k)
  PROVE  \E o \in OrderIds : OrderPromise!Place(o)
<1>1. PICK c \in CallType : c = call[k] /\ CallFits(c)
  BY DEF CheckoutInv, CheckoutTypeOK, GatewayTypeOK, CallType
<1>2. PICK o \in OrderIds :
        /\ ~Placed(o)
        /\ orders' = [orders EXCEPT ![o] = [status |-> "PENDING", user |-> c.user, seat |-> c.seat,
                                            good |-> c.good, charge |-> "due"]]
  BY <1>1 DEF CreateOrder
<1>3. c.user \in Users \cup {Guest} /\ c.seat \in Seats /\ c.good \in BOOLEAN
  BY <1>1 DEF CreateOrder, At, CallFits, CallType, Call
<1>4. PICK r : r = [status |-> "PENDING", user |-> c.user, seat |-> c.seat,
                    good |-> c.good, charge |-> "due"]
  OBVIOUS
<1>5. r \in Order /\ Terms(r) = [status |-> "PENDING", user |-> c.user, seat |-> c.seat]
  BY <1>3, <1>4 DEF Order, Terms
<1>6. orders \in [OrderIds -> Order] /\ orders[o].charge = "due" /\ orders[o].status = "NONE"
  BY <1>2 DEF CheckoutInv, CheckoutTypeOK, OrderFits, Placed
<1>7. /\ AllTerms' = [AllTerms EXCEPT ![o] = [status |-> "PENDING", user |-> c.user, seat |-> c.seat]]
      /\ Buys' = Buys
  <2>1. o \notin Buys /\ r.charge # "charged"
    BY <1>4, <1>6 DEF Buys
  <2>2. /\ AllTerms' = [AllTerms EXCEPT ![o] = Terms(r)]
        /\ Buys' = IF r.charge = "charged" THEN Buys \cup {o} ELSE Buys \ {o}
    BY <1>2, <1>4, <1>5, <1>6, TermsExcept
  <2> QED
    BY <1>5, <2>1, <2>2
<1>8. OrderPromise!Place(o)
  BY <1>3, <1>6, <1>7 DEF OrderPromise!Place, OrderPromise!Placed, AllTerms, Terms, Buys
<1> QED
  BY <1>8

(* The row of a placed order gets a status it is due. *)
LEMMA MarkMarks ==
  ASSUME CheckoutInv, NEW o \in OrderIds, Placed(o), NEW status \in OrderPromise!Ended,
         status = "COMPLETED" => Charged(o), orders' = [orders EXCEPT ![o].status = status]
  PROVE  OrderPromise!Mark(o, status)
<1>1. orders \in [OrderIds -> Order] /\ status \in Ended
  BY DEF CheckoutInv, CheckoutTypeOK, OrderPromise!Ended, Ended
<1>2. PICK r : r = [orders[o] EXCEPT !.status = status]
  OBVIOUS
<1>3. /\ r \in Order /\ r.charge = orders[o].charge
      /\ Terms(r) = [Terms(orders[o]) EXCEPT !.status = status]
  BY <1>1, <1>2 DEF Order, Terms
<1>4. orders' = [orders EXCEPT ![o] = r]
  BY <1>1, <1>2
<1>5. /\ AllTerms' = [AllTerms EXCEPT ![o].status = status]
      /\ Buys' = Buys
  BY <1>1, <1>3, <1>4, TermsExcept DEF AllTerms, Buys
<1>6. o \in Buys <=> Charged(o)
  BY DEF Buys, Charged
<1> QED
  BY <1>5, <1>6 DEF OrderPromise!Mark, OrderPromise!Placed, AllTerms, Terms, Buys, Placed

LEMMA SettleIsCharge ==
  ASSUME CheckoutInv, NEW o \in OrderIds, Settle(o)
  PROVE  OrderPromise!Charge(o) \/ UNCHANGED OrderPromise!vars
<1>1. PICK charge \in {"charged", "declined"} : orders' = [orders EXCEPT ![o].charge = charge]
  BY DEF Settle
<1>2. orders \in [OrderIds -> Order] /\ orders[o].status # "NONE" /\ o \notin Buys
  BY DEF CheckoutInv, CheckoutTypeOK, Settle, Placed, Buys
<1>3. PICK r : r = [orders[o] EXCEPT !.charge = charge]
  OBVIOUS
<1>4. r \in Order /\ r.charge = charge /\ Terms(r) = Terms(orders[o])
  BY <1>2, <1>3 DEF Order, Terms
<1>5. orders' = [orders EXCEPT ![o] = r]
  BY <1>1, <1>2, <1>3
<1>6. AllTerms' = AllTerms /\ (Buys' = IF charge = "charged" THEN Buys \cup {o} ELSE Buys)
  <2>1. /\ AllTerms' = [AllTerms EXCEPT ![o] = Terms(r)]
        /\ Buys' = IF r.charge = "charged" THEN Buys \cup {o} ELSE Buys \ {o}
    BY <1>2, <1>4, <1>5, TermsExcept
  <2>2. [AllTerms EXCEPT ![o] = Terms(orders[o])] = AllTerms
    BY DEF AllTerms
  <2> QED
    BY <1>2, <1>4, <2>1, <2>2
<1>7. CASE charge = "charged"
  BY <1>2, <1>6, <1>7 DEF OrderPromise!Charge, OrderPromise!Placed, AllTerms, Terms, Buys
<1>8. CASE charge # "charged"
  BY <1>6, <1>8 DEF OrderPromise!vars, AllTerms, Terms, Buys
<1> QED
  BY <1>7, <1>8

LEMMA OrderContractStep ==
  ASSUME CheckoutInv, [CheckoutNext]_checkoutVars
  PROVE  [OrderPromise!Next]_(OrderPromise!vars)
<1>1. CASE UNCHANGED orders
  BY <1>1 DEF OrderPromise!vars
<1>2. CASE \E k \in Slots : CreateOrder(k)
  BY <1>2, CreateIsPlace DEF OrderPromise!Next
<1>3. ASSUME NEW o \in OrderIds, Settle(o) PROVE [OrderPromise!Next]_(OrderPromise!vars)
  BY <1>3, SettleIsCharge DEF OrderPromise!Next
<1>4. ASSUME NEW o \in OrderIds, MarkOrder(o) \/ CancelOrder(o) PROVE OrderPromise!Next
  <2>1. PICK status \in OrderPromise!Ended :
          /\ status = "COMPLETED" => Charged(o)
          /\ orders' = [orders EXCEPT ![o].status = status]
    BY <1>4 DEF MarkOrder, CancelOrder, Verdict, Charged, OrderPromise!Ended
  <2>2. Placed(o)
    BY <1>4 DEF MarkOrder, CancelOrder, Take, CheckoutInv, OrderFits
  <2>3. OrderPromise!Mark(o, status)
    BY <2>1, <2>2, MarkMarks
  <2> QED
    BY <2>3 DEF OrderPromise!Next
<1>5. ASSUME NEW k \in Slots,
             \/ StartMonitor(k) \/ ReadOrder(k) \/ OutsidePay(k) \/ CallFault(k)
             \/ OutsideAnswer(k) /\ UNCHANGED <<inbox, user, saga, page, excused>>
             \/ \E b \in Browsers : AnswerCall(b, k) \/ PayHeld(b, k)
      PROVE  UNCHANGED orders
  BY <1>5 DEF StartMonitor, ReadOrder, OutsidePay, CallFault, LoseOrderRead, AnswerCall, PayHeld,
              PayAnswered, Declined, AskForOrder, OrderRead, saga
<1>6. ASSUME NEW o \in OrderIds, \/ AnnounceOutcome(o) \/ Tick(o) \/ PollAnswered(o)
                                 \/ PollFails(o) \/ LoseOutcome(o)
      PROVE  UNCHANGED orders
  BY <1>6 DEF AnnounceOutcome, Tick, PollAnswered, PollFails, LoseOutcome
<1>7. ASSUME NEW b \in Browsers, \/ HandleNews(b) \/ ChangeSession(b) \/ RemoveListed(b)
                                 \/ ReadOrders(b) \/ OrdersLoaded(b) \/ LoseOrders(b)
      PROVE  UNCHANGED orders
  BY <1>7 DEF HandleNews, ChangeSession, RemoveListed, ReadOrders, OrdersLoaded, LoseOrders, saga
<1>8. CASE UNCHANGED checkoutVars
  BY <1>1, <1>8 DEF checkoutVars, saga
<1> QED
  BY <1>1, <1>2, <1>3, <1>4, <1>5, <1>6, <1>7, <1>8 DEF CheckoutNext, ServeCall

(* What the gateway, its monitor and the buyer's page see of orders is the  *)
(* same contract that Saga implements: placed once, completed when charged. *)
THEOREM CheckoutKeepsOrderContract == CheckoutSpec => KeepsOrderContract
<1>1. CheckoutInit => OrderPromise!Init
  BY DEF CheckoutInit, OrderPromise!Init
<1>2. CheckoutInv /\ [CheckoutNext]_checkoutVars => [OrderPromise!Next]_(OrderPromise!vars)
  BY OrderContractStep
<1> QED
  BY <1>1, <1>2, CheckoutInvariance, PTL DEF CheckoutSpec, KeepsOrderContract, OrderPromise!Spec
=============================================================================
