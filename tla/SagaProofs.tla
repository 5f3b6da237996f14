----------------------------- MODULE SagaProofs -----------------------------
(***************************************************************************)
(* Theorems about Saga.  Every step of the saga is a step of the inventory *)
(* service or leaves it alone, so the saga inherits what InventoryProofs   *)
(* proves; and a seat is sold to nobody who was not charged for it.        *)
(***************************************************************************)
EXTENDS Saga, InventoryProofs

-----------------------------------------------------------------------------
(* The saga implements the inventory service. *)

LEMMA SagaStepIsInventoryStep ==
  ASSUME SagaTypeOK, [SagaNext]_allVars
  PROVE  [Next]_vars
<1>1. ASSUME NEW h \in Handlers, OrderStep(h)
      PROVE  UNCHANGED vars
  BY <1>1 DEF OrderStep, CreateOrder, CancelOrder, TakeResult, SaveStatus, Emit, HandlerStops
<1>2. CASE TakeOrderEvent \/ Settle \/ Lose
  BY <1>2 DEF TakeOrderEvent, Settle, Lose
<1>3. ASSUME NEW w \in Workers, TakeInventoryResult(w)
      PROVE  Next
  <2>1. PICK m \in inventoryQueue :
          Start(w, IF m.ok THEN "confirm" ELSE "release", m.ticket, m.user, None)
    BY <1>3 DEF TakeInventoryResult
  <2>2. m.ticket \in Ids /\ m.user \in Users
    BY DEF SagaTypeOK, Result
  <2>3. PICK op \in {"confirm", "release"} : Start(w, op, m.ticket, m.user, None)
    BY <2>1
  <2>4. op \in Calls \ {"view"}
    BY SagaAssumption
  <2>5. QED
    BY <2>2, <2>3, <2>4 DEF Next, Call
<1>4. ASSUME NEW w \in Workers, ClientCall(w)
      PROVE  Next
  BY <1>4, SagaAssumption DEF ClientCall, Next, Call
<1>5. ASSUME NEW w \in Workers, InventoryStep(w)
      PROVE  Next
  BY <1>5 DEF InventoryStep, Next
<1>6. CASE InventoryEnvironment
  BY <1>6 DEF InventoryEnvironment, Next
<1>7. CASE UNCHANGED allVars
  BY <1>7 DEF allVars
<1>8. QED
  BY <1>1, <1>2, <1>3, <1>4, <1>5, <1>6, <1>7 DEF SagaNext

(* The domains of the saga's own variables. *)
SagaDomains ==
  /\ orders \in [OrderIds -> Order]
  /\ handler \in [Handlers -> Handling]
  /\ \A o \in OrderIds : orders[o].status # "NONE" => Placed(orders[o])
  /\ \A h \in Handlers : HandlerFits(handler[h])
  /\ paymentQueue \subseteq OrderEvent /\ paying \subseteq OrderEvent
  /\ orderQueue \subseteq Result /\ inventoryQueue \subseteq Result /\ charged \subseteq Result
  /\ cancelled \subseteq OrderIds /\ lost \subseteq OrderIds

LEMMA HandlerGoesOK ==
  ASSUME SagaDomains, NEW h \in Handlers, NEW pc \in {"save", "emit"},
         NEW event \in {"created", "cancelled", "result"}, NEW o \in OrderIds,
         NEW copy \in Order, Placed(copy), NEW write \in OrderStatuses,
         pc = "emit" => event # "result", HandlerGoes(h, pc, event, o, copy, write)
  PROVE  /\ handler' \in [Handlers -> Handling]
         /\ \A k \in Handlers : HandlerFits(handler'[k])
<1> DEFINE new == [pc |-> pc, event |-> event, order |-> o, copy |-> copy, write |-> write]
<1>1. new \in Handling /\ HandlerFits(new)
  BY DEF Handling, HandlerFits
<1>2. handler' = [handler EXCEPT ![h] = new]
  BY DEF HandlerGoes
<1> HIDE DEF new
<1>3. QED
  BY <1>1, <1>2 DEF SagaDomains

LEMMA HandlerDoneOK ==
  ASSUME SagaDomains, NEW h \in Handlers, HandlerDone(h)
  PROVE  /\ handler' \in [Handlers -> Handling]
         /\ \A k \in Handlers : HandlerFits(handler'[k])
<1>1. IdleHandler \in Handling /\ HandlerFits(IdleHandler)
  BY DEF IdleHandler, HandlerFits, Handling, NoOrder, Order, OrderStatuses
<1>2. QED
  BY <1>1 DEF HandlerDone, SagaDomains

LEMMA DomainsStep ==
  ASSUME SagaTypeOK, SagaNext
  PROVE  SagaDomains'
<1> SUFFICES ASSUME SagaDomains
             PROVE  SagaDomains'
  BY DEF SagaTypeOK, SagaDomains
<1>1. ASSUME NEW h \in Handlers, CreateOrder(h)
      PROVE  SagaDomains'
  <2>1. PICK o \in OrderIds, c \in claims, amount \in Amounts :
          LET order == [status |-> "PENDING", user |-> c.user, ticket |-> c.key,
                        amount |-> amount] IN
          /\ orders' = [orders EXCEPT ![o] = order]
          /\ HandlerGoes(h, "emit", "created", o, order, "PENDING")
    BY <1>1 DEF CreateOrder
  <2> DEFINE order == [status |-> "PENDING", user |-> c.user, ticket |-> c.key,
                       amount |-> amount]
  <2>2. order \in Order /\ Placed(order)
    BY SagaAssumption DEF SagaTypeOK, TypeOK, Claim, Order, OrderStatuses, Placed
  <2>3. orders' = [orders EXCEPT ![o] = order] /\ HandlerGoes(h, "emit", "created", o, order, "PENDING")
    BY <2>1
  <2> HIDE DEF order
  <2>4. /\ orders' \in [OrderIds -> Order]
        /\ \A x \in OrderIds : orders'[x].status # "NONE" => Placed(orders'[x])
    BY <2>2, <2>3 DEF SagaDomains
  <2>5. "PENDING" \in OrderStatuses
    BY DEF OrderStatuses
  <2>6. /\ handler' \in [Handlers -> Handling]
        /\ \A k \in Handlers : HandlerFits(handler'[k])
    BY <2>2, <2>3, <2>5, HandlerGoesOK
  <2>7. QED
    BY <1>1, <2>4, <2>6 DEF CreateOrder, SagaDomains
<1>2. ASSUME NEW h \in Handlers, Emit(h)
      PROVE  SagaDomains'
  <2> DEFINE m == [event |-> handler[h].event, order |-> handler[h].order,
                   user |-> handler[h].copy.user, ticket |-> handler[h].copy.ticket,
                   amount |-> handler[h].copy.amount]
  <2>1. m \in OrderEvent
    BY <1>2 DEF Emit, SagaDomains, HandlerFits, Handling, Order, Placed, OrderEvent
  <2>2. QED
    BY <1>2, <2>1, HandlerDoneOK DEF Emit, SagaDomains
<1>3. ASSUME NEW h \in Handlers, CancelOrder(h)
      PROVE  SagaDomains'
  <2>1. PICK o \in Cancellable : /\ orders[o].status # "NONE"
                                 /\ HandlerGoes(h, "save", "cancelled", o, orders[o], "CANCELLED")
                                 /\ cancelled' = cancelled \cup {o}
    BY <1>3 DEF CancelOrder
  <2>2. o \in OrderIds /\ orders[o] \in Order /\ Placed(orders[o]) /\ "CANCELLED" \in OrderStatuses
    BY <2>1, SagaAssumption DEF SagaDomains, OrderStatuses
  <2>3. QED
    BY <1>3, <2>1, <2>2, HandlerGoesOK DEF CancelOrder, SagaDomains
<1>4. ASSUME NEW h \in Handlers, TakeResult(h)
      PROVE  SagaDomains'
  <2>1. PICK m \in orderQueue :
          IF orders[m.order].status = "NONE" THEN UNCHANGED handler
          ELSE HandlerGoes(h, "save", "result", m.order, orders[m.order],
                           IF m.ok THEN "COMPLETED" ELSE "CANCELLED")
    BY <1>4 DEF TakeResult
  <2>2. m.order \in OrderIds /\ orders[m.order] \in Order
    BY DEF SagaDomains, Result
  <2>3. (IF m.ok THEN "COMPLETED" ELSE "CANCELLED") \in OrderStatuses
    BY DEF OrderStatuses
  <2>4. /\ handler' \in [Handlers -> Handling]
        /\ \A k \in Handlers : HandlerFits(handler'[k])
    <3>1. CASE orders[m.order].status = "NONE"
      BY <2>1, <3>1 DEF SagaDomains
    <3>2. CASE orders[m.order].status # "NONE"
      <4>1. Placed(orders[m.order])
        BY <2>2, <3>2 DEF SagaDomains
      <4>2. QED
        BY <2>1, <2>2, <2>3, <3>2, <4>1, HandlerGoesOK
    <3>3. QED
      BY <3>1, <3>2
  <2>5. QED
    BY <1>4, <2>4 DEF TakeResult, SagaDomains
<1>5. ASSUME NEW h \in Handlers, SaveStatus(h)
      PROVE  SagaDomains'
  <2> DEFINE j == handler[h]
             saved == [j.copy EXCEPT !.status = j.write]
  <2>1. /\ j.order \in OrderIds /\ j.copy \in Order /\ Placed(j.copy)
        /\ j.write \in OrderStatuses /\ j.event \in {"created", "cancelled", "result"}
    BY <1>5 DEF SaveStatus, SagaDomains, HandlerFits, Handling
  <2>2. saved \in Order /\ Placed(saved)
    BY <2>1 DEF Order, OrderStatuses, Placed
  <2>3. orders' = [orders EXCEPT ![j.order] = saved]
    BY <1>5 DEF SaveStatus
  <2> HIDE DEF saved
  <2>4. /\ orders' \in [OrderIds -> Order]
        /\ \A x \in OrderIds : orders'[x].status # "NONE" => Placed(orders'[x])
    BY <2>1, <2>2, <2>3 DEF SagaDomains
  <2>5. HandlerGoes(h, "emit", "cancelled", j.order, j.copy, j.write) \/ HandlerDone(h)
    BY <1>5 DEF SaveStatus
  <2>6. /\ handler' \in [Handlers -> Handling]
        /\ \A k \in Handlers : HandlerFits(handler'[k])
    BY <2>1, <2>5, HandlerGoesOK, HandlerDoneOK
  <2>7. QED
    BY <1>5, <2>4, <2>6 DEF SaveStatus, SagaDomains
<1>6. ASSUME NEW h \in Handlers, HandlerStops(h)
      PROVE  SagaDomains'
  BY <1>6, HandlerDoneOK DEF HandlerStops, HandlerFits, SagaDomains
<1>7. CASE TakeOrderEvent
  BY <1>7 DEF TakeOrderEvent, SagaDomains
<1>8. CASE Settle
  <2>1. PICK m \in paying :
          LET r == [order |-> m.order, user |-> m.user, ticket |-> m.ticket,
                    ok |-> m.amount = "accepted"] IN
          /\ paying' = paying \ {m}
          /\ orderQueue' = orderQueue \cup {r}
          /\ inventoryQueue' = inventoryQueue \cup {r}
          /\ charged' = IF r.ok THEN charged \cup {r} ELSE charged
    BY <1>8 DEF Settle
  <2> DEFINE r == [order |-> m.order, user |-> m.user, ticket |-> m.ticket,
                   ok |-> m.amount = "accepted"]
  <2>2. r \in Result
    BY DEF SagaDomains, OrderEvent, Result
  <2>3. /\ paying' \subseteq paying /\ orderQueue' = orderQueue \cup {r}
        /\ inventoryQueue' = inventoryQueue \cup {r} /\ charged' \subseteq charged \cup {r}
    BY <2>1
  <2> HIDE DEF r
  <2>4. QED
    BY <1>8, <2>2, <2>3 DEF Settle, SagaDomains
<1>9. CASE Lose
  BY <1>9 DEF Lose, SagaDomains, OrderEvent, Result
<1>10. ASSUME NEW w \in Workers, TakeInventoryResult(w)
       PROVE  SagaDomains'
  BY <1>10 DEF TakeInventoryResult, SagaDomains
<1>11. ASSUME NEW w \in Workers, ClientCall(w) \/ InventoryStep(w)
       PROVE  SagaDomains'
  BY <1>11 DEF ClientCall, InventoryStep, sagaVars, SagaDomains
<1>12. CASE InventoryEnvironment
  BY <1>12 DEF InventoryEnvironment, sagaVars, SagaDomains
<1>13. QED
  BY <1>1, <1>2, <1>3, <1>4, <1>5, <1>6, <1>7, <1>8, <1>9, <1>10, <1>11, <1>12
    DEF SagaNext, OrderStep

-----------------------------------------------------------------------------
(* What the saga inherits from the inventory service. *)

SagaInv == IInv /\ SagaTypeOK

LEMMA SagaInvInit == SagaInit => SagaInv
<1> SUFFICES ASSUME SagaInit
             PROVE  SagaInv
  OBVIOUS
<1>1. IInv
  BY InitIInv DEF SagaInit
<1>2. NoOrder \in Order /\ NoOrder.status = "NONE"
  BY DEF NoOrder, Order
<1>3. IdleHandler \in Handling /\ HandlerFits(IdleHandler)
  BY DEF IdleHandler, Handling, NoOrder, Order, OrderStatuses, HandlerFits
<1>4. SagaDomains
  BY <1>2, <1>3 DEF SagaInit, SagaDomains
<1>5. QED
  BY <1>1, <1>4 DEF SagaInv, IInv, SagaTypeOK, SagaDomains

LEMMA SagaInvStep == SagaInv /\ [SagaNext]_allVars => SagaInv'
<1> SUFFICES ASSUME SagaInv, [SagaNext]_allVars
             PROVE  SagaInv'
  OBVIOUS
<1>1. IInv'
  BY SagaStepIsInventoryStep, IInvStep DEF SagaInv
<1>2. SagaDomains'
  <2>1. CASE SagaNext
    BY <2>1, DomainsStep DEF SagaInv
  <2>2. CASE UNCHANGED allVars
    BY <2>2 DEF SagaInv, SagaTypeOK, SagaDomains, allVars, sagaVars
  <2>3. QED
    BY <2>1, <2>2
<1>3. QED
  BY <1>1, <1>2 DEF SagaInv, IInv, SagaTypeOK, SagaDomains

LEMMA SagaInvariance == SagaSpec => []SagaInv
  BY SagaInvInit, SagaInvStep, PTL DEF SagaSpec

(* Orders, messages and handlers of the saga stay in their domains, and an  *)
(* order that exists names a buyer and a ticket.                            *)
THEOREM SagaTypeCorrect == SagaSpec => []SagaTypeOK
<1>1. SagaInv => SagaTypeOK
  BY DEF SagaInv
<1>2. QED
  BY <1>1, SagaInvariance, PTL

(* The saga with the inventory service in it implements that service alone: *)
(* what order and payment services send it is what Spec lets anyone send.   *)
THEOREM SagaImplementsInventory == SagaSpec => Spec
<1>1. SagaInit => Init
  BY DEF SagaInit
<1>2. SagaInv /\ [SagaNext]_allVars => [Next]_vars
  BY SagaStepIsInventoryStep DEF SagaInv
<1>3. QED
  BY <1>1, <1>2, SagaInvariance, PTL DEF SagaSpec, Spec

(* Hence holds stay exclusive while orders are placed, paid and cancelled,  *)
(* and the saga as a whole keeps the contract of a hold.                    *)
THEOREM SagaHoldsExclusive == SagaSpec => []OneHolderPerKey
  BY SagaImplementsInventory, HoldsExclusive

THEOREM SagaKeepsHoldContract == SagaSpec => KeepsContract
  BY SagaImplementsInventory, KeepsHoldContract

-----------------------------------------------------------------------------
(* A seat is sold only to somebody who was charged for it. *)

(* A step of w ends its invocation, or leaves it the same request; and it   *)
(* is about to sell only rows found under the request's id or its alias.    *)
SameRequest(w) ==
  /\ job'[w].op = job[w].op /\ job'[w].id = job[w].id /\ job'[w].user = job[w].user
  /\ job'[w].pc = "sell" => \A r \in Ids : job'[w].copy[r].status # "ABSENT" =>
                               r \in {job[w].id, Alias[job[w].id]}
Follows(w) ==
  /\ \A v \in Workers \ {w} : job'[v] = job[v]
  /\ job'[w] = Idle \/ SameRequest(w)

LEMMA DoneFollows ==
  ASSUME TypeOK, NEW w \in Workers, Done(w)
  PROVE  Follows(w)
  BY DEF TypeOK, Done, Follows

LEMMA GotoFollows ==
  ASSUME TypeOK, NEW w \in Workers, NEW pc, pc # "sell", Goto(w, pc)
  PROVE  Follows(w)
<1>1. job[w] \in Job
  BY DEF TypeOK
<1>2. job' = [job EXCEPT ![w] = To(job[w], pc)]
  BY DEF Goto, To
<1>3. /\ To(job[w], pc).op = job[w].op /\ To(job[w], pc).id = job[w].id
      /\ To(job[w], pc).user = job[w].user /\ To(job[w], pc).pc = pc
  BY <1>1 DEF Job, To
<1>4. QED
  BY <1>2, <1>3 DEF TypeOK, Follows, SameRequest

LEMMA LoadFollows ==
  ASSUME TypeOK, NEW w \in Workers, NEW ids, NEW pc, Load(w, ids, pc),
         pc = "sell" => ids \subseteq {job[w].id, Alias[job[w].id]}
  PROVE  Follows(w)
<1> DEFINE c == [r \in Ids |-> IF r \in ids THEN row[r] ELSE Absent]
<1>1. job[w] \in Job
  BY DEF TypeOK
<1>2. job' = [job EXCEPT ![w] = ToWith(job[w], pc, c)]
  BY DEF Load, ToWith
<1>3. \A r \in Ids : c[r].status # "ABSENT" => r \in ids
  BY DEF Absent
<1> HIDE DEF c
<1>4. /\ ToWith(job[w], pc, c).op = job[w].op /\ ToWith(job[w], pc, c).id = job[w].id
      /\ ToWith(job[w], pc, c).user = job[w].user /\ ToWith(job[w], pc, c).pc = pc
      /\ ToWith(job[w], pc, c).copy = c
  BY <1>1 DEF Job, ToWith
<1>5. QED
  BY <1>2, <1>3, <1>4 DEF TypeOK, Follows, SameRequest

LEMMA StepFollows ==
  ASSUME TypeOK, NEW w \in Workers, Step(w) \/ Abort(w)
  PROVE  Follows(w)
<1>1. CASE Done(w)
  BY <1>1, DoneFollows
<1>2. CASE \E pc : pc # "sell" /\ Goto(w, pc)
  BY <1>2, GotoFollows
<1>3. CASE \E ids, pc : Load(w, ids, pc) /\ pc # "sell"
  BY <1>3, LoadFollows
<1>4. CASE \E r \in {job[w].id, Alias[job[w].id]} : Found(w, r)
  <2>1. PICK r \in {job[w].id, Alias[job[w].id]} : Found(w, r)
    BY <1>4
  <2>2. CASE Load(w, {r}, AfterResolve[job[w].op])
    BY <2>1, <2>2, LoadFollows
  <2>3. QED
    BY <1>1, <2>1, <2>2 DEF Found
<1>5. CASE SetLock(w)
  <2>1. job[w] \in Job
    BY DEF TypeOK
  <2>2. CASE \E x : job' = [job EXCEPT ![w].pc = "hold", ![w].until = x]
    BY <2>1, <2>2 DEF TypeOK, Job, Follows, SameRequest
  <2>3. QED
    BY <1>1, <1>5, <2>2 DEF SetLock
<1>6. CASE SweepFind(w) \/ SweepDel(w) \/ SweepSave(w)
  BY <1>2, <1>3, <1>6 DEF SweepFind, SweepDel, SweepSave, AfterSweep
<1>7. CASE Resolve(w) \/ ResolveAlias(w) \/ Reload(w)
  BY <1>1, <1>2, <1>4, <1>7 DEF Resolve, ResolveAlias, Reload, Missing
<1>8. CASE FindForEvent(w) \/ Provision(w) \/ RefuseHold(w) \/ SaveHold(w) \/ Unlock(w)
  BY <1>1, <1>2, <1>8 DEF FindForEvent, Provision, RefuseHold, SaveHold, Unlock
<1>9. CASE SaveRelease(w) \/ SaveSold(w) \/ UnlockSold(w) \/ ListFind(w) \/ SaveListing(w)
           \/ Abort(w)
  BY <1>1, <1>2, <1>3, <1>9
    DEF SaveRelease, SaveSold, UnlockSold, ListFind, SaveListing, Abort
<1>10. QED
  BY <1>5, <1>6, <1>7, <1>8, <1>9 DEF Step

(* The strengthening: whatever is on its way to a sale was charged. *)
PaidFor(u, t) == \E p \in charged : p.user = u /\ p.ticket = t
PaidInv ==
  /\ SoldWasPaid
  /\ \A w \in Workers : job[w].op = "confirm" => PaidFor(job[w].user, job[w].id)
  /\ \A w \in Workers : At(w, "sell") =>
       Loaded(w) \subseteq {job[w].id, Alias[job[w].id]}
  /\ \A m \in inventoryQueue : m.ok => m \in charged

LEMMA SoldBySale ==
  ASSUME IInv, [Next]_vars, NEW r \in Ids, row'[r] # row[r], row'[r].status = "SOLD"
  PROVE  \E w \in Workers : SaveSold(w) /\ r \in Loaded(w) /\ row'[r].holder = job[w].user
<1>1. PICK w \in Workers : Writes(w, r)
  BY RowWriters
<1>2. /\ SaveSold(w) /\ r \in Loaded(w) /\ job[w].copy[r] \in Row
      /\ row'[r] = SoldTo(job[w].copy[r], job[w].user)
  BY <1>1, WrittenStatus DEF Writes
<1>3. SoldTo(job[w].copy[r], job[w].user).holder = job[w].user
  BY <1>2 DEF SoldTo, Row
<1>4. QED
  BY <1>2, <1>3

(* The ledger only grows, and a success reaches the inventory only from it. *)
LEMMA LedgerStep ==
  ASSUME [SagaNext]_allVars, \A m \in inventoryQueue : m.ok => m \in charged
  PROVE  /\ charged \subseteq charged'
         /\ \A m \in inventoryQueue' : m.ok => m \in charged'
<1>1. ASSUME NEW h \in Handlers, OrderStep(h)
      PROVE  UNCHANGED <<charged, inventoryQueue>>
  BY <1>1 DEF OrderStep, CreateOrder, CancelOrder, TakeResult, SaveStatus, Emit, HandlerStops
<1>2. CASE Settle
  BY <1>2 DEF Settle
<1>3. CASE TakeOrderEvent \/ Lose
  BY <1>3 DEF TakeOrderEvent, Lose
<1>4. ASSUME NEW w \in Workers, TakeInventoryResult(w) \/ ClientCall(w) \/ InventoryStep(w)
      PROVE  charged' = charged /\ inventoryQueue' \subseteq inventoryQueue
  BY <1>4 DEF TakeInventoryResult, ClientCall, InventoryStep, sagaVars
<1>5. CASE InventoryEnvironment \/ UNCHANGED allVars
  BY <1>5 DEF InventoryEnvironment, allVars, sagaVars
<1>6. QED
  BY <1>1, <1>2, <1>3, <1>4, <1>5 DEF SagaNext

(* What a confirmation is about, before and after a step. *)
JobsPaid ==
  /\ \A w \in Workers : job[w].op = "confirm" => PaidFor(job[w].user, job[w].id)
  /\ \A w \in Workers : At(w, "sell") =>
       Loaded(w) \subseteq {job[w].id, Alias[job[w].id]}

LEMMA StartPaid ==
  ASSUME TypeOK, JobsPaid, NEW w \in Workers, NEW op, NEW id, NEW u, Start(w, op, id, u, None),
         op \in {"reserve", "release", "confirm", "list"},
         op = "confirm" => PaidFor(u, id), charged' = charged
  PROVE  JobsPaid'
<1>1. First(op) # "sell"
  BY DEF First
<1> DEFINE new == [pc |-> First(op), op |-> op, id |-> id, user |-> u, event |-> None,
                   until |-> 0, copy |-> Nothing]
<1>2. job' = [job EXCEPT ![w] = new] /\ new.op = op /\ new.id = id /\ new.user = u
      /\ new.pc = First(op)
  BY DEF Start
<1> HIDE DEF new
<1>3. QED
  BY <1>1, <1>2 DEF TypeOK, JobsPaid, PaidFor, At, Loaded

LEMMA JobsPaidStep ==
  ASSUME SagaInv, PaidInv, [SagaNext]_allVars
  PROVE  JobsPaid'
<1>1. TypeOK /\ JobsPaid /\ charged \subseteq charged'
  BY LedgerStep DEF SagaInv, IInv, PaidInv, JobsPaid
<1>2. CASE job' = job
  BY <1>1, <1>2 DEF JobsPaid, PaidFor, At, Loaded
<1>3. ASSUME NEW w \in Workers, TakeInventoryResult(w)
      PROVE  JobsPaid'
  <2>1. PICK m \in inventoryQueue :
          Start(w, IF m.ok THEN "confirm" ELSE "release", m.ticket, m.user, None)
    BY <1>3 DEF TakeInventoryResult
  <2>2. m.ok => PaidFor(m.user, m.ticket)
    BY DEF PaidInv, PaidFor
  <2>3. charged' = charged
    BY <1>3 DEF TakeInventoryResult
  <2>4. CASE m.ok
    BY <1>1, <2>1, <2>2, <2>3, <2>4, StartPaid
  <2>5. CASE ~m.ok
    BY <1>1, <2>1, <2>3, <2>5, StartPaid
  <2>6. QED
    BY <2>4, <2>5
<1>4. ASSUME NEW w \in Workers, ClientCall(w)
      PROVE  JobsPaid'
  <2>1. PICK op \in ClientCalls, id \in Ids, u \in Users : Start(w, op, id, u, None)
    BY <1>4 DEF ClientCall
  <2>2. op \in {"reserve", "release", "list"}
    BY SagaAssumption, ConstantsAssumption DEF Ops
  <2>3. charged' = charged
    BY <1>4 DEF ClientCall, sagaVars
  <2>4. QED
    BY <1>1, <2>1, <2>2, <2>3, StartPaid
<1>5. ASSUME NEW w \in Workers, InventoryStep(w)
      PROVE  JobsPaid'
  <2>1. Follows(w)
    BY <1>1, <1>5, StepFollows DEF InventoryStep
  <2>2. Idle.op # "confirm" /\ Idle.pc # "sell"
    BY ConstantsAssumption DEF Idle, Ops
  <2>3. charged' = charged
    BY <1>5 DEF InventoryStep, sagaVars
  <2>4. QED
    BY <1>1, <2>1, <2>2, <2>3 DEF JobsPaid, Follows, SameRequest, PaidFor, At, Loaded
<1>6. ASSUME NEW h \in Handlers, OrderStep(h)
      PROVE  job' = job
  BY <1>6 DEF OrderStep, CreateOrder, CancelOrder, TakeResult, SaveStatus, Emit,
              HandlerStops, vars
<1>7. CASE TakeOrderEvent \/ Settle \/ Lose \/ InventoryEnvironment \/ UNCHANGED allVars
  BY <1>2, <1>7 DEF TakeOrderEvent, Settle, Lose, InventoryEnvironment, Environment,
                    RedisDown, RedisUp, RedisRestart, Tick, vars, allVars
<1>8. QED
  BY <1>2, <1>3, <1>4, <1>5, <1>6, <1>7 DEF SagaNext

LEMMA PaidStep == SagaInv /\ PaidInv /\ [SagaNext]_allVars => PaidInv'
<1> SUFFICES ASSUME SagaInv, PaidInv, [SagaNext]_allVars
             PROVE  PaidInv'
  OBVIOUS
<1>1. charged \subseteq charged' /\ \A m \in inventoryQueue' : m.ok => m \in charged'
  BY LedgerStep DEF PaidInv
<1>2. ASSUME NEW r \in Ids, row'[r].status = "SOLD"
      PROVE  \E p \in charged : p.user = row'[r].holder /\ r \in {p.ticket, Alias[p.ticket]}
  <2>1. CASE row'[r] = row[r]
    BY <1>2, <2>1 DEF PaidInv, SoldWasPaid
  <2>2. CASE row'[r] # row[r]
    <3>1. [Next]_vars
      BY SagaStepIsInventoryStep DEF SagaInv
    <3>2. PICK w \in Workers : SaveSold(w) /\ r \in Loaded(w) /\ row'[r].holder = job[w].user
      BY <1>2, <2>2, <3>1, SoldBySale DEF SagaInv
    <3>3. At(w, "sell") /\ job[w].op = "confirm"
      BY <3>2 DEF SaveSold, At, SagaInv, IInv, TypeOK, JobFits
    <3>4. PaidFor(job[w].user, job[w].id) /\ r \in {job[w].id, Alias[job[w].id]}
      BY <3>2, <3>3 DEF PaidInv
    <3>5. QED
      BY <3>2, <3>4 DEF PaidFor
  <2>3. QED
    BY <2>1, <2>2
<1>3. QED
  BY <1>1, <1>2, JobsPaidStep DEF PaidInv, SoldWasPaid, JobsPaid

(* Whatever the saga's services, its clients, Redis and lost messages do, a *)
(* row is SOLD only to somebody charged for that seat.                      *)
THEOREM NobodyGetsASeatUnpaid == SagaSpec => []SoldWasPaid
<1>1. SagaInit => PaidInv
  <2> SUFFICES ASSUME SagaInit
               PROVE  PaidInv
    OBVIOUS
  <2>1. \A r \in Ids : row[r].status # "SOLD"
    BY DEF SagaInit, Init, Absent, Seat
  <2>2. \A w \in Workers : job[w].op # "confirm" /\ job[w].pc # "sell"
    BY ConstantsAssumption DEF SagaInit, Init, Idle, Ops
  <2>3. QED
    BY <2>1, <2>2 DEF SagaInit, PaidInv, SoldWasPaid, At
<1>2. PaidInv => SoldWasPaid
  BY DEF PaidInv
<1>3. QED
  BY <1>1, <1>2, PaidStep, SagaInvariance, PTL DEF SagaSpec
=============================================================================
