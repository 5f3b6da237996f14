--------------------------- MODULE SagaOrderProofs ---------------------------
(***************************************************************************)
(* Theorems about the course of an order in Saga, when no two orders are   *)
(* made in one millisecond: it is on its way in one place at a time, and   *)
(* ends in agreement with its payment.                                     *)
(***************************************************************************)
EXTENDS SagaProofs, FiniteSetTheorems

-----------------------------------------------------------------------------
(* What is a token of order o. *)
Carries(j, o) ==
  /\ j.order = o
  /\ \/ j.pc = "emit" /\ j.event = "created"
     \/ j.pc = "save" /\ j.event = "result"
IsToken(x, o) ==
  \/ \E h \in Handlers : x = <<"handler", h>> /\ Carries(handler[h], o)
  \/ \E m \in paymentQueue : x = <<"message", m>> /\ m.order = o /\ m.event = "created"
  \/ \E m \in paying : x = <<"payment", m>> /\ m.order = o
  \/ \E m \in orderQueue : x = <<"result", m>> /\ m.order = o

LEMMA TokensNow == \A o, x : x \in Tokens(o) <=> IsToken(x, o)
  BY DEF Tokens, IsToken, Carries

LEMMA TokensNext == \A o, x : x \in Tokens(o)' <=> IsToken(x, o)'
  BY DEF Tokens, IsToken, Carries

(* What a step does to the tokens of an order. *)
Stays(o) == Tokens(o)' = Tokens(o)
Appears(o, y) == Tokens(o)' = Tokens(o) \cup {y}
Vanishes(o, x) == x \in Tokens(o) /\ Tokens(o)' = Tokens(o) \ {x}
PassesOn(o, x, y) == x \in Tokens(o) /\ Tokens(o)' = (Tokens(o) \ {x}) \cup {y}

(* A handler takes up something else, and no queue changes. *)
LEMMA HandlerTokens ==
  ASSUME handler \in [Handlers -> Handling], NEW h \in Handlers, NEW new,
         handler' = [handler EXCEPT ![h] = new],
         UNCHANGED <<paymentQueue, paying, orderQueue>>, NEW o, NEW x
  PROVE  x \in Tokens(o)' <=> IF x = <<"handler", h>> THEN Carries(new, o) ELSE x \in Tokens(o)
<1>1. \A k \in Handlers : handler'[k] = IF k = h THEN new ELSE handler[k]
  OBVIOUS
<1>2. CASE x = <<"handler", h>>
  BY <1>1, <1>2, TokensNext DEF IsToken, Carries
<1>3. CASE x # <<"handler", h>>
  BY <1>1, <1>3, TokensNow, TokensNext DEF IsToken, Carries
<1>4. QED BY <1>2, <1>3

-----------------------------------------------------------------------------
(* One order, one place: the invariant, and what a step may do to an order. *)
AtMostOne(o) == \A x, y \in Tokens(o) : x = y
TokenInv ==
  /\ \A o \in OrderIds : AtMostOne(o)
  /\ \A o \in OrderIds : orders[o].status = "NONE" => Tokens(o) = {}
  /\ \A o \in OrderIds : orders[o].status = "PENDING" /\ o \notin lost => Tokens(o) # {}
  /\ \A h \in Handlers : handler[h].pc = "save" => handler[h].write # "PENDING"

(* A handler saves order o, which it carries or not. *)
Saves(o, carried) ==
  \E h \in Handlers : LET j == handler[h] IN
    /\ SaveStatus(h) /\ j.order = o /\ orders'[o].status = j.write
    /\ j.write \notin {"NONE", "PENDING"} /\ (Carries(j, o) <=> carried)

Effect(o) ==
  \/ Stays(o) /\ (orders'[o].status = orders[o].status \/ Saves(o, FALSE))
  \/ orders[o].status = "NONE" /\ orders'[o].status # "NONE" /\ \E y : Appears(o, y)
  \/ /\ \E x : Vanishes(o, x)
     /\ (o \in lost' /\ orders'[o].status = orders[o].status) \/ Saves(o, TRUE)
  \/ orders'[o].status = orders[o].status /\ \E x, y : PassesOn(o, x, y)

LEMMA EffectKeeps ==
  ASSUME TokenInv, lost \subseteq lost', NEW o \in OrderIds, Effect(o)
  PROVE  /\ AtMostOne(o)'
         /\ orders'[o].status = "NONE" => Tokens(o)' = {}
         /\ orders'[o].status = "PENDING" /\ o \notin lost' => Tokens(o)' # {}
<1> DEFINE T == Tokens(o)
           U == Tokens(o)'
<1>1. /\ \A x, y \in T : x = y
      /\ orders[o].status = "NONE" => T = {}
      /\ orders[o].status = "PENDING" /\ o \notin lost => T # {}
  BY DEF TokenInv, AtMostOne
<1>2. \/ U = T /\ (orders'[o].status # orders[o].status => orders'[o].status \notin {"NONE", "PENDING"})
      \/ orders[o].status = "NONE" /\ orders'[o].status # "NONE" /\ \E y : U = T \cup {y}
      \/ /\ \E x : x \in T /\ U = T \ {x}
         /\ orders'[o].status = "NONE" => orders[o].status = "NONE"
         /\ orders'[o].status = "PENDING" => o \in lost'
      \/ orders'[o].status = orders[o].status /\ \E x, y : x \in T /\ U = (T \ {x}) \cup {y}
  BY DEF Effect, Saves, Stays, Appears, Vanishes, PassesOn
<1> HIDE DEF T, U
<1>3. /\ \A x, y \in U : x = y
      /\ orders'[o].status = "NONE" => U = {}
      /\ orders'[o].status = "PENDING" /\ o \notin lost' => U # {}
  BY <1>1, <1>2
<1>4. QED BY <1>3 DEF U, AtMostOne

LEMMA OneAtMost == ASSUME NEW o, AtMostOne(o) PROVE Cardinality(Tokens(o)) <= 1
<1>1. CASE Tokens(o) = {}
  BY <1>1, FS_EmptySet
<1>2. CASE Tokens(o) # {}
  <2>1. PICK x : x \in Tokens(o)
    BY <1>2
  <2>2. Tokens(o) = {x}
    BY <2>1 DEF AtMostOne
  <2>3. QED BY <2>2, FS_Singleton
<1>3. QED BY <1>1, <1>2

LEMMA CreateOrderEffect ==
  ASSUME SagaInv, TokenInv, ~SameMs, NEW h \in Handlers, CreateOrder(h), NEW o \in OrderIds
  PROVE  Effect(o)
<1>1. PICK p \in OrderIds, c \in claims, amount \in Amounts :
        LET order == [status |-> "PENDING", user |-> c.user, ticket |-> c.key,
                      amount |-> amount] IN
        /\ orders[p].status = "NONE"
        /\ orders' = [orders EXCEPT ![p] = order]
        /\ HandlerGoes(h, "emit", "created", p, order, "PENDING")
  BY DEF CreateOrder
<1> DEFINE order == [status |-> "PENDING", user |-> c.user, ticket |-> c.key, amount |-> amount]
           new == [pc |-> "emit", event |-> "created", order |-> p, copy |-> order, write |-> "PENDING"]
<1>2. /\ orders' = [orders EXCEPT ![p] = order] /\ orders \in [OrderIds -> Order]
      /\ handler' = [handler EXCEPT ![h] = new] /\ handler \in [Handlers -> Handling]
      /\ UNCHANGED <<paymentQueue, paying, orderQueue>>
  BY <1>1 DEF HandlerGoes, SagaInv, SagaTypeOK, CreateOrder
<1>3. Carries(new, o) <=> o = p
  BY DEF Carries
<1>4. order.status = "PENDING"
  OBVIOUS
<1> HIDE DEF new, order
<1>5. <<"handler", h>> \notin Tokens(o)
  BY TokensNow DEF CreateOrder, IsToken, Carries
<1>6. \A x : x \in Tokens(o)' <=> IF x = <<"handler", h>> THEN o = p ELSE x \in Tokens(o)
  BY <1>2, <1>3, HandlerTokens
<1>7. IF o = p THEN Appears(o, <<"handler", h>>) ELSE Stays(o)
  BY <1>5, <1>6 DEF Appears, Stays
<1>8. QED BY <1>1, <1>2, <1>4, <1>7 DEF Effect

LEMMA CancelOrderEffect ==
  ASSUME SagaInv, NEW h \in Handlers, CancelOrder(h), NEW o \in OrderIds
  PROVE  Effect(o)
<1>1. PICK p \in Cancellable : HandlerGoes(h, "save", "cancelled", p, orders[p], "CANCELLED")
  BY DEF CancelOrder
<1> DEFINE new == [pc |-> "save", event |-> "cancelled", order |-> p, copy |-> orders[p],
                   write |-> "CANCELLED"]
<1>2. /\ handler' = [handler EXCEPT ![h] = new] /\ handler \in [Handlers -> Handling]
      /\ UNCHANGED <<paymentQueue, paying, orderQueue>> /\ orders' = orders
  BY <1>1 DEF HandlerGoes, SagaInv, SagaTypeOK, CancelOrder
<1>3. ~Carries(new, o)
  BY DEF Carries
<1> HIDE DEF new
<1>4. <<"handler", h>> \notin Tokens(o)
  BY TokensNow DEF CancelOrder, IsToken, Carries
<1>5. \A x : x \in Tokens(o)' <=> x \in Tokens(o)
  BY <1>2, <1>3, <1>4, HandlerTokens
<1>6. Stays(o)
  BY <1>5 DEF Stays
<1>7. QED BY <1>2, <1>6 DEF Effect

(* A handler that ends, or goes on to announce a cancellation, carries      *)
(* nothing any more.                                                        *)
LEMMA LaidDown ==
  ASSUME SagaInv, NEW h \in Handlers, NEW new, handler' = [handler EXCEPT ![h] = new],
         UNCHANGED <<paymentQueue, paying, orderQueue>>, NEW o, ~Carries(new, o)
  PROVE  IF Carries(handler[h], o) THEN Vanishes(o, <<"handler", h>>) ELSE Stays(o)
<1>1. handler \in [Handlers -> Handling]
  BY DEF SagaInv, SagaTypeOK
<1>2. <<"handler", h>> \in Tokens(o) <=> Carries(handler[h], o)
  BY TokensNow DEF IsToken
<1>3. \A x : x \in Tokens(o)' <=> x # <<"handler", h>> /\ x \in Tokens(o)
  BY <1>1, HandlerTokens
<1>4. QED BY <1>2, <1>3 DEF Vanishes, Stays

LEMMA SaveStatusEffect ==
  ASSUME SagaInv, TokenInv, NEW h \in Handlers, SaveStatus(h), NEW o \in OrderIds
  PROVE  Effect(o)
<1> DEFINE j == handler[h]
<1>1. /\ j.order \in OrderIds /\ j.copy \in Order /\ j.write \in OrderStatuses /\ j.pc = "save"
      /\ orders \in [OrderIds -> Order]
      /\ orders' = [orders EXCEPT ![j.order] = [j.copy EXCEPT !.status = j.write]]
  BY DEF SaveStatus, SagaInv, SagaTypeOK, HandlerFits, Handling
<1>2. j.write \notin {"NONE", "PENDING"}
  BY <1>1 DEF TokenInv, OrderStatuses
<1>3. orders'[o].status = IF o = j.order THEN j.write ELSE orders[o].status
  BY <1>1 DEF Order
<1>4. PICK new : handler' = [handler EXCEPT ![h] = new] /\ ~Carries(new, o)
  <2>1. CASE HandlerGoes(h, "emit", "cancelled", j.order, j.copy, j.write)
    <3> DEFINE new == [pc |-> "emit", event |-> "cancelled", order |-> j.order, copy |-> j.copy,
                       write |-> j.write]
    <3>1. handler' = [handler EXCEPT ![h] = new] /\ ~Carries(new, o)
      BY <2>1 DEF HandlerGoes, Carries
    <3>2. QED BY <3>1
  <2>2. CASE HandlerDone(h)
    <3>1. handler' = [handler EXCEPT ![h] = IdleHandler] /\ ~Carries(IdleHandler, o)
      BY <2>2 DEF HandlerDone, IdleHandler, Carries
    <3>2. QED BY <3>1
  <2>3. QED BY <2>1, <2>2 DEF SaveStatus
<1>5. UNCHANGED <<paymentQueue, paying, orderQueue>>
  BY DEF SaveStatus
<1>6. IF Carries(j, o) THEN Vanishes(o, <<"handler", h>>) ELSE Stays(o)
  BY <1>4, <1>5, LaidDown
<1>7. Carries(j, o) => o = j.order
  BY DEF Carries
<1>8. /\ o = j.order /\ Carries(j, o) => Saves(o, TRUE)
      /\ o = j.order /\ ~Carries(j, o) => Saves(o, FALSE)
  BY <1>2, <1>3 DEF Saves
<1> HIDE DEF j
<1>9. CASE Carries(j, o)
  BY <1>6, <1>7, <1>8, <1>9 DEF Effect
<1>10. CASE ~Carries(j, o)
  BY <1>3, <1>6, <1>8, <1>10 DEF Effect
<1>11. QED BY <1>9, <1>10

LEMMA HandlerStopsEffect ==
  ASSUME SagaInv, NEW h \in Handlers, HandlerStops(h), NEW o \in OrderIds
  PROVE  Effect(o)
<1>1. handler' = [handler EXCEPT ![h] = IdleHandler] /\ ~Carries(IdleHandler, o)
  BY DEF HandlerStops, HandlerDone, IdleHandler, Carries
<1>2. IF Carries(handler[h], o) THEN Vanishes(o, <<"handler", h>>) ELSE Stays(o)
  BY <1>1, LaidDown DEF HandlerStops
<1>3. orders' = orders /\ (Carries(handler[h], o) => o \in lost')
  BY DEF HandlerStops, Carries
<1>4. QED BY <1>2, <1>3 DEF Effect

(* The result a handler takes up is of an order that exists: it is a token. *)
LEMMA ResultHasOrder ==
  ASSUME SagaInv, TokenInv, NEW m \in orderQueue
  PROVE  m.order \in OrderIds /\ orders[m.order].status # "NONE"
<1>1. m.order \in OrderIds
  BY DEF SagaInv, SagaTypeOK, Result
<1>2. <<"result", m>> \in Tokens(m.order)
  BY TokensNow DEF IsToken
<1>3. QED BY <1>1, <1>2 DEF TokenInv

LEMMA TakeResultEffect ==
  ASSUME SagaInv, TokenInv, NEW h \in Handlers, TakeResult(h), NEW o \in OrderIds
  PROVE  Effect(o)
<1>1. PICK m \in orderQueue :
        /\ orderQueue' = orderQueue \ {m}
        /\ IF orders[m.order].status = "NONE" THEN UNCHANGED handler
           ELSE HandlerGoes(h, "save", "result", m.order, orders[m.order],
                            IF m.ok THEN "COMPLETED" ELSE "CANCELLED")
  BY DEF TakeResult
<1> DEFINE new == [pc |-> "save", event |-> "result", order |-> m.order, copy |-> orders[m.order],
                   write |-> IF m.ok THEN "COMPLETED" ELSE "CANCELLED"]
<1>2. /\ handler' = [handler EXCEPT ![h] = new] /\ handler \in [Handlers -> Handling]
      /\ UNCHANGED <<paymentQueue, paying>> /\ orders' = orders
  BY <1>1, ResultHasOrder DEF HandlerGoes, SagaInv, SagaTypeOK, TakeResult
<1>3. Carries(new, o) <=> o = m.order
  BY DEF Carries
<1> HIDE DEF new
<1>4. \A k \in Handlers : handler'[k] = IF k = h THEN new ELSE handler[k]
  BY <1>2
<1>5. ~Carries(handler[h], o)
  BY DEF TakeResult, Carries
<1>6. \A x : IsToken(x, o)' <=>
               \/ x = <<"handler", h>> /\ o = m.order
               \/ IsToken(x, o) /\ x # <<"result", m>>
  BY <1>1, <1>2, <1>3, <1>4, <1>5 DEF IsToken, Carries
<1>7. IsToken(<<"result", m>>, o) <=> o = m.order
  BY DEF IsToken
<1>8. IF o = m.order THEN PassesOn(o, <<"result", m>>, <<"handler", h>>) ELSE Stays(o)
  BY <1>6, <1>7, TokensNow, TokensNext DEF PassesOn, Stays
<1>9. QED BY <1>2, <1>8 DEF Effect

LEMMA EmitEffect ==
  ASSUME SagaInv, TokenInv, NEW h \in Handlers, Emit(h), NEW o \in OrderIds
  PROVE  Effect(o)
<1> DEFINE j == handler[h]
           m == [event |-> j.event, order |-> j.order, user |-> j.copy.user,
                 ticket |-> j.copy.ticket, amount |-> j.copy.amount]
<1>1. /\ handler' = [handler EXCEPT ![h] = IdleHandler] /\ handler \in [Handlers -> Handling]
      /\ paymentQueue' = paymentQueue \cup {m} /\ j.pc = "emit"
      /\ UNCHANGED <<paying, orderQueue>> /\ orders' = orders
  BY DEF Emit, HandlerDone, SagaInv, SagaTypeOK
<1>2. ~Carries(IdleHandler, o)
  BY DEF Carries, IdleHandler
<1>3. m.order = j.order /\ m.event = j.event
  OBVIOUS
<1>4. Carries(j, o) <=> m.order = o /\ m.event = "created"
  BY <1>1, <1>3 DEF Carries
<1> HIDE DEF m
<1>5. \A k \in Handlers : handler'[k] = IF k = h THEN IdleHandler ELSE handler[k]
  BY <1>1
<1>6. \A x : IsToken(x, o)' <=>
               \/ x = <<"message", m>> /\ Carries(j, o)
               \/ IsToken(x, o) /\ x # <<"handler", h>>
  BY <1>1, <1>2, <1>4, <1>5 DEF IsToken, Carries
<1>7. IsToken(<<"handler", h>>, o) <=> Carries(j, o)
  BY DEF IsToken
<1>8. IF Carries(j, o) THEN PassesOn(o, <<"handler", h>>, <<"message", m>>) ELSE Stays(o)
  BY <1>6, <1>7, TokensNow, TokensNext DEF PassesOn, Stays
<1>9. QED BY <1>1, <1>8 DEF Effect

LEMMA TakeOrderEventEffect ==
  ASSUME TakeOrderEvent, NEW o \in OrderIds
  PROVE  Effect(o)
<1>1. PICK m \in paymentQueue :
        /\ paymentQueue' = paymentQueue \ {m}
        /\ paying' = IF m.event = "created" THEN paying \cup {m} ELSE paying
  BY DEF TakeOrderEvent
<1>2. UNCHANGED <<handler, orderQueue>> /\ orders' = orders
  BY DEF TakeOrderEvent
<1>3. IsToken(<<"message", m>>, o) <=> m.order = o /\ m.event = "created"
  BY DEF IsToken
<1>4. \A x : IsToken(x, o)' <=>
               \/ x = <<"payment", m>> /\ m.order = o /\ m.event = "created"
               \/ IsToken(x, o) /\ x # <<"message", m>>
  BY <1>1, <1>2 DEF IsToken
<1>5. IF m.order = o /\ m.event = "created"
      THEN PassesOn(o, <<"message", m>>, <<"payment", m>>) ELSE Stays(o)
  BY <1>3, <1>4, TokensNow, TokensNext DEF PassesOn, Stays
<1>6. QED BY <1>2, <1>5 DEF Effect

LEMMA SettleEffect ==
  ASSUME Settle, NEW o \in OrderIds
  PROVE  Effect(o)
<1>1. PICK m \in paying :
        LET r == [order |-> m.order, user |-> m.user, ticket |-> m.ticket,
                  ok |-> m.amount = "accepted"] IN
        paying' = paying \ {m} /\ orderQueue' = orderQueue \cup {r}
  BY DEF Settle
<1> DEFINE r == [order |-> m.order, user |-> m.user, ticket |-> m.ticket,
                 ok |-> m.amount = "accepted"]
<1>2. paying' = paying \ {m} /\ orderQueue' = orderQueue \cup {r} /\ r.order = m.order
  BY <1>1
<1> HIDE DEF r
<1>3. UNCHANGED <<handler, paymentQueue>> /\ orders' = orders
  BY DEF Settle
<1>4. IsToken(<<"payment", m>>, o) <=> m.order = o
  BY DEF IsToken
<1>5. \A x : IsToken(x, o)' <=>
               \/ x = <<"result", r>> /\ m.order = o
               \/ IsToken(x, o) /\ x # <<"payment", m>>
  BY <1>2, <1>3 DEF IsToken
<1>6. IF m.order = o THEN PassesOn(o, <<"payment", m>>, <<"result", r>>) ELSE Stays(o)
  BY <1>4, <1>5, TokensNow, TokensNext DEF PassesOn, Stays
<1>7. QED BY <1>3, <1>6 DEF Effect

LEMMA LoseEffect ==
  ASSUME Lose, NEW o \in OrderIds
  PROVE  Effect(o)
<1>1. orders' = orders /\ handler' = handler
  BY DEF Lose
<1>2. CASE UNCHANGED <<paymentQueue, paying, orderQueue>>
  <2>1. \A x : IsToken(x, o)' <=> IsToken(x, o)
    BY <1>1, <1>2 DEF IsToken
  <2>2. QED BY <1>1, <2>1, TokensNow, TokensNext DEF Effect, Stays
<1>3. CASE \E m \in paymentQueue : /\ paymentQueue' = paymentQueue \ {m} /\ lost' = lost \cup {m.order}
                                  /\ UNCHANGED <<paying, orderQueue>>
  <2>1. PICK m \in paymentQueue : /\ paymentQueue' = paymentQueue \ {m} /\ lost' = lost \cup {m.order}
                                  /\ UNCHANGED <<paying, orderQueue>>
    BY <1>3
  <2>2. \A x : IsToken(x, o)' <=> IsToken(x, o) /\ x # <<"message", m>>
    BY <1>1, <2>1 DEF IsToken
  <2>3. IsToken(<<"message", m>>, o) <=> m.order = o /\ m.event = "created"
    BY DEF IsToken
  <2>4. IF m.order = o /\ m.event = "created" THEN Vanishes(o, <<"message", m>>) ELSE Stays(o)
    BY <2>2, <2>3, TokensNow, TokensNext DEF Vanishes, Stays
  <2>5. QED BY <1>1, <2>1, <2>4 DEF Effect
<1>4. CASE \E m \in paying : /\ paying' = paying \ {m} /\ lost' = lost \cup {m.order}
                            /\ UNCHANGED <<paymentQueue, orderQueue>>
  <2>1. PICK m \in paying : /\ paying' = paying \ {m} /\ lost' = lost \cup {m.order}
                            /\ UNCHANGED <<paymentQueue, orderQueue>>
    BY <1>4
  <2>2. \A x : IsToken(x, o)' <=> IsToken(x, o) /\ x # <<"payment", m>>
    BY <1>1, <2>1 DEF IsToken
  <2>3. IsToken(<<"payment", m>>, o) <=> m.order = o
    BY DEF IsToken
  <2>4. IF m.order = o THEN Vanishes(o, <<"payment", m>>) ELSE Stays(o)
    BY <2>2, <2>3, TokensNow, TokensNext DEF Vanishes, Stays
  <2>5. QED BY <1>1, <2>1, <2>4 DEF Effect
<1>5. CASE \E m \in orderQueue : /\ orderQueue' = orderQueue \ {m} /\ lost' = lost \cup {m.order}
                                /\ UNCHANGED <<paymentQueue, paying>>
  <2>1. PICK m \in orderQueue : /\ orderQueue' = orderQueue \ {m} /\ lost' = lost \cup {m.order}
                                /\ UNCHANGED <<paymentQueue, paying>>
    BY <1>5
  <2>2. \A x : IsToken(x, o)' <=> IsToken(x, o) /\ x # <<"result", m>>
    BY <1>1, <2>1 DEF IsToken
  <2>3. IsToken(<<"result", m>>, o) <=> m.order = o
    BY DEF IsToken
  <2>4. IF m.order = o THEN Vanishes(o, <<"result", m>>) ELSE Stays(o)
    BY <2>2, <2>3, TokensNow, TokensNext DEF Vanishes, Stays
  <2>5. QED BY <1>1, <2>1, <2>4 DEF Effect
<1>6. QED BY <1>2, <1>3, <1>4, <1>5 DEF Lose

(* The steps outside the order and payment services leave orders alone. *)
LEMMA OtherSteps ==
  ASSUME \/ \E w \in Workers : TakeInventoryResult(w) \/ ClientCall(w) \/ InventoryStep(w)
         \/ InventoryEnvironment \/ UNCHANGED allVars
  PROVE  UNCHANGED <<orders, handler, paymentQueue, paying, orderQueue, charged, cancelled, lost>>
  BY DEF TakeInventoryResult, ClientCall, InventoryStep, InventoryEnvironment, allVars, sagaVars

LEMMA StepEffect ==
  ASSUME SagaInv, TokenInv, ~SameMs, [SagaNext]_allVars, NEW o \in OrderIds
  PROVE  Effect(o)
<1>1. ASSUME NEW h \in Handlers, OrderStep(h) PROVE Effect(o)
  BY <1>1, CreateOrderEffect, CancelOrderEffect, TakeResultEffect, SaveStatusEffect, EmitEffect,
     HandlerStopsEffect DEF OrderStep
<1>2. CASE TakeOrderEvent \/ Settle \/ Lose
  BY <1>2, TakeOrderEventEffect, SettleEffect, LoseEffect
<1>3. CASE UNCHANGED <<orders, handler, paymentQueue, paying, orderQueue, charged, cancelled, lost>>
  <2>1. \A x : IsToken(x, o)' <=> IsToken(x, o)
    BY <1>3 DEF IsToken
  <2>2. QED BY <1>3, <2>1, TokensNow, TokensNext DEF Effect, Stays
<1>4. QED BY <1>1, <1>2, <1>3, OtherSteps DEF SagaNext

(* What was lost, cancelled or charged stays so. *)
LEMMA HistoryGrows ==
  ASSUME [SagaNext]_allVars
  PROVE  lost \subseteq lost' /\ cancelled \subseteq cancelled' /\ charged \subseteq charged'
<1>1. ASSUME NEW h \in Handlers, OrderStep(h)
      PROVE  lost \subseteq lost' /\ cancelled \subseteq cancelled' /\ charged \subseteq charged'
  BY <1>1 DEF OrderStep, CreateOrder, CancelOrder, TakeResult, SaveStatus, Emit, HandlerStops
<1>2. CASE TakeOrderEvent \/ Settle \/ Lose
  BY <1>2 DEF TakeOrderEvent, Settle, Lose
<1>3. QED BY <1>1, <1>2, OtherSteps DEF SagaNext

(* A status about to be saved is never PENDING. *)
WritesAnEnd == \A h \in Handlers : handler[h].pc = "save" => handler[h].write # "PENDING"

LEMMA WriteStep ==
  ASSUME SagaInv, WritesAnEnd, [SagaNext]_allVars
  PROVE  WritesAnEnd'
<1>1. handler \in [Handlers -> Handling]
  BY DEF SagaInv, SagaTypeOK
<1>2. ASSUME NEW h \in Handlers, NEW new, handler' = [handler EXCEPT ![h] = new],
             new.pc = "save" => new.write # "PENDING"
      PROVE  WritesAnEnd'
  BY <1>1, <1>2 DEF WritesAnEnd
<1>3. ASSUME NEW h \in Handlers, NEW pc, NEW event, NEW o, NEW copy, NEW write,
             HandlerGoes(h, pc, event, o, copy, write), pc = "save" => write # "PENDING"
      PROVE  WritesAnEnd'
  <2> DEFINE new == [pc |-> pc, event |-> event, order |-> o, copy |-> copy, write |-> write]
  <2>1. handler' = [handler EXCEPT ![h] = new] /\ (new.pc = "save" => new.write # "PENDING")
    BY <1>3 DEF HandlerGoes
  <2> HIDE DEF new
  <2>2. QED BY <1>2, <2>1
<1>4. ASSUME NEW h \in Handlers, HandlerDone(h) PROVE WritesAnEnd'
  BY <1>2, <1>4 DEF HandlerDone, IdleHandler
<1>5. CASE handler' = handler
  BY <1>5 DEF WritesAnEnd
<1>6. ASSUME NEW h \in Handlers, OrderStep(h) PROVE WritesAnEnd'
  <2>1. CASE CreateOrder(h)
    BY <1>3, <2>1 DEF CreateOrder
  <2>2. CASE CancelOrder(h)
    BY <1>3, <2>2 DEF CancelOrder
  <2>3. CASE TakeResult(h)
    <3>1. PICK m \in orderQueue :
            IF orders[m.order].status = "NONE" THEN UNCHANGED handler
            ELSE HandlerGoes(h, "save", "result", m.order, orders[m.order],
                             IF m.ok THEN "COMPLETED" ELSE "CANCELLED")
      BY <2>3 DEF TakeResult
    <3>2. (IF m.ok THEN "COMPLETED" ELSE "CANCELLED") # "PENDING"
      OBVIOUS
    <3>3. QED BY <1>3, <1>5, <3>1, <3>2
  <2>4. CASE SaveStatus(h)
    BY <1>3, <1>4, <2>4 DEF SaveStatus
  <2>5. CASE Emit(h) \/ HandlerStops(h)
    BY <1>4, <2>5 DEF Emit, HandlerStops
  <2>6. QED BY <1>6, <2>1, <2>2, <2>3, <2>4, <2>5 DEF OrderStep
<1>7. CASE TakeOrderEvent \/ Settle \/ Lose
  BY <1>5, <1>7 DEF TakeOrderEvent, Settle, Lose
<1>8. QED BY <1>5, <1>6, <1>7, OtherSteps DEF SagaNext

LEMMA TokenStep ==
  ASSUME SagaInv, TokenInv, ~SameMs, [SagaNext]_allVars
  PROVE  TokenInv'
<1>1. WritesAnEnd'
  BY WriteStep DEF TokenInv, WritesAnEnd
<1>2. \A o \in OrderIds : Effect(o)
  BY StepEffect
<1>3. lost \subseteq lost'
  BY HistoryGrows
<1>4. QED BY <1>1, <1>2, <1>3, EffectKeeps DEF TokenInv, WritesAnEnd

LEMMA TokenInit == ASSUME SagaInit PROVE TokenInv
<1>1. \A o, x : ~IsToken(x, o)
  BY DEF SagaInit, IdleHandler, IsToken, Carries
<1>2. \A o : Tokens(o) = {}
  BY <1>1, TokensNow
<1>3. \A o \in OrderIds : orders[o].status = "NONE"
  BY DEF SagaInit, NoOrder
<1>4. QED BY <1>2, <1>3 DEF SagaInit, IdleHandler, TokenInv, AtMostOne

LEMMA TokenInvariance == ASSUME ~SameMs PROVE SagaSpec => []TokenInv
<1>1. SagaInit => TokenInv
  BY TokenInit
<1>2. SagaInv /\ TokenInv /\ [SagaNext]_allVars => TokenInv'
  BY TokenStep
<1>3. QED BY <1>1, <1>2, SagaInvariance, PTL DEF SagaSpec

(* Unless two orders are made in one millisecond, an order is on its way in *)
(* at most one place, whatever cancels it or is lost, so it is paid at most *)
(* once; and a pending order of which nothing was lost is in one.           *)
THEOREM OrderInOnePlace == ASSUME ~SameMs PROVE SagaSpec => []OneToken
<1>1. TokenInv => OneToken
  BY OneAtMost DEF TokenInv, OneToken
<1>2. QED BY <1>1, TokenInvariance, PTL

-----------------------------------------------------------------------------
(* Whose order it is: handlers, messages and payments name the buyer and    *)
(* the ticket of the order they are about.                                  *)
Same(o, u, t) == orders[o].status # "NONE" /\ orders[o].user = u /\ orders[o].ticket = t
SameNext(o, u, t) == orders'[o].status # "NONE" /\ orders'[o].user = u /\ orders'[o].ticket = t
Matches(m) == Same(m.order, m.user, m.ticket)
MatchInv ==
  /\ \A h \in Handlers : handler[h].pc # "idle" =>
       Same(handler[h].order, handler[h].copy.user, handler[h].copy.ticket)
  /\ \A m \in paymentQueue \cup paying \cup orderQueue \cup charged : Matches(m)

LEMMA OwnerStays ==
  ASSUME SagaInv, TokenInv, MatchInv, ~SameMs, [SagaNext]_allVars,
         NEW o \in OrderIds, NEW u, NEW t, Same(o, u, t)
  PROVE  SameNext(o, u, t)
<1>1. orders \in [OrderIds -> Order]
  BY DEF SagaInv, SagaTypeOK
<1>2. CASE orders' = orders
  BY <1>2 DEF Same, SameNext
<1>3. ASSUME NEW h \in Handlers, CreateOrder(h) PROVE SameNext(o, u, t)
  <2>1. PICK p \in OrderIds : /\ orders[p].status = "NONE"
                             /\ \A q \in OrderIds \ {p} : orders'[q] = orders[q]
    BY <1>1, <1>3 DEF CreateOrder
  <2>2. QED BY <2>1 DEF Same, SameNext
<1>4. ASSUME NEW h \in Handlers, SaveStatus(h) PROVE SameNext(o, u, t)
  <2> DEFINE j == handler[h]
  <2>1. /\ j.order \in OrderIds /\ j.copy \in Order /\ j.write \in OrderStatuses
        /\ Same(j.order, j.copy.user, j.copy.ticket)
        /\ orders' = [orders EXCEPT ![j.order] = [j.copy EXCEPT !.status = j.write]]
    BY <1>4 DEF SaveStatus, SagaInv, SagaTypeOK, HandlerFits, Handling, MatchInv
  <2>2. j.write # "NONE"
    BY <2>1 DEF OrderStatuses
  <2> HIDE DEF j
  <2>3. QED BY <1>1, <2>1, <2>2 DEF Same, SameNext, Order
<1>5. ASSUME NEW h \in Handlers, CancelOrder(h) \/ TakeResult(h) \/ Emit(h) \/ HandlerStops(h)
      PROVE  orders' = orders
  BY <1>5 DEF CancelOrder, TakeResult, Emit, HandlerStops
<1>6. CASE TakeOrderEvent \/ Settle \/ Lose
  BY <1>2, <1>6 DEF TakeOrderEvent, Settle, Lose
<1>7. QED BY <1>2, <1>3, <1>4, <1>5, <1>6, OtherSteps DEF SagaNext, OrderStep

(* A handler that has nothing to do, or what is right for its order. *)
Faithful(j) == j.pc # "idle" => j.order \in OrderIds /\ Same(j.order, j.copy.user, j.copy.ticket)

LEMMA HandlersMatch ==
  ASSUME SagaInv, TokenInv, MatchInv, ~SameMs, [SagaNext]_allVars, NEW k \in Handlers
  PROVE  Faithful(handler[k])'
<1>1. handler \in [Handlers -> Handling] /\ orders \in [OrderIds -> Order]
  BY DEF SagaInv, SagaTypeOK
<1>2. CASE handler'[k] = handler[k]
  BY <1>2, OwnerStays DEF MatchInv, Faithful, Same, SameNext, SagaInv, SagaTypeOK, HandlerFits
<1>3. CASE handler'[k].pc = "idle"
  BY <1>3 DEF Faithful, Same, SameNext
<1>4. ASSUME NEW h \in Handlers, HandlerDone(h) PROVE Faithful(handler[k])'
  BY <1>1, <1>2, <1>3, <1>4 DEF HandlerDone, IdleHandler
<1>5. ASSUME NEW h \in Handlers, NEW pc, NEW event, NEW o \in OrderIds, NEW copy, NEW write,
             HandlerGoes(h, pc, event, o, copy, write), SameNext(o, copy.user, copy.ticket)
      PROVE  Faithful(handler[k])'
  <2> DEFINE new == [pc |-> pc, event |-> event, order |-> o, copy |-> copy, write |-> write]
  <2>1. handler' = [handler EXCEPT ![h] = new] /\ new.order = o /\ new.copy = copy
    BY <1>5 DEF HandlerGoes
  <2> HIDE DEF new
  <2>2. CASE k = h
    <3>1. handler'[k] = new
      BY <1>1, <2>1, <2>2
    <3>2. QED BY <1>5, <2>1, <3>1 DEF Faithful, Same, SameNext
  <2>3. CASE k # h
    BY <1>1, <1>2, <2>1, <2>3
  <2>4. QED BY <2>2, <2>3
<1>6. ASSUME NEW h \in Handlers, CreateOrder(h) PROVE Faithful(handler[k])'
  <2>1. PICK o \in OrderIds, c \in claims, amount \in Amounts :
          LET order == [status |-> "PENDING", user |-> c.user, ticket |-> c.key, amount |-> amount] IN
          /\ orders' = [orders EXCEPT ![o] = order]
          /\ HandlerGoes(h, "emit", "created", o, order, "PENDING")
    BY <1>6 DEF CreateOrder
  <2> DEFINE order == [status |-> "PENDING", user |-> c.user, ticket |-> c.key, amount |-> amount]
  <2>2. /\ orders'[o] = order /\ HandlerGoes(h, "emit", "created", o, order, "PENDING")
        /\ order.status = "PENDING"
    BY <1>1, <2>1
  <2> HIDE DEF order
  <2>3. SameNext(o, order.user, order.ticket)
    BY <2>2 DEF Same, SameNext
  <2>4. QED BY <1>5, <2>2, <2>3
<1>7. ASSUME NEW h \in Handlers, CancelOrder(h) PROVE Faithful(handler[k])'
  <2>1. PICK o \in Cancellable : /\ orders[o].status # "NONE"
                                 /\ HandlerGoes(h, "save", "cancelled", o, orders[o], "CANCELLED")
    BY <1>7 DEF CancelOrder
  <2>2. o \in OrderIds /\ Same(o, orders[o].user, orders[o].ticket)
    BY <2>1, SagaAssumption DEF Same, SameNext
  <2>3. SameNext(o, orders[o].user, orders[o].ticket)
    BY <2>2, <1>7 DEF Same, SameNext, CancelOrder
  <2>4. QED BY <1>5, <2>1, <2>2, <2>3
<1>8. ASSUME NEW h \in Handlers, TakeResult(h) PROVE Faithful(handler[k])'
  <2>1. PICK m \in orderQueue :
          IF orders[m.order].status = "NONE" THEN UNCHANGED handler
          ELSE HandlerGoes(h, "save", "result", m.order, orders[m.order],
                           IF m.ok THEN "COMPLETED" ELSE "CANCELLED")
    BY <1>8 DEF TakeResult
  <2>2. m.order \in OrderIds /\ orders[m.order].status # "NONE"
    BY ResultHasOrder
  <2>3. SameNext(m.order, orders[m.order].user, orders[m.order].ticket)
    BY <1>8, <2>2 DEF Same, SameNext, TakeResult
  <2>4. QED BY <1>5, <2>1, <2>2, <2>3
<1>9. ASSUME NEW h \in Handlers, SaveStatus(h) PROVE Faithful(handler[k])'
  <2> DEFINE j == handler[h]
  <2>1. j.order \in OrderIds /\ Same(j.order, j.copy.user, j.copy.ticket)
    BY <1>9 DEF SaveStatus, SagaInv, SagaTypeOK, HandlerFits, MatchInv
  <2>2. SameNext(j.order, j.copy.user, j.copy.ticket)
    <3>1. ASSUME NEW u, NEW t, Same(j.order, u, t) PROVE SameNext(j.order, u, t)
      BY <2>1, <3>1, OwnerStays
    <3>2. /\ orders[j.order].user = j.copy.user /\ orders[j.order].ticket = j.copy.ticket
          /\ j.copy \in Order /\ j.write \in OrderStatuses
      BY <1>9, <2>1 DEF Same, SameNext, SaveStatus, SagaInv, SagaTypeOK, HandlerFits, Handling
    <3>3. orders'[j.order] = [j.copy EXCEPT !.status = j.write]
      BY <1>1, <1>9, <2>1 DEF SaveStatus
    <3>4. /\ orders'[j.order].user = j.copy.user /\ orders'[j.order].ticket = j.copy.ticket
          /\ orders'[j.order].status # "NONE"
      BY <3>2, <3>3 DEF Order, OrderStatuses
    <3>5. QED BY <3>4 DEF Same, SameNext
  <2>3. QED BY <1>4, <1>5, <1>9, <2>1, <2>2 DEF SaveStatus
<1>10. ASSUME NEW h \in Handlers, Emit(h) \/ HandlerStops(h) PROVE Faithful(handler[k])'
  BY <1>4, <1>10 DEF Emit, HandlerStops
<1>11. CASE TakeOrderEvent \/ Settle \/ Lose
  BY <1>2, <1>11 DEF TakeOrderEvent, Settle, Lose
<1>12. QED BY <1>2, <1>6, <1>7, <1>8, <1>9, <1>10, <1>11, OtherSteps DEF SagaNext, OrderStep

Messages == paymentQueue \cup paying \cup orderQueue \cup charged

(* Every message is an old one, or says what an old one or a handler says. *)
LEMMA MessageSource ==
  ASSUME SagaInv, [SagaNext]_allVars, NEW m \in Messages'
  PROVE  \/ \E n \in Messages : n.order = m.order /\ n.user = m.user /\ n.ticket = m.ticket
         \/ \E h \in Handlers : LET j == handler[h] IN
              j.pc # "idle" /\ j.order = m.order /\ j.copy.user = m.user /\ j.copy.ticket = m.ticket
<1>1. CASE Messages' \subseteq Messages
  BY <1>1
<1>2. ASSUME NEW h \in Handlers, Emit(h)
      PROVE  m \in Messages \/ \E k \in Handlers : LET j == handler[k] IN
              j.pc # "idle" /\ j.order = m.order /\ j.copy.user = m.user /\ j.copy.ticket = m.ticket
  <2> DEFINE j == handler[h]
             e == [event |-> j.event, order |-> j.order, user |-> j.copy.user,
                   ticket |-> j.copy.ticket, amount |-> j.copy.amount]
  <2>1. Messages' = Messages \cup {e} /\ j.pc # "idle"
    BY <1>2 DEF Emit, Messages
  <2>2. e.order = j.order /\ e.user = j.copy.user /\ e.ticket = j.copy.ticket
    OBVIOUS
  <2> HIDE DEF e
  <2>3. QED BY <2>1, <2>2
<1>3. CASE Settle
  <2>1. PICK n \in paying :
          LET r == [order |-> n.order, user |-> n.user, ticket |-> n.ticket,
                    ok |-> n.amount = "accepted"] IN
          /\ paying' = paying \ {n}
          /\ orderQueue' = orderQueue \cup {r}
          /\ charged' = IF r.ok THEN charged \cup {r} ELSE charged
    BY <1>3 DEF Settle
  <2> DEFINE r == [order |-> n.order, user |-> n.user, ticket |-> n.ticket,
                   ok |-> n.amount = "accepted"]
  <2>2. Messages' \subseteq Messages \cup {r} /\ n \in Messages
    BY <1>3, <2>1 DEF Settle, Messages
  <2>3. r.order = n.order /\ r.user = n.user /\ r.ticket = n.ticket
    OBVIOUS
  <2> HIDE DEF r
  <2>4. QED BY <2>2, <2>3
<1>4. CASE TakeOrderEvent \/ Lose
  BY <1>1, <1>4 DEF TakeOrderEvent, Lose, Messages
<1>5. ASSUME NEW h \in Handlers,
             CreateOrder(h) \/ CancelOrder(h) \/ TakeResult(h) \/ SaveStatus(h) \/ HandlerStops(h)
      PROVE  Messages' \subseteq Messages
  BY <1>5 DEF CreateOrder, CancelOrder, TakeResult, SaveStatus, HandlerStops, Messages
<1>6. CASE UNCHANGED <<orders, handler, paymentQueue, paying, orderQueue, charged, cancelled, lost>>
  BY <1>1, <1>6 DEF Messages
<1>7. QED BY <1>1, <1>2, <1>3, <1>4, <1>5, <1>6, OtherSteps DEF SagaNext, OrderStep

LEMMA MatchStep ==
  ASSUME SagaInv, TokenInv, MatchInv, ~SameMs, [SagaNext]_allVars
  PROVE  MatchInv'
<1>1. \A k \in Handlers : Faithful(handler[k])'
  BY HandlersMatch
<1>2. ASSUME NEW m \in Messages' PROVE Matches(m)'
  <2>1. m.order \in OrderIds /\ Same(m.order, m.user, m.ticket)
    BY MessageSource
      DEF MatchInv, Matches, Messages, SagaInv, SagaTypeOK, HandlerFits, OrderEvent, Result
  <2>2. SameNext(m.order, m.user, m.ticket)
    BY <2>1, OwnerStays
  <2>3. QED BY <2>2 DEF SameNext, Same, Matches
<1>3. QED BY <1>1, <1>2 DEF MatchInv, Faithful, Messages

-----------------------------------------------------------------------------
(* Paid or not, according to where the order is. *)
Bought(o) == \E p \in charged : p.order = o
Pays(j) ==
  /\ j.pc # "idle" /\ j.event = "cancelled" => j.order \in cancelled
  /\ j.pc = "emit" /\ j.event = "created" => ~Bought(j.order)
  /\ j.pc = "save" /\ j.event = "result" => (j.write = "COMPLETED" <=> Bought(j.order))
  /\ j.pc = "save" => j.event \in {"cancelled", "result"}
OnTheWay ==
  /\ \A m \in paymentQueue : m.event = "created" => ~Bought(m.order)
  /\ \A m \in paying : ~Bought(m.order)
  /\ \A m \in orderQueue : m.ok <=> Bought(m.order)
  /\ \A o \in OrderIds : orders[o].status = "NONE" => ~Bought(o)
Settled(o) ==
  o \notin cancelled \cup lost /\ orders[o].status # "NONE" /\ Tokens(o) = {} =>
    (orders[o].status = "COMPLETED" <=> Bought(o))
PayInv ==
  /\ \A h \in Handlers : Pays(handler[h])
  /\ OnTheWay
  /\ \A o \in OrderIds : Settled(o)

(* Only the settling of its own payment buys an order. *)
LEMMA BoughtBySettling ==
  ASSUME [SagaNext]_allVars, ~Settle
  PROVE  charged' = charged
<1>1. ASSUME NEW h \in Handlers, OrderStep(h) PROVE charged' = charged
  BY <1>1 DEF OrderStep, CreateOrder, CancelOrder, TakeResult, SaveStatus, Emit, HandlerStops
<1>2. CASE TakeOrderEvent \/ Lose
  BY <1>2 DEF TakeOrderEvent, Lose
<1>3. QED BY <1>1, <1>2, OtherSteps DEF SagaNext

(* A payment under way is all there is of its order. *)
LEMMA PaymentAlone ==
  ASSUME SagaInv, TokenInv, NEW m \in paying
  PROVE  /\ m.order \in OrderIds /\ orders[m.order].status # "NONE"
         /\ \A h \in Handlers : ~Carries(handler[h], m.order)
         /\ \A n \in paymentQueue : n.event = "created" => n.order # m.order
         /\ \A n \in paying : n.order = m.order => n = m
         /\ \A n \in orderQueue : n.order # m.order
<1>1. m.order \in OrderIds
  BY DEF SagaInv, SagaTypeOK, OrderEvent
<1> DEFINE y == <<"payment", m>>
<1>0. y \in Tokens(m.order)
  BY TokensNow DEF IsToken
<1> HIDE DEF y
<1>2. \A x : IsToken(x, m.order) => x = y
  BY <1>1, <1>0, TokensNow DEF TokenInv, AtMostOne
<1>3. orders[m.order].status # "NONE"
  BY <1>1, <1>0 DEF TokenInv
<1> USE DEF y
<1>4. \A h \in Handlers : ~Carries(handler[h], m.order)
  <2>1. SUFFICES ASSUME NEW h \in Handlers, Carries(handler[h], m.order) PROVE FALSE
    OBVIOUS
  <2>2. IsToken(<<"handler", h>>, m.order)
    BY <2>1 DEF IsToken
  <2>3. QED BY <1>2, <2>2
<1>5. \A n \in paymentQueue : n.event = "created" => n.order # m.order
  <2>1. SUFFICES ASSUME NEW n \in paymentQueue, n.event = "created", n.order = m.order PROVE FALSE
    OBVIOUS
  <2>2. IsToken(<<"message", n>>, m.order)
    BY <2>1 DEF IsToken
  <2>3. QED BY <1>2, <2>2
<1>6. \A n \in paying : n.order = m.order => n = m
  <2>1. SUFFICES ASSUME NEW n \in paying, n.order = m.order PROVE n = m
    OBVIOUS
  <2>2. IsToken(<<"payment", n>>, m.order)
    BY <2>1 DEF IsToken
  <2>3. QED BY <1>2, <2>2
<1>7. \A n \in orderQueue : n.order # m.order
  <2>1. SUFFICES ASSUME NEW n \in orderQueue, n.order = m.order PROVE FALSE
    OBVIOUS
  <2>2. IsToken(<<"result", n>>, m.order)
    BY <2>1 DEF IsToken
  <2>3. QED BY <1>2, <2>2
<1>8. QED BY <1>1, <1>3, <1>4, <1>5, <1>6, <1>7

LEMMA SettleBuys ==
  ASSUME Settle
  PROVE  \E m \in paying, r \in orderQueue' :
           /\ r.order = m.order /\ r.ok = (m.amount = "accepted")
           /\ paying' = paying \ {m} /\ orderQueue' = orderQueue \cup {r}
           /\ charged' = IF r.ok THEN charged \cup {r} ELSE charged
<1>1. PICK m \in paying :
        LET r == [order |-> m.order, user |-> m.user, ticket |-> m.ticket,
                  ok |-> m.amount = "accepted"] IN
        /\ paying' = paying \ {m} /\ orderQueue' = orderQueue \cup {r}
        /\ charged' = IF r.ok THEN charged \cup {r} ELSE charged
  BY DEF Settle
<1> DEFINE r == [order |-> m.order, user |-> m.user, ticket |-> m.ticket,
                 ok |-> m.amount = "accepted"]
<1>2. /\ r.order = m.order /\ r.ok = (m.amount = "accepted")
      /\ paying' = paying \ {m} /\ orderQueue' = orderQueue \cup {r}
      /\ charged' = IF r.ok THEN charged \cup {r} ELSE charged
  BY <1>1
<1> HIDE DEF r
<1>3. QED BY <1>2

LEMMA SettleKeeps ==
  ASSUME SagaInv, TokenInv, PayInv, Settle
  PROVE  /\ \A h \in Handlers : Pays(handler[h])'
         /\ OnTheWay'
<1>1. PICK m \in paying, r \in orderQueue' :
        /\ r.order = m.order /\ r.ok = (m.amount = "accepted")
        /\ paying' = paying \ {m} /\ orderQueue' = orderQueue \cup {r}
        /\ charged' = IF r.ok THEN charged \cup {r} ELSE charged
  BY SettleBuys
<1>2. UNCHANGED <<orders, handler, paymentQueue, cancelled, lost>>
  BY DEF Settle
<1>3. \A o : o # m.order => (Bought(o)' <=> Bought(o))
  BY <1>1 DEF Bought
<1>4. ~Bought(m.order)
  BY DEF PayInv, OnTheWay
<1>5. r.ok <=> \E p \in charged' : p.order = m.order
  BY <1>1, <1>4 DEF Bought
<1>6. \A h \in Handlers : Pays(handler[h])'
  BY <1>2, <1>3, PaymentAlone DEF PayInv, Pays, Carries
<1>7. /\ \A n \in paymentQueue' : n.event = "created" => ~Bought(n.order)'
      /\ \A n \in paying' : ~Bought(n.order)'
      /\ \A o \in OrderIds : orders'[o].status = "NONE" => ~Bought(o)'
  BY <1>1, <1>2, <1>3, PaymentAlone DEF PayInv, OnTheWay
<1>8. \A n \in orderQueue' : n.ok <=> Bought(n.order)'
  <2>1. SUFFICES ASSUME NEW n \in orderQueue' PROVE n.ok <=> Bought(n.order)'
    OBVIOUS
  <2>2. CASE n = r
    BY <1>1, <1>5, <2>2 DEF Bought
  <2>3. CASE n # r
    BY <1>1, <1>3, <2>1, <2>3, PaymentAlone DEF PayInv, OnTheWay
  <2>4. QED BY <2>2, <2>3
<1>9. QED BY <1>6, <1>7, <1>8 DEF OnTheWay

LEMMA PaysStep ==
  ASSUME SagaInv, TokenInv, PayInv, ~SameMs, [SagaNext]_allVars, NEW k \in Handlers
  PROVE  Pays(handler[k])'
<1>1. handler \in [Handlers -> Handling]
  BY DEF SagaInv, SagaTypeOK
<1>2. CASE Settle
  BY <1>2, SettleKeeps
<1>3. ASSUME ~Settle PROVE charged' = charged /\ cancelled \subseteq cancelled'
  BY <1>3, BoughtBySettling, HistoryGrows
<1>4. CASE ~Settle /\ handler'[k] = handler[k]
  BY <1>3, <1>4 DEF PayInv, Pays, Bought
<1>5. CASE handler'[k].pc = "idle"
  BY <1>5 DEF Pays
<1>6. ASSUME NEW h \in Handlers, HandlerDone(h), charged' = charged, cancelled \subseteq cancelled'
      PROVE  Pays(handler[k])'
  <2>1. CASE k = h
    BY <1>1, <1>5, <1>6, <2>1 DEF HandlerDone, IdleHandler
  <2>2. CASE k # h
    <3>1. handler'[k] = handler[k]
      BY <1>1, <1>6, <2>2 DEF HandlerDone
    <3>2. QED BY <1>6, <3>1 DEF PayInv, Pays, Bought
  <2>3. QED BY <2>1, <2>2
<1>7. ASSUME NEW h \in Handlers, NEW new, handler' = [handler EXCEPT ![h] = new],
             charged' = charged, cancelled \subseteq cancelled',
             /\ new.event = "cancelled" => new.order \in cancelled'
             /\ new.pc = "emit" /\ new.event = "created" => ~Bought(new.order)
             /\ new.pc = "save" /\ new.event = "result" =>
                  (new.write = "COMPLETED" <=> Bought(new.order))
             /\ new.pc = "save" => new.event \in {"cancelled", "result"}
      PROVE  Pays(handler[k])'
  <2>1. CASE k = h
    <3>1. handler'[k] = new
      BY <1>1, <1>7, <2>1
    <3>2. QED BY <1>7, <3>1 DEF Pays, Bought
  <2>2. CASE k # h
    <3>1. handler'[k] = handler[k]
      BY <1>1, <1>7, <2>2
    <3>2. QED BY <1>7, <3>1 DEF PayInv, Pays, Bought
  <2>3. QED BY <2>1, <2>2
<1>8. ASSUME NEW h \in Handlers, CreateOrder(h), ~Settle PROVE Pays(handler[k])'
  <2>1. PICK o \in OrderIds : /\ orders[o].status = "NONE"
                             /\ \E copy : HandlerGoes(h, "emit", "created", o, copy, "PENDING")
    BY <1>8 DEF CreateOrder
  <2>2. PICK copy : HandlerGoes(h, "emit", "created", o, copy, "PENDING")
    BY <2>1
  <2> DEFINE new == [pc |-> "emit", event |-> "created", order |-> o, copy |-> copy,
                     write |-> "PENDING"]
  <2>3. handler' = [handler EXCEPT ![h] = new] /\ ~Bought(o)
    BY <2>1, <2>2 DEF HandlerGoes, PayInv, OnTheWay
  <2>4. new.pc = "emit" /\ new.event = "created" /\ new.order = o
    OBVIOUS
  <2> HIDE DEF new
  <2>5. QED BY <1>3, <1>7, <1>8, <2>3, <2>4
<1>9. ASSUME NEW h \in Handlers, CancelOrder(h), ~Settle PROVE Pays(handler[k])'
  <2>1. PICK o \in Cancellable : /\ HandlerGoes(h, "save", "cancelled", o, orders[o], "CANCELLED")
                                 /\ cancelled' = cancelled \cup {o}
    BY <1>9 DEF CancelOrder
  <2> DEFINE new == [pc |-> "save", event |-> "cancelled", order |-> o, copy |-> orders[o],
                     write |-> "CANCELLED"]
  <2>2. handler' = [handler EXCEPT ![h] = new]
    BY <2>1 DEF HandlerGoes
  <2>3. new.pc = "save" /\ new.event = "cancelled" /\ new.order = o
    OBVIOUS
  <2> HIDE DEF new
  <2>4. QED BY <1>3, <1>7, <1>9, <2>1, <2>2, <2>3
<1>10. ASSUME NEW h \in Handlers, TakeResult(h), ~Settle PROVE Pays(handler[k])'
  <2>1. PICK m \in orderQueue :
          IF orders[m.order].status = "NONE" THEN UNCHANGED handler
          ELSE HandlerGoes(h, "save", "result", m.order, orders[m.order],
                           IF m.ok THEN "COMPLETED" ELSE "CANCELLED")
    BY <1>10 DEF TakeResult
  <2> DEFINE new == [pc |-> "save", event |-> "result", order |-> m.order, copy |-> orders[m.order],
                     write |-> IF m.ok THEN "COMPLETED" ELSE "CANCELLED"]
  <2>2. handler' = [handler EXCEPT ![h] = new]
    BY <2>1, ResultHasOrder DEF HandlerGoes
  <2>3. new.write = "COMPLETED" <=> Bought(m.order)
    BY DEF PayInv, OnTheWay
  <2>4. new.pc = "save" /\ new.event = "result" /\ new.order = m.order
    OBVIOUS
  <2> HIDE DEF new
  <2>5. QED BY <1>3, <1>7, <1>10, <2>2, <2>3, <2>4
<1>11. ASSUME NEW h \in Handlers, SaveStatus(h), ~Settle PROVE Pays(handler[k])'
  <2> DEFINE j == handler[h]
             new == [pc |-> "emit", event |-> "cancelled", order |-> j.order, copy |-> j.copy,
                     write |-> j.write]
  <2>1. CASE j.event = "cancelled"
    <3>1. handler' = [handler EXCEPT ![h] = new] /\ j.order \in cancelled
      BY <1>11, <2>1 DEF SaveStatus, HandlerGoes, PayInv, Pays
    <3>2. new.pc = "emit" /\ new.event = "cancelled" /\ new.order = j.order
      OBVIOUS
    <3> HIDE DEF new, j
    <3>3. QED BY <1>3, <1>7, <1>11, <3>1, <3>2
  <2>2. CASE j.event # "cancelled"
    BY <1>3, <1>6, <1>11, <2>2 DEF SaveStatus
  <2>3. QED BY <2>1, <2>2
<1>12. ASSUME NEW h \in Handlers, Emit(h) \/ HandlerStops(h), ~Settle PROVE Pays(handler[k])'
  BY <1>3, <1>6, <1>12 DEF Emit, HandlerStops
<1>13. CASE ~Settle /\ (TakeOrderEvent \/ Lose)
  BY <1>4, <1>13 DEF TakeOrderEvent, Lose
<1>14. QED
  BY <1>2, <1>4, <1>8, <1>9, <1>10, <1>11, <1>12, <1>13, OtherSteps DEF SagaNext, OrderStep

LEMMA OnTheWayStep ==
  ASSUME SagaInv, TokenInv, PayInv, [SagaNext]_allVars
  PROVE  OnTheWay'
<1>1. CASE Settle
  BY <1>1, SettleKeeps
<1>2. ASSUME ~Settle PROVE \A o : Bought(o)' <=> Bought(o)
  BY <1>2, BoughtBySettling DEF Bought
<1>3. ASSUME ~Settle, NEW o \in OrderIds, orders'[o].status = "NONE" PROVE ~Bought(o)'
  <2>1. orders[o].status = "NONE"
    <3>1. ASSUME NEW h \in Handlers, OrderStep(h) PROVE orders[o].status = "NONE"
      <4>1. CASE CreateOrder(h)
        BY <1>3, <4>1 DEF CreateOrder, SagaInv, SagaTypeOK
      <4>2. CASE SaveStatus(h)
        <5>1. /\ handler[h].copy \in Order /\ handler[h].write \in OrderStatuses
              /\ orders \in [OrderIds -> Order]
              /\ orders' = [orders EXCEPT ![handler[h].order] =
                              [handler[h].copy EXCEPT !.status = handler[h].write]]
          BY <4>2 DEF SaveStatus, SagaInv, SagaTypeOK, HandlerFits, Handling
        <5>2. QED BY <1>3, <5>1 DEF Order, OrderStatuses
      <4>3. QED BY <1>3, <3>1, <4>1, <4>2
              DEF OrderStep, CancelOrder, TakeResult, Emit, HandlerStops
    <3>2. CASE TakeOrderEvent \/ Lose
      BY <1>3, <3>2 DEF TakeOrderEvent, Lose
    <3>3. QED BY <1>3, <3>1, <3>2, OtherSteps DEF SagaNext
  <2>2. QED BY <1>2, <1>3, <2>1 DEF PayInv, OnTheWay
<1>4. ASSUME ~Settle
      PROVE  /\ \A m \in paymentQueue' : m.event = "created" => ~Bought(m.order)
             /\ \A m \in paying' : ~Bought(m.order)
             /\ \A m \in orderQueue' : m.ok <=> Bought(m.order)
  <2>1. CASE /\ paymentQueue' \subseteq paymentQueue /\ paying' \subseteq paying
             /\ orderQueue' \subseteq orderQueue
    BY <2>1 DEF PayInv, OnTheWay
  <2>2. ASSUME NEW h \in Handlers, Emit(h)
        PROVE  \A m \in paymentQueue' : m.event = "created" => ~Bought(m.order)
    <3> DEFINE j == handler[h]
               e == [event |-> j.event, order |-> j.order, user |-> j.copy.user,
                     ticket |-> j.copy.ticket, amount |-> j.copy.amount]
    <3>1. paymentQueue' = paymentQueue \cup {e} /\ j.pc = "emit"
      BY <2>2 DEF Emit
    <3>2. e.event = j.event /\ e.order = j.order
      OBVIOUS
    <3> HIDE DEF e
    <3>3. QED BY <3>1, <3>2 DEF PayInv, Pays, OnTheWay
  <2>3. ASSUME NEW h \in Handlers, OrderStep(h)
        PROVE  /\ paying' = paying /\ orderQueue' \subseteq orderQueue
               /\ paymentQueue' # paymentQueue => Emit(h)
    BY <2>3 DEF OrderStep, CreateOrder, CancelOrder, TakeResult, SaveStatus, Emit, HandlerStops
  <2>4. ASSUME NEW h \in Handlers, OrderStep(h)
        PROVE  /\ \A m \in paymentQueue' : m.event = "created" => ~Bought(m.order)
               /\ \A m \in paying' : ~Bought(m.order)
               /\ \A m \in orderQueue' : m.ok <=> Bought(m.order)
    BY <2>2, <2>3, <2>4 DEF PayInv, OnTheWay
  <2>5. CASE TakeOrderEvent
    BY <2>5 DEF TakeOrderEvent, PayInv, OnTheWay
  <2>6. CASE Lose
    BY <2>1, <2>6 DEF Lose
  <2>7. CASE UNCHANGED <<orders, handler, paymentQueue, paying, orderQueue, charged, cancelled, lost>>
    BY <2>1, <2>7
  <2>8. QED BY <1>4, <2>4, <2>5, <2>6, <2>7, OtherSteps DEF SagaNext
<1>5. QED BY <1>1, <1>2, <1>3, <1>4 DEF OnTheWay

(* A settled payment leaves its result behind: the order is not at its end. *)
LEMMA BoughtOnTheWay ==
  ASSUME [SagaNext]_allVars, NEW o, Tokens(o)' = {}
  PROVE  Bought(o)' <=> Bought(o)
<1>1. CASE ~Settle
  BY <1>1, BoughtBySettling DEF Bought
<1>2. CASE Settle
  <2>1. PICK m \in paying, r \in orderQueue' :
          r.order = m.order /\ charged' = IF r.ok THEN charged \cup {r} ELSE charged
    BY <1>2, SettleBuys
  <2>2. o # r.order
    <3>1. SUFFICES ASSUME o = r.order PROVE FALSE
      OBVIOUS
    <3>2. IsToken(<<"result", r>>, o)'
      BY <3>1 DEF IsToken
    <3>3. QED BY <3>2, TokensNext
  <2>3. QED BY <2>1, <2>2 DEF Bought
<1>3. QED BY <1>1, <1>2

LEMMA SettledStep ==
  ASSUME SagaInv, TokenInv, PayInv, ~SameMs, [SagaNext]_allVars, NEW o \in OrderIds
  PROVE  Settled(o)'
<1> SUFFICES ASSUME o \notin cancelled', o \notin lost', orders'[o].status # "NONE", Tokens(o)' = {}
             PROVE  orders'[o].status = "COMPLETED" <=> Bought(o)'
  BY DEF Settled
<1>1. o \notin cancelled /\ o \notin lost /\ Effect(o) /\ (Bought(o)' <=> Bought(o))
  BY HistoryGrows, StepEffect, BoughtOnTheWay
<1>2. ~Saves(o, FALSE)
  <2>1. SUFFICES ASSUME NEW h \in Handlers, SaveStatus(h), handler[h].order = o,
                        ~Carries(handler[h], o)
                 PROVE  FALSE
    BY DEF Saves
  <2>2. handler[h].pc = "save" /\ handler[h].event = "cancelled"
    BY <2>1 DEF SaveStatus, Carries, PayInv, Pays
  <2>3. QED BY <1>1, <2>1, <2>2 DEF PayInv, Pays
<1>3. CASE Saves(o, TRUE)
  <2>1. PICK h \in Handlers : /\ SaveStatus(h) /\ Carries(handler[h], o)
                              /\ orders'[o].status = handler[h].write
    BY <1>3 DEF Saves
  <2>2. handler[h].pc = "save" /\ handler[h].event = "result" /\ handler[h].order = o
    BY <2>1 DEF SaveStatus, Carries
  <2>3. QED BY <1>1, <2>1, <2>2 DEF PayInv, Pays
<1>4. CASE Stays(o) /\ orders'[o].status = orders[o].status
  BY <1>1, <1>4 DEF Stays, PayInv, Settled
<1>5. ~(\E y : Appears(o, y)) /\ ~(\E x, y : PassesOn(o, x, y))
  BY DEF Appears, PassesOn
<1>6. QED BY <1>1, <1>2, <1>3, <1>4, <1>5 DEF Effect

CourseInv == TokenInv /\ MatchInv /\ PayInv

LEMMA CourseStep ==
  ASSUME SagaInv, CourseInv, ~SameMs, [SagaNext]_allVars
  PROVE  CourseInv'
<1>1. TokenInv' /\ MatchInv'
  BY TokenStep, MatchStep DEF CourseInv
<1>2. (\A h \in Handlers : Pays(handler[h]))' /\ OnTheWay' /\ (\A o \in OrderIds : Settled(o))'
  BY PaysStep, OnTheWayStep, SettledStep DEF CourseInv
<1>3. QED BY <1>1, <1>2 DEF CourseInv, PayInv

LEMMA CourseInit == ASSUME SagaInit PROVE CourseInv
<1>1. TokenInv
  BY TokenInit
<1>2. /\ \A h \in Handlers : handler[h].pc = "idle"
      /\ paymentQueue = {} /\ paying = {} /\ orderQueue = {} /\ charged = {}
      /\ \A o \in OrderIds : orders[o].status = "NONE"
  BY DEF SagaInit, IdleHandler, NoOrder
<1>3. MatchInv
  BY <1>2 DEF MatchInv
<1>4. PayInv
  BY <1>2 DEF PayInv, Pays, OnTheWay, Settled, Bought
<1>5. QED BY <1>1, <1>3, <1>4 DEF CourseInv

(* The end of an order that nobody cancelled and of which nothing was lost  *)
(* is that of its payment, which is the buyer's own and for that ticket.    *)
THEOREM OrderEndsAsPaid == ASSUME ~SameMs PROVE SagaSpec => []SettledMatchesPayment
<1>1. SagaInit => CourseInv
  BY CourseInit
<1>2. SagaInv /\ CourseInv /\ [SagaNext]_allVars => CourseInv'
  BY CourseStep
<1>3. ASSUME CourseInv PROVE SettledMatchesPayment
  <2>1. \A p \in charged : p.user = orders[p.order].user /\ p.ticket = orders[p.order].ticket
    BY <1>3 DEF CourseInv, MatchInv, Matches, Same
  <2>2. \A o \in OrderIds : Settled(o)
    BY <1>3 DEF CourseInv, PayInv
  <2>3. QED BY <2>1, <2>2 DEF SettledMatchesPayment, Settled, Bought
<1>4. CourseInv => SettledMatchesPayment
  BY <1>3
<1>5. QED BY <1>1, <1>2, <1>4, SagaInvariance, PTL DEF SagaSpec

-----------------------------------------------------------------------------
(* Refinement of OrderContract. *)
Terms(r) == [status |-> r.status, user |-> r.user, seat |-> r.ticket]
AllTerms == [o \in OrderIds |-> Terms(orders[o])]
Buys == {p.order : p \in charged}

(* What a cancellation saves is CANCELLED. *)
CancelsOnly ==
  \A h \in Handlers : handler[h].pc = "save" /\ handler[h].event = "cancelled" =>
    handler[h].write = "CANCELLED"

LEMMA CancelsOnlyStep ==
  ASSUME SagaInv, CancelsOnly, [SagaNext]_allVars
  PROVE  CancelsOnly'
<1>1. handler \in [Handlers -> Handling]
  BY DEF SagaInv, SagaTypeOK
<1>2. ASSUME NEW h \in Handlers, NEW new, handler' = [handler EXCEPT ![h] = new],
             new.pc = "save" /\ new.event = "cancelled" => new.write = "CANCELLED"
      PROVE  CancelsOnly'
  BY <1>1, <1>2 DEF CancelsOnly
<1>3. ASSUME NEW h \in Handlers, NEW pc, NEW event, NEW o, NEW copy, NEW write,
             HandlerGoes(h, pc, event, o, copy, write),
             pc = "save" /\ event = "cancelled" => write = "CANCELLED"
      PROVE  CancelsOnly'
  <2> DEFINE new == [pc |-> pc, event |-> event, order |-> o, copy |-> copy, write |-> write]
  <2>1. /\ handler' = [handler EXCEPT ![h] = new]
        /\ new.pc = "save" /\ new.event = "cancelled" => new.write = "CANCELLED"
    BY <1>3 DEF HandlerGoes
  <2> HIDE DEF new
  <2>2. QED BY <1>2, <2>1
<1>4. ASSUME NEW h \in Handlers, HandlerDone(h) PROVE CancelsOnly'
  BY <1>2, <1>4 DEF HandlerDone, IdleHandler
<1>5. CASE handler' = handler
  BY <1>5 DEF CancelsOnly
<1>6. ASSUME NEW h \in Handlers, OrderStep(h) PROVE CancelsOnly'
  <2>1. CASE CreateOrder(h) \/ CancelOrder(h)
    BY <1>3, <2>1 DEF CreateOrder, CancelOrder
  <2>2. CASE TakeResult(h)
    BY <1>3, <1>5, <2>2 DEF TakeResult
  <2>3. CASE SaveStatus(h)
    BY <1>3, <1>4, <2>3 DEF SaveStatus
  <2>4. CASE Emit(h) \/ HandlerStops(h)
    BY <1>4, <2>4 DEF Emit, HandlerStops
  <2>5. QED BY <1>6, <2>1, <2>2, <2>3, <2>4 DEF OrderStep
<1>7. CASE TakeOrderEvent \/ Settle \/ Lose
  BY <1>5, <1>7 DEF TakeOrderEvent, Settle, Lose
<1>8. QED BY <1>5, <1>6, <1>7, OtherSteps DEF SagaNext

LEMMA TermsExcept ==
  ASSUME orders \in [OrderIds -> Order], NEW o \in OrderIds, NEW new,
         orders' = [orders EXCEPT ![o] = new]
  PROVE  AllTerms' = [AllTerms EXCEPT ![o] = Terms(new)]
<1>1. \A p \in OrderIds : orders'[p] = IF p = o THEN new ELSE orders[p]
  OBVIOUS
<1>2. AllTerms' = [p \in OrderIds |-> IF p = o THEN Terms(new) ELSE Terms(orders[p])]
  BY <1>1 DEF AllTerms, Terms
<1>3. QED BY <1>2 DEF AllTerms

LEMMA CreateIsPlace ==
  ASSUME SagaInv, ~SameMs, NEW h \in Handlers, CreateOrder(h)
  PROVE  \E o \in OrderIds : OrderPromise!Place(o)
<1>1. PICK o \in OrderIds, c \in claims, amount \in Amounts :
        LET order == [status |-> "PENDING", user |-> c.user, ticket |-> c.key,
                      amount |-> amount] IN
        /\ orders[o].status = "NONE"
        /\ orders' = [orders EXCEPT ![o] = order]
  BY DEF CreateOrder
<1> DEFINE order == [status |-> "PENDING", user |-> c.user, ticket |-> c.key, amount |-> amount]
<1>2. c.user \in Users /\ c.key \in Ids /\ orders \in [OrderIds -> Order]
  BY DEF SagaInv, SagaTypeOK, TypeOK, Claim
<1>3. orders' = [orders EXCEPT ![o] = order]
  BY <1>1
<1>4. Terms(order) = [status |-> "PENDING", user |-> c.user, seat |-> c.key]
  BY DEF Terms
<1> HIDE DEF order
<1>5. AllTerms' = [AllTerms EXCEPT ![o] = [status |-> "PENDING", user |-> c.user, seat |-> c.key]]
  BY <1>2, <1>3, <1>4, TermsExcept
<1>6. AllTerms[o].status = "NONE" /\ charged' = charged
  BY <1>1 DEF AllTerms, Terms, CreateOrder
<1>7. OrderPromise!Place(o)
  BY <1>2, <1>5, <1>6 DEF OrderPromise!Place, OrderPromise!Placed, AllTerms, Terms
<1>8. QED BY <1>7

LEMMA SaveIsMark ==
  ASSUME SagaInv, CourseInv, CancelsOnly, NEW h \in Handlers, SaveStatus(h)
  PROVE  \E o \in OrderIds, status \in OrderPromise!Ended : OrderPromise!Mark(o, status)
<1> DEFINE j == handler[h]
<1>1. /\ j.order \in OrderIds /\ j.copy \in Order /\ j.write \in OrderStatuses /\ j.pc = "save"
      /\ orders \in [OrderIds -> Order]
      /\ orders' = [orders EXCEPT ![j.order] = [j.copy EXCEPT !.status = j.write]]
  BY DEF SaveStatus, SagaInv, SagaTypeOK, HandlerFits, Handling
<1>2. Same(j.order, j.copy.user, j.copy.ticket)
  BY <1>1 DEF CourseInv, MatchInv
<1>3. j.write \in {"COMPLETED", "CANCELLED"}
  BY <1>1 DEF CourseInv, TokenInv, OrderStatuses
<1>4. j.write = "COMPLETED" => j.order \in Buys
  BY <1>1 DEF CourseInv, PayInv, Pays, CancelsOnly, Bought, Buys
<1> HIDE DEF j
<1>5. PICK new : new = [j.copy EXCEPT !.status = j.write]
  OBVIOUS
<1>6. Terms(new) = [status |-> j.write, user |-> orders[j.order].user, seat |-> orders[j.order].ticket]
  BY <1>1, <1>2, <1>5 DEF Terms, Same, Order
<1>7. AllTerms' = [AllTerms EXCEPT ![j.order] = Terms(new)]
  BY <1>1, <1>5, TermsExcept
<1>8. AllTerms' = [AllTerms EXCEPT ![j.order].status = j.write]
  BY <1>1, <1>6, <1>7 DEF AllTerms, Terms
<1>9. AllTerms[j.order].status # "NONE" /\ charged' = charged
  BY <1>1, <1>2 DEF AllTerms, Terms, Same, SaveStatus
<1>10. PICK o \in OrderIds, status \in OrderPromise!Ended : o = j.order /\ status = j.write
  BY <1>1, <1>3 DEF OrderPromise!Ended
<1>11. OrderPromise!Mark(o, status)
  <2>1. AllTerms[o].status # "NONE" <=> OrderPromise!Placed(o)
    BY DEF OrderPromise!Placed, AllTerms, Terms
  <2>2. AllTerms' = [AllTerms EXCEPT ![o].status = status] /\ Buys' = Buys
    BY <1>8, <1>9, <1>10 DEF Buys
  <2>3. QED BY <1>4, <1>9, <1>10, <2>1, <2>2 DEF OrderPromise!Mark, AllTerms, Terms, Buys
<1>12. QED BY <1>11

LEMMA SettleIsCharge ==
  ASSUME SagaInv, CourseInv, Settle
  PROVE  UNCHANGED <<orders, charged>> \/ \E o \in OrderIds : OrderPromise!Charge(o)
<1>1. PICK m \in paying, r \in orderQueue' :
        r.order = m.order /\ charged' = IF r.ok THEN charged \cup {r} ELSE charged
  BY SettleBuys
<1>2. orders' = orders /\ m.order \in OrderIds /\ orders[m.order].status # "NONE"
  BY PaymentAlone DEF CourseInv, Settle
<1>3. m.order \notin Buys
  BY DEF CourseInv, PayInv, OnTheWay, Bought, Buys
<1>4. CASE r.ok
  <2>1. Buys' = Buys \cup {m.order}
    BY <1>1, <1>4 DEF Buys
  <2>2. AllTerms[m.order].status # "NONE" /\ AllTerms' = AllTerms
    BY <1>2 DEF AllTerms, Terms
  <2>3. OrderPromise!Charge(m.order)
    BY <1>3, <2>1, <2>2 DEF OrderPromise!Charge, OrderPromise!Placed, AllTerms, Terms, Buys
  <2>4. QED BY <1>2, <2>3
<1>5. CASE ~r.ok
  BY <1>1, <1>2, <1>5
<1>6. QED BY <1>4, <1>5

LEMMA OrderContractStep ==
  ASSUME SagaInv, CourseInv, CancelsOnly, ~SameMs, [SagaNext]_allVars
  PROVE  [OrderPromise!Next]_(OrderPromise!vars)
<1>1. CASE UNCHANGED <<orders, charged>>
  BY <1>1 DEF OrderPromise!vars
<1>2. ASSUME NEW h \in Handlers, OrderStep(h) PROVE [OrderPromise!Next]_(OrderPromise!vars)
  <2>1. CASE CreateOrder(h)
    BY <2>1, CreateIsPlace DEF OrderPromise!Next
  <2>2. CASE SaveStatus(h)
    BY <2>2, SaveIsMark DEF OrderPromise!Next
  <2>3. CASE CancelOrder(h) \/ TakeResult(h) \/ Emit(h) \/ HandlerStops(h)
    BY <1>1, <2>3 DEF CancelOrder, TakeResult, Emit, HandlerStops
  <2>4. QED BY <1>2, <2>1, <2>2, <2>3 DEF OrderStep
<1>3. CASE Settle
  BY <1>1, <1>3, SettleIsCharge DEF OrderPromise!Next
<1>4. CASE TakeOrderEvent \/ Lose
  BY <1>1, <1>4 DEF TakeOrderEvent, Lose
<1>5. QED BY <1>1, <1>2, <1>3, <1>4, OtherSteps DEF SagaNext

(* While no two orders are made in one millisecond, order service, payment  *)
(* service and queues implement OrderContract step by step, through losses, *)
(* cancellations and saves of whole rows read earlier.                      *)
THEOREM SagaKeepsOrderContract == ASSUME ~SameMs PROVE SagaSpec => KeepsOrderContract
<1>1. SagaInit => CourseInv /\ CancelsOnly /\ OrderPromise!Init
  <2>1. SagaInit => CancelsOnly
    BY DEF SagaInit, IdleHandler, CancelsOnly
  <2>2. SagaInit => OrderPromise!Init
    BY DEF SagaInit, NoOrder, OrderPromise!Init
  <2>3. QED BY <2>1, <2>2, CourseInit
<1>2. SagaInv /\ CourseInv /\ CancelsOnly /\ [SagaNext]_allVars =>
        CourseInv' /\ CancelsOnly' /\ [OrderPromise!Next]_(OrderPromise!vars)
  BY CourseStep, CancelsOnlyStep, OrderContractStep
<1>3. QED
  BY <1>1, <1>2, SagaInvariance, PTL DEF SagaSpec, KeepsOrderContract, OrderPromise!Spec

-----------------------------------------------------------------------------
(* What the contract promises follows from the contract alone. *)
LEMMA ContractStepKeeps ==
  ASSUME OrderPromise!CompletedIsCharged, [OrderPromise!Next]_(OrderPromise!vars)
  PROVE  /\ OrderPromise!CompletedIsCharged'
         /\ \A o \in OrderIds : OrderPromise!OrderKept(o)
<1> DEFINE Is(o) ==
             /\ o \in Buys => AllTerms[o].status # "NONE"
             /\ AllTerms[o].status = "COMPLETED" => o \in Buys
           After(o) ==
             /\ o \in Buys' => AllTerms'[o].status # "NONE"
             /\ AllTerms'[o].status = "COMPLETED" => o \in Buys'
           Kept(o) ==
             /\ o \in Buys => o \in Buys'
             /\ AllTerms[o].status # "NONE" => /\ AllTerms'[o].status # "NONE"
                                              /\ AllTerms'[o].user = AllTerms[o].user
                                              /\ AllTerms'[o].seat = AllTerms[o].seat
<1>1. \A o \in OrderIds : Is(o)
  BY DEF OrderPromise!CompletedIsCharged, OrderPromise!Placed, AllTerms, Terms, Buys
<1>2. DOMAIN AllTerms = OrderIds /\ \A o \in OrderIds : DOMAIN AllTerms[o] = {"status", "user", "seat"}
  BY DEF AllTerms, Terms
<1>3. \A o \in OrderIds : After(o) /\ Kept(o)
  <2>1. ASSUME NEW p \in OrderIds, OrderPromise!Place(p) PROVE \A o \in OrderIds : After(o) /\ Kept(o)
    <3>1. PICK u, s : AllTerms' = [AllTerms EXCEPT ![p] = [status |-> "PENDING", user |-> u, seat |-> s]]
      BY <2>1 DEF OrderPromise!Place, AllTerms, Terms
    <3>2. Buys' = Buys /\ AllTerms[p].status = "NONE"
      BY <2>1 DEF OrderPromise!Place, OrderPromise!Placed, AllTerms, Terms, Buys
    <3>3. QED BY <1>1, <1>2, <3>1, <3>2
  <2>2. ASSUME NEW p \in OrderIds, OrderPromise!Charge(p) PROVE \A o \in OrderIds : After(o) /\ Kept(o)
    <3>1. AllTerms' = AllTerms /\ Buys' = Buys \cup {p} /\ AllTerms[p].status # "NONE"
      BY <2>2 DEF OrderPromise!Charge, OrderPromise!Placed, AllTerms, Terms, Buys
    <3>2. QED BY <1>1, <3>1
  <2>3. ASSUME NEW p \in OrderIds, NEW status \in OrderPromise!Ended, OrderPromise!Mark(p, status)
        PROVE  \A o \in OrderIds : After(o) /\ Kept(o)
    <3>1. AllTerms' = [AllTerms EXCEPT ![p].status = status] /\ status # "NONE"
      BY <2>3 DEF OrderPromise!Mark, OrderPromise!Ended, AllTerms, Terms
    <3>2. Buys' = Buys /\ (status = "COMPLETED" => p \in Buys)
      BY <2>3 DEF OrderPromise!Mark, Buys
    <3>3. QED BY <1>1, <1>2, <3>1, <3>2
  <2>4. CASE UNCHANGED OrderPromise!vars
    <3>1. AllTerms' = AllTerms /\ Buys' = Buys
      BY <2>4 DEF OrderPromise!vars, AllTerms, Terms, Buys
    <3>2. QED BY <1>1, <3>1
  <2>5. QED BY <2>1, <2>2, <2>3, <2>4 DEF OrderPromise!Next
<1>4. QED
  BY <1>3 DEF OrderPromise!CompletedIsCharged, OrderPromise!OrderKept, OrderPromise!Placed,
              AllTerms, Terms, Buys

(* While no two orders are made in one millisecond, a completed order was   *)
(* charged, and an order once placed keeps its buyer and ticket, whichever  *)
(* handler saves which copy of its row, and in what order.                  *)
THEOREM OrdersKeepTheirTerms ==
  ASSUME ~SameMs
  PROVE  SagaSpec => []OrderPromise!CompletedIsCharged /\ OrderPromise!OrdersAreKept
<1>1. OrderPromise!Init => OrderPromise!CompletedIsCharged
  BY DEF OrderPromise!Init, OrderPromise!CompletedIsCharged, OrderPromise!Placed
<1>2. OrderPromise!CompletedIsCharged /\ [OrderPromise!Next]_(OrderPromise!vars) =>
        /\ OrderPromise!CompletedIsCharged'
        /\ [\A o \in OrderIds : OrderPromise!OrderKept(o)]_(OrderPromise!vars)
  BY ContractStepKeeps
<1>3. QED
  BY <1>1, <1>2, SagaKeepsOrderContract, PTL
     DEF KeepsOrderContract, OrderPromise!Spec, OrderPromise!OrdersAreKept
=============================================================================
