------------------------------ MODULE Gateway ------------------------------
(***************************************************************************)
(* The API gateway between browsers and services.  A REST call is sent,    *)
(* served (the service has acted; what happens between the queries of a    *)
(* handler is the subject of Inventory and Saga), answered (the gateway    *)
(* has broadcast and replied) and then handled by the browser, so answers  *)
(* and broadcasts overtake each other as they may.                         *)
(***************************************************************************)
EXTENDS Naturals, Sequences, FiniteSets

CONSTANTS
  Seats, Users, OrderIds, Browsers,
  Slots,      \* REST calls that may be under way at once, 1 .. n
  Guest,      \* the session of nobody, usr_guest
  None,
  Members,    \* users who sign in on the Browsers
  Outsiders,  \* users who use the API without one of the Browsers
  MaxNews,    \* bound on the undelivered broadcasts of a browser, for TLC
  Lossy       \* whether calls, answers and queue messages may be lost

ASSUME GatewayAssumption ==
  /\ Members \subseteq Users /\ Outsiders \subseteq Users
  /\ Guest \notin Users /\ None \notin Users \cup Seats \cup OrderIds \cup Browsers
  /\ Slots \subseteq Nat
  /\ MaxNews \in Nat \ {0} /\ Lossy \in BOOLEAN

VARIABLES
  call,      \* call[k]: the REST call in slot k
  inbox,     \* inbox[b]: broadcasts sent to browser b, in order
  user       \* user[b]: activeUser and its token

Sessions == Members \cup {Guest}
Seat == {"AVAILABLE", "HELD", "SOLD"}
Ended == {"COMPLETED", "CANCELLED"}

(***************************************************************************)
(* Calls.  data is what a read returned; a call to pay keeps its slot for  *)
(* the timer and the GET that follow it.                                   *)
(***************************************************************************)
PCs == {"idle", "sent", "served", "answered", "timer", "asked", "checked"}
Kinds == {"hold", "release", "resale", "pay"}
Results == {"ok", "refused", "lost"}

Idle == [pc |-> "idle", kind |-> None, by |-> None, user |-> None, seat |-> None,
         order |-> None, good |-> TRUE, result |-> "ok", data |-> {}]

Call(Data) ==
  [pc : PCs, kind : Kinds \cup {None}, by : Browsers \cup {None},
   user : Users \cup {Guest, None}, seat : Seats \cup {None}, order : OrderIds \cup {None},
   good : BOOLEAN, result : Results, data : Data]

At(k, pc, kind) == call[k].pc = pc /\ call[k].kind = kind
Back(b, k, kind) == At(k, "answered", kind) /\ call[k].by = b

(* The lowest free slot: which one is taken makes no difference. *)
Send(k, c) ==
  /\ call[k].pc = "idle" /\ \A j \in Slots : call[j].pc = "idle" => k <= j
  /\ call' = [call EXCEPT ![k] = [c EXCEPT !.pc = "sent"]]
Becomes(k, pc) == call' = [call EXCEPT ![k].pc = pc]
Reply(k, result, data) ==
  call' = [call EXCEPT ![k].pc = "answered", ![k].result = result, ![k].data = data]
Done(k) == call' = [call EXCEPT ![k] = Idle]

(* A service that is down, or fails, changes nothing. *)
Refuse(k) ==
  /\ Lossy
  /\ call[k].pc = "sent"
  /\ Reply(k, "refused", {})

(* The connection breaks on the way there or on the way back. *)
LoseCall(k) ==
  /\ Lossy
  /\ call[k].pc \in {"sent", "answered"} /\ call[k].result # "lost"
  /\ Reply(k, "lost", {})

(* Nobody waits for the answer to a user without a modelled browser. *)
OutsideAnswer(k) == call[k].pc = "answered" /\ call[k].by = None /\ Done(k)

(***************************************************************************)
(* Broadcasts: broadcastSeatUpdate and broadcastOrderUpdate write to the   *)
(* room of the event or of the user and then to every client, so every     *)
(* browser gets every message, whoever it concerns.  The second copy that  *)
(* a member of the room gets right behind the first is left out.           *)
(***************************************************************************)
SeatNews(s, status) == [about |-> "seat", seat |-> s, status |-> status, order |-> None]
OrderNews(o, s, status) == [about |-> "order", seat |-> s, status |-> status, order |-> o]

News == [about : {"seat"}, seat : Seats, status : Seat, order : {None}]
          \cup [about : {"order"}, seat : Seats, status : Ended, order : OrderIds]

Broadcast(news) ==
  /\ \A b \in Browsers : Len(inbox[b]) + Len(news) <= MaxNews
  /\ inbox' = [b \in Browsers |-> inbox[b] \o news]

Receive(b) == inbox[b] # <<>> /\ inbox' = [inbox EXCEPT ![b] = Tail(@)]

(***************************************************************************)
(* Sessions: handleLogin, handleRegister and handleLogout set activeUser.  *)
(* The socket is replaced, and what it had not delivered is gone.          *)
(***************************************************************************)
SwitchUser(b, u) ==
  /\ u \in Sessions /\ user[b] # u
  /\ user' = [user EXCEPT ![b] = u]
  /\ inbox' = [inbox EXCEPT ![b] = <<>>]

(* A session may be left in localStorage by an earlier visit. *)
GatewayInit ==
  /\ call = [k \in Slots |-> Idle]
  /\ inbox = [b \in Browsers |-> <<>>]
  /\ user \in [Browsers -> Sessions]

GatewayTypeOK(Data) ==
  /\ call \in [Slots -> Call(Data)]
  /\ inbox \in [Browsers -> Seq(News)]
  /\ \A b \in Browsers : Len(inbox[b]) <= MaxNews
  /\ user \in [Browsers -> Sessions]
=============================================================================
