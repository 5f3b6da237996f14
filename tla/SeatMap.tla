------------------------------ MODULE SeatMap ------------------------------
(***************************************************************************)
(* Seats as browsers see them: the calls to hold, release and list a seat, *)
(* what the gateway broadcasts after each, the outcomes of orders, and the *)
(* seat map and held seat of App.tsx that all of these change.  A service  *)
(* handles a call in one step; Inventory has the steps in between.         *)
(***************************************************************************)
EXTENDS Gateway

CONSTANT MaxCalls   \* bound on what users do, for TLC
ASSUME MaxCallsAssumption == MaxCalls \in Nat

VARIABLES
  seat,      \* seat[s]: the inventory's row, out when its hold has expired
  ended,     \* orders whose end is still to be announced, and as what
  held,      \* held[b]: heldTicket
  view,      \* view[b][s]: status of the seat in tickets, ABSENT before any load
  loading,   \* loading[b]: the request for the seats of the event
  entitled,  \* history: <<user, seat>> granted, or taken for held without a grant
  astray,    \* history: <<browser, seat>> whose view was written out of date
  calls      \* how often users have acted

page == <<held, view, loading>>
seatVars == <<call, inbox, user, seat, ended, page, entitled, astray, calls>>

Row == [status : Seat, holder : Users \cup {Guest, None}, out : BOOLEAN]
Free == [status |-> "AVAILABLE", holder |-> None, out |-> FALSE]

(* The service's row changes; a view that shows it already is right again.  *)
(* Nobody is told of a change that is silent.                               *)
Changed(s, row) ==
  /\ seat' = [seat EXCEPT ![s] = row]
  /\ astray' = {p \in astray : p[2] # s \/ view[p[1]][s] # row.status}
ChangedSilently(s, row) ==
  /\ seat' = [seat EXCEPT ![s] = row]
  /\ astray' = {p \in astray : p[2] # s \/ view[p[1]][s] # row.status}
                 \cup {b \in Browsers : view[b][s] # row.status} \X {s}

(* A browser writes what it takes the status of a seat it shows to be. *)
Show(b, s, status) ==
  IF view[b][s] = "ABSENT" THEN UNCHANGED <<view, astray>>
  ELSE /\ view' = [view EXCEPT ![b][s] = status]
       /\ astray' = IF status = seat[s].status THEN astray \ {<<b, s>>}
                                               ELSE astray \cup {<<b, s>>}
ShowNothing == UNCHANGED <<view, astray>>

NoSeats == [s \in Seats |-> "ABSENT"]
Asked == [pc |-> "sent", seats |-> NoSeats]
Loaded == [pc |-> "done", seats |-> NoSeats]

SetHeld(b, s) == held' = [held EXCEPT ![b] = s]

(***************************************************************************)
(* The inventory: what it does with a call.                                *)
(***************************************************************************)
Takeable(s) == seat[s].status = "AVAILABLE" \/ (seat[s].status = "HELD" /\ seat[s].out)

ServeHold(k) ==
  LET c == call[k] IN
  /\ At(k, "sent", "hold")
  /\ IF Takeable(c.seat)
     THEN /\ Changed(c.seat, [status |-> "HELD", holder |-> c.user, out |-> FALSE])
          /\ entitled' = entitled \cup {<<c.user, c.seat>>}
          /\ Becomes(k, "served")
     ELSE Reply(k, "refused", {}) /\ UNCHANGED <<seat, entitled, astray>>
  /\ UNCHANGED <<inbox, user, ended, page>>

(* Nobody asks whose hold it is. *)
ServeRelease(k) ==
  LET s == call[k].seat IN
  /\ At(k, "sent", "release")
  /\ IF seat[s].status = "HELD" THEN Changed(s, Free) ELSE UNCHANGED <<seat, astray>>
  /\ Becomes(k, "served")
  /\ UNCHANGED <<inbox, user, ended, page, entitled>>

ServeResale(k) ==
  LET s == call[k].seat IN
  /\ At(k, "sent", "resale")
  /\ Changed(s, Free)
  /\ Becomes(k, "served")
  /\ UNCHANGED <<inbox, user, ended, page, entitled>>

AnnounceHoldsOnly(k) ==                    \* variant: a release is not announced
  LET c == call[k] IN
  /\ c.pc = "served"
  /\ IF c.kind = "hold" THEN Broadcast(<<SeatNews(c.seat, "HELD")>>) ELSE UNCHANGED inbox
  /\ Reply(k, "ok", {})
  /\ UNCHANGED <<user, seat, ended, page, entitled, astray>>

(* The gateway broadcasts and replies. *)
AnnounceCall(k) ==
  LET c == call[k] IN
  /\ c.pc = "served"
  /\ Broadcast(<<SeatNews(c.seat, IF c.kind = "hold" THEN "HELD" ELSE "AVAILABLE")>>)
  /\ Reply(k, "ok", {})
  /\ UNCHANGED <<user, seat, ended, page, entitled, astray>>

(* cleanupExpiredHolds, when anybody asks for the seats of an event, and    *)
(* the ten minutes before it: neither is announced.                         *)
HoldRunsOut(s) ==
  /\ seat[s].status = "HELD" /\ ~seat[s].out
  /\ seat' = [seat EXCEPT ![s].out = TRUE]
  /\ UNCHANGED <<call, inbox, user, ended, page, entitled, astray>>

Sweep(s) ==
  /\ seat[s].status = "HELD" /\ seat[s].out
  /\ ChangedSilently(s, Free)
  /\ UNCHANGED <<call, inbox, user, ended, page, entitled>>

(***************************************************************************)
(* Orders, as Checkout has them: a payment's outcome sells the seat or     *)
(* releases it, and is announced in the gateway's own time, as SOLD or, of *)
(* a seat nobody asks the inventory about, as AVAILABLE.                   *)
(***************************************************************************)
OrderEnds(o) ==
  /\ \A e \in ended : e.order # o
  /\ \E p \in entitled, paid \in BOOLEAN :
       LET s == p[2] IN
       /\ ended' = ended \cup
            {[order |-> o, user |-> p[1], seat |-> s, paid |-> paid, told |-> FALSE]}
       /\ IF paid THEN Changed(s, [status |-> "SOLD", holder |-> p[1], out |-> FALSE])
          ELSE IF seat[s].status = "HELD" THEN Changed(s, Free)
          ELSE UNCHANGED <<seat, astray>>
  /\ UNCHANGED <<call, inbox, user, page, entitled>>

AnnounceAsOrder(o) ==                      \* variant: the seat gets the order's status
  /\ \E e \in ended :
       LET status == IF e.paid THEN "COMPLETED" ELSE "CANCELLED" IN
       /\ e.order = o /\ ~e.told
       /\ ended' = (ended \ {e}) \cup {[e EXCEPT !.told = TRUE]}
       /\ Broadcast(<<SeatNews(e.seat, status), OrderNews(o, e.seat, status)>>)
  /\ UNCHANGED <<call, user, seat, page, entitled, astray>>

AnnounceEnd(o) ==
  /\ \E e \in ended :
       /\ e.order = o /\ ~e.told
       /\ ended' = (ended \ {e}) \cup {[e EXCEPT !.told = TRUE]}
       /\ Broadcast(<< SeatNews(e.seat, IF e.paid THEN "SOLD" ELSE "AVAILABLE"),
                       OrderNews(o, e.seat, IF e.paid THEN "COMPLETED" ELSE "CANCELLED") >>)
  /\ UNCHANGED <<call, user, seat, page, entitled, astray>>

(***************************************************************************)
(* The page of an event, opened at will.  The answer to the request for    *)
(* its seats replaces them all, however old it is; without one the page    *)
(* makes seats up, some of them sold.                                      *)
(***************************************************************************)
SelectEvent(b) ==
  /\ loading[b].pc = "done"
  /\ loading' = [loading EXCEPT ![b] = Asked]
  /\ UNCHANGED <<call, inbox, user, seat, ended, held, view, entitled, astray>>

ReadSeats(b) ==
  /\ loading[b].pc = "sent"
  /\ loading' = [loading EXCEPT ![b] =
       [pc |-> "answered", seats |-> [s \in Seats |-> seat[s].status]]]
  /\ UNCHANGED <<call, inbox, user, seat, ended, held, view, entitled, astray>>

ShowAll(b, shown) ==
  /\ view' = [view EXCEPT ![b] = shown]
  /\ astray' = {p \in astray : p[1] # b}
                 \cup {b} \X {s \in Seats : shown[s] # seat[s].status}
  /\ loading' = [loading EXCEPT ![b] = Loaded]
  /\ UNCHANGED <<call, inbox, user, seat, ended, held, entitled>>

SeatsLoaded(b) == loading[b].pc = "answered" /\ ShowAll(b, loading[b].seats)

generateSeedSeats(b) ==
  /\ Lossy
  /\ loading[b].pc # "done"
  /\ \E shown \in [Seats -> {"AVAILABLE", "SOLD"}] : ShowAll(b, shown)

(***************************************************************************)
(* handleHoldTicket, of a seat the map shows as AVAILABLE or, as           *)
(* handleBuyFromFan, of one on a resale page of whatever age: there a seat *)
(* gets from My Tickets.                                                   *)
(***************************************************************************)
Ask(b, k, kind, s) ==
  Send(k, [Idle EXCEPT !.kind = kind, !.by = b, !.user = user[b], !.seat = s])

HoldSeat(b, k, s) ==
  /\ user[b] # Guest
  /\ (view[b][s] = "AVAILABLE" /\ held[b] # s) \/ \E e \in ended : e.seat = s
  /\ Ask(b, k, "hold", s)
  /\ UNCHANGED <<inbox, user, seat, ended, page, entitled, astray>>

HoldAnsweredUnread(b, k) ==                \* variant: res.ok is not looked at
  /\ Back(b, k, "hold")
  /\ SetHeld(b, call[k].seat) /\ Show(b, call[k].seat, "HELD")
  /\ Done(k)
  /\ UNCHANGED <<inbox, user, seat, ended, loading, entitled>>

(* A refusal changes nothing; without any answer the seat counts as held.   *)
(* If the session has changed meanwhile, the new one has the held seat.     *)
HoldAnswered(b, k) ==
  LET c == call[k] IN
  /\ Back(b, k, "hold")
  /\ IF c.result = "refused" THEN ShowNothing /\ UNCHANGED <<held, entitled>>
     ELSE /\ SetHeld(b, c.seat) /\ Show(b, c.seat, "HELD")
          /\ entitled' = IF c.result = "ok" /\ user[b] = c.user THEN entitled
                        ELSE entitled \cup {<<user[b], c.seat>>}
  /\ Done(k)
  /\ UNCHANGED <<inbox, user, seat, ended, loading>>

(***************************************************************************)
(* handleReleaseHold: the Release button, a click on the held seat, or the *)
(* end of the browser's own countdown, which may come late.  After any     *)
(* answer, or none, whatever is held by then is dropped.  (The countdown   *)
(* names the user of its start, but the service does not look at it.)      *)
(***************************************************************************)
ReleaseAnySeat(b, k) ==                    \* variant: any held seat can be clicked
  /\ \E s \in Seats : view[b][s] = "HELD" /\ Ask(b, k, "release", s)
  /\ UNCHANGED <<inbox, user, seat, ended, page, entitled, astray>>

ReleaseSeat(b, k) ==
  /\ held[b] # None
  /\ Ask(b, k, "release", held[b])
  /\ UNCHANGED <<inbox, user, seat, ended, page, entitled, astray>>

ReleaseAnswered(b, k) ==
  /\ Back(b, k, "release")
  /\ SetHeld(b, None) /\ Show(b, call[k].seat, "AVAILABLE")
  /\ Done(k)
  /\ UNCHANGED <<inbox, user, seat, ended, loading, entitled>>

(***************************************************************************)
(* handleCompletePayment, as far as it touches seats: the timer after the  *)
(* POST frees the seat on the page if a decline was simulated, and shows   *)
(* it as SOLD if the one GET finds the order completed.                    *)
(***************************************************************************)
PayHeld(b, k) ==
  /\ held[b] # None
  /\ \E good \in BOOLEAN :
       Send(k, [Idle EXCEPT !.kind = "pay", !.by = b, !.user = user[b],
                            !.seat = held[b], !.good = good])
  /\ UNCHANGED <<inbox, user, seat, ended, page, entitled, astray>>

PayTimer(b, k) ==
  LET c == call[k]
      completed == \E e \in ended : e.paid /\ e.seat = c.seat /\ e.user = c.user IN
  /\ At(k, "sent", "pay") /\ c.by = b
  /\ Done(k)
  /\ \/ ~c.good /\ Show(b, c.seat, "AVAILABLE") /\ SetHeld(b, None)
     \/ c.good /\ completed /\ Show(b, c.seat, "SOLD") /\ SetHeld(b, None)
     \/ c.good /\ ShowNothing /\ UNCHANGED held
  /\ UNCHANGED <<inbox, user, seat, ended, loading, entitled>>

(* handleListResale, of any entry of My Tickets: sent and forgotten. *)
ListResale(b, k) ==
  /\ \E e \in ended : e.user = user[b] /\ Ask(b, k, "resale", e.seat)
  /\ UNCHANGED <<inbox, user, seat, ended, page, entitled, astray>>

ResaleAnswered(b, k) ==
  /\ Back(b, k, "resale")
  /\ Done(k)
  /\ UNCHANGED <<inbox, user, seat, ended, page, entitled, astray>>

(***************************************************************************)
(* seatUpdated, and orderUpdated, which drops the held seat of any browser *)
(* whoever ordered what.                                                   *)
(***************************************************************************)
HandleNews(b) ==
  LET n == Head(inbox[b]) IN
  /\ Receive(b)
  /\ IF n.about = "seat"
     THEN /\ Show(b, n.seat, n.status)
          /\ IF held[b] = n.seat /\ n.status \in {"AVAILABLE", "SOLD"}
             THEN SetHeld(b, None) ELSE UNCHANGED held
     ELSE SetHeld(b, None) /\ ShowNothing
  /\ UNCHANGED <<call, user, seat, ended, loading, entitled>>

(* The held seat outlives its session. *)
ChangeSession(b) ==
  /\ \E u \in Sessions :
       /\ SwitchUser(b, u)
       /\ entitled' = IF held[b] = None THEN entitled ELSE entitled \cup {<<u, held[b]>>}
  /\ astray' = astray \cup {b} \X {s \in Seats : view[b][s] \notin {"ABSENT", seat[s].status}}
  /\ UNCHANGED <<call, seat, ended, page>>

(* Users beyond the browsers hold seats, and release what they held. *)
OutsideCall(k) ==
  /\ \E u \in Outsiders, s \in Seats, kind \in {"hold", "release"} :
       /\ kind = "release" => <<u, s>> \in entitled
       /\ Send(k, [Idle EXCEPT !.kind = kind, !.user = u, !.seat = s])
  /\ UNCHANGED <<inbox, user, seat, ended, page, entitled, astray>>

(***************************************************************************)
SeatMapInit ==
  /\ GatewayInit
  /\ seat = [s \in Seats |-> Free]
  /\ ended = {}
  /\ held = [b \in Browsers |-> None]
  /\ view \in [Browsers -> {NoSeats, [s \in Seats |-> "AVAILABLE"]}]
  /\ loading = [b \in Browsers |-> Loaded]
  /\ entitled = {} /\ astray = {} /\ calls = 0

CallStep(k) ==
  \/ ServeHold(k) \/ ServeRelease(k) \/ ServeResale(k) \/ AnnounceCall(k)
  \/ /\ call[k].kind # "pay"
     /\ Refuse(k) \/ LoseCall(k) \/ OutsideAnswer(k)
     /\ UNCHANGED <<inbox, user, seat, ended, page, entitled, astray>>

BrowserCall(b, k) ==
  \/ \E s \in Seats : HoldSeat(b, k, s)
  \/ ReleaseSeat(b, k) \/ PayHeld(b, k) \/ ListResale(b, k)

UserStep(b) ==
  \/ \E k \in Slots : BrowserCall(b, k)
  \/ SelectEvent(b) \/ ChangeSession(b)

BrowserStep(b) ==
  \/ \E k \in Slots : \/ HoldAnswered(b, k) \/ ReleaseAnswered(b, k) \/ PayTimer(b, k)
                      \/ ResaleAnswered(b, k)
  \/ ReadSeats(b) \/ SeatsLoaded(b) \/ generateSeedSeats(b) \/ HandleNews(b)

SeatMapNext ==
  \/ /\ calls < MaxCalls /\ calls' = calls + 1
     /\ (\E k \in Slots : OutsideCall(k)) \/ \E b \in Browsers : UserStep(b)
  \/ /\ UNCHANGED calls
     /\ \/ \E k \in Slots : CallStep(k)
        \/ \E b \in Browsers : BrowserStep(b)
        \/ \E s \in Seats : HoldRunsOut(s) \/ Sweep(s)
        \/ \E o \in OrderIds : OrderEnds(o) \/ AnnounceEnd(o)

SeatMapSpec == SeatMapInit /\ [][SeatMapNext]_seatVars

-----------------------------------------------------------------------------
(* Every variable stays in its domain. *)
SeatMapTypeOK ==
  /\ GatewayTypeOK({{}})
  /\ seat \in [Seats -> Row]
  /\ ended \subseteq [order : OrderIds, user : Users \cup {Guest}, seat : Seats,
                      paid : BOOLEAN, told : BOOLEAN]
  /\ held \in [Browsers -> Seats \cup {None}]
  /\ view \in [Browsers -> [Seats -> Seat \cup {"ABSENT"}]]
  /\ loading \in [Browsers -> [pc : {"sent", "answered", "done"},
                             seats : [Seats -> Seat \cup {"ABSENT"}]]]
  /\ entitled \subseteq (Users \cup {Guest}) \X Seats
  /\ astray \subseteq Browsers \X Seats /\ calls \in 0 .. MaxCalls

(* The seat a browser can check out was granted to its user at some time,   *)
(* or taken for held because no answer came or the session changed: in no   *)
(* order of news, answers and loads does a refused user get to the payment. *)
HeldSeatWasGranted ==
  \A b \in Browsers : held[b] # None => <<user[b], held[b]>> \in entitled

(* When nothing is under way, a browser shows a seat as it is, unless what  *)
(* it wrote last was out of date when written, or nobody was told of the    *)
(* last change: every call and every order's end is announced to everybody. *)
ViewCatchesUp ==
  \A b \in Browsers, s \in Seats :
    /\ \A k \in Slots : call[k].pc = "idle"
    /\ inbox[b] = <<>> /\ \A e \in ended : e.told
    /\ view[b][s] \notin {"ABSENT", seat[s].status}
    => <<b, s>> \in astray

(* A hold that has not run out is freed by a call of another user only if   *)
(* that user once held the seat, or took it for held: a stranger cannot     *)
(* free it, a former holder whose release comes late can.                   *)
HoldFreedByFormerHolder ==
  [][\A s \in Seats, k \in Slots :
       /\ seat[s].status = "HELD" /\ ~seat[s].out /\ seat'[s].status # "HELD"
       /\ call[k].kind = "release" /\ call[k].pc = "sent" /\ call'[k].pc = "served"
       => <<call[k].user, s>> \in entitled]_seatVars
=============================================================================
