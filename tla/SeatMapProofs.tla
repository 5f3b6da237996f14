--------------------------- MODULE SeatMapProofs ---------------------------
(***************************************************************************)
(* What browsers show and hold of seats, proved for any number of seats,   *)
(* users, browsers, calls under way and undelivered broadcasts.            *)
(***************************************************************************)
EXTENDS SeatMap, SequenceTheorems, TLAPS

-----------------------------------------------------------------------------
(* A call under way names a user and a seat. *)
CallFits(k) ==
  call[k].pc # "idle" => /\ call[k].kind \in Kinds /\ call[k].seat \in Seats
                         /\ call[k].user \in Users \cup {Guest}
CallsFit == \A k \in Slots : CallFits(k)

(* A hold that was served, until its browser knows, and a release that is   *)
(* to be served, are of a user who was granted the seat or took it for held.*)
CallEntitled(k) ==
  \/ /\ call[k].kind = "hold"
     /\ call[k].pc = "served" \/ (call[k].pc = "answered" /\ call[k].result = "ok")
  \/ call[k].kind = "release" /\ call[k].pc = "sent"
  => <<call[k].user, call[k].seat>> \in entitled
CallsEntitled == \A k \in Slots : CallEntitled(k)

(* News of the seat is on its way: in the gateway that has yet to broadcast *)
(* it, or in the browser's socket.                                          *)
Undelivered(b) == {inbox[b][i] : i \in DOMAIN inbox[b]}
Unsaid(s) == \/ \E k \in Slots : call[k].pc = "served" /\ call[k].seat = s
             \/ \E e \in ended : ~e.told /\ e.seat = s
Coming(b, s) == Unsaid(s) \/ \E n \in Undelivered(b) : n.about = "seat" /\ n.seat = s

(* A view that is wrong was written wrong, or is about to be written.       *)
Shows(b, s) == view[b][s] \in {"ABSENT", seat[s].status}
ViewExplained ==
  \A b \in Browsers, s \in Seats : Shows(b, s) \/ <<b, s>> \in astray \/ Coming(b, s)

SeatMapInv ==
  /\ SeatMapTypeOK /\ CallsFit /\ CallsEntitled /\ HeldSeatWasGranted /\ ViewExplained

CallType == [Slots -> Call({{}})]

-----------------------------------------------------------------------------
(***************************************************************************)
(* What the operators of Gateway do to calls and inboxes.                  *)
(***************************************************************************)
LEMMA CallSent ==
  ASSUME call \in CallType, NEW k \in Slots, NEW c \in Call({{}}), Send(k, c)
  PROVE  /\ call' \in CallType /\ call[k].pc = "idle"
         /\ call'[k] = [c EXCEPT !.pc = "sent"]
         /\ \A j \in Slots \ {k} : call'[j] = call[j]
<1>1. [c EXCEPT !.pc = "sent"] \in Call({{}})
  BY DEF Call, PCs
<1> QED
  BY <1>1 DEF CallType, Send

LEMMA CallServed ==
  ASSUME call \in CallType, NEW k \in Slots, Becomes(k, "served")
  PROVE  /\ call' \in CallType
         /\ call'[k] = [call[k] EXCEPT !.pc = "served"]
         /\ \A j \in Slots \ {k} : call'[j] = call[j]
<1>1. [call[k] EXCEPT !.pc = "served"] \in Call({{}})
  BY DEF CallType, Call, PCs
<1> QED
  BY <1>1 DEF CallType, Becomes

LEMMA CallAnswered ==
  ASSUME call \in CallType, NEW k \in Slots, NEW result \in Results, Reply(k, result, {})
  PROVE  /\ call' \in CallType
         /\ call'[k] = [call[k] EXCEPT !.pc = "answered", !.result = result, !.data = {}]
         /\ \A j \in Slots \ {k} : call'[j] = call[j]
<1>1. [call[k] EXCEPT !.pc = "answered", !.result = result, !.data = {}] \in Call({{}})
  BY DEF CallType, Call, PCs
<1>2. call' = [call EXCEPT ![k] = [call[k] EXCEPT !.pc = "answered", !.result = result, !.data = {}]]
  BY DEF CallType, Reply, Call
<1> QED
  BY <1>1, <1>2 DEF CallType

LEMMA CallDone ==
  ASSUME call \in CallType, NEW k \in Slots, Done(k)
  PROVE  /\ call' \in CallType
         /\ call'[k] = Idle /\ Idle.pc = "idle" /\ Idle.kind = None
         /\ \A j \in Slots \ {k} : call'[j] = call[j]
<1>1. Idle \in Call({{}})
  BY DEF Idle, Call, PCs, Results
<1> QED
  BY <1>1 DEF CallType, Done, Idle

LEMMA BroadcastAdds ==
  ASSUME inbox \in [Browsers -> Seq(News)], NEW news \in Seq(News), Broadcast(news)
  PROVE  /\ inbox' \in [Browsers -> Seq(News)]
         /\ \A b \in Browsers :
              /\ Len(inbox'[b]) <= MaxNews
              /\ Undelivered(b) \subseteq Undelivered(b)'
              /\ \A i \in DOMAIN news : news[i] \in Undelivered(b)'
<1> SUFFICES ASSUME NEW b \in Browsers
             PROVE  /\ inbox'[b] \in Seq(News) /\ Len(inbox'[b]) <= MaxNews
                    /\ Undelivered(b) \subseteq Undelivered(b)'
                    /\ \A i \in DOMAIN news : news[i] \in Undelivered(b)'
  BY DEF Broadcast
<1> DEFINE old == inbox[b]
<1>1. old \in Seq(News) /\ inbox'[b] = old \o news /\ Len(old) + Len(news) <= MaxNews
  BY DEF Broadcast
<1>2. /\ old \o news \in Seq(News)
      /\ Len(old \o news) = Len(old) + Len(news)
      /\ \A i \in 1 .. Len(old) + Len(news) :
           (old \o news)[i] = IF i <= Len(old) THEN old[i] ELSE news[i - Len(old)]
  BY <1>1, ConcatProperties
<1>3. /\ DOMAIN old = 1 .. Len(old) /\ DOMAIN news = 1 .. Len(news)
      /\ DOMAIN (old \o news) = 1 .. Len(old) + Len(news)
      /\ Len(old) \in Nat /\ Len(news) \in Nat
  BY <1>1, <1>2, LenProperties
<1>4. Undelivered(b) \subseteq Undelivered(b)'
  <2> SUFFICES ASSUME NEW i \in DOMAIN old PROVE \E j \in DOMAIN (old \o news) : (old \o news)[j] = old[i]
    BY <1>1 DEF Undelivered
  <2>1. i \in DOMAIN (old \o news) /\ (old \o news)[i] = old[i]
    BY <1>2, <1>3
  <2> QED
    BY <2>1
<1>5. ASSUME NEW i \in DOMAIN news PROVE news[i] \in Undelivered(b)'
  <2> DEFINE j == Len(old) + i
  <2>1. j \in DOMAIN (old \o news) /\ (old \o news)[j] = news[i]
    BY <1>2, <1>3
  <2> QED
    BY <1>1, <2>1 DEF Undelivered
<1> QED
  BY <1>1, <1>2, <1>4, <1>5

LEMMA ReceiveTakes ==
  ASSUME inbox \in [Browsers -> Seq(News)], \A b \in Browsers : Len(inbox[b]) <= MaxNews,
         NEW b \in Browsers, Receive(b)
  PROVE  /\ inbox' \in [Browsers -> Seq(News)] /\ Head(inbox[b]) \in News
         /\ \A a \in Browsers : Len(inbox'[a]) <= MaxNews
         /\ \A a \in Browsers \ {b} : Undelivered(a)' = Undelivered(a)
         /\ Undelivered(b) \subseteq Undelivered(b)' \cup {Head(inbox[b])}
<1> DEFINE old == inbox[b]
<1>1. /\ old \in Seq(News) /\ old # <<>> /\ inbox'[b] = Tail(old)
      /\ \A a \in Browsers \ {b} : inbox'[a] = inbox[a]
  BY DEF Receive
<1>2. Head(old) \in News /\ Tail(old) \in Seq(News)
  BY <1>1, HeadTailProperties
<1>3. /\ Len(old) \in Nat \ {0} /\ Len(Tail(old)) = Len(old) - 1 /\ MaxNews \in Nat
      /\ DOMAIN old = 1 .. Len(old) /\ DOMAIN Tail(old) = 1 .. Len(old) - 1
      /\ \A i \in 1 .. Len(old) - 1 : Tail(old)[i] = old[i + 1]
  BY <1>1, <1>2, LenProperties, EmptySeq, GatewayAssumption
<1>4. ASSUME NEW i \in DOMAIN old, i # 1
      PROVE  \E j \in DOMAIN Tail(old) : Tail(old)[j] = old[i]
  <2>1. i - 1 \in DOMAIN Tail(old) /\ Tail(old)[i - 1] = old[i]
    BY <1>3, <1>4
  <2> QED
    BY <2>1
<1>5. Undelivered(b) \subseteq Undelivered(b)' \cup {Head(old)}
  BY <1>1, <1>4 DEF Undelivered
<1>6. \A a \in Browsers \ {b} : Undelivered(a)' = Undelivered(a)
  BY <1>1 DEF Undelivered
<1>7. inbox' \in [Browsers -> Seq(News)]
  BY <1>2 DEF Receive
<1>8. \A a \in Browsers : Len(inbox'[a]) <= MaxNews
  BY <1>1, <1>3
<1> QED
  BY <1>2, <1>5, <1>6, <1>7, <1>8

-----------------------------------------------------------------------------
(***************************************************************************)
(* What keeps each part of the invariant.                                  *)
(***************************************************************************)
OthersStay(k) == \A j \in Slots \ {k} : call'[j] = call[j]

LEMMA CallsKept ==
  ASSUME CallsFit, CallsEntitled, NEW k \in Slots, OthersStay(k),
         entitled \subseteq entitled', CallFits(k)', CallEntitled(k)'
  PROVE  CallsFit' /\ CallsEntitled'
<1> SUFFICES ASSUME NEW j \in Slots, j # k PROVE CallFits(j)' /\ CallEntitled(j)'
  BY DEF CallsFit, CallsEntitled
<1>1. call'[j] = call[j]
  BY DEF OthersStay
<1> QED
  BY <1>1 DEF CallsFit, CallsEntitled, CallFits, CallEntitled

LEMMA UnsaidKept ==
  ASSUME NEW k \in Slots, OthersStay(k), call[k].pc # "served", ended' = ended, NEW s, Unsaid(s)
  PROVE  Unsaid(s)'
<1>1. CASE \E j \in Slots : call[j].pc = "served" /\ call[j].seat = s
  BY <1>1 DEF OthersStay, Unsaid
<1>2. CASE \E e \in ended : ~e.told /\ e.seat = s
  BY <1>2 DEF Unsaid
<1> QED
  BY <1>1, <1>2 DEF Unsaid

LEMMA ExplainedKept ==
  ASSUME ViewExplained, view' = view, astray \subseteq astray',
         \A s \in Seats : seat'[s].status = seat[s].status,
         \A b \in Browsers, s \in Seats : Coming(b, s) => Coming(b, s)'
  PROVE  ViewExplained'
  BY DEF ViewExplained, Shows

(* A new call, whoever sends it. *)
LEMMA SendKeeps ==
  ASSUME SeatMapInv, NEW k \in Slots, NEW c \in Call({{}}), Send(k, c),
         c.kind \in Kinds, c.user \in Users \cup {Guest}, c.seat \in Seats,
         c.kind = "release" => <<c.user, c.seat>> \in entitled,
         calls' \in 0 .. MaxCalls,
         UNCHANGED <<inbox, user, seat, ended, page, entitled, astray>>
  PROVE  SeatMapInv'
<1>2. call \in CallType
  BY DEF SeatMapInv, SeatMapTypeOK, GatewayTypeOK, CallType
<1>3. /\ call' \in CallType /\ call[k].pc = "idle" /\ OthersStay(k)
      /\ call'[k] = [c EXCEPT !.pc = "sent"]
  BY <1>2, CallSent DEF OthersStay
<1>4. /\ call'[k].pc = "sent" /\ call'[k].kind = c.kind /\ call'[k].user = c.user
      /\ call'[k].seat = c.seat
  BY <1>3 DEF Call
<1>5. SeatMapTypeOK'
  BY <1>3 DEF SeatMapInv, SeatMapTypeOK, GatewayTypeOK, CallType, page
<1>6. CallsFit' /\ CallsEntitled'
  BY <1>3, <1>4, CallsKept DEF SeatMapInv, CallFits, CallEntitled
<1>7. HeldSeatWasGranted'
  BY DEF SeatMapInv, HeldSeatWasGranted, page
<1>8. \A r \in Seats : Unsaid(r) => Unsaid(r)'
  BY <1>3, UnsaidKept
<1>9. ViewExplained'
  BY <1>8, ExplainedKept DEF SeatMapInv, Coming, Undelivered, page
<1> QED
  BY <1>5, <1>6, <1>7, <1>9 DEF SeatMapInv

(* A call that gets an answer, or is over, without having been served. *)
LEMMA AnswerKeeps ==
  ASSUME SeatMapInv, NEW k \in Slots, call[k].pc # "served",
         \/ \E result \in {"refused", "lost"} : Reply(k, result, {}) /\ call[k].pc # "idle"
         \/ Done(k),
         UNCHANGED <<inbox, user, seat, ended, page, entitled, astray, calls>>
  PROVE  SeatMapInv'
<1>1. call \in CallType
  BY DEF SeatMapInv, SeatMapTypeOK, GatewayTypeOK, CallType
<1>2. call' \in CallType /\ OthersStay(k) /\ CallFits(k)' /\ CallEntitled(k)'
  <2>1. CASE Done(k)
    BY <1>1, <2>1, CallDone DEF OthersStay, CallFits, CallEntitled
  <2>2. CASE \E result \in {"refused", "lost"} : Reply(k, result, {}) /\ call[k].pc # "idle"
    <3>1. PICK result \in {"refused", "lost"} : Reply(k, result, {}) /\ call[k].pc # "idle"
      BY <2>2
    <3>2. /\ call' \in CallType /\ OthersStay(k)
          /\ call'[k] = [call[k] EXCEPT !.pc = "answered", !.result = result, !.data = {}]
      BY <1>1, <3>1, CallAnswered DEF OthersStay, Results
    <3>3. /\ call'[k].pc = "answered" /\ call'[k].result = result
          /\ call'[k].kind = call[k].kind /\ call'[k].user = call[k].user
          /\ call'[k].seat = call[k].seat
      BY <1>1, <3>2 DEF CallType, Call
    <3> QED
      BY <3>1, <3>2, <3>3 DEF CallFits, CallEntitled, SeatMapInv, CallsFit
  <2> QED
    BY <2>1, <2>2
<1>3. SeatMapTypeOK'
  BY <1>2 DEF SeatMapInv, SeatMapTypeOK, GatewayTypeOK, CallType, page
<1>4. CallsFit' /\ CallsEntitled'
  BY <1>2, CallsKept DEF SeatMapInv
<1>5. HeldSeatWasGranted'
  BY DEF SeatMapInv, HeldSeatWasGranted, page
<1>6. \A r \in Seats : Unsaid(r) => Unsaid(r)'
  BY <1>2, UnsaidKept
<1>7. ViewExplained'
  BY <1>6, ExplainedKept DEF SeatMapInv, Coming, Undelivered, page
<1> QED
  BY <1>3, <1>4, <1>5, <1>7 DEF SeatMapInv

-----------------------------------------------------------------------------
(***************************************************************************)
(* The inventory's steps.  A row that a call or an order changes is still  *)
(* to be announced, and a silent change is recorded as such.               *)
(***************************************************************************)
LEMMA ChangeKeeps ==
  ASSUME SeatMapTypeOK, ViewExplained, NEW s \in Seats, NEW row \in Row,
         \/ Changed(s, row) /\ Unsaid(s)'
         \/ ChangedSilently(s, row),
         UNCHANGED <<inbox, page>>,
         \A r \in Seats : Unsaid(r) => Unsaid(r)'
  PROVE  ViewExplained' /\ seat' \in [Seats -> Row] /\ astray' \subseteq Browsers \X Seats
<1>1. /\ seat' = [seat EXCEPT ![s] = row] /\ seat \in [Seats -> Row]
      /\ view' = view /\ view \in [Browsers -> [Seats -> Seat \cup {"ABSENT"}]]
      /\ astray \subseteq Browsers \X Seats
  BY DEF Changed, ChangedSilently, SeatMapTypeOK, page
<1>2. seat' \in [Seats -> Row] /\ seat'[s] = row /\ \A r \in Seats \ {s} : seat'[r] = seat[r]
  BY <1>1
<1>3. ASSUME NEW b \in Browsers, NEW r \in Seats, r # s, <<b, r>> \in astray PROVE <<b, r>> \in astray'
  BY <1>3 DEF Changed, ChangedSilently
<1>4. astray' \subseteq Browsers \X Seats
  BY <1>1 DEF Changed, ChangedSilently
<1>5. ASSUME NEW b \in Browsers, NEW r \in Seats
      PROVE  Shows(b, r)' \/ <<b, r>> \in astray' \/ Coming(b, r)'
  <2>1. Coming(b, r) => Coming(b, r)'
    BY DEF Coming, Undelivered
  <2>2. CASE r # s
    BY <1>1, <1>2, <1>3, <2>1, <2>2 DEF ViewExplained, Shows
  <2>3. CASE r = s /\ Unsaid(s)'
    BY <2>3 DEF Coming
  <2>4. CASE r = s /\ ChangedSilently(s, row)
    BY <1>1, <1>2, <2>4 DEF ChangedSilently, Shows
  <2> QED
    BY <2>2, <2>3, <2>4
<1> QED
  BY <1>2, <1>4, <1>5 DEF ViewExplained

LEMMA ServedKeeps ==
  ASSUME SeatMapInv, NEW k \in Slots, call[k].pc = "sent", Becomes(k, "served"),
         \/ \E row \in Row : Changed(call[k].seat, row)
         \/ UNCHANGED <<seat, astray>>,
         entitled \subseteq entitled', entitled' \subseteq (Users \cup {Guest}) \X Seats,
         call[k].kind = "hold" => <<call[k].user, call[k].seat>> \in entitled',
         UNCHANGED <<inbox, user, ended, page, calls>>
  PROVE  SeatMapInv'
<1>1. call \in CallType
  BY DEF SeatMapInv, SeatMapTypeOK, GatewayTypeOK, CallType
<1>2. call' \in CallType /\ OthersStay(k) /\ call'[k] = [call[k] EXCEPT !.pc = "served"]
  BY <1>1, CallServed DEF OthersStay
<1>3. /\ call'[k].pc = "served" /\ call'[k].kind = call[k].kind
      /\ call'[k].user = call[k].user /\ call'[k].seat = call[k].seat
  BY <1>1, <1>2 DEF CallType, Call
<1>4. CallsFit' /\ CallsEntitled'
  BY <1>2, <1>3, CallsKept DEF SeatMapInv, CallsFit, CallFits, CallEntitled
<1>5. \A r \in Seats : r = call[k].seat => Unsaid(r)'
  BY <1>3 DEF Unsaid
<1>6. \A r \in Seats : Unsaid(r) => Unsaid(r)'
  BY <1>2, UnsaidKept
<1>7. call[k].seat \in Seats
  BY DEF SeatMapInv, CallsFit, CallFits
<1>8. ViewExplained' /\ seat' \in [Seats -> Row] /\ astray' \subseteq Browsers \X Seats
  <2>1. CASE \E row \in Row : Changed(call[k].seat, row)
    <3>1. PICK row \in Row, s \in Seats : s = call[k].seat /\ Changed(s, row)
      BY <1>7, <2>1
    <3>2. SeatMapTypeOK /\ ViewExplained /\ UNCHANGED <<inbox, page>>
      BY DEF SeatMapInv
    <3> QED
      BY <1>5, <1>6, <3>1, <3>2, ChangeKeeps
  <2>2. CASE UNCHANGED <<seat, astray>>
    <3>1. ViewExplained'
      BY <1>6, <2>2, ExplainedKept DEF SeatMapInv, Coming, Undelivered, page
    <3> QED
      BY <2>2, <3>1 DEF SeatMapInv, SeatMapTypeOK
  <2> QED
    BY <2>1, <2>2
<1>9. SeatMapTypeOK'
  BY <1>2, <1>8 DEF SeatMapInv, SeatMapTypeOK, GatewayTypeOK, CallType, page
<1>10. HeldSeatWasGranted'
  BY DEF SeatMapInv, HeldSeatWasGranted, page
<1> QED
  BY <1>4, <1>8, <1>9, <1>10 DEF SeatMapInv

LEMMA ServeKeeps ==
  ASSUME SeatMapInv, NEW k \in Slots, ServeHold(k) \/ ServeRelease(k) \/ ServeResale(k),
         UNCHANGED calls
  PROVE  SeatMapInv'
<1> USE DEF At
<1>1. call[k].pc = "sent"
  BY DEF ServeHold, ServeRelease, ServeResale
<1>2. call[k].user \in Users \cup {Guest} /\ call[k].seat \in Seats
  BY <1>1 DEF SeatMapInv, CallsFit, CallFits
<1>3. Free \in Row
  BY DEF Free, Row, Seat
<1>4. CASE ServeHold(k) /\ Takeable(call[k].seat)
  <2>1. [status |-> "HELD", holder |-> call[k].user, out |-> FALSE] \in Row
    BY <1>2 DEF Row, Seat
  <2>2. entitled' = entitled \cup {<<call[k].user, call[k].seat>>}
    BY <1>4 DEF ServeHold
  <2>3. entitled' \subseteq (Users \cup {Guest}) \X Seats
    BY <1>2, <2>2 DEF SeatMapInv, SeatMapTypeOK
  <2> QED
    BY <1>1, <1>4, <2>1, <2>2, <2>3, ServedKeeps DEF ServeHold
<1>5. CASE ServeHold(k) /\ ~Takeable(call[k].seat)
  BY <1>1, <1>5, AnswerKeeps DEF ServeHold
<1>6. CASE ServeRelease(k)
  BY <1>1, <1>3, <1>6, ServedKeeps DEF ServeRelease, SeatMapInv, SeatMapTypeOK
<1>7. CASE ServeResale(k)
  BY <1>1, <1>3, <1>7, ServedKeeps DEF ServeResale, SeatMapInv, SeatMapTypeOK
<1> QED
  BY <1>4, <1>5, <1>6, <1>7

(* A broadcast turns what was unsaid into news to everybody. *)
LEMMA SeatNewsIsNews ==
  ASSUME NEW s \in Seats, NEW status \in Seat
  PROVE  /\ <<SeatNews(s, status)>> \in Seq(News)
         /\ SeatNews(s, status).about = "seat" /\ SeatNews(s, status).seat = s
  BY DEF SeatNews, News

LEMMA AnnounceCallKeeps ==
  ASSUME SeatMapInv, NEW k \in Slots, AnnounceCall(k), UNCHANGED calls
  PROVE  SeatMapInv'
<1> DEFINE status == IF call[k].kind = "hold" THEN "HELD" ELSE "AVAILABLE"
           n == SeatNews(call[k].seat, status)
<1>1. call \in CallType /\ inbox \in [Browsers -> Seq(News)]
  BY DEF SeatMapInv, SeatMapTypeOK, GatewayTypeOK, CallType
<1>2. call[k].pc = "served" /\ Broadcast(<<n>>) /\ Reply(k, "ok", {})
  BY DEF AnnounceCall
<1>3. /\ call' \in CallType /\ OthersStay(k)
      /\ call'[k] = [call[k] EXCEPT !.pc = "answered", !.result = "ok", !.data = {}]
  BY <1>1, <1>2, CallAnswered DEF OthersStay, Results
<1>4. /\ call'[k].pc = "answered" /\ call'[k].kind = call[k].kind
      /\ call'[k].user = call[k].user /\ call'[k].seat = call[k].seat
  BY <1>1, <1>3 DEF CallType, Call
<1>5. UNCHANGED <<user, seat, ended, page, entitled, astray, calls>>
  BY DEF AnnounceCall
<1>6. CallsFit' /\ CallsEntitled'
  <2>1. call[k].pc = "served" /\ entitled' = entitled
    BY <1>2, <1>5
  <2>2. CallFits(k) /\ CallEntitled(k)
    BY DEF SeatMapInv, CallsFit, CallsEntitled
  <2>3. CallFits(k)'
    BY <1>4, <2>1, <2>2 DEF CallFits
  <2>4. CallEntitled(k)'
    BY <1>4, <2>1, <2>2 DEF CallEntitled
  <2> QED
    BY <1>3, <1>5, <2>3, <2>4, CallsKept DEF SeatMapInv
<1>7. <<n>> \in Seq(News) /\ n.about = "seat" /\ n.seat = call[k].seat
  <2>1. call[k].seat \in Seats /\ status \in Seat
    BY <1>2 DEF SeatMapInv, CallsFit, CallFits, Seat
  <2> QED
    BY <2>1, SeatNewsIsNews
<1>8. /\ inbox' \in [Browsers -> Seq(News)]
      /\ \A b \in Browsers : /\ Len(inbox'[b]) <= MaxNews
                             /\ Undelivered(b) \subseteq Undelivered(b)'
                             /\ n \in Undelivered(b)'
  <2> HIDE DEF n
  <2>1. 1 \in DOMAIN <<n>> /\ <<n>>[1] = n
    OBVIOUS
  <2> QED
    BY <1>1, <1>2, <1>7, <2>1, BroadcastAdds
<1>9. SeatMapTypeOK'
  BY <1>3, <1>5, <1>8 DEF SeatMapInv, SeatMapTypeOK, GatewayTypeOK, CallType, page
<1>10. HeldSeatWasGranted'
  BY <1>5 DEF SeatMapInv, HeldSeatWasGranted, page
<1>11. ASSUME NEW b \in Browsers, NEW s \in Seats, Coming(b, s) PROVE Coming(b, s)'
  <2>1. CASE s = call[k].seat
    BY <1>7, <1>8, <2>1 DEF Coming
  <2>2. CASE s # call[k].seat
    BY <1>3, <1>5, <1>8, <1>11, <2>2 DEF Coming, Unsaid, OthersStay
  <2> QED
    BY <2>1, <2>2
<1>12. ViewExplained'
  BY <1>5, <1>11, ExplainedKept DEF SeatMapInv, page
<1> QED
  BY <1>6, <1>9, <1>10, <1>12 DEF SeatMapInv

LEMMA CallStepKeeps ==
  ASSUME SeatMapInv, NEW k \in Slots, CallStep(k), UNCHANGED calls
  PROVE  SeatMapInv'
<1>1. CASE ServeHold(k) \/ ServeRelease(k) \/ ServeResale(k)
  BY <1>1, ServeKeeps
<1>2. CASE AnnounceCall(k)
  BY <1>2, AnnounceCallKeeps
<1>3. CASE /\ Refuse(k) \/ LoseCall(k) \/ OutsideAnswer(k)
           /\ UNCHANGED <<inbox, user, seat, ended, page, entitled, astray>>
  BY <1>3, AnswerKeeps DEF Refuse, LoseCall, OutsideAnswer
<1> QED
  BY <1>1, <1>2, <1>3 DEF CallStep

(* Steps that leave calls, sessions and held seats alone. *)
LEMMA CallsRest ==
  ASSUME SeatMapInv, UNCHANGED <<call, user, held, entitled>>
  PROVE  CallsFit' /\ CallsEntitled' /\ HeldSeatWasGranted'
  BY DEF SeatMapInv, CallsFit, CallFits, CallsEntitled, CallEntitled, HeldSeatWasGranted

LEMMA HoldRunsOutKeeps ==
  ASSUME SeatMapInv, NEW s \in Seats, HoldRunsOut(s), UNCHANGED calls
  PROVE  SeatMapInv'
<1>1. UNCHANGED <<call, inbox, user, ended, page, entitled, astray, calls>>
  BY DEF HoldRunsOut
<1>2. seat \in [Seats -> Row] /\ seat' = [seat EXCEPT ![s].out = TRUE]
  BY DEF HoldRunsOut, SeatMapInv, SeatMapTypeOK
<1>3. seat' \in [Seats -> Row] /\ \A r \in Seats : seat'[r].status = seat[r].status
  BY <1>2 DEF Row
<1>4. SeatMapTypeOK'
  BY <1>1, <1>3 DEF SeatMapInv, SeatMapTypeOK, GatewayTypeOK, page
<1>5. ViewExplained'
  BY <1>1, <1>3, ExplainedKept DEF SeatMapInv, Coming, Undelivered, Unsaid, page
<1> QED
  BY <1>1, <1>4, <1>5, CallsRest DEF SeatMapInv, page

LEMMA SweepKeeps ==
  ASSUME SeatMapInv, NEW s \in Seats, Sweep(s), UNCHANGED calls
  PROVE  SeatMapInv'
<1>1. /\ UNCHANGED <<call, inbox, user, ended, page, entitled, calls>>
      /\ ChangedSilently(s, Free)
  BY DEF Sweep
<1>2. Free \in Row
  BY DEF Free, Row, Seat
<1>3. \A r \in Seats : Unsaid(r) => Unsaid(r)'
  BY <1>1 DEF Unsaid
<1>4. ViewExplained' /\ seat' \in [Seats -> Row] /\ astray' \subseteq Browsers \X Seats
  BY <1>1, <1>2, <1>3, ChangeKeeps DEF SeatMapInv
<1>5. SeatMapTypeOK'
  BY <1>1, <1>4 DEF SeatMapInv, SeatMapTypeOK, GatewayTypeOK, page
<1> QED
  BY <1>1, <1>4, <1>5, CallsRest DEF SeatMapInv, page

End == [order : OrderIds, user : Users \cup {Guest}, seat : Seats, paid : BOOLEAN, told : BOOLEAN]

LEMMA OrderEndsKeeps ==
  ASSUME SeatMapInv, NEW o \in OrderIds, OrderEnds(o), UNCHANGED calls
  PROVE  SeatMapInv'
<1>1. UNCHANGED <<call, inbox, user, page, entitled, calls>>
  BY DEF OrderEnds
<1>2. PICK p \in entitled, paid \in BOOLEAN :
        /\ ended' = ended \cup
             {[order |-> o, user |-> p[1], seat |-> p[2], paid |-> paid, told |-> FALSE]}
        /\ \/ Changed(p[2], [status |-> "SOLD", holder |-> p[1], out |-> FALSE])
           \/ Changed(p[2], Free)
           \/ UNCHANGED <<seat, astray>>
  BY DEF OrderEnds
<1>3. p[1] \in Users \cup {Guest} /\ p[2] \in Seats
  BY DEF SeatMapInv, SeatMapTypeOK
<1> DEFINE e == [order |-> o, user |-> p[1], seat |-> p[2], paid |-> paid, told |-> FALSE]
<1>4. e \in End /\ e.seat = p[2] /\ ~e.told /\ ended' = ended \cup {e}
  BY <1>2, <1>3 DEF End
<1> HIDE DEF e
<1>5. Unsaid(p[2])' /\ \A r \in Seats : Unsaid(r) => Unsaid(r)'
  BY <1>1, <1>4 DEF Unsaid
<1>6. ViewExplained' /\ seat' \in [Seats -> Row] /\ astray' \subseteq Browsers \X Seats
  <2>1. Free \in Row /\ [status |-> "SOLD", holder |-> p[1], out |-> FALSE] \in Row
    BY <1>3 DEF Free, Row, Seat
  <2>2. CASE \/ Changed(p[2], [status |-> "SOLD", holder |-> p[1], out |-> FALSE])
             \/ Changed(p[2], Free)
    <3>1. PICK row \in Row : Changed(p[2], row)
      BY <2>1, <2>2
    <3>2. SeatMapTypeOK /\ ViewExplained /\ UNCHANGED <<inbox, page>>
      BY <1>1 DEF SeatMapInv
    <3> QED
      BY <1>3, <1>5, <3>1, <3>2, ChangeKeeps
  <2>3. CASE UNCHANGED <<seat, astray>>
    <3>1. ViewExplained'
      BY <1>1, <1>5, <2>3, ExplainedKept DEF SeatMapInv, Coming, Undelivered, page
    <3> QED
      BY <2>3, <3>1 DEF SeatMapInv, SeatMapTypeOK
  <2> QED
    BY <1>2, <2>2, <2>3
<1>7. SeatMapTypeOK'
  BY <1>1, <1>4, <1>6 DEF SeatMapInv, SeatMapTypeOK, GatewayTypeOK, page, End
<1> QED
  BY <1>1, <1>6, <1>7, CallsRest DEF SeatMapInv, page

LEMMA AnnounceEndKeeps ==
  ASSUME SeatMapInv, NEW o \in OrderIds, AnnounceEnd(o), UNCHANGED calls
  PROVE  SeatMapInv'
<1>1. UNCHANGED <<call, user, seat, page, entitled, astray, calls>>
  BY DEF AnnounceEnd
<1>2. PICK e \in ended :
        /\ e.order = o /\ ended' = (ended \ {e}) \cup {[e EXCEPT !.told = TRUE]}
        /\ Broadcast(<< SeatNews(e.seat, IF e.paid THEN "SOLD" ELSE "AVAILABLE"),
                        OrderNews(o, e.seat, IF e.paid THEN "COMPLETED" ELSE "CANCELLED") >>)
  BY DEF AnnounceEnd
<1>3. e \in End /\ ended \subseteq End /\ inbox \in [Browsers -> Seq(News)]
  BY DEF SeatMapInv, SeatMapTypeOK, GatewayTypeOK, End
<1>4. ended' \subseteq End
  <2>1. [e EXCEPT !.told = TRUE] \in End
    BY <1>3 DEF End
  <2> QED
    BY <1>2, <1>3, <2>1
<1> DEFINE n == SeatNews(e.seat, IF e.paid THEN "SOLD" ELSE "AVAILABLE")
           m == OrderNews(o, e.seat, IF e.paid THEN "COMPLETED" ELSE "CANCELLED")
<1>5. n \in News /\ m \in News /\ n.about = "seat" /\ n.seat = e.seat
  BY <1>3 DEF End, SeatNews, OrderNews, News, Seat, Ended
<1>6. /\ inbox' \in [Browsers -> Seq(News)]
      /\ \A b \in Browsers : /\ Len(inbox'[b]) <= MaxNews
                             /\ Undelivered(b) \subseteq Undelivered(b)'
                             /\ n \in Undelivered(b)'
  <2>1. Broadcast(<<n, m>>)
    BY <1>2
  <2> HIDE DEF n, m
  <2>2. <<n, m>> \in Seq(News) /\ 1 \in DOMAIN <<n, m>> /\ <<n, m>>[1] = n
    BY <1>5
  <2> QED
    BY <1>3, <2>1, <2>2, BroadcastAdds
<1>7. ASSUME NEW b \in Browsers, NEW s \in Seats, Coming(b, s) PROVE Coming(b, s)'
  <2>1. CASE s = e.seat
    BY <1>5, <1>6, <2>1 DEF Coming
  <2>2. CASE s # e.seat
    <3>1. Unsaid(s) => Unsaid(s)'
      BY <1>1, <1>2, <2>2 DEF Unsaid
    <3> QED
      BY <1>6, <1>7, <3>1 DEF Coming
  <2> QED
    BY <2>1, <2>2
<1>8. ViewExplained'
  BY <1>1, <1>7, ExplainedKept DEF SeatMapInv, page
<1>9. SeatMapTypeOK'
  BY <1>1, <1>4, <1>6 DEF SeatMapInv, SeatMapTypeOK, GatewayTypeOK, page, End
<1> QED
  BY <1>1, <1>8, <1>9, CallsRest DEF SeatMapInv, page

-----------------------------------------------------------------------------
(***************************************************************************)
(* The page's loads and writes: each is right, or recorded as astray.      *)
(***************************************************************************)
LEMMA ShowExplains ==
  ASSUME SeatMapTypeOK, ViewExplained, NEW b \in Browsers, NEW s \in Seats, NEW status \in Seat,
         Show(b, s, status), seat' = seat,
         \A a \in Browsers, r \in Seats : Coming(a, r) => Coming(a, r)' \/ (a = b /\ r = s)
  PROVE  /\ ViewExplained'
         /\ view' \in [Browsers -> [Seats -> Seat \cup {"ABSENT"}]]
         /\ astray' \subseteq Browsers \X Seats
<1>1. view \in [Browsers -> [Seats -> Seat \cup {"ABSENT"}]] /\ astray \subseteq Browsers \X Seats
  BY DEF SeatMapTypeOK
<1>2. CASE view[b][s] = "ABSENT"
  <2>1. UNCHANGED <<view, astray>>
    BY <1>2 DEF Show
  <2> QED
    BY <1>1, <1>2, <2>1 DEF ViewExplained, Shows
<1>3. CASE view[b][s] # "ABSENT"
  <2>1. /\ view' = [view EXCEPT ![b][s] = status]
        /\ astray' = IF status = seat[s].status THEN astray \ {<<b, s>>} ELSE astray \cup {<<b, s>>}
    BY <1>3 DEF Show
  <2>2. view' \in [Browsers -> [Seats -> Seat \cup {"ABSENT"}]] /\ astray' \subseteq Browsers \X Seats
    BY <1>1, <2>1
  <2>3. view'[b][s] = status
    BY <1>1, <2>1
  <2>4. ASSUME NEW a \in Browsers, NEW r \in Seats, ~(a = b /\ r = s)
        PROVE  view'[a][r] = view[a][r] /\ (<<a, r>> \in astray <=> <<a, r>> \in astray')
    BY <1>1, <2>1, <2>4
  <2>5. status = seat[s].status \/ <<b, s>> \in astray'
    BY <2>1
  <2> QED
    BY <2>2, <2>3, <2>4, <2>5 DEF ViewExplained, Shows
<1> QED
  BY <1>2, <1>3

(* The answer to a call is handled: the page shows a seat, and holds one or *)
(* none.                                                                    *)
LEMMA WriteKeeps ==
  ASSUME SeatMapInv, NEW b \in Browsers, NEW k \in Slots, call[k].pc # "served", Done(k),
         NEW s \in Seats, NEW status \in Seat, Show(b, s, status),
         NEW h \in Seats \cup {None}, SetHeld(b, h),
         entitled \subseteq entitled', entitled' \subseteq (Users \cup {Guest}) \X Seats,
         h # None => <<user[b], h>> \in entitled',
         UNCHANGED <<inbox, user, seat, ended, loading, calls>>
  PROVE  SeatMapInv'
<1>1. call \in CallType /\ held \in [Browsers -> Seats \cup {None}]
  BY DEF SeatMapInv, SeatMapTypeOK, GatewayTypeOK, CallType
<1>2. call' \in CallType /\ OthersStay(k) /\ CallFits(k)' /\ CallEntitled(k)'
  BY <1>1, CallDone DEF OthersStay, CallFits, CallEntitled
<1>3. CallsFit' /\ CallsEntitled'
  BY <1>2, CallsKept DEF SeatMapInv
<1>4. \A r \in Seats : Unsaid(r) => Unsaid(r)'
  BY <1>2, UnsaidKept
<1>5. /\ ViewExplained'
      /\ view' \in [Browsers -> [Seats -> Seat \cup {"ABSENT"}]]
      /\ astray' \subseteq Browsers \X Seats
  <2>1. \A a \in Browsers, r \in Seats : Coming(a, r) => Coming(a, r)'
    BY <1>4 DEF Coming, Undelivered
  <2> QED
    BY <2>1, ShowExplains DEF SeatMapInv
<1>6. held' \in [Browsers -> Seats \cup {None}] /\ HeldSeatWasGranted'
  BY <1>1 DEF SetHeld, SeatMapInv, HeldSeatWasGranted
<1>7. SeatMapTypeOK'
  BY <1>2, <1>5, <1>6 DEF SeatMapInv, SeatMapTypeOK, GatewayTypeOK, CallType
<1> QED
  BY <1>3, <1>5, <1>6, <1>7 DEF SeatMapInv

LEMMA AnswersKeep ==
  ASSUME SeatMapInv, NEW b \in Browsers, NEW k \in Slots,
         \/ HoldAnswered(b, k) \/ ReleaseAnswered(b, k) \/ PayTimer(b, k) \/ ResaleAnswered(b, k),
         UNCHANGED calls
  PROVE  SeatMapInv'
<1> USE DEF Back, At
<1>1. call[k].pc \in {"sent", "answered"}
  BY DEF HoldAnswered, ReleaseAnswered, PayTimer, ResaleAnswered
<1>2. PICK s \in Seats : s = call[k].seat
  BY <1>1 DEF SeatMapInv, CallsFit, CallFits
<1>3. /\ {"AVAILABLE", "HELD", "SOLD"} \subseteq Seat /\ call[k].user \in Users \cup {Guest}
      /\ user[b] \in Users \cup {Guest} /\ entitled \subseteq (Users \cup {Guest}) \X Seats
  BY <1>1, GatewayAssumption
     DEF Seat, SeatMapInv, SeatMapTypeOK, GatewayTypeOK, Sessions, CallsFit, CallFits
<1>4. CASE HoldAnswered(b, k) /\ call[k].result = "refused"
  BY <1>1, <1>4, AnswerKeeps DEF HoldAnswered, ShowNothing, page
<1>5. CASE HoldAnswered(b, k) /\ call[k].result # "refused"
  <2>1. /\ SetHeld(b, s) /\ Show(b, s, "HELD") /\ Done(k)
        /\ entitled' = IF call[k].result = "ok" /\ user[b] = call[k].user THEN entitled
                       ELSE entitled \cup {<<user[b], s>>}
        /\ UNCHANGED <<inbox, user, seat, ended, loading>>
    BY <1>2, <1>5 DEF HoldAnswered
  <2>2. call[k].result = "ok" => <<call[k].user, s>> \in entitled
    BY <1>2, <1>5 DEF HoldAnswered, SeatMapInv, CallsEntitled, CallEntitled
  <2>3. /\ entitled \subseteq entitled' /\ entitled' \subseteq (Users \cup {Guest}) \X Seats
        /\ <<user[b], s>> \in entitled'
    BY <1>3, <2>1, <2>2
  <2> QED
    BY <1>1, <1>3, <2>1, <2>3, WriteKeeps
<1>6. CASE ReleaseAnswered(b, k)
  <2>1. /\ SetHeld(b, None) /\ Show(b, s, "AVAILABLE") /\ Done(k)
        /\ UNCHANGED <<inbox, user, seat, ended, loading, entitled>>
    BY <1>2, <1>6 DEF ReleaseAnswered
  <2> QED
    BY <1>1, <1>3, <2>1, WriteKeeps
<1>7. CASE PayTimer(b, k)
  <2>1. Done(k) /\ UNCHANGED <<inbox, user, seat, ended, loading, entitled>>
    BY <1>7 DEF PayTimer
  <2>2. \/ Show(b, s, "AVAILABLE") /\ SetHeld(b, None)
        \/ Show(b, s, "SOLD") /\ SetHeld(b, None)
        \/ ShowNothing /\ UNCHANGED held
    BY <1>2, <1>7 DEF PayTimer
  <2>3. CASE ShowNothing /\ UNCHANGED held
    BY <1>1, <2>1, <2>3, AnswerKeeps DEF ShowNothing, page
  <2>4. CASE \E status \in Seat : Show(b, s, status) /\ SetHeld(b, None)
    BY <1>1, <1>3, <2>1, <2>4, WriteKeeps
  <2> QED
    BY <1>3, <2>2, <2>3, <2>4
<1>8. CASE ResaleAnswered(b, k)
  BY <1>1, <1>8, AnswerKeeps DEF ResaleAnswered
<1> QED
  BY <1>4, <1>5, <1>6, <1>7, <1>8

LEMMA HandleNewsKeeps ==
  ASSUME SeatMapInv, NEW b \in Browsers, HandleNews(b), UNCHANGED calls
  PROVE  SeatMapInv'
<1> DEFINE n == Head(inbox[b])
<1>1. UNCHANGED <<call, user, seat, ended, loading, entitled, calls>> /\ Receive(b)
  BY DEF HandleNews
<1>2. /\ inbox \in [Browsers -> Seq(News)] /\ \A a \in Browsers : Len(inbox[a]) <= MaxNews
      /\ held \in [Browsers -> Seats \cup {None}]
  BY DEF SeatMapInv, SeatMapTypeOK, GatewayTypeOK
<1>3. /\ inbox' \in [Browsers -> Seq(News)] /\ n \in News
      /\ \A a \in Browsers : Len(inbox'[a]) <= MaxNews
      /\ \A a \in Browsers \ {b} : Undelivered(a)' = Undelivered(a)
      /\ Undelivered(b) \subseteq Undelivered(b)' \cup {n}
  BY <1>1, <1>2, ReceiveTakes
<1>4. PICK m \in News : m = n
  BY <1>3
<1>5. \/ /\ m.about = "seat" /\ Show(b, m.seat, m.status)
         /\ SetHeld(b, None) \/ UNCHANGED held
      \/ m.about # "seat" /\ SetHeld(b, None) /\ ShowNothing
  BY <1>4 DEF HandleNews
<1>6. \A s \in Seats : Unsaid(s) = Unsaid(s)'
  BY <1>1 DEF Unsaid
<1>7. held' \in [Browsers -> Seats \cup {None}] /\ HeldSeatWasGranted'
  BY <1>1, <1>2, <1>5 DEF SetHeld, SeatMapInv, HeldSeatWasGranted
<1>8. ASSUME NEW a \in Browsers, NEW s \in Seats, Coming(a, s),
             ~(a = b /\ m.about = "seat" /\ m.seat = s)
      PROVE  Coming(a, s)'
  BY <1>3, <1>4, <1>6, <1>8 DEF Coming
<1>9. /\ ViewExplained'
      /\ view' \in [Browsers -> [Seats -> Seat \cup {"ABSENT"}]]
      /\ astray' \subseteq Browsers \X Seats
  <2>1. CASE m.about = "seat"
    <3>1. m.seat \in Seats /\ m.status \in Seat
      BY <2>1 DEF News
    <3> QED
      BY <1>1, <1>5, <1>8, <2>1, <3>1, ShowExplains DEF SeatMapInv
  <2>2. CASE m.about # "seat"
    <3>1. UNCHANGED <<view, astray>>
      BY <1>5, <2>2 DEF ShowNothing
    <3>2. ViewExplained'
      BY <1>1, <1>8, <2>2, <3>1, ExplainedKept DEF SeatMapInv
    <3> QED
      BY <3>1, <3>2 DEF SeatMapInv, SeatMapTypeOK
  <2> QED
    BY <2>1, <2>2
<1>10. SeatMapTypeOK'
  BY <1>1, <1>3, <1>7, <1>9 DEF SeatMapInv, SeatMapTypeOK, GatewayTypeOK
<1>11. CallsFit' /\ CallsEntitled'
  BY <1>1 DEF SeatMapInv, CallsFit, CallFits, CallsEntitled, CallEntitled
<1> QED
  BY <1>7, <1>9, <1>10, <1>11 DEF SeatMapInv

LEMMA ShowAllKeeps ==
  ASSUME SeatMapInv, NEW b \in Browsers, NEW shown \in [Seats -> Seat \cup {"ABSENT"}],
         ShowAll(b, shown), UNCHANGED calls
  PROVE  SeatMapInv'
<1>1. /\ view' = [view EXCEPT ![b] = shown] /\ loading' = [loading EXCEPT ![b] = Loaded]
      /\ astray' = {p \in astray : p[1] # b}
                     \cup {b} \X {s \in Seats : shown[s] # seat[s].status}
      /\ UNCHANGED <<call, inbox, user, seat, ended, held, entitled, calls>>
  BY DEF ShowAll
<1>2. /\ view \in [Browsers -> [Seats -> Seat \cup {"ABSENT"}]] /\ astray \subseteq Browsers \X Seats
      /\ loading \in [Browsers -> [pc : {"sent", "answered", "done"},
                                   seats : [Seats -> Seat \cup {"ABSENT"}]]]
  BY DEF SeatMapInv, SeatMapTypeOK
<1>3. /\ view' \in [Browsers -> [Seats -> Seat \cup {"ABSENT"}]] /\ astray' \subseteq Browsers \X Seats
      /\ view'[b] = shown /\ \A a \in Browsers \ {b} : view'[a] = view[a]
  BY <1>1, <1>2
<1>4. Loaded \in [pc : {"sent", "answered", "done"}, seats : [Seats -> Seat \cup {"ABSENT"}]]
  BY DEF Loaded, NoSeats
<1>5. SeatMapTypeOK'
  BY <1>1, <1>2, <1>3, <1>4 DEF SeatMapInv, SeatMapTypeOK, GatewayTypeOK
<1>6. ViewExplained'
  <2> SUFFICES ASSUME NEW a \in Browsers, NEW s \in Seats
               PROVE  Shows(a, s)' \/ <<a, s>> \in astray' \/ Coming(a, s)'
    BY DEF ViewExplained
  <2>1. CASE a = b
    BY <1>1, <1>3, <2>1 DEF Shows
  <2>2. CASE a # b
    <3>1. (<<a, s>> \in astray => <<a, s>> \in astray') /\ (Coming(a, s) => Coming(a, s)')
      BY <1>1, <2>2 DEF Coming, Unsaid, Undelivered
    <3> QED
      BY <1>1, <1>3, <2>2, <3>1 DEF SeatMapInv, ViewExplained, Shows
  <2> QED
    BY <2>1, <2>2
<1> QED
  BY <1>1, <1>5, <1>6, CallsRest DEF SeatMapInv

(* Opening a page and reading its seats changes only the request. *)
LEMMA LoadKeeps ==
  ASSUME SeatMapInv, NEW b \in Browsers, SelectEvent(b) \/ ReadSeats(b), calls' \in 0 .. MaxCalls
  PROVE  SeatMapInv'
<1> DEFINE Request == [pc : {"sent", "answered", "done"}, seats : [Seats -> Seat \cup {"ABSENT"}]]
<1>1. UNCHANGED <<call, inbox, user, seat, ended, held, view, entitled, astray>>
  BY DEF SelectEvent, ReadSeats
<1>2. loading \in [Browsers -> Request] /\ seat \in [Seats -> Row]
  BY DEF SeatMapInv, SeatMapTypeOK
<1>3. \E r \in Request : loading' = [loading EXCEPT ![b] = r]
  <2>1. Asked \in Request
    BY DEF Asked, NoSeats
  <2>2. [pc |-> "answered", seats |-> [s \in Seats |-> seat[s].status]] \in Request
    BY <1>2 DEF Row
  <2> QED
    BY <2>1, <2>2 DEF SelectEvent, ReadSeats
<1>4. loading' \in [Browsers -> Request]
  BY <1>2, <1>3
<1>5. SeatMapTypeOK'
  BY <1>1, <1>4 DEF SeatMapInv, SeatMapTypeOK, GatewayTypeOK
<1>6. ViewExplained'
  BY <1>1, ExplainedKept DEF SeatMapInv, Coming, Unsaid, Undelivered
<1> QED
  BY <1>1, <1>5, <1>6, CallsRest DEF SeatMapInv

(* What the old socket had not delivered is gone with it; so every view it  *)
(* would have put right is recorded as astray.                              *)
LEMMA ChangeSessionKeeps ==
  ASSUME SeatMapInv, NEW b \in Browsers, ChangeSession(b), calls' \in 0 .. MaxCalls
  PROVE  SeatMapInv'
<1>1. PICK u \in Sessions :
        /\ SwitchUser(b, u)
        /\ entitled' = IF held[b] = None THEN entitled ELSE entitled \cup {<<u, held[b]>>}
  BY DEF ChangeSession
<1>2. /\ astray' = astray \cup {b} \X {s \in Seats : view[b][s] \notin {"ABSENT", seat[s].status}}
      /\ UNCHANGED <<call, seat, ended, page>>
  BY DEF ChangeSession
<1>3. u \in Users \cup {Guest}
  BY GatewayAssumption DEF Sessions
<1>4. /\ user \in [Browsers -> Sessions] /\ inbox \in [Browsers -> Seq(News)]
      /\ held \in [Browsers -> Seats \cup {None}] /\ entitled \subseteq (Users \cup {Guest}) \X Seats
      /\ \A a \in Browsers : Len(inbox[a]) <= MaxNews
  BY DEF SeatMapInv, SeatMapTypeOK, GatewayTypeOK
<1>5. /\ user' = [user EXCEPT ![b] = u] /\ user' \in [Browsers -> Sessions]
      /\ inbox' = [inbox EXCEPT ![b] = <<>>] /\ inbox' \in [Browsers -> Seq(News)]
  BY <1>1, <1>4 DEF SwitchUser
<1>6. \A a \in Browsers : Len(inbox'[a]) <= MaxNews
  BY <1>4, <1>5, GatewayAssumption
<1>7. entitled \subseteq entitled' /\ entitled' \subseteq (Users \cup {Guest}) \X Seats
  BY <1>1, <1>3, <1>4
<1>8. astray' \subseteq Browsers \X Seats /\ astray \subseteq astray'
  BY <1>2 DEF SeatMapInv, SeatMapTypeOK
<1>9. SeatMapTypeOK'
  BY <1>2, <1>5, <1>6, <1>7, <1>8 DEF SeatMapInv, SeatMapTypeOK, GatewayTypeOK, page
<1>10. HeldSeatWasGranted'
  BY <1>1, <1>2, <1>4, <1>5, <1>7 DEF SeatMapInv, HeldSeatWasGranted, page
<1>11. CallsFit' /\ CallsEntitled'
  BY <1>2, <1>7 DEF SeatMapInv, CallsFit, CallFits, CallsEntitled, CallEntitled
<1>12. ViewExplained'
  <2> SUFFICES ASSUME NEW a \in Browsers, NEW s \in Seats
               PROVE  Shows(a, s)' \/ <<a, s>> \in astray' \/ Coming(a, s)'
    BY DEF ViewExplained
  <2>1. CASE a = b
    BY <1>2, <2>1 DEF Shows, page
  <2>2. CASE a # b
    <3>1. inbox'[a] = inbox[a]
      BY <1>4, <1>5, <2>2
    <3>2. Coming(a, s) => Coming(a, s)'
      BY <1>2, <3>1 DEF Coming, Unsaid, Undelivered
    <3> QED
      BY <1>2, <1>8, <3>2 DEF SeatMapInv, ViewExplained, Shows, page
  <2> QED
    BY <2>1, <2>2
<1> QED
  BY <1>9, <1>10, <1>11, <1>12 DEF SeatMapInv

(* What users start. *)
LEMMA SendsKeep ==
  ASSUME SeatMapInv, NEW k \in Slots, calls' \in 0 .. MaxCalls,
         OutsideCall(k) \/ \E b \in Browsers : BrowserCall(b, k)
  PROVE  SeatMapInv'
<1>1. /\ user \in [Browsers -> Users \cup {Guest}] /\ held \in [Browsers -> Seats \cup {None}]
      /\ \A e \in ended : e.seat \in Seats /\ e.user \in Users \cup {Guest}
  BY GatewayAssumption DEF SeatMapInv, SeatMapTypeOK, GatewayTypeOK, Sessions
<1>2. UNCHANGED <<inbox, user, seat, ended, page, entitled, astray>>
  BY DEF OutsideCall, BrowserCall, HoldSeat, ReleaseSeat, PayHeld, ListResale
<1>3. CASE OutsideCall(k)
  <2>1. PICK u \in Outsiders, s \in Seats, kind \in {"hold", "release"} :
          /\ kind = "release" => <<u, s>> \in entitled
          /\ Send(k, [Idle EXCEPT !.kind = kind, !.user = u, !.seat = s])
    BY <1>3 DEF OutsideCall
  <2>2. u \in Users /\ kind \in Kinds
    BY GatewayAssumption DEF Kinds
  <2>3. PICK c : c = [Idle EXCEPT !.kind = kind, !.user = u, !.seat = s]
    OBVIOUS
  <2>4. c \in Call({{}}) /\ c.kind = kind /\ c.user = u /\ c.seat = s
    BY <2>2, <2>3 DEF Idle, Call, PCs, Results
  <2> QED
    BY <1>2, <2>1, <2>2, <2>3, <2>4, SendKeeps
<1>4. ASSUME NEW b \in Browsers, BrowserCall(b, k) PROVE SeatMapInv'
  <2>1. PICK u \in Users \cup {Guest} : u = user[b]
    BY <1>1
  <2>2. ASSUME NEW kind \in Kinds, NEW s \in Seats, Ask(b, k, kind, s),
               kind = "release" => <<u, s>> \in entitled
        PROVE  SeatMapInv'
    <3>1. PICK c : c = [Idle EXCEPT !.kind = kind, !.by = b, !.user = u, !.seat = s]
      OBVIOUS
    <3>2. c \in Call({{}}) /\ c.kind = kind /\ c.user = u /\ c.seat = s
      BY <3>1 DEF Idle, Call, PCs, Results
    <3>3. Send(k, c)
      BY <2>1, <2>2, <3>1 DEF Ask
    <3> QED
      BY <1>2, <2>2, <3>2, <3>3, SendKeeps
  <2>3. CASE \E s \in Seats : HoldSeat(b, k, s)
    BY <2>2, <2>3 DEF HoldSeat, Kinds
  <2>4. ASSUME held[b] # None PROVE \E s \in Seats : s = held[b] /\ <<u, s>> \in entitled
    BY <1>1, <2>1, <2>4 DEF SeatMapInv, HeldSeatWasGranted
  <2>5. CASE ReleaseSeat(b, k)
    <3>1. PICK s \in Seats : s = held[b] /\ <<u, s>> \in entitled
      BY <2>4, <2>5 DEF ReleaseSeat
    <3> QED
      BY <2>2, <2>5, <3>1 DEF ReleaseSeat, Kinds
  <2>6. CASE PayHeld(b, k)
    <3>1. PICK s \in Seats : s = held[b]
      BY <2>4, <2>6 DEF PayHeld
    <3>2. PICK good \in BOOLEAN :
            Send(k, [Idle EXCEPT !.kind = "pay", !.by = b, !.user = user[b],
                                 !.seat = held[b], !.good = good])
      BY <2>6 DEF PayHeld
    <3>3. PICK c : c = [Idle EXCEPT !.kind = "pay", !.by = b, !.user = u, !.seat = s, !.good = good]
      OBVIOUS
    <3>4. Send(k, c)
      BY <2>1, <3>1, <3>2, <3>3
    <3>5. c \in Call({{}}) /\ c.kind = "pay" /\ c.user = u /\ c.seat = s
      BY <3>2, <3>3 DEF Idle, Call, PCs, Results, Kinds
    <3> QED
      BY <1>2, <3>4, <3>5, SendKeeps DEF Kinds
  <2>7. CASE ListResale(b, k)
    BY <1>1, <2>2, <2>7 DEF ListResale, Kinds
  <2> QED
    BY <1>4, <2>3, <2>5, <2>6, <2>7 DEF BrowserCall
<1> QED
  BY <1>3, <1>4

-----------------------------------------------------------------------------
(***************************************************************************)
(* The invariant, and what follows from it.                                *)
(***************************************************************************)
LEMMA SeatMapInitially == SeatMapInit => SeatMapInv
<1> SUFFICES ASSUME SeatMapInit PROVE SeatMapInv
  OBVIOUS
<1> USE DEF SeatMapInit, GatewayInit
<1>1. call \in [Slots -> Call({{}})] /\ \A k \in Slots : call[k].pc = "idle" /\ call[k].kind = None
  BY DEF Idle, Call, PCs, Results
<1>2. /\ inbox \in [Browsers -> Seq(News)] /\ user \in [Browsers -> Sessions]
      /\ \A b \in Browsers : Len(inbox[b]) <= MaxNews
  BY GatewayAssumption
<1>3. seat \in [Seats -> Row] /\ \A s \in Seats : seat[s].status = "AVAILABLE"
  BY DEF Free, Row, Seat
<1>4. /\ view \in [Browsers -> [Seats -> Seat \cup {"ABSENT"}]]
      /\ \A b \in Browsers, s \in Seats : view[b][s] \in {"ABSENT", "AVAILABLE"}
  BY DEF NoSeats, Seat
<1>5. loading \in [Browsers -> [pc : {"sent", "answered", "done"},
                                seats : [Seats -> Seat \cup {"ABSENT"}]]]
  BY DEF Loaded, NoSeats
<1>6. SeatMapTypeOK
  BY <1>1, <1>2, <1>3, <1>4, <1>5, MaxCallsAssumption DEF SeatMapTypeOK, GatewayTypeOK
<1>7. CallsFit /\ CallsEntitled
  BY <1>1 DEF CallsFit, CallFits, CallsEntitled, CallEntitled
<1>8. HeldSeatWasGranted /\ ViewExplained
  BY <1>3, <1>4 DEF HeldSeatWasGranted, ViewExplained, Shows
<1> QED
  BY <1>6, <1>7, <1>8 DEF SeatMapInv

LEMMA SeatMapStep == SeatMapInv /\ [SeatMapNext]_seatVars => SeatMapInv'
<1> SUFFICES ASSUME SeatMapInv, [SeatMapNext]_seatVars PROVE SeatMapInv'
  OBVIOUS
<1>1. CASE /\ calls < MaxCalls /\ calls' = calls + 1
           /\ (\E k \in Slots : OutsideCall(k)) \/ \E b \in Browsers : UserStep(b)
  <2>1. calls' \in 0 .. MaxCalls
    BY <1>1, MaxCallsAssumption DEF SeatMapInv, SeatMapTypeOK
  <2>2. CASE \E k \in Slots : OutsideCall(k) \/ \E b \in Browsers : BrowserCall(b, k)
    BY <2>1, <2>2, SendsKeep
  <2>3. CASE \E b \in Browsers : SelectEvent(b)
    BY <2>1, <2>3, LoadKeeps
  <2>4. CASE \E b \in Browsers : ChangeSession(b)
    BY <2>1, <2>4, ChangeSessionKeeps
  <2> QED
    BY <1>1, <2>2, <2>3, <2>4 DEF UserStep
<1>2. CASE UNCHANGED calls /\ \E k \in Slots : CallStep(k)
  BY <1>2, CallStepKeeps
<1>3. CASE UNCHANGED calls /\ \E b \in Browsers : BrowserStep(b)
  <2>1. PICK b \in Browsers : BrowserStep(b)
    BY <1>3
  <2>2. CASE \E k \in Slots : \/ HoldAnswered(b, k) \/ ReleaseAnswered(b, k)
                              \/ PayTimer(b, k) \/ ResaleAnswered(b, k)
    BY <1>3, <2>2, AnswersKeep
  <2>3. CASE ReadSeats(b)
    <3>1. calls' \in 0 .. MaxCalls
      BY <1>3 DEF SeatMapInv, SeatMapTypeOK
    <3> QED
      BY <2>3, <3>1, LoadKeeps
  <2>4. CASE SeatsLoaded(b)
    <3>1. loading[b].seats \in [Seats -> Seat \cup {"ABSENT"}]
      BY DEF SeatMapInv, SeatMapTypeOK
    <3>2. PICK shown \in [Seats -> Seat \cup {"ABSENT"}] : shown = loading[b].seats
      BY <3>1
    <3>3. ShowAll(b, shown)
      BY <2>4, <3>2 DEF SeatsLoaded
    <3> QED
      BY <1>3, <3>3, ShowAllKeeps
  <2>5. CASE generateSeedSeats(b)
    <3>1. PICK shown \in [Seats -> {"AVAILABLE", "SOLD"}] : ShowAll(b, shown)
      BY <2>5 DEF generateSeedSeats
    <3>2. shown \in [Seats -> Seat \cup {"ABSENT"}]
      BY DEF Seat
    <3> QED
      BY <1>3, <3>1, <3>2, ShowAllKeeps
  <2>6. CASE HandleNews(b)
    BY <1>3, <2>6, HandleNewsKeeps
  <2> QED
    BY <2>1, <2>2, <2>3, <2>4, <2>5, <2>6 DEF BrowserStep
<1>4. CASE UNCHANGED calls /\ \E s \in Seats : HoldRunsOut(s) \/ Sweep(s)
  BY <1>4, HoldRunsOutKeeps, SweepKeeps
<1>5. CASE UNCHANGED calls /\ \E o \in OrderIds : OrderEnds(o) \/ AnnounceEnd(o)
  BY <1>5, OrderEndsKeeps, AnnounceEndKeeps
<1>6. CASE UNCHANGED seatVars
  <2>1. UNCHANGED <<call, inbox, user, seat, ended, held, view, loading, entitled, astray, calls>>
    BY <1>6 DEF seatVars, page
  <2>2. SeatMapTypeOK'
    BY <2>1 DEF SeatMapInv, SeatMapTypeOK, GatewayTypeOK
  <2>3. ViewExplained'
    BY <2>1, ExplainedKept DEF SeatMapInv, Coming, Unsaid, Undelivered
  <2> QED
    BY <2>1, <2>2, <2>3, CallsRest DEF SeatMapInv
<1> QED
  BY <1>1, <1>2, <1>3, <1>4, <1>5, <1>6 DEF SeatMapNext

(* The invariant the theorems below rest on: in every reachable state a     *)
(* call under way fits its kind and its sender, the seat a browser holds    *)
(* was granted to its user, and a wrong view is explained.                  *)
THEOREM SeatMapInvariance == SeatMapSpec => []SeatMapInv
<1> QED
  BY SeatMapInitially, SeatMapStep, PTL DEF SeatMapSpec

(* Every variable of the seat map, the calls and the broadcasts stays in    *)
(* its domain; no view takes the status of an order for that of a seat.     *)
THEOREM SeatMapTypeCorrect == SeatMapSpec => []SeatMapTypeOK
<1>1. SeatMapInv => SeatMapTypeOK
  BY DEF SeatMapInv
<1> QED
  BY <1>1, SeatMapInvariance, PTL

(* The seat a browser can check out was granted to its user at some time,   *)
(* or taken for held because no answer came or the session changed.         *)
THEOREM OnlyGrantedSeatsAreHeld == SeatMapSpec => []HeldSeatWasGranted
<1>1. SeatMapInv => HeldSeatWasGranted
  BY DEF SeatMapInv
<1> QED
  BY <1>1, SeatMapInvariance, PTL

(* With no call under way, no end of an order unannounced and nothing       *)
(* undelivered, a view is wrong only if its last write was out of date, or  *)
(* nobody was told of the last change.                                      *)
THEOREM ViewsCatchUp == SeatMapSpec => []ViewCatchesUp
<1>1. SeatMapInv => ViewCatchesUp
  <2> SUFFICES ASSUME SeatMapInv, NEW b \in Browsers, NEW s \in Seats,
                      \A k \in Slots : call[k].pc = "idle",
                      inbox[b] = <<>>, \A e \in ended : e.told,
                      view[b][s] \notin {"ABSENT", seat[s].status}
               PROVE  <<b, s>> \in astray
    BY DEF ViewCatchesUp
  <2>1. ~Unsaid(s)
    BY DEF Unsaid
  <2>2. Undelivered(b) = {}
    BY DEF Undelivered
  <2> QED
    BY <2>1, <2>2 DEF SeatMapInv, ViewExplained, Shows, Coming
<1> QED
  BY <1>1, SeatMapInvariance, PTL

(* Only the three steps of the inventory serve a call. *)
LEMMA WhoServes ==
  ASSUME SeatMapInv, [SeatMapNext]_seatVars,
         NEW k \in Slots, call[k].pc = "sent", call'[k].pc = "served"
  PROVE  ServeHold(k) \/ ServeRelease(k) \/ ServeResale(k)
<1>1. call \in CallType
  BY DEF SeatMapInv, SeatMapTypeOK, GatewayTypeOK, CallType
<1>2. call' # call
  OBVIOUS
<1>3. ASSUME NEW j \in Slots, NEW c, Send(j, c) PROVE FALSE
  BY <1>1, <1>3 DEF Send, CallType
<1>4. ASSUME NEW j \in Slots, Done(j) PROVE FALSE
  BY <1>1, <1>4 DEF Done, CallType, Idle
<1>5. ASSUME NEW j \in Slots, NEW result, NEW data, Reply(j, result, data) PROVE FALSE
  BY <1>1, <1>5 DEF Reply, CallType, Call
<1>6. ASSUME NEW j \in Slots, Becomes(j, "served") PROVE j = k
  BY <1>1, <1>6 DEF Becomes, CallType
<1>7. ASSUME NEW j \in Slots, NEW b \in Browsers, BrowserCall(b, j) PROVE FALSE
  BY <1>3, <1>7 DEF BrowserCall, HoldSeat, ReleaseSeat, PayHeld, ListResale, Ask
<1>8. ASSUME NEW b \in Browsers, UserStep(b) PROVE FALSE
  BY <1>2, <1>7, <1>8 DEF UserStep, SelectEvent, ChangeSession
<1>9. ASSUME NEW j \in Slots, OutsideCall(j) PROVE FALSE
  BY <1>3, <1>9 DEF OutsideCall
<1>10. ASSUME NEW b \in Browsers, BrowserStep(b) PROVE FALSE
  <2>1. ASSUME NEW j \in Slots,
               \/ HoldAnswered(b, j) \/ ReleaseAnswered(b, j) \/ PayTimer(b, j)
               \/ ResaleAnswered(b, j)
        PROVE  Done(j)
    BY <2>1 DEF HoldAnswered, ReleaseAnswered, PayTimer, ResaleAnswered
  <2>2. CASE \/ ReadSeats(b) \/ SeatsLoaded(b) \/ generateSeedSeats(b) \/ HandleNews(b)
    BY <1>2, <2>2 DEF ReadSeats, SeatsLoaded, generateSeedSeats, ShowAll, HandleNews
  <2> QED
    BY <1>4, <1>10, <2>1, <2>2 DEF BrowserStep
<1>11. ASSUME NEW s \in Seats, HoldRunsOut(s) \/ Sweep(s) PROVE FALSE
  BY <1>2, <1>11 DEF HoldRunsOut, Sweep
<1>12. ASSUME NEW o \in OrderIds, OrderEnds(o) \/ AnnounceEnd(o) PROVE FALSE
  BY <1>2, <1>12 DEF OrderEnds, AnnounceEnd
<1>13. ASSUME NEW j \in Slots, CallStep(j)
       PROVE  ServeHold(k) \/ ServeRelease(k) \/ ServeResale(k)
  <2>1. CASE AnnounceCall(j) \/ Refuse(j) \/ LoseCall(j) \/ OutsideAnswer(j)
    BY <1>4, <1>5, <2>1 DEF AnnounceCall, Refuse, LoseCall, OutsideAnswer
  <2>2. CASE ServeHold(j)
    BY <1>5, <1>6, <2>2 DEF ServeHold
  <2>3. CASE ServeRelease(j) \/ ServeResale(j)
    <3>1. j = k
      BY <1>6, <2>3 DEF ServeRelease, ServeResale
    <3> QED
      BY <2>3, <3>1
  <2> QED
    BY <1>13, <2>1, <2>2, <2>3 DEF CallStep
<1>14. CASE UNCHANGED seatVars
  BY <1>2, <1>14 DEF seatVars
<1>15. CASE SeatMapNext
  BY <1>8, <1>9, <1>10, <1>11, <1>12, <1>13, <1>15 DEF SeatMapNext
<1> QED
  BY <1>14, <1>15

(* A hold that has not run out is freed by a call of another user only if   *)
(* that user once held the seat, or took it for held.                       *)
THEOREM FormerHolderFrees == SeatMapSpec => HoldFreedByFormerHolder
<1>1. ASSUME SeatMapInv, [SeatMapNext]_seatVars, NEW s \in Seats, NEW k \in Slots,
             seat[s].status = "HELD", seat'[s].status # "HELD",
             call[k].kind = "release", call[k].pc = "sent", call'[k].pc = "served"
      PROVE  <<call[k].user, s>> \in entitled
  <2>1. ServeRelease(k)
    BY <1>1, WhoServes DEF ServeHold, ServeResale, At
  <2>2. s = call[k].seat
    BY <1>1, <2>1 DEF ServeRelease, Changed, SeatMapInv, SeatMapTypeOK
  <2> QED
    BY <1>1, <2>2 DEF SeatMapInv, CallsEntitled, CallEntitled
<1>2. SeatMapInv /\ [SeatMapNext]_seatVars =>
        [\A s \in Seats, k \in Slots :
           /\ seat[s].status = "HELD" /\ ~seat[s].out /\ seat'[s].status # "HELD"
           /\ call[k].kind = "release" /\ call[k].pc = "sent" /\ call'[k].pc = "served"
           => <<call[k].user, s>> \in entitled]_seatVars
  BY <1>1
<1> QED
  BY <1>2, SeatMapInvariance, PTL DEF SeatMapSpec, HoldFreedByFormerHolder
=============================================================================
