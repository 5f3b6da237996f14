---------------------------- MODULE OutboxProofs ----------------------------
(***************************************************************************)
(* Theorems about Outbox, for any events, any number of invocations and    *)
(* any faults.  The inductive invariant is OutboxInv.                      *)
(***************************************************************************)
EXTENDS Outbox, TLAPS

OutboxInv ==
  /\ OutboxTypeOK
  /\ BatchIsPending
  /\ SentOncePerInterruption
  /\ PublishedIsKept

-----------------------------------------------------------------------------
(* What an invocation is after Goes and Leave, and that others stay. *)
LEMMA GoesFields ==
  ASSUME NEW r \in Relays, NEW pc, NEW b, NEW e, Goes(r, pc, b, e), OutboxTypeOK
  PROVE  /\ relay'[r] = [pc |-> pc, batch |-> b, record |-> e]
         /\ relay'[r].pc = pc /\ relay'[r].batch = b /\ relay'[r].record = e
         /\ \A s \in Relays \ {r} : relay'[s] = relay[s]
  BY DEF Goes, OutboxTypeOK

LEMMA LeaveFields ==
  ASSUME NEW r \in Relays, Leave(r), OutboxTypeOK
  PROVE  /\ isProcessing' = FALSE
         /\ relay'[r] = Idle
         /\ relay'[r].pc = "idle" /\ relay'[r].batch = {}
         /\ \A s \in Relays \ {r} : relay'[s] = relay[s]
  BY DEF Leave, Idle, OutboxTypeOK

LEMMA IdleIsInvocation == Idle \in Invocation /\ Idle.pc = "idle" /\ Idle.batch = {}
  BY DEF Idle, Invocation

(* The parts of the type invariant that speak of invocations. *)
RelayFits ==
  /\ relay \in [Relays -> Invocation]
  /\ \A r \in Relays : relay[r].pc \in {"sent", "save"} => relay[r].record \in Events

LEMMA GoesType ==
  ASSUME NEW r \in Relays,
         NEW pc \in {"idle", "connect", "find", "publish", "sent", "save"},
         NEW b \in SUBSET Events, NEW e \in Events \cup {None},
         pc \in {"sent", "save"} => e \in Events,
         Goes(r, pc, b, e), OutboxTypeOK
  PROVE  RelayFits'
<1>1. relay' \in [Relays -> Invocation]
  BY DEF Goes, OutboxTypeOK, Invocation
<1>2. ASSUME NEW s \in Relays, relay'[s].pc \in {"sent", "save"} PROVE relay'[s].record \in Events
  <2>1. CASE s = r
    <3>1. relay'[r] = [pc |-> pc, batch |-> b, record |-> e]
      BY DEF Goes, OutboxTypeOK
    <3> QED
      BY <1>2, <2>1, <3>1
  <2>2. CASE s # r
    <3>1. relay'[s] = relay[s]
      BY <2>2 DEF Goes, OutboxTypeOK
    <3> QED
      BY <1>2, <3>1 DEF OutboxTypeOK
  <2> QED
    BY <2>1, <2>2
<1> QED
  BY <1>1, <1>2 DEF RelayFits

LEMMA LeaveType ==
  ASSUME NEW r \in Relays, Leave(r), OutboxTypeOK
  PROVE  RelayFits' /\ isProcessing' \in BOOLEAN
<1>1. relay' \in [Relays -> Invocation] /\ isProcessing' = FALSE
  BY IdleIsInvocation DEF Leave, OutboxTypeOK
<1>2. ASSUME NEW s \in Relays, relay'[s].pc \in {"sent", "save"} PROVE relay'[s].record \in Events
  <2>1. s # r
    BY <1>2, LeaveFields
  <2>2. relay'[s] = relay[s]
    BY <2>1, LeaveFields
  <2> QED
    BY <1>2, <2>2 DEF OutboxTypeOK
<1> QED
  BY <1>1, <1>2 DEF RelayFits

LEMMA OldestSubset ==
  ASSUME NEW S, NEW B \in Oldest(S)
  PROVE  B \subseteq S
  BY DEF Oldest

(* The environment leaves every relay alone, or idles them all. *)
LEMMA RestartType ==
  ASSUME Restart, OutboxTypeOK
  PROVE  /\ RelayFits' /\ isProcessing' \in BOOLEAN
         /\ \A r \in Relays : relay'[r].pc = "idle" /\ relay'[r].batch = {}
         /\ channel' \in {"none", "open", "closed"} /\ consumer' \in {"none", "on", "closed"}
         /\ interrupted' \in [Events -> Nat] /\ handling' \subseteq Messages
         /\ boot' \in {"due", "load", "done"} /\ found' \subseteq Events
<1>1. \A r \in Relays : relay'[r] = Idle
  BY DEF Restart
<1>2. \A r \in Relays : relay'[r].pc = "idle" /\ relay'[r].batch = {}
  BY <1>1, IdleIsInvocation
<1>3. RelayFits'
  <2>1. relay' \in [Relays -> Invocation]
    BY IdleIsInvocation DEF Restart
  <2> QED
    BY <1>2, <2>1 DEF RelayFits
<1>4. interrupted' \in [Events -> Nat]
  <2>1. \A e \in Events :
          interrupted[e] + (IF Sending(e) THEN 1 ELSE 0) \in Nat
    BY DEF OutboxTypeOK
  <2> QED
    BY <2>1 DEF Restart
<1> QED
  BY <1>2, <1>3, <1>4 DEF Restart

-----------------------------------------------------------------------------
LEMMA TypeInit == OutboxInit => OutboxTypeOK
<1> SUFFICES ASSUME OutboxInit PROVE OutboxTypeOK
  OBVIOUS
<1>1. \A r \in Relays : relay[r] = Idle
  BY DEF OutboxInit
<1>2. relay \in [Relays -> Invocation]
  BY IdleIsInvocation DEF OutboxInit
<1>3. \A r \in Relays : relay[r].pc = "idle"
  BY <1>1, IdleIsInvocation
<1> QED
  BY <1>2, <1>3 DEF OutboxInit, OutboxTypeOK

LEMMA TypeStep == OutboxTypeOK /\ [OutboxNext]_outboxVars => OutboxTypeOK'
<1> SUFFICES ASSUME OutboxTypeOK, [OutboxNext]_outboxVars PROVE OutboxTypeOK'
  OBVIOUS
<1>0. RelayFits
  BY DEF RelayFits, OutboxTypeOK
<1>1. ASSUME NEW e \in Events, CreateEvent(e) PROVE OutboxTypeOK'
  BY <1>1 DEF CreateEvent, OutboxTypeOK, indexerVars, brokerVars
<1>2. ASSUME NEW r \in Relays, Enter(r) PROVE OutboxTypeOK'
  <2>1. RelayFits'
    BY <1>2, GoesType DEF Enter
  <2> QED
    BY <1>2, <2>1 DEF Enter, RelayFits, OutboxTypeOK, indexerVars, brokerVars
<1>3. ASSUME NEW r \in Relays, Connect(r) PROVE OutboxTypeOK'
  <2>1. RelayFits' /\ isProcessing' \in BOOLEAN
    BY <1>3, GoesType, LeaveType DEF Connect, OutboxTypeOK
  <2> QED
    BY <1>3, <2>1 DEF Connect, RelayFits, OutboxTypeOK, indexerVars, brokerVars
<1>4. ASSUME NEW r \in Relays, Find(r) PROVE OutboxTypeOK'
  <2>1. \A B \in Oldest(Pending) : B \subseteq Events
    BY OldestSubset DEF Pending
  <2>2. RelayFits' /\ isProcessing' \in BOOLEAN
    BY <1>4, <2>1, GoesType, LeaveType DEF Find, OutboxTypeOK
  <2> QED
    BY <1>4, <2>2 DEF Find, RelayFits, OutboxTypeOK, indexerVars, brokerVars
<1>5. ASSUME NEW r \in Relays, Publish(r) PROVE OutboxTypeOK'
  <2>1. CASE Leave(r) /\ UNCHANGED sent
    BY <1>5, <2>1, LeaveType DEF Publish, RelayFits, OutboxTypeOK, indexerVars, brokerVars
  <2>2. ASSUME NEW e \in relay[r].batch, Goes(r, "sent", relay[r].batch \ {e}, e),
               sent' = [sent EXCEPT ![e] = @ + 1], UNCHANGED isProcessing
        PROVE  OutboxTypeOK'
    <3>1. relay[r].batch \subseteq Events /\ e \in Events
      BY DEF OutboxTypeOK, Invocation
    <3>2. RelayFits'
      BY <2>2, <3>1, GoesType
    <3>3. sent' \in [Events -> Nat]
      BY <2>2, <3>1 DEF OutboxTypeOK
    <3> QED
      BY <1>5, <2>2, <3>2, <3>3 DEF Publish, RelayFits, OutboxTypeOK, indexerVars, brokerVars
  <2> QED
    BY <1>5, <2>1, <2>2 DEF Publish
<1>6. ASSUME NEW r \in Relays, BrokerTakes(r) PROVE OutboxTypeOK'
  <2>1. relay[r].batch \subseteq Events /\ relay[r].record \in Events
    BY <1>6 DEF BrokerTakes, OutboxTypeOK, Invocation
  <2>2. RelayFits'
    BY <1>6, <2>1, GoesType DEF BrokerTakes
  <2>3. queue' \subseteq Messages /\ lost' \subseteq Events
    BY <1>6, <2>1 DEF BrokerTakes, OutboxTypeOK, Messages
  <2> QED
    BY <1>6, <2>2, <2>3 DEF BrokerTakes, RelayFits, OutboxTypeOK, indexerVars
<1>7. ASSUME NEW r \in Relays, Save(r) PROVE OutboxTypeOK'
  <2>1. relay[r].batch \subseteq Events /\ relay[r].record \in Events
    BY <1>7 DEF Save, OutboxTypeOK, Invocation
  <2>2. RelayFits' /\ isProcessing' \in BOOLEAN
    BY <1>7, <2>1, GoesType, LeaveType DEF Save, OutboxTypeOK
  <2> QED
    BY <1>7, <2>2 DEF Save, RelayFits, OutboxTypeOK, indexerVars, brokerVars
<1>8. ASSUME NEW r \in Relays, PublishFails(r) \/ DatabaseFails(r) PROVE OutboxTypeOK'
  <2>1. Leave(r)
    BY <1>8 DEF PublishFails, DatabaseFails
  <2>2. interrupted' \in [Events -> Nat] /\ faults' \in Nat
    BY <1>8 DEF PublishFails, DatabaseFails, Fault, OutboxTypeOK
  <2> QED
    BY <1>8, <2>1, <2>2, LeaveType
    DEF PublishFails, DatabaseFails, RelayFits, OutboxTypeOK, indexerVars, brokerVars
<1>9. ASSUME NEW m \in queue \cup handling,
             Deliver(m) \/ IndexEvent(m) \/ Requeue(m) PROVE OutboxTypeOK'
  <2>1. m \in Messages /\ m[1] \in Events
    BY DEF OutboxTypeOK, Messages
  <2> QED
    BY <1>9, <2>1 DEF Deliver, IndexEvent, Requeue, OutboxTypeOK, relayVars, brokerVars
<1>10. ASSUME NEW m \in queue \cup handling, HandlerThrows(m) PROVE OutboxTypeOK'
  <2>1. m \in Messages /\ m[1] \in Events
    BY DEF OutboxTypeOK, Messages
  <2> QED
    BY <1>10, <2>1, RestartType DEF HandlerThrows, RelayFits, OutboxTypeOK, brokerVars
<1>11. CASE Crash
  BY <1>11, RestartType DEF Crash, Fault, RelayFits, OutboxTypeOK, brokerVars
<1>12. CASE StartConsuming \/ BootFind \/ BootLoad \/ BrokerStarts
  BY <1>12 DEF StartConsuming, BootFind, BootLoad, BrokerStarts, Created, OutboxTypeOK,
               relayVars, indexerVars, brokerVars
<1>13. CASE BrokerStops
  <2>1. EventsOf(queue) \subseteq Events
    BY DEF EventsOf, OutboxTypeOK, Messages
  <2>2. bound' \in BOOLEAN /\ queue' \subseteq Messages /\ lost' \subseteq Events /\ faults' \in Nat
    <3>1. CASE Fault("broker") /\ UNCHANGED <<bound, queue, lost>>
      BY <3>1 DEF Fault, OutboxTypeOK
    <3>2. CASE Fault("wipe") /\ bound' = FALSE /\ queue' = {} /\ lost' = lost \cup EventsOf(queue)
      <4>1. faults' \in Nat
        BY <3>2 DEF Fault, OutboxTypeOK
      <4>2. lost' \subseteq Events
        BY <2>1, <3>2 DEF OutboxTypeOK
      <4> QED
        BY <3>2, <4>1, <4>2
    <3> QED
      BY <1>13, <3>1, <3>2 DEF BrokerStops
  <2>3. brokerUp' \in BOOLEAN /\ channel' \in {"none", "open", "closed"}
        /\ consumer' \in {"none", "on", "closed"}
    BY <1>13 DEF BrokerStops, OutboxTypeOK
  <2>4. UNCHANGED <<outbox, isProcessing, relay, sent, interrupted, handling, boot, found, index>>
    BY <1>13 DEF BrokerStops
  <2> QED
    BY <2>2, <2>3, <2>4 DEF OutboxTypeOK
<1>14. CASE UNCHANGED outboxVars
  BY <1>14 DEF OutboxTypeOK, outboxVars, relayVars, indexerVars, brokerVars
<1> QED
  BY <1>1, <1>2, <1>3, <1>4, <1>5, <1>6, <1>7, <1>8, <1>9, <1>10, <1>11, <1>12, <1>13, <1>14
  DEF OutboxNext, RelayStep, IndexerStep

-----------------------------------------------------------------------------
(* One batch at a time: what an invocation may become, and what that says   *)
(* of the others.                                                           *)
LEMMA OthersIdle ==
  ASSUME BatchIsPending, NEW r \in Relays, relay[r].pc # "idle" \/ ~isProcessing
  PROVE  \A s \in Relays \ {r} : relay[s].pc = "idle" /\ relay[s].batch = {}
  BY DEF BatchIsPending

LEMMA GoesKeepsBatch ==
  ASSUME OutboxTypeOK, BatchIsPending,
         NEW r \in Relays, relay[r].pc # "idle" \/ ~isProcessing,
         NEW pc, NEW b, NEW e, Goes(r, pc, b, e),
         isProcessing' = TRUE, pc # "idle", b \subseteq Pending',
         pc \in {"sent", "save"} => e \in Pending' \ b,
         pc # "connect" => channel' # "none"
  PROVE  BatchIsPending'
<1>1. relay'[r].pc = pc /\ relay'[r].batch = b /\ relay'[r].record = e
  BY GoesFields
<1>2. \A s \in Relays \ {r} : relay'[s].pc = "idle" /\ relay'[s].batch = {}
  BY OthersIdle, GoesFields
<1> QED
  BY <1>1, <1>2 DEF BatchIsPending

LEMMA IdleKeepsBatch ==
  ASSUME \A s \in Relays : relay'[s].pc = "idle" /\ relay'[s].batch = {}
  PROVE  BatchIsPending'
  BY DEF BatchIsPending

LEMMA LeaveIdles ==
  ASSUME OutboxTypeOK, BatchIsPending, NEW r \in Relays, relay[r].pc # "idle", Leave(r)
  PROVE  \A s \in Relays : relay'[s].pc = "idle" /\ relay'[s].batch = {}
<1>1. relay'[r].pc = "idle" /\ relay'[r].batch = {}
  BY LeaveFields
<1>2. \A s \in Relays \ {r} : relay'[s].pc = "idle" /\ relay'[s].batch = {}
  BY OthersIdle, LeaveFields
<1> QED
  BY <1>1, <1>2

LEMMA BatchInit == OutboxInit => BatchIsPending
<1> SUFFICES ASSUME OutboxInit PROVE BatchIsPending
  OBVIOUS
<1>1. \A r \in Relays : relay[r].pc = "idle" /\ relay[r].batch = {}
  BY IdleIsInvocation DEF OutboxInit
<1> QED
  BY <1>1 DEF BatchIsPending

LEMMA BatchStep == OutboxTypeOK /\ BatchIsPending /\ [OutboxNext]_outboxVars => BatchIsPending'
<1> SUFFICES ASSUME OutboxTypeOK, BatchIsPending, [OutboxNext]_outboxVars PROVE BatchIsPending'
  OBVIOUS
<1>1. ASSUME NEW e \in Events, CreateEvent(e) PROVE BatchIsPending'
  <2>1. Pending \subseteq Pending'
    BY <1>1 DEF CreateEvent, Pending, OutboxTypeOK
  <2> QED
    BY <1>1, <2>1 DEF CreateEvent, BatchIsPending
<1>2. ASSUME NEW r \in Relays, Enter(r) PROVE BatchIsPending'
  <2>1. channel' = channel /\ isProcessing' = TRUE /\ ~isProcessing
    BY <1>2 DEF Enter
  <2>2. CASE channel = "none"
    BY <1>2, <2>1, <2>2, GoesKeepsBatch DEF Enter
  <2>3. CASE channel # "none"
    BY <1>2, <2>1, <2>3, GoesKeepsBatch DEF Enter
  <2> QED
    BY <2>2, <2>3
<1>3. ASSUME NEW r \in Relays, Connect(r) PROVE BatchIsPending'
  <2>1. relay[r].pc # "idle" /\ isProcessing
    BY <1>3 DEF Connect, BatchIsPending
  <2>2. CASE Leave(r)
    BY <2>1, <2>2, LeaveIdles, IdleKeepsBatch
  <2>3. CASE channel' = "open" /\ Goes(r, "find", {}, None) /\ UNCHANGED isProcessing
    BY <2>1, <2>3, GoesKeepsBatch DEF OutboxTypeOK
  <2> QED
    BY <1>3, <2>2, <2>3 DEF Connect
<1>4. ASSUME NEW r \in Relays, Find(r) PROVE BatchIsPending'
  <2>1. relay[r].pc # "idle" /\ isProcessing = TRUE /\ channel # "none"
    BY <1>4 DEF Find, BatchIsPending, OutboxTypeOK
  <2>2. CASE Leave(r)
    BY <2>1, <2>2, LeaveIdles, IdleKeepsBatch
  <2>3. ASSUME NEW B \in Oldest(Pending), Goes(r, "publish", B, None), UNCHANGED isProcessing
        PROVE  BatchIsPending'
    <3>1. B \subseteq Pending' /\ channel' = channel
      BY <1>4, OldestSubset DEF Find, Pending
    <3> QED
      BY <2>1, <2>3, <3>1, GoesKeepsBatch
  <2> QED
    BY <1>4, <2>2, <2>3 DEF Find
<1>5. ASSUME NEW r \in Relays, Publish(r) PROVE BatchIsPending'
  <2>1. relay[r].pc # "idle" /\ isProcessing = TRUE /\ channel # "none" /\ Pending' = Pending
        /\ channel' = channel /\ relay[r].batch \subseteq Pending
    BY <1>5 DEF Publish, BatchIsPending, OutboxTypeOK, Pending
  <2>2. CASE Leave(r)
    BY <2>1, <2>2, LeaveIdles, IdleKeepsBatch
  <2>3. ASSUME NEW e \in relay[r].batch, Goes(r, "sent", relay[r].batch \ {e}, e),
               UNCHANGED isProcessing
        PROVE  BatchIsPending'
    BY <2>1, <2>3, GoesKeepsBatch
  <2> QED
    BY <1>5, <2>2, <2>3 DEF Publish
<1>6. ASSUME NEW r \in Relays, BrokerTakes(r) PROVE BatchIsPending'
  <2>1. relay[r].pc # "idle" /\ isProcessing' = TRUE /\ channel' # "none" /\ Pending' = Pending
        /\ relay[r].batch \subseteq Pending /\ relay[r].record \in Pending \ relay[r].batch
    BY <1>6 DEF BrokerTakes, BatchIsPending, OutboxTypeOK, Pending
  <2>2. Goes(r, "save", relay[r].batch, relay[r].record)
    BY <1>6 DEF BrokerTakes
  <2> QED
    BY <2>1, <2>2, GoesKeepsBatch
<1>7. ASSUME NEW r \in Relays, Save(r) PROVE BatchIsPending'
  <2>1. relay[r].pc # "idle" /\ isProcessing = TRUE /\ channel' # "none"
        /\ relay[r].batch \subseteq Pending /\ relay[r].record \in Pending \ relay[r].batch
    BY <1>7 DEF Save, BatchIsPending, OutboxTypeOK
  <2>2. relay[r].batch \subseteq Pending'
    BY <1>7, <2>1 DEF Save, Pending, OutboxTypeOK
  <2>3. CASE Leave(r)
    BY <2>1, <2>3, LeaveIdles, IdleKeepsBatch
  <2>4. CASE Goes(r, "publish", relay[r].batch, None) /\ UNCHANGED isProcessing
    BY <2>1, <2>2, <2>4, GoesKeepsBatch
  <2> QED
    BY <1>7, <2>3, <2>4 DEF Save
<1>8. ASSUME NEW r \in Relays, PublishFails(r) \/ DatabaseFails(r) PROVE BatchIsPending'
  <2>1. Leave(r) /\ relay[r].pc # "idle"
    BY <1>8 DEF PublishFails, DatabaseFails
  <2> QED
    BY <2>1, LeaveIdles, IdleKeepsBatch
<1>9. CASE Restart
  BY <1>9, RestartType, IdleKeepsBatch
<1>10. ASSUME UNCHANGED <<outbox, isProcessing, relay>>, channel # "none" => channel' # "none"
       PROVE  BatchIsPending'
  BY <1>10 DEF BatchIsPending, Pending
<1>11. CASE IndexerStep
  BY <1>9, <1>10, <1>11 DEF IndexerStep, StartConsuming, BootFind, BootLoad, Deliver, IndexEvent,
                            Requeue, HandlerThrows, relayVars
<1>12. CASE Crash \/ BrokerStops \/ BrokerStarts
  BY <1>9, <1>10, <1>12 DEF Crash, BrokerStops, BrokerStarts, relayVars
<1>13. CASE UNCHANGED outboxVars
  BY <1>10, <1>13 DEF outboxVars, relayVars
<1> QED
  BY <1>1, <1>2, <1>3, <1>4, <1>5, <1>6, <1>7, <1>8, <1>11, <1>12, <1>13 DEF OutboxNext, RelayStep

-----------------------------------------------------------------------------
(* Which event is on its way, before and after a step of invocation r. *)
LEMMA SendingBefore ==
  ASSUME BatchIsPending, NEW r \in Relays, relay[r].pc # "idle" \/ ~isProcessing, NEW f
  PROVE  Sending(f) <=> Relaying(r, f)
  BY OthersIdle DEF Sending, Relaying

LEMMA SendingAfter ==
  ASSUME OutboxTypeOK, BatchIsPending,
         NEW r \in Relays, relay[r].pc # "idle" \/ ~isProcessing,
         NEW pc, NEW b, NEW e, Goes(r, pc, b, e), NEW f
  PROVE  Sending(f)' <=> pc \in {"sent", "save"} /\ f = e
<1>1. relay'[r].pc = pc /\ relay'[r].record = e
  BY GoesFields
<1>2. \A s \in Relays \ {r} : relay'[s].pc = "idle"
  BY OthersIdle, GoesFields
<1> QED
  BY <1>1, <1>2 DEF Sending, Relaying

LEMMA NoneSending ==
  ASSUME \A s \in Relays : relay'[s].pc = "idle", NEW f
  PROVE  ~Sending(f)'
  BY DEF Sending, Relaying

(* What is on its way is PENDING, so it is not PUBLISHED. *)
LEMMA SendingIsPending ==
  ASSUME BatchIsPending, NEW f, Sending(f)
  PROVE  f \in Pending
  BY DEF BatchIsPending, Sending, Relaying

(* An event is accounted for if its three parts stay, and at the start. *)
Counted(e) ==
  sent[e] = interrupted[e] + (IF outbox[e] = "PUBLISHED" \/ Sending(e) THEN 1 ELSE 0)

LEMMA SentInit == OutboxInit => SentOncePerInterruption
<1> SUFFICES ASSUME OutboxInit, NEW e \in Events PROVE Counted(e)
  BY DEF SentOncePerInterruption, Counted
<1>1. \A r \in Relays : relay[r].pc = "idle"
  BY IdleIsInvocation DEF OutboxInit
<1>2. ~Sending(e)
  BY <1>1 DEF Sending, Relaying
<1> QED
  BY <1>2 DEF Counted, OutboxInit

LEMMA SentStep ==
  OutboxTypeOK /\ BatchIsPending /\ SentOncePerInterruption /\ [OutboxNext]_outboxVars
    => SentOncePerInterruption'
<1> SUFFICES ASSUME OutboxTypeOK, BatchIsPending, SentOncePerInterruption,
                    [OutboxNext]_outboxVars, NEW f \in Events
             PROVE  Counted(f)'
  BY DEF SentOncePerInterruption, Counted
<1>0. Counted(f) /\ sent[f] \in Nat /\ interrupted[f] \in Nat
  BY DEF SentOncePerInterruption, Counted, OutboxTypeOK
<1>s. ASSUME UNCHANGED <<sent, interrupted>>, (outbox[f] = "PUBLISHED")' <=> outbox[f] = "PUBLISHED",
             Sending(f)' <=> Sending(f)
      PROVE  Counted(f)'
  BY <1>0, <1>s DEF Counted
<1>u. ASSUME UNCHANGED <<outbox, sent, interrupted, relay>> PROVE Counted(f)'
  BY <1>0, <1>u DEF Counted, Sending, Relaying
<1>1. ASSUME NEW e \in Events, CreateEvent(e) PROVE Counted(f)'
  <2>1. (outbox[f] = "PUBLISHED")' <=> outbox[f] = "PUBLISHED"
    BY <1>1 DEF CreateEvent, OutboxTypeOK
  <2>2. Sending(f)' <=> Sending(f)
    BY <1>1 DEF CreateEvent, Sending, Relaying
  <2> QED
    BY <1>1, <1>s, <2>1, <2>2 DEF CreateEvent
<1>2. ASSUME NEW r \in Relays, Enter(r) \/ Connect(r) \/ Find(r) PROVE Counted(f)'
  <2>1. ~Relaying(r, f) /\ (relay[r].pc # "idle" \/ ~isProcessing)
    BY <1>2 DEF Enter, Connect, Find, Relaying
  <2>2. UNCHANGED <<outbox, sent, interrupted>>
    BY <1>2 DEF Enter, Connect, Find
  <2>3. \/ Leave(r) /\ relay[r].pc # "idle"
        \/ \E pc \in {"connect", "find", "publish"}, b \in SUBSET Events : Goes(r, pc, b, None)
    <3>1. \A B \in Oldest(Pending) : B \subseteq Events
      BY OldestSubset DEF Pending
    <3> QED
      BY <1>2, <3>1 DEF Enter, Connect, Find
  <2>4. ~Sending(f)'
    <3>1. ASSUME NEW pc \in {"connect", "find", "publish"}, NEW b \in SUBSET Events,
                 Goes(r, pc, b, None)
          PROVE  ~Sending(f)'
      BY <2>1, <3>1, SendingAfter
    <3> QED
      BY <2>3, <3>1, LeaveIdles, NoneSending
  <2> QED
    BY <1>s, <2>1, <2>2, <2>4, SendingBefore
<1>3. ASSUME NEW r \in Relays, Publish(r) PROVE Counted(f)'
  <2>1. ~Sending(f) /\ relay[r].pc # "idle" /\ UNCHANGED <<outbox, interrupted>>
    BY <1>3, SendingBefore DEF Publish, Relaying
  <2>2. CASE Leave(r) /\ UNCHANGED sent
    BY <1>s, <2>1, <2>2, LeaveIdles, NoneSending
  <2>3. ASSUME NEW e \in relay[r].batch, Goes(r, "sent", relay[r].batch \ {e}, e),
               sent' = [sent EXCEPT ![e] = @ + 1]
        PROVE  Counted(f)'
    <3>1. e \in Pending /\ e \in Events
      BY DEF BatchIsPending, Pending
    <3>2. Sending(f)' <=> f = e
      BY <2>1, <2>3, SendingAfter
    <3>3. CASE f = e
      <4>1. sent'[f] = sent[f] + 1 /\ outbox[f] = "PENDING"
        BY <2>3, <3>1, <3>3 DEF OutboxTypeOK, Pending
      <4> QED
        BY <1>0, <2>1, <3>2, <3>3, <4>1 DEF Counted
    <3>4. CASE f # e
      <4>1. sent'[f] = sent[f]
        BY <2>3, <3>4 DEF OutboxTypeOK
      <4> QED
        BY <1>0, <2>1, <3>2, <3>4, <4>1 DEF Counted
    <3> QED
      BY <3>3, <3>4
  <2> QED
    BY <1>3, <2>2, <2>3 DEF Publish
<1>4. ASSUME NEW r \in Relays, BrokerTakes(r) PROVE Counted(f)'
  <2>1. relay[r].pc = "sent" /\ UNCHANGED <<outbox, sent, interrupted>>
        /\ Goes(r, "save", relay[r].batch, relay[r].record)
    BY <1>4 DEF BrokerTakes
  <2>2. Sending(f) <=> f = relay[r].record
    BY <2>1, SendingBefore DEF Relaying
  <2>3. Sending(f)' <=> f = relay[r].record
    BY <2>1, SendingAfter
  <2> QED
    BY <1>s, <2>1, <2>2, <2>3
<1>5. ASSUME NEW r \in Relays, Save(r) PROVE Counted(f)'
  <2>1. relay[r].pc = "save" /\ UNCHANGED <<sent, interrupted>>
        /\ outbox' = [outbox EXCEPT ![relay[r].record] = "PUBLISHED"]
    BY <1>5 DEF Save
  <2>2. Sending(f) <=> f = relay[r].record
    BY <2>1, SendingBefore DEF Relaying
  <2>3. ~Sending(f)'
    <3>1. CASE Leave(r)
      BY <2>1, <3>1, LeaveIdles, NoneSending
    <3>2. CASE Goes(r, "publish", relay[r].batch, None)
      BY <2>1, <3>2, SendingAfter
    <3> QED
      BY <1>5, <3>1, <3>2 DEF Save
  <2>4. (outbox[f] = "PUBLISHED")' <=> outbox[f] = "PUBLISHED" \/ f = relay[r].record
    BY <2>1 DEF OutboxTypeOK
  <2> QED
    BY <1>0, <2>1, <2>2, <2>3, <2>4 DEF Counted
<1>6. ASSUME NEW r \in Relays, relay[r].pc \in {"sent", "save"}, Leave(r), UNCHANGED <<outbox, sent>>,
             interrupted' = [interrupted EXCEPT ![relay[r].record] = @ + 1]
      PROVE  Counted(f)'
  <2>1. ~Sending(f)' /\ (Sending(f) <=> f = relay[r].record)
    BY <1>6, LeaveIdles, NoneSending, SendingBefore DEF Relaying
  <2>2. CASE f = relay[r].record
    <3>1. interrupted'[f] = interrupted[f] + 1
      BY <1>6, <2>2 DEF OutboxTypeOK
    <3>2. outbox[f] # "PUBLISHED"
      BY <2>1, <2>2, SendingIsPending DEF Pending
    <3> QED
      BY <1>0, <1>6, <2>1, <2>2, <3>1, <3>2 DEF Counted
  <2>3. CASE f # relay[r].record
    <3>1. interrupted'[f] = interrupted[f]
      BY <1>6, <2>3 DEF OutboxTypeOK
    <3> QED
      BY <1>0, <1>6, <2>1, <2>3, <3>1 DEF Counted
  <2> QED
    BY <2>2, <2>3
<1>7. ASSUME NEW r \in Relays, PublishFails(r) \/ DatabaseFails(r) PROVE Counted(f)'
  <2>1. CASE relay[r].pc = "find" /\ Leave(r) /\ UNCHANGED <<outbox, sent, interrupted>>
    <3>1. ~Sending(f)' /\ ~Sending(f)
      BY <2>1, LeaveIdles, NoneSending, SendingBefore DEF Relaying
    <3> QED
      BY <1>s, <2>1, <3>1
  <2> QED
    BY <1>6, <1>7, <2>1 DEF PublishFails, DatabaseFails
<1>8. ASSUME Restart, UNCHANGED <<outbox, sent>> PROVE Counted(f)'
  <2>1. ~Sending(f)'
    BY <1>8, RestartType, NoneSending
  <2>2. interrupted'[f] = interrupted[f] + (IF Sending(f) THEN 1 ELSE 0)
    BY <1>8 DEF Restart
  <2>3. Sending(f) => outbox[f] # "PUBLISHED"
    BY SendingIsPending DEF Pending
  <2> QED
    BY <1>0, <1>8, <2>1, <2>2, <2>3 DEF Counted
<1>9. CASE IndexerStep
  BY <1>u, <1>8, <1>9 DEF IndexerStep, StartConsuming, BootFind, BootLoad, Deliver, IndexEvent,
                          Requeue, HandlerThrows, relayVars
<1>10. CASE Crash \/ BrokerStops \/ BrokerStarts
  BY <1>u, <1>8, <1>10 DEF Crash, BrokerStops, BrokerStarts, relayVars
<1>11. CASE UNCHANGED outboxVars
  BY <1>u, <1>11 DEF outboxVars, relayVars
<1> QED
  BY <1>1, <1>2, <1>3, <1>4, <1>5, <1>7, <1>9, <1>10, <1>11 DEF OutboxNext, RelayStep

-----------------------------------------------------------------------------
(* An event that cannot be missed stays so: a message leaves the queue into *)
(* the index, or is recorded as lost.                                       *)
LEMMA KeptStays ==
  ASSUME OutboxTypeOK, [OutboxNext]_outboxVars, NEW f \in Events, Kept(f)
  PROVE  Kept(f)'
<1>1. ASSUME index \subseteq index', lost \subseteq lost', queue \subseteq queue' PROVE Kept(f)'
  BY <1>1 DEF Kept, EventsOf
<1>2. ASSUME NEW e \in Events, CreateEvent(e) PROVE Kept(f)'
  BY <1>1, <1>2 DEF CreateEvent, indexerVars, brokerVars
<1>3. ASSUME NEW r \in Relays, RelayStep(r) \/ PublishFails(r) \/ DatabaseFails(r) PROVE Kept(f)'
  <2>1. CASE BrokerTakes(r)
    BY <1>1, <2>1 DEF BrokerTakes, indexerVars
  <2>2. CASE Enter(r) \/ Connect(r) \/ Find(r)
    BY <1>1, <2>2 DEF Enter, Connect, Find, indexerVars, brokerVars
  <2>3. CASE Publish(r) \/ Save(r) \/ PublishFails(r) \/ DatabaseFails(r)
    BY <1>1, <2>3 DEF Publish, Save, PublishFails, DatabaseFails, indexerVars, brokerVars
  <2> QED
    BY <1>3, <2>1, <2>2, <2>3 DEF RelayStep
<1>4. CASE IndexerStep
  <2>1. ASSUME NEW m \in queue \cup handling, IndexEvent(m) PROVE Kept(f)'
    <3>1. index' = index \cup {m[1]} /\ queue' = queue \ {m} /\ lost' = lost
      BY <2>1 DEF IndexEvent
    <3> QED
      BY <3>1 DEF Kept, EventsOf
  <2> QED
    BY <1>1, <1>4, <2>1 DEF IndexerStep, StartConsuming, BootFind, BootLoad, Deliver, Requeue,
                            HandlerThrows, brokerVars
<1>5. CASE BrokerStops
  <2>1. CASE queue' = {} /\ lost' = lost \cup EventsOf(queue) /\ index' = index
    BY <2>1 DEF Kept
  <2> QED
    BY <1>1, <1>5, <2>1 DEF BrokerStops
<1>6. CASE Crash \/ BrokerStarts
  BY <1>1, <1>6 DEF Crash, BrokerStarts, indexerVars, brokerVars
<1>7. CASE UNCHANGED outboxVars
  BY <1>1, <1>7 DEF outboxVars, indexerVars, brokerVars
<1> QED
  BY <1>2, <1>3, <1>4, <1>5, <1>6, <1>7 DEF OutboxNext

(* Only the broker's confirm makes an event confirmed. *)
LEMMA ConfirmedByBroker ==
  ASSUME OutboxTypeOK, [OutboxNext]_outboxVars, NEW f \in Events, Confirmed(f)', ~Confirmed(f)
  PROVE  \E r \in Relays : BrokerTakes(r) /\ relay[r].record = f
<1>1. ASSUME UNCHANGED outbox, \A r \in Relays : relay'[r].pc # "idle" => relay'[r] = relay[r]
      PROVE  FALSE
  BY <1>1 DEF Confirmed
<1>2. ASSUME NEW e \in Events, CreateEvent(e) PROVE FALSE
  BY <1>2 DEF CreateEvent, Confirmed, OutboxTypeOK
<1>3. ASSUME NEW r \in Relays, NEW pc, NEW b, NEW e, Goes(r, pc, b, e), pc # "save",
             outbox[f] = "PUBLISHED" <=> (outbox[f] = "PUBLISHED")'
      PROVE  FALSE
  <2>1. relay'[r].pc # "save" /\ \A s \in Relays \ {r} : relay'[s] = relay[s]
    BY <1>3, GoesFields
  <2> QED
    BY <1>3, <2>1 DEF Confirmed
<1>4. ASSUME NEW r \in Relays, Leave(r), outbox[f] = "PUBLISHED" <=> (outbox[f] = "PUBLISHED")'
      PROVE  FALSE
  <2>1. relay'[r].pc # "save" /\ \A s \in Relays \ {r} : relay'[s] = relay[s]
    BY <1>4, LeaveFields
  <2> QED
    BY <1>4, <2>1 DEF Confirmed
<1>5. ASSUME NEW r \in Relays, Enter(r) \/ Connect(r) \/ Find(r) PROVE FALSE
  BY <1>3, <1>4, <1>5 DEF Enter, Connect, Find
<1>6. ASSUME NEW r \in Relays, Publish(r) \/ PublishFails(r) \/ DatabaseFails(r) PROVE FALSE
  BY <1>3, <1>4, <1>6 DEF Publish, PublishFails, DatabaseFails
<1>7. ASSUME NEW r \in Relays, Save(r) PROVE FALSE
  <2>1. CASE relay[r].record = f
    BY <1>7, <2>1 DEF Save, Confirmed
  <2>2. CASE relay[r].record # f
    <3>1. outbox[f] = "PUBLISHED" <=> (outbox[f] = "PUBLISHED")'
      BY <1>7, <2>2 DEF Save, OutboxTypeOK
    <3> QED
      BY <1>3, <1>4, <1>7, <3>1 DEF Save
  <2> QED
    BY <2>1, <2>2
<1>8. ASSUME NEW r \in Relays, BrokerTakes(r), relay[r].record # f PROVE FALSE
  <2>1. relay'[r].record # f /\ outbox' = outbox /\ \A s \in Relays \ {r} : relay'[s] = relay[s]
    BY <1>8, GoesFields DEF BrokerTakes
  <2> QED
    BY <2>1 DEF Confirmed
<1>9. ASSUME Restart, UNCHANGED outbox PROVE FALSE
  BY <1>1, <1>9, RestartType
<1>10. ASSUME UNCHANGED <<outbox, relay>> PROVE FALSE
  BY <1>1, <1>10
<1>11. CASE IndexerStep
  BY <1>9, <1>10, <1>11 DEF IndexerStep, StartConsuming, BootFind, BootLoad, Deliver, IndexEvent,
                            Requeue, HandlerThrows, relayVars
<1>12. CASE Crash \/ BrokerStops \/ BrokerStarts
  BY <1>9, <1>10, <1>12 DEF Crash, BrokerStops, BrokerStarts, relayVars
<1>13. CASE UNCHANGED outboxVars
  BY <1>10, <1>13 DEF outboxVars, relayVars
<1> QED
  BY <1>2, <1>5, <1>6, <1>7, <1>8, <1>11, <1>12, <1>13 DEF OutboxNext, RelayStep

LEMMA KeptStep ==
  OutboxTypeOK /\ PublishedIsKept /\ [OutboxNext]_outboxVars => PublishedIsKept'
<1> SUFFICES ASSUME OutboxTypeOK, PublishedIsKept, [OutboxNext]_outboxVars,
                    NEW f \in Events, Confirmed(f)'
             PROVE  Kept(f)'
  BY DEF PublishedIsKept
<1>1. CASE Confirmed(f)
  BY <1>1, KeptStays DEF PublishedIsKept
<1>2. CASE ~Confirmed(f)
  <2>1. PICK r \in Relays : BrokerTakes(r) /\ relay[r].record = f
    BY <1>2, ConfirmedByBroker
  <2>2. f \in lost' \/ <<f, sent[f]>> \in queue'
    BY <2>1 DEF BrokerTakes
  <2> QED
    BY <2>2 DEF Kept, EventsOf
<1> QED
  BY <1>1, <1>2

LEMMA KeptInit == OutboxInit => PublishedIsKept
<1> SUFFICES ASSUME OutboxInit, NEW f \in Events PROVE ~Confirmed(f)
  BY DEF PublishedIsKept
<1>1. \A r \in Relays : relay[r].pc = "idle"
  BY IdleIsInvocation DEF OutboxInit
<1> QED
  BY <1>1 DEF OutboxInit, Confirmed

-----------------------------------------------------------------------------
(* The invariant holds throughout. *)
THEOREM OutboxInvariance == OutboxSpec => []OutboxInv
<1>1. OutboxInit => OutboxInv
  BY TypeInit, BatchInit, SentInit, KeptInit DEF OutboxInv
<1>2. OutboxInv /\ [OutboxNext]_outboxVars => OutboxInv'
  BY TypeStep, BatchStep, SentStep, KeptStep DEF OutboxInv
<1> QED
  BY <1>1, <1>2, PTL DEF OutboxSpec

(* Every variable of the catalog's pipeline stays in its domain. *)
THEOREM OutboxTypeCorrect == OutboxSpec => []OutboxTypeOK
<1>1. OutboxInv => OutboxTypeOK
  BY DEF OutboxInv
<1> QED
  BY <1>1, OutboxInvariance, PTL

(* Calls of processPendingOutbox never work at the same time, and what the  *)
(* working one read is still PENDING (outbox-relay.service.ts:51).          *)
THEOREM OneBatchAtATime == OutboxSpec => []BatchIsPending
<1>1. OutboxInv => BatchIsPending
  BY DEF OutboxInv
<1> QED
  BY <1>1, OutboxInvariance, PTL

(* An event is sent once, and once more for each time that a crash, a       *)
(* closed channel or a failed save came between sending and saving.         *)
THEOREM SentOnce == OutboxSpec => []SentOncePerInterruption
<1>1. OutboxInv => SentOncePerInterruption
  BY DEF OutboxInv
<1> QED
  BY <1>1, OutboxInvariance, PTL

(* The outbox's promise (README 2): what is PUBLISHED is indexed or in the  *)
(* queue, unless the broker dropped or forgot it, through any crashes of    *)
(* relay, indexer and broker.                                               *)
THEOREM NothingPublishedIsMissed == OutboxSpec => []PublishedIsKept
<1>1. OutboxInv => PublishedIsKept
  BY DEF OutboxInv
<1> QED
  BY <1>1, OutboxInvariance, PTL

-----------------------------------------------------------------------------
(* The pipeline is at-least-once delivery. *)

(* A handler's message is in the queue, unless the broker forgot it; and    *)
(* the bulk load has read events that were created.                         *)
Backed ==
  /\ \A m \in handling : m \in queue \/ m[1] \in lost
  /\ found \subseteq Created

LEMMA BackedStep == OutboxTypeOK /\ Backed /\ [OutboxNext]_outboxVars => Backed'
<1> SUFFICES ASSUME OutboxTypeOK, Backed, [OutboxNext]_outboxVars PROVE Backed'
  OBVIOUS
<1>1. ASSUME UNCHANGED outbox PROVE Created' = Created
  BY <1>1 DEF Created
<1>2. ASSUME handling' \subseteq handling, queue \subseteq queue', lost \subseteq lost',
             found' \subseteq found, Created \subseteq Created'
      PROVE  Backed'
  BY <1>2 DEF Backed
<1>3. ASSUME NEW e \in Events, CreateEvent(e) PROVE Backed'
  <2>1. Created \subseteq Created'
    BY <1>3 DEF CreateEvent, Created, OutboxTypeOK
  <2> QED
    BY <1>2, <1>3, <2>1 DEF CreateEvent, indexerVars, brokerVars
<1>4. ASSUME NEW r \in Relays, RelayStep(r) \/ PublishFails(r) \/ DatabaseFails(r) PROVE Backed'
  <2>1. CASE Save(r)
    <3>1. Created \subseteq Created'
      BY <2>1 DEF Save, Created, OutboxTypeOK
    <3> QED
      BY <1>2, <2>1, <3>1 DEF Save, indexerVars, brokerVars
  <2>2. CASE BrokerTakes(r)
    BY <1>1, <1>2, <2>2 DEF BrokerTakes, indexerVars
  <2>3. CASE Enter(r) \/ Connect(r) \/ Find(r)
    BY <1>1, <1>2, <2>3 DEF Enter, Connect, Find, indexerVars, brokerVars
  <2>4. CASE Publish(r) \/ PublishFails(r) \/ DatabaseFails(r)
    BY <1>1, <1>2, <2>4 DEF Publish, PublishFails, DatabaseFails, indexerVars, brokerVars
  <2> QED
    BY <1>4, <2>1, <2>2, <2>3, <2>4 DEF RelayStep
<1>5. ASSUME NEW m \in queue \cup handling, Deliver(m) \/ IndexEvent(m) PROVE Backed'
  <2>1. Created' = Created
    BY <1>1, <1>5 DEF Deliver, IndexEvent, relayVars
  <2> QED
    BY <1>5, <2>1 DEF Deliver, IndexEvent, Backed, brokerVars
<1>6. CASE StartConsuming \/ BootFind \/ BootLoad
  BY <1>1, <1>2, <1>6 DEF StartConsuming, BootFind, BootLoad, relayVars, brokerVars, Backed
<1>7. ASSUME NEW m \in queue \cup handling, Requeue(m) \/ HandlerThrows(m) PROVE Backed'
  BY <1>1, <1>2, <1>7 DEF Requeue, HandlerThrows, Restart, relayVars, brokerVars, Backed
<1>8. CASE Crash \/ BrokerStarts
  BY <1>1, <1>2, <1>8 DEF Crash, Restart, BrokerStarts, relayVars, indexerVars, brokerVars, Backed
<1>9. CASE BrokerStops
  BY <1>1, <1>9 DEF BrokerStops, Backed, EventsOf
<1>10. CASE UNCHANGED outboxVars
  BY <1>1, <1>2, <1>10 DEF outboxVars, relayVars, indexerVars, brokerVars
<1> QED
  BY <1>3, <1>4, <1>5, <1>6, <1>7, <1>8, <1>9, <1>10 DEF OutboxNext, IndexerStep

(* Each step is one of Delivery, or leaves rows, queue and index alone. *)
LEMMA DeliveryStep ==
  ASSUME OutboxInv, Backed, [OutboxNext]_outboxVars
  PROVE  [Promise!Next]_(Promise!vars)
<1> DEFINE carried == EventsOf(queue)
<1>1. CASE UNCHANGED <<outbox, queue, index, lost>>
  BY <1>1 DEF Promise!vars, EventsOf
<1>2. ASSUME NEW e \in Events, CreateEvent(e) PROVE Promise!Next
  BY <1>2 DEF CreateEvent, indexerVars, brokerVars, Promise!Next, Promise!Create, EventsOf
<1>3. ASSUME NEW r \in Relays, BrokerTakes(r) PROVE Promise!Next
  <2> DEFINE e == relay[r].record
  <2>1. e \in Events /\ outbox[e] = "PENDING"
    BY <1>3 DEF BrokerTakes, OutboxInv, BatchIsPending, Pending
  <2>2. EventsOf(queue \cup {<<e, sent[e]>>}) = carried \cup {e}
    <3> DEFINE n == <<e, sent[e]>>
    <3>1. n[1] = e
      OBVIOUS
    <3> HIDE DEF n, e
    <3>2. EventsOf(queue \cup {n}) = carried \cup {e}
      BY <3>1 DEF EventsOf
    <3> QED
      BY <3>2 DEF n
  <2>3. Promise!Send(e)
    BY <1>3, <2>1, <2>2 DEF BrokerTakes, indexerVars, Promise!Send
  <2> QED
    BY <2>1, <2>3 DEF Promise!Next
<1>4. ASSUME NEW r \in Relays, Save(r) PROVE Promise!Next
  <2> DEFINE e == relay[r].record
  <2>1. e \in Events /\ outbox[e] = "PENDING" /\ Kept(e)
    BY <1>4 DEF Save, OutboxInv, BatchIsPending, Pending, PublishedIsKept, Confirmed
  <2>2. Promise!Confirm(e)
    BY <1>4, <2>1 DEF Save, Kept, indexerVars, brokerVars, Promise!Confirm, EventsOf
  <2> QED
    BY <2>1, <2>2 DEF Promise!Next
<1>5. ASSUME NEW r \in Relays, RelayStep(r) \/ PublishFails(r) \/ DatabaseFails(r),
             ~BrokerTakes(r), ~Save(r)
      PROVE  UNCHANGED <<outbox, queue, index, lost>>
  <2>1. CASE Enter(r) \/ Connect(r) \/ Find(r)
    BY <2>1 DEF Enter, Connect, Find, indexerVars, brokerVars
  <2>2. CASE Publish(r) \/ PublishFails(r) \/ DatabaseFails(r)
    BY <2>2 DEF Publish, PublishFails, DatabaseFails, indexerVars, brokerVars
  <2> QED
    BY <1>5, <2>1, <2>2 DEF RelayStep
<1>6. ASSUME NEW m \in handling, IndexEvent(m) \/ HandlerThrows(m)
      PROVE  [Promise!Next]_(Promise!vars)
  <2> DEFINE e == m[1]
  <2>1. e \in Events /\ e \in carried \cup lost
    BY DEF Backed, EventsOf, OutboxInv, OutboxTypeOK, Messages
  <2>2. EventsOf(queue \ {m}) \in {carried, carried \ {e}}
    BY DEF EventsOf
  <2>3. CASE IndexEvent(m)
    BY <2>1, <2>2, <2>3 DEF IndexEvent, relayVars, Promise!Next, Promise!Arrive
  <2>4. CASE HandlerThrows(m) /\ index' = index \cup {e}
    BY <2>1, <2>4 DEF HandlerThrows, brokerVars, Promise!Next, Promise!Arrive
  <2>5. CASE HandlerThrows(m) /\ index' = index
    BY <1>1, <2>5 DEF HandlerThrows, brokerVars
  <2> QED
    BY <1>6, <2>3, <2>4, <2>5 DEF HandlerThrows
<1>7. CASE BootLoad
  <2>1. Created = Promise!Created
    BY DEF Created, Promise!Created
  <2>2. Promise!Load
    BY <1>7, <2>1 DEF BootLoad, relayVars, brokerVars, Backed, Promise!Load
  <2> QED
    BY <2>2 DEF Promise!Next
<1>8. CASE StartConsuming \/ BootFind \/ \E m \in queue \cup handling : Deliver(m) \/ Requeue(m)
  BY <1>1, <1>8 DEF StartConsuming, BootFind, Deliver, Requeue, relayVars, brokerVars
<1>9. CASE BrokerStops
  <2>1. CASE UNCHANGED <<queue, lost>>
    BY <1>1, <1>9, <2>1 DEF BrokerStops
  <2>2. CASE queue' = {} /\ lost' = lost \cup EventsOf(queue)
    <3>1. EventsOf({}) = {}
      BY DEF EventsOf
    <3> QED
      BY <1>9, <2>2, <3>1 DEF BrokerStops, Promise!Next, Promise!Forget
  <2> QED
    BY <1>9, <2>1, <2>2 DEF BrokerStops
<1>10. CASE Crash \/ BrokerStarts
  BY <1>1, <1>10 DEF Crash, BrokerStarts, relayVars, indexerVars, brokerVars
<1>11. CASE UNCHANGED outboxVars
  BY <1>1, <1>11 DEF outboxVars, relayVars, indexerVars, brokerVars
<1>12. \A m : IndexEvent(m) \/ HandlerThrows(m) => m \in handling
  BY DEF IndexEvent, HandlerThrows
<1> QED
  BY <1>1, <1>2, <1>3, <1>4, <1>5, <1>6, <1>7, <1>8, <1>9, <1>10, <1>11, <1>12
    DEF OutboxNext, IndexerStep

(* Through crashes, a broker that stops or forgets, requeues and repeated   *)
(* sending, the catalog implements at-least-once delivery to the index.     *)
THEOREM OutboxDelivers == OutboxSpec => IsDelivery
<1>1. OutboxInit => Promise!Init /\ Backed
  BY DEF OutboxInit, Promise!Init, EventsOf, Backed
<1>2. OutboxInv /\ Backed /\ [OutboxNext]_outboxVars => Backed'
  BY BackedStep DEF OutboxInv
<1>3. OutboxInv /\ Backed /\ [OutboxNext]_outboxVars => [Promise!Next]_(Promise!vars)
  BY DeliveryStep
<1> QED
  BY <1>1, <1>2, <1>3, OutboxInvariance, PTL DEF OutboxSpec, IsDelivery, Promise!Spec

(* So nothing is carried or found in the index that was not created, not    *)
(* even by a bulk load that read the events before a crash.                 *)
THEOREM OnlyCreatedIsIndexed == OutboxSpec => []Promise!OnlyCreatedArrives
<1>1. Promise!Init => Promise!OnlyCreatedArrives
  BY DEF Promise!Init, Promise!OnlyCreatedArrives
<1>2. ASSUME OutboxTypeOK, Promise!OnlyCreatedArrives, [Promise!Next]_(Promise!vars)
      PROVE  Promise!OnlyCreatedArrives'
  BY <1>2 DEF OutboxTypeOK, Promise!OnlyCreatedArrives, Promise!Next, Promise!vars, Promise!Created,
              Promise!Create, Promise!Send, Promise!Confirm, Promise!Arrive, Promise!Load, Promise!Forget
<1>3. OutboxTypeOK /\ Promise!OnlyCreatedArrives /\ [Promise!Next]_(Promise!vars)
        => Promise!OnlyCreatedArrives'
  BY <1>2
<1> QED
  BY <1>1, <1>3, OutboxTypeCorrect, OutboxDelivers, PTL DEF IsDelivery, Promise!Spec
=============================================================================
