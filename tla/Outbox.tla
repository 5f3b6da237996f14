------------------------------- MODULE Outbox -------------------------------
(***************************************************************************)
(* The catalog service from a created event to the search index: the       *)
(* transaction that writes the event with its outbox row, the relay that   *)
(* publishes pending rows with broker confirms, the indexer that consumes  *)
(* them with acknowledgements, and the bulk load at start.                 *)
(*                                                                         *)
(*   outbox --relay--> exchange --binding--> queue --indexer--> index      *)
(*                                                                         *)
(* One process runs all of it.  One step is one awaited call with the code *)
(* up to the next one, as in Inventory.                                    *)
(***************************************************************************)
EXTENDS Naturals, FiniteSets

CONSTANTS
  None,
  Events,     \* events by the instant created_at of their outbox rows
  Relays,     \* invocations of processPendingOutbox that may be in flight
  Take,       \* the limit of the find: 50
  Prefetch,   \* unacknowledged messages the indexer may have: 10
  Faults,     \* what goes wrong: of "crash", "broker", "wipe", "database"
  MaxFaults   \* how often (bound)

ASSUME OutboxAssumption ==
  /\ Events \subseteq Nat /\ None \notin Events
  /\ Take \in Nat \ {0} /\ Prefetch \in Nat \ {0} /\ MaxFaults \in Nat

VARIABLES
  outbox,        \* outbox[e]: the status of e's row, "NONE" before it is created
  isProcessing,
  relay,         \* relay[r]: the invocation r
  channel,       \* the relay's: "none" is null, "closed" is not
  consumer,      \* the indexer's channel
  handling,      \* the messages whose handlers run
  boot, found,   \* the bulk load at start, and the events it read
  brokerUp, bound, queue,
  index,         \* the events Elasticsearch has
  sent,          \* history: how often the relay sent e
  interrupted,   \* history: how often it was stopped between sending e and saving it
  lost,          \* history: the events of messages the broker dropped or forgot
  faults

relayVars == <<outbox, isProcessing, relay, channel, sent, interrupted>>
indexerVars == <<consumer, handling, boot, found, index>>
brokerVars == <<brokerUp, bound, queue, lost>>
outboxVars == <<relayVars, indexerVars, brokerVars, faults>>

Messages == Events \X Nat              \* the n-th message for e
EventsOf(S) == {m[1] : m \in S}

Pending == {e \in Events : outbox[e] = "PENDING"}
Created == {e \in Events : outbox[e] # "NONE"}

Invocation == [pc : {"idle", "connect", "find", "publish", "sent", "save"},
               batch : SUBSET Events, record : Events \cup {None}]
Idle == [pc |-> "idle", batch |-> {}, record |-> None]

(* Invocation r has sent e and not yet saved the row as PUBLISHED. *)
Relaying(r, e) == relay[r].pc \in {"sent", "save"} /\ relay[r].record = e
Sending(e) == \E r \in Relays : Relaying(r, e)

Fault(kind) == kind \in Faults /\ faults < MaxFaults /\ faults' = faults + 1

(* createEvent: one transaction writes the event and its row.  It calls     *)
(* processPendingOutbox afterwards, which Enter does at any time.           *)
CreateEvent(e) ==
  /\ outbox[e] = "NONE"
  /\ outbox' = [outbox EXCEPT ![e] = "PENDING"]
  /\ UNCHANGED <<isProcessing, relay, channel, sent, interrupted, indexerVars, brokerVars, faults>>

(***************************************************************************)
(* processPendingOutbox                                                    *)
(***************************************************************************)
Goes(r, pc, batch, record) ==
  relay' = [relay EXCEPT ![r] = [pc |-> pc, batch |-> batch, record |-> record]]

(* The finally clause. *)
Leave(r) == relay' = [relay EXCEPT ![r] = Idle] /\ isProcessing' = FALSE

EnterUnguarded(r) ==                       \* variant: the flag is not looked at
  /\ relay[r].pc = "idle"
  /\ isProcessing' = TRUE
  /\ Goes(r, IF channel = "none" THEN "connect" ELSE "find", {}, None)
  /\ UNCHANGED <<outbox, channel, sent, interrupted, indexerVars, brokerVars, faults>>

EnterUnconnected(r) ==                     \* variant: never connects again
  /\ relay[r].pc = "idle" /\ ~isProcessing
  /\ isProcessing' = TRUE
  /\ Goes(r, "find", {}, None)
  /\ UNCHANGED <<outbox, channel, sent, interrupted, indexerVars, brokerVars, faults>>

(* Called every 4 s and by createEvent. *)
Enter(r) ==
  /\ relay[r].pc = "idle" /\ ~isProcessing
  /\ isProcessing' = TRUE
  /\ Goes(r, IF channel = "none" THEN "connect" ELSE "find", {}, None)
  /\ UNCHANGED <<outbox, channel, sent, interrupted, indexerVars, brokerVars, faults>>

(* connectRabbitMQ, which also asserts the exchange. *)
Connect(r) ==
  /\ relay[r].pc = "connect"
  /\ \/ brokerUp /\ channel' = "open" /\ Goes(r, "find", {}, None) /\ UNCHANGED isProcessing
     \/ ~brokerUp /\ Leave(r) /\ UNCHANGED channel
  /\ UNCHANGED <<outbox, sent, interrupted, indexerVars, brokerVars, faults>>

(* The Take oldest of S. *)
Oldest(S) ==
  IF Cardinality(S) <= Take THEN {S}
  ELSE {B \in SUBSET S : Cardinality(B) = Take /\ \A e \in B, f \in S \ B : e < f}

FindCreated(r) ==                          \* variant: where status = 'PENDING' is missing
  /\ relay[r].pc = "find"
  /\ \/ Created = {} /\ Leave(r)
     \/ \E B \in Oldest(Created) : B # {} /\ Goes(r, "publish", B, None) /\ UNCHANGED isProcessing
  /\ UNCHANGED <<outbox, channel, sent, interrupted, indexerVars, brokerVars, faults>>

Find(r) ==
  /\ relay[r].pc = "find"
  /\ \/ Pending = {} /\ Leave(r)
     \/ \E B \in Oldest(Pending) : B # {} /\ Goes(r, "publish", B, None) /\ UNCHANGED isProcessing
  /\ UNCHANGED <<outbox, channel, sent, interrupted, indexerVars, brokerVars, faults>>

(* channel.publish, which throws on a channel closed or null: break. *)
Publish(r) ==
  /\ relay[r].pc = "publish"
  /\ \/ channel # "open" /\ Leave(r) /\ UNCHANGED sent
     \/ /\ channel = "open"
        /\ \E e \in relay[r].batch :
             /\ \A f \in relay[r].batch : e <= f
             /\ Goes(r, "sent", relay[r].batch \ {e}, e)
             /\ sent' = [sent EXCEPT ![e] = @ + 1]
        /\ UNCHANGED isProcessing
  /\ UNCHANGED <<outbox, channel, interrupted, indexerVars, brokerVars, faults>>

(* The broker writes the message to the queue, or drops what no binding     *)
(* takes (publish does not say mandatory), and confirms either.             *)
BrokerTakes(r) ==
  LET e == relay[r].record IN
  /\ relay[r].pc = "sent" /\ channel = "open"
  /\ Goes(r, "save", relay[r].batch, e)
  /\ IF bound THEN queue' = queue \cup {<<e, sent[e]>>} /\ UNCHANGED lost
     ELSE lost' = lost \cup {e} /\ UNCHANGED queue
  /\ UNCHANGED <<outbox, isProcessing, channel, sent, interrupted, indexerVars,
                 brokerUp, bound, faults>>

SaveAtOnce(r) ==                           \* variant: saved without awaiting the confirm
  LET e == relay[r].record IN
  /\ relay[r].pc \in {"sent", "save"}
  /\ outbox' = [outbox EXCEPT ![e] = "PUBLISHED"]
  /\ IF relay[r].batch = {} THEN Leave(r)
     ELSE Goes(r, "publish", relay[r].batch, None) /\ UNCHANGED isProcessing
  /\ UNCHANGED <<channel, sent, interrupted, indexerVars, brokerVars, faults>>

SaveAsSent(r) ==                           \* variant: a status of its own
  LET e == relay[r].record IN
  /\ relay[r].pc = "save"
  /\ outbox' = [outbox EXCEPT ![e] = "SENT"]
  /\ IF relay[r].batch = {} THEN Leave(r)
     ELSE Goes(r, "publish", relay[r].batch, None) /\ UNCHANGED isProcessing
  /\ UNCHANGED <<channel, sent, interrupted, indexerVars, brokerVars, faults>>

(* The confirm, and the save of the row; then the next record. *)
Save(r) ==
  LET e == relay[r].record IN
  /\ relay[r].pc = "save"
  /\ outbox' = [outbox EXCEPT ![e] = "PUBLISHED"]
  /\ IF relay[r].batch = {} THEN Leave(r)
     ELSE Goes(r, "publish", relay[r].batch, None) /\ UNCHANGED isProcessing
  /\ UNCHANGED <<channel, sent, interrupted, indexerVars, brokerVars, faults>>

(* The callback gets an error when the channel closes under it, or is never *)
(* called: no fairness makes this step happen.                              *)
PublishFails(r) ==
  /\ relay[r].pc \in {"sent", "save"} /\ channel = "closed"
  /\ interrupted' = [interrupted EXCEPT ![relay[r].record] = @ + 1]
  /\ Leave(r)
  /\ UNCHANGED <<outbox, channel, sent, indexerVars, brokerVars, faults>>

DatabaseFails(r) ==
  /\ Fault("database")
  /\ Leave(r)
  /\ \/ relay[r].pc = "find" /\ UNCHANGED interrupted
     \/ /\ relay[r].pc = "save"
        /\ interrupted' = [interrupted EXCEPT ![relay[r].record] = @ + 1]
  /\ UNCHANGED <<outbox, channel, sent, indexerVars, brokerVars>>

(***************************************************************************)
(* The process and the broker stop and start                               *)
(***************************************************************************)
(* The process is gone and started again: onModuleInit of the relay tries   *)
(* to connect, the consumer and the bulk load wait for their timers.        *)
Restart ==
  /\ isProcessing' = FALSE
  /\ relay' = [r \in Relays |-> Idle]
  /\ channel' \in {"none"} \cup {c \in {"open"} : brokerUp}
  /\ interrupted' = [e \in Events |-> interrupted[e] + (IF Sending(e) THEN 1 ELSE 0)]
  /\ consumer' = "none" /\ handling' = {}
  /\ boot' = "due" /\ found' = {}

Crash ==
  /\ Fault("crash")
  /\ Restart
  /\ UNCHANGED <<outbox, sent, index, brokerVars>>

(* The broker shuts down: it closes the connections, which nothing listens  *)
(* for, so the closed channels stay in place.  With "wipe" its queues are   *)
(* gone with it: its deployment has no volume.                              *)
BrokerStops ==
  /\ brokerUp /\ brokerUp' = FALSE
  /\ channel' = IF channel = "open" THEN "closed" ELSE channel
  /\ consumer' = IF consumer = "on" THEN "closed" ELSE consumer
  /\ \/ Fault("broker") /\ UNCHANGED <<bound, queue, lost>>
     \/ Fault("wipe") /\ bound' = FALSE /\ queue' = {} /\ lost' = lost \cup EventsOf(queue)
  /\ UNCHANGED <<outbox, isProcessing, relay, sent, interrupted, handling, boot, found, index>>

BrokerStarts ==
  /\ ~brokerUp /\ brokerUp' = TRUE
  /\ UNCHANGED <<relayVars, indexerVars, bound, queue, lost, faults>>

(***************************************************************************)
(* The indexer and the bulk load                                           *)
(***************************************************************************)
(* startConsuming, 3 s after the start and again 5 s after each failure. *)
StartConsuming ==
  /\ consumer = "none" /\ brokerUp
  /\ consumer' = "on" /\ bound' = TRUE
  /\ UNCHANGED <<relayVars, handling, boot, found, index, brokerUp, queue, lost, faults>>

Deliver(m) ==
  /\ consumer = "on" /\ Cardinality(handling) < Prefetch
  /\ m \in queue \ handling
  /\ handling' = handling \cup {m}
  /\ UNCHANGED <<relayVars, consumer, boot, found, index, brokerVars, faults>>

(* indexEvent, an upsert by event id, and the ack. *)
IndexEvent(m) ==
  /\ m \in handling /\ consumer = "on"
  /\ index' = index \cup {m[1]}
  /\ handling' = handling \ {m} /\ queue' = queue \ {m}
  /\ UNCHANGED <<relayVars, consumer, boot, found, brokerUp, bound, lost, faults>>

RequeueFalse(m) ==                         \* variant: nack without requeue
  /\ m \in handling /\ consumer = "on"
  /\ handling' = handling \ {m} /\ queue' = queue \ {m}
  /\ UNCHANGED <<relayVars, consumer, boot, found, index, brokerUp, bound, lost, faults>>

(* indexEvent fails, and the nack puts the message back. *)
Requeue(m) ==
  /\ m \in handling /\ consumer = "on"
  /\ handling' = handling \ {m}
  /\ UNCHANGED <<relayVars, consumer, boot, found, index, brokerVars, faults>>

(* On a closed channel ack throws, and so does the nack in the catch: the   *)
(* rejection is nobody's and ends the process, indexed or not.              *)
HandlerThrows(m) ==
  /\ m \in handling /\ consumer = "closed"
  /\ index' \in {index, index \cup {m[1]}}
  /\ Restart
  /\ UNCHANGED <<outbox, sent, brokerVars, faults>>

(* The bulk load reads every event, unless Elasticsearch did not answer     *)
(* when the service started; the load itself may fail for any of them.      *)
BootFind ==
  /\ boot = "due"
  /\ \/ boot' = "done" /\ UNCHANGED found
     \/ boot' = "load" /\ found' = Created
  /\ UNCHANGED <<relayVars, consumer, handling, index, brokerVars, faults>>

BootLoad ==
  /\ boot = "load"
  /\ boot' = "done" /\ found' = {}
  /\ \E S \in SUBSET found : index' = index \cup S
  /\ UNCHANGED <<relayVars, consumer, handling, brokerVars, faults>>

-----------------------------------------------------------------------------
OutboxInit ==
  /\ outbox = [e \in Events |-> "NONE"]
  /\ isProcessing = FALSE /\ relay = [r \in Relays |-> Idle]
  /\ brokerUp \in BOOLEAN
  /\ channel \in {"none"} \cup {c \in {"open"} : brokerUp}
  /\ consumer = "none" /\ handling = {} /\ boot = "due" /\ found = {}
  /\ bound = FALSE /\ queue = {} /\ index = {}
  /\ sent = [e \in Events |-> 0] /\ interrupted = [e \in Events |-> 0]
  /\ lost = {} /\ faults = 0

RelayStep(r) ==
  Enter(r) \/ Connect(r) \/ Find(r) \/ Publish(r) \/ BrokerTakes(r) \/ Save(r)

IndexerStep ==
  \/ StartConsuming \/ BootFind \/ BootLoad
  \/ \E m \in queue \cup handling : Deliver(m) \/ IndexEvent(m) \/ Requeue(m) \/ HandlerThrows(m)

OutboxNext ==
  \/ \E e \in Events : CreateEvent(e)
  \/ \E r \in Relays : RelayStep(r) \/ PublishFails(r) \/ DatabaseFails(r)
  \/ IndexerStep
  \/ Crash \/ BrokerStops \/ BrokerStarts

OutboxSpec == OutboxInit /\ [][OutboxNext]_outboxVars

-----------------------------------------------------------------------------
(* Every variable stays in its domain, and what the relay has read or sent  *)
(* is an event.                                                             *)
OutboxTypeOK ==
  /\ outbox \in [Events -> {"NONE", "PENDING", "PUBLISHED"}]
  /\ isProcessing \in BOOLEAN
  /\ relay \in [Relays -> Invocation]
  /\ \A r \in Relays : relay[r].pc \in {"sent", "save"} => relay[r].record \in Events
  /\ channel \in {"none", "open", "closed"} /\ consumer \in {"none", "on", "closed"}
  /\ boot \in {"due", "load", "done"} /\ found \subseteq Events
  /\ brokerUp \in BOOLEAN /\ bound \in BOOLEAN
  /\ queue \subseteq Messages /\ handling \subseteq Messages
  /\ index \subseteq Events /\ lost \subseteq Events
  /\ sent \in [Events -> Nat] /\ interrupted \in [Events -> Nat] /\ faults \in Nat

(* At most one batch is under way, under the flag; what is left of it, and  *)
(* the record sent, are still PENDING in the table, although the relay read *)
(* them long ago; and it publishes only with a channel.                     *)
BatchIsPending ==
  /\ \A r \in Relays : relay[r].pc # "idle" => isProcessing
  /\ \A r, s \in Relays : relay[r].pc # "idle" /\ relay[s].pc # "idle" => r = s
  /\ \A r \in Relays :
       /\ relay[r].pc = "idle" => relay[r].batch = {}
       /\ relay[r].batch \subseteq Pending
       /\ relay[r].pc \in {"sent", "save"} => relay[r].record \in Pending \ relay[r].batch
       /\ relay[r].pc \notin {"idle", "connect"} => channel # "none"

(* Every sending of an event is accounted for: it was interrupted, or is    *)
(* under way, or led to the PUBLISHED row.  So without crashes and failures *)
(* each event is published exactly once, and at most once more for each.    *)
SentOncePerInterruption ==
  \A e \in Events :
    sent[e] = interrupted[e] + (IF outbox[e] = "PUBLISHED" \/ Sending(e) THEN 1 ELSE 0)

(* README 2: when the broker has confirmed a message, and from then on, its *)
(* event is where it cannot be missed: indexed, or in the queue, delivered  *)
(* or not, whatever crashes and requeues happen.  The broker dropping or    *)
(* forgetting the message is the exception.                                 *)
Kept(e) == e \in index \/ e \in lost \/ e \in EventsOf(queue)
Confirmed(e) ==
  outbox[e] = "PUBLISHED" \/ \E r \in Relays : relay[r].pc = "save" /\ relay[r].record = e
PublishedIsKept == \A e \in Events : Confirmed(e) => Kept(e)

(* All of it - crashes, requeues, repeated sending, the bulk load - is      *)
(* at-least-once delivery: what happens to rows, queue and index is what    *)
(* Delivery allows, where a confirmed event is never missed and the index   *)
(* gets nothing that was not created.                                       *)
Promise == INSTANCE Delivery WITH stage <- outbox, carried <- EventsOf(queue)

IsDelivery == Promise!Spec

-----------------------------------------------------------------------------
(* Timers fire, awaited calls return, the broker is started again, and       *)
(* Elasticsearch does not fail for ever; nothing makes a closed channel      *)
(* answer, so the sent message of one is not fair.                           *)
OutboxFairness ==
  /\ \A r \in Relays : WF_outboxVars(RelayStep(r))
  /\ WF_outboxVars(StartConsuming) /\ WF_outboxVars(BrokerStarts)
  /\ WF_outboxVars(\E m \in queue : Deliver(m))
  /\ \A e \in Events, n \in 1..MaxFaults + 1 : SF_outboxVars(IndexEvent(<<e, n>>))

FairOutboxSpec == OutboxSpec /\ OutboxFairness

(* A pending row is published in the end, unless the relay's channel is     *)
(* closed: failed connections, failed saves and crashes are all retried.    *)
RecordIsRelayed ==
  \A e \in Events : outbox[e] = "PENDING" ~> outbox[e] = "PUBLISHED" \/ channel = "closed"

(* A created event becomes searchable, unless the broker dropped it or one  *)
(* of the two channels is closed.                                           *)
EventIsIndexed ==
  \A e \in Events : outbox[e] = "PENDING" ~>
    e \in index \/ e \in lost \/ channel = "closed" \/ consumer = "closed"

-----------------------------------------------------------------------------
(* outbox-relay.service.ts:23, "guarantee any missed or pending records get *)
(* relayed".                                                                *)
EveryRecordIsRelayed ==
  \A e \in Events : outbox[e] = "PENDING" ~> outbox[e] = "PUBLISHED"
=============================================================================
