----------------------------- MODULE Inventory -----------------------------
(***************************************************************************)
(* The inventory service: rows of the PostgreSQL table tickets, the Redis  *)
(* keys ticket:hold:<id>, and the handlers of InventoryService running     *)
(* concurrently in one Node process.  A handler runs alone between two     *)
(* awaits, so a step of a job is one awaited query or Redis command with   *)
(* the synchronous code up to the next one; pc names the command issued    *)
(* next.  What a query returned stays in the job (copy) while others move. *)
(***************************************************************************)
EXTENDS Naturals, FiniteSets

CONSTANTS
  Ids,        \* ticket ids that requests carry and rows have
  Users,
  Events,
  Workers,    \* handler invocations that may be in flight at once
  None,       \* the empty string of ids, holders and sellers
  Alias,      \* Alias[id]: the other spelling (evt_1 / evt1), id if it has none
  EventOf,    \* EventOf[id]: the event in tkt_<event>_<n>, None if no match
  SeatsOf,    \* SeatsOf[e]: the ids provisionEventSeats(e) writes
  SeedEvent,  \* SeedEvent[id]: event of a row seeded at start, None if not seeded
  Durations,  \* hold durations that requests ask for
  Calls,      \* operations the environment invokes
  Faults,     \* "redis": Redis can be lost or restart; "abort": a handler can die
  MaxNow      \* bound on the clock, for TLC

Ops == {"reserve", "release", "confirm", "list", "view"}

ASSUME ConstantsAssumption ==
  /\ None \notin Ids \cup Users \cup Events \cup Ops
  /\ Alias \in [Ids -> Ids]
  /\ EventOf \in [Ids -> Events \cup {None}]
  /\ SeatsOf \in [Events -> SUBSET Ids]
  /\ SeedEvent \in [Ids -> Events \cup {None}]
  /\ Durations \subseteq Nat \ {0}
  /\ Calls \subseteq Ops
  /\ Faults \subseteq {"redis", "abort"}
  /\ MaxNow \in Nat

VARIABLES
  row,      \* row[id]: the tickets row, status "ABSENT" when there is none
  lock,     \* lock[id]: owner and expiry of the Redis key ticket:hold:<id>
  redis,    \* Redis answers; FALSE also stands for the null client
  now,
  job,      \* job[w]: the handler invocation w
  claims,   \* history: unexpired holds a caller was told it has
  exposed   \* history: keys whose protection was withdrawn under a live hold

vars == <<row, lock, redis, now, job, claims, exposed>>

(***************************************************************************)
(* Data                                                                    *)
(***************************************************************************)
Statuses == {"AVAILABLE", "HELD", "SOLD"}

Row == [status : Statuses \cup {"ABSENT"}, holder : Users \cup {None},
        until : Nat, resale : BOOLEAN, seller : Users \cup {None},
        event : Events \cup {None}]

Absent == [status |-> "ABSENT", holder |-> None, until |-> 0,
           resale |-> FALSE, seller |-> None, event |-> None]

Seat(e) == [Absent EXCEPT !.status = "AVAILABLE", !.event = e]

Free == [owner |-> None, until |-> 0]
Lock == [owner : Users \cup {None}, until : Nat]

Claim == [key : Ids, user : Users, until : Nat]

PCs == {"sweep", "sweepDel", "sweepSave", "find", "resolve", "alias",
        "provision", "reload", "lock", "hold", "unlock", "free", "sell",
        "unlockSold", "list", "listSave"}

Nothing == [r \in Ids |-> Absent]      \* no row loaded

Idle == [pc |-> "idle", op |-> None, id |-> None, user |-> None,
         event |-> None, until |-> 0, copy |-> Nothing]

Job == [pc : PCs \cup {"idle"}, op : Ops \cup {None}, id : Ids \cup {None},
        user : Users \cup {None}, event : Events \cup {None}, until : Nat,
        copy : [Ids -> Row]]

Loaded(w) == {r \in Ids : job[w].copy[r].status # "ABSENT"}

(* What is written into a loaded ticket before it is saved.  A definition    *)
(* marked "variant" here and below is a faulty form of the one that follows *)
(* it; no specification uses it, and the README names the property that     *)
(* rejects it.                                                              *)
FreedKeepingExpiry(t) == [t EXCEPT !.status = "AVAILABLE", !.holder = None]  \* variant
Freed(t)      == [t EXCEPT !.status = "AVAILABLE", !.holder = None, !.until = 0]
HeldBy(t, u, x) == [t EXCEPT !.status = "HELD", !.holder = u, !.until = x]
SoldStillListed(t, u) == [t EXCEPT !.status = "SOLD", !.holder = u, !.until = 0]  \* variant
SoldToHolder(t, u) == [t EXCEPT !.status = "SOLD", !.until = 0, !.resale = FALSE] \* variant
SoldTo(t, u)  == [t EXCEPT !.status = "SOLD", !.holder = u, !.until = 0,
                           !.resale = FALSE]
ListedBy(t, u) == [Freed(t) EXCEPT !.resale = TRUE, !.seller = u]

(***************************************************************************)
(* Who relies on a Redis key: callers told they hold it, and jobs that     *)
(* have it and are about to say so.                                        *)
(***************************************************************************)
Acquired(w, k) == job[w].pc = "hold" /\ job[w].id = k /\ job[w].until > now
Relied(k) == \/ \E c \in claims : c.key = k
             \/ \E w \in Workers : Acquired(w, k)

LockFree(k) == lock[k].until <= now

(* redisClient.del: no effect, and no error seen, when Redis is unreachable. *)
Del(keys) ==
  /\ lock' = IF redis THEN [k \in Ids |-> IF k \in keys THEN Free ELSE lock[k]]
                      ELSE lock
  /\ exposed' = exposed \cup {k \in keys : Relied(k)}

(* ticketRepo.save: each loaded row is overwritten by its modified copy. *)
Save(w, new) ==
  row' = [r \in Ids |-> IF r \in Loaded(w) THEN new[r] ELSE row[r]]

At(w, pc) == job[w].pc = pc
Goto(w, pc) == job' = [job EXCEPT ![w].pc = pc]
Done(w) == job' = [job EXCEPT ![w] = Idle]

Load(w, ids, pc) ==
  job' = [job EXCEPT ![w].pc = pc,
            ![w].copy = [r \in Ids |-> IF r \in ids THEN row[r] ELSE Absent]]

(***************************************************************************)
(* A handler is invoked: gRPC, or payment.succeeded / payment.failed.      *)
(* Whoever releases a hold or has it confirmed stops relying on it.        *)
(***************************************************************************)
First(op) == CASE op \in {"reserve", "view"} -> "sweep"
               [] op \in {"release", "confirm"} -> "resolve"
               [] op = "list" -> "list"

Start(w, op, id, user, event) ==
  /\ At(w, "idle")
  /\ job' = [job EXCEPT ![w] =
       [pc |-> First(op), op |-> op, id |-> id, user |-> user, event |-> event,
        until |-> 0, copy |-> Nothing]]
  /\ claims' = IF op \in {"release", "confirm"}
               THEN {c \in claims : c.key # id \/ c.user # user}
               ELSE claims
  /\ UNCHANGED <<row, lock, redis, now, exposed>>

Call(w) ==
  \/ \E op \in Calls \ {"view"}, id \in Ids, u \in Users : Start(w, op, id, u, None)
  \/ "view" \in Calls /\ \E e \in Events : Start(w, "view", None, None, e)

(***************************************************************************)
(* cleanupExpiredHolds, run first by reserveTicketHold and                 *)
(* getTicketsForEvent: find, then the dels with the rows reset in memory,  *)
(* then the save.                                                          *)
(***************************************************************************)
AnyHeld == {r \in Ids : row[r].status = "HELD"}    \* variant
Expired == {r \in Ids : row[r].status = "HELD" /\ row[r].until \in 1 .. now}

AfterSweep(w) == IF job[w].op = "view" THEN "find" ELSE "resolve"

SweepFind(w) ==
  /\ At(w, "sweep")
  /\ IF Expired = {} THEN Goto(w, AfterSweep(w)) ELSE Load(w, Expired, "sweepDel")
  /\ UNCHANGED <<row, lock, redis, now, claims, exposed>>

SweepDel(w) ==
  /\ At(w, "sweepDel")
  /\ Del(Loaded(w))
  /\ Goto(w, "sweepSave")
  /\ UNCHANGED <<row, redis, now, claims>>

SweepSave(w) ==
  /\ At(w, "sweepSave")
  /\ Save(w, [r \in Ids |-> Freed(job[w].copy[r])])
  /\ Load(w, {}, AfterSweep(w))
  /\ UNCHANGED <<lock, redis, now, claims, exposed>>

(***************************************************************************)
(* resolveTicket and provisionEventSeats.  Found is the synchronous code   *)
(* of the caller after resolveTicket returned row r.                       *)
(***************************************************************************)
AfterResolveSwapped == [reserve |-> "lock", release |-> "sell", confirm |-> "unlock"]  \* variant
AfterResolve == [reserve |-> "lock", release |-> "unlock", confirm |-> "sell"]

Found(w, r) ==
  IF job[w].op = "reserve" /\ row[r].status = "SOLD"
  THEN Done(w)
  ELSE Load(w, {r}, AfterResolve[job[w].op])

Missing(w) ==
  IF EventOf[job[w].id] = None THEN Done(w) ELSE Goto(w, "provision")

Present(r) == row[r].status # "ABSENT"

Resolve(w) ==
  LET id == job[w].id IN
  /\ At(w, "resolve")
  /\ IF Present(id) THEN Found(w, id)
     ELSE IF Alias[id] # id THEN Goto(w, "alias") ELSE Missing(w)
  /\ UNCHANGED <<row, lock, redis, now, claims, exposed>>

ResolveAlias(w) ==
  LET id == Alias[job[w].id] IN
  /\ At(w, "alias")
  /\ IF Present(id) THEN Found(w, id) ELSE Missing(w)
  /\ UNCHANGED <<row, lock, redis, now, claims, exposed>>

Reload(w) ==
  LET id == job[w].id IN
  /\ At(w, "reload")
  /\ IF Present(id) THEN Found(w, id) ELSE Done(w)
  /\ UNCHANGED <<row, lock, redis, now, claims, exposed>>

FindForEvent(w) ==
  /\ At(w, "find")
  /\ IF \E r \in Ids : row[r].event = job[w].event THEN Done(w) ELSE Goto(w, "provision")
  /\ UNCHANGED <<row, lock, redis, now, claims, exposed>>

(* The save of all seats of the event as AVAILABLE, over whatever is there; *)
(* an error is caught.  The find after it only feeds the answer.            *)
Provision(w) ==
  LET e == IF job[w].op = "view" THEN job[w].event ELSE EventOf[job[w].id] IN
  /\ At(w, "provision")
  /\ \/ row' = [r \in Ids |-> IF r \in SeatsOf[e] THEN Seat(e) ELSE row[r]]
     \/ "abort" \in Faults /\ row' = row
  /\ IF job[w].op = "view" THEN Done(w) ELSE Goto(w, "reload")
  /\ UNCHANGED <<lock, redis, now, claims, exposed>>

(***************************************************************************)
(* reserveTicketHold after the sweep and the SOLD check.                   *)
(***************************************************************************)
SetLockWithoutNX(w) ==                                 \* variant
  /\ At(w, "lock")
  /\ \E d \in Durations :
       /\ lock' = [lock EXCEPT ![job[w].id] = [owner |-> job[w].user, until |-> now + d]]
       /\ job' = [job EXCEPT ![w].pc = "hold", ![w].until = now + d]
  /\ UNCHANGED <<row, redis, now, claims, exposed>>

SetLockShort(w) ==                                     \* variant: the key expires first
  LET k == job[w].id IN
  /\ At(w, "lock")
  /\ IF LockFree(k)
     THEN \E d \in Durations :
       /\ lock' = [lock EXCEPT ![k] = [owner |-> job[w].user, until |-> now + d]]
       /\ job' = [job EXCEPT ![w].pc = "hold", ![w].until = now + d + 1]
     ELSE Done(w) /\ UNCHANGED lock
  /\ UNCHANGED <<row, redis, now, claims, exposed>>

SetLock(w) ==
  LET k == job[w].id IN
  /\ At(w, "lock")
  /\ \E d \in Durations :
       LET held == [job EXCEPT ![w].pc = "hold", ![w].until = now + d] IN
       \/ /\ redis /\ LockFree(k)
          /\ lock' = [lock EXCEPT ![k] = [owner |-> job[w].user, until |-> now + d]]
          /\ job' = held
          /\ UNCHANGED exposed
       \/ /\ redis /\ ~LockFree(k)
          /\ Done(w)
          /\ UNCHANGED <<lock, exposed>>
       \/ /\ ~redis
          /\ job' = held
          /\ exposed' = exposed \cup {k}
          /\ UNCHANGED lock
  /\ UNCHANGED <<row, redis, now, claims>>

NeverHeldByOther(w) == FALSE                           \* variant: no holder check
HeldByOther(w) ==
  \E r \in Loaded(w) : LET t == job[w].copy[r] IN
    t.status = "HELD" /\ t.until > now /\ t.holder # job[w].user

RefuseHold(w) ==
  /\ At(w, "hold")
  /\ HeldByOther(w)
  /\ Done(w)
  /\ UNCHANGED <<row, lock, redis, now, claims, exposed>>

SaveHold(w) ==
  LET j == job[w] IN
  /\ At(w, "hold")
  /\ ~HeldByOther(w)
  /\ Save(w, [r \in Ids |-> HeldBy(j.copy[r], j.user, j.until)])
  /\ claims' = IF j.until > now
               THEN claims \cup {[key |-> j.id, user |-> j.user, until |-> j.until]}
               ELSE claims
  /\ Done(w)
  /\ UNCHANGED <<lock, redis, now, exposed>>

(***************************************************************************)
(* releaseTicketHold: nobody asks whose hold it is.                        *)
(***************************************************************************)
UnlockKeyOnly(w) ==                                    \* variant: the row is left
  /\ At(w, "unlock")
  /\ Del({job[w].id})
  /\ Done(w)
  /\ UNCHANGED <<row, redis, now, claims>>

Unlock(w) ==
  /\ At(w, "unlock")
  /\ Del({job[w].id})
  /\ IF \E r \in Loaded(w) : job[w].copy[r].status = "HELD"
     THEN Goto(w, "free") ELSE Done(w)
  /\ UNCHANGED <<row, redis, now, claims>>

SaveRelease(w) ==
  /\ At(w, "free")
  /\ Save(w, [r \in Ids |-> Freed(job[w].copy[r])])
  /\ Done(w)
  /\ UNCHANGED <<lock, redis, now, claims, exposed>>

(***************************************************************************)
(* confirmTicketSold: sells whatever the row says, then drops the key.     *)
(***************************************************************************)
SaveSoldIfLocked(w) ==                                 \* variant: needs the key still
  /\ At(w, "sell")
  /\ IF lock[job[w].id].owner = job[w].user
     THEN Save(w, [r \in Ids |-> SoldTo(job[w].copy[r], job[w].user)])
     ELSE UNCHANGED row
  /\ Goto(w, "unlockSold")
  /\ UNCHANGED <<lock, redis, now, claims, exposed>>

SaveSold(w) ==
  /\ At(w, "sell")
  /\ Save(w, [r \in Ids |-> SoldTo(job[w].copy[r], job[w].user)])
  /\ Goto(w, "unlockSold")
  /\ UNCHANGED <<lock, redis, now, claims, exposed>>

UnlockSold(w) ==
  /\ At(w, "unlockSold")
  /\ Del({job[w].id})
  /\ Done(w)
  /\ UNCHANGED <<row, redis, now, claims>>

(***************************************************************************)
(* listResaleTicket: any row that exists, whoever asks.                    *)
(***************************************************************************)
ListFind(w) ==
  LET id == job[w].id IN
  /\ At(w, "list")
  /\ IF Present(id) THEN Load(w, {id}, "listSave") ELSE Done(w)
  /\ UNCHANGED <<row, lock, redis, now, claims, exposed>>

SaveListing(w) ==
  /\ At(w, "listSave")
  /\ Save(w, [r \in Ids |-> ListedBy(job[w].copy[r], job[w].user)])
  /\ Done(w)
  /\ UNCHANGED <<lock, redis, now, claims, exposed>>

(* A rejected query, or a restart of the service, ends a handler early. *)
Abort(w) ==
  /\ "abort" \in Faults
  /\ ~At(w, "idle")
  /\ Done(w)
  /\ UNCHANGED <<row, lock, redis, now, claims, exposed>>

(***************************************************************************)
(* Redis and the clock                                                     *)
(***************************************************************************)
RedisDown ==
  /\ "redis" \in Faults
  /\ redis
  /\ redis' = FALSE
  /\ UNCHANGED <<row, lock, now, job, claims, exposed>>

RedisUp ==
  /\ ~redis
  /\ redis' = TRUE
  /\ UNCHANGED <<row, lock, now, job, claims, exposed>>

RedisRestart ==                 \* the deployment keeps no volume
  /\ "redis" \in Faults
  /\ lock' = [k \in Ids |-> Free]
  /\ exposed' = exposed \cup {k \in Ids : Relied(k)}
  /\ UNCHANGED <<row, redis, now, job, claims>>

Tick ==
  /\ now < MaxNow
  /\ now' = now + 1
  /\ UNCHANGED <<row, lock, redis, job>>
  /\ claims' = {c \in claims : c.until > now'}
  /\ exposed' = {k \in exposed : Relied(k)'}

Step(w) ==
  \/ SweepFind(w) \/ SweepDel(w) \/ SweepSave(w)
  \/ Resolve(w) \/ ResolveAlias(w) \/ Reload(w)
  \/ FindForEvent(w) \/ Provision(w)
  \/ SetLock(w) \/ RefuseHold(w) \/ SaveHold(w)
  \/ Unlock(w) \/ SaveRelease(w)
  \/ SaveSold(w) \/ UnlockSold(w)
  \/ ListFind(w) \/ SaveListing(w)

Environment == RedisDown \/ RedisUp \/ RedisRestart \/ Tick

Init ==
  /\ row = [r \in Ids |-> IF SeedEvent[r] = None THEN Absent ELSE Seat(SeedEvent[r])]
  /\ lock = [k \in Ids |-> Free]
  /\ redis = TRUE
  /\ now = 0
  /\ job = [w \in Workers |-> Idle]
  /\ claims = {}
  /\ exposed = {}

Next == (\E w \in Workers : Call(w) \/ Step(w) \/ Abort(w)) \/ Environment

Spec == Init /\ [][Next]_vars

-----------------------------------------------------------------------------
(***************************************************************************)
(* Properties                                                              *)
(***************************************************************************)

(* What a job has when it issues the command pc. *)
JobFits(j) ==
  /\ j.pc \in {"sweep", "sweepDel", "sweepSave"} => j.op \in {"reserve", "view"}
  /\ j.pc \in {"resolve", "alias", "reload"} => j.op \in {"reserve", "release", "confirm"}
  /\ j.pc = "find" => j.op = "view"
  /\ j.pc = "provision" => j.op \in {"reserve", "release", "confirm", "view"}
  /\ j.pc \in {"lock", "hold"} => j.op = "reserve"
  /\ j.pc \in {"unlock", "free"} => j.op = "release"
  /\ j.pc \in {"sell", "unlockSold"} => j.op = "confirm"
  /\ j.pc \in {"list", "listSave"} => j.op = "list"
  /\ j.op = "view" => j.event \in Events
  /\ j.pc # "idle" /\ j.op # "view" => j.id \in Ids /\ j.user \in Users
  /\ j.pc = "provision" /\ j.op # "view" => EventOf[j.id] \in Events
  /\ j.pc = "hold" => j.until > 0

(* Every variable stays in its domain, a job has the arguments that its     *)
(* next command needs, and claims holds unexpired holds only.               *)
TypeOK ==
  /\ row \in [Ids -> Row]
  /\ lock \in [Ids -> Lock]
  /\ redis \in BOOLEAN
  /\ now \in Nat
  /\ job \in [Workers -> Job]
  /\ \A w \in Workers : JobFits(job[w])
  /\ claims \subseteq Claim
  /\ exposed \subseteq Ids
  /\ \A c \in claims : c.until > now

WellFormed(t) ==
  /\ t.status \in {"ABSENT", "AVAILABLE"} => t.holder = None /\ t.until = 0
  /\ t.status = "HELD" => t.holder # None /\ t.until > 0
  /\ t.status = "SOLD" => t.holder # None /\ t.until = 0 /\ ~t.resale
  /\ t.resale => t.seller # None

(* The columns of a row agree with its status, in the table and in every    *)
(* copy a handler still holds: whatever order the full-row saves land in,   *)
(* a sold seat is not offered for resale, and a held one has a holder and   *)
(* an expiry that the sweep can see.                                        *)
RowShape ==
  /\ \A r \in Ids : WellFormed(row[r])
  /\ \A w \in Workers, r \in Ids : WellFormed(job[w].copy[r])

(* Two buyers are never both told that they hold the same ticket id, unless *)
(* Redis was lost or bypassed, or a key was deleted under a live hold (by a *)
(* late sweep, another caller's release, or a sale).                        *)
OneHolderPerKey ==
  \A c, d \in claims : c.key = d.key /\ c.key \notin exposed => c = d

(* ... because the hold a caller relies on, or is about to be told it has,  *)
(* is the one in the Redis key, and the only one.                           *)
LockBacksReliance ==
  \A k \in Ids \ exposed :
    /\ \A c \in claims : c.key = k => lock[k] = [owner |-> c.user, until |-> c.until]
    /\ \A w \in Workers : Acquired(w, k) =>
         /\ lock[k] = [owner |-> job[w].user, until |-> job[w].until]
         /\ \A c \in claims : c.key # k
         /\ \A v \in Workers : Acquired(v, k) => v = w

(* A reserve past its SOLD check carries a row that was not sold, a sweep    *)
(* carries expired holds only, whatever the rows have become meanwhile.      *)
CopyFits ==
  \A w \in Workers : \A r \in Loaded(w) : LET t == job[w].copy[r] IN
    /\ At(w, "lock") \/ At(w, "hold") => t.status # "SOLD"
    /\ At(w, "sweepDel") \/ At(w, "sweepSave") => t.status = "HELD" /\ t.until <= now

IInv == TypeOK /\ RowShape /\ CopyFits /\ LockBacksReliance

LiveHold(t) == t.status = "HELD" /\ t.until > now
Stale(w, r) == r \in Loaded(w) /\ job[w].copy[r] # row[r]

(* A seat that is sold, or held by somebody and not expired, is given to a  *)
(* hold of somebody else only by a handler that read the row before it      *)
(* became so: on a fresh read the SOLD check and the holder check of        *)
(* reserveTicketHold refuse, whichever spelling of the id was locked.       *)
SeatTakenOnlyByStaleCopy ==
  [][\A r \in Ids :
       /\ row[r].status = "SOLD" \/ LiveHold(row[r])
       /\ row'[r].status = "HELD"
       /\ row[r].status = "HELD" => row'[r].holder # row[r].holder
       => \E w \in Workers : Stale(w, r) /\ job[w].op = "reserve"]_vars

(* An unexpired hold returns to AVAILABLE only by a release, a relisting or *)
(* provisioning, or by a sweep that found an older, expired hold there.     *)
HoldFreedOnlyBy ==
  [][\A r \in Ids :
       LiveHold(row[r]) /\ row'[r].status = "AVAILABLE" =>
         \E w \in Workers :
           \/ At(w, "free") \/ At(w, "listSave") \/ At(w, "provision")
           \/ At(w, "sweepSave") /\ Stale(w, r)]_vars

(* The handlers, rows and Redis keys together keep that promise. *)
Contract == INSTANCE HoldContract
  WITH Ids <- Ids, Users <- Users, now <- now, claims <- claims, exposed <- exposed
KeepsContract == Contract!Spec
=============================================================================
