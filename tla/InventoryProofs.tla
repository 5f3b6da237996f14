-------------------------- MODULE InventoryProofs --------------------------
(***************************************************************************)
(* Proofs about Inventory for every set of ids, users, events, concurrent  *)
(* handlers, durations and faults: the inductive invariant IInv, mutual    *)
(* exclusion of holds, what may take or free a seat, and the refinement of *)
(* HoldContract.                                                           *)
(***************************************************************************)
EXTENDS Inventory, TLAPS

USE ConstantsAssumption

-----------------------------------------------------------------------------
(* Rows: what handlers write is a row, and a well-formed one. *)

LEMMA FreedRow ==
  ASSUME NEW t \in Row, WellFormed(t)
  PROVE  Freed(t) \in Row /\ WellFormed(Freed(t))
<1>1. Freed(t) \in Row
  BY DEF Row, Statuses, Freed
<1>2. WellFormed(Freed(t))
  BY Zenon DEF Row, WellFormed, Freed
<1>3. QED
  BY <1>1, <1>2

LEMMA HeldRow ==
  ASSUME NEW t \in Row, WellFormed(t), NEW u \in Users, NEW x \in Nat \ {0}
  PROVE  HeldBy(t, u, x) \in Row /\ WellFormed(HeldBy(t, u, x))
<1>1. HeldBy(t, u, x) \in Row
  BY DEF Row, Statuses, HeldBy
<1>2. WellFormed(HeldBy(t, u, x))
  BY DEF Row, WellFormed, HeldBy
<1>3. QED
  BY <1>1, <1>2

LEMMA SoldRow ==
  ASSUME NEW t \in Row, WellFormed(t), NEW u \in Users
  PROVE  SoldTo(t, u) \in Row /\ WellFormed(SoldTo(t, u))
<1>1. SoldTo(t, u) \in Row
  BY DEF Row, Statuses, SoldTo
<1>2. WellFormed(SoldTo(t, u))
  BY DEF Row, WellFormed, SoldTo
<1>3. QED
  BY <1>1, <1>2

LEMMA ListedRow ==
  ASSUME NEW t \in Row, WellFormed(t), NEW u \in Users
  PROVE  ListedBy(t, u) \in Row /\ WellFormed(ListedBy(t, u))
<1>1. ListedBy(t, u) \in Row
  BY DEF Row, Statuses, Freed, ListedBy
<1>2. WellFormed(ListedBy(t, u))
  BY DEF Row, WellFormed, Freed, ListedBy
<1>3. QED
  BY <1>1, <1>2

LEMMA NewRows ==
  /\ Absent \in Row /\ WellFormed(Absent)
  /\ \A e \in Events : Seat(e) \in Row /\ WellFormed(Seat(e))
  BY DEF Row, Statuses, WellFormed, Absent, Seat

(* A save of well-formed copies leaves well-formed rows. *)
LEMMA SaveRows ==
  ASSUME TypeOK, RowShape, NEW w \in Workers, NEW new, Save(w, new),
         \A r \in Loaded(w) : new[r] \in Row /\ WellFormed(new[r])
  PROVE  row' \in [Ids -> Row] /\ \A r \in Ids : WellFormed(row'[r])
  BY DEF TypeOK, RowShape, Save

-----------------------------------------------------------------------------
(* Jobs: JobOK gathers what IInv says of one job. *)

CopyOK(j, t) ==
  \A r \in Ids : j.copy[r].status # "ABSENT" =>
    /\ j.pc \in {"lock", "hold"} => j.copy[r].status # "SOLD"
    /\ j.pc \in {"sweepDel", "sweepSave"} => j.copy[r].status = "HELD" /\ j.copy[r].until <= t

JobOK(j) ==
  /\ j \in Job
  /\ JobFits(j)
  /\ \A r \in Ids : WellFormed(j.copy[r])
  /\ CopyOK(j, now)

LEMMA JobsOK ==
  ASSUME TypeOK, RowShape, CopyFits, NEW w \in Workers
  PROVE  JobOK(job[w])
  BY DEF TypeOK, RowShape, CopyFits, JobOK, CopyOK, At, Loaded

(* Worker w alone moved, to a fitting job; Moves: other than into "hold". *)
Moved(w, j) == JobOK(j) /\ job' = [job EXCEPT ![w] = j]
Moves(w) == \E j \in {i \in Job : i.pc # "hold"} : Moved(w, j)

LEMMA OneJobMoves ==
  ASSUME TypeOK, RowShape, CopyFits, NEW w \in Workers, NEW j, Moved(w, j), now' = now
  PROVE  /\ job' \in [Workers -> Job]
         /\ \A v \in Workers : JobFits(job'[v])
         /\ \A v \in Workers, r \in Ids : WellFormed(job'[v].copy[r])
         /\ CopyFits'
<1>1. job' \in [Workers -> Job] /\ \A v \in Workers : JobOK(job'[v])
  BY JobsOK DEF TypeOK, JobOK, Moved
<1>2. QED
  BY <1>1 DEF CopyFits, JobOK, CopyOK, At, Loaded

LEMMA IdleOK == JobOK(Idle)
  BY NewRows DEF JobOK, Idle, Job, JobFits, PCs, Nothing, CopyOK, Absent, Ops

LEMMA DoneMoves ==
  ASSUME NEW w \in Workers, Done(w)
  PROVE  Moves(w)
<1>1. Idle \in Job /\ Idle.pc # "hold"
  BY IdleOK DEF JobOK, Idle
<1>2. Moved(w, Idle)
  BY IdleOK DEF Done, Moved
<1>3. QED
  BY <1>1, <1>2 DEF Moves

(* A job sent to the command pc, and one that has loaded copies c as well. *)
To(b, pc) == [b EXCEPT !.pc = pc]
ToWith(b, pc, c) == [b EXCEPT !.pc = pc, !.copy = c]

LEMMA ToFields ==
  ASSUME NEW b \in Job, NEW pc \in PCs
  PROVE  /\ To(b, pc) \in Job /\ To(b, pc).copy = b.copy /\ To(b, pc).pc = pc
         /\ To(b, pc).op = b.op /\ To(b, pc).id = b.id
         /\ To(b, pc).user = b.user /\ To(b, pc).event = b.event
  BY DEF Job, To

LEMMA ToWithFields ==
  ASSUME NEW b \in Job, NEW pc \in PCs, NEW c \in [Ids -> Row]
  PROVE  /\ ToWith(b, pc, c) \in Job /\ ToWith(b, pc, c).copy = c
         /\ ToWith(b, pc, c).pc = pc
         /\ JobFits(To(b, pc)) => JobFits(ToWith(b, pc, c))
<1>1. ToWith(b, pc, c) \in Job /\ ToWith(b, pc, c).copy = c /\ ToWith(b, pc, c).pc = pc
  BY DEF Job, ToWith
<1>2. /\ ToWith(b, pc, c).op = To(b, pc).op
      /\ ToWith(b, pc, c).id = To(b, pc).id
      /\ ToWith(b, pc, c).user = To(b, pc).user
      /\ ToWith(b, pc, c).event = To(b, pc).event
      /\ ToWith(b, pc, c).until = To(b, pc).until
  BY DEF Job, To, ToWith
<1>3. QED
  BY <1>1, <1>2, ToFields DEF JobFits

LEMMA GotoMoves ==
  ASSUME TypeOK, RowShape, CopyFits, NEW w \in Workers, NEW pc \in PCs \ {"hold"},
         Goto(w, pc), JobFits(To(job[w], pc)), CopyOK(To(job[w], pc), now)
  PROVE  Moves(w)
<1>1. job' = [job EXCEPT ![w] = To(job[w], pc)]
  BY DEF Goto, To
<1>2. job[w] \in Job /\ job[w].copy \in [Ids -> Row]
  BY DEF TypeOK, Job
<1>3. JobOK(To(job[w], pc))
  BY <1>2, ToFields DEF JobOK, RowShape
<1>4. Moved(w, To(job[w], pc)) /\ To(job[w], pc).pc # "hold"
  BY <1>1, <1>2, <1>3, ToFields DEF Moved
<1>5. QED
  BY <1>3, <1>4 DEF Moves, JobOK

LEMMA LoadMoves ==
  ASSUME TypeOK, RowShape, NEW w \in Workers, NEW ids, NEW pc \in PCs \ {"hold"},
         Load(w, ids, pc), JobFits(To(job[w], pc)),
         pc = "lock" => \A r \in ids \cap Ids : row[r].status # "SOLD",
         pc \in {"sweepDel", "sweepSave"} => ids \subseteq Expired
  PROVE  Moves(w)
<1> DEFINE c == [r \in Ids |-> IF r \in ids THEN row[r] ELSE Absent]
<1>1. job' = [job EXCEPT ![w] = ToWith(job[w], pc, c)]
  BY DEF Load, ToWith
<1>2. c \in [Ids -> Row] /\ \A r \in Ids : WellFormed(c[r])
  BY NewRows DEF TypeOK, RowShape
<1>3. job[w] \in Job
  BY DEF TypeOK
<1>4. \A j : j.copy = c /\ j.pc = pc => CopyOK(j, now)
  BY DEF CopyOK, Absent, Expired, TypeOK
<1> HIDE DEF c
<1>5. JobOK(ToWith(job[w], pc, c))
  BY <1>2, <1>3, <1>4, ToWithFields DEF JobOK
<1>6. Moved(w, ToWith(job[w], pc, c)) /\ ToWith(job[w], pc, c).pc # "hold"
  BY <1>1, <1>2, <1>3, <1>5, ToWithFields DEF Moved
<1>7. QED
  BY <1>5, <1>6 DEF Moves, JobOK

(* Every step of a worker but SetLock moves its job alone, to a fitting one. *)
LEMMA StartMoves ==
  ASSUME TypeOK, NEW w \in Workers, Call(w)
  PROVE  Moves(w)
<1>1. PICK op \in Ops, id \in Ids \cup {None}, u \in Users \cup {None},
           e \in Events \cup {None} :
        /\ Start(w, op, id, u, e)
        /\ op = "view" => e \in Events
        /\ op # "view" => id \in Ids /\ u \in Users
  BY DEF Call, Ops
<1> DEFINE j == [pc |-> First(op), op |-> op, id |-> id, user |-> u, event |-> e,
               until |-> 0, copy |-> Nothing]
<1>2. job' = [job EXCEPT ![w] = j]
  BY <1>1 DEF Start
<1>3. First(op) \in {"sweep", "resolve", "list"}
  BY DEF First, Ops
<1>4. j = [pc |-> First(op), op |-> op, id |-> id, user |-> u, event |-> e,
           until |-> 0, copy |-> Nothing]
  OBVIOUS
<1> HIDE DEF j
<1>5. j \in Job
  BY <1>3, <1>4, NewRows DEF Job, PCs, Nothing
<1>6. JobFits(j)
  BY <1>1, <1>3, <1>4 DEF JobFits, First, Ops
<1>7. (\A r \in Ids : WellFormed(j.copy[r])) /\ CopyOK(j, now)
  BY <1>4, NewRows DEF CopyOK, Nothing, Absent
<1>8. Moved(w, j) /\ j.pc # "hold"
  BY <1>2, <1>3, <1>4, <1>5, <1>6, <1>7 DEF Moved, JobOK
<1>9. QED
  BY <1>5, <1>8 DEF Moves

LEMMA FoundMoves ==
  ASSUME TypeOK, RowShape, CopyFits, NEW w \in Workers, NEW r \in Ids, Found(w, r),
         At(w, "resolve") \/ At(w, "alias") \/ At(w, "reload")
  PROVE  Moves(w)
<1>1. job[w] \in Job /\ JobFits(job[w])
  BY DEF TypeOK
<1>2. CASE Done(w)
  BY <1>2, DoneMoves
<1>3. CASE ~Done(w)
  <2>1. /\ Load(w, {r}, AfterResolve[job[w].op])
        /\ job[w].op = "reserve" => row[r].status # "SOLD"
    BY <1>3 DEF Found
  <2>2. job[w].op \in {"reserve", "release", "confirm"} /\ job[w].id \in Ids /\ job[w].user \in Users
    BY <1>1 DEF JobFits, At
  <2> DEFINE pc == AfterResolve[job[w].op]
  <2>3. /\ pc \in {"lock", "unlock", "sell"}
        /\ pc = "lock" => job[w].op = "reserve"
        /\ pc = "unlock" => job[w].op = "release"
        /\ pc = "sell" => job[w].op = "confirm"
    BY <2>2 DEF AfterResolve
  <2> HIDE DEF pc
  <2>4. pc \in PCs \ {"hold"}
    BY <2>3 DEF PCs
  <2>5. JobFits(To(job[w], pc))
    BY <1>1, <2>2, <2>3, <2>4, ToFields DEF JobFits
  <2>6. QED
    BY <2>1, <2>3, <2>4, <2>5, LoadMoves DEF pc
<1>4. QED
  BY <1>2, <1>3

(* The whole list: every other step of a worker moves its job alone. *)
LEMMA StepMoves ==
  ASSUME TypeOK, RowShape, CopyFits, NEW w \in Workers,
         Call(w) \/ Step(w) \/ Abort(w), ~SetLock(w)
  PROVE  Moves(w)
<1> USE DEF At
<1>1. job[w] \in Job /\ JobFits(job[w]) /\ CopyOK(job[w], now)
  BY JobsOK DEF TypeOK, JobOK
<1>2. ASSUME NEW pc \in PCs \ {"hold", "lock", "sweepDel"}, Goto(w, pc), JobFits(To(job[w], pc)),
             pc = "sweepSave" => At(w, "sweepDel")
      PROVE  Moves(w)
  <2>1. CopyOK(To(job[w], pc), now)
    BY <1>1, <1>2, ToFields DEF CopyOK
  <2>2. QED
    BY <1>2, <2>1, GotoMoves
<1>3. CASE Done(w)
  BY <1>3, DoneMoves
<1>4. CASE Call(w)
  BY <1>4, StartMoves
<1>5. CASE SweepFind(w)
  <2>1. AfterSweep(w) \in PCs \ {"hold", "lock", "sweepDel", "sweepSave"}
    BY DEF AfterSweep, PCs
  <2>2. JobFits(To(job[w], AfterSweep(w))) /\ JobFits(To(job[w], "sweepDel"))
    BY <1>1, <1>5, ToFields DEF SweepFind, AfterSweep, JobFits, PCs
  <2>3. CASE Expired = {}
    BY <1>2, <1>5, <2>1, <2>2, <2>3 DEF SweepFind
  <2>4. CASE Expired # {}
    BY <1>5, <2>2, <2>4, LoadMoves DEF SweepFind, PCs
  <2>5. QED
    BY <2>3, <2>4
<1>6. CASE SweepDel(w)
  <2>1. JobFits(To(job[w], "sweepSave"))
    BY <1>1, <1>6, ToFields DEF SweepDel, JobFits, PCs
  <2>2. QED
    BY <1>2, <1>6, <2>1 DEF SweepDel, PCs
<1>7. CASE SweepSave(w)
  <2>1. AfterSweep(w) \in {"find", "resolve"}
    BY DEF AfterSweep
  <2>2. JobFits(To(job[w], AfterSweep(w)))
    BY <1>1, <1>7, ToFields DEF SweepSave, AfterSweep, JobFits, PCs
  <2>3. QED
    BY <1>7, <2>1, <2>2, LoadMoves DEF SweepSave, PCs
<1>8. CASE Resolve(w) \/ ResolveAlias(w) \/ Reload(w)
  <2>1. /\ At(w, "resolve") \/ At(w, "alias") \/ At(w, "reload")
        /\ job[w].op \in {"reserve", "release", "confirm"}
        /\ job[w].id \in Ids /\ job[w].user \in Users /\ Alias[job[w].id] \in Ids
    BY <1>1, <1>8 DEF Resolve, ResolveAlias, Reload, JobFits
  <2>2. CASE \E r \in Ids : Found(w, r)
    BY <2>1, <2>2, FoundMoves
  <2>3. CASE Goto(w, "alias")
    <3>1. JobFits(To(job[w], "alias"))
      BY <1>1, <2>1, ToFields DEF JobFits, PCs
    <3>2. QED
      BY <1>2, <2>3, <3>1 DEF PCs
  <2>4. CASE EventOf[job[w].id] # None /\ Goto(w, "provision")
    <3>1. EventOf[job[w].id] \in Events
      BY <2>1, <2>4
    <3>2. JobFits(To(job[w], "provision"))
      BY <1>1, <2>1, <3>1, ToFields DEF JobFits, PCs
    <3>3. QED
      BY <1>2, <2>4, <3>2 DEF PCs
  <2>5. QED
    BY <1>3, <1>8, <2>1, <2>2, <2>3, <2>4 DEF Resolve, ResolveAlias, Reload, Missing
<1>9. CASE FindForEvent(w)
  <2>1. JobFits(To(job[w], "provision"))
    BY <1>1, <1>9, ToFields DEF FindForEvent, JobFits, PCs
  <2>2. QED
    BY <1>2, <1>3, <1>9, <2>1 DEF FindForEvent, PCs
<1>10. CASE Provision(w)
  <2>1. CASE job[w].op # "view"
    <3>1. JobFits(To(job[w], "reload"))
      BY <1>1, <1>10, <2>1, ToFields DEF Provision, JobFits, PCs
    <3>2. QED
      BY <1>2, <1>10, <2>1, <3>1 DEF Provision, PCs
  <2>2. QED
    BY <1>3, <1>10, <2>1 DEF Provision
<1>11. CASE Unlock(w)
  <2>1. JobFits(To(job[w], "free"))
    BY <1>1, <1>11, ToFields DEF Unlock, JobFits, PCs
  <2>2. QED
    BY <1>2, <1>3, <1>11, <2>1 DEF Unlock, PCs
<1>12. CASE SaveSold(w)
  <2>1. JobFits(To(job[w], "unlockSold"))
    BY <1>1, <1>12, ToFields DEF SaveSold, JobFits, PCs
  <2>2. QED
    BY <1>2, <1>12, <2>1 DEF SaveSold, PCs
<1>13. CASE ListFind(w)
  <2>1. JobFits(To(job[w], "listSave"))
    BY <1>1, <1>13, ToFields DEF ListFind, JobFits, PCs
  <2>2. QED
    BY <1>3, <1>13, <2>1, LoadMoves DEF ListFind, PCs
<1>14. CASE RefuseHold(w) \/ SaveHold(w) \/ SaveRelease(w) \/ UnlockSold(w)
            \/ SaveListing(w) \/ Abort(w)
  BY <1>3, <1>14 DEF RefuseHold, SaveHold, SaveRelease, UnlockSold, SaveListing, Abort
<1>15. QED
  BY <1>4, <1>5, <1>6, <1>7, <1>8, <1>9, <1>10, <1>11, <1>12, <1>13, <1>14 DEF Step

(* SetLock: either refused, or the job goes to "hold" with an expiry ahead. *)
Locked(w, d) == [job[w] EXCEPT !.pc = "hold", !.until = now + d]

LEMMA LockedFields ==
  ASSUME TypeOK, RowShape, CopyFits, NEW w \in Workers, At(w, "lock"), NEW d \in Durations
  PROVE  /\ JobOK(Locked(w, d))
         /\ Locked(w, d).pc = "hold" /\ Locked(w, d).id = job[w].id
         /\ Locked(w, d).user = job[w].user /\ Locked(w, d).until = now + d
         /\ job[w].id \in Ids /\ job[w].user \in Users /\ now + d \in Nat
<1> DEFINE j == Locked(w, d)
<1>1. job[w] \in Job /\ JobFits(job[w]) /\ d \in Nat /\ now + d \in Nat /\ now + d > 0
  BY DEF TypeOK
<1>2. /\ j \in Job /\ j.pc = "hold" /\ j.copy = job[w].copy /\ j.until = now + d
      /\ j.op = job[w].op /\ j.id = job[w].id
      /\ j.user = job[w].user /\ j.event = job[w].event
  BY <1>1 DEF Locked, Job, PCs
<1> HIDE DEF j
<1>3. JobFits(j) /\ job[w].id \in Ids /\ job[w].user \in Users
  BY <1>1, <1>2 DEF JobFits, At
<1>4. CopyOK(j, now)
  BY <1>2, JobsOK DEF CopyOK, JobOK, At
<1>5. QED
  BY <1>1, <1>2, <1>3, <1>4 DEF JobOK, RowShape, j

LEMMA SetLockMoves ==
  ASSUME TypeOK, RowShape, CopyFits, NEW w \in Workers, SetLock(w)
  PROVE  \E j : Moved(w, j)
<1>1. CASE Done(w)
  BY <1>1, IdleOK DEF Done, Moved
<1>2. CASE ~Done(w)
  <2>1. PICK d \in Durations :
          job' = [job EXCEPT ![w].pc = "hold", ![w].until = now + d]
    BY <1>2 DEF SetLock
  <2>2. job' = [job EXCEPT ![w] = Locked(w, d)]
    BY <2>1 DEF Locked
  <2>3. Moved(w, Locked(w, d))
    BY <2>2, LockedFields DEF SetLock, Moved
  <2>4. QED
    BY <2>3
<1>3. QED
  BY <1>1, <1>2

-----------------------------------------------------------------------------
(* IInv is inductive. *)

RowsOK == row \in [Ids -> Row] /\ \A r \in Ids : WellFormed(row[r])

(* Every write of a handler leaves well-formed rows. *)
LEMMA StepRows ==
  ASSUME TypeOK, RowShape, CopyFits, NEW w \in Workers,
         Call(w) \/ Step(w) \/ Abort(w)
  PROVE  RowsOK'
<1>1. ASSUME NEW r \in Ids
      PROVE  job[w].copy[r] \in Row /\ WellFormed(job[w].copy[r])
  BY DEF TypeOK, RowShape, Job
<1>2. job[w] \in Job /\ JobFits(job[w]) /\ RowsOK
  BY DEF TypeOK, RowShape, RowsOK
<1>3. CASE row' = row
  BY <1>2, <1>3 DEF RowsOK
<1>4. CASE SweepSave(w) \/ SaveRelease(w)
  BY <1>1, <1>4, FreedRow, SaveRows DEF SweepSave, SaveRelease, RowsOK, Loaded
<1>5. CASE SaveHold(w)
  <2>1. job[w].user \in Users
    BY <1>2, <1>5 DEF SaveHold, At, JobFits
  <2>2. job[w].until \in Nat \ {0}
    BY <1>2, <1>5 DEF SaveHold, At, JobFits, Job
  <2>3. QED
    BY <1>1, <1>5, <2>1, <2>2, HeldRow, SaveRows DEF SaveHold, RowsOK, Loaded
<1>6. CASE SaveSold(w)
  <2>1. job[w].user \in Users
    BY <1>2, <1>6 DEF SaveSold, At, JobFits
  <2>2. QED
    BY <1>1, <1>6, <2>1, SoldRow, SaveRows DEF SaveSold, RowsOK, Loaded
<1>7. CASE SaveListing(w)
  <2>1. job[w].user \in Users
    BY <1>2, <1>7 DEF SaveListing, At, JobFits
  <2>2. QED
    BY <1>1, <1>7, <2>1, ListedRow, SaveRows DEF SaveListing, RowsOK, Loaded
<1>8. CASE Provision(w)
  <2>1. (IF job[w].op = "view" THEN job[w].event ELSE EventOf[job[w].id]) \in Events
    BY <1>2, <1>8 DEF Provision, At, JobFits
  <2>2. QED
    BY <1>2, <1>8, <2>1, NewRows DEF Provision, RowsOK
<1>9. QED
  BY <1>3, <1>4, <1>5, <1>6, <1>7, <1>8
    DEF Call, Start, Step, Abort, SweepFind, SweepDel, Resolve, ResolveAlias, Reload,
        FindForEvent, SetLock, RefuseHold, Unlock, UnlockSold, ListFind

(* The other variables stay in their domains. *)
RestOK ==
  /\ lock \in [Ids -> Lock]
  /\ redis \in BOOLEAN
  /\ now \in Nat
  /\ claims \subseteq Claim
  /\ exposed \subseteq Ids
  /\ \A c \in claims : c.until > now

LEMMA StepRest ==
  ASSUME TypeOK, RowShape, CopyFits, NEW w \in Workers,
         Call(w) \/ Step(w) \/ Abort(w)
  PROVE  RestOK' /\ now' = now /\ redis' = redis
<1>1. RestOK /\ job[w] \in Job /\ JobFits(job[w])
  BY DEF TypeOK, RestOK
<1>2. CASE UNCHANGED <<lock, redis, now, claims, exposed>>
  BY <1>1, <1>2 DEF RestOK
<1>3. CASE Call(w)
  BY <1>1, <1>3 DEF Call, Start, RestOK
<1>4. CASE SweepDel(w) \/ Unlock(w) \/ UnlockSold(w)
  BY <1>1, <1>4 DEF SweepDel, Unlock, UnlockSold, Del, Loaded, RestOK, Lock, Free, JobFits, At
<1>5. CASE SetLock(w)
  <2>1. PICK d \in Durations :
          \/ lock' = [lock EXCEPT ![job[w].id] = [owner |-> job[w].user, until |-> now + d]]
               /\ exposed' = exposed
          \/ lock' = lock /\ exposed' = exposed
          \/ lock' = lock /\ exposed' = exposed \cup {job[w].id}
    BY <1>5 DEF SetLock
  <2>2. job[w].id \in Ids /\ job[w].user \in Users /\ now + d \in Nat
    BY <1>5, LockedFields DEF SetLock
  <2>3. [owner |-> job[w].user, until |-> now + d] \in Lock
    BY <2>2 DEF Lock
  <2>4. lock' \in [Ids -> Lock] /\ exposed' \subseteq Ids
    BY <1>1, <2>1, <2>2, <2>3 DEF RestOK
  <2>5. QED
    BY <1>1, <1>5, <2>4 DEF RestOK, SetLock
<1>6. CASE SaveHold(w)
  <2>1. job[w].id \in Ids /\ job[w].user \in Users /\ job[w].until \in Nat
    BY <1>1, <1>6 DEF SaveHold, At, JobFits, Job
  <2>2. QED
    BY <1>1, <1>6, <2>1 DEF SaveHold, RestOK, Claim
<1>7. QED
  BY <1>2, <1>3, <1>4, <1>5, <1>6
    DEF Step, Abort, SweepFind, SweepSave, Resolve, ResolveAlias, Reload,
        FindForEvent, Provision, RefuseHold, SaveRelease, SaveSold, ListFind, SaveListing

LEMMA EnvironmentRest ==
  ASSUME TypeOK, Environment
  PROVE  RestOK' /\ UNCHANGED <<row, job>> /\ now' >= now
<1>1. RestOK
  BY DEF TypeOK, RestOK
<1>2. CASE RedisDown \/ RedisUp
  <2>1. redis' \in BOOLEAN
    BY <1>2, Zenon DEF RedisDown, RedisUp
  <2>2. QED
    BY <1>1, <1>2, <2>1 DEF RedisDown, RedisUp, RestOK
<1>3. CASE RedisRestart
  BY <1>1, <1>3 DEF RedisRestart, RestOK, Lock, Free
<1>4. CASE Tick
  BY <1>1, <1>4 DEF Tick, RestOK, Claim
<1>5. QED
  BY <1>2, <1>3, <1>4 DEF Environment

(* Type correctness, row shape and what jobs carry are preserved together. *)
LEMMA TypeStep ==
  ASSUME TypeOK, RowShape, CopyFits, [Next]_vars
  PROVE  TypeOK' /\ RowShape' /\ CopyFits'
<1>1. ASSUME NEW w \in Workers, Call(w) \/ Step(w) \/ Abort(w)
      PROVE  TypeOK' /\ RowShape' /\ CopyFits'
  <2>1. PICK j : Moved(w, j)
    BY <1>1, StepMoves, SetLockMoves DEF Moves
  <2>2. RestOK' /\ now' = now /\ RowsOK'
    BY <1>1, StepRest, StepRows
  <2>3. QED
    BY <2>1, <2>2, OneJobMoves DEF TypeOK, RowShape, RowsOK, RestOK
<1>2. CASE Environment
  BY <1>2, EnvironmentRest DEF TypeOK, RowShape, CopyFits, RestOK, Loaded, At, Job, Row
<1>3. CASE UNCHANGED vars
  BY <1>3 DEF vars, TypeOK, RowShape, CopyFits, Loaded, At
<1>4. QED
  BY <1>1, <1>2, <1>3 DEF Next

-----------------------------------------------------------------------------
(* The hold relied on is the one in the Redis key, and the only one.        *)

(* Nobody new relies on a key, and a key that changed is exposed or unused. *)
LEMMA FewerRelied ==
  ASSUME LockBacksReliance, now' = now, claims' \subseteq claims,
         exposed \subseteq exposed',
         \A v \in Workers : job'[v] = job[v] \/ job'[v].pc # "hold",
         \A k \in Ids : lock'[k] = lock[k] \/ k \in exposed' \/ ~Relied(k)
  PROVE  LockBacksReliance'
<1> SUFFICES ASSUME NEW k \in Ids, k \notin exposed'
             PROVE  /\ \A c \in claims' : c.key = k =>
                         lock'[k] = [owner |-> c.user, until |-> c.until]
                    /\ \A w \in Workers : Acquired(w, k)' =>
                         /\ lock'[k] = [owner |-> job'[w].user, until |-> job'[w].until]
                         /\ \A c \in claims' : c.key # k
                         /\ \A v \in Workers : Acquired(v, k)' => v = w
  BY DEF LockBacksReliance
<1>1. \A w \in Workers : Acquired(w, k)' => Acquired(w, k) /\ job'[w] = job[w]
  BY DEF Acquired
<1>2. k \notin exposed
  OBVIOUS
<1>3. CASE Relied(k)
  BY <1>1, <1>2, <1>3 DEF LockBacksReliance
<1>4. CASE ~Relied(k)
  BY <1>1, <1>4 DEF Relied
<1>5. QED
  BY <1>3, <1>4

(* A key whose lock has run out, or is free, backs nobody. *)
LEMMA FreeBacksNobody ==
  ASSUME TypeOK, LockBacksReliance, NEW k \in Ids \ exposed, LockFree(k)
  PROVE  ~Relied(k)
<1>1. ASSUME NEW c \in claims, c.key = k
      PROVE  FALSE
  <2>1. lock[k] = [owner |-> c.user, until |-> c.until]
    BY <1>1 DEF LockBacksReliance
  <2>2. QED
    BY <2>1 DEF TypeOK, LockFree, Lock, Claim
<1>2. ASSUME NEW w \in Workers, Acquired(w, k)
      PROVE  FALSE
  <2>1. lock[k] = [owner |-> job[w].user, until |-> job[w].until]
    BY <1>2 DEF LockBacksReliance
  <2>2. QED
    BY <1>2, <2>1 DEF TypeOK, LockFree, Lock, Acquired, Job
<1>3. QED
  BY <1>1, <1>2 DEF Relied

LEMMA SetLockReliance ==
  ASSUME IInv, NEW w \in Workers, SetLock(w)
  PROVE  LockBacksReliance'
<1> DEFINE k == job[w].id
<1>0. TypeOK /\ RowShape /\ CopyFits /\ LockBacksReliance /\ job \in [Workers -> Job]
  BY DEF IInv, TypeOK
<1>1. CASE Done(w)
  <2>1. \A v \in Workers : job'[v] = job[v] \/ job'[v].pc # "hold"
    BY <1>0, <1>1 DEF Done, Idle
  <2>2. \A x \in Ids : lock'[x] = lock[x] \/ x \in exposed' \/ ~Relied(x)
    <3>1. CASE lock' = lock
      BY <3>1
    <3>2. CASE lock' # lock
      BY <1>0, <1>1, <3>2, FreeBacksNobody, LockedFields DEF SetLock, TypeOK
    <3>3. QED
      BY <3>1, <3>2
  <2>3. QED
    BY <1>0, <2>1, <2>2, FewerRelied DEF SetLock
<1>2. CASE ~Done(w)
  <2>1. PICK d \in Durations :
          /\ job' = [job EXCEPT ![w] = Locked(w, d)]
          /\ \/ /\ LockFree(k)
                /\ lock' = [lock EXCEPT ![k] = [owner |-> job[w].user, until |-> now + d]]
                /\ exposed' = exposed
             \/ exposed' = exposed \cup {k} /\ lock' = lock
    <3>1. PICK d \in Durations :
            /\ job' = [job EXCEPT ![w].pc = "hold", ![w].until = now + d]
            /\ \/ /\ LockFree(k)
                  /\ lock' = [lock EXCEPT ![k] = [owner |-> job[w].user, until |-> now + d]]
                  /\ exposed' = exposed
               \/ exposed' = exposed \cup {k} /\ lock' = lock
      BY <1>2 DEF SetLock
    <3>2. job' = [job EXCEPT ![w] = Locked(w, d)]
      BY <3>1 DEF Locked
    <3>3. QED
      BY <3>1, <3>2
  <2>2. /\ Locked(w, d).pc = "hold" /\ Locked(w, d).id = k
        /\ Locked(w, d).user = job[w].user /\ Locked(w, d).until = now + d
        /\ k \in Ids
    BY <1>0, LockedFields DEF SetLock
  <2>3. job'[w] = Locked(w, d) /\ \A v \in Workers : v # w => job'[v] = job[v]
    BY <1>0, <2>1
  <2>4. now' = now /\ claims' = claims /\ ~Acquired(w, k)
    BY DEF SetLock, Acquired, At
  <2> SUFFICES ASSUME NEW x \in Ids, x \notin exposed'
               PROVE  /\ \A c \in claims' : c.key = x =>
                           lock'[x] = [owner |-> c.user, until |-> c.until]
                      /\ \A u \in Workers : Acquired(u, x)' =>
                           /\ lock'[x] = [owner |-> job'[u].user, until |-> job'[u].until]
                           /\ \A c \in claims' : c.key # x
                           /\ \A v \in Workers : Acquired(v, x)' => v = u
    BY DEF LockBacksReliance
  <2>5. x \notin exposed
    BY <2>1
  <2>6. CASE x = k
    <3>1. /\ LockFree(x)
          /\ lock'[x] = [owner |-> job[w].user, until |-> now + d]
      BY <1>0, <2>1, <2>2, <2>6 DEF TypeOK
    <3>2. ~Relied(x)
      BY <1>0, <2>5, <3>1, FreeBacksNobody
    <3>3. ASSUME NEW v \in Workers, v # w
          PROVE  ~Acquired(v, x)'
      <4>1. job'[v] = job[v] /\ ~Acquired(v, x)
        BY <2>3, <3>2, <3>3 DEF Relied
      <4>2. QED
        BY <2>4, <4>1 DEF Acquired
    <3>4. QED
      BY <2>2, <2>3, <2>4, <3>1, <3>2, <3>3 DEF Relied
  <2>7. CASE x # k
    <3>1. lock'[x] = lock[x]
      BY <1>0, <2>1, <2>7 DEF TypeOK
    <3>2. \A v \in Workers : Acquired(v, x)' => Acquired(v, x) /\ job'[v] = job[v]
      BY <2>2, <2>3, <2>4, <2>7 DEF Acquired
    <3>3. QED
      BY <1>0, <2>4, <2>5, <3>1, <3>2 DEF LockBacksReliance
  <2>8. QED
    BY <2>6, <2>7
<1>3. QED
  BY <1>1, <1>2

(* What a grant finds: the key is backed, by this job alone. *)
LEMMA SaveHoldReliance ==
  ASSUME IInv, NEW w \in Workers, SaveHold(w)
  PROVE  LockBacksReliance'
<1> DEFINE j == job[w]
<1>1. /\ TypeOK /\ LockBacksReliance /\ job \in [Workers -> Job]
      /\ now' = now /\ lock' = lock /\ exposed' = exposed
      /\ job' = [job EXCEPT ![w] = Idle] /\ j.pc = "hold"
  BY DEF IInv, TypeOK, SaveHold, Done, At
<1>2. /\ job'[w].pc = "idle"
      /\ \A v \in Workers : v # w => job'[v] = job[v]
  BY <1>1 DEF Idle
<1>3. CASE claims' = claims
  <2>1. \A v \in Workers : job'[v] = job[v] \/ job'[v].pc # "hold"
    BY <1>2
  <2>2. QED
    BY <1>1, <1>3, <2>1, FewerRelied
<1>4. CASE claims' # claims
  <2>1. j.until > now /\ claims' = claims \cup {[key |-> j.id, user |-> j.user, until |-> j.until]}
    BY <1>4 DEF SaveHold
  <2> SUFFICES ASSUME NEW x \in Ids, x \notin exposed'
               PROVE  /\ \A c \in claims' : c.key = x =>
                           lock'[x] = [owner |-> c.user, until |-> c.until]
                      /\ \A u \in Workers : Acquired(u, x)' =>
                           /\ lock'[x] = [owner |-> job'[u].user, until |-> job'[u].until]
                           /\ \A c \in claims' : c.key # x
                           /\ \A v \in Workers : Acquired(v, x)' => v = u
    BY DEF LockBacksReliance
  <2>2. x \notin exposed /\ \A v \in Workers : Acquired(v, x)' => v # w /\ Acquired(v, x) /\ job'[v] = job[v]
    BY <1>1, <1>2 DEF Acquired
  <2>3. CASE x = j.id
    <3>1. Acquired(w, x)
      BY <1>1, <2>1, <2>3 DEF Acquired
    <3>2. /\ lock[x] = [owner |-> j.user, until |-> j.until]
          /\ \A c \in claims : c.key # x
          /\ \A v \in Workers : Acquired(v, x) => v = w
      BY <1>1, <2>2, <3>1 DEF LockBacksReliance
    <3>3. QED
      BY <1>1, <2>1, <2>2, <3>2
  <2>4. CASE x # j.id
    BY <1>1, <2>1, <2>2, <2>4 DEF LockBacksReliance
  <2>5. QED
    BY <2>3, <2>4
<1>5. QED
  BY <1>3, <1>4

LEMMA TickReliance ==
  ASSUME IInv, Tick
  PROVE  LockBacksReliance'
<1>1. /\ TypeOK /\ LockBacksReliance
      /\ lock' = lock /\ job' = job /\ now' = now + 1
      /\ claims' \subseteq claims
      /\ exposed' = {k \in exposed : Relied(k)'}
  BY DEF IInv, Tick
<1> SUFFICES ASSUME NEW x \in Ids, x \notin exposed'
             PROVE  /\ \A c \in claims' : c.key = x =>
                         lock'[x] = [owner |-> c.user, until |-> c.until]
                    /\ \A u \in Workers : Acquired(u, x)' =>
                         /\ lock'[x] = [owner |-> job'[u].user, until |-> job'[u].until]
                         /\ \A c \in claims' : c.key # x
                         /\ \A v \in Workers : Acquired(v, x)' => v = u
  BY DEF LockBacksReliance
<1>2. CASE x \in exposed
  BY <1>1, <1>2 DEF Relied
<1>3. CASE x \notin exposed
  <2>1. \A v \in Workers : Acquired(v, x)' => Acquired(v, x)
    BY <1>1 DEF Acquired, TypeOK, Job
  <2>2. QED
    BY <1>1, <1>3, <2>1 DEF LockBacksReliance
<1>4. QED
  BY <1>2, <1>3

(* A del, a restart of Redis: keys that lose their lock are unused or exposed. *)
LEMMA DelExposes ==
  ASSUME TypeOK, NEW keys, Del(keys)
  PROVE  /\ exposed \subseteq exposed'
         /\ \A k \in Ids : lock'[k] = lock[k] \/ k \in exposed' \/ ~Relied(k)
  BY DEF Del, TypeOK

LEMMA RelianceStep ==
  ASSUME IInv, [Next]_vars
  PROVE  LockBacksReliance'
<1>1. TypeOK /\ RowShape /\ CopyFits /\ LockBacksReliance /\ job \in [Workers -> Job]
  BY DEF IInv, TypeOK
<1>2. ASSUME NEW w \in Workers, Call(w) \/ Step(w) \/ Abort(w)
      PROVE  LockBacksReliance'
  <2>1. CASE SetLock(w)
    BY <2>1, SetLockReliance
  <2>2. CASE SaveHold(w)
    BY <2>2, SaveHoldReliance
  <2>3. CASE ~SetLock(w) /\ ~SaveHold(w)
    <3>1. PICK j \in Job : j.pc # "hold" /\ Moved(w, j)
      BY <1>1, <1>2, <2>3, StepMoves DEF Moves
    <3>2. \A v \in Workers : job'[v] = job[v] \/ job'[v].pc # "hold"
      BY <1>1, <3>1 DEF Moved
    <3>3. now' = now
      BY <1>1, <1>2, StepRest
    <3>4. CASE UNCHANGED <<lock, exposed>> /\ claims' \subseteq claims
      BY <1>1, <3>2, <3>3, <3>4, FewerRelied
    <3>5. CASE SweepDel(w) \/ Unlock(w) \/ UnlockSold(w)
      <4>1. claims' = claims /\ \E keys \in {Loaded(w), {job[w].id}} : Del(keys)
        BY <3>5 DEF SweepDel, Unlock, UnlockSold
      <4>2. QED
        BY <1>1, <3>2, <3>3, <4>1, DelExposes, FewerRelied
    <3>6. QED
      BY <1>2, <2>3, <3>4, <3>5
        DEF Call, Start, Step, Abort, SweepFind, SweepSave, Resolve, ResolveAlias, Reload,
            FindForEvent, Provision, RefuseHold, SaveRelease, SaveSold, ListFind, SaveListing
  <2>4. QED
    BY <2>1, <2>2, <2>3
<1>3. CASE RedisDown \/ RedisUp
  <2>1. UNCHANGED <<lock, now, job, claims, exposed>>
    BY <1>3 DEF RedisDown, RedisUp
  <2>2. QED
    BY <1>1, <2>1, FewerRelied
<1>4. CASE RedisRestart
  <2>1. /\ UNCHANGED <<now, job, claims>>
        /\ exposed \subseteq exposed'
        /\ \A k \in Ids : k \in exposed' \/ ~Relied(k)
    BY <1>4 DEF RedisRestart
  <2>2. QED
    BY <1>1, <2>1, FewerRelied
<1>5. CASE Tick
  BY <1>5, TickReliance
<1>6. CASE UNCHANGED vars
  <2>1. UNCHANGED <<lock, now, job, claims, exposed>>
    BY <1>6 DEF vars
  <2>2. QED
    BY <1>1, <2>1, FewerRelied
<1>7. QED
  BY <1>2, <1>3, <1>4, <1>5, <1>6 DEF Next, Environment

LEMMA InitIInv == Init => IInv
<1> SUFFICES ASSUME Init PROVE IInv
  OBVIOUS
<1>1. RowsOK
  BY NewRows DEF Init, RowsOK
<1>2. Free \in Lock
  BY DEF Free, Lock
<1>3. \A w \in Workers : job[w] = Idle /\ JobOK(job[w])
  BY IdleOK DEF Init
<1>4. TypeOK
  BY <1>1, <1>2, <1>3, Zenon DEF Init, TypeOK, RowsOK, JobOK
<1>5. RowShape /\ CopyFits
  BY <1>1, <1>3 DEF RowShape, CopyFits, RowsOK, JobOK, At, Loaded, Idle
<1>6. LockBacksReliance
  BY <1>3 DEF Init, LockBacksReliance, Acquired, Idle
<1>7. QED
  BY <1>4, <1>5, <1>6 DEF IInv

LEMMA IInvStep == IInv /\ [Next]_vars => IInv'
  BY TypeStep, RelianceStep DEF IInv

-----------------------------------------------------------------------------
(* Theorems *)

(* IInv holds throughout. *)
THEOREM Invariance == Spec => []IInv
  BY InitIInv, IInvStep, PTL DEF Spec

(* Every variable stays in its domain and every job has what it needs. *)
THEOREM TypeCorrect == Spec => []TypeOK
<1>1. IInv => TypeOK
  BY DEF IInv
<1>2. QED
  BY <1>1, Invariance, PTL

(* The columns of rows and of copies in flight agree with their status. *)
THEOREM RowsWellFormed == Spec => []RowShape
<1>1. IInv => RowShape
  BY DEF IInv
<1>2. QED
  BY <1>1, Invariance, PTL

(* The Redis key backs the hold that its caller relies on, and no other. *)
THEOREM LocksBackReliance == Spec => []LockBacksReliance
<1>1. IInv => LockBacksReliance
  BY DEF IInv
<1>2. QED
  BY <1>1, Invariance, PTL

(* Mutual exclusion: one unexpired hold per protected ticket id. *)
THEOREM HoldsExclusive == Spec => []OneHolderPerKey
<1>1. IInv => OneHolderPerKey
  <2> SUFFICES ASSUME IInv, NEW c \in claims, NEW d \in claims, c.key = d.key,
                      c.key \notin exposed
               PROVE  c = d
    BY DEF OneHolderPerKey
  <2>1. c \in Claim /\ d \in Claim
    BY DEF IInv, TypeOK
  <2>2. /\ lock[c.key] = [owner |-> c.user, until |-> c.until]
        /\ lock[c.key] = [owner |-> d.user, until |-> d.until]
    BY <2>1 DEF IInv, LockBacksReliance, Claim
  <2>3. QED
    BY <2>1, <2>2 DEF Claim
<1>2. QED
  BY <1>1, Invariance, PTL

(* What a save leaves in the status column. *)
LEMMA WrittenStatus ==
  /\ \A t \in Row : Freed(t).status = "AVAILABLE"
  /\ \A t \in Row : \A u : ListedBy(t, u).status = "AVAILABLE"
  /\ \A e : Seat(e).status = "AVAILABLE"
  /\ \A t \in Row : \A u : SoldTo(t, u).status = "SOLD"
  /\ \A t \in Row : \A u, x : HeldBy(t, u, x).status = "HELD" /\ HeldBy(t, u, x).holder = u
<1>1. ASSUME NEW t \in Row
      PROVE  Freed(t).status = "AVAILABLE"
  BY DEF Row, Freed
<1>2. ASSUME NEW t \in Row, NEW u
      PROVE  ListedBy(t, u).status = "AVAILABLE"
  BY DEF Row, Freed, ListedBy
<1>3. ASSUME NEW t \in Row, NEW u
      PROVE  SoldTo(t, u).status = "SOLD"
  BY DEF Row, SoldTo
<1>4. ASSUME NEW t \in Row, NEW u, NEW x
      PROVE  HeldBy(t, u, x).status = "HELD" /\ HeldBy(t, u, x).holder = u
  BY DEF Row, HeldBy
<1>5. ASSUME NEW e
      PROVE  Seat(e).status = "AVAILABLE"
  BY DEF Seat, Absent
<1>6. QED
  BY <1>1, <1>2, <1>3, <1>4, <1>5

(* Handler w writes row r: by a save, from its copy, or by provisioning. *)
Writes(w, r) ==
  \/ /\ r \in Loaded(w) /\ job[w].copy[r] \in Row
     /\ \/ /\ SweepSave(w) \/ SaveRelease(w)
           /\ row'[r] = Freed(job[w].copy[r])
        \/ /\ SaveHold(w)
           /\ row'[r] = HeldBy(job[w].copy[r], job[w].user, job[w].until)
        \/ SaveSold(w) /\ row'[r] = SoldTo(job[w].copy[r], job[w].user)
        \/ SaveListing(w) /\ row'[r] = ListedBy(job[w].copy[r], job[w].user)
  \/ Provision(w) /\ \E e : row'[r] = Seat(e)

LEMMA RowWriters ==
  ASSUME IInv, [Next]_vars, NEW r \in Ids, row'[r] # row[r]
  PROVE  \E w \in Workers : Writes(w, r)
<1>1. PICK w \in Workers : Call(w) \/ Step(w) \/ Abort(w)
  BY DEF Next, Environment, RedisDown, RedisUp, RedisRestart, Tick, vars
<1>2. job[w].copy[r] \in Row
  BY DEF IInv, TypeOK, Job
<1>3. SweepSave(w) \/ SaveRelease(w) \/ SaveHold(w) \/ SaveSold(w) \/ SaveListing(w) \/ Provision(w)
  BY <1>1 DEF Call, Start, Step, Abort, SweepFind, SweepDel, Resolve, ResolveAlias, Reload,
              FindForEvent, SetLock, RefuseHold, Unlock, UnlockSold, ListFind
<1>4. CASE Provision(w)
  BY <1>4 DEF Provision, IInv, TypeOK, Writes
<1>5. QED
  BY <1>2, <1>3, <1>4 DEF Writes, SweepSave, SaveRelease, SaveHold, SaveSold, SaveListing, Save

(* A taken seat goes to another hold only through a stale copy. *)
THEOREM SeatsTakenByStaleCopy == Spec => SeatTakenOnlyByStaleCopy
<1>1. ASSUME IInv, [Next]_vars, NEW r \in Ids,
             row[r].status = "SOLD" \/ LiveHold(row[r]),
             row'[r].status = "HELD",
             row[r].status = "HELD" => row'[r].holder # row[r].holder
      PROVE  \E w \in Workers : Stale(w, r) /\ job[w].op = "reserve"
  <2>1. row'[r] # row[r]
    BY <1>1 DEF LiveHold
  <2>0. PICK w \in Workers : Writes(w, r)
    BY <1>1, <2>1, RowWriters
  <2>2. /\ r \in Loaded(w) /\ job[w].copy[r] \in Row
        /\ SaveHold(w)
        /\ row'[r] = HeldBy(job[w].copy[r], job[w].user, job[w].until)
    BY <1>1, <2>0, WrittenStatus, NewRows DEF Writes
  <2>3. job[w].op = "reserve" /\ job[w].copy[r].status # "SOLD"
    BY <1>1, <2>2 DEF IInv, TypeOK, JobFits, CopyFits, SaveHold, At
  <2>4. row'[r].holder = job[w].user
    BY <2>2, WrittenStatus
  <2>5. ~(job[w].copy[r].status = "HELD" /\ job[w].copy[r].until > now
            /\ job[w].copy[r].holder # job[w].user)
    BY <2>2 DEF SaveHold, HeldByOther
  <2>6. job[w].copy[r] # row[r]
    BY <1>1, <2>3, <2>4, <2>5 DEF LiveHold
  <2>7. QED
    BY <2>2, <2>3, <2>6 DEF Stale
<1>2. IInv /\ [Next]_vars =>
        [\A r \in Ids :
           /\ row[r].status = "SOLD" \/ LiveHold(row[r])
           /\ row'[r].status = "HELD"
           /\ row[r].status = "HELD" => row'[r].holder # row[r].holder
           => \E w \in Workers : Stale(w, r) /\ job[w].op = "reserve"]_vars
  BY <1>1
<1>3. QED
  BY <1>2, Invariance, PTL DEF Spec, SeatTakenOnlyByStaleCopy

(* A live hold is freed only on purpose, or by a sweep with a stale copy. *)
THEOREM HoldsFreed == Spec => HoldFreedOnlyBy
<1>1. ASSUME IInv, [Next]_vars, NEW r \in Ids,
             LiveHold(row[r]), row'[r].status = "AVAILABLE"
      PROVE  \E w \in Workers :
               \/ At(w, "free") \/ At(w, "listSave") \/ At(w, "provision")
               \/ At(w, "sweepSave") /\ Stale(w, r)
  <2>1. row'[r] # row[r]
    BY <1>1 DEF LiveHold
  <2>0. PICK w \in Workers : Writes(w, r)
    BY <1>1, <2>1, RowWriters
  <2>2. SaveRelease(w) \/ SaveListing(w) \/ Provision(w) \/ (SweepSave(w) /\ r \in Loaded(w))
    BY <1>1, <2>0, WrittenStatus DEF Writes
  <2>3. CASE SweepSave(w) /\ r \in Loaded(w)
    <3>1. At(w, "sweepSave") /\ job[w].copy[r].until <= now
      BY <1>1, <2>3 DEF IInv, CopyFits, SweepSave, At
    <3>2. job[w].copy[r] # row[r]
      BY <1>1, <3>1 DEF LiveHold, IInv, TypeOK, Job, Row
    <3>3. QED
      BY <2>3, <3>1, <3>2 DEF Stale
  <2>4. QED
    BY <2>2, <2>3 DEF SaveRelease, SaveListing, Provision
<1>2. IInv /\ [Next]_vars =>
        [\A r \in Ids :
           LiveHold(row[r]) /\ row'[r].status = "AVAILABLE" =>
             \E w \in Workers :
               \/ At(w, "free") \/ At(w, "listSave") \/ At(w, "provision")
               \/ At(w, "sweepSave") /\ Stale(w, r)]_vars
  BY <1>1
<1>3. QED
  BY <1>2, Invariance, PTL DEF Spec, HoldFreedOnlyBy

-----------------------------------------------------------------------------
(* Refinement of HoldContract. *)

LEMMA ContractStep ==
  ASSUME IInv, IInv', [Next]_vars
  PROVE  [Contract!Next]_(Contract!vars)
<1>1. ASSUME NEW w \in Workers, Call(w) \/ Step(w) \/ Abort(w)
      PROVE  [Contract!Next]_(Contract!vars)
  <2>1. now' = now
    BY <1>1, StepRest DEF IInv
  <2>2. CASE UNCHANGED exposed /\ claims' \subseteq claims
    BY <2>1, <2>2 DEF Contract!Next, Contract!GiveUp
  <2>3. CASE UNCHANGED claims /\ exposed \subseteq exposed'
    <3>1. exposed' \subseteq Ids
      BY DEF IInv, TypeOK
    <3>2. QED
      BY <2>1, <2>3, <3>1 DEF Contract!Next, Contract!Withdraw
  <2>4. CASE SaveHold(w) /\ claims' # claims
    <3> DEFINE c == [key |-> job[w].id, user |-> job[w].user, until |-> job[w].until]
    <3>1. job[w].until > now /\ claims' = claims \cup {c} /\ exposed' = exposed
      BY <2>4 DEF SaveHold
    <3>2. c \in Claim
      BY <3>1 DEF IInv, TypeOK
    <3>3. c.key \in exposed \/ \A d \in claims : d.key # c.key
      <4>1. c.key \in Ids /\ Acquired(w, c.key)
        BY <2>4, <3>1, <3>2 DEF Acquired, SaveHold, At, Claim
      <4>2. QED
        BY <4>1 DEF IInv, LockBacksReliance
    <3>4. c \in claims' /\ c.until > now
      BY <3>1
    <3> HIDE DEF c
    <3>5. Contract!Grant
      BY <2>1, <3>1, <3>2, <3>3, <3>4 DEF Contract!Grant, Contract!Claim, Claim
    <3>6. QED
      BY <3>5 DEF Contract!Next
  <2>5. CASE SweepDel(w) \/ Unlock(w) \/ UnlockSold(w) \/ SetLock(w)
    BY <2>3, <2>5 DEF SweepDel, Unlock, UnlockSold, SetLock, Del
  <2>6. CASE Call(w)
    BY <2>2, <2>6 DEF Call, Start
  <2>7. QED
    BY <1>1, <2>2, <2>4, <2>5, <2>6
      DEF Step, Abort, SweepFind, SweepSave, Resolve, ResolveAlias, Reload, SaveHold,
          FindForEvent, Provision, RefuseHold, SaveRelease, SaveSold, ListFind, SaveListing
<1>2. CASE RedisDown \/ RedisUp \/ UNCHANGED vars
  BY <1>2 DEF RedisDown, RedisUp, vars, Contract!vars
<1>3. CASE RedisRestart
  <2>1. exposed' \subseteq Ids
    BY DEF IInv, TypeOK
  <2>2. QED
    BY <1>3, <2>1 DEF RedisRestart, Contract!Next, Contract!Withdraw
<1>4. CASE Tick
  <2>1. \A k \in exposed \ exposed' : \A c \in claims' : c.key # k
    BY <1>4 DEF Tick, Relied
  <2>2. QED
    BY <1>4, <2>1 DEF Tick, Contract!Next, Contract!Tick
<1>5. QED
  BY <1>1, <1>2, <1>3, <1>4 DEF Next, Environment

(* The handlers, rows and keys implement the contract of a hold. *)
THEOREM KeepsHoldContract == Spec => KeepsContract
<1>1. Init => Contract!Init
  BY DEF Init, Contract!Init
<1>2. IInv /\ IInv' /\ [Next]_vars => [Contract!Next]_(Contract!vars)
  BY ContractStep
<1>3. QED
  BY <1>1, <1>2, Invariance, PTL DEF Spec, KeepsContract, Contract!Spec

(* The contract is worth keeping: whoever implements HoldContract, in any   *)
(* way, never grants a protected key to two callers at once.                *)
THEOREM ContractIsExclusive == Contract!Spec => []Contract!OneHolder
<1>1. Contract!Init => Contract!OneHolder
  BY DEF Contract!Init, Contract!OneHolder
<1>2. Contract!OneHolder /\ [Contract!Next]_(Contract!vars) => Contract!OneHolder'
  <2> SUFFICES ASSUME Contract!OneHolder, [Contract!Next]_(Contract!vars) PROVE Contract!OneHolder'
    OBVIOUS
  <2>1. CASE Contract!Grant
    BY <2>1 DEF Contract!Grant, Contract!OneHolder
  <2>2. CASE Contract!GiveUp \/ Contract!Withdraw \/ UNCHANGED Contract!vars
    BY <2>2 DEF Contract!GiveUp, Contract!Withdraw, Contract!vars, Contract!OneHolder
  <2>3. CASE Contract!Tick
    BY <2>3 DEF Contract!Tick, Contract!OneHolder
  <2>4. QED BY <2>1, <2>2, <2>3 DEF Contract!Next
<1>3. QED BY <1>1, <1>2, PTL DEF Contract!Spec
=============================================================================
