------------------------------ MODULE Booking ------------------------------
(***************************************************************************)
(* The life of a booking: BuisnesService.createBooking, cancellBooking and *)
(* the cron job that completes past visits, running concurrently over one  *)
(* Postgres table, the row locks of the masters and the idempotency keys   *)
(* in Redis.                                                               *)
(*                                                                         *)
(* A request r is one POST /buisnes/booking; the row it inserts, if any,   *)
(* is named r too.  Every await of the handler is a step of its own.  An   *)
(* INSERT and the COMMIT behind it are one step, since nobody sees the row *)
(* in between.                                                             *)
(***************************************************************************)
EXTENDS Integers

CONSTANTS
  Request,          \* requests that may insert a booking
  Raw,              \* the requests that bypass the service: a plain INSERT
  Canceller,        \* concurrent calls of cancellBooking
  Master, Service, Key,
  NoRequest, NoKey,
  Bodies,           \* the request bodies clients may send
  Duration,         \* Duration[s]: length of service s
  Offers,           \* Offers[m]: services of master m
  WorkTime,         \* WorkTime[m]: working windows of m on the time line
  Step,             \* SLOT_STEP
  Deadline,         \* cancellationDeadlineHours of the salon
  Grace,            \* how far past its start a booking call may still run
  ExcludeInstalled, \* does the schema have the constraint no_overlap?
  Slow,             \* requests whose handler may outlive its entry in Redis
  MaxTime,          \* bound: the clock stops here
  MaxFaults         \* bound: failed calls and crashes in one behaviour

Body == [master : Master, service : Service, start : Nat, key : Key \cup {NoKey}]

ASSUME IdAssumption == NoRequest \notin Request /\ NoKey \notin Key

ASSUME BodyAssumption == Bodies \subseteq Body

ASSUME CatalogueAssumption ==
  /\ Duration \in [Service -> Nat \ {0}]
  /\ Offers \in [Master -> SUBSET Service]
  /\ WorkTime \in [Master -> SUBSET [open : Nat, close : Nat]]

ASSUME BoundAssumption ==
  /\ Step \in Nat \ {0} /\ Deadline \in Nat /\ Grace \in 0..1
  /\ MaxTime \in Nat /\ MaxFaults \in Nat
  /\ ExcludeInstalled \in BOOLEAN /\ Slow \subseteq Request

\* Writers that bypass the service are covered by the constraint alone.
ASSUME LayerAssumption == Raw \subseteq Request /\ (ExcludeInstalled \/ Raw = {})

VARIABLES
  now,        \* the clock
  body,       \* body[r]: what the client of r sends
  pc,         \* pc[r]: the await at which the handler of r stands
  outcome,    \* outcome[r]: the reply r got, or is about to get
  status,     \* status[r]: the row of r in booking_entity
  lock,       \* lock[m]: holder of SELECT ... FOR UPDATE on master m
  keyState,   \* keyState[k]: the Redis entry idem:k
  keyResult,  \* keyResult[k]: the booking stored in it
  cancelling, \* cancelling[c]: the booking c has read and is about to save
  faults      \* faults so far

keys == <<keyState, keyResult>>
world == <<now, body, cancelling>>
vars == <<world, keys, pc, outcome, status, lock, faults>>

Unanswered == [kind |-> "none", booking |-> NoRequest]
Answer(kind) == [kind |-> kind, booking |-> NoRequest]

-----------------------------------------------------------------------------
Start(r) == body[r].start
End(r) == body[r].start + Duration[body[r].service]
KeyOf(r) == body[r].key

\* starts_at < end AND ends_at > start, on the rows of one master.
Overlap(a, b) ==
  /\ body[a].master = body[b].master
  /\ Start(a) < End(b)
  /\ End(a) > Start(b)

\* Faulty: the query does not ask for status 'confirmed' (line 262).
AnyOverlap(r) ==
  \E b \in Request : b # r /\ status[b] # "none" /\ Overlap(b, r)

\* Faulty: the query looks for the same start only.
SameStart(r) ==
  \E b \in Request \ {r} :
    status[b] = "confirmed" /\ body[b].master = body[r].master /\ Start(b) = Start(r)

ConfirmedOverlap(r) ==
  \E b \in Request : b # r /\ status[b] = "confirmed" /\ Overlap(b, r)

\* Rows of direct writers that are in the table and not yet committed.
PlacedOverlap(r) ==
  \E b \in Raw : b # r /\ pc[b] = "raw" /\ Overlap(b, r)

\* Faulty: past starts are accepted.
ValidAnyTime(r) ==
  /\ body[r].service \in Offers[body[r].master]
  /\ Start(r) % Step = 0
  /\ \E w \in WorkTime[body[r].master] : w.open <= Start(r) /\ End(r) <= w.close

\* The checks of lines 210-253, in the local time of the salon.
Valid(r) ==
  /\ body[r].service \in Offers[body[r].master]
  /\ Start(r) >= now
  /\ Start(r) % Step = 0
  /\ \E w \in WorkTime[body[r].master] : w.open <= Start(r) /\ End(r) <= w.close

InTransaction == {"check", "save"}
AfterValidation == {"lock", "check", "save"}
InFlight == {"readKey", "validate", "lock", "check", "save", "store", "catch"}

Holds(r, k) == pc[r] \in InFlight \ {"readKey"} /\ KeyOf(r) = k

-----------------------------------------------------------------------------
Init ==
  /\ now = 0
  /\ body \in [Request -> Bodies]
  /\ pc = [r \in Request |-> "idle"]
  /\ outcome = [r \in Request |-> Unanswered]
  /\ status = [r \in Request |-> "none"]
  /\ lock = [m \in Master |-> NoRequest]
  /\ keyState = [k \in Key |-> "free"]
  /\ keyResult = [k \in Key |-> NoRequest]
  /\ cancelling = [c \in Canceller |-> NoRequest]
  /\ faults = 0

\* Helpers that move one handler.
Goto(r, from, to) == pc[r] = from /\ pc' = [pc EXCEPT ![r] = to]
Reply(r, kind) == outcome' = [outcome EXCEPT ![r] = Answer(kind)]
Unlock(r) ==
  lock' = [m \in Master |-> IF lock[m] = r THEN NoRequest ELSE lock[m]]
Fault == faults < MaxFaults /\ faults' = faults + 1

-----------------------------------------------------------------------------
\* Lines 197-208: SET idem:key pending EX 3600 NX.
ArriveWithoutKey(r) ==
  /\ r \notin Raw
  /\ KeyOf(r) = NoKey
  /\ Goto(r, "idle", "validate")
  /\ UNCHANGED <<world, outcome, status, lock, keys, faults>>

\* Faulty: SET without NX.
SeizeKey(r) ==
  /\ r \notin Raw
  /\ KeyOf(r) # NoKey
  /\ keyState' = [keyState EXCEPT ![KeyOf(r)] = "pending"]
  /\ Goto(r, "idle", "validate")
  /\ UNCHANGED <<world, outcome, status, lock, keyResult, faults>>

AcquireKey(r) ==
  /\ r \notin Raw
  /\ KeyOf(r) # NoKey
  /\ keyState[KeyOf(r)] = "free"
  /\ keyState' = [keyState EXCEPT ![KeyOf(r)] = "pending"]
  /\ Goto(r, "idle", "validate")
  /\ UNCHANGED <<world, outcome, status, lock, keyResult, faults>>

MissKey(r) ==
  /\ r \notin Raw
  /\ KeyOf(r) # NoKey
  /\ keyState[KeyOf(r)] # "free"
  /\ Goto(r, "idle", "readKey")
  /\ UNCHANGED <<world, outcome, status, lock, keys, faults>>

\* Faulty: the entry is returned without looking whether it is pending.
ReplayAnything(r) ==
  /\ Goto(r, "readKey", "done")
  /\ outcome' = [outcome EXCEPT ![r] =
                   [kind |-> "replayed", booking |-> keyResult[KeyOf(r)]]]
  /\ UNCHANGED <<world, status, lock, keys, faults>>

\* The GET of line 202: a stored booking is the reply; a pending or
\* vanished entry is a 409.
Replay(r) ==
  /\ Goto(r, "readKey", "done")
  /\ keyState[KeyOf(r)] = "stored"
  /\ outcome' = [outcome EXCEPT ![r] =
                   [kind |-> "replayed", booking |-> keyResult[KeyOf(r)]]]
  /\ UNCHANGED <<world, status, lock, keys, faults>>

Busy(r) ==
  /\ Goto(r, "readKey", "done")
  /\ keyState[KeyOf(r)] # "stored"
  /\ Reply(r, "busy")
  /\ UNCHANGED <<world, status, lock, keys, faults>>

\* Lines 210-253 run outside the try block: a rejected request leaves its
\* key as it is.
Reject(r) ==
  /\ Goto(r, "validate", "done")
  /\ ~Valid(r)
  /\ Reply(r, "rejected")
  /\ UNCHANGED <<world, status, lock, keys, faults>>

Accept(r) ==
  /\ Goto(r, "validate", "lock")
  /\ Valid(r)
  /\ UNCHANGED <<world, outcome, status, lock, keys, faults>>

\* Faulty: the master row is read without the lock.
ReadMaster(r) ==
  /\ Goto(r, "lock", "check")
  /\ UNCHANGED <<world, outcome, status, lock, keys, faults>>

\* The transaction, lines 255-280.  A throw rolls it back, which releases
\* the row lock, and lands in the catch block.
LockMaster(r) ==
  /\ Goto(r, "lock", "check")
  /\ lock[body[r].master] = NoRequest
  /\ lock' = [lock EXCEPT ![body[r].master] = r]
  /\ UNCHANGED <<world, outcome, status, keys, faults>>

\* Faulty: the throw leaves the transaction open.
FindConflictKeepLock(r) ==
  /\ Goto(r, "check", "catch")
  /\ ConfirmedOverlap(r)
  /\ Reply(r, "taken")
  /\ UNCHANGED <<world, status, lock, keys, faults>>

\* Faulty: the conflict ends the transaction without a throw.
FindConflictQuietly(r) ==
  /\ Goto(r, "check", "store")
  /\ ConfirmedOverlap(r)
  /\ Unlock(r)
  /\ UNCHANGED <<world, outcome, status, keys, faults>>

FindConflict(r) ==
  /\ Goto(r, "check", "catch")
  /\ ConfirmedOverlap(r)
  /\ Reply(r, "taken")
  /\ Unlock(r)
  /\ UNCHANGED <<world, status, keys, faults>>

\* Faulty: the check runs in a transaction of its own.
FindFreeAndCommit(r) ==
  /\ Goto(r, "check", "save")
  /\ ~ConfirmedOverlap(r)
  /\ Unlock(r)
  /\ UNCHANGED <<world, outcome, status, keys, faults>>

FindFree(r) ==
  /\ Goto(r, "check", "save")
  /\ ~ConfirmedOverlap(r)
  /\ UNCHANGED <<world, outcome, status, lock, keys, faults>>

\* Faulty: a schema whose constraint was dropped (migration BookingServiceFK).
MayInsertAnything(r) == TRUE

\* The constraint no_overlap: an INSERT waits for uncommitted rows that
\* overlap and fails on committed ones.
MayInsert(r) == ExcludeInstalled => ~ConfirmedOverlap(r) /\ ~PlacedOverlap(r)

Save(r) ==
  /\ Goto(r, "save", "store")
  /\ MayInsert(r)
  /\ status' = [status EXCEPT ![r] = "confirmed"]
  /\ Unlock(r)
  /\ UNCHANGED <<world, outcome, keys, faults>>

\* 23P01, or 40P01 when the overlapping row belongs to a writer that waits
\* for the master row: both become a 409 (line 305).
SaveRefused(r) ==
  /\ Goto(r, "save", "catch")
  /\ ~MayInsert(r)
  /\ Reply(r, "taken")
  /\ Unlock(r)
  /\ UNCHANGED <<world, status, keys, faults>>

\* Faulty: the DEL of the catch block stands in a finally block.
StoreAndDelete(r) ==
  /\ Goto(r, "store", "done")
  /\ Reply(r, "created")
  /\ keyState' = [k \in Key |-> IF k = KeyOf(r) THEN "free" ELSE keyState[k]]
  /\ UNCHANGED <<world, status, lock, keyResult, faults>>

\* Lines 295-298: SET idem:key <booking> EX 60, then the 201.
Store(r) ==
  /\ Goto(r, "store", "done")
  /\ Reply(r, "created")
  /\ keyState' = [k \in Key |-> IF k = KeyOf(r) THEN "stored" ELSE keyState[k]]
  /\ keyResult' = [k \in Key |-> IF k = KeyOf(r) THEN r ELSE keyResult[k]]
  /\ UNCHANGED <<world, status, lock, faults>>

\* Faulty: the catch block does not delete the key.
ReleaseNothing(r) ==
  /\ Goto(r, "catch", "done")
  /\ UNCHANGED <<world, outcome, status, lock, keys, faults>>

\* Lines 300-308: DEL idem:key, whoever owns it now.
Release(r) ==
  /\ Goto(r, "catch", "done")
  /\ keyState' = [k \in Key |-> IF k = KeyOf(r) THEN "free" ELSE keyState[k]]
  /\ UNCHANGED <<world, outcome, status, lock, keyResult, faults>>

-----------------------------------------------------------------------------
\* A writer beside the service: a psql session, or scripts/race-demo.ts on a
\* schema whose service_id takes its 'race-demo' (see Schema).
\* Its INSERT places the row first and checks the foreign key after that:
\* FOR KEY SHARE on the master row, which waits for FOR UPDATE.
RawPlace(r) ==
  /\ r \in Raw
  /\ Goto(r, "idle", "raw")
  /\ MayInsert(r)
  /\ UNCHANGED <<world, outcome, status, lock, keys, faults>>

RawRefused(r) ==
  /\ r \in Raw
  /\ Goto(r, "idle", "done")
  /\ ExcludeInstalled /\ ConfirmedOverlap(r)
  /\ Reply(r, "taken")
  /\ UNCHANGED <<world, status, lock, keys, faults>>

RawCommit(r) ==
  /\ Goto(r, "raw", "done")
  /\ lock[body[r].master] = NoRequest
  /\ status' = [status EXCEPT ![r] = "confirmed"]
  /\ Reply(r, "created")
  /\ UNCHANGED <<world, lock, keys, faults>>

\* The other victim Postgres may choose: the writer waits for the master
\* row, and the handler that locked it waits for the writer's row.
RawDeadlock(r) ==
  /\ Goto(r, "raw", "done")
  /\ \E q \in Request : pc[q] = "save" /\ Overlap(q, r)
  /\ Reply(r, "taken")
  /\ UNCHANGED <<world, status, lock, keys, faults>>

-----------------------------------------------------------------------------
\* cancellBooking: read and check (lines 313-325), then save (line 326).
\* The save writes the status whatever it is by then.
CancelRead(c, b) ==
  /\ cancelling[c] = NoRequest
  /\ status[b] # "none"
  /\ now <= Start(b) - Deadline
  /\ cancelling' = [cancelling EXCEPT ![c] = b]
  /\ UNCHANGED <<now, body, pc, outcome, status, lock, keys, faults>>

\* Faulty: a status outside the entity's union.
CancelSaveMisspelt(c) ==
  /\ cancelling[c] # NoRequest
  /\ status' = [status EXCEPT ![cancelling[c]] = "canceled"]
  /\ cancelling' = [cancelling EXCEPT ![c] = NoRequest]
  /\ UNCHANGED <<now, body, pc, outcome, lock, keys, faults>>

CancelSave(c) ==
  /\ cancelling[c] # NoRequest
  /\ status' = [status EXCEPT ![cancelling[c]] = "cancelled"]
  /\ cancelling' = [cancelling EXCEPT ![c] = NoRequest]
  /\ UNCHANGED <<now, body, pc, outcome, lock, keys, faults>>

\* Faulty: cron takes only visits that end at the moment it runs.
JustPast(b) == status[b] = "confirmed" /\ End(b) = now

\* CronService.bookingStatusUpdate: one UPDATE over all past visits.
Past(b) == status[b] = "confirmed" /\ End(b) < now

Complete ==
  /\ \E b \in Request : Past(b)
  /\ status' = [b \in Request |-> IF Past(b) THEN "completed" ELSE status[b]]
  /\ UNCHANGED <<world, pc, outcome, lock, keys, faults>>

-----------------------------------------------------------------------------
\* Faulty: the pending entry is set without EX.
PendingStays(k) == FALSE /\ keyState[k] = "pending" /\ UNCHANGED vars

\* Redis drops an entry when its time is up: an hour for pending, a minute
\* for a stored booking.  Only the slow handlers may still be at work then.
PendingExpires(k) ==
  /\ keyState[k] = "pending"
  /\ \A r \in Request \ Slow : ~Holds(r, k)
  /\ keyState' = [keyState EXCEPT ![k] = "free"]
  /\ UNCHANGED <<world, pc, outcome, status, lock, keyResult, faults>>

StoredExpires(k) ==
  /\ keyState[k] = "stored"
  /\ \A r \in Request \ Slow : ~Holds(r, k)
  /\ keyState' = [keyState EXCEPT ![k] = "free"]
  /\ UNCHANGED <<world, pc, outcome, status, lock, keyResult, faults>>

\* The clock.  A call that has passed its time checks ends at most Grace
\* after the start of the booking it is about.
Tick ==
  /\ now < MaxTime
  /\ \A r \in Request :
       pc[r] \in AfterValidation => now < Start(r) + Grace
  /\ \A c \in Canceller :
       cancelling[c] # NoRequest => now < Start(cancelling[c]) + Grace
  /\ now' = now + 1
  /\ UNCHANGED <<body, pc, outcome, status, lock, keys, cancelling, faults>>

-----------------------------------------------------------------------------
\* Failures.  Redis or Postgres fails one call, before or after it took
\* effect, or the process restarts.
AcquireFails(r) ==
  /\ r \notin Raw /\ KeyOf(r) # NoKey
  /\ Goto(r, "idle", "done")
  /\ Fault
  /\ Reply(r, "error")
  /\ \/ UNCHANGED keyState
     \/ /\ keyState[KeyOf(r)] = "free"
        /\ keyState' = [keyState EXCEPT ![KeyOf(r)] = "pending"]
  /\ UNCHANGED <<world, status, lock, keyResult>>

\* The SET took effect and its answer was lost: the client library sends it
\* again on the next connection, NX answers null, and the handler goes on to
\* read the entry it wrote itself (lines 199-202).
AcquireUnheard(r) ==
  /\ r \notin Raw /\ KeyOf(r) # NoKey
  /\ keyState[KeyOf(r)] = "free"
  /\ keyState' = [keyState EXCEPT ![KeyOf(r)] = "pending"]
  /\ Goto(r, "idle", "readKey")
  /\ Fault
  /\ UNCHANGED <<world, outcome, status, lock, keyResult>>

LoadFails(r) ==
  /\ Goto(r, "readKey", "done") \/ Goto(r, "validate", "done")
  /\ Fault
  /\ Reply(r, "error")
  /\ UNCHANGED <<world, status, lock, keys>>

TransactionFails(r) ==
  /\ pc[r] \in AfterValidation
  /\ pc' = [pc EXCEPT ![r] = "catch"]
  /\ Fault
  /\ Reply(r, "error")
  /\ Unlock(r)
  /\ UNCHANGED <<world, status, keys>>

CommitAckLost(r) ==
  /\ Goto(r, "save", "catch")
  /\ MayInsert(r)
  /\ status' = [status EXCEPT ![r] = "confirmed"]
  /\ Fault
  /\ Reply(r, "error")
  /\ Unlock(r)
  /\ UNCHANGED <<world, keys>>

StoreFails(r) ==
  /\ KeyOf(r) # NoKey
  /\ Goto(r, "store", "catch")
  /\ Fault
  /\ Reply(r, "error")
  /\ \/ UNCHANGED keys
     \/ /\ keyState' = [keyState EXCEPT ![KeyOf(r)] = "stored"]
        /\ keyResult' = [keyResult EXCEPT ![KeyOf(r)] = r]
  /\ UNCHANGED <<world, status, lock>>

ReleaseFails(r) ==
  /\ KeyOf(r) # NoKey
  /\ Goto(r, "catch", "done")
  /\ Fault
  /\ Reply(r, "error")
  /\ keyState' \in {keyState, [keyState EXCEPT ![KeyOf(r)] = "free"]}
  /\ UNCHANGED <<world, status, lock, keyResult>>

CancelFails(c) ==
  /\ cancelling[c] # NoRequest
  /\ Fault
  /\ cancelling' = [cancelling EXCEPT ![c] = NoRequest]
  /\ UNCHANGED <<now, body, pc, outcome, status, lock, keys>>

Crash ==
  /\ \E r \in Request : pc[r] \in InFlight
  /\ Fault
  /\ pc' = [r \in Request |-> IF pc[r] \in InFlight THEN "done" ELSE pc[r]]
  /\ outcome' = [r \in Request |->
                   IF pc[r] \in InFlight THEN Answer("lost") ELSE outcome[r]]
  /\ lock' = [m \in Master |-> NoRequest]
  /\ cancelling' = [c \in Canceller |-> NoRequest]
  /\ UNCHANGED <<now, body, status, keys>>

\* All clients are served: the only state in which nothing need happen.
Finished ==
  /\ \A r \in Request : pc[r] = "done"
  /\ \A c \in Canceller : cancelling[c] = NoRequest
  /\ UNCHANGED vars

-----------------------------------------------------------------------------
Arrive(r) == ArriveWithoutKey(r) \/ AcquireKey(r) \/ MissKey(r)

Handle(r) ==
  \/ Replay(r) \/ Busy(r) \/ Reject(r) \/ Accept(r)
  \/ LockMaster(r) \/ FindConflict(r) \/ FindFree(r) \/ Save(r)
  \/ SaveRefused(r) \/ Store(r) \/ Release(r)

RawStep(r) == RawPlace(r) \/ RawRefused(r) \/ RawCommit(r) \/ RawDeadlock(r)

Fail(r) ==
  \/ AcquireFails(r) \/ AcquireUnheard(r) \/ LoadFails(r) \/ TransactionFails(r)
  \/ CommitAckLost(r) \/ StoreFails(r) \/ ReleaseFails(r)

Next ==
  \/ \E r \in Request : Arrive(r) \/ Handle(r) \/ RawStep(r) \/ Fail(r)
  \/ \E c \in Canceller, b \in Request : CancelRead(c, b)
  \/ \E c \in Canceller : CancelSave(c) \/ CancelFails(c)
  \/ \E k \in Key : PendingExpires(k) \/ StoredExpires(k)
  \/ Complete \/ Tick \/ Crash \/ Finished

Spec == Init /\ [][Next]_vars

\* Every awaited call of a handler returns or throws; cron and the clock
\* go on; Redis drops what has expired.  Nobody has to send a request, to
\* cancel one, or to fail.
Fairness ==
  /\ \A r \in Request : WF_vars(Handle(r)) /\ WF_vars(RawCommit(r) \/ RawDeadlock(r))
  /\ \A c \in Canceller : WF_vars(CancelSave(c))
  /\ \A k \in Key : WF_vars(PendingExpires(k))
  /\ WF_vars(Complete) /\ WF_vars(Tick)

FairSpec == Spec /\ Fairness

-----------------------------------------------------------------------------
\* What has to hold.
Stages == InFlight \cup {"idle", "raw", "done"}
Kinds == {"none", "created", "replayed", "rejected", "taken", "busy", "error", "lost"}
Statuses == {"none", "confirmed", "cancelled", "completed"}

\* The type of every variable.
TypeOK ==
  /\ now \in Nat
  /\ body \in [Request -> Body]
  /\ pc \in [Request -> Stages]
  /\ outcome \in [Request -> [kind : Kinds, booking : Request \cup {NoRequest}]]
  /\ status \in [Request -> Statuses]
  /\ lock \in [Master -> Request \cup {NoRequest}]
  /\ keyState \in [Key -> {"free", "pending", "stored"}]
  /\ keyResult \in [Key -> Request \cup {NoRequest}]
  /\ cancelling \in [Canceller -> Request \cup {NoRequest}]
  /\ faults \in Nat

\* README "two simultaneous requests for one slot: one 201, the other 409":
\* no two confirmed bookings of one master overlap, whichever of the row lock
\* and the constraint no_overlap is there to prevent it.
NoDoubleBooking ==
  \A a, b \in Request :
    a # b /\ status[a] = "confirmed" /\ status[b] = "confirmed" => ~Overlap(a, b)

\* A visit that took place keeps its time: no booking made through the
\* service overlaps another one that is confirmed or completed, although the
\* conflict query and the constraint look at confirmed rows alone.
Visit(b) == b \notin Raw /\ status[b] \in {"confirmed", "completed"}

NoDoubleVisit ==
  \A a, b \in Request : a # b /\ Visit(a) /\ Visit(b) => ~Overlap(a, b)

\* The conflict query's answer is still true at the INSERT behind it, so the
\* handler never inserts into a slot committed to somebody else: under the
\* lock the branch for 23P01 at line 305 is unreachable.
CheckStaysTrue ==
  \A r \in Request : pc[r] = "save" => ~ConfirmedOverlap(r)

\* A unit of time that both bookings take from one master.
ShareTime(a, b) ==
  /\ body[a].master = body[b].master
  /\ \E t \in 0..Duration[body[a].service] - 1 :
       Start(b) <= Start(a) + t /\ Start(a) + t < End(b)

\* Somebody else has the slot of r: a confirmed booking, or, where direct
\* writers take part, a row that is being inserted.
Opposed(r) ==
  \E b \in Request \ {r} :
    /\ ShareTime(b, r)
    /\ status[b] = "confirmed" \/ ({b, r} \cap Raw # {} /\ pc[b] \in {"raw", "save"})

\* README "one 201, the other 409": nobody gets the 409 "slot taken" for a
\* slot that is free when the 409 is decided, by the conflict query, by 23P01
\* or by 40P01 (lines 262-271 and 305).  A booking that was cancelled or
\* completed before, even since the request arrived, is no reason.
ConflictJustified ==
  [][\A r \in Request : outcome'[r].kind = "taken" =>
       outcome[r].kind = "taken" \/ Opposed(r)]_vars

\* A row lock is held exactly by the handler inside its transaction; every
\* way out of the transaction, also by a throw or a crash, gives it back.
LockHeldInTransaction ==
  \A m \in Master, r \in Request :
    lock[m] = r <=> pc[r] \in InTransaction /\ body[r].master = m

\* No handler that may outlive its entry has begun to work under the key.
Undisturbed(k) == \A r \in Slow : KeyOf(r) = k => pc[r] = "idle"

\* At most one request works under an Idempotency-Key, and the key is taken
\* meanwhile, until a handler that outlives its entry comes in under it: its
\* Release and its Store then hit an entry that is another's.
KeyExclusive ==
  \A k \in Key, a \in Request :
    Undisturbed(k) /\ Holds(a, k) =>
      /\ keyState[k] # "free"
      /\ \A b \in Request : Holds(b, k) => a = b

\* A repeated key is answered with a booking that was really committed by an
\* earlier request with that key (lines 202-204).
ReplayFaithful ==
  \A r \in Request : outcome[r].kind = "replayed" =>
    LET b == outcome[r].booking IN
      b \in Request \ {r} /\ status[b] # "none" /\ KeyOf(b) = KeyOf(r)

\* A 201 means that the row exists; 400, 404 and 409 mean that it does not.
ReplyHonest ==
  \A r \in Request : pc[r] = "done" =>
    /\ outcome[r].kind = "created" => status[r] # "none"
    /\ outcome[r].kind \in {"rejected", "taken", "busy", "replayed"} => status[r] = "none"

\* A row is inserted confirmed, and leaves that status once, for cancelled or
\* completed: neither cron nor a cancellation that read the row earlier
\* overwrites the other's verdict.
StatusLifecycle ==
  [][\A r \in Request : status'[r] # status[r] =>
       \/ status[r] = "none" /\ status'[r] = "confirmed"
       \/ status[r] = "confirmed" /\ status'[r] \in {"cancelled", "completed"}]_vars

\* Every request is answered: nobody waits for a master row, or for the
\* writer that waits for it, for ever.
RequestAnswered ==
  \A r \in Request : (pc[r] # "idle") ~> (pc[r] = "done")

\* Every confirmed booking is cancelled or completed in the end (cron).
VisitSettled ==
  \A r \in Request : (status[r] = "confirmed") ~> (status[r] \in {"cancelled", "completed"})

\* A key left pending by a rejected or crashed request can be used again.
KeyReusable ==
  \A k \in Key : (keyState[k] = "pending") ~> (keyState[k] # "pending")

-----------------------------------------------------------------------------
\* Claims of the repository that the code does not keep.
\* buisnes.service.spec.ts: "the booking failed: the key is released so that
\* the client can retry".
FailedRequestFreesKey ==
  \A r \in Request : outcome[r].kind = "rejected" /\ KeyOf(r) # NoKey =>
    keyState[KeyOf(r)] # "pending" \/ \E q \in Request : Holds(q, KeyOf(r))

\* The promise the clients see: SlotLedger.
SlotOf(b) ==
  [master |-> b.master, start |-> b.start, end |-> b.start + Duration[b.service]]

Ledger == INSTANCE SlotLedger WITH
  Booking <- Request,
  Slot <- {SlotOf(b) : b \in Bodies},
  slot <- [r \in Request |-> SlotOf(body[r])],
  state <- status

ImplementsLedger == Ledger!Spec
=============================================================================
