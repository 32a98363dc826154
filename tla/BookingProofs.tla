--------------------------- MODULE BookingProofs ---------------------------
(***************************************************************************)
(* Proofs about Booking, for every set of requests, masters, services and  *)
(* keys, every schedule and every number of failures.                      *)
(***************************************************************************)
EXTENDS Booking, TLAPS

\* Only a request with a key reads one.
ReadersHaveKeys ==
  \A r \in Request : pc[r] = "readKey" => KeyOf(r) # NoKey

\* Direct writers run the direct writer's stages, handlers the handler's.
RawStages ==
  \A r \in Request : IF r \in Raw THEN pc[r] \in {"idle", "raw", "done"}
                                  ELSE pc[r] # "raw"

\* The slot of a row placed by a direct writer is nobody else's.
RawSlotsClear ==
  \A r \in Request : pc[r] = "raw" => ~ConfirmedOverlap(r) /\ ~PlacedOverlap(r)

\* The inductive invariant behind NoDoubleBooking: between the conflict query
\* and the INSERT the slot stays free because the holder of the master's row
\* lock is the only one who can commit a row for that master.
BookingInv ==
  /\ TypeOK
  /\ ReadersHaveKeys
  /\ RawStages
  /\ LockHeldInTransaction
  /\ CheckStaysTrue
  /\ RawSlotsClear
  /\ NoDoubleBooking

-----------------------------------------------------------------------------
\* Overlapping is symmetric.
LEMMA OverlapSymmetric ==
  \A a, b : Overlap(a, b) <=> Overlap(b, a)
BY DEF Overlap

\* Whether two requests overlap is settled by their bodies.
LEMMA OverlapStable ==
  ASSUME body' = body
  PROVE  \A a, b : Overlap(a, b)' <=> Overlap(a, b)
BY DEF Overlap, Start, End

\* A step that confirms no row and sends nobody past the conflict query keeps
\* every slot that was free free.
LEMMA NoNewRow ==
  ASSUME BookingInv, body' = body,
         \A b \in Request : status'[b] = "confirmed" => status[b] = "confirmed",
         \A r \in Request : pc'[r] = "save" => pc[r] = "save" \/ ~ConfirmedOverlap(r),
         \A r \in Request : pc'[r] = "raw" => pc[r] = "raw"
  PROVE  CheckStaysTrue' /\ RawSlotsClear' /\ NoDoubleBooking'
<1>1. \A a, b : Overlap(a, b)' <=> Overlap(a, b)
  BY OverlapStable
<1>2. \A r \in Request : ConfirmedOverlap(r)' => ConfirmedOverlap(r)
  BY <1>1 DEF ConfirmedOverlap
<1>3. \A r \in Request : PlacedOverlap(r)' => PlacedOverlap(r)
  BY <1>1, LayerAssumption DEF PlacedOverlap
<1>4. CheckStaysTrue'
  BY <1>2 DEF CheckStaysTrue, BookingInv
<1>5. RawSlotsClear'
  BY <1>2, <1>3 DEF RawSlotsClear, BookingInv
<1>6. NoDoubleBooking'
  BY <1>1 DEF NoDoubleBooking, BookingInv
<1> QED BY <1>4, <1>5, <1>6

\* Confirming the row of r is safe when its slot is clear of committed and of
\* placed rows and no other handler is about to insert for the same master.
LEMMA NewRow ==
  ASSUME BookingInv, body' = body, NEW r \in Request,
         status' = [status EXCEPT ![r] = "confirmed"],
         ~ConfirmedOverlap(r), ~PlacedOverlap(r),
         \A q \in Request : pc'[q] = "save" => pc[q] = "save" /\ q # r,
         \A q \in Request : pc'[q] = "raw" => pc[q] = "raw" /\ q # r,
         \A q \in Request : q # r /\ pc[q] = "save" => body[q].master # body[r].master
  PROVE  CheckStaysTrue' /\ RawSlotsClear' /\ NoDoubleBooking'
<1>1. \A a, b : Overlap(a, b)' <=> Overlap(a, b)
  BY OverlapStable
<1>2. \A b \in Request : status'[b] = "confirmed" <=> b = r \/ status[b] = "confirmed"
  BY DEF BookingInv, TypeOK
<1>3. CheckStaysTrue'
  <2> SUFFICES ASSUME NEW q \in Request, pc'[q] = "save", ConfirmedOverlap(q)'
               PROVE  FALSE
    BY DEF CheckStaysTrue
  <2>1. PICK b \in Request : b # q /\ status'[b] = "confirmed" /\ Overlap(b, q)
    BY <1>1 DEF ConfirmedOverlap
  <2>2. b # r
    BY <2>1 DEF Overlap
  <2>3. ConfirmedOverlap(q)
    BY <1>2, <2>1, <2>2 DEF ConfirmedOverlap
  <2> QED BY <2>3 DEF BookingInv, CheckStaysTrue
<1>4. RawSlotsClear'
  <2> SUFFICES ASSUME NEW q \in Request, pc'[q] = "raw"
               PROVE  ~ConfirmedOverlap(q)' /\ ~PlacedOverlap(q)'
    BY DEF RawSlotsClear
  <2>1. q # r /\ pc[q] = "raw" /\ ~ConfirmedOverlap(q) /\ ~PlacedOverlap(q) /\ q \in Raw
    BY DEF BookingInv, RawSlotsClear, RawStages
  <2>2. ~Overlap(r, q)
    BY <2>1, OverlapSymmetric DEF PlacedOverlap
  <2>3. ~ConfirmedOverlap(q)'
    BY <1>1, <1>2, <2>1, <2>2 DEF ConfirmedOverlap
  <2>4. ~PlacedOverlap(q)'
    BY <1>1, <2>1, LayerAssumption DEF PlacedOverlap
  <2> QED BY <2>3, <2>4
<1>5. NoDoubleBooking'
  <2> SUFFICES ASSUME NEW a \in Request, NEW b \in Request, a # b,
                      status'[a] = "confirmed", status'[b] = "confirmed", Overlap(a, b)
               PROVE  FALSE
    BY <1>1 DEF NoDoubleBooking
  <2>1. CASE a # r /\ b # r
    BY <1>2, <2>1 DEF BookingInv, NoDoubleBooking
  <2>2. CASE a = r
    BY <1>2, <2>2, OverlapSymmetric DEF ConfirmedOverlap
  <2>3. CASE b = r
    BY <1>2, <2>3 DEF ConfirmedOverlap
  <2> QED BY <2>1, <2>2, <2>3
<1> QED BY <1>3, <1>4, <1>5

-----------------------------------------------------------------------------
\* The initial state.
LEMMA InitInv == Init => BookingInv
<1> SUFFICES ASSUME Init PROVE BookingInv
  OBVIOUS
<1>1. TypeOK
  BY BodyAssumption
  DEF Init, TypeOK, Stages, InFlight, Unanswered, Kinds, Statuses
<1>2. LockHeldInTransaction
  BY IdAssumption DEF Init, LockHeldInTransaction, InTransaction
<1>3. NoDoubleBooking
  BY DEF Init, NoDoubleBooking
<1> QED
  BY <1>1, <1>2, <1>3
  DEF Init, BookingInv, ReadersHaveKeys, RawStages, CheckStaysTrue, RawSlotsClear

\* The helpers that move a handler keep the types of what they assign.
LEMMA GotoType ==
  ASSUME TypeOK, NEW r \in Request, NEW from, NEW to \in Stages, Goto(r, from, to)
  PROVE  pc' \in [Request -> Stages]
BY DEF TypeOK, Goto

LEMMA ReplyType ==
  ASSUME TypeOK, NEW r \in Request, NEW kind \in Kinds, Reply(r, kind)
  PROVE  outcome' \in [Request -> [kind : Kinds, booking : Request \cup {NoRequest}]]
BY DEF TypeOK, Reply, Answer

LEMMA UnlockType ==
  ASSUME TypeOK, NEW r, Unlock(r)
  PROVE  lock' \in [Master -> Request \cup {NoRequest}]
BY DEF TypeOK, Unlock

LEMMA FaultType ==
  ASSUME TypeOK, Fault
  PROVE  faults' \in Nat
BY DEF TypeOK, Fault

\* Every action keeps the types.
LEMMA TypeStep ==
  ASSUME TypeOK, ReadersHaveKeys, [Next]_vars
  PROVE  TypeOK'
<1> USE DEF world, keys
<1>1. ASSUME NEW r \in Request, Arrive(r) PROVE TypeOK'
  <2>1. pc' \in [Request -> Stages]
    BY <1>1, GotoType DEF Arrive, ArriveWithoutKey, AcquireKey, MissKey, Stages, InFlight
  <2>2. keyState' \in [Key -> {"free", "pending", "stored"}]
    BY <1>1 DEF TypeOK, Arrive, ArriveWithoutKey, AcquireKey, MissKey
  <2> QED
    BY <1>1, <2>1, <2>2 DEF TypeOK, Arrive, ArriveWithoutKey, AcquireKey, MissKey
<1>2. ASSUME NEW r \in Request, Handle(r) PROVE TypeOK'
  <2> USE DEF Handle, Replay, Busy, Reject, Accept, LockMaster, FindConflict,
              FindFree, Save, SaveRefused, Store, Release
  <2>1. pc' \in [Request -> Stages]
    BY <1>2, GotoType DEF Stages, InFlight
  <2>2. outcome' \in [Request -> [kind : Kinds, booking : Request \cup {NoRequest}]]
    <3>1. CASE Replay(r)
      <4>1. KeyOf(r) \in Key
        BY <3>1 DEF ReadersHaveKeys, TypeOK, Body, KeyOf, Goto
      <4> QED BY <3>1, <4>1 DEF TypeOK, Kinds
    <3>2. CASE Reply(r, "busy") \/ Reply(r, "rejected") \/ Reply(r, "taken")
               \/ Reply(r, "created")
      BY <3>2, ReplyType DEF Kinds
    <3>3. CASE UNCHANGED outcome
      BY <3>3 DEF TypeOK
    <3> QED BY <1>2, <3>1, <3>2, <3>3
  <2>3. status' \in [Request -> Statuses]
    BY <1>2 DEF TypeOK, Statuses
  <2>4. lock' \in [Master -> Request \cup {NoRequest}]
    <3>1. CASE LockMaster(r)
      BY <3>1 DEF TypeOK
    <3>2. CASE Unlock(r) \/ UNCHANGED lock
      BY <3>2, UnlockType DEF TypeOK
    <3> QED BY <1>2, <3>1, <3>2
  <2>5. /\ keyState' \in [Key -> {"free", "pending", "stored"}]
        /\ keyResult' \in [Key -> Request \cup {NoRequest}]
    BY <1>2 DEF TypeOK
  <2> QED BY <1>2, <2>1, <2>2, <2>3, <2>4, <2>5 DEF TypeOK
<1>3. ASSUME NEW r \in Request, RawStep(r) PROVE TypeOK'
  <2> USE DEF RawStep, RawPlace, RawRefused, RawCommit, RawDeadlock
  <2>1. pc' \in [Request -> Stages]
    BY <1>3, GotoType DEF Stages
  <2>2. outcome' \in [Request -> [kind : Kinds, booking : Request \cup {NoRequest}]]
    BY <1>3, ReplyType DEF TypeOK, Kinds
  <2>3. status' \in [Request -> Statuses]
    BY <1>3 DEF TypeOK, Statuses
  <2> QED BY <1>3, <2>1, <2>2, <2>3 DEF TypeOK
<1>4. ASSUME NEW r \in Request, Fail(r) PROVE TypeOK'
  <2> USE DEF Fail, AcquireFails, AcquireUnheard, LoadFails, TransactionFails,
              CommitAckLost,
              StoreFails, ReleaseFails
  <2>1. pc' \in [Request -> Stages]
    <3>1. CASE TransactionFails(r)
      BY <3>1 DEF TypeOK, Stages, InFlight
    <3> QED BY <1>4, <3>1, GotoType DEF Stages, InFlight
  <2>2. outcome' \in [Request -> [kind : Kinds, booking : Request \cup {NoRequest}]]
    BY <1>4, ReplyType DEF Kinds, TypeOK
  <2>3. status' \in [Request -> Statuses]
    BY <1>4 DEF TypeOK, Statuses
  <2>4. lock' \in [Master -> Request \cup {NoRequest}]
    BY <1>4, UnlockType DEF TypeOK
  <2>5. /\ keyState' \in [Key -> {"free", "pending", "stored"}]
        /\ keyResult' \in [Key -> Request \cup {NoRequest}]
    BY <1>4 DEF TypeOK
  <2> QED BY <1>4, <2>1, <2>2, <2>3, <2>4, <2>5, FaultType DEF TypeOK
<1>5. ASSUME NEW c \in Canceller, NEW b \in Request, CancelRead(c, b) PROVE TypeOK'
  BY <1>5 DEF CancelRead, TypeOK
<1>6. ASSUME NEW c \in Canceller, CancelSave(c) PROVE TypeOK'
  BY <1>6 DEF CancelSave, TypeOK, Statuses
<1>7. ASSUME NEW c \in Canceller, CancelFails(c) PROVE TypeOK'
  BY <1>7, FaultType DEF CancelFails, TypeOK
<1>8. ASSUME NEW k \in Key, PendingExpires(k) \/ StoredExpires(k) PROVE TypeOK'
  BY <1>8 DEF PendingExpires, StoredExpires, TypeOK
<1>9. CASE Complete
  BY <1>9 DEF Complete, TypeOK, Statuses
<1>10. CASE Tick
  BY <1>10 DEF Tick, TypeOK
<1>11. CASE Crash
  BY <1>11, FaultType DEF Crash, TypeOK, Answer, Stages, InFlight, Kinds
<1>12. CASE UNCHANGED vars
  BY <1>12 DEF vars, TypeOK
<1> QED
  BY <1>1, <1>2, <1>3, <1>4, <1>5, <1>6, <1>7, <1>8, <1>9, <1>10, <1>11, <1>12
  DEF Next, Finished

\* Every action keeps handlers and direct writers in their stages.
LEMMA StageStep ==
  ASSUME TypeOK, ReadersHaveKeys, RawStages, [Next]_vars
  PROVE  ReadersHaveKeys' /\ RawStages' /\ body' = body
<1> USE DEF TypeOK, ReadersHaveKeys, RawStages, Goto, KeyOf, world
<1>1. ASSUME NEW r \in Request, Arrive(r)
      PROVE  ReadersHaveKeys' /\ RawStages' /\ body' = body
  BY <1>1 DEF Arrive, ArriveWithoutKey, AcquireKey, MissKey
<1>2. ASSUME NEW r \in Request, Handle(r)
      PROVE  ReadersHaveKeys' /\ RawStages' /\ body' = body
  BY <1>2 DEF Handle, Replay, Busy, Reject, Accept, LockMaster, FindConflict,
              FindFree, Save, SaveRefused, Store, Release
<1>3. ASSUME NEW r \in Request, RawStep(r)
      PROVE  ReadersHaveKeys' /\ RawStages' /\ body' = body
  BY <1>3 DEF RawStep, RawPlace, RawRefused, RawCommit, RawDeadlock
<1>4. ASSUME NEW r \in Request, Fail(r)
      PROVE  ReadersHaveKeys' /\ RawStages' /\ body' = body
  BY <1>4 DEF Fail, AcquireFails, AcquireUnheard, LoadFails, StoreFails,
              ReleaseFails,
              TransactionFails, CommitAckLost, AfterValidation
<1>5. CASE Crash
  BY <1>5 DEF Crash, InFlight
<1>6. CASE UNCHANGED <<pc, body>>
  BY <1>6
<1> QED
  BY <1>1, <1>2, <1>3, <1>4, <1>5, <1>6
  DEF Next, CancelRead, CancelSave, CancelFails, PendingExpires, StoredExpires,
      Complete, Tick, Finished, vars

\* Only LockMaster takes a row lock, and every way out of the transaction
\* gives it back.
LEMMA LockStep ==
  ASSUME TypeOK, RawStages, LockHeldInTransaction, body' = body, [Next]_vars
  PROVE  LockHeldInTransaction'
<1> USE IdAssumption
    DEF TypeOK, RawStages, LockHeldInTransaction, InTransaction, Goto, Unlock
<1>1. ASSUME NEW r \in Request, Arrive(r) PROVE LockHeldInTransaction'
  BY <1>1 DEF Arrive, ArriveWithoutKey, AcquireKey, MissKey
<1>2. ASSUME NEW r \in Request, Handle(r) PROVE LockHeldInTransaction'
  <2>1. CASE Replay(r) \/ Busy(r) \/ Reject(r) \/ Accept(r) \/ FindFree(r)
             \/ Store(r) \/ Release(r)
    BY <2>1 DEF Replay, Busy, Reject, Accept, FindFree, Store, Release
  <2>2. CASE LockMaster(r)
    BY <2>2 DEF LockMaster, Body
  <2>3. CASE FindConflict(r) \/ Save(r) \/ SaveRefused(r)
    BY <2>3 DEF FindConflict, Save, SaveRefused
  <2> QED BY <1>2, <2>1, <2>2, <2>3 DEF Handle
<1>3. ASSUME NEW r \in Request, RawStep(r) PROVE LockHeldInTransaction'
  BY <1>3 DEF RawStep, RawPlace, RawRefused, RawCommit, RawDeadlock
<1>4. ASSUME NEW r \in Request, Fail(r) PROVE LockHeldInTransaction'
  <2>1. CASE AcquireFails(r) \/ AcquireUnheard(r) \/ LoadFails(r)
             \/ StoreFails(r) \/ ReleaseFails(r)
    BY <2>1 DEF AcquireFails, AcquireUnheard, LoadFails, StoreFails, ReleaseFails
  <2>2. CASE TransactionFails(r) \/ CommitAckLost(r)
    BY <2>2 DEF TransactionFails, CommitAckLost, AfterValidation
  <2> QED BY <1>4, <2>1, <2>2 DEF Fail
<1>5. CASE Crash
  BY <1>5 DEF Crash, InFlight
<1>6. CASE UNCHANGED <<pc, lock>>
  BY <1>6
<1> QED
  BY <1>1, <1>2, <1>3, <1>4, <1>5, <1>6
  DEF Next, CancelRead, CancelSave, CancelFails, PendingExpires, StoredExpires,
      Complete, Tick, Finished, vars

\* The three facts about slots, action by action: most actions confirm no row
\* (NoNewRow); the three that do hold the lock or find it free (NewRow).
LEMMA SlotStep ==
  ASSUME BookingInv, body' = body, [Next]_vars
  PROVE  CheckStaysTrue' /\ RawSlotsClear' /\ NoDoubleBooking'
<1> DEFINE Slots == CheckStaysTrue' /\ RawSlotsClear' /\ NoDoubleBooking'
<1> USE DEF Goto
<1>a. TypeOK /\ RawStages /\ LockHeldInTransaction /\ CheckStaysTrue /\ RawSlotsClear
  BY DEF BookingInv
<1>b. pc \in [Request -> Stages] /\ status \in [Request -> Statuses]
  BY <1>a DEF TypeOK
<1>1. ASSUME NEW r \in Request, Arrive(r) PROVE Slots
  BY <1>1, <1>b, NoNewRow DEF Arrive, ArriveWithoutKey, AcquireKey, MissKey
<1>2. ASSUME NEW r \in Request, Handle(r) PROVE Slots
  <2>1. CASE Save(r)
    <3>1. ~ConfirmedOverlap(r)
      BY <1>a, <2>1 DEF Save, CheckStaysTrue
    <3>2. ~PlacedOverlap(r)
      BY <2>1, LayerAssumption DEF Save, MayInsert, PlacedOverlap
    <3>3. \A q \in Request : q # r /\ pc[q] = "save" => body[q].master # body[r].master
      BY <1>a, <2>1 DEF Save, LockHeldInTransaction, InTransaction, TypeOK, Body
    <3> QED BY <1>b, <2>1, <3>1, <3>2, <3>3, NewRow DEF Save
  <2>2. CASE ~Save(r)
    BY <1>2, <2>2, <1>b, NoNewRow
    DEF Handle, Replay, Busy, Reject, Accept, LockMaster, FindConflict, FindFree,
        SaveRefused, Store, Release
  <2> QED BY <2>1, <2>2
<1>3. ASSUME NEW r \in Request, RawStep(r) PROVE Slots
  <2>1. CASE RawPlace(r)
    <3>1. ~ConfirmedOverlap(r) /\ ~PlacedOverlap(r)
      BY <2>1, LayerAssumption DEF RawPlace, MayInsert
    <3>2. \A q \in Request : ConfirmedOverlap(q)' <=> ConfirmedOverlap(q)
      BY <2>1, OverlapStable DEF RawPlace, ConfirmedOverlap
    <3>3. CheckStaysTrue' /\ NoDoubleBooking'
      BY <2>1, <3>2, <1>b, OverlapStable
      DEF RawPlace, CheckStaysTrue, NoDoubleBooking, BookingInv
    <3>4. RawSlotsClear'
      <4> SUFFICES ASSUME NEW q \in Request, pc'[q] = "raw"
                   PROVE  ~PlacedOverlap(q)' /\ ~ConfirmedOverlap(q)
        BY <3>2 DEF RawSlotsClear
      <4>1. CASE q = r
        BY <2>1, <3>1, <4>1, <1>b, OverlapStable, LayerAssumption
        DEF RawPlace, PlacedOverlap
      <4>2. CASE q # r
        <5>1. pc[q] = "raw" /\ q \in Raw
          BY <1>a, <1>b, <2>1, <4>2 DEF RawPlace, RawStages
        <5>2. ~Overlap(r, q)
          BY <3>1, <4>2, <5>1, OverlapSymmetric DEF PlacedOverlap
        <5> QED
          BY <1>a, <1>b, <2>1, <5>1, <5>2, OverlapStable, LayerAssumption
          DEF RawPlace, PlacedOverlap, RawSlotsClear
      <4> QED BY <4>1, <4>2
    <3> QED BY <3>3, <3>4
  <2>2. CASE RawCommit(r)
    <3>1. ~ConfirmedOverlap(r) /\ ~PlacedOverlap(r)
      BY <1>a, <2>2 DEF RawCommit, RawSlotsClear
    <3>2. \A q \in Request : q # r /\ pc[q] = "save" => body[q].master # body[r].master
      BY <1>a, <2>2, IdAssumption
      DEF RawCommit, LockHeldInTransaction, InTransaction, TypeOK, Body
    <3> QED BY <1>b, <2>2, <3>1, <3>2, NewRow DEF RawCommit
  <2>3. CASE RawRefused(r) \/ RawDeadlock(r)
    BY <2>3, <1>b, NoNewRow DEF RawRefused, RawDeadlock
  <2> QED BY <1>3, <2>1, <2>2, <2>3 DEF RawStep
<1>4. ASSUME NEW r \in Request, Fail(r) PROVE Slots
  <2>1. CASE CommitAckLost(r)
    <3>1. ~ConfirmedOverlap(r)
      BY <1>a, <2>1 DEF CommitAckLost, CheckStaysTrue
    <3>2. ~PlacedOverlap(r)
      BY <2>1, LayerAssumption DEF CommitAckLost, MayInsert, PlacedOverlap
    <3>3. \A q \in Request : q # r /\ pc[q] = "save" => body[q].master # body[r].master
      BY <1>a, <2>1 DEF CommitAckLost, LockHeldInTransaction, InTransaction, TypeOK, Body
    <3> QED BY <1>b, <2>1, <3>1, <3>2, <3>3, NewRow DEF CommitAckLost
  <2>2. CASE ~CommitAckLost(r)
    BY <1>4, <2>2, <1>b, NoNewRow
    DEF Fail, AcquireFails, AcquireUnheard, LoadFails, TransactionFails,
        StoreFails, ReleaseFails
  <2> QED BY <2>1, <2>2
<1>5. ASSUME NEW c \in Canceller, CancelSave(c) PROVE Slots
  BY <1>5, <1>b, NoNewRow DEF CancelSave
<1>6. CASE Complete
  BY <1>6, <1>b, NoNewRow DEF Complete
<1>7. CASE Crash
  BY <1>7, <1>b, NoNewRow DEF Crash
<1>8. CASE UNCHANGED <<pc, status>>
  BY <1>8, NoNewRow
<1> QED
  BY <1>1, <1>2, <1>3, <1>4, <1>5, <1>6, <1>7, <1>8
  DEF Next, CancelRead, CancelFails, PendingExpires, StoredExpires, Tick,
      Finished, vars

\* BookingInv is inductive.
LEMMA BookingStep ==
  ASSUME BookingInv, [Next]_vars
  PROVE  BookingInv' /\ body' = body
<1> USE DEF BookingInv
<1>1. TypeOK'
  BY TypeStep
<1>2. ReadersHaveKeys' /\ RawStages' /\ body' = body
  BY StageStep
<1>3. LockHeldInTransaction'
  BY <1>2, LockStep
<1>4. CheckStaysTrue' /\ RawSlotsClear' /\ NoDoubleBooking'
  BY <1>2, SlotStep
<1> QED BY <1>1, <1>2, <1>3, <1>4

\* The invariant that the properties below are parts of.
THEOREM BookingInvariant == Spec => []BookingInv
BY InitInv, BookingStep, PTL DEF Spec

\* The variables keep their types.
THEOREM TypeCorrect == Spec => []TypeOK
BY BookingInvariant, PTL DEF BookingInv

\* One master is never booked twice for overlapping times, by any mixture of
\* concurrent handlers, failures, restarts, cancellations and direct writers.
THEOREM NeverDoubleBooked == Spec => []NoDoubleBooking
BY BookingInvariant, PTL DEF BookingInv

\* The answer of the conflict query stays true until the INSERT.
THEOREM CheckNeverStale == Spec => []CheckStaysTrue
BY BookingInvariant, PTL DEF BookingInv

\* Row locks are held inside transactions only, and always released.
THEOREM LocksReleased == Spec => []LockHeldInTransaction
BY BookingInvariant, PTL DEF BookingInv

-----------------------------------------------------------------------------
(***************************************************************************)
(* Visits and the status of a row.  What is needed beyond BookingInv is    *)
(* about time: cron completes only what is over, and a call that passed    *)
(* its time checks is still before its booking's end when it writes.       *)
(***************************************************************************)
CompletedIsPast == \A b \in Request : status[b] = "completed" => End(b) < now

BookingIsPrompt == \A r \in Request : pc[r] \in AfterValidation => now <= Start(r) + Grace

CancelIsPrompt ==
  \A c \in Canceller : cancelling[c] # NoRequest =>
    status[cancelling[c]] # "none" /\ now <= Start(cancelling[c]) + Grace

RowAfterSave ==
  \A r \in Request : status[r] # "none" => pc[r] \in {"store", "catch", "done"}

TimeInv == CompletedIsPast /\ BookingIsPrompt /\ CancelIsPrompt /\ RowAfterSave

\* Starts and ends are times, and every booking takes some.
LEMMA Times ==
  ASSUME TypeOK
  PROVE  /\ Grace \in 0..1 /\ Deadline \in Nat /\ now \in Nat
         /\ \A r \in Request : Start(r) \in Nat /\ End(r) \in Nat /\ Start(r) < End(r)
<1>1. ASSUME NEW r \in Request
      PROVE  Start(r) \in Nat /\ End(r) \in Nat /\ Start(r) < End(r)
  <2>1. body[r].start \in Nat /\ body[r].service \in Service
    BY DEF TypeOK, Body
  <2>2. Duration[body[r].service] \in Nat \ {0}
    BY <2>1, CatalogueAssumption
  <2> QED BY <2>1, <2>2 DEF Start, End
<1> QED BY <1>1, BoundAssumption DEF TypeOK

\* Starts and ends are settled by the bodies.
LEMMA TimesStable ==
  ASSUME body' = body
  PROVE  \A r : Start(r)' = Start(r) /\ End(r)' = End(r)
BY DEF Start, End

\* A booking about to be cancelled is not completed: it is not over yet.
LEMMA CancelledIsNotPast ==
  ASSUME TypeOK, TimeInv, NEW c \in Canceller, cancelling[c] # NoRequest
  PROVE  cancelling[c] \in Request /\ status[cancelling[c]] \in {"confirmed", "cancelled"}
<1>1. cancelling[c] \in Request /\ status[cancelling[c]] \in Statuses
  BY DEF TypeOK
<1> QED
  BY <1>1, Times DEF TimeInv, CompletedIsPast, CancelIsPrompt, Statuses

\* Everything but the clock and the three actions that confirm a row.
LEMMA QuietTimeStep ==
  ASSUME TypeOK, TimeInv, body' = body, now' = now,
         \A b \in Request : status'[b] = "completed" => status[b] = "completed" \/ Past(b),
         \A b \in Request : status'[b] = "none" <=> status[b] = "none",
         \A r \in Request : pc'[r] # pc[r] =>
             \/ pc[r] \notin {"store", "catch", "done"} \/ pc'[r] \in {"store", "catch", "done"},
         \A r \in Request : pc[r] = "done" => pc'[r] = "done",
         \A r \in Request : pc'[r] \in AfterValidation =>
             pc[r] \in AfterValidation \/ Start(r) >= now,
         \A c \in Canceller : cancelling'[c] # NoRequest =>
             \/ cancelling'[c] = cancelling[c]
             \/ /\ cancelling'[c] \in Request /\ status[cancelling'[c]] # "none"
                /\ now <= Start(cancelling'[c]) - Deadline
  PROVE  TimeInv'
<1>0. \A r : Start(r)' = Start(r) /\ End(r)' = End(r)
  BY TimesStable
<1>1. CompletedIsPast'
  BY <1>0 DEF TimeInv, CompletedIsPast, Past
<1>2. BookingIsPrompt'
  BY <1>0, Times DEF TimeInv, BookingIsPrompt
<1>3. CancelIsPrompt'
  <2> SUFFICES ASSUME NEW c \in Canceller, cancelling'[c] # NoRequest
               PROVE  /\ status'[cancelling'[c]] # "none"
                      /\ now <= Start(cancelling'[c]) + Grace
    BY <1>0 DEF CancelIsPrompt
  <2>1. CASE cancelling'[c] = cancelling[c]
    BY <2>1, CancelledIsNotPast DEF TimeInv, CancelIsPrompt
  <2>2. CASE cancelling'[c] # cancelling[c]
    BY <2>2, Times
  <2> QED BY <2>1, <2>2
<1>4. RowAfterSave'
  BY DEF TimeInv, RowAfterSave
<1> QED BY <1>1, <1>2, <1>3, <1>4 DEF TimeInv

\* Confirming a row by a handler or by a direct writer.
LEMMA ConfirmTimeStep ==
  ASSUME TypeOK, TimeInv, NEW r \in Request, NEW to \in {"store", "catch", "done"},
         pc' = [pc EXCEPT ![r] = to], status' = [status EXCEPT ![r] = "confirmed"],
         UNCHANGED world
  PROVE  TimeInv'
<1>1. \A q : Start(q)' = Start(q) /\ End(q)' = End(q)
  BY TimesStable DEF world
<1>2. \A q \in Request : /\ pc'[q] = IF q = r THEN to ELSE pc[q]
                         /\ status'[q] = IF q = r THEN "confirmed" ELSE status[q]
  BY DEF TypeOK
<1>3. CompletedIsPast'
  BY <1>1, <1>2 DEF TimeInv, CompletedIsPast, world
<1>4. BookingIsPrompt'
  BY <1>1, <1>2 DEF TimeInv, BookingIsPrompt, AfterValidation, world
<1>5. CancelIsPrompt'
  BY <1>1, <1>2, CancelledIsNotPast DEF TimeInv, CancelIsPrompt, world
<1>6. RowAfterSave'
  BY <1>2 DEF TimeInv, RowAfterSave
<1> QED BY <1>3, <1>4, <1>5, <1>6 DEF TimeInv

\* The clock moves only while every call in flight still has time.
LEMMA TickTimeStep ==
  ASSUME TypeOK, TimeInv, Tick
  PROVE  TimeInv'
<1>1. \A q : Start(q)' = Start(q) /\ End(q)' = End(q)
  BY TimesStable DEF Tick
<1>2. CompletedIsPast'
  BY <1>1, Times DEF Tick, TimeInv, CompletedIsPast
<1>3. BookingIsPrompt'
  BY <1>1, Times DEF Tick, TimeInv, BookingIsPrompt
<1>4. CancelIsPrompt'
  <2> SUFFICES ASSUME NEW c \in Canceller, cancelling[c] # NoRequest
               PROVE  /\ status[cancelling[c]] # "none"
                      /\ now + 1 <= Start(cancelling[c]) + Grace
    BY <1>1 DEF Tick, CancelIsPrompt
  <2>1. cancelling[c] \in Request /\ status[cancelling[c]] # "none"
    BY CancelledIsNotPast
  <2>2. now < Start(cancelling[c]) + Grace
    BY DEF Tick
  <2> QED BY <2>1, <2>2, Times
<1>5. RowAfterSave'
  BY DEF Tick, TimeInv, RowAfterSave
<1> QED BY <1>2, <1>3, <1>4, <1>5 DEF TimeInv

\* TimeInv, action by action.
LEMMA TimeStep ==
  ASSUME BookingInv, TimeInv, body' = body, [Next]_vars
  PROVE  TimeInv'
<1> USE DEF Goto, world
<1>a. TypeOK /\ RawStages
  BY DEF BookingInv
<1>b. /\ pc \in [Request -> Stages] /\ status \in [Request -> Statuses]
      /\ cancelling \in [Canceller -> Request \cup {NoRequest}]
  BY <1>a DEF TypeOK
<1>1. ASSUME NEW r \in Request, Arrive(r) PROVE TimeInv'
  BY <1>1, <1>a, <1>b, QuietTimeStep
  DEF Arrive, ArriveWithoutKey, AcquireKey, MissKey, AfterValidation
<1>2. ASSUME NEW r \in Request, Handle(r) PROVE TimeInv'
  <2>1. CASE Save(r)
    BY <2>1, <1>a, ConfirmTimeStep DEF Save
  <2>2. CASE ~Save(r)
    BY <1>2, <2>2, <1>a, <1>b, QuietTimeStep
    DEF Handle, Replay, Busy, Reject, Accept, LockMaster, FindConflict, FindFree,
        SaveRefused, Store, Release, AfterValidation, Valid
  <2> QED BY <2>1, <2>2
<1>3. ASSUME NEW r \in Request, RawStep(r) PROVE TimeInv'
  <2>1. CASE RawCommit(r)
    BY <2>1, <1>a, ConfirmTimeStep DEF RawCommit
  <2>2. CASE ~RawCommit(r)
    BY <1>3, <2>2, <1>a, <1>b, QuietTimeStep
    DEF RawStep, RawPlace, RawRefused, RawDeadlock, AfterValidation
  <2> QED BY <2>1, <2>2
<1>4. ASSUME NEW r \in Request, Fail(r) PROVE TimeInv'
  <2>1. CASE CommitAckLost(r)
    BY <2>1, <1>a, ConfirmTimeStep DEF CommitAckLost
  <2>2. CASE ~CommitAckLost(r)
    BY <1>4, <2>2, <1>a, <1>b, QuietTimeStep
    DEF Fail, AcquireFails, AcquireUnheard, LoadFails, TransactionFails,
        StoreFails, ReleaseFails,
        AfterValidation
  <2> QED BY <2>1, <2>2
<1>5. ASSUME NEW c \in Canceller, NEW b \in Request, CancelRead(c, b) PROVE TimeInv'
  BY <1>5, <1>a, <1>b, QuietTimeStep DEF CancelRead
<1>6. ASSUME NEW c \in Canceller, CancelSave(c) PROVE TimeInv'
  BY <1>6, <1>a, <1>b, CancelledIsNotPast, QuietTimeStep DEF CancelSave
<1>7. ASSUME NEW c \in Canceller, CancelFails(c) PROVE TimeInv'
  BY <1>7, <1>a, <1>b, QuietTimeStep DEF CancelFails
<1>8. CASE Complete
  BY <1>8, <1>a, <1>b, QuietTimeStep DEF Complete, Past
<1>9. CASE Crash
  BY <1>9, <1>a, <1>b, QuietTimeStep DEF Crash, InFlight, AfterValidation
<1>10. CASE Tick
  BY <1>10, <1>a, TickTimeStep
<1>11. CASE UNCHANGED <<pc, status, world>>
  BY <1>11, <1>a, <1>b, QuietTimeStep
<1> QED
  BY <1>1, <1>2, <1>3, <1>4, <1>5, <1>6, <1>7, <1>8, <1>9, <1>10, <1>11
  DEF Next, PendingExpires, StoredExpires, Finished, vars

\* A row is confirmed in a slot that no visit has: a confirmed one would have
\* been found, a completed one was over before this booking starts.
LEMMA VisitStep ==
  ASSUME BookingInv, TimeInv, NoDoubleVisit, body' = body, [Next]_vars
  PROVE  NoDoubleVisit'
<1>a. /\ TypeOK /\ CheckStaysTrue
      /\ status \in [Request -> Statuses]
      /\ \A a, b : Overlap(a, b)' <=> Overlap(a, b)
  BY OverlapStable DEF BookingInv, TypeOK
<1>1. ASSUME NEW r \in Request, pc[r] = "save",
             status' = [status EXCEPT ![r] = "confirmed"]
      PROVE  NoDoubleVisit'
  <2>1. \A b \in Request : b # r /\ Visit(b) => ~Overlap(b, r)
    <3> SUFFICES ASSUME NEW b \in Request, b # r, Visit(b), Overlap(b, r)
                 PROVE  FALSE
      OBVIOUS
    <3>1. CASE status[b] = "confirmed"
      BY <1>1, <1>a, <3>1 DEF CheckStaysTrue, ConfirmedOverlap
    <3>2. CASE status[b] = "completed"
      <4>1. End(b) < now /\ now <= Start(r) + Grace
        BY <1>1, <3>2 DEF TimeInv, CompletedIsPast, BookingIsPrompt, AfterValidation
      <4> QED BY <4>1, <1>a, Times DEF Overlap
    <3> QED BY <3>1, <3>2 DEF Visit
  <2> QED BY <1>1, <1>a, <2>1, OverlapSymmetric DEF NoDoubleVisit, Visit
<1>2. ASSUME NEW r \in Raw, status' = [status EXCEPT ![r] = "confirmed"]
      PROVE  NoDoubleVisit'
  BY <1>2, <1>a, LayerAssumption DEF NoDoubleVisit, Visit
<1>3. ASSUME \A b \in Request : status'[b] \in {"confirmed", "completed"}
                              => status[b] \in {"confirmed", "completed"}
      PROVE  NoDoubleVisit'
  BY <1>3, <1>a DEF NoDoubleVisit, Visit
<1>4. ASSUME NEW c \in Canceller, CancelSave(c) PROVE NoDoubleVisit'
  BY <1>3, <1>4, <1>a DEF CancelSave
<1>5. CASE Complete
  BY <1>3, <1>5, <1>a DEF Complete, Past
<1>6. ASSUME NEW r \in Request, Save(r) \/ CommitAckLost(r) PROVE NoDoubleVisit'
  BY <1>1, <1>6 DEF Save, CommitAckLost, Goto
<1>7. ASSUME NEW r \in Request, RawCommit(r) PROVE NoDoubleVisit'
  BY <1>2, <1>7 DEF RawCommit, Goto, BookingInv, RawStages
<1>8. CASE UNCHANGED status
  BY <1>3, <1>8
<1> QED
  BY <1>4, <1>5, <1>6, <1>7, <1>8
  DEF Next, Arrive, ArriveWithoutKey, AcquireKey, MissKey, Handle, Replay, Busy,
      Reject, Accept, LockMaster, FindConflict, FindFree, SaveRefused, Store,
      Release, RawStep, RawPlace, RawRefused, RawDeadlock, Fail, AcquireFails,
      AcquireUnheard,
      LoadFails, TransactionFails, StoreFails, ReleaseFails, CancelRead,
      CancelFails, PendingExpires, StoredExpires, Tick, Crash, Finished, vars

\* The inductive invariant behind NoDoubleVisit and StatusLifecycle.
VisitInv == BookingInv /\ TimeInv /\ NoDoubleVisit

\* The invariant that NoDoubleVisit is a part of.
THEOREM VisitInvariant == Spec => []VisitInv
<1>1. Init => VisitInv
  BY InitInv DEF Init, VisitInv, TimeInv, CompletedIsPast, BookingIsPrompt,
                 CancelIsPrompt, RowAfterSave, AfterValidation, NoDoubleVisit, Visit
<1>2. VisitInv /\ [Next]_vars => VisitInv'
  <2> SUFFICES ASSUME VisitInv, [Next]_vars PROVE VisitInv'
    OBVIOUS
  <2>1. BookingInv' /\ body' = body
    BY BookingStep DEF VisitInv
  <2>3. TimeInv'
    BY <2>1, TimeStep DEF VisitInv
  <2>4. NoDoubleVisit'
    BY <2>1, VisitStep DEF VisitInv
  <2> QED BY <2>1, <2>3, <2>4 DEF VisitInv
<1> QED BY <1>1, <1>2, PTL DEF Spec

\* Bookings made through the service never overlap, whether they are still
\* ahead or have taken place, provided a call ends within one time unit of
\* the start it deals with (Grace).
THEOREM NeverDoubleVisit == Spec => []NoDoubleVisit
BY VisitInvariant, PTL DEF VisitInv

\* A row's status moves once, from confirmed to cancelled or to completed.
LifecycleStep ==
  \A r \in Request : status'[r] # status[r] =>
    \/ status[r] = "none" /\ status'[r] = "confirmed"
    \/ status[r] = "confirmed" /\ status'[r] \in {"cancelled", "completed"}

THEOREM StatusMovesOnce == Spec => StatusLifecycle
<1>1. VisitInv /\ [Next]_vars => LifecycleStep
  <2> SUFFICES ASSUME VisitInv, [Next]_vars PROVE LifecycleStep
    OBVIOUS
  <2>a. TypeOK /\ TimeInv /\ RawStages /\ status \in [Request -> Statuses]
    BY DEF VisitInv, BookingInv, TypeOK
  <2>1. ASSUME NEW r \in Request, pc[r] \notin {"store", "catch", "done"},
               status' = [status EXCEPT ![r] = "confirmed"]
        PROVE  LifecycleStep
    BY <2>1, <2>a DEF LifecycleStep, TimeInv, RowAfterSave
  <2>2. ASSUME NEW r \in Request, Save(r) \/ CommitAckLost(r) \/ RawCommit(r)
        PROVE  LifecycleStep
    BY <2>1, <2>2 DEF Save, CommitAckLost, RawCommit, Goto
  <2>3. ASSUME NEW c \in Canceller, CancelSave(c) PROVE LifecycleStep
    BY <2>3, <2>a, CancelledIsNotPast DEF CancelSave, LifecycleStep
  <2>4. CASE Complete
    BY <2>4, <2>a DEF Complete, Past, LifecycleStep
  <2>5. CASE UNCHANGED status
    BY <2>5 DEF LifecycleStep
  <2> QED
    BY <2>2, <2>3, <2>4, <2>5
    DEF Next, Arrive, ArriveWithoutKey, AcquireKey, MissKey, Handle, Replay, Busy,
        Reject, Accept, LockMaster, FindConflict, FindFree, SaveRefused, Store,
        Release, RawStep, RawPlace, RawRefused, RawDeadlock, Fail, AcquireFails,
        AcquireUnheard,
        LoadFails, TransactionFails, StoreFails, ReleaseFails, CancelRead,
        CancelFails, PendingExpires, StoredExpires, Tick, Crash, Finished, vars
<1>2. VisitInv /\ [Next]_vars => [LifecycleStep]_vars
  BY <1>1
<1> QED BY <1>2, VisitInvariant, PTL DEF Spec, StatusLifecycle, LifecycleStep

---------------------------------------------------------------------------
(* Booking implements SlotLedger: what clients see of handlers, locks,     *)
(* keys, failures and restarts is a ledger in which a booking appears at   *)
(* once in a free slot and is settled once.                                *)

\* The initial states of Booking are initial states of the ledger.
LEMMA LedgerInit == Init => Ledger!Init
<1> SUFFICES ASSUME Init PROVE Ledger!Init
  OBVIOUS
<1>1. \A r \in Request : SlotOf(body[r]) \in {SlotOf(b) : b \in Bodies}
  BY DEF Init
<1> QED BY <1>1 DEF Init, Ledger!Init

\* A slot without a confirmed row that overlaps it is free in the ledger.
LEMMA SlotIsFree ==
  ASSUME TypeOK, NEW r \in Request, ~ConfirmedOverlap(r)
  PROVE  Ledger!Free(r)
<1> SUFFICES ASSUME NEW c \in Request \ {r}, status[c] = "confirmed"
             PROVE  Ledger!Disjoint(SlotOf(body[c]), SlotOf(body[r]))
  BY DEF Ledger!Free
<1>1. ~Overlap(c, r)
  BY DEF ConfirmedOverlap
<1>2. /\ Start(c) \in Nat /\ End(c) \in Nat /\ Start(r) \in Nat /\ End(r) \in Nat
  BY Times
<1>3. body[c].master = body[r].master => End(r) <= Start(c) \/ End(c) <= Start(r)
  BY <1>1, <1>2 DEF Overlap
<1> QED BY <1>3 DEF Ledger!Disjoint, SlotOf, Start, End

\* Every step is a step of the ledger or invisible to it.
LEMMA LedgerStep == VisitInv /\ [Next]_vars => [Ledger!Next]_(Ledger!vars)
<1> SUFFICES ASSUME VisitInv, [Next]_vars PROVE [Ledger!Next]_(Ledger!vars)
  OBVIOUS
<1>a. TypeOK /\ TimeInv /\ RawStages /\ status \in [Request -> Statuses]
  BY DEF VisitInv, BookingInv, TypeOK
<1>b. [r \in Request |-> SlotOf(body[r])]' = [r \in Request |-> SlotOf(body[r])]
  BY BookingStep DEF VisitInv, SlotOf
<1>1. ASSUME NEW r \in Request, pc[r] \notin {"store", "catch", "done"}, ~ConfirmedOverlap(r),
             status' = [status EXCEPT ![r] = "confirmed"]
      PROVE  Ledger!Book(r)
  <2>1. status[r] = "none"
    BY <1>1, <1>a DEF TimeInv, RowAfterSave
  <2> QED BY <1>1, <1>a, <1>b, <2>1, SlotIsFree DEF Ledger!Book
<1>2. ASSUME NEW r \in Request, Save(r) \/ CommitAckLost(r) PROVE Ledger!Book(r)
  BY <1>1, <1>2 DEF Save, CommitAckLost, Goto, VisitInv, BookingInv, CheckStaysTrue
<1>3. ASSUME NEW r \in Request, RawCommit(r) PROVE Ledger!Book(r)
  BY <1>1, <1>3 DEF RawCommit, Goto, VisitInv, BookingInv, RawSlotsClear
<1>4. ASSUME NEW c \in Canceller, CancelSave(c)
      PROVE  Ledger!Cancel(cancelling[c]) \/ UNCHANGED status
  <2>1. cancelling[c] \in Request /\ status[cancelling[c]] \in {"confirmed", "cancelled"}
    BY <1>4, <1>a, CancelledIsNotPast DEF CancelSave
  <2> QED BY <1>4, <1>a, <1>b, <2>1 DEF CancelSave, Ledger!Cancel
<1>5. CASE Complete
  <2> DEFINE B == {b \in Request : Past(b)}
  <2>1. status' = [b \in Request |-> IF b \in B THEN "completed" ELSE status[b]]
    BY <1>5 DEF Complete
  <2>2. \A b \in B : status[b] = "confirmed"
    BY DEF Past
  <2>3. B \in SUBSET Request
    OBVIOUS
  <2> HIDE DEF B
  <2>4. Ledger!Complete(B)
    BY <1>b, <2>1, <2>2 DEF Ledger!Complete
  <2> QED BY <2>3, <2>4 DEF Ledger!Next
<1>6. CASE UNCHANGED status
  BY <1>6, <1>b DEF Ledger!vars
<1>7. \/ \E r \in Request : Save(r) \/ CommitAckLost(r) \/ RawCommit(r)
      \/ \E c \in Canceller : CancelSave(c)
      \/ Complete \/ UNCHANGED status
  BY DEF Next, Arrive, ArriveWithoutKey, AcquireKey, MissKey, Handle, Replay, Busy,
        Reject, Accept, LockMaster, FindConflict, FindFree, SaveRefused, Store,
        Release, RawStep, RawPlace, RawRefused, RawDeadlock, Fail, AcquireFails,
        AcquireUnheard,
        LoadFails, TransactionFails, StoreFails, ReleaseFails, CancelRead,
        CancelFails, PendingExpires, StoredExpires, Tick, Crash, Finished, vars
<1>8. CASE \E r \in Request : Save(r) \/ CommitAckLost(r) \/ RawCommit(r)
  BY <1>2, <1>3, <1>8 DEF Ledger!Next
<1>9. CASE \E c \in Canceller : CancelSave(c)
  <2>1. PICK c \in Canceller : CancelSave(c)
    BY <1>9
  <2>2. cancelling[c] \in Request
    BY <2>1, <1>a, CancelledIsNotPast DEF CancelSave
  <2> QED BY <1>4, <1>6, <2>1, <2>2 DEF Ledger!Next
<1> QED BY <1>5, <1>6, <1>7, <1>8, <1>9

\* Booking implements the ledger, whatever the requests, failures and restarts.
THEOREM BookingImplementsLedger == Spec => ImplementsLedger
<1>1. VisitInv /\ [Next]_vars => [Ledger!Next]_(Ledger!vars)
  BY LedgerStep
<1> QED BY LedgerInit, <1>1, VisitInvariant, PTL DEF Spec, ImplementsLedger, Ledger!Spec
=============================================================================
