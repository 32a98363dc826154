---------------------------- MODULE ReplyProofs ----------------------------
(***************************************************************************)
(* Proofs about what the clients of Booking are told, and about the        *)
(* idempotency keys under which they ask.                                  *)
(***************************************************************************)
EXTENDS BookingProofs, BookingHistory

\* What a reply may be at each await, and what it says about the row.
ReplyStage ==
  \A r \in Request :
    /\ pc[r] \notin {"catch", "done"} => outcome[r].kind = "none"
    /\ pc[r] = "catch" => outcome[r].kind \in {"taken", "error"}
    /\ pc[r] = "store" => status[r] # "none"
    /\ outcome[r].kind = "created" => status[r] # "none"
    /\ outcome[r].kind \in {"rejected", "taken", "busy", "replayed"} => status[r] = "none"

\* A stored entry names a committed booking made under that key, by a handler
\* that has left its try block.
KeyStored ==
  \A k \in Key : keyState[k] = "stored" =>
    /\ keyResult[k] \in Request
    /\ KeyOf(keyResult[k]) = k
    /\ status[keyResult[k]] # "none"
    /\ pc[keyResult[k]] \in {"catch", "done"}

-----------------------------------------------------------------------------
\* Rows appear at the INSERT of their request and never vanish; nobody
\* arrives twice.
RowStep ==
  \A r \in Request :
    /\ status[r] # "none" => status'[r] # "none"
    /\ status'[r] # "none" => status[r] # "none" \/ pc[r] \in {"save", "raw"}
    /\ pc[r] # "idle" => pc'[r] # "idle"
    /\ pc[r] \in {"catch", "done"} => pc'[r] \in {"catch", "done"}

LEMMA RowsStay ==
  ASSUME VisitInv, [Next]_vars
  PROVE  RowStep
<1> USE DEF Goto, RowStep
<1>a. /\ pc \in [Request -> Stages] /\ status \in [Request -> Statuses]
      /\ TypeOK /\ TimeInv
  BY DEF VisitInv, BookingInv, TypeOK
<1>1. ASSUME NEW r \in Request, Arrive(r) PROVE RowStep
  BY <1>1, <1>a DEF Arrive, ArriveWithoutKey, AcquireKey, MissKey
<1>2. ASSUME NEW r \in Request, Handle(r) PROVE RowStep
  BY <1>2, <1>a DEF Handle, Replay, Busy, Reject, Accept, LockMaster, FindConflict,
                    FindFree, Save, SaveRefused, Store, Release
<1>3. ASSUME NEW r \in Request, RawStep(r) PROVE RowStep
  BY <1>3, <1>a DEF RawStep, RawPlace, RawRefused, RawCommit, RawDeadlock
<1>4. ASSUME NEW r \in Request, Fail(r) PROVE RowStep
  BY <1>4, <1>a DEF Fail, AcquireFails, AcquireUnheard, LoadFails,
                    TransactionFails, CommitAckLost,
                    StoreFails, ReleaseFails, AfterValidation
<1>5. ASSUME NEW c \in Canceller, CancelSave(c) PROVE RowStep
  BY <1>5, <1>a, CancelledIsNotPast DEF CancelSave
<1>6. CASE Complete
  BY <1>6, <1>a DEF Complete, Past
<1>7. CASE Crash
  BY <1>7, <1>a DEF Crash, InFlight
<1>8. CASE UNCHANGED <<pc, status>>
  BY <1>8
<1> QED
  BY <1>1, <1>2, <1>3, <1>4, <1>5, <1>6, <1>7, <1>8
  DEF Next, CancelRead, CancelFails, PendingExpires, StoredExpires, Tick, Finished, vars

\* Every reply fits the await at which it is given.
LEMMA ReplyStageStep ==
  ASSUME VisitInv, ReplyStage, [Next]_vars
  PROVE  ReplyStage'
<1> USE DEF Goto, Reply, Answer, ReplyStage
<1>a. /\ pc \in [Request -> Stages]
      /\ outcome \in [Request -> [kind : Kinds, booking : Request \cup {NoRequest}]]
      /\ status \in [Request -> Statuses]
  BY DEF VisitInv, BookingInv, TypeOK
<1>b. RowStep
  BY RowsStay
<1>c. \A r \in Request : status[r] # "none" => pc[r] \in {"store", "catch", "done"}
  BY DEF VisitInv, TimeInv, RowAfterSave
<1>1. ASSUME NEW r \in Request, Arrive(r) PROVE ReplyStage'
  BY <1>1, <1>a DEF Arrive, ArriveWithoutKey, AcquireKey, MissKey
<1>2. ASSUME NEW r \in Request, Handle(r) PROVE ReplyStage'
  BY <1>2, <1>a, <1>c
  DEF Handle, Replay, Busy, Reject, Accept, LockMaster, FindConflict,
      FindFree, Save, SaveRefused, Store, Release
<1>3. ASSUME NEW r \in Request, RawStep(r) PROVE ReplyStage'
  BY <1>3, <1>a, <1>c DEF RawStep, RawPlace, RawRefused, RawCommit, RawDeadlock
<1>4. ASSUME NEW r \in Request, Fail(r) PROVE ReplyStage'
  BY <1>4, <1>a, <1>c
  DEF Fail, AcquireFails, AcquireUnheard, LoadFails, TransactionFails,
      CommitAckLost, StoreFails,
      ReleaseFails, AfterValidation
<1>5. CASE Crash
  BY <1>5, <1>a DEF Crash, InFlight
<1>6. CASE UNCHANGED <<pc, outcome>>
  <2>1. SUFFICES ASSUME NEW r \in Request
                 PROVE  /\ pc[r] = "store" \/ outcome[r].kind = "created"
                             => status'[r] # "none"
                        /\ outcome[r].kind \in {"rejected", "taken", "busy", "replayed"}
                             => status'[r] = "none"
    BY <1>6
  <2>2. outcome[r].kind \in {"rejected", "taken", "busy", "replayed"}
          => pc[r] \notin {"save", "raw"}
    OBVIOUS
  <2> QED BY <1>b, <2>2 DEF RowStep
<1> QED
  BY <1>1, <1>2, <1>3, <1>4, <1>5, <1>6
  DEF Next, CancelRead, CancelSave, CancelFails, Complete, PendingExpires,
      StoredExpires, Tick, Finished, vars

\* A stored entry stays true: rows do not vanish, and Store and StoreFails
\* write it for the row of the handler that runs them.
LEMMA KeyStoredStep ==
  ASSUME VisitInv, ReplyStage, KeyStored, [Next]_vars
  PROVE  KeyStored'
<1> USE DEF Goto, keys
<1>a. /\ pc \in [Request -> Stages]
      /\ keyState \in [Key -> {"free", "pending", "stored"}]
      /\ keyResult \in [Key -> Request \cup {NoRequest}]
      /\ body' = body
  BY BookingStep DEF VisitInv, BookingInv, TypeOK
<1>b. RowStep
  BY RowsStay
<1>c. \A r : KeyOf(r)' = KeyOf(r)
  BY <1>a DEF KeyOf
<1>1. ASSUME \A k \in Key : keyState'[k] = "stored" =>
                              keyState[k] = "stored" /\ keyResult'[k] = keyResult[k]
      PROVE  KeyStored'
  BY <1>1, <1>b, <1>c DEF KeyStored, RowStep
<1>2. ASSUME NEW r \in Request, pc[r] = "store",
             pc' = [pc EXCEPT ![r] = "catch"] \/ pc' = [pc EXCEPT ![r] = "done"],
             \A k \in Key : \/ keyState'[k] = keyState[k] /\ keyResult'[k] = keyResult[k]
                            \/ k = KeyOf(r) /\ keyResult'[k] = r
      PROVE  KeyStored'
  BY <1>2, <1>a, <1>b, <1>c DEF KeyStored, RowStep, ReplyStage
<1>3. ASSUME NEW r \in Request, Arrive(r) PROVE KeyStored'
  BY <1>1, <1>3, <1>a DEF Arrive, ArriveWithoutKey, AcquireKey, MissKey
<1>4. ASSUME NEW r \in Request, Handle(r) PROVE KeyStored'
  <2>1. CASE Store(r)
    BY <1>2, <2>1, <1>a DEF Store
  <2>2. CASE Release(r)
    BY <1>1, <2>2, <1>a DEF Release
  <2>3. CASE UNCHANGED keys
    BY <1>1, <2>3
  <2> QED
    BY <1>4, <2>1, <2>2, <2>3
    DEF Handle, Replay, Busy, Reject, Accept, LockMaster, FindConflict, FindFree,
        Save, SaveRefused
<1>5. ASSUME NEW r \in Request, Fail(r) PROVE KeyStored'
  <2>1. CASE StoreFails(r)
    BY <1>2, <2>1, <1>a DEF StoreFails
  <2>2. CASE AcquireFails(r) \/ AcquireUnheard(r) \/ ReleaseFails(r)
    BY <1>1, <2>2, <1>a DEF AcquireFails, AcquireUnheard, ReleaseFails
  <2>3. CASE UNCHANGED keys
    BY <1>1, <2>3
  <2> QED
    BY <1>5, <2>1, <2>2, <2>3 DEF Fail, LoadFails, TransactionFails, CommitAckLost
<1>6. ASSUME NEW k \in Key, PendingExpires(k) \/ StoredExpires(k) PROVE KeyStored'
  BY <1>1, <1>6, <1>a DEF PendingExpires, StoredExpires
<1>7. CASE UNCHANGED keys
  BY <1>1, <1>7
<1> QED
  BY <1>3, <1>4, <1>5, <1>6, <1>7
  DEF Next, RawStep, RawPlace, RawRefused, RawCommit, RawDeadlock, CancelRead,
      CancelSave, CancelFails, Complete, Tick, Crash, Finished, vars

\* The inductive invariant behind the replies.
ReplyInv == VisitInv /\ ReplyStage /\ KeyStored

\* The invariant that the properties below rest on.
THEOREM ReplyInvariant == Spec => []ReplyInv
<1>1. Init => ReplyStage /\ KeyStored
  BY DEF Init, ReplyStage, KeyStored, Unanswered
<1>2. VisitInv /\ ReplyStage /\ KeyStored /\ [Next]_vars => ReplyStage' /\ KeyStored'
  BY ReplyStageStep, KeyStoredStep
<1> QED BY <1>1, <1>2, VisitInvariant, PTL DEF Spec, ReplyInv

\* A 201 means that the row exists; 400, 404 and 409 mean that it does not.
\* This needs to know of every await, also in the catch block, whether the
\* row can be there: an INSERT whose COMMIT got lost is answered 500.
THEOREM RepliesHonest == Spec => []ReplyHonest
<1>1. ReplyInv => ReplyHonest
  BY DEF ReplyInv, ReplyStage, ReplyHonest
<1> QED BY <1>1, ReplyInvariant, PTL

-----------------------------------------------------------------------------
\* Bookings that overlap share a unit of time: the later start of the two.
LEMMA OverlapShares ==
  ASSUME TypeOK, NEW a \in Request, NEW b \in Request, Overlap(a, b)
  PROVE  ShareTime(a, b)
<1>1. /\ Start(a) \in Nat /\ Start(b) \in Nat
      /\ Duration[body[a].service] \in Nat /\ Duration[body[b].service] \in Nat
      /\ Duration[body[a].service] > 0 /\ Duration[body[b].service] > 0
  <2>1. body[a] \in Body /\ body[b] \in Body
    BY DEF TypeOK
  <2> QED BY <2>1, CatalogueAssumption, Times DEF Body
<1>2. /\ body[a].master = body[b].master
      /\ Start(a) < Start(b) + Duration[body[b].service]
      /\ Start(b) < Start(a) + Duration[body[a].service]
  BY <1>1 DEF Overlap, Start, End
<1>3. CASE Start(b) <= Start(a)
  <2>1. 0 \in 0..Duration[body[a].service] - 1
    BY <1>1
  <2>2. Start(b) <= Start(a) + 0 /\ Start(a) + 0 < End(b)
    BY <1>1, <1>2, <1>3 DEF Start, End
  <2> QED BY <1>2, <2>1, <2>2 DEF ShareTime
<1>4. CASE Start(a) < Start(b)
  <2>1. Start(b) - Start(a) \in 0..Duration[body[a].service] - 1
    BY <1>1, <1>2, <1>4
  <2>2. /\ Start(b) <= Start(a) + (Start(b) - Start(a))
        /\ Start(a) + (Start(b) - Start(a)) < End(b)
    BY <1>1 DEF Start, End
  <2> QED BY <1>2, <2>1, <2>2 DEF ShareTime
<1> QED BY <1>1, <1>3, <1>4

\* A 409 is given only in a step in which the slot is somebody else's.
LEMMA NewConflict ==
  ASSUME TypeOK, RawStages, [Next]_vars
  PROVE  \A r \in Request : outcome'[r].kind = "taken" =>
           outcome[r].kind = "taken" \/ Opposed(r)
<1> DEFINE Justified == \A r \in Request : outcome'[r].kind = "taken" =>
                          outcome[r].kind = "taken" \/ Opposed(r)
<1> USE DEF Goto, Reply, Answer
<1>a. /\ outcome \in [Request -> [kind : Kinds, booking : Request \cup {NoRequest}]]
      /\ pc \in [Request -> Stages]
  BY DEF TypeOK
<1>b. \A r \in Request : ConfirmedOverlap(r) => Opposed(r)
  BY OverlapShares DEF ConfirmedOverlap, Opposed
<1>1. ASSUME NEW r \in Request, Handle(r) PROVE Justified
  <2>1. CASE FindConflict(r)
    BY <2>1, <1>a, <1>b DEF FindConflict
  <2>2. CASE SaveRefused(r)
    <3>1. PlacedOverlap(r) => Opposed(r)
      BY LayerAssumption, OverlapShares DEF PlacedOverlap, Opposed
    <3> QED BY <2>2, <3>1, <1>a, <1>b DEF SaveRefused, MayInsert
  <2>3. CASE ~FindConflict(r) /\ ~SaveRefused(r)
    BY <1>1, <2>3, <1>a
    DEF Handle, Replay, Busy, Reject, Accept, LockMaster, FindFree, Save, Store, Release
  <2> QED BY <2>1, <2>2, <2>3
<1>2. ASSUME NEW r \in Request, RawStep(r) PROVE Justified
  <2>1. CASE RawDeadlock(r)
    <3>1. r \in Raw /\ pc[r] = "raw"
      BY <2>1 DEF RawDeadlock, RawStages
    <3>2. PICK q \in Request : pc[q] = "save" /\ Overlap(q, r)
      BY <2>1 DEF RawDeadlock
    <3>3. Opposed(r)
      BY <3>1, <3>2, OverlapShares DEF Opposed
    <3> QED BY <2>1, <3>3, <1>a DEF RawDeadlock
  <2>2. CASE ~RawDeadlock(r)
    BY <1>2, <2>2, <1>a, <1>b DEF RawStep, RawPlace, RawRefused, RawCommit
  <2> QED BY <2>1, <2>2
<1>3. ASSUME NEW r \in Request, Fail(r) PROVE Justified
  BY <1>3, <1>a
  DEF Fail, AcquireFails, AcquireUnheard, LoadFails, TransactionFails,
      CommitAckLost, StoreFails,
      ReleaseFails
<1>4. CASE Crash
  BY <1>4, <1>a DEF Crash
<1>5. CASE UNCHANGED outcome
  BY <1>5
<1> QED
  BY <1>1, <1>2, <1>3, <1>4, <1>5
  DEF Next, Arrive, ArriveWithoutKey, AcquireKey, MissKey, CancelRead, CancelSave,
      CancelFails, Complete, PendingExpires, StoredExpires, Tick, Finished, vars

\* Nobody is told that a slot is taken when it is free.
THEOREM ConflictsJustified == Spec => ConflictJustified
<1>1. VisitInv /\ [Next]_vars =>
        [\A r \in Request : outcome'[r].kind = "taken" =>
           outcome[r].kind = "taken" \/ Opposed(r)]_vars
  BY NewConflict DEF VisitInv, BookingInv
<1> QED BY <1>1, VisitInvariant, PTL DEF Spec, ConflictJustified

-----------------------------------------------------------------------------
\* A repeated key is answered with a booking that was committed under it.
THEOREM ReplaysFaithful == Spec => []ReplayFaithful
<1>1. Init => ReplayFaithful
  BY DEF Init, ReplayFaithful, Unanswered
<1>2. ReplyInv /\ ReplayFaithful /\ [Next]_vars => ReplayFaithful'
  <2> SUFFICES ASSUME ReplyInv, ReplayFaithful, [Next]_vars PROVE ReplayFaithful'
    OBVIOUS
  <2> USE DEF Goto, Reply, Answer
  <2>a. /\ pc \in [Request -> Stages] /\ body' = body
        /\ outcome \in [Request -> [kind : Kinds, booking : Request \cup {NoRequest}]]
    BY BookingStep DEF ReplyInv, VisitInv, BookingInv, TypeOK
  <2>b. RowStep
    BY RowsStay DEF ReplyInv
  <2>c. \A r : KeyOf(r)' = KeyOf(r)
    BY <2>a DEF KeyOf
  <2>1. ASSUME \A r \in Request : outcome'[r].kind = "replayed" => outcome'[r] = outcome[r]
        PROVE  ReplayFaithful'
    BY <2>1, <2>b, <2>c DEF ReplayFaithful, RowStep
  <2>2. ASSUME NEW r \in Request, Replay(r) PROVE ReplayFaithful'
    <3>1. KeyOf(r) \in Key
      BY <2>2 DEF Replay, ReplyInv, VisitInv, BookingInv, ReadersHaveKeys, TypeOK, Body, KeyOf
    <3>2. DEFINE b == keyResult[KeyOf(r)]
    <3>3. b \in Request \ {r} /\ status[b] # "none" /\ KeyOf(b) = KeyOf(r)
      BY <2>2, <3>1 DEF Replay, ReplyInv, KeyStored
    <3>4. outcome' = [outcome EXCEPT ![r] = [kind |-> "replayed", booking |-> b]]
      BY <2>2 DEF Replay
    <3> HIDE DEF b
    <3> QED BY <3>3, <3>4, <2>a, <2>b, <2>c DEF ReplayFaithful, RowStep
  <2>3. ASSUME NEW r \in Request, Handle(r), ~Replay(r) PROVE ReplayFaithful'
    BY <2>1, <2>3, <2>a
    DEF Handle, Busy, Reject, Accept, LockMaster, FindConflict, FindFree, Save,
        SaveRefused, Store, Release
  <2>4. ASSUME NEW r \in Request, RawStep(r) PROVE ReplayFaithful'
    BY <2>1, <2>4, <2>a DEF RawStep, RawPlace, RawRefused, RawCommit, RawDeadlock
  <2>5. ASSUME NEW r \in Request, Fail(r) PROVE ReplayFaithful'
    BY <2>1, <2>5, <2>a
    DEF Fail, AcquireFails, AcquireUnheard, LoadFails, TransactionFails,
        CommitAckLost, StoreFails,
        ReleaseFails
  <2>6. CASE Crash
    BY <2>1, <2>6, <2>a DEF Crash
  <2>7. CASE UNCHANGED outcome
    BY <2>1, <2>7
  <2> QED
    BY <2>2, <2>3, <2>4, <2>5, <2>6, <2>7
    DEF Next, Arrive, ArriveWithoutKey, AcquireKey, MissKey, CancelRead, CancelSave,
        CancelFails, Complete, PendingExpires, StoredExpires, Tick, Finished, vars
<1> QED BY <1>1, <1>2, ReplyInvariant, PTL DEF Spec

-----------------------------------------------------------------------------
\* A step that lets no new handler hold a key and frees none that is held.
LEMMA QuietHolders ==
  ASSUME KeyExclusive, \A k \in Key : Undisturbed(k)' => Undisturbed(k),
         \A r \in Request, k \in Key : Holds(r, k)' => Holds(r, k),
         \A r \in Request, k \in Key :
            Holds(r, k)' /\ keyState[k] # "free" => keyState'[k] # "free"
  PROVE  KeyExclusive'
BY DEF KeyExclusive

\* At most one request works under a key, which is taken meanwhile, until a
\* handler comes in under it that outlives the key's entry.
THEOREM KeysExclusive == Spec => []KeyExclusive
<1>1. Init => KeyExclusive
  BY DEF Init, KeyExclusive, Holds, InFlight
<1>2. VisitInv /\ KeyExclusive /\ [Next]_vars => KeyExclusive'
  <2> SUFFICES ASSUME VisitInv, KeyExclusive, [Next]_vars PROVE KeyExclusive'
    OBVIOUS
  <2> USE DEF Goto, Holds, InFlight, keys
  <2>a. /\ pc \in [Request -> Stages] /\ body' = body
        /\ keyState \in [Key -> {"free", "pending", "stored"}]
        /\ \A r \in Request : KeyOf(r) \in Key \cup {NoKey}
    BY BookingStep DEF VisitInv, BookingInv, TypeOK, Body, KeyOf
  <2>b. \A r : KeyOf(r)' = KeyOf(r)
    BY <2>a DEF KeyOf
  <2>c. \A k \in Key : Undisturbed(k)' => Undisturbed(k)
    BY <2>b, RowsStay, BoundAssumption DEF RowStep, Undisturbed
  <2>1. ASSUME NEW r \in Request, Arrive(r) PROVE KeyExclusive'
    <3>1. CASE AcquireKey(r)
      BY <3>1, <2>a, <2>b, <2>c, IdAssumption DEF AcquireKey, KeyExclusive
    <3>2. CASE ArriveWithoutKey(r)
      BY <3>2, <2>a, <2>b, IdAssumption, <2>c, QuietHolders DEF ArriveWithoutKey
    <3>3. CASE MissKey(r)
      BY <3>3, <2>a, <2>b, <2>c, QuietHolders DEF MissKey
    <3> QED BY <2>1, <3>1, <3>2, <3>3 DEF Arrive
  <2>2. ASSUME NEW r \in Request, Handle(r) PROVE KeyExclusive'
    <3>1. CASE Release(r)
      BY <3>1, <2>a, <2>b, <2>c DEF Release, KeyExclusive
    <3>2. CASE Store(r)
      BY <3>2, <2>a, <2>b, <2>c, QuietHolders DEF Store
    <3>3. CASE ~Release(r) /\ ~Store(r)
      BY <2>2, <3>3, <2>a, <2>b, <2>c, QuietHolders
      DEF Handle, Replay, Busy, Reject, Accept, LockMaster, FindConflict, FindFree,
          Save, SaveRefused
    <3> QED BY <3>1, <3>2, <3>3
  <2>3. ASSUME NEW r \in Request, RawStep(r) PROVE KeyExclusive'
    BY <2>3, <2>a, <2>b, <2>c, QuietHolders
    DEF RawStep, RawPlace, RawRefused, RawCommit, RawDeadlock
  <2>4. ASSUME NEW r \in Request, Fail(r) PROVE KeyExclusive'
    <3>1. CASE ReleaseFails(r)
      BY <3>1, <2>a, <2>b, <2>c DEF ReleaseFails, KeyExclusive
    <3>2. CASE AcquireFails(r) \/ AcquireUnheard(r) \/ StoreFails(r)
      BY <3>2, <2>a, <2>b, <2>c, QuietHolders DEF AcquireFails, AcquireUnheard, StoreFails
    <3>3. CASE LoadFails(r) \/ TransactionFails(r) \/ CommitAckLost(r)
      BY <3>3, <2>a, <2>b, <2>c, QuietHolders
      DEF LoadFails, TransactionFails, CommitAckLost, AfterValidation
    <3> QED BY <2>4, <3>1, <3>2, <3>3 DEF Fail
  <2>5. ASSUME NEW k \in Key, PendingExpires(k) \/ StoredExpires(k) PROVE KeyExclusive'
    BY <2>5, <2>a, <2>b, <2>c
    DEF PendingExpires, StoredExpires, KeyExclusive, Undisturbed, world
  <2>6. CASE Crash
    BY <2>6, <2>a, <2>b, <2>c, QuietHolders DEF Crash
  <2>7. CASE UNCHANGED <<pc, keyState>>
    BY <2>7, <2>b, <2>c, QuietHolders
  <2> QED
    BY <2>1, <2>2, <2>3, <2>4, <2>5, <2>6, <2>7
    DEF Next, CancelRead, CancelSave, CancelFails, Complete, Tick, Finished, vars
<1> QED BY <1>1, <1>2, VisitInvariant, PTL DEF Spec

-----------------------------------------------------------------------------
\* What is remembered takes nothing away and adds no step.
LEMMA HistoryOnly == HSpec => Spec
<1>1. HInit => Init
  BY DEF HInit
<1>2. [HNext]_hvars => [Next]_vars
  BY DEF HNext, hvars
<1> QED BY <1>1, <1>2, PTL DEF HSpec, Spec

\* How the request r explains that the key k is pending.
Explains(r, k) ==
  /\ KeyOf(r) = k
  /\ \/ Holds(r, k) \/ pc[r] = "readKey"
     \/ outcome[r].kind \in {"rejected", "error", "lost", "busy"}

\* An entry that is pending after a step was made pending in it by the one
\* request that moved, or was pending before, and explanations stay valid.
PendingStep ==
  \A k \in Key : keyState'[k] = "pending" =>
    \/ \E r \in Request :
         /\ SetsKey(r, k) /\ Explains(r, k)'
         /\ \A q \in Request : SetsKey(q, k) => q = r
    \/ /\ keyState[k] = "pending"
       /\ \A r \in Request : Explains(r, k) => Explains(r, k)'

LEMMA PendingSteps ==
  ASSUME ReplyInv, [Next]_vars
  PROVE  PendingStep
<1> USE DEF Goto, Holds, InFlight, keys, Reply, Answer, Explains, PendingStep, SetsKey
<1>a. /\ pc \in [Request -> Stages] /\ body' = body
      /\ outcome \in [Request -> [kind : Kinds, booking : Request \cup {NoRequest}]]
      /\ keyState \in [Key -> {"free", "pending", "stored"}]
      /\ ReplyStage /\ RawStages
  BY BookingStep DEF ReplyInv, VisitInv, BookingInv, TypeOK
<1>b. \A r : KeyOf(r)' = KeyOf(r)
  BY <1>a DEF KeyOf
<1>1. ASSUME NEW r \in Request, Arrive(r) PROVE PendingStep
  BY <1>1, <1>a, <1>b DEF Arrive, ArriveWithoutKey, AcquireKey, MissKey
<1>2. ASSUME NEW r \in Request, Handle(r) PROVE PendingStep
  <2>1. CASE Release(r) \/ Store(r)
    BY <2>1, <1>a, <1>b DEF Release, Store
  <2>2. CASE ~Release(r) /\ ~Store(r)
    BY <1>2, <2>2, <1>a, <1>b
    DEF ReplyStage, Handle, Replay, Busy, Reject, Accept, LockMaster, FindConflict,
        FindFree, Save, SaveRefused
  <2> QED BY <2>1, <2>2
<1>3. ASSUME NEW r \in Request, RawStep(r) PROVE PendingStep
  BY <1>3, <1>a, <1>b
  DEF ReplyStage, RawStep, RawPlace, RawRefused, RawCommit, RawDeadlock
<1>4. ASSUME NEW r \in Request, Fail(r) PROVE PendingStep
  <2>1. CASE AcquireFails(r) \/ AcquireUnheard(r)
    BY <2>1, <1>a, <1>b DEF AcquireFails, AcquireUnheard
  <2>2. CASE ~(AcquireFails(r) \/ AcquireUnheard(r))
    BY <1>4, <2>2, <1>a, <1>b
    DEF Fail, LoadFails, TransactionFails, CommitAckLost, StoreFails, ReleaseFails,
        AfterValidation
  <2> QED BY <2>1, <2>2
<1>5. ASSUME NEW k \in Key, PendingExpires(k) \/ StoredExpires(k) PROVE PendingStep
  BY <1>5, <1>a, <1>b DEF PendingExpires, StoredExpires
<1>6. CASE Crash
  BY <1>6, <1>a, <1>b DEF Crash
<1>7. CASE UNCHANGED <<pc, keyState, outcome>>
  BY <1>7, <1>b
<1> QED
  BY <1>1, <1>2, <1>3, <1>4, <1>5, <1>6, <1>7
  DEF Next, CancelRead, CancelSave, CancelFails, Complete, Tick, Finished, vars

\* A key stays pending behind the request that took it: as long as it works,
\* when it was rejected, when its calls failed or when it was told "busy" by
\* an entry of its own.  To lose the slot or to book frees or fills the key.
THEOREM PendingKeysExplained == HSpec => []PendingExplained
<1>1. HInit => PendingExplained
  BY DEF HInit, Init, PendingExplained
<1>2. ReplyInv /\ PendingExplained /\ [HNext]_hvars => PendingExplained'
  <2> SUFFICES ASSUME ReplyInv, PendingExplained, [HNext]_hvars,
                      NEW k \in Key, keyState'[k] = "pending"
               PROVE  setter'[k] \in Request /\ Explains(setter[k], k)'
    BY DEF PendingExplained, Explains
  <2>1. CASE UNCHANGED hvars
    BY <2>1 DEF hvars, vars, PendingExplained, Explains, Holds, KeyOf, world, keys
  <2>2. CASE HNext
    <3>1. \/ \E r \in Request :
               /\ SetsKey(r, k) /\ Explains(r, k)'
               /\ \A q \in Request : SetsKey(q, k) => q = r
          \/ /\ keyState[k] = "pending"
             /\ \A r \in Request : Explains(r, k) => Explains(r, k)'
      BY <2>2, PendingSteps DEF HNext, PendingStep
    <3>2. setter'[k] = IF \E r \in Request : SetsKey(r, k)
                       THEN CHOOSE r \in Request : SetsKey(r, k) ELSE setter[k]
      BY <2>2 DEF HNext, Remember
    <3>3. CASE \E r \in Request :
                 /\ SetsKey(r, k) /\ Explains(r, k)'
                 /\ \A q \in Request : SetsKey(q, k) => q = r
      <4>1. PICK r \in Request : /\ SetsKey(r, k) /\ Explains(r, k)'
                                 /\ \A q \in Request : SetsKey(q, k) => q = r
        BY <3>3
      <4>2. setter'[k] = r
        BY <3>2, <4>1
      <4> QED BY <4>1, <4>2 DEF Explains, Holds, KeyOf
    <3>4. CASE /\ keyState[k] = "pending"
               /\ \A r \in Request : Explains(r, k) => Explains(r, k)'
      <4>1. setter'[k] = setter[k]
        BY <3>2, <3>4 DEF SetsKey
      <4>2. setter[k] \in Request /\ Explains(setter[k], k)
        BY <3>4 DEF PendingExplained, Explains
      <4> QED BY <3>4, <4>1, <4>2 DEF Explains, Holds, KeyOf
    <3> QED BY <3>1, <3>3, <3>4
  <2> QED BY <2>1, <2>2
<1> QED BY <1>1, <1>2, HistoryOnly, ReplyInvariant, PTL DEF HSpec

-----------------------------------------------------------------------------
\* The bookings made under k that count against a second one.
Counted(k) == {b \in Booked(k) \ forgotten[k] : outcome[b].kind # "error"}

\* The inductive invariant behind NoSecondBooking: next to a booking that
\* counts nobody else works under the key, and nobody can begin to.
OneBooking ==
  \A k \in Key : Undisturbed(k) => \A b \in Counted(k) :
    /\ keyState[k] # "free"
    /\ \A a \in Request : Holds(a, k) => a = b
    /\ \A a \in Counted(k) : a = b

\* What a step may do to keys and to the rows made under them.
KeyStep ==
  /\ \A r \in Request, k \in Key : Holds(r, k)' => Holds(r, k) \/ keyState[k] = "free"
  /\ \A k \in Key : keyState[k] # "free" /\ keyState'[k] = "free" =>
       \/ UNCHANGED pc
       \/ \E r \in Request : /\ pc[r] = "catch" /\ KeyOf(r) = k /\ UNCHANGED status
                             /\ UNCHANGED outcome \/ outcome'[r].kind = "error"
  /\ \A b \in Request \ Raw : status'[b] # "none" /\ outcome'[b].kind # "error" =>
       \/ status[b] # "none" /\ outcome[b].kind # "error"
       \/ pc[b] \in {"save", "catch"}

LEMMA KeySteps ==
  ASSUME ReplyInv, [Next]_vars
  PROVE  KeyStep
<1> USE IdAssumption DEF Goto, Holds, InFlight, keys, Reply, Answer, KeyStep
<1>a. /\ pc \in [Request -> Stages] /\ body' = body
      /\ outcome \in [Request -> [kind : Kinds, booking : Request \cup {NoRequest}]]
      /\ status \in [Request -> Statuses]
      /\ keyState \in [Key -> {"free", "pending", "stored"}]
      /\ ReplyStage /\ RawStages
  BY BookingStep DEF ReplyInv, VisitInv, BookingInv, TypeOK
<1>b. \A r : KeyOf(r)' = KeyOf(r)
  BY <1>a DEF KeyOf
<1>c. RowStep
  BY RowsStay DEF ReplyInv
<1>1. ASSUME NEW r \in Request, Arrive(r) PROVE KeyStep
  BY <1>1, <1>a, <1>b DEF Arrive, ArriveWithoutKey, AcquireKey, MissKey
<1>2. ASSUME NEW r \in Request, Handle(r) PROVE KeyStep
  <2>1. CASE Release(r)
    BY <2>1, <1>a, <1>b DEF Release
  <2>2. CASE Store(r)
    BY <2>2, <1>a, <1>b DEF Store, ReplyStage
  <2>3. CASE ~Release(r) /\ ~Store(r)
    BY <1>2, <2>3, <1>a, <1>b
    DEF ReplyStage, Handle, Replay, Busy, Reject, Accept, LockMaster, FindConflict,
        FindFree, Save, SaveRefused
  <2> QED BY <2>1, <2>2, <2>3
<1>3. ASSUME NEW r \in Request, RawStep(r) PROVE KeyStep
  <2>1. r \in Raw
    BY <1>3, <1>a DEF RawStep, RawPlace, RawRefused, RawCommit, RawDeadlock, RawStages
  <2> QED
    BY <1>3, <2>1, <1>a, <1>b DEF RawStep, RawPlace, RawRefused, RawCommit, RawDeadlock
<1>4. ASSUME NEW r \in Request, Fail(r) PROVE KeyStep
  <2>1. CASE AcquireFails(r) \/ AcquireUnheard(r)
    BY <2>1, <1>a, <1>b DEF AcquireFails, AcquireUnheard
  <2>2. CASE StoreFails(r) \/ ReleaseFails(r)
    BY <2>2, <1>a, <1>b DEF StoreFails, ReleaseFails
  <2>3. CASE LoadFails(r) \/ TransactionFails(r) \/ CommitAckLost(r)
    BY <2>3, <1>a, <1>b DEF LoadFails, TransactionFails, CommitAckLost, AfterValidation
  <2> QED BY <1>4, <2>1, <2>2, <2>3 DEF Fail
<1>5. ASSUME NEW k \in Key, PendingExpires(k) \/ StoredExpires(k) PROVE KeyStep
  BY <1>5, <1>a, <1>b DEF PendingExpires, StoredExpires
<1>6. CASE Crash
  BY <1>6, <1>a, <1>b DEF Crash, ReplyStage
<1>7. CASE UNCHANGED <<pc, keyState, outcome>>
  BY <1>7, <1>a, <1>b, <1>c DEF RowStep, RawStages
<1> QED
  BY <1>1, <1>2, <1>3, <1>4, <1>5, <1>6, <1>7
  DEF Next, CancelRead, CancelSave, CancelFails, Complete, Tick, Finished, vars

\* A step of Booking keeps OneBooking: a booking joins those that count out of
\* the hands of the one request that holds the key.
LEMMA OneBookingStep ==
  ASSUME ReplyInv, ReplyInv', KeyExclusive, OneBooking, HNext
  PROVE  OneBooking'
<1>a. KeyStep /\ RowStep /\ body' = body
  BY KeySteps, RowsStay, BookingStep DEF HNext, ReplyInv, VisitInv
<1>b. \A r : KeyOf(r)' = KeyOf(r)
  BY <1>a DEF KeyOf
<1> SUFFICES ASSUME NEW k \in Key, Undisturbed(k)', NEW b \in Counted(k)'
             PROVE  /\ keyState'[k] # "free"
                    /\ \A a \in Request : Holds(a, k)' => a = b
                    /\ \A a \in Counted(k)' : a = b
  BY DEF OneBooking
<1>1. Undisturbed(k)
  BY <1>a, <1>b, BoundAssumption DEF RowStep, Undisturbed
<1>2. forgotten'[k] = IF RunsOut(k) THEN Booked(k) ELSE forgotten[k]
  BY DEF HNext, Remember
<1>3. \A a \in Counted(k)' :
        /\ a \in Request \ Raw /\ KeyOf(a) = k
        /\ status'[a] # "none" /\ outcome'[a].kind # "error" /\ a \notin forgotten'[k]
  BY <1>b DEF Counted, Booked
<1>4. ~RunsOut(k)
  <2> SUFFICES ASSUME RunsOut(k) PROVE FALSE
    OBVIOUS
  <2>1. status[b] = "none"
    BY <1>2, <1>3 DEF Booked
  <2>2. pc[b] \in {"save", "raw"}
    BY <1>3, <1>a, <2>1 DEF RowStep
  <2>3. pc'[b] \in {"store", "catch", "done"}
    BY <1>3 DEF ReplyInv, VisitInv, TimeInv, RowAfterSave
  <2> QED BY <2>2, <2>3 DEF RunsOut
<1>5. \A a \in Counted(k)' : a \in Counted(k) \/ Holds(a, k)
  <2> SUFFICES ASSUME NEW a \in Counted(k)', a \notin Counted(k) PROVE Holds(a, k)
    OBVIOUS
  <2>1. ~(status[a] # "none" /\ outcome[a].kind # "error")
    BY <1>2, <1>3, <1>4 DEF Counted, Booked
  <2>2. pc[a] \in {"save", "catch"}
    BY <1>3, <1>a, <2>1 DEF KeyStep
  <2> QED BY <1>3, <2>2 DEF Holds, InFlight
<1>6. \A a \in Counted(k)' : keyState[k] # "free" /\ \A c \in Request : Holds(c, k) => c = a
  BY <1>1, <1>3, <1>5 DEF OneBooking, KeyExclusive
<1>7. \A a \in Request : Holds(a, k)' => a = b
  BY <1>6, <1>a DEF KeyStep
<1>8. \A a \in Counted(k)' : a = b
  BY <1>1, <1>3, <1>5, <1>6 DEF OneBooking
<1>9. keyState'[k] # "free"
  <2> SUFFICES ASSUME keyState'[k] = "free" PROVE FALSE
    OBVIOUS
  <2>1. PICK r \in Request : /\ pc[r] = "catch" /\ KeyOf(r) = k /\ UNCHANGED status
                             /\ UNCHANGED outcome \/ outcome'[r].kind = "error"
    BY <1>4, <1>6, <1>a DEF KeyStep, RunsOut
  <2>2. r = b
    BY <1>6, <2>1 DEF Holds, InFlight
  <2>3. outcome[b].kind = "taken"
    BY <1>3, <2>1, <2>2 DEF ReplyInv, ReplyStage
  <2> QED BY <1>3, <2>1, <2>2, <2>3 DEF ReplyInv, ReplyStage
<1> QED BY <1>7, <1>8, <1>9

\* A repeat with the same key makes no second booking as long as the key's
\* entry lasts, and a request repeated as it was makes no second visit at all.
THEOREM NeverBookedTwice == HSpec => []NoSecondBooking
<1>1. HInit => OneBooking
  BY DEF HInit, Init, OneBooking, Counted, Booked
<1>2. ReplyInv /\ ReplyInv' /\ KeyExclusive /\ OneBooking /\ [HNext]_hvars => OneBooking'
  <2>1. CASE UNCHANGED hvars
    BY <2>1
    DEF hvars, vars, world, keys, OneBooking, Counted, Booked, Undisturbed, Holds, KeyOf
  <2> QED BY <2>1, OneBookingStep
<1>3. ReplyInv /\ OneBooking => NoSecondBooking
  <2> SUFFICES ASSUME ReplyInv, OneBooking PROVE NoSecondBooking
    OBVIOUS
  <2>1. ASSUME NEW a \in Request, NEW b \in Request, Visit(a), Visit(b), body[a] = body[b]
        PROVE  a = b
    <3>1. Overlap(a, b)
      BY <2>1, Times DEF ReplyInv, VisitInv, BookingInv, Overlap, Start, End
    <3> QED BY <2>1, <3>1 DEF ReplyInv, VisitInv, NoDoubleVisit
  <2>2. ASSUME NEW k \in Key, Undisturbed(k), NEW a \in Counted(k), NEW b \in Counted(k)
        PROVE  a = b
    BY <2>2 DEF OneBooking
  <2> QED BY <2>1, <2>2 DEF NoSecondBooking, Counted
<1> QED
  BY <1>1, <1>2, <1>3, HistoryOnly, ReplyInvariant, KeysExclusive, PTL DEF HSpec
=============================================================================
