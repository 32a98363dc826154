-------------------------- MODULE AvailabilityProofs --------------------------
(***************************************************************************)
(* Proof that the cache of GET /slots is stale for a bounded time only.    *)
(* What a call has read so far was true when the call began (Recent), a    *)
(* call takes MaxLag, an entry lives for TTL, and changed says when a slot *)
(* was freed or lost for the last time: a wrong entry is younger than the  *)
(* sum (Bounded).  Neither part mentions the invalidation, which may miss, *)
(* fail or lose its race.                                                  *)
(***************************************************************************)
EXTENDS Availability, TLAPS

TypeInv ==
  /\ now \in Nat
  /\ work \in SUBSET Slot /\ booked \in SUBSET Slot
  /\ commits \in Nat
  /\ cache \in [Day -> [offer : SUBSET Slot, till : Nat, commit : Nat]]
  /\ reader \in [Reader -> [at : {"idle", "master", "bookings", "fill"}, day : Day,
                            seen : SUBSET Slot, since : Nat]]
  /\ changed \in [Slot -> [time : Nat, commit : Nat]]

\* Nothing has happened in the future, and a call under way is young.
Clock ==
  /\ \A s \in Slot : changed[s].time <= now
  /\ \A c \in Reader : reader[c].since <= now
  /\ \A c \in Reader : reader[c].at # "idle" => now <= reader[c].since + MaxLag

\* Where a call's reading differs from the truth, the truth has changed since
\* the call began: first the schedule alone, then the free slots.
Recent ==
  \A c \in Reader : \A s \in SlotsOf(reader[c].day) :
    /\ reader[c].at = "bookings" /\ (s \in reader[c].seen) # (s \in work)
         => reader[c].since <= changed[s].time
    /\ reader[c].at = "fill" /\ Misjudged(reader[c].seen, s)
         => reader[c].since <= changed[s].time

\* An entry that is wrong dies in time.
Bounded ==
  \A d \in Day :
    /\ cache[d].till <= now + TTL
    /\ \A s \in SlotsOf(d) :
         Live(d) /\ Misjudged(cache[d].offer, s) => cache[d].till <= changed[s].time + MaxLag + TTL

CacheInv == TypeInv /\ Clock /\ Recent /\ Bounded

LEMMA CacheInit == Init => CacheInv
  <1> SUFFICES ASSUME Init PROVE CacheInv
      OBVIOUS
  <1> USE DayAssumption, LimitAssumption
  <1>0. (CHOOSE d \in Day : TRUE) \in Day
        OBVIOUS
  <1>1. TypeInv
        BY <1>0 DEF Init, TypeInv, NoEntry, IdleReader
  <1>2. Clock
        BY DEF Init, Clock, IdleReader
  <1>3. Recent
        BY DEF Init, Recent, IdleReader
  <1>4. Bounded
        BY DEF Init, Bounded, Live, NoEntry
  <1> QED  BY <1>1, <1>2, <1>3, <1>4 DEF CacheInv

\* What is read never leaves the type.
LEMMA TypeStep == TypeInv /\ [Next]_vars => TypeInv'
  <1> SUFFICES ASSUME TypeInv, [Next]_vars PROVE TypeInv'
      OBVIOUS
  <1> USE DayAssumption, LimitAssumption DEF TypeInv, db
  <1>1. ASSUME NEW c \in Reader, NEW d \in Day, Miss(c, d) PROVE TypeInv'
        BY <1>1 DEF Miss
  <1>2. ASSUME NEW c \in Reader, LoadMaster(c) PROVE TypeInv'
        BY <1>2, ZenonT(60) DEF LoadMaster
  <1>3. ASSUME NEW c \in Reader, LoadBookings(c) PROVE TypeInv'
        BY <1>3, ZenonT(60) DEF LoadBookings
  <1>12. ASSUME NEW c \in Reader, DayOff(c) PROVE TypeInv'
        BY <1>12 DEF DayOff, IdleReader
  <1>4. ASSUME NEW c \in Reader, Fill(c) PROVE TypeInv'
        BY <1>4 DEF Fill, IdleReader
  <1>5. ASSUME NEW w \in Writer, NEW s \in Slot, Write(w, s) PROVE TypeInv'
        BY <1>5 DEF Write, Changes, Free
  <1>6. ASSUME NEW w \in Writer, FindKeys(w) PROVE TypeInv'
        BY <1>6 DEF FindKeys, Find
  <1>7. ASSUME NEW w \in Writer, DropKeys(w) PROVE TypeInv'
        BY <1>7 DEF DropKeys, NoEntry
  <1>8. ASSUME NEW w \in Writer, InvalidationFails(w) PROVE TypeInv'
        BY <1>8 DEF InvalidationFails
  <1>9. CASE ChangeWeek
        BY <1>9 DEF ChangeWeek, Changes
  <1>10. CASE Tick
        BY <1>10 DEF Tick, NoEntry
  <1>11. CASE UNCHANGED vars
        BY <1>11 DEF vars
  <1> QED  BY <1>1, <1>2, <1>3, <1>4, <1>5, <1>6, <1>7, <1>8, <1>9, <1>10, <1>11, <1>12
           DEF Next

\* The clock moves only as far as the calls under way allow.
LEMMA ClockStep == TypeInv /\ Clock /\ [Next]_vars => Clock'
  <1> SUFFICES ASSUME TypeInv, Clock, [Next]_vars PROVE Clock'
      OBVIOUS
  <1> USE DayAssumption, LimitAssumption DEF TypeInv, Clock, db
  <1>1. ASSUME NEW c \in Reader, NEW d \in Day, Miss(c, d) PROVE Clock'
        BY <1>1 DEF Miss
  <1>2. ASSUME NEW c \in Reader, LoadMaster(c) PROVE Clock'
        BY <1>2 DEF LoadMaster
  <1>3. ASSUME NEW c \in Reader, LoadBookings(c) PROVE Clock'
        BY <1>3 DEF LoadBookings
  <1>12. ASSUME NEW c \in Reader, DayOff(c) PROVE Clock'
        BY <1>12 DEF DayOff, IdleReader
  <1>4. ASSUME NEW c \in Reader, Fill(c) PROVE Clock'
        BY <1>4 DEF Fill, IdleReader
  <1>5. ASSUME NEW w \in Writer, NEW s \in Slot, Write(w, s) PROVE Clock'
        BY <1>5 DEF Write, Changes
  <1>6. ASSUME NEW w \in Writer, FindKeys(w) PROVE Clock'
        BY <1>6 DEF FindKeys, Find
  <1>7. ASSUME NEW w \in Writer, DropKeys(w) PROVE Clock'
        BY <1>7 DEF DropKeys
  <1>8. ASSUME NEW w \in Writer, InvalidationFails(w) PROVE Clock'
        BY <1>8 DEF InvalidationFails
  <1>9. CASE ChangeWeek
        BY <1>9 DEF ChangeWeek, Changes
  <1>10. CASE Tick
        BY <1>10 DEF Tick
  <1>11. CASE UNCHANGED vars
        BY <1>11 DEF vars
  <1> QED  BY <1>1, <1>2, <1>3, <1>4, <1>5, <1>6, <1>7, <1>8, <1>9, <1>10, <1>11, <1>12
           DEF Next

\* A slot that a step frees or takes is marked as changed now; the others keep
\* their marks.
LEMMA MarkStep ==
  ASSUME TypeInv, Clock, [Next]_vars, NEW s \in Slot
  PROVE  /\ changed[s].time <= changed'[s].time
         /\ (s \in work) # (s \in work') => changed'[s].time = now
         /\ (s \in Free) # (s \in Free)' => changed'[s].time = now
  <1> USE DayAssumption, LimitAssumption DEF TypeInv, Clock, db, Free
  <1>1. CASE \E w \in Writer, z \in Slot : Write(w, z)
        BY <1>1 DEF Write, Changes
  <1>2. CASE ChangeWeek
        BY <1>2 DEF ChangeWeek, Changes
  <1>3. CASE UNCHANGED <<work, booked, changed>>
        BY <1>3
  <1> QED  BY <1>1, <1>2, <1>3
           DEF Next, vars, Miss, LoadMaster, LoadBookings, DayOff, Fill, FindKeys, Find, DropKeys,
               InvalidationFails, Tick

\* A call under way reads the schedule, then the bookings, and keeps what it read.
LEMMA RecentStep == TypeInv /\ Clock /\ Recent /\ [Next]_vars => Recent'
  <1> SUFFICES ASSUME TypeInv, Clock, Recent, [Next]_vars, NEW c \in Reader,
                      NEW s \in SlotsOf(reader'[c].day)
               PROVE  /\ reader'[c].at = "bookings" /\ (s \in reader'[c].seen) # (s \in work')
                           => reader'[c].since <= changed'[s].time
                      /\ reader'[c].at = "fill" /\ Misjudged(reader[c].seen, s)'
                           => reader'[c].since <= changed'[s].time
      BY DEF Recent, SlotsOf, Misjudged
  <1> USE DayAssumption, LimitAssumption DEF SlotsOf, Misjudged, Recent
  <1>a. /\ s \in Slot
        /\ changed[s].time <= changed'[s].time
        /\ (s \in work) # (s \in work') => changed'[s].time = now
        /\ (s \in Free) # (s \in Free)' => changed'[s].time = now
        BY MarkStep
  <1>b. now \in Nat /\ reader[c].since \in Nat /\ changed[s].time \in Nat /\ changed'[s].time \in Nat
        BY <1>a, TypeStep DEF TypeInv
  <1>1. CASE reader'[c] = reader[c]
        <2>1. reader[c].at # "idle" => reader[c].since <= now
              BY DEF TypeInv, Clock
        <2> QED  BY <1>1, <1>a, <1>b, <2>1
  <1>2. ASSUME NEW d \in Day, Miss(c, d) PROVE reader'[c].at \notin {"bookings", "fill"}
        BY <1>2 DEF Miss, TypeInv
  <1>3. CASE LoadMaster(c)
        BY <1>3, <1>a, <1>b DEF LoadMaster, TypeInv, db
  <1>4. CASE LoadBookings(c)
        BY <1>4, <1>a, <1>b DEF LoadBookings, TypeInv, Free, db
  <1>7. CASE DayOff(c)
        BY <1>7 DEF DayOff, TypeInv, IdleReader
  <1>5. CASE Fill(c)
        BY <1>5 DEF Fill, TypeInv, IdleReader
  <1>6. CASE ~(\E d \in Day : Miss(c, d)) /\ ~LoadMaster(c) /\ ~LoadBookings(c)
             /\ ~DayOff(c) /\ ~Fill(c)
        <2>1. reader'[c] = reader[c]
          <3>1. CASE \E q \in Reader, d \in Day : Miss(q, d)
                BY <3>1, <1>6 DEF Miss, TypeInv
          <3>2. CASE \E q \in Reader : LoadMaster(q) \/ LoadBookings(q) \/ DayOff(q) \/ Fill(q)
            <4>1. PICK q \in Reader : LoadMaster(q) \/ LoadBookings(q) \/ DayOff(q) \/ Fill(q)
                  BY <3>2
            <4>2. q # c
                  BY <4>1, <1>6
            <4> QED  BY <4>1, <4>2 DEF LoadMaster, LoadBookings, DayOff, Fill, TypeInv
          <3>3. CASE UNCHANGED reader
                BY <3>3
          <3> QED  BY <3>1, <3>2, <3>3 DEF Next, vars, Write, FindKeys, Find,
                          DropKeys, InvalidationFails, ChangeWeek, Tick
        <2> QED  BY <1>1, <2>1
  <1> QED  BY <1>2, <1>3, <1>4, <1>5, <1>6, <1>7

\* An entry is filled with a recent reading, and what changes under it later
\* is marked later.
LEMMA BoundedStep == CacheInv /\ [Next]_vars => Bounded'
  <1> SUFFICES ASSUME CacheInv, [Next]_vars, NEW d \in Day
               PROVE  /\ cache'[d].till <= now' + TTL
                      /\ \A s \in SlotsOf(d) :
                           Live(d)' /\ Misjudged(cache[d].offer, s)'
                             => cache'[d].till <= changed'[s].time + MaxLag + TTL
      BY DEF Bounded, SlotsOf, Misjudged
  <1> USE DayAssumption, LimitAssumption
  <1>a. /\ now \in Nat /\ now' \in Nat /\ now <= now'
        /\ cache[d].till \in Nat /\ cache[d].till <= now + TTL
        <2>1. now \in Nat /\ now' \in Nat /\ cache[d].till \in Nat /\ cache[d].till <= now + TTL
              BY TypeStep DEF CacheInv, TypeInv, Bounded
        <2>2. now' = now \/ Tick
              BY DEF Next, vars, Miss, LoadMaster, LoadBookings, DayOff, Fill, Write, FindKeys, Find,
                     DropKeys, InvalidationFails, ChangeWeek
        <2> QED  BY <2>1, <2>2 DEF Tick
  <1>b. ASSUME NEW s \in SlotsOf(d)
        PROVE  /\ changed[s].time \in Nat /\ changed'[s].time \in Nat
               /\ changed[s].time <= changed'[s].time
               /\ (s \in Free) # (s \in Free)' => changed'[s].time = now
        BY MarkStep, TypeStep DEF CacheInv, TypeInv, SlotsOf
  <1>1. CASE cache'[d] = cache[d]
        BY <1>1, <1>a, <1>b DEF CacheInv, Bounded, Live, Misjudged
  <1>2. CASE cache'[d] = NoEntry
        BY <1>2, <1>a DEF NoEntry, Live
  <1>3. ASSUME NEW c \in Reader, Fill(c), reader[c].day = d
        PROVE  /\ cache'[d].till <= now' + TTL
               /\ \A s \in SlotsOf(d) :
                    Live(d)' /\ Misjudged(cache[d].offer, s)'
                      => cache'[d].till <= changed'[s].time + MaxLag + TTL
        <2>1. cache'[d].till = now + TTL /\ cache'[d].offer = reader[c].seen
              BY <1>3 DEF Fill, CacheInv, TypeInv
        <2>2. now <= reader[c].since + MaxLag /\ reader[c].since \in Nat
              BY <1>3 DEF Fill, CacheInv, Clock, TypeInv
        <2>3. UNCHANGED <<now, work, booked, changed>>
              BY <1>3 DEF Fill, db
        <2>4. ASSUME NEW s \in SlotsOf(d), Misjudged(cache[d].offer, s)'
              PROVE  reader[c].since <= changed'[s].time
              BY <1>3, <2>1, <2>3, <2>4 DEF CacheInv, Recent, Misjudged, Free, Fill
        <2> QED  BY <1>a, <1>b, <2>1, <2>2, <2>3, <2>4
  <1>4. cache'[d] \in {cache[d], NoEntry} \/ \E c \in Reader : Fill(c) /\ reader[c].day = d
        BY DEF Next, vars, Miss, LoadMaster, LoadBookings, DayOff, Fill, Write, FindKeys, Find,
               DropKeys, InvalidationFails, ChangeWeek, Tick, CacheInv, TypeInv
  <1> QED  BY <1>1, <1>2, <1>3, <1>4

\* The invariant behind the bound on stale answers.
THEOREM CacheInvariant == Spec => []CacheInv
  <1>1. CacheInv /\ [Next]_vars => CacheInv'
        BY TypeStep, ClockStep, RecentStep, BoundedStep DEF CacheInv
  <1> QED  BY CacheInit, <1>1, PTL DEF Spec

\* GET /slots never answers from an entry that has been wrong about a slot for
\* longer than an entry lives and a call takes, whatever the invalidation does.
THEOREM StaleBounded == Spec => []StaleIsBounded
  <1>1. CacheInv => StaleIsBounded
        <2> SUFFICES ASSUME CacheInv, NEW d \in Day, NEW s \in SlotsOf(d),
                            Live(d), Misjudged(cache[d].offer, s)
                     PROVE  now <= changed[s].time + MaxLag + TTL
            BY DEF StaleIsBounded
        <2>1. now \in Nat /\ cache[d].till \in Nat /\ changed[s].time \in Nat
              BY DEF CacheInv, TypeInv, SlotsOf
        <2>2. now < cache[d].till /\ cache[d].till <= changed[s].time + MaxLag + TTL
              BY DEF CacheInv, Bounded, Live
        <2> QED  BY <2>1, <2>2, LimitAssumption
  <1> QED  BY CacheInvariant, <1>1, PTL

\* What a call is about to cache is as old as the call.
THEOREM FillRecent == Spec => []FillIsRecent
  <1>1. CacheInv => FillIsRecent
        <2> SUFFICES ASSUME CacheInv, NEW c \in Reader, reader[c].at = "fill",
                            NEW s \in SlotsOf(reader[c].day), Misjudged(reader[c].seen, s)
                     PROVE  now <= changed[s].time + MaxLag
            BY DEF FillIsRecent
        <2>1. now \in Nat /\ reader[c].since \in Nat /\ changed[s].time \in Nat
              BY DEF CacheInv, TypeInv, SlotsOf
        <2>2. now <= reader[c].since + MaxLag /\ reader[c].since <= changed[s].time
              BY DEF CacheInv, Clock, Recent
        <2> QED  BY <2>1, <2>2, LimitAssumption
  <1> QED  BY CacheInvariant, <1>1, PTL

-----------------------------------------------------------------------------
(***************************************************************************)
(* What the invalidation adds: an entry older than the last commit about   *)
(* one of its slots is chased by the writer of that commit, who is about   *)
(* to look for it or has found it, until it is gone.                       *)
(***************************************************************************)
WriterRecord == [at : {"idle", "keys", "del"}, slots : SUBSET Slot, keys : SUBSET Day, since : Nat]

ChaseTypes ==
  /\ writer \in [Writer -> WriterRecord]
  /\ weeks \in Nat /\ faults \in Nat
  /\ \A s \in Slot : changed[s].commit <= commits

Chases(w, d, s) ==
  /\ s \in writer[w].slots
  /\ writer[w].at = "keys" \/ (writer[w].at = "del" /\ d \in writer[w].keys)

OldEntriesChased ==
  weeks = 0 /\ faults = 0 =>
    \A d \in Day : \A s \in SlotsOf(d) :
      Live(d) /\ UtcDay[s] = d /\ cache[d].commit < changed[s].commit =>
        \E w \in Writer : Chases(w, d, s)

\* Writers and marks keep their types; no mark is ahead of the commits.
LEMMA ChaseTypeStep == TypeInv /\ ChaseTypes /\ [Next]_vars => ChaseTypes'
  <1> SUFFICES ASSUME TypeInv, ChaseTypes, [Next]_vars PROVE ChaseTypes'
      OBVIOUS
  <1> USE DEF TypeInv, ChaseTypes, db
  <1>a. IdleWriter \in WriterRecord
        BY DEF IdleWriter, WriterRecord
  <1>1. ASSUME NEW w \in Writer, NEW s \in Slot, Write(w, s) PROVE ChaseTypes'
    <2>1. writer' \in [Writer -> WriterRecord]
          BY <1>1 DEF Write, WriterRecord
    <2>2. \A z \in Slot : changed'[z].commit <= commits'
          BY <1>1 DEF Write, Changes
    <2> QED  BY <1>1, <2>1, <2>2 DEF Write
  <1>2. ASSUME NEW w \in Writer, NEW r \in WriterRecord, writer' = [writer EXCEPT ![w] = r],
               UNCHANGED <<weeks, changed, commits>>, faults' \in Nat
        PROVE  ChaseTypes'
        BY <1>2 DEF WriterRecord
  <1>3. ASSUME NEW w \in Writer, FindKeys(w) PROVE ChaseTypes'
    <2> DEFINE found == {d \in Day : Live(d) /\ \E s \in writer[w].slots : UtcDay[s] = d}
    <2>1. writer[w] \in WriterRecord /\ found \in SUBSET Day
          BY DEF WriterRecord
    <2>2. UNCHANGED <<weeks, changed, commits, faults>>
          BY <1>3 DEF FindKeys, Find
    <2>3. writer' = [writer EXCEPT ![w] =
                       IF found = {} THEN IdleWriter
                       ELSE [writer[w] EXCEPT !.at = "del", !.keys = found]]
          BY <1>3 DEF FindKeys, Find
    <2> HIDE DEF found
    <2>4. [writer[w] EXCEPT !.at = "del", !.keys = found] \in WriterRecord
          BY <2>1 DEF WriterRecord
    <2> QED  BY <1>2, <1>a, <2>2, <2>3, <2>4
  <1>4. ASSUME NEW w \in Writer, DropKeys(w) \/ InvalidationFails(w) PROVE ChaseTypes'
    <2>1. writer' = [writer EXCEPT ![w] = IdleWriter] /\ UNCHANGED <<weeks, changed, commits>>
          BY <1>4 DEF DropKeys, InvalidationFails
    <2>2. faults' \in Nat
          BY <1>4 DEF DropKeys, InvalidationFails
    <2> QED  BY <1>2, <1>a, <2>1, <2>2
  <1>5. CASE ChangeWeek
        BY <1>5 DEF ChangeWeek, Changes
  <1>6. CASE UNCHANGED <<writer, weeks, faults, changed, commits>>
        BY <1>6
  <1> QED  BY <1>1, <1>3, <1>4, <1>5, <1>6
           DEF Next, vars, Miss, LoadMaster, LoadBookings, DayOff, Fill, Tick

\* The chase goes on until the entry is gone.
LEMMA ChaseStep ==
  ASSUME TypeInv, ChaseTypes, OldEntriesChased, [Next]_vars
  PROVE  OldEntriesChased'
  <1> SUFFICES ASSUME weeks' = 0, faults' = 0, NEW d \in Day, NEW s \in SlotsOf(d),
                      Live(d)', UtcDay[s] = d, cache'[d].commit < changed'[s].commit
               PROVE  \E w \in Writer : Chases(w, d, s)'
      BY DEF OldEntriesChased, SlotsOf
  <1>a. s \in Slot
        BY DEF SlotsOf
  <1>b. /\ writer \in [Writer -> [at : {"idle", "keys", "del"}, slots : SUBSET Slot,
                                  keys : SUBSET Day, since : Nat]]
        /\ weeks \in Nat /\ faults \in Nat /\ changed[s].commit <= commits
        /\ changed[s].commit \in Nat /\ commits \in Nat /\ cache[d].commit \in Nat
        /\ cache \in [Day -> [offer : SUBSET Slot, till : Nat, commit : Nat]] /\ now \in Nat
        BY <1>a DEF ChaseTypes, TypeInv, WriterRecord
  <1>c. weeks = 0 /\ faults = 0 /\ Live(d) /\ cache[d].commit < changed[s].commit
          => \E w \in Writer : Chases(w, d, s)
        BY DEF OldEntriesChased
  <1>0. ASSUME UNCHANGED <<weeks, faults, cache, now>>, changed'[s] = changed[s],
               \A w \in Writer : Chases(w, d, s) => Chases(w, d, s)'
        PROVE  \E w \in Writer : Chases(w, d, s)'
        BY <1>0, <1>c DEF Live
  <1>1. ASSUME NEW w \in Writer, NEW z \in Slot, Write(w, z)
        PROVE  \E v \in Writer : Chases(v, d, s)'
    <2>1. CASE z = s
      <3>1. Chases(w, d, s)'
            BY <1>1, <1>b, <2>1 DEF Write, Chases
      <3> QED  BY <3>1
    <2>2. CASE z # s
      <3>1. \A v \in Writer : Chases(v, d, s) => Chases(v, d, s)'
            BY <1>1, <1>b DEF Write, Chases
      <3>2. changed'[s] = changed[s]
            BY <1>1, <1>a, <2>2 DEF Write, Changes
      <3> QED  BY <1>0, <1>1, <3>1, <3>2 DEF Write
    <2> QED  BY <2>1, <2>2
  <1>2. ASSUME NEW w \in Writer, FindKeys(w) PROVE \E v \in Writer : Chases(v, d, s)'
    <2> DEFINE found == {e \in Day : Live(e) /\ \E z \in writer[w].slots : UtcDay[z] = e}
    <2>1. Live(d) /\ UNCHANGED <<weeks, faults, cache, now, changed>>
          BY <1>2 DEF FindKeys, Find, db, Live
    <2>2. ASSUME Chases(w, d, s) PROVE Chases(w, d, s)'
      <3>1. d \in found /\ s \in writer[w].slots
            BY <2>1, <2>2 DEF Chases
      <3>2. writer' = [writer EXCEPT ![w] = [writer[w] EXCEPT !.at = "del", !.keys = found]]
            BY <1>2, <3>1 DEF FindKeys, Find
      <3> HIDE DEF found
      <3>3. writer'[w].slots = writer[w].slots /\ writer'[w].at = "del" /\ writer'[w].keys = found
            BY <1>b, <3>2
      <3> QED  BY <3>1, <3>3 DEF Chases
    <2>3. ASSUME NEW v \in Writer, v # w, Chases(v, d, s) PROVE Chases(v, d, s)'
          BY <1>2, <1>b, <2>3 DEF FindKeys, Find, Chases
    <2> QED  BY <1>0, <2>1, <2>2, <2>3
  <1>3. ASSUME NEW w \in Writer, DropKeys(w) PROVE \E v \in Writer : Chases(v, d, s)'
    <2>1. d \notin writer[w].keys
          BY <1>3, <1>b DEF DropKeys, NoEntry, Live
    <2>2. cache'[d] = cache[d] /\ UNCHANGED <<weeks, faults, now, changed>>
          BY <1>3, <2>1 DEF DropKeys, db
    <2>3. \A v \in Writer : Chases(v, d, s) => Chases(v, d, s)'
          BY <1>3, <1>b, <2>1 DEF DropKeys, Chases
    <2> QED  BY <1>c, <2>2, <2>3 DEF Live
  <1>4. ASSUME NEW c \in Reader, Fill(c) PROVE \E v \in Writer : Chases(v, d, s)'
    <2>1. reader[c].day # d
          BY <1>4, <1>b DEF Fill, db
    <2>2. cache'[d] = cache[d] /\ UNCHANGED <<weeks, faults, now, changed, writer>>
          BY <1>4, <1>b, <2>1 DEF Fill, db
    <2> QED  BY <1>c, <2>2 DEF Live, Chases
  <1>5. CASE Tick
    <2>1. cache'[d] = cache[d] /\ Live(d) /\ UNCHANGED <<weeks, faults, changed, writer>>
          BY <1>5, <1>b DEF Tick, NoEntry, Live, db
    <2> QED  BY <1>c, <2>1 DEF Chases
  <1>6. CASE ChangeWeek \/ \E w \in Writer : InvalidationFails(w)
        BY <1>6, <1>b DEF ChangeWeek, InvalidationFails
  <1>7. CASE UNCHANGED <<weeks, faults, cache, now, changed, writer>>
        BY <1>0, <1>7 DEF Chases
  <1> QED  BY <1>1, <1>2, <1>3, <1>4, <1>5, <1>6, <1>7
           DEF Next, vars, Miss, LoadMaster, LoadBookings, DayOff, db

\* An entry filled before a commit does not outlive the invalidation behind
\* it, where local day and UTC day agree and nothing fails.
THEOREM StaleByRaceOnly == Spec => []StaleOnlyByRace
  <1>1. Init => ChaseTypes /\ OldEntriesChased
    <2> SUFFICES ASSUME Init PROVE ChaseTypes /\ OldEntriesChased
        OBVIOUS
    <2>1. ChaseTypes
          BY DEF Init, ChaseTypes, WriterRecord, IdleWriter
    <2>2. OldEntriesChased
          BY DEF Init, OldEntriesChased, Live, NoEntry
    <2> QED  BY <2>1, <2>2
  <1>2. CacheInv /\ ChaseTypes /\ OldEntriesChased /\ [Next]_vars
          => ChaseTypes' /\ OldEntriesChased'
        BY ChaseTypeStep, ChaseStep DEF CacheInv
  <1>3. CacheInv /\ ChaseTypes /\ OldEntriesChased => StaleOnlyByRace
    <2> SUFFICES ASSUME CacheInv, OldEntriesChased, weeks = 0, faults = 0,
                        NEW d \in Day, NEW s \in SlotsOf(d), Live(d), UtcDay[s] = d,
                        ~(cache[d].commit >= changed[s].commit)
                 PROVE  \E w \in Writer : s \in writer[w].slots
        BY DEF StaleOnlyByRace
    <2>1. cache[d].commit \in Nat /\ changed[s].commit \in Nat
          BY DEF CacheInv, TypeInv, SlotsOf
    <2> QED  BY <2>1 DEF OldEntriesChased, Chases
  <1> QED  BY <1>1, <1>2, <1>3, CacheInvariant, PTL DEF Spec
=============================================================================
