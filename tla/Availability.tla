---------------------------- MODULE Availability ----------------------------
(***************************************************************************)
(* The cached answer of GET /slots: getBookingFomDay fills an entry per    *)
(* day, createBooking and cancellBooking drop entries after their commit,  *)
(* master_post_week changes the schedule and drops none.  One master and   *)
(* one service; what SlotScan computes is here the set of free slots.      *)
(***************************************************************************)
EXTENDS Integers

CONSTANTS
  Slot, Day,
  LocalDay,  \* LocalDay[s]: the day of s in the salon's zone (the key of a fill)
  UtcDay,    \* UtcDay[s]: the day of s in UTC (the key of an invalidation)
  Reader,    \* concurrent calls of getBookingFomDay
  Writer,    \* concurrent bookings and cancellations
  TTL,       \* life of an entry
  MaxLag,    \* how long a call takes at most
  MaxTime,   \* bound: the clock stops here
  MaxCommits, \* bound: bookings and cancellations
  MaxWeeks,  \* bound: changes of the schedule
  MaxFaults  \* bound: invalidations that fail

ASSUME DayAssumption ==
  /\ Day # {}
  /\ LocalDay \in [Slot -> Day]
  /\ UtcDay \in [Slot -> Day]

ASSUME LimitAssumption ==
  TTL \in Nat \ {0} /\ MaxLag \in Nat /\ MaxTime \in Nat /\ MaxCommits \in Nat /\ MaxWeeks \in Nat /\ MaxFaults \in Nat

VARIABLES
  now,
  work,      \* slots within the master's schedule
  booked,    \* slots with a confirmed booking
  cache,     \* cache[d]: the entry avail:<master>:<d>:<service>
  reader,    \* reader[c]: where the call stands and what it has read
  writer,    \* writer[w]: where the invalidation stands
  weeks, faults,
  commits,   \* commits of bookings and cancellations so far (history)
  changed    \* changed[s]: when, and in which commit, s was freed or lost (history)

db == <<work, booked, changed, weeks, commits>>
vars == <<now, db, cache, reader, writer, faults>>

Free == work \ booked

\* A GET finds the entry.
Live(d) == now < cache[d].till

NoEntry == [offer |-> {}, till |-> 0, commit |-> 0]
IdleReader == [at |-> "idle", day |-> CHOOSE d \in Day : TRUE, seen |-> {}, since |-> 0]
IdleWriter == [at |-> "idle", slots |-> {}, keys |-> {}, since |-> 0]

SlotsOf(d) == {s \in Slot : LocalDay[s] = d}

Init ==
  /\ now = 0
  /\ work \in SUBSET Slot
  /\ booked = {}
  /\ cache = [d \in Day |-> NoEntry]
  /\ reader = [c \in Reader |-> IdleReader]
  /\ writer = [w \in Writer |-> IdleWriter]
  /\ weeks = 0 /\ faults = 0 /\ commits = 0
  /\ changed = [s \in Slot |-> [time |-> 0, commit |-> 0]]

-----------------------------------------------------------------------------
\* The GET missed (line 132); the day is the caller's.  A hit is answered with
\* the entry and changes nothing.
Miss(c, d) ==
  /\ reader[c].at = "idle"
  /\ ~Live(d)
  /\ reader' = [reader EXCEPT ![c] = [at |-> "master", day |-> d, seen |-> {}, since |-> now]]
  /\ UNCHANGED <<now, db, cache, writer, faults>>

\* Line 137: the master with his schedule.
LoadMaster(c) ==
  /\ reader[c].at = "master"
  /\ reader' = [reader EXCEPT ![c].at = "bookings", ![c].seen = work \cap SlotsOf(reader[c].day)]
  /\ UNCHANGED <<now, db, cache, writer, faults>>

\* Lines 154-190: the day's confirmed bookings, and what they leave free; that
\* may be nothing, also when the hours are too short for any visit.
LoadBookings(c) ==
  /\ reader[c].at = "bookings"
  /\ reader' = [reader EXCEPT ![c].at = "fill", ![c].seen = @ \ booked]
  /\ UNCHANGED <<now, db, cache, writer, faults>>

\* Lines 167-169: the schedule has no hours for that day.  The answer is []
\* and nothing is cached.  Whether a day without slots is a day off or one
\* with too little time is left open.
DayOff(c) ==
  /\ reader[c].at = "bookings"
  /\ reader[c].seen = {}
  /\ reader' = [reader EXCEPT ![c] = IdleReader]
  /\ UNCHANGED <<now, db, cache, writer, faults>>

\* Faulty: SET without EX.
FillForever(c) ==
  /\ reader[c].at = "fill"
  /\ cache' = [cache EXCEPT ![reader[c].day] =
                 [offer |-> reader[c].seen, till |-> MaxTime + 1, commit |-> commits]]
  /\ reader' = [reader EXCEPT ![c] = IdleReader]
  /\ UNCHANGED <<now, db, writer, faults>>

\* Line 192: SET EX 60, and the answer.
Fill(c) ==
  /\ reader[c].at = "fill"
  /\ cache' = [cache EXCEPT ![reader[c].day] =
                 [offer |-> reader[c].seen, till |-> now + TTL, commit |-> commits]]
  /\ reader' = [reader EXCEPT ![c] = IdleReader]
  /\ UNCHANGED <<now, db, writer, faults>>

-----------------------------------------------------------------------------
Changes(S) ==
  changed' = [s \in Slot |-> IF s \in S THEN [time |-> now, commit |-> commits'] ELSE changed[s]]

\* A booking or a cancellation commits; next is the KEYS of line 44.
Write(w, s) ==
  /\ writer[w].at = "idle"
  /\ commits < MaxCommits
  /\ \/ s \in Free /\ booked' = booked \cup {s}
     \/ s \in booked /\ booked' = booked \ {s}
  /\ commits' = commits + 1
  /\ Changes({s})
  /\ writer' = [writer EXCEPT ![w] = [at |-> "keys", slots |-> {s}, keys |-> {}, since |-> now]]
  /\ UNCHANGED <<now, work, weeks, cache, reader, faults>>

Find(w, keys) ==
  /\ writer[w].at = "keys"
  /\ writer' = [writer EXCEPT ![w] =
       IF keys = {} THEN IdleWriter ELSE [writer[w] EXCEPT !.at = "del", !.keys = keys]]
  /\ UNCHANGED <<now, db, cache, reader, faults>>

\* Faulty: the pattern lacks the part for the service, so that no entry matches.
FindNothing(w) == Find(w, {})

\* Line 44: the entries of the slot's day, named in UTC.
FindKeys(w) == Find(w, {d \in Day : Live(d) /\ \E s \in writer[w].slots : UtcDay[s] = d})

\* Line 45.
DropKeys(w) ==
  /\ writer[w].at = "del"
  /\ cache' = [d \in Day |-> IF d \in writer[w].keys THEN NoEntry ELSE cache[d]]
  /\ writer' = [writer EXCEPT ![w] = IdleWriter]
  /\ UNCHANGED <<now, db, reader, faults>>

\* Line 46: a failure of either call is swallowed.  A restart does the same.
InvalidationFails(w) ==
  /\ writer[w].at # "idle"
  /\ faults < MaxFaults
  /\ faults' = faults + 1
  /\ writer' = [writer EXCEPT ![w] = IdleWriter]
  /\ UNCHANGED <<now, db, cache, reader>>

\* master_post_week: the schedule changes, the cache stays.
ChangeWeek ==
  /\ weeks < MaxWeeks
  /\ weeks' = weeks + 1
  /\ work' \in SUBSET Slot \ {work}
  /\ UNCHANGED commits
  /\ Changes((work \cup work') \ (work \cap work'))
  /\ UNCHANGED <<now, booked, cache, reader, writer, faults>>

\* Time passes, entries expire (EX 60), calls under way end within MaxLag.
Tick ==
  /\ now < MaxTime
  /\ \A c \in Reader : reader[c].at # "idle" => now < reader[c].since + MaxLag
  /\ \A w \in Writer : writer[w].at # "idle" => now < writer[w].since + MaxLag
  /\ now' = now + 1
  /\ cache' = [d \in Day |-> IF now' < cache[d].till THEN cache[d] ELSE NoEntry]
  /\ UNCHANGED <<db, reader, writer, faults>>

Next ==
  \/ \E c \in Reader, d \in Day : Miss(c, d)
  \/ \E c \in Reader : LoadMaster(c) \/ LoadBookings(c) \/ DayOff(c) \/ Fill(c)
  \/ \E w \in Writer, s \in Slot : Write(w, s)
  \/ \E w \in Writer : FindKeys(w) \/ DropKeys(w) \/ InvalidationFails(w)
  \/ ChangeWeek \/ Tick

Spec == Init /\ [][Next]_vars

-----------------------------------------------------------------------------
Misjudged(offer, s) == (s \in offer) # (s \in Free)

\* README "the answer is cached for 60 seconds": whatever races with the fill,
\* in whichever zone the salon is, and even when an invalidation fails or the
\* schedule changes under the entry, an offer is wrong about a slot only for
\* as long as an entry lives and a call takes.
StaleIsBounded ==
  \A d \in Day : \A s \in SlotsOf(d) :
    Live(d) /\ Misjudged(cache[d].offer, s) => now <= changed[s].time + MaxLag + TTL

\* What a call is about to answer and to cache is as old as the call, at most.
FillIsRecent ==
  \A c \in Reader : reader[c].at = "fill" =>
    \A s \in SlotsOf(reader[c].day) :
      Misjudged(reader[c].seen, s) => now <= changed[s].time + MaxLag

\* An entry that was there before a commit does not outlive the invalidation
\* behind that commit.  Left out are what the code does not cover: slots whose
\* day is another one in UTC, failures, and changes of the schedule.
StaleOnlyByRace ==
  weeks = 0 /\ faults = 0 =>
    \A d \in Day : \A s \in SlotsOf(d) :
      Live(d) /\ Misjudged(cache[d].offer, s) /\ UtcDay[s] = d =>
        \/ cache[d].commit >= changed[s].commit
        \/ \E w \in Writer : s \in writer[w].slots

\* README "and is dropped when a booking is made or cancelled", even without
\* any race: the invalidation finds the entry under which the slot is offered.
InvalidationFindsDay ==
  [][\A w \in Writer : FindKeys(w) =>
       \A s \in writer[w].slots : Live(LocalDay[s]) => LocalDay[s] \in writer'[w].keys]_vars
=============================================================================
