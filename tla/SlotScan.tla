------------------------------ MODULE SlotScan ------------------------------
(***************************************************************************)
(* The loop of BuisnesService.getBookingFomDay that offers the free starts *)
(* of one day, in minutes of the salon's local day, and the rules by which *)
(* createBooking later accepts a start.                                    *)
(***************************************************************************)
EXTENDS Integers, FiniteSets

CONSTANTS
  Step,        \* minutes between offers, and the grid of createBooking
  DayLength,   \* minutes of a day
  Durations,   \* durations a service may have
  MaxBusy      \* bound: confirmed bookings of the day

ASSUME ScanAssumption ==
  /\ Step \in Nat \ {0} /\ DayLength \in Nat /\ MaxBusy \in Nat
  /\ Durations \subseteq Nat \ {0}

VARIABLES
  open, close, \* the master's working hours that day
  duration,    \* of the service asked for
  busy,        \* the day's confirmed bookings
  x,           \* where the loop stands
  slots,       \* what it has offered
  done

day == <<open, close, duration, busy>>
vars == <<day, x, slots, done>>

\* A row as lines 171-175 show it to the search, in whole minutes.  A late one
\* starts and ends some milliseconds behind them: createBooking looks at the
\* minutes and seconds of a start, not at its milliseconds (line 229).
Interval == [start : 0..DayLength, end : 0..DayLength, late : BOOLEAN]

\* Rows that createBooking let in: as long as some service and on the grid,
\* within the working hours of that time, which may have changed since.
Bookable ==
  {b \in Interval : /\ b.end - b.start \in Durations /\ b.start % Step = 0
                    /\ b.late => b.end < DayLength}

\* The row b begins when a is over, or later.
Follows(b, a) == a.end < b.start \/ (a.end = b.start /\ (a.late => b.late))

\* busy.find's condition for a visit that would start at t.
Hits(b, t) == t < b.end /\ b.start < t + duration

FreeAt(t) == \A b \in busy : ~Hits(b, t)

\* A day as the two reads (lines 137-163) see it.  The bookings keep apart
\* (module Booking, NoDoubleBooking).
Day ==
  /\ open \in 0..DayLength /\ close \in 0..DayLength
  /\ duration \in Durations
  /\ busy \in {B \in SUBSET Bookable :
               Cardinality(B) <= MaxBusy /\ \A a, b \in B : a = b \/ Follows(a, b) \/ Follows(b, a)}

Init ==
  /\ Day
  /\ x = open /\ slots = {} /\ done = FALSE

\* Faulty: an inclusive comparison, so that a visit cannot follow another at once.
SkipTouching ==
  /\ ~done /\ x + duration <= close
  /\ \E b \in busy : x <= b.end /\ b.start <= x + duration /\ x' = b.end + 1
  /\ UNCHANGED <<day, slots, done>>

\* Faulty: the search goes on at the start of the booking.
SkipToStart ==
  /\ ~done /\ x + duration <= close
  /\ \E b \in busy : Hits(b, x) /\ x' = b.start
  /\ UNCHANGED <<day, slots, done>>

\* A booking that stands in the way: go on at its end.  The rows come in no
\* particular order, so any of several may be the one that is found.
Skip ==
  /\ ~done /\ x + duration <= close
  /\ \E b \in busy : Hits(b, x) /\ x' = b.end
  /\ UNCHANGED <<day, slots, done>>

\* Faulty: only the start of the visit is compared with the bookings.
OfferStart ==
  /\ ~done /\ x + duration <= close
  /\ \A b \in busy : ~(b.start <= x /\ x < b.end)
  /\ slots' = slots \cup {x}
  /\ x' = x + Step
  /\ UNCHANGED <<day, done>>

\* Faulty: the next offer is a whole visit away.
OfferApart ==
  /\ ~done /\ x + duration <= close
  /\ FreeAt(x)
  /\ slots' = slots \cup {x}
  /\ x' = x + duration
  /\ UNCHANGED <<day, done>>

Offer ==
  /\ ~done /\ x + duration <= close
  /\ FreeAt(x)
  /\ slots' = slots \cup {x}
  /\ x' = x + Step
  /\ UNCHANGED <<day, done>>

Finish ==
  /\ ~done /\ x + duration > close
  /\ done' = TRUE
  /\ UNCHANGED <<day, x, slots>>

Next == Skip \/ Offer \/ Finish \/ (done /\ UNCHANGED vars)

Spec == Init /\ [][Next]_vars

FairSpec == Spec /\ WF_vars(Next)

-----------------------------------------------------------------------------
\* createBooking's conflict query (lines 260-267) for a visit at t, on the
\* rows as they are: a late one is not over at the minute it ends in.
Collides(b, t) == b.start < t + duration /\ (t < b.end \/ (b.late /\ t = b.end))

Fits(t) == open <= t /\ t + duration <= close

\* createBooking's acceptance of a start on the full minute t, when the clock
\* shows the minute now of that day and "offered" says whether the master has
\* the service (lines 219, 225, 229, 251 and 260).
Accepts(t, now, offered) ==
  /\ offered
  /\ now <= t
  /\ t % Step = 0
  /\ Fits(t)
  /\ \A b \in busy : ~Collides(b, t)

\* The minute in which a late booking ends.
LateEnd(t) == \E b \in busy : b.late /\ b.end = t

\* No row stands in the way at t but for the milliseconds of a late one.
Clear(t) == \A b \in busy : Collides(b, t) => b.late /\ b.end = t

\* Every booking of the day, the working hours and so the whole loop lie on
\* the grid when the hours do and every duration is a multiple of the step.
OnGrid == open % Step = 0 /\ \A b \in busy : b.end % Step = 0

\* A visit that is offered lies within the working hours, and the conflict
\* query of createBooking finds nothing that overlaps it, except a late row
\* that ends in the minute of the offer: its milliseconds are cut off in line
\* 173.  This whichever booking the search finds first, and off the grid too.
OffersAreFree == \A s \in slots : Fits(s) /\ Clear(s)

\* On the grid the search and createBooking differ in three things only: the
\* search asks neither whether the start is past nor whether the master has
\* the service, and it overlooks the milliseconds of a late row.  Otherwise
\* what is offered is accepted and what would be accepted is offered.
OffersAreExact ==
  done /\ OnGrid =>
    \A now \in 0..DayLength, offered \in BOOLEAN :
      {t \in 0..DayLength : Accepts(t, now, offered)}
        = {s \in slots : offered /\ now <= s /\ ~LateEnd(s)}

\* Off the grid too, no gap is overlooked by a visit of a step or longer: when
\* it fits right at opening or right behind a booking, that start is offered.
GapsAreOffered ==
  done /\ duration >= Step =>
    \A g \in {open} \cup {b.end : b \in busy} : Fits(g) /\ Clear(g) => g \in slots

\* The loop ends for every day.
ScanEnds == <>done

\* README "with a step of 15 minutes", and createBooking's "the time must be a
\* multiple of 15 minutes": when the master opens on the grid, what is offered
\* lies on it.
OffersAreOnGrid == open % Step = 0 => \A s \in slots : s % Step = 0
=============================================================================
