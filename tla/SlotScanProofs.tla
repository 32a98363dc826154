--------------------------- MODULE SlotScanProofs ---------------------------
(***************************************************************************)
(* Proofs about the slot search, for every step, day length, working hours *)
(* and set of bookings.                                                    *)
(***************************************************************************)
EXTENDS SlotScan, TLAPS

ScanTypes ==
  /\ open \in Nat /\ close \in Nat /\ close <= DayLength
  /\ duration \in Nat \ {0}
  /\ busy \subseteq Bookable
  /\ x \in Nat /\ open <= x
  /\ slots \subseteq Nat

\* A start as the loop looks for it, on the grid.
Wanted(t) == t % Step = 0 /\ Fits(t) /\ FreeAt(t)

OffersFit == \A s \in slots : Fits(s) /\ FreeAt(s)

\* What holds inside the loop: the offers are free, and on the grid the loop
\* stands on the grid and has offered every wanted start before x.
ScanInv ==
  /\ ScanTypes
  /\ OffersFit
  /\ \A s \in slots : s < x
  /\ OnGrid => /\ x % Step = 0
               /\ \A s \in slots : s % Step = 0
               /\ \A t \in Nat : Wanted(t) /\ t < x => t \in slots
  /\ done => x + duration > close

\* Two points of the grid are equal or at least a step apart.
LEMMA GridGap ==
  ASSUME NEW s \in Nat \ {0}, NEW a \in Nat, NEW b \in Nat,
         a % s = 0, b % s = 0, a < b
  PROVE  a + s <= b
<1> DEFINE i == a \div s  j == b \div s
<1>1. i \in Nat /\ j \in Nat /\ a = s * i /\ b = s * j
  OBVIOUS
<1>2. ~(j <= i)
  <2> SUFFICES ASSUME j <= i PROVE FALSE
    OBVIOUS
  <2>1. s * j <= s * i
    BY <1>1
  <2> QED BY <1>1, <2>1
<1>3. j >= i + 1
  BY <1>1, <1>2
<1>4. s * j >= s * (i + 1)
  BY <1>1, <1>3
<1> QED BY <1>1, <1>4

\* The next point of the grid.
LEMMA GridNext ==
  ASSUME NEW s \in Nat \ {0}, NEW a \in Nat, a % s = 0
  PROVE  (a + s) % s = 0
<1> DEFINE i == a \div s  r == (a + s) % s  k == (a + s) \div s
<1>1. i \in Nat /\ a = s * i
  OBVIOUS
<1>2. r \in 0..(s - 1) /\ k \in Nat /\ a + s = s * k + r
  OBVIOUS
<1>3. r = s * (i + 1 - k)
  BY <1>1, <1>2
<1>4. CASE i + 1 - k <= 0
  <2>1. s * (i + 1 - k) <= 0
    BY <1>1, <1>2, <1>4
  <2> QED BY <1>2, <1>3, <2>1
<1>5. CASE i + 1 - k >= 1
  <2>1. s * (i + 1 - k) >= s
    BY <1>1, <1>2, <1>5
  <2> QED BY <1>2, <1>3, <2>1
<1> QED BY <1>1, <1>2, <1>4, <1>5

-----------------------------------------------------------------------------
\* The loop starts with nothing offered at opening.
LEMMA ScanInit == Init => ScanInv
<1> SUFFICES ASSUME Init PROVE ScanInv
  OBVIOUS
<1>1. ScanTypes
  BY ScanAssumption DEF Init, Day, ScanTypes
<1>2. ASSUME NEW t \in Nat, Wanted(t) PROVE ~(t < x)
  BY <1>1, <1>2 DEF Init, Wanted, Fits, ScanTypes
<1> QED
  BY <1>1, <1>2 DEF Init, ScanInv, OffersFit, OnGrid

\* Every turn of the loop keeps ScanInv.
LEMMA ScanStep ==
  ASSUME ScanInv, [Next]_vars
  PROVE  ScanInv'
<1>a. ScanTypes /\ Step \in Nat \ {0} /\ DayLength \in Nat
  BY ScanAssumption DEF ScanInv
<1>b. ASSUME UNCHANGED day
      PROVE  /\ \A t : (FreeAt(t)' <=> FreeAt(t)) /\ (Fits(t)' <=> Fits(t))
                      /\ (Wanted(t)' <=> Wanted(t))
             /\ OnGrid' <=> OnGrid
  BY <1>b DEF day, FreeAt, Fits, Wanted, Hits, OnGrid
<1>1. CASE Skip
  <2>1. PICK b \in busy : Hits(b, x) /\ x' = b.end
    BY <1>1 DEF Skip
  <2>2. b.start \in Nat /\ b.end \in Nat /\ x < b.end
    BY <1>a, <2>1 DEF ScanTypes, Bookable, Interval, Hits
  <2>3. ScanTypes'
    BY <1>1, <1>a, <2>1, <2>2 DEF Skip, ScanTypes, day
  <2>4. ASSUME NEW t \in Nat, Wanted(t), t < x' PROVE t < x
    <3>1. FreeAt(t)
      BY <2>4 DEF Wanted
    <3> QED BY <1>a, <2>1, <2>2, <2>4, <3>1 DEF FreeAt, Hits, ScanTypes
  <2>5. OnGrid => x' % Step = 0
    BY <2>1 DEF OnGrid
  <2>6. \A s \in slots : s < x'
    BY <1>a, <2>1, <2>2 DEF ScanInv, ScanTypes
  <2> QED
    BY <1>1, <1>b, <2>3, <2>4, <2>5, <2>6 DEF Skip, ScanInv, OffersFit
<1>2. CASE Offer
  <2>1. ScanTypes'
    BY <1>2, <1>a DEF Offer, ScanTypes, day
  <2>2. Fits(x) /\ FreeAt(x)
    BY <1>2, <1>a DEF Offer, Fits, ScanTypes
  <2>3. OffersFit'
    BY <1>2, <1>b, <2>2 DEF Offer, ScanInv, OffersFit
  <2>4. \A s \in slots' : s < x'
    BY <1>2, <1>a DEF Offer, ScanInv, ScanTypes
  <2>5. ASSUME OnGrid
        PROVE  /\ x' % Step = 0
               /\ \A s \in slots' : s % Step = 0
               /\ \A t \in Nat : Wanted(t) /\ t < x' => t \in slots'
    <3>1. x % Step = 0 /\ x \in Nat
      BY <1>a, <2>5 DEF ScanInv, ScanTypes
    <3>2. x' % Step = 0
      BY <1>2, <1>a, <3>1, GridNext DEF Offer
    <3>3. ASSUME NEW t \in Nat, Wanted(t), t < x' PROVE t \in slots'
      <4>1. t % Step = 0
        BY <3>3 DEF Wanted
      <4>2. CASE x < t
        <5>1. x + Step <= t
          BY <1>a, <3>1, <4>1, <4>2, GridGap
        <5> QED BY <1>2, <1>a, <3>1, <3>3, <5>1 DEF Offer
      <4>3. CASE t <= x
        BY <1>2, <2>5, <3>1, <3>3, <4>3 DEF Offer, ScanInv
      <4> QED BY <3>1, <4>2, <4>3
    <3> QED BY <1>2, <2>5, <3>1, <3>2, <3>3 DEF Offer, ScanInv
  <2> QED BY <1>2, <1>b, <2>1, <2>3, <2>4, <2>5 DEF Offer, ScanInv
<1>3. CASE Finish
  BY <1>3, <1>b DEF Finish, ScanInv, ScanTypes, OffersFit, day
<1>4. CASE UNCHANGED vars
  BY <1>4, <1>b DEF vars, ScanInv, ScanTypes, OffersFit, day
<1> QED BY <1>1, <1>2, <1>3, <1>4 DEF Next

\* The loop invariant, which the results below are parts of.
THEOREM ScanInvariant == Spec => []ScanInv
BY ScanInit, ScanStep, PTL DEF Spec

\* The search, which looks at minutes, and the conflict query, which looks at
\* the rows as they are, agree but for the minute in which a late row ends.
LEMMA ClearIsFree ==
  ASSUME ScanTypes, NEW t \in Nat
  PROVE  Clear(t) <=> FreeAt(t)
<1>1. ASSUME NEW b \in busy
      PROVE  ~Hits(b, t) <=> (Collides(b, t) => b.late /\ b.end = t)
  <2>1. b.start \in Nat /\ b.end \in Nat /\ b.late \in BOOLEAN
    BY <1>1, ScanAssumption DEF ScanTypes, Bookable, Interval
  <2> QED BY <2>1 DEF Hits, Collides, ScanTypes
<1> QED BY <1>1 DEF Clear, FreeAt

\* The conflict query finds nothing at a wanted start that is no late end.
LEMMA ClearMeans ==
  ASSUME ScanTypes, NEW t \in Nat
  PROVE  (\A b \in busy : ~Collides(b, t)) <=> FreeAt(t) /\ ~LateEnd(t)
<1>1. ASSUME NEW b \in busy
      PROVE  /\ b.start \in Nat /\ b.end \in Nat /\ b.late \in BOOLEAN
             /\ b.start < b.end
  <2>1. /\ b.start \in Nat /\ b.end \in Nat /\ b.late \in BOOLEAN
        /\ b.end - b.start \in Nat \ {0}
    BY <1>1, ScanAssumption DEF ScanTypes, Bookable, Interval
  <2> QED BY <2>1
<1>2. ASSUME NEW b \in busy
      PROVE  ~Collides(b, t) <=> ~Hits(b, t) /\ ~(b.late /\ b.end = t)
  BY <1>1, <1>2 DEF Hits, Collides, ScanTypes
<1> QED BY <1>2 DEF FreeAt, LateEnd

\* Nothing is offered outside the working hours or over a booking, but for
\* the milliseconds of a late row that ends in the minute of the offer.
THEOREM OffersFree == Spec => []OffersAreFree
<1>1. ScanInv => OffersAreFree
  BY ClearIsFree DEF ScanInv, ScanTypes, OffersFit, OffersAreFree
<1> QED BY <1>1, ScanInvariant, PTL

\* On the grid the offer and createBooking differ in the clock, the master's
\* services and the milliseconds of late rows, and in nothing else.
THEOREM OffersExact == Spec => []OffersAreExact
<1>1. ScanInv => OffersAreExact
  <2> SUFFICES ASSUME ScanInv, done, OnGrid, NEW now \in 0..DayLength, NEW offered \in BOOLEAN
               PROVE  {t \in 0..DayLength : Accepts(t, now, offered)}
                        = {s \in slots : offered /\ now <= s /\ ~LateEnd(s)}
    BY DEF OffersAreExact
  <2>0. ScanTypes /\ DayLength \in Nat
    BY ScanAssumption DEF ScanInv
  <2>1. ASSUME NEW s \in slots, offered, now <= s, ~LateEnd(s)
        PROVE  s \in 0..DayLength /\ Accepts(s, now, offered)
    <3>1. s \in 0..DayLength /\ s % Step = 0 /\ Fits(s) /\ FreeAt(s)
      BY <2>0 DEF ScanInv, ScanTypes, OffersFit, Fits
    <3> QED BY <2>0, <2>1, <3>1, ClearMeans DEF Accepts
  <2>2. ASSUME NEW t \in 0..DayLength, Accepts(t, now, offered)
        PROVE  t \in slots /\ ~LateEnd(t) /\ offered /\ now <= t
    <3>1. Wanted(t) /\ ~LateEnd(t)
      BY <2>0, <2>2, ClearMeans DEF Accepts, Wanted
    <3> QED BY <2>0, <2>2, <3>1 DEF ScanInv, ScanTypes, Accepts, Fits
  <2> QED BY <2>1, <2>2
<1> QED BY <1>1, ScanInvariant, PTL

-----------------------------------------------------------------------------
\* The starts right at opening and right behind a booking.
Gaps == {open} \cup {b.end : b \in busy}

\* No gap before x has been overlooked.
GapInv ==
  duration >= Step => \A g \in Gaps : Fits(g) /\ FreeAt(g) /\ g < x => g \in slots

\* A jump over a booking passes no free start, and a step passes none of the
\* gaps: a booking that ends less than a visit behind a free start would have
\* to begin behind it too.
LEMMA GapStep ==
  ASSUME ScanInv, GapInv, [Next]_vars
  PROVE  GapInv'
<1>a. ScanTypes /\ Step \in Nat \ {0}
  BY ScanAssumption DEF ScanInv
<1>b. \A b \in busy : b.start \in Nat /\ b.end \in Nat /\ b.start < b.end
  <2> SUFFICES ASSUME NEW b \in busy
               PROVE  b.start \in Nat /\ b.end \in Nat /\ b.start < b.end
    OBVIOUS
  <2>1. b.start \in Nat /\ b.end \in Nat /\ b.end - b.start \in Nat \ {0}
    BY <1>a, ScanAssumption DEF ScanTypes, Bookable, Interval
  <2> QED BY <2>1
<1>c. \A g \in Gaps : g \in Nat
  BY <1>a, <1>b DEF Gaps, ScanTypes
<1>d. UNCHANGED day /\ slots \subseteq slots'
  BY DEF Next, Skip, Offer, Finish, vars
<1>e. /\ Gaps' = Gaps /\ duration' = duration
      /\ \A t : (FreeAt(t)' <=> FreeAt(t)) /\ (Fits(t)' <=> Fits(t))
  BY <1>d DEF day, Gaps, FreeAt, Fits, Hits
<1> SUFFICES ASSUME duration >= Step, NEW g \in Gaps, Fits(g), FreeAt(g), g < x'
             PROVE  g < x \/ g \in slots'
  BY <1>d, <1>e DEF GapInv
<1>1. CASE Skip
  <2>1. PICK b \in busy : Hits(b, x) /\ x' = b.end
    BY <1>1 DEF Skip
  <2> QED BY <1>a, <1>b, <1>c, <2>1 DEF FreeAt, Hits, ScanTypes
<1>2. CASE Offer
  <2>1. x' = x + Step /\ FreeAt(x) /\ slots' = slots \cup {x}
    BY <1>2 DEF Offer
  <2>2. CASE g = open
    BY <1>a, <2>1, <2>2 DEF ScanTypes
  <2>3. ASSUME NEW b \in busy, g = b.end PROVE g <= x
    <3>1. ~(x < b.end /\ b.start < x + duration)
      BY <2>1 DEF FreeAt, Hits
    <3> QED BY <1>a, <1>b, <2>1, <2>3, <3>1 DEF ScanTypes
  <2> QED BY <1>a, <1>c, <2>1, <2>2, <2>3 DEF Gaps, ScanTypes
<1>3. CASE UNCHANGED x
  BY <1>3
<1> QED BY <1>1, <1>2, <1>3 DEF Next, Finish, vars

\* No gap is overlooked, on the grid or off it, by a visit of a step or longer.
THEOREM GapsOffered == Spec => []GapsAreOffered
<1>1. Init => GapInv
  <2> SUFFICES ASSUME Init, NEW g \in Gaps, Fits(g), g < x PROVE FALSE
    BY DEF GapInv
  <2>1. g \in Nat /\ open \in Nat
    BY ScanInit DEF ScanInv, ScanTypes, Gaps, Bookable, Interval
  <2> QED BY <2>1 DEF Init, Fits
<1>2. ScanInv /\ GapInv /\ [Next]_vars => GapInv'
  BY GapStep
<1>3. ScanInv /\ GapInv => GapsAreOffered
  <2> SUFFICES ASSUME ScanInv, GapInv, done, duration >= Step,
                      NEW g \in Gaps, Fits(g), Clear(g)
               PROVE  g \in slots
    BY DEF GapsAreOffered, Gaps
  <2>1. g \in Nat /\ FreeAt(g)
    BY ClearIsFree DEF ScanInv, ScanTypes, Gaps, Bookable, Interval
  <2>2. g < x
    BY <2>1 DEF ScanInv, ScanTypes, Fits
  <2> QED BY <2>1, <2>2 DEF GapInv
<1> QED BY <1>1, <1>2, <1>3, ScanInvariant, PTL DEF Spec

-----------------------------------------------------------------------------
\* Turns the loop has left at most, the last one being the one that ends it.
Turns ==
  IF done THEN 0 ELSE IF Fits(x) THEN close - duration - x + 2 ELSE 1

\* What ScanEnds rests on besides fairness: every turn brings the loop nearer
\* to its end, over bookings of any length and for any step, and it starts at
\* most DayLength + 2 turns away.
ScanAdvances == [][Turns' < Turns]_vars

\* Going on further behind, while the visit still fits before closing.
LEMMA Nearer ==
  ASSUME NEW c \in Nat, NEW d \in Nat, NEW s \in Nat, NEW y \in Nat, s < y, s + d <= c
  PROVE  c - d - y + 2 < c - d - s + 2 /\ 1 < c - d - s + 2
OBVIOUS

\* The jump to b.end goes forward, since only a booking that ends behind x is
\* in the way; so does the step.
LEMMA TurnsDecrease == ScanInv /\ Next => Turns' < Turns \/ UNCHANGED vars
<1> SUFFICES ASSUME ScanInv, Next PROVE Turns' < Turns \/ UNCHANGED vars
  OBVIOUS
<1>a. ScanTypes /\ Step \in Nat \ {0}
  BY ScanAssumption DEF ScanInv
<1>1. ASSUME x' \in Nat, x < x', UNCHANGED <<day, done>>, ~done, x + duration <= close
      PROVE  Turns' < Turns
  <2>1. \A t : Fits(t)' <=> Fits(t)
    BY <1>1 DEF day, Fits
  <2>2. Fits(x) /\ Turns = close - duration - x + 2
    BY <1>1, <1>a DEF Turns, Fits, ScanTypes
  <2>3. Turns' = IF Fits(x)' THEN close - duration - x' + 2 ELSE 1
    BY <1>1 DEF Turns, day
  <2>4. close \in Nat /\ duration \in Nat /\ x \in Nat
    BY <1>a DEF ScanTypes
  <2>5. PICK y \in Nat : y = x'
    BY <1>1
  <2>6. close - duration - y + 2 < close - duration - x + 2 /\ 1 < close - duration - x + 2
    BY <1>1, <2>4, <2>5, Nearer
  <2> QED BY <2>2, <2>3, <2>5, <2>6
<1>2. CASE Skip
  <2>1. PICK b \in busy : Hits(b, x) /\ x' = b.end
    BY <1>2 DEF Skip
  <2>2. b.end \in Nat /\ x < b.end
    BY <1>a, <2>1 DEF ScanTypes, Bookable, Interval, Hits
  <2> QED BY <1>1, <1>2, <2>1, <2>2 DEF Skip
<1>3. CASE Offer
  BY <1>1, <1>3, <1>a DEF Offer, ScanTypes
<1>4. CASE Finish
  BY <1>4, <1>a DEF Finish, Turns, Fits, ScanTypes
<1> QED BY <1>2, <1>3, <1>4 DEF Next

\* The loop of getBookingFomDay comes nearer to its end with every turn.
THEOREM ScanAdvancing == Spec => [](Turns \in 0 .. DayLength + 2) /\ ScanAdvances
<1>1. ScanInv => Turns \in 0 .. DayLength + 2
  BY ScanAssumption DEF ScanInv, ScanTypes, Turns, Fits
<1>2. ScanInv /\ [Next]_vars => [Turns' < Turns]_vars
  BY TurnsDecrease
<1> QED BY <1>1, <1>2, ScanInvariant, PTL DEF Spec, ScanAdvances
=============================================================================
