----------------------------- MODULE MCBooking -----------------------------
(***************************************************************************)
(* Instances of Booking for TLC: a service of one time unit and one of two *)
(* units, a master who offers both and one who offers the first only.      *)
(***************************************************************************)
EXTENDS Booking, TLC

CONSTANTS r1, r2, r3, m1, m2, cut, style, k1

MCDuration == (cut :> 1) @@ (style :> 2)
MCOffers == [m \in Master |-> IF m = m1 THEN Service ELSE {cut}]
MCWorkTime == [m \in Master |-> {[open |-> 0, close |-> 3]}]

B(m, s, t, k) == [master |-> m, service |-> s, start |-> t, key |-> k]

\* Overlapping and adjacent bookings of one master, with and without a key.
BodiesLock ==
  {B(m1, s, t, k) : s \in {cut, style}, t \in 0..2, k \in {NoKey}}

\* The same key sent with acceptable and with unacceptable bodies.
BodiesKey ==
  {B(m1, cut, 1, k1), B(m1, cut, 2, k1), B(m2, style, 0, k1), B(m1, style, 1, NoKey)}

\* Two that overlap, with and without a key, for handlers and for a writer
\* beside the service.
BodiesLive == {B(m1, style, 1, k1), B(m1, cut, 2, NoKey)}

\* Requests differ in being slow only.
Symmetry == Permutations(Request \ Slow)
=============================================================================
