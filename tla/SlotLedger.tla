----------------------------- MODULE SlotLedger -----------------------------
(***************************************************************************)
(* What the booking system promises, without handlers, locks or keys: a    *)
(* booking appears in one step, in a slot that is free at that moment, and *)
(* ends by being cancelled or completed.                                   *)
(***************************************************************************)
EXTENDS Integers

CONSTANTS
  Booking,   \* identities of bookings
  Slot       \* records with fields master, start and end

VARIABLES
  slot,      \* slot[b]: what b asks for
  state      \* state[b]: none, confirmed, cancelled or completed

vars == <<slot, state>>

Disjoint(s, t) ==
  s.master = t.master => s.end <= t.start \/ t.end <= s.start

Free(b) ==
  \A c \in Booking \ {b} : state[c] = "confirmed" => Disjoint(slot[c], slot[b])

Init ==
  /\ slot \in [Booking -> Slot]
  /\ state = [b \in Booking |-> "none"]

Book(b) ==
  /\ state[b] = "none"
  /\ Free(b)
  /\ state' = [state EXCEPT ![b] = "confirmed"]
  /\ UNCHANGED slot

Cancel(b) ==
  /\ state[b] = "confirmed"
  /\ state' = [state EXCEPT ![b] = "cancelled"]
  /\ UNCHANGED slot

(***************************************************************************)
(* Visits are completed in batches.                                        *)
(***************************************************************************)
Complete(B) ==
  /\ \A b \in B : state[b] = "confirmed"
  /\ state' = [b \in Booking |-> IF b \in B THEN "completed" ELSE state[b]]
  /\ UNCHANGED slot

Next ==
  \/ \E b \in Booking : Book(b) \/ Cancel(b)
  \/ \E B \in SUBSET Booking : Complete(B)

Spec == Init /\ [][Next]_vars
=============================================================================
