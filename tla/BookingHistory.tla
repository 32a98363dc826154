--------------------------- MODULE BookingHistory ---------------------------
(***************************************************************************)
(* What the properties of Booking that look back need to remember.  The    *)
(* two variables record what has happened; no step of Booking reads or     *)
(* waits for them.                                                         *)
(***************************************************************************)
EXTENDS Booking

VARIABLES
  setter,     \* setter[k]: the request whose SET made idem:k pending, while it is
  forgotten   \* forgotten[k]: bookings made under k before idem:k last ran out

hvars == <<vars, setter, forgotten>>

\* The SET of line 199 took effect for r in this step.
SetsKey(r, k) ==
  pc[r] = "idle" /\ pc'[r] # "idle" /\ keyState[k] = "free" /\ keyState'[k] = "pending"

\* The bookings made under k through the service.
Booked(k) == {r \in Request \ Raw : KeyOf(r) = k /\ status[r] # "none"}

\* Redis drops idem:k in this step: no handler moves.
RunsOut(k) == keyState[k] # "free" /\ keyState'[k] = "free" /\ UNCHANGED pc

HInit ==
  /\ Init
  /\ setter = [k \in Key |-> NoRequest]
  /\ forgotten = [k \in Key |-> {}]

Remember ==
  /\ setter' = [k \in Key |->
       IF \E r \in Request : SetsKey(r, k)
       THEN CHOOSE r \in Request : SetsKey(r, k)
       ELSE IF keyState'[k] = "pending" THEN setter[k] ELSE NoRequest]
  /\ forgotten' = [k \in Key |-> IF RunsOut(k) THEN Booked(k) ELSE forgotten[k]]

HNext == Next /\ Remember

HSpec == HInit /\ [][HNext]_hvars

-----------------------------------------------------------------------------
\* A pending entry is explained by the very request that made it pending: it
\* is at work, or was rejected by the checks before the try block, or its
\* calls failed, or its SET was answered with null although it took effect.
\* A request that loses its slot frees its key (line 303), one that books
\* fills it, whatever slow handlers do to the entry in between.
PendingExplained ==
  \A k \in Key : keyState[k] = "pending" =>
    LET r == setter[k] IN
      /\ r \in Request /\ KeyOf(r) = k
      /\ \/ Holds(r, k) \/ pc[r] = "readKey"
         \/ outcome[r].kind \in {"rejected", "error", "lost", "busy"}

\* README "a repeat with the same key does not make a second booking": of the
\* bookings made under a key since its entry last ran out at most one was not
\* answered with an error, until a handler outlives its entry; and a request
\* repeated word for word never gets a second visit, when the entry has run
\* out, when the first call's outcome is unknown, or however slow handlers are.
NoSecondBooking ==
  /\ \A k \in Key : Undisturbed(k) =>
       \A a, b \in Booked(k) \ forgotten[k] :
         outcome[a].kind # "error" /\ outcome[b].kind # "error" => a = b
  /\ \A a, b \in Request : Visit(a) /\ Visit(b) /\ body[a] = body[b] => a = b
=============================================================================
