-------------------------- MODULE MCBookingHistory --------------------------
(***************************************************************************)
(* The instances of MCBooking for the properties that look back.           *)
(***************************************************************************)
EXTENDS MCBooking, BookingHistory
=============================================================================
