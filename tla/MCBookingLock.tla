--------------------------- MODULE MCBookingLock ---------------------------
(* BookingLock for TLC: four clients under faults and with crashes. *)
EXTENDS BookingLock
=============================================================================
