------------------------- MODULE MCBookingLifecycle -------------------------
(* BookingLifecycle and Administration on a handful of workers. *)
EXTENDS Administration, TLC

Symmetry == Permutations(Clients)

(* A bound for the run with lapses: the first authorization is not yet     *)
(* seven days old and no second intent was made.                           *)
WithinAWeek == booking.authAge # "old" /\ stripe.gen <= 1
=============================================================================
