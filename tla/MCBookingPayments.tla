------------------------- MODULE MCBookingPayments -------------------------
(* Small instances of BookingPayments for TLC. *)
EXTENDS BookingPayments, TLC

CONSTANTS h1, h2

Symmetry == Permutations({h1, h2})

==============================================================================
