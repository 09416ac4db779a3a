--------------------------- MODULE MCBookingCore ---------------------------
(* A small instance of BookingCore for TLC. *)
EXTENDS BookingCore, TLC

CONSTANTS b1, d1, s1, h1, h2

TwoSlots == (s1 :> 2)

==============================================================================
