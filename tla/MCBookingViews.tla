--------------------------- MODULE MCBookingViews ---------------------------
(* Small instances of BookingViews for TLC. *)
EXTENDS BookingViews, TLC

CONSTANTS d1, d2, s1, s2, h1, h2

Alike == Permutations(Drivers) \cup Permutations(Stores) \cup Permutations(Handlers)

==============================================================================
