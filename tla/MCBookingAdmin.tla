--------------------------- MODULE MCBookingAdmin ---------------------------
(* A small instance of BookingAdmin for TLC. *)
EXTENDS BookingAdmin, TLC

CONSTANTS b1, b2, d1, s1, s2, h1, h2, a1

OneSlotEach == (s1 :> 1) @@ (s2 :> 1)

Busy == {h \in Handlers : handler[h] # Idle} \cup {a \in Admins : desk[a] # Empty}

\* Undisturbed states only, with at most one auto-cancel job in the queue, and no
\* more than two requests or jobs half done at once.
TwoAtWork == Undisturbed /\ Cardinality(armed) <= 1 /\ Cardinality(Busy) <= 2

\* No step and no property of this run looks at what has been swallowed.
SeenBySteps ==
    <<status, places, rides, market, armed, handler, stale, crashes, desk, acts>>

Symmetry == Permutations({b1, b2}) \cup Permutations({s1, s2}) \cup Permutations({h1, h2})

==============================================================================
