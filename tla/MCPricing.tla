----------------------------- MODULE MCPricing -----------------------------
(* Small instances of Pricing for TLC. *)
EXTENDS Pricing

CONSTANTS a1, a2, r1, r2, b1, m1, m2

==============================================================================
