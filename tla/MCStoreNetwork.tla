--------------------------- MODULE MCStoreNetwork ---------------------------
(* Small instances of StoreNetwork for TLC. *)
EXTENDS StoreNetwork

CONSTANTS o1, s1, s2, b1, h1, h2

==============================================================================
