--------------------------- MODULE MCSupportDesk ---------------------------
(* Small instances of SupportDesk for TLC. *)
EXTENDS SupportDesk

CONSTANTS u1, d1, a1, t1, t2, bk, h1, h2

==============================================================================
