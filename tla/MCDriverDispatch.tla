-------------------------- MODULE MCDriverDispatch --------------------------
(* Small instances of DriverDispatch for TLC. *)
EXTENDS DriverDispatch

CONSTANTS b1, d1, d2

==============================================================================
