----------------------------- MODULE MCAccounts -----------------------------
(* Small instances of Accounts for TLC. *)
EXTENDS Accounts

CONSTANTS h1, h2, t1, t2

==============================================================================
