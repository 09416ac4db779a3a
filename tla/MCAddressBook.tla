---------------------------- MODULE MCAddressBook ----------------------------
(* Small instances of AddressBook for TLC. *)
EXTENDS AddressBook, TLC

CONSTANTS a1, a2, a3, p1, p2, z1, h1, h2

Alike == Permutations(Ids) \cup Permutations(Editors)

===============================================================================
