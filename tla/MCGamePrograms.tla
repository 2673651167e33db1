---------------------------- MODULE MCGamePrograms ----------------------------
(* Small instances of GamePrograms for TLC. *)
EXTENDS GamePrograms, TLC

CONSTANTS p1, p2, all, shop, plain

\* Addresses are interchangeable; natives and scripts are not.
Addresses == Permutations(Programs)
==============================================================================
