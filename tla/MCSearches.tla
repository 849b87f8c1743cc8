----------------------------- MODULE MCSearches ------------------------------
(***************************************************************************)
(* A small instance of Searches for the model checker.                     *)
(***************************************************************************)
EXTENDS Searches

CONSTANTS cabin, ranch, s1, acres

MCTwo == {cabin, ranch}
MCSearch == {s1}
MCFilter == {acres}
=============================================================================
