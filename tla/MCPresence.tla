----------------------------- MODULE MCPresence ------------------------------
(***************************************************************************)
(* A small instance of Presence for the model checker.                     *)
(***************************************************************************)
EXTENDS Presence, TLC

CONSTANTS a, b               \* listings of the source

MCIDs == {a, b}
MCOffer == {"offer"}
MCReport == [x \in Bodies |-> "listed"]
MCGarbled == {}

Symmetry == Permutations(MCIDs)
=============================================================================
