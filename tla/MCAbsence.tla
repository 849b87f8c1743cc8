------------------------------ MODULE MCAbsence ------------------------------
(***************************************************************************)
(* A small instance of Absence for the model checker.                      *)
(***************************************************************************)
EXTENDS Absence

CONSTANTS a, b               \* two listings of the source

MCIDs == {a, b}
MCOffer == {"offer"}
MCReport == [x \in Bodies |-> "listed"]
MCGarbled == {}
=============================================================================
