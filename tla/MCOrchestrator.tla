--------------------------- MODULE MCOrchestrator ----------------------------
(***************************************************************************)
(* Small instances of Orchestrator for the model checker.                  *)
(***************************************************************************)
EXTENDS Orchestrator, TLC

CONSTANTS a, b, c            \* listings of the source

MCOne == {a}
MCIDs == {a, b}
MCThree == {a, b, c}
MCOffer == {"offer"}
MCSale == {"offer", "sale"}
MCPages == {"offer", "captcha"}
MCBodies == {"offer", "sale", "relist"}
MCAnswers == MCBodies \cup {"captcha"}
MCReport == [x \in Bodies |-> IF x = "sale" THEN "sold" ELSE "listed"]
MCGarbled == Bodies \cap {"captcha"}

Symmetry == Permutations(MCIDs)
=============================================================================
