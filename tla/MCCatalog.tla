------------------------------ MODULE MCCatalog ------------------------------
(***************************************************************************)
(* A small instance of Catalog for the model checker.                      *)
(***************************************************************************)
EXTENDS Catalog, TLC

CONSTANTS l1, l2, l3         \* three listings

(* Powered and off the grid at once; without power after all; a page that  *)
(* says nothing of it.                                                     *)
MCPages == {[text |-> {"no utilities", "power available"}, broker |-> "b1"],
            [text |-> {"no power available", "electric service"}, broker |-> NoBroker],
            [text |-> {"landlocked", "gravel road"}, broker |-> "b2"]}
MCFilters == {Everything, [attr |-> "power", value |-> "true"]}

Symmetry == Permutations({l1, l2, l3})
=============================================================================
