------------------------------ MODULE MCHistory ------------------------------
(***************************************************************************)
(* A small instance of History for the model checker.                      *)
(***************************************************************************)
EXTENDS History

(* A price, another that the second version of the parser is needed for,   *)
(* and a page without a price that reports a sale.                         *)
MCPriceOf == [f \in 1..Pages |-> <<2, 3, 0>>[f]]
MCReport == [f \in 1..Pages |-> IF f = 3 THEN "sold" ELSE "listed"]
MCParsedBy == [f \in 1..Pages |-> IF f = 2 THEN {2} ELSE {1, 2}]
=============================================================================
