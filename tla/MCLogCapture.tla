---------------------------- MODULE MCLogCapture -----------------------------
(***************************************************************************)
(* A small instance of LogCapture for the model checker.                   *)
(***************************************************************************)
EXTENDS LogCapture

CONSTANTS started, failed    \* texts of records

MCTexts == {started, failed, Blank}
MCQueries == {{failed}, {started, failed}}
=============================================================================
