---------------------------- MODULE MCDuplicates -----------------------------
(***************************************************************************)
(* Small instances of Places and Duplicates for the model checker.         *)
(***************************************************************************)
EXTENDS Duplicates, TLC

CONSTANTS lake, hill, ada, gem

MCTwo == 1..2
MCAddresses == {lake, hill}
MCLake == {lake}
MCSource == [l \in Listings |-> l % 2]
MCCounty == [a \in MaybeAddress |-> CASE a = lake -> ada [] a = hill -> gem [] OTHER -> ""]
MCLooks == {
  [status |-> "active", acres |-> 10, price |-> 8, broker |-> "acme", title |-> "ranch"],
  [status |-> "active", acres |-> 8, price |-> 20, broker |-> "acme", title |-> "cabin"],
  [status |-> "confirmed_sold", acres |-> 10, price |-> 8, broker |-> "acme", title |-> "ranch"]}
MCNear == {{g} : g \in Points}
MCBrokers == {{"acme"}}
MCTitles == {{"ranch"}, {"cabin"}}
=============================================================================
