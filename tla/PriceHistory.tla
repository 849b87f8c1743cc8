---------------------------- MODULE PriceHistory -----------------------------
(***************************************************************************)
(* What the pipeline promises about the price history of a listing,        *)
(* whatever interleaves and whatever fails: it only ever grows.  A price   *)
(* shown by a page is appended and never overwritten; a move is derived at *)
(* most once for each of them, from an earlier known price that differs.   *)
(***************************************************************************)
EXTENDS Naturals, Sequences

CONSTANTS
  Prices,     \* the prices pages may show
  Unknown     \* shown by a page without a price

VARIABLES
  prices,     \* the price of each snapshot, in the order they were taken
  moves       \* the recorded moves: <<snapshot, price before>>

historyVars == <<prices, moves>>

Init ==
  /\ prices = << >>
  /\ moves = {}

Show(p) ==
  /\ prices' = Append(prices, p)
  /\ UNCHANGED moves

Derive(k) ==
  /\ prices[k] # Unknown
  /\ \A m \in moves : m[1] # k
  /\ \E j \in 1..(k - 1) :
       /\ prices[j] \notin {Unknown, prices[k]}
       /\ moves' = moves \cup {<<k, prices[j]>>}
  /\ UNCHANGED prices

Next ==
  \/ \E p \in Prices : Show(p)
  \/ \E k \in DOMAIN prices : Derive(k)

Spec == Init /\ [][Next]_historyVars
=============================================================================
