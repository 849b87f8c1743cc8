------------------------------ MODULE MCSources ------------------------------
(***************************************************************************)
(* A small instance of Sources for the model checker.                      *)
(***************************************************************************)
EXTENDS Sources, TLC

CONSTANTS a, b, u, v         \* two listings, two users

Thresholds(stale, inactive, misses, ratio) ==
  [c \in Columns |-> CASE c = "stale" -> stale [] c = "inactive" -> inactive
                       [] c = "misses" -> misses [] c = "ratio" -> ratio]
MCRow == [enabled |-> TRUE, cfg |-> Thresholds(1, 2, 1, 500)]

Entered(on, cleared, changed) ==
  [enabled |-> on, cleared |-> cleared, changed |-> changed, entered |-> Thresholds(3, 1, 2, 0)]
Huge == [enabled |-> TRUE, cleared |-> {}, changed |-> {"misses"},
         entered |-> Thresholds(1, 1, 4, 0)]

(* Switch off; swap the ages and drop the ratio, with misses left blank;   *)
(* more misses, with an age left blank; misses that do not fit.            *)
MCEdits == {Entered(FALSE, {}, {}), Entered(TRUE, {"misses"}, {"stale", "inactive", "ratio"}),
            Entered(TRUE, {"stale"}, {"misses"}), Huge}

Symmetry == Permutations({a, b}) \cup Permutations({u, v})
=============================================================================
