----------------------------- MODULE Duplicates ------------------------------
(***************************************************************************)
(* Possible duplicates: RunDedup compares the listings of a county across  *)
(* sources while upserts geocode and rewrite them, and the user decides    *)
(* about the pairs of the review queue.                                    *)
(***************************************************************************)
EXTENDS Places

CONSTANTS
  Decisions,   \* what the user may decide about a pair
  SourceOf,    \* SourceOf[l]: source of the listing
  CountyOf,    \* CountyOf[a]: county of an address, or of none
  Looks,       \* the rest of a row: status, acres, price, broker and title
  Near,        \* {g, h}: points haversineKM puts at most GeoMaxKM apart
  SameBroker,  \* {x, y}: names one in the other, or sharing half their words
  SameTitle    \* {x, y}: titles sharing 0.30 of their words

Undecided == "undecided"
NoLook == [status |-> "none", acres |-> 0, price |-> 0, broker |-> "", title |-> ""]

ASSUME DuplicatesAssumption ==
  /\ Listings \subseteq Nat
  /\ Undecided \notin Decisions
  /\ \A x \in Looks : x.acres \in Nat /\ x.price \in Nat /\ x # NoLook

VARIABLES
  looks,    \* looks[l]: the rest of the row of l
  pairs,    \* possible_duplicates: pairs[<<a, b>>], None without a row
  dedup,    \* RunDedup: whether it runs, and the scored pairs still to upsert
  failed,   \* pairs whose upsert this run logged as failed
  touched   \* listings written since the run read them

dedupVars == <<pairs, dedup, failed, touched>>
vars == <<placesVars, looks, dedupVars>>

Reasons == {"geo", "acres", "price", "broker", "title"}
None == [reasons |-> {}, decision |-> Undecided]
Pairs == {p \in Listings \X Listings : p[1] < p[2]}
Pair == [reasons: SUBSET Reasons, decision: Decisions \cup {Undecided}]
Scored == [pair: Pairs, reasons: SUBSET Reasons]
Idle == [running |-> FALSE, todo |-> {}]

(* |x - y| / x <= 0.20, false when x is 0: relative to the first listing.  *)
Close(x, y) == x # 0 /\ 5 * (x - y) <= x /\ 5 * (y - x) <= x

NearBy(a, b) ==
  /\ Nowhere \notin {place[a].geom, place[b].geom}
  /\ {place[a].geom, place[b].geom} \in Near

BrokerSimilar(x, y) == {x, y} \in SameBroker

TitleSimilar(x, y) == {x, y} \in SameTitle

(* ScorePair: the reasons why b looks like a.                              *)
ReasonsFor(a, b) ==
  LET x == looks[a]
      y == looks[b]
  IN  {r \in Reasons :
         \/ r = "geo" /\ NearBy(a, b)
         \/ r = "acres" /\ Close(x.acres, y.acres)
         \/ r = "price" /\ Close(x.price, y.price)
         \/ r = "broker" /\ BrokerSimilar(x.broker, y.broker)
         \/ r = "title" /\ TitleSimilar(x.title, y.title)}

Compared(a, b) ==
  /\ looks[a].status \in {"active", "stale"}
  /\ looks[b].status \in {"active", "stale"}
  /\ CountyOf[place[a].address] = CountyOf[place[b].address]
  /\ SourceOf[a] # SourceOf[b]

(* Two reasons of five make a score of 0.40, the threshold.                *)
Alike(a, b) == Compared(a, b) /\ Cardinality(ReasonsFor(a, b)) >= 2

(* Mutant: the score must exceed the threshold.                            *)
FoundAbove ==
  {[pair |-> p, reasons |-> ReasonsFor(p[1], p[2])] :
     p \in {p \in Pairs : Compared(p[1], p[2]) /\ Cardinality(ReasonsFor(p[1], p[2])) > 2}}

(* Mutant: the canonical order of a pair turned round.                     *)
FoundSwapped ==
  {[pair |-> <<p[2], p[1]>>, reasons |-> ReasonsFor(p[1], p[2])] :
     p \in {p \in Pairs : Alike(p[1], p[2])}}

(* The pairs RunDedup finds in the rows it reads; rows come ORDER BY id.   *)
Found ==
  {[pair |-> p, reasons |-> ReasonsFor(p[1], p[2])] : p \in {p \in Pairs : Alike(p[1], p[2])}}

(* The review queue: the pairs the user has not decided about.             *)
Queue == {p \in Pairs : pairs[p].reasons # {} /\ pairs[p].decision = Undecided}

-----------------------------------------------------------------------------
Init ==
  /\ PlacesInit
  /\ looks = [l \in Listings |-> NoLook]
  /\ pairs = [p \in Pairs |-> None]
  /\ dedup = Idle
  /\ failed = {}
  /\ touched = {}

(* An upsert writes the row, the parsed fields with it.                   *)
WriteListing(l) ==
  /\ WriteRow(l)
  /\ \E x \in Looks : looks' = [looks EXCEPT ![l] = x]
  /\ touched' = IF dedup.running THEN touched \cup {l} ELSE {}
  /\ UNCHANGED <<pairs, dedup, failed>>

Geocode ==
  /\ \/ Midnight
     \/ (\E l \in Listings : GeocodeStep(l) \/ WriteFails(l))
     \/ (\E l \in Listings, a \in MaybeAddress : StartUpsert(l, a))
  /\ UNCHANGED <<looks, dedupVars>>

(* QueryListingsForDedup, and the scores of all pairs in memory.           *)
StartDedup ==
  /\ ~dedup.running
  /\ dedup' = [running |-> TRUE, todo |-> Found]
  /\ UNCHANGED <<placesVars, looks, pairs, failed, touched>>

(* Mutant: the row of the pair replaced, the decision with it.             *)
UpsertPairAnew(f) ==
  /\ f \in dedup.todo
  /\ dedup' = [dedup EXCEPT !.todo = @ \ {f}]
  /\ pairs' = [pairs EXCEPT ![f.pair] = [reasons |-> f.reasons, decision |-> Undecided]]
  /\ UNCHANGED <<placesVars, looks, failed, touched>>

(* UpsertPossibleDuplicate: a conflict updates score and reasons only; an  *)
(* error is logged and the next pair follows.                              *)
UpsertPair(f) ==
  /\ f \in dedup.todo
  /\ dedup' = [dedup EXCEPT !.todo = @ \ {f}]
  /\ \/ /\ pairs' = [pairs EXCEPT ![f.pair] = [reasons |-> f.reasons, decision |-> @.decision]]
        /\ UNCHANGED failed
     \/ "database" \in Faults /\ failed' = failed \cup {f.pair} /\ UNCHANGED pairs
  /\ UNCHANGED <<placesVars, looks, touched>>

EndDedup ==
  /\ dedup.running
  /\ dedup.todo = {}
  /\ dedup' = Idle
  /\ failed' = {}
  /\ touched' = {}
  /\ UNCHANGED <<placesVars, looks, pairs>>

(* The process restarts, and RunDedup with it.                             *)
RestartAll ==
  /\ Restart
  /\ dedup' = Idle
  /\ failed' = {}
  /\ touched' = {}
  /\ UNCHANGED <<looks, pairs>>

DedupStep == EndDedup \/ \E f \in dedup.todo : UpsertPair(f)

(* The user decides about a pair of the queue, perhaps from an old page:   *)
(* the decision may replace an earlier one.                                *)
Decide(p, d) ==
  /\ pairs[p].reasons # {}
  /\ pairs' = [pairs EXCEPT ![p].decision = d]
  /\ UNCHANGED <<placesVars, looks, dedup, failed, touched>>

Next ==
  \/ Geocode
  \/ (\E l \in Listings : WriteListing(l))
  \/ StartDedup
  \/ DedupStep
  \/ RestartAll
  \/ (\E p \in Pairs, d \in Decisions : Decide(p, d))

Spec == Init /\ [][Next]_vars

-----------------------------------------------------------------------------
TypeOK ==
  /\ PlacesTypeOK
  /\ looks \in [Listings -> Looks \cup {NoLook}]
  /\ pairs \in [Pairs -> Pair]
  /\ dedup \in [running: BOOLEAN, todo: SUBSET Scored]
  /\ failed \subseteq Pairs
  /\ touched \subseteq Listings

(* A decision stands: no later run, and no change of the listings, puts a  *)
(* decided pair back into the queue.                                       *)
DecisionsStand ==
  [][\A p \in Pairs : pairs[p].decision # Undecided => p \notin Queue']_vars

(* A run about to end has the pair of every two listings that look alike   *)
(* and were not rewritten while it ran, with its present reasons, unless   *)
(* it logged that pair as failed.                                          *)
DuplicatesAreFound ==
  dedup.running /\ dedup.todo = {} =>
    \A p \in Pairs \ failed :
      Alike(p[1], p[2]) /\ p[1] \notin touched /\ p[2] \notin touched
        => pairs[p].reasons = ReasonsFor(p[1], p[2])
=============================================================================
