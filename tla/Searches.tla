------------------------------ MODULE Searches -------------------------------
(***************************************************************************)
(* Saved searches and the daily digest: searchbus.Core.EvaluateAll pages   *)
(* through the listings of every enabled search and records hits, while    *)
(* the scraper finds and reprices listings, the user edits the searches,   *)
(* reads the digest and marks what it showed as seen.                      *)
(*                                                                         *)
(* Time is counted in units of which Day make a day.  A listing is what    *)
(* the evaluation reads of it: when it was first seen, which filters it    *)
(* passes now, and when its price dropped.                                 *)
(***************************************************************************)
EXTENDS Integers, FiniteSets, Sequences, FiniteSetsExt

CONSTANTS
  Listings,     \* ids of listings
  Searches,     \* ids of saved searches
  Filters,      \* queries a search may have
  Day,          \* units of time in a day
  PageSize,     \* evalPageSize
  MaxRows,      \* evalMaxRows
  DigestLimit,  \* hits a digest page shows
  Faults,       \* whether "database" calls of an evaluation may fail
  MaxTime,      \* bound of the model: the last moment
  MaxEdits,     \* bound of the model: edits of the saved searches
  MaxEvents,    \* bound of the model: listings found and repriced
  MaxSeen       \* bound of the model: hits seen when a digest is opened

ASSUME SearchesAssumption ==
  /\ IsFiniteSet(Listings)
  /\ Day \in Nat \ {0}
  /\ PageSize \in Nat \ {0}
  /\ MaxRows \in Nat \ {0}
  /\ DigestLimit \in Nat
  /\ Faults \subseteq {"database"}
  /\ MaxTime \in Nat
  /\ MaxEdits \in Nat
  /\ MaxEvents \in Nat
  /\ MaxSeen \in Nat

VARIABLES
  \* the database
  firstSeen,  \* firstSeen[l]: listings.first_seen_at, Absent before
  passes,     \* passes[l]: the filters the row of l passes
  drops,      \* drops[l]: changed_at of its price changes to a lower price
  search,     \* search[s]: state and query of the saved search
  hits,       \* search_hits: the unique index makes a hit its own key
  seen,       \* the hits with seen = true
  \* the evaluation
  pc,         \* the step EvaluateAll takes next
  at,         \* its now
  todo,       \* the searches it has still to evaluate, as it read them
  cur,        \* the search under evaluation
  offset,     \* rows paged so far
  page,       \* listings of the page still to evaluate
  full,       \* whether the page was full
  warned,     \* <<search, listing>> the evaluation logged as failed
  steady,     \* <<search, listing>> that matched ever since it started
  skipped,    \* <<search, listing>> that the paging may have passed over
  \* the user and the clock
  shown,      \* the hits of the digest page in the browser
  edits,
  events,
  now

listingVars == <<firstSeen, passes, drops>>
evalVars == <<pc, at, todo, cur, offset, page, full, warned>>
ghostVars == <<steady, skipped>>
vars == <<listingVars, search, hits, seen, evalVars, ghostVars, shown, edits, events, now>>

Absent == -1
Reasons == {"new", "price_drop", "attribute_added"}
SearchStates == {"none", "enabled", "disabled", "deleted"}
Hit == [search: Searches, listing: Listings, reason: Reasons, day: Nat]
Task == [id: Searches, query: Filters]

Listed == {l \in Listings : firstSeen[l] # Absent}
Exists(s) == search[s].state \in {"enabled", "disabled"}
Matches(q) == {l \in Listed : q \in passes[l]}

(* The fields diffSnapshots compares, and those hasNewAttr looks for.      *)
DiffFields == {"price_cents", "acres", "title", "description", "status"}
AttrFields == {"attr_water_frontage", "attr_off_grid", "attr_road_access", "attr_power",
               "attr_well", "attr_septic"}

(* Mutant: the window of the price changes forgotten.                      *)
DueUnbounded(l) ==
  {r \in Reasons : \/ r = "new" /\ firstSeen[l] > at - Day
                   \/ r = "price_drop" /\ drops[l] # {}
                   \/ r = "attribute_added" /\ DiffFields \cap AttrFields # {}}

(* The reasons for which the evaluation records a hit of l: something in   *)
(* the last Day.  No snapshot diff has an attribute, so the third reason   *)
(* never applies.                                                          *)
Due(l) ==
  {r \in Reasons : \/ r = "new" /\ firstSeen[l] > at - Day
                   \/ r = "price_drop" /\ \E t \in drops[l] : t > at - Day
                   \/ r = "attribute_added" /\ DiffFields \cap AttrFields # {}}

HitsOf(s, l, reasons) ==
  {[search |-> s, listing |-> l, reason |-> r, day |-> at \div Day] : r \in reasons}

(* The rows LIMIT limit OFFSET offset may return: first_seen_at DESC       *)
(* orders them, rows first seen by the same run come in any order.         *)
Orders(M) ==
  {o \in [1..Cardinality(M) -> M] :
     \A i, j \in DOMAIN o : i < j => o[i] # o[j] /\ firstSeen[o[i]] >= firstSeen[o[j]]}

PagesOf(M, limit) ==
  {SubSeq(o, offset + 1, Min({offset + limit, Len(o)})) : o \in Orders(M)}

Limit == IF offset + PageSize > MaxRows THEN MaxRows - offset ELSE PageSize

-----------------------------------------------------------------------------
Init ==
  /\ firstSeen = [l \in Listings |-> Absent]
  /\ passes = [l \in Listings |-> {}]
  /\ drops = [l \in Listings |-> {}]
  /\ search \in [Searches -> [state: {"none", "enabled"}, query: Filters]]
  /\ hits = {} /\ seen = {}
  /\ pc = "idle" /\ at = 0 /\ todo = {} /\ cur = {} /\ offset = 0
  /\ page = << >> /\ full = FALSE /\ warned = {}
  /\ steady = {} /\ skipped = {}
  /\ shown = {} /\ edits = 0 /\ events = 0 /\ now = 0

Tick ==
  /\ now < MaxTime
  /\ now' = now + 1
  /\ UNCHANGED <<listingVars, search, hits, seen, evalVars, ghostVars, shown, edits, events>>

(* The pairs an evaluation must not lose: a pair that no longer matches is *)
(* not steady; a row that leaves moves up the rows after it, perhaps onto  *)
(* a page that its search has read already.                                *)
TrackRows(l) ==
  /\ steady' = {p \in steady : search[p[1]].query \in passes'[p[2]]}
  /\ skipped' = skipped \cup
       {p \in steady : /\ search[p[1]].query \in passes[l] \ passes'[l]
                       /\ firstSeen[l] > firstSeen[p[2]]
                       /\ \A t \in todo : t.id # p[1]}

(* The scraper creates listings, all first seen at the start of its run.   *)
FindListings(new) ==
  /\ events < MaxEvents
  /\ new # {} /\ new \cap Listed = {}
  /\ firstSeen' = [l \in Listings |-> IF l \in new THEN now ELSE firstSeen[l]]
  /\ \E f \in [new -> SUBSET Filters] :
       passes' = [l \in Listings |-> IF l \in new THEN f[l] ELSE passes[l]]
  /\ events' = events + 1
  /\ UNCHANGED <<drops, search, hits, seen, evalVars, ghostVars, shown, edits, now>>

(* The scraper updates a listing: its price may drop or rise, and it may   *)
(* come to pass other filters.                                             *)
UpdateListing(l) ==
  /\ events < MaxEvents
  /\ l \in Listed
  /\ \E t \in {{}, {now}} : drops' = [drops EXCEPT ![l] = @ \cup t]
  /\ \E f \in SUBSET Filters : passes' = [passes EXCEPT ![l] = f]
  /\ TrackRows(l)
  /\ events' = events + 1
  /\ UNCHANGED <<firstSeen, search, hits, seen, evalVars, shown, edits, now>>

-----------------------------------------------------------------------------
(* The user creates, updates and deletes saved searches.  A new search has *)
(* an id of its own.  Deleting one deletes its hits.                       *)
Edit(s, new) ==
  /\ edits < MaxEdits
  /\ edits' = edits + 1
  /\ search' = [search EXCEPT ![s] = new]
  /\ steady' = {p \in steady : p[1] # s}
  /\ UNCHANGED <<listingVars, evalVars, skipped, shown, events, now>>

CreateSavedSearch(s) ==
  /\ search[s].state = "none"
  /\ \E q \in Filters, e \in {"enabled", "disabled"} : Edit(s, [state |-> e, query |-> q])
  /\ UNCHANGED <<hits, seen>>

UpdateSavedSearch(s) ==
  /\ Exists(s)
  /\ \E q \in Filters, e \in {"enabled", "disabled"} : Edit(s, [state |-> e, query |-> q])
  /\ UNCHANGED <<hits, seen>>

DeleteSavedSearch(s) ==
  /\ Exists(s)
  /\ Edit(s, [state |-> "deleted", query |-> search[s].query])
  /\ hits' = {h \in hits : h.search # s}
  /\ seen' = {h \in seen : h.search # s}

-----------------------------------------------------------------------------
(* EvaluateAll reads the enabled searches with their queries.              *)
StartEvaluation ==
  /\ pc = "idle"
  /\ \E s \in Searches : search[s].state = "enabled"
  /\ todo' = {[id |-> s, query |-> search[s].query] :
                s \in {s \in Searches : search[s].state = "enabled"}}
  /\ steady' = {p \in Searches \X Listed :
                  search[p[1]].state = "enabled" /\ search[p[1]].query \in passes[p[2]]}
  /\ skipped' = {}
  /\ at' = now
  /\ warned' = {}
  /\ pc' = "search"
  /\ UNCHANGED <<listingVars, search, hits, seen, cur, offset, page, full, shown, edits,
                 events, now>>

NextSearch(t) ==
  /\ pc = "search"
  /\ t \in todo
  /\ todo' = todo \ {t}
  /\ cur' = {t}
  /\ offset' = 0
  /\ pc' = "page"
  /\ UNCHANGED <<listingVars, search, hits, seen, at, page, full, warned, ghostVars, shown,
                 edits, events, now>>

EvaluationEnds ==
  /\ pc = "search"
  /\ todo = {}
  /\ pc' = "idle"
  /\ at' = 0 /\ cur' = {} /\ offset' = 0 /\ full' = FALSE /\ warned' = {}
  /\ steady' = {} /\ skipped' = {}
  /\ UNCHANGED <<listingVars, search, hits, seen, todo, page, shown, edits, events, now>>

(* The listings whose rows come before that of l among those of query q,   *)
(* and those whose rows come in any order with it.                         *)
RowsBefore(q, l) == {k \in Matches(q) : firstSeen[k] > firstSeen[l]}
RowsBeside(q, l) == {k \in Matches(q) : firstSeen[k] = firstSeen[l]}

(* The page that is read ends between the row of l and one beside it.      *)
CutsAt(q, l) ==
  LET before == Cardinality(RowsBefore(q, l)) IN
  /\ before < offset + Limit
  /\ offset + Limit < before + Cardinality(RowsBeside(q, l))

(* QueryListingsFilter for the next page; a page without rows, or an       *)
(* error, ends the search.                                                 *)
QueryPage ==
  /\ pc = "page"
  /\ \E t \in cur : \E P \in PagesOf(Matches(t.query), Limit) :
       /\ page' = P
       /\ full' = (Len(P) >= Limit)
       /\ pc' = IF P = << >> THEN "search" ELSE "listing"
  /\ skipped' = skipped \cup
       {p \in steady : \E t \in cur : t.id = p[1] /\ CutsAt(t.query, p[2])}
  /\ UNCHANGED <<listingVars, search, hits, seen, at, todo, cur, offset, warned,
                 steady, shown, edits, events, now>>

QueryFails ==
  /\ pc = "page"
  /\ "database" \in Faults
  /\ warned' = warned \cup {<<t.id, l>> : t \in cur, l \in Listings}
  /\ pc' = "search"
  /\ UNCHANGED <<listingVars, search, hits, seen, at, todo, cur, offset, page, full,
                 ghostVars, shown, edits, events, now>>

(* evaluateListing fails: a call fails, or the search is gone and its hit  *)
(* has nothing to refer to.  The new hit may be recorded and the price     *)
(* drop not.  The next listing follows.                                    *)
EvaluationOfFails(t, l) ==
  /\ pc = "listing"
  /\ page # << >> /\ l = Head(page)
  /\ \/ /\ "database" \in Faults /\ Exists(t.id)
        /\ \E reasons \in {{}, Due(l) \cap {"new"}, Due(l)} :
             hits' = hits \cup HitsOf(t.id, l, reasons)
     \/ ~Exists(t.id) /\ Due(l) # {} /\ UNCHANGED hits
  /\ page' = Tail(page)
  /\ warned' = warned \cup {<<t.id, l>>}

(* evaluateListing records the hits that are due and not yet recorded.     *)
EvaluationOfSucceeds(t, l) ==
  /\ pc = "listing"
  /\ page # << >> /\ l = Head(page)
  /\ Exists(t.id) \/ Due(l) = {}
  /\ hits' = hits \cup HitsOf(t.id, l, Due(l))
  /\ page' = Tail(page)
  /\ UNCHANGED warned

EvaluateListing(l) ==
  /\ \E t \in cur : EvaluationOfSucceeds(t, l) \/ EvaluationOfFails(t, l)
  /\ UNCHANGED <<listingVars, search, seen, pc, at, todo, cur, offset, full, ghostVars, shown,
                 edits, events, now>>

(* Mutant: the offset not moved on.                                        *)
PageEndsInPlace ==
  /\ pc = "listing"
  /\ page = << >>
  /\ pc' = IF full THEN "page" ELSE "search"
  /\ UNCHANGED <<listingVars, search, hits, seen, at, todo, cur, offset, page, full, warned,
                 ghostVars, shown, edits, events, now>>

(* Mutant: the next page starts one row too late.                          *)
PageEndsPastRow ==
  /\ pc = "listing"
  /\ page = << >>
  /\ offset' = IF full THEN offset + Limit + 1 ELSE offset
  /\ pc' = IF full /\ offset + Limit < MaxRows THEN "page" ELSE "search"
  /\ UNCHANGED <<listingVars, search, hits, seen, at, todo, cur, page, full, warned,
                 ghostVars, shown, edits, events, now>>

(* A page that was not full is the last one.                               *)
PageEnds ==
  /\ pc = "listing"
  /\ page = << >>
  /\ offset' = IF full THEN offset + Limit ELSE offset
  /\ pc' = IF full /\ offset + Limit < MaxRows THEN "page" ELSE "search"
  /\ UNCHANGED <<listingVars, search, hits, seen, at, todo, cur, page, full, warned,
                 ghostVars, shown, edits, events, now>>

EvaluationStep ==
  \/ EvaluationEnds \/ QueryPage \/ QueryFails \/ PageEnds
  \/ \E t \in todo : NextSearch(t)
  \/ \E l \in Listings : EvaluateListing(l)

-----------------------------------------------------------------------------
(* The digest page: the unseen hits of the latest days, up to the limit.   *)
Unseen == hits \ seen

OpenDigest ==
  /\ Cardinality(seen) <= MaxSeen
  /\ \E H \in SUBSET Unseen :
       /\ Cardinality(H) = Min({DigestLimit, Cardinality(Unseen)})
       /\ \A h \in H, g \in Unseen \ H : h.day >= g.day
       /\ shown' = H
  /\ UNCHANGED <<listingVars, search, hits, seen, evalVars, ghostVars, edits, events, now>>

(* Mutant: everything unseen is marked, not what the page showed.          *)
MarkAllSeen ==
  /\ shown # {}
  /\ seen' = hits
  /\ shown' = {}
  /\ UNCHANGED <<listingVars, search, hits, evalVars, ghostVars, edits, events, now>>

(* Mutant: hits are marked that are no longer there.                       *)
MarkGoneSeen ==
  /\ shown # {}
  /\ seen' = seen \cup shown
  /\ shown' = {}
  /\ UNCHANGED <<listingVars, search, hits, evalVars, ghostVars, edits, events, now>>

(* The form of the page posts the ids it showed; hits deleted meanwhile    *)
(* are not there to be marked.  The browser leaves the page.               *)
Marked == shown \cap hits

MarkHitsSeen ==
  /\ shown # {}
  /\ seen' = seen \cup Marked
  /\ shown' = {}
  /\ UNCHANGED <<listingVars, search, hits, evalVars, ghostVars, edits, events, now>>

Next ==
  \/ Tick
  \/ (\E new \in SUBSET Listings : FindListings(new))
  \/ (\E l \in Listings : UpdateListing(l))
  \/ (\E s \in Searches : CreateSavedSearch(s) \/ UpdateSavedSearch(s) \/ DeleteSavedSearch(s))
  \/ StartEvaluation
  \/ EvaluationStep
  \/ OpenDigest
  \/ MarkHitsSeen

Spec == Init /\ [][Next]_vars

(* EvaluateAll is a sequential loop whose calls all return.                *)
FairSpec == Spec /\ WF_vars(EvaluationStep)

-----------------------------------------------------------------------------
TypeOK ==
  /\ firstSeen \in [Listings -> Nat \cup {Absent}]
  /\ passes \in [Listings -> SUBSET Filters]
  /\ drops \in [Listings -> SUBSET Nat]
  /\ search \in [Searches -> [state: SearchStates, query: Filters]]
  /\ hits \subseteq Hit
  /\ seen \subseteq hits
  /\ pc \in {"idle", "search", "page", "listing"}
  /\ at \in Nat
  /\ todo \subseteq Task
  /\ cur \subseteq Task
  /\ offset \in 0..MaxRows
  /\ page \in Seq(Listings)
  /\ full \in BOOLEAN
  /\ warned \subseteq Searches \X Listings
  /\ steady \subseteq Searches \X Listings
  /\ skipped \subseteq Searches \X Listings
  /\ shown \subseteq Hit
  /\ edits \in Nat
  /\ events \in Nat
  /\ now \in Nat

(* A hit tells the truth: its search exists, and its listing was first     *)
(* seen, or dropped in price, after the start of the day before the hit's; *)
(* no event is reported days later, and no attribute is ever reported.     *)
HitsAreEarned ==
  \A h \in hits :
    /\ Exists(h.search)
    /\ \/ h.reason = "new" /\ firstSeen[h.listing] > (h.day - 1) * Day
       \/ h.reason = "price_drop" /\ \E t \in drops[h.listing] : t > (h.day - 1) * Day

(* The hits of <<search, listing>> p that the evaluation that ends now     *)
(* owes are recorded.                                                      *)
Reported(p) ==
  /\ firstSeen[p[2]] > at - Day => HitsOf(p[1], p[2], {"new"}) \subseteq hits
  /\ (\E t \in drops[p[2]] : t > at - Day /\ t < at)
       => HitsOf(p[1], p[2], {"price_drop"}) \subseteq hits

(* Paging loses nothing it need not: when an evaluation ends, a listing    *)
(* that matched a search since it started, with fewer than evalMaxRows     *)
(* rows before its own, has the hits it was due, or its failure was        *)
(* logged.  Excepted is what LIMIT and OFFSET may really pass over: a row  *)
(* that a page's end parted from one first seen at the same moment, and    *)
(* one behind a row that left after its search began to page.              *)
DueAreReported ==
  [][pc # "idle" /\ pc' = "idle" =>
       \A p \in steady \ (warned \cup skipped) :
         Cardinality(RowsBefore(search[p[1]].query, p[2])) < MaxRows => Reported(p)]_vars

(* A hit leaves the digest only after a page has shown it, and does not    *)
(* come back: hits that arrive while the page is open stay unseen, and an  *)
(* evaluation that finds a hit again leaves it seen.                       *)
OnlyShownAreMarked ==
  [][/\ seen' \ seen \subseteq shown
     /\ seen \cap hits' \subseteq seen']_vars

(* An evaluation that starts comes to an end, however many listings the    *)
(* scraper adds while it pages.                                            *)
EvaluationsEnd == pc # "idle" ~> pc = "idle"
=============================================================================
