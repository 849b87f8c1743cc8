------------------------------- MODULE Catalog -------------------------------
(***************************************************************************)
(* What a listing row says, and who reads it.  The scraper and backfills   *)
(* upsert parsed pages into the same rows (listingbus.UpsertFromParsed),   *)
(* and the scraper counts missed runs on them (ApplyMissedRun): each reads *)
(* the row and writes the whole row back, in two calls without a           *)
(* transaction.  A visitor of the search page (foundation/web/listings.go) *)
(* follows its Next and Prev links meanwhile, each a query of its own.     *)
(*                                                                         *)
(* A page is the set of phrases of its title and description, and a        *)
(* broker; the other fields of a row behave as one of these two, its       *)
(* status and misses are in Orchestrator, its point in Places, its         *)
(* snapshots in History.                                                   *)
(***************************************************************************)
EXTENDS Attributes

CONSTANTS
  Backfills,     \* the backfills that may run at once
  Listings,      \* (source, source listing id) pairs
  Pages,         \* what a listing's page may say
  Filters,       \* the filters visitors choose
  Asked,         \* the limits visitors ask for in the address
  DefaultLimit,  \* the limit of the page when none is asked for
  MaxLimit,      \* the most rows a page shows
  Faults,        \* whether "save", a write of a row, may fail
  MaxTime,       \* bound of the model: the last moment
  MaxWrites      \* bound of the model: number of pages upserted and runs missed

NoBroker == "no broker"
Brokers == {"b1", "b2"}
Page == [text: SUBSET Phrases, broker: Brokers \cup {NoBroker}]
Everything == [attr |-> "any", value |-> Null]
Filter == [attr: Attrs, value: Words \ {Null}] \cup {Everything}

ASSUME CatalogAssumption ==
  /\ "scraper" \notin Backfills
  /\ IsFiniteSet(Listings)
  /\ Pages \subseteq Page
  /\ Filters \subseteq Filter
  /\ Asked \subseteq Int
  /\ MaxLimit \in Nat \ {0} /\ DefaultLimit \in 1..MaxLimit
  /\ Faults \subseteq {"save"}
  /\ MaxTime \in Nat /\ MaxWrites \in Nat

VARIABLES
  row,      \* row[l]: the row of the listings table
  job,      \* job[w]: the upsert or missed run that w has begun
  walk,     \* the visitor's walk through the pages of results
  now,
  writes,   \* number of jobs begun
  \* history variables
  said,     \* said[l]: the last that the pages written said of each column
  lost,     \* lost[l]: columns written back as they were before another write
  sure      \* listings that the walk must not pass over

vars == <<row, job, walk, now, writes, said, lost, sure>>
history == <<said, lost>>

(* The columns of a row that pages decide.                                 *)
Columns == Attrs \cup {"text", "broker"}
NoWords == [x \in Attrs |-> Null]
Absent == -1
NoRow == [firstSeen |-> Absent, text |-> {}, broker |-> NoBroker, attrs |-> NoWords,
          evidence |-> NoWords]
NothingSaid == [text |-> {}, broker |-> NoBroker, attrs |-> NoWords]
Row == [firstSeen: Nat, text: SUBSET Phrases, broker: Brokers \cup {NoBroker},
        attrs: [Attrs -> Words], evidence: [Attrs -> Words]] \cup {NoRow}

(* What the writers do; a missed run has no page.                          *)
Writers == {"scraper"} \cup Backfills
Idle == [step |-> "idle"]
Upsert == [step: {"upsert"}, listing: Listings, page: Pages, read: Row, at: Nat, raced: BOOLEAN]
Missed == [step: {"missed"}, listing: Listings, read: Row, raced: BOOLEAN]
NoWalk == [filter |-> Everything, limit |-> DefaultLimit, offset |-> 0, more |-> FALSE,
           shown |-> {}]

Listed == {l \in Listings : row[l] # NoRow}

-----------------------------------------------------------------------------
(* The rows.                                                               *)

(* The title and description are replaced, a broker that is missing from   *)
(* the page is kept.                                                       *)
ApplyParsedFields(r, page) ==
  [r EXCEPT !.text = page.text,
            !.broker = IF page.broker = NoBroker THEN @ ELSE page.broker]

(* Mutant: a column without a word in the text is cleared.                 *)
ApplyAttributeClearing(r) ==
  [r EXCEPT !.evidence = ExtractAll(r.text), !.attrs = ExtractAll(r.text)]

(* The evidence is replaced; an attribute column only by a word, so that   *)
(* one of which the new text says nothing stays as it was.                 *)
ApplyAttributeExtraction(r) ==
  LET found == ExtractAll(r.text) IN
    [r EXCEPT !.evidence = found,
              !.attrs = [x \in Attrs |-> IF found[x] # Null THEN found[x] ELSE @[x]]]

(* The row r once a page is parsed into it, first seen at t.               *)
Parsed(r, page, t) ==
  [ApplyAttributeExtraction(ApplyParsedFields(r, page)) EXCEPT !.firstSeen = t]

(* The columns of which a page says something.                             *)
GivenBy(page) ==
  {"text"} \cup {c \in {"broker"} : page.broker # NoBroker}
    \cup {x \in Attrs : ExtractAll(page.text)[x] # Null}
Column(r, c) ==
  CASE c = "text" -> r.text
    [] c = "broker" -> r.broker
    [] c \in Attrs -> r.attrs[c]

-----------------------------------------------------------------------------
(* The visitor.                                                            *)

(* Mutant: any number is a limit.                                          *)
AnyLimitOf(n) == IF n > MaxLimit THEN MaxLimit ELSE n

(* parsePagination: a limit that is no positive number is ignored, a large *)
(* one is cut.                                                             *)
LimitOf(n) == IF n <= 0 THEN DefaultLimit ELSE IF n > MaxLimit THEN MaxLimit ELSE n

Passes(r, f) == r # NoRow /\ (f = Everything \/ r.attrs[f.attr] = f.value)
Matching(rows, f) == {l \in Listings : Passes(rows[l], f)}

(* ORDER BY first_seen_at DESC: rows of one run come in any order.         *)
Orders(M) ==
  {o \in [1..Cardinality(M) -> M] :
     \A i, j \in DOMAIN o : i < j => o[i] # o[j] /\ row[o[i]].firstSeen >= row[o[j]].firstSeen}

(* The sets of rows that LIMIT limit OFFSET offset may return.             *)
Results(f, limit, offset) ==
  {{o[i] : i \in {k \in DOMAIN o : offset < k /\ k <= offset + limit}} :
     o \in Orders(Matching(row, f))}

(* The listings of M that share the moment they were first seen with none. *)
Alone(rows, M) == {l \in M : \A k \in M \ {l} : rows[k].firstSeen # rows[l].firstSeen}

-----------------------------------------------------------------------------
Init ==
  /\ row = [l \in Listings |-> NoRow]
  /\ job = [w \in Writers |-> Idle]
  /\ walk = NoWalk
  /\ now = 0
  /\ writes = 0
  /\ said = [l \in Listings |-> NothingSaid]
  /\ lost = [l \in Listings |-> {}]
  /\ sure = {}

Tick ==
  /\ now < MaxTime
  /\ now' = now + 1
  /\ UNCHANGED <<row, job, walk, writes, history, sure>>

Begin(w, j) ==
  /\ job[w] = Idle
  /\ writes < MaxWrites
  /\ writes' = writes + 1
  /\ job' = [job EXCEPT ![w] = j]
  /\ UNCHANGED <<row, walk, now, history, sure>>

(* UpsertFromParsed reads the row of the page's listing.                   *)
StartUpsert(w, l, page) ==
  Begin(w, [step |-> "upsert", listing |-> l, page |-> page, read |-> row[l], at |-> now,
            raced |-> FALSE])

(* ApplyMissedRun reads the row of a listing that is not closed.           *)
StartMissedRun(l) ==
  /\ l \in Listed
  /\ Begin("scraper", [step |-> "missed", listing |-> l, read |-> row[l], raced |-> FALSE])

(* The write of r into row l by w.  Jobs that have read the row before are *)
(* behind.  A row that leaves the results moves up those that follow.      *)
Write(w, l, r) ==
  LET left == {k \in Matching(row, walk.filter) : k = l /\ ~Passes(r, walk.filter)}
  IN
  /\ row' = [row EXCEPT ![l] = r]
  /\ job' = [v \in Writers |->
               IF v = w THEN Idle
               ELSE IF job[v] # Idle /\ job[v].listing = l THEN [job[v] EXCEPT !.raced = TRUE]
               ELSE job[v]]
  /\ sure' = {k \in sure : /\ k \in Alone(row', Matching(row', walk.filter))
                           /\ \A m \in left : row[m].firstSeen < row[k].firstSeen}
  /\ UNCHANGED <<walk, now, writes>>

(* The columns w has not been told of are those it has read.               *)
Remember(w, l, given) ==
  lost' = [lost EXCEPT ![l] =
             (@ \ given) \cup (IF job[w].raced THEN Columns \ given ELSE {})]

SaidBy(page, l) ==
  said' = [said EXCEPT ![l] =
             [text   |-> page.text,
              broker |-> IF "broker" \in GivenBy(page) THEN page.broker ELSE @.broker,
              attrs  |-> [x \in Attrs |-> IF x \in GivenBy(page) THEN ExtractAll(page.text)[x]
                                         ELSE @.attrs[x]]]]

(* INSERT: refused when the other writer has created the row meanwhile.    *)
CreateListing(w) ==
  LET j == job[w]  l == j.listing  page == j.page IN
  /\ j.step = "upsert" /\ j.read = NoRow
  /\ row[l] = NoRow
  /\ Write(w, l, Parsed(NoRow, page, j.at))
  /\ SaidBy(page, l)
  /\ Remember(w, l, GivenBy(page))

(* UPDATE: every column but the first sighting.                            *)
UpdateListing(w) ==
  LET j == job[w]  l == j.listing  page == j.page IN
  /\ j.step = "upsert" /\ j.read # NoRow
  /\ Write(w, l, Parsed(j.read, page, row[l].firstSeen))
  /\ SaidBy(page, l)
  /\ Remember(w, l, GivenBy(page))

(* The same UPDATE, by ApplyMissedRun, with the row as it was read.        *)
UpdateMissed(w) ==
  LET j == job[w]  l == j.listing IN
  /\ j.step = "missed"
  /\ Write(w, l, [j.read EXCEPT !.firstSeen = row[l].firstSeen])
  /\ Remember(w, l, {})
  /\ UNCHANGED said

SaveFails(w) ==
  /\ job[w] # Idle
  /\ \/ "save" \in Faults
     \/ job[w].read = NoRow /\ row[job[w].listing] # NoRow
  /\ job' = [job EXCEPT ![w] = Idle]
  /\ UNCHANGED <<row, walk, now, writes, history, sure>>

-----------------------------------------------------------------------------
(* Mutant: the next page starts after as many rows as were asked for.      *)
TurnAsked(f, asked, offset, passed) ==
  \E page \in Results(f, LimitOf(asked), offset) :
    walk' = [filter |-> f, limit |-> asked, offset |-> offset,
             more |-> Cardinality(page) = LimitOf(asked), shown |-> passed \cup page]

(* ListingsHandler shows limit rows from offset on; there is a Next link   *)
(* when the page is full.                                                  *)
Turn(f, asked, offset, passed) ==
  \E page \in Results(f, LimitOf(asked), offset) :
    walk' = [filter |-> f, limit |-> LimitOf(asked), offset |-> offset,
             more |-> Cardinality(page) = LimitOf(asked), shown |-> passed \cup page]

(* The visitor enters a filter and sees the first page.                    *)
Search(f, asked) ==
  /\ Turn(f, asked, 0, {})
  /\ sure' = Alone(row, Matching(row, f))
  /\ UNCHANGED <<row, job, now, writes, history>>

(* The visitor follows the Next link: the limit of the page, its offset    *)
(* advanced by it.                                                         *)
NextPage ==
  /\ walk.more
  /\ Turn(walk.filter, walk.limit, walk.offset + walk.limit, walk.shown)
  /\ UNCHANGED <<row, job, now, writes, history, sure>>

(* The visitor follows the Prev link of a page that is not the first.      *)
PrevPage ==
  /\ walk.offset > 0
  /\ Turn(walk.filter, walk.limit,
          IF walk.offset < walk.limit THEN 0 ELSE walk.offset - walk.limit, walk.shown)
  /\ UNCHANGED <<row, job, now, writes, history, sure>>

Next ==
  \/ Tick
  \/ \E w \in Writers : \/ \E l \in Listings, page \in Pages : StartUpsert(w, l, page)
                        \/ CreateListing(w) \/ UpdateListing(w) \/ UpdateMissed(w)
                        \/ SaveFails(w)
  \/ \E l \in Listings : StartMissedRun(l)
  \/ \E f \in Filters, n \in Asked : Search(f, n)
  \/ NextPage \/ PrevPage

Spec == Init /\ [][Next]_vars

-----------------------------------------------------------------------------
TypeOK ==
  /\ row \in [Listings -> Row]
  /\ job \in [Writers -> {Idle} \cup Upsert \cup Missed]
  /\ walk \in [filter: Filter, limit: Nat \ {0}, offset: Nat, more: BOOLEAN,
               shown: SUBSET Listings]
  /\ now \in Nat
  /\ writes \in Nat
  /\ said \in [Listings -> [text: SUBSET Phrases, broker: Brokers \cup {NoBroker},
                           attrs: [Attrs -> Words]]]
  /\ lost \in [Listings -> SUBSET Columns]
  /\ sure \subseteq Listings

(* Each column of a row is what the last page to speak of it said, in the  *)
(* order in which the pages are written, whatever the scraper, a backfill  *)
(* and missed runs do at once: only the columns that a writer carries over *)
(* another's write are not.                                                *)
RowSaysLatest ==
  \A l \in Listings : \A c \in Columns \ lost[l] : Column(row[l], c) = Column(said[l], c)

(* The evidence kept with a row is that of the text kept with it, even if  *)
(* both are old, and is coherent: only a text without utilities makes a    *)
(* row both off the grid and powered.                                      *)
EvidenceIsCoherent ==
  \A l \in Listed :
    LET r == row[l] IN
      /\ r.evidence = ExtractAll(r.text)
      /\ r.evidence["off_grid"] = "true" /\ r.evidence["power"] = "true" =>
           "no utilities" \in r.text

(* A visitor who follows the links, to and fro, to the last page has seen  *)
(* every listing that passed the filter all along, whatever is found,      *)
(* rewritten or put among the results meanwhile, and whatever limit he     *)
(* asked for.                                                              *)
(* It excepts listings first seen by the same run, in no fixed order, and  *)
(* those after one that left the results.                                  *)
BrowseShowsAll == ~walk.more => sure \subseteq walk.shown
=============================================================================
