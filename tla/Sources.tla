------------------------------- MODULE Sources -------------------------------
(***************************************************************************)
(* The row of one source in the sources table: its switch and its          *)
(* thresholds, as the forms of the admin page rewrite it                   *)
(* (foundation/web/admin_sources.go) while the runs of the orchestrator    *)
(* obey it.  An update reads the row, fills in what the form holds and     *)
(* writes the whole row back: two database calls without a transaction,    *)
(* for a form built from a page that may be old.  A run reads the row once,*)
(* as it starts.                                                           *)
(*                                                                         *)
(* Thresholds are stored as 32-bit integers; HalfRange is 2^31.  What a    *)
(* run fetches and parses is in Orchestrator: here a run sees the listings *)
(* it discovers in one step, and handles those it misses one by one.       *)
(***************************************************************************)
EXTENDS Integers, FiniteSets

CONSTANTS
  IDs,         \* the source's listing ids
  Users,       \* the browsers that hold an admin page
  FirstRow,    \* what CreateSource was asked for
  Edits,       \* what users do to the form they are shown
  HalfRange,   \* the first number an integer column does not hold
  Faults,      \* the calls that may fail, and "crash"
  MaxForms,    \* bound of the model: number of forms
  MaxRuns,     \* bound of the model: number of runs
  MaxDay       \* bound of the model: the last day

(* The columns of the form.  The rate limit and the concurrency are saved  *)
(* in the same way and read by nobody.  The ratio counts in thousandths.   *)
Columns == {"stale", "inactive", "misses", "ratio"}
Config == [Columns -> Int]
Row == [enabled: BOOLEAN, cfg: Config]

(* A user sets the switch, clears some columns and enters numbers in       *)
(* others; the rest goes back as the page showed it.                       *)
Edit == [enabled: BOOLEAN, cleared: SUBSET Columns, changed: SUBSET Columns,
         entered: Config]

ASSUME SourcesAssumption ==
  /\ IsFiniteSet(IDs)
  /\ FirstRow \in Row
  /\ Edits \subseteq Edit
  /\ HalfRange \in Nat \ {0}
  /\ Faults \subseteq {"latest", "discover", "fetch", "missed", "finish", "save", "crash"}
  /\ {MaxForms, MaxRuns, MaxDay} \subseteq Nat

VARIABLES
  \* the database
  row,       \* the row of the source
  latest,    \* the discovered_count of its latest run
  listing,   \* its listings
  \* the web site
  page,      \* page[u]: the row that u's page shows
  saving,    \* the users whose form has read the row and not written it yet
  post,      \* post[u]: the form u has sent, and the row its update has read
  forms,     \* number of forms sent
  \* the orchestrator
  pc,        \* what the run does next
  runs,      \* number of runs begun
  cfg,       \* the thresholds the run has read
  prior,     \* the count of the run before
  start,     \* the day it began
  disc,      \* the ids it discovered
  toFetch,   \* those it has still to fetch
  missing,   \* the ids it has still to count as missed
  prev,      \* the ids the last complete run discovered
  clock,     \* today
  \* history variables
  asked,     \* what the forms written so far ask for, one after the other
  lost,      \* columns a form left blank while another form was written
  promised   \* the thresholds asked for, and those lost, as the run began

table == <<row, latest, listing>>
web == <<page, saving, post, forms>>
run == <<pc, runs, cfg, prior, start, disc, toFetch, missing, prev>>
history == <<asked, lost, promised>>
vars == <<table, web, run, clock, history>>

(* The status rules under thresholds c, and those without thresholds.      *)
Under(c) == INSTANCE ListingStatus WITH
  StaleDays <- c["stale"], InactiveDays <- c["inactive"], MissThreshold <- c["misses"]
Rules == INSTANCE ListingStatus WITH
  StaleDays <- 0, InactiveDays <- 0, MissThreshold <- 0

NoCount == -1
Form == [enabled: BOOLEAN, given: SUBSET Columns, cfg: Config]
Post == [form: Form, read: Row, raced: BOOLEAN]
NoForm == [enabled |-> FALSE, given |-> {}, cfg |-> FirstRow.cfg]
NoPost == [form |-> NoForm, read |-> FirstRow, raced |-> FALSE]

MayFail(call) == call \in Faults

(* What an integer column keeps of v: the store converts it to int32.      *)
Stored(c, v) ==
  IF c = "ratio" THEN v ELSE ((v + HalfRange) % (2 * HalfRange)) - HalfRange

(* The numbers a browser lets through: the min and max of the inputs.      *)
Accepts(c, v) == IF c = "ratio" THEN v >= 0 /\ v <= 1000 ELSE v >= 1

(* The form after an edit of a page that shows r.                          *)
FormOf(edit, r) ==
  [enabled |-> edit.enabled,
   given   |-> Columns \ edit.cleared,
   cfg     |-> [c \in Columns |-> IF c \in edit.changed THEN edit.entered[c] ELSE r.cfg[c]]]

(* What a form asks for, over what r holds: a column left blank does not   *)
(* parse and keeps its value, the switch is always given.                  *)
Filled(form, r) ==
  [enabled |-> form.enabled,
   cfg     |-> [c \in Columns |-> IF c \in form.given THEN form.cfg[c] ELSE r.cfg[c]]]

(* What the store keeps of r.                                             *)
InColumns(r) == [enabled |-> r.enabled, cfg |-> [c \in Columns |-> Stored(c, r.cfg[c])]]

-----------------------------------------------------------------------------
Init ==
  /\ row = InColumns(FirstRow)
  /\ latest = NoCount
  /\ listing = [i \in IDs |-> Rules!NoListing]
  /\ page = [u \in Users |-> InColumns(FirstRow)]
  /\ saving = {}
  /\ post = [u \in Users |-> NoPost]
  /\ forms = 0
  /\ pc = "idle"
  /\ runs = 0
  /\ cfg = FirstRow.cfg
  /\ prior = NoCount
  /\ start = 0
  /\ disc = {}
  /\ toFetch = {}
  /\ missing = {}
  /\ prev = {}
  /\ clock = 0
  /\ asked = FirstRow
  /\ lost = {}
  /\ promised = [cfg |-> FirstRow.cfg, lost |-> {}]

Tick ==
  /\ clock < MaxDay
  /\ clock' = clock + 1
  /\ UNCHANGED <<table, web, run, history>>

(* AdminSourcesHandler: u loads the page.                                  *)
ShowPage(u) ==
  /\ u \notin saving
  /\ page' = [page EXCEPT ![u] = row]
  /\ UNCHANGED <<table, saving, post, forms, run, clock, history>>

(* AdminSourcesUpdateHandler, its first call: u sends the form and         *)
(* QuerySourceByID reads the row.                                          *)
SendForm(u, edit) ==
  LET form == FormOf(edit, page[u]) IN
    /\ u \notin saving
    /\ forms < MaxForms
    /\ \A c \in form.given : Accepts(c, form.cfg[c])
    /\ saving' = saving \cup {u}
    /\ post' = [post EXCEPT ![u] = [form |-> form, read |-> row, raced |-> FALSE]]
    /\ forms' = forms + 1
    /\ UNCHANGED <<table, page, run, clock, history>>

(* Mutant: the columns left blank take the values of the page.             *)
UpdateSourceFromPage(u) ==
  /\ u \in saving
  /\ row' = InColumns(Filled(post[u].form, page[u]))
  /\ saving' = saving \ {u}
  /\ post' = [v \in Users |-> IF v = u THEN NoPost
                              ELSE IF v \in saving THEN [post[v] EXCEPT !.raced = TRUE]
                              ELSE post[v]]
  /\ asked' = Filled(post[u].form, asked)
  /\ lost' = (lost \ post[u].form.given)
               \cup (IF post[u].raced THEN Columns \ post[u].form.given ELSE {})
  /\ UNCHANGED <<latest, listing, page, forms, run, clock, promised>>

(* The second call: UpdateSource writes every column of the row.           *)
UpdateSource(u) ==
  /\ u \in saving
  /\ row' = InColumns(Filled(post[u].form, post[u].read))
  /\ saving' = saving \ {u}
  /\ post' = [v \in Users |-> IF v = u THEN NoPost
                              ELSE IF v \in saving THEN [post[v] EXCEPT !.raced = TRUE]
                              ELSE post[v]]
  /\ asked' = Filled(post[u].form, asked)
  /\ lost' = (lost \ post[u].form.given)
               \cup (IF post[u].raced THEN Columns \ post[u].form.given ELSE {})
  /\ UNCHANGED <<latest, listing, page, forms, run, clock, promised>>

UpdateFails(u) ==
  /\ u \in saving
  /\ MayFail("save")
  /\ saving' = saving \ {u}
  /\ post' = [post EXCEPT ![u] = NoPost]
  /\ UNCHANGED <<table, page, forms, run, clock, history>>

(* RunOnce reads the row, then the count of the run before (a failed query *)
(* looks like no run), and inserts its own run without a count.            *)
StartRun ==
  /\ pc = "idle"
  /\ runs < MaxRuns
  /\ row.enabled
  /\ cfg' = row.cfg
  /\ prior' = latest \/ (MayFail("latest") /\ prior' = NoCount)
  /\ latest' = NoCount
  /\ start' = clock
  /\ runs' = runs + 1
  /\ pc' = "discover"
  /\ promised' = [cfg |-> asked.cfg, lost |-> lost]
  /\ UNCHANGED <<row, listing, web, disc, toFetch, missing, prev, clock, asked, lost>>

(* FinishRun stores the count, or fails with a warning.                    *)
FinishRun(n) ==
  /\ latest' = n \/ (MayFail("finish") /\ UNCHANGED latest)
  /\ pc' = "idle"
  /\ disc' = {}
  /\ toFetch' = {}
  /\ missing' = {}
  /\ UNCHANGED <<row, web, runs, cfg, prior, start, clock, history>>

DiscoverFails ==
  /\ pc = "discover"
  /\ MayFail("discover")
  /\ FinishRun(0)
  /\ UNCHANGED <<listing, prev>>

(* Mutant: the diff not taken.                                             *)
DiscoverMissesAll(found) ==
  /\ pc = "discover"
  /\ disc' = found
  /\ toFetch' = found
  /\ missing' = prev
  /\ pc' = "fetch"
  /\ UNCHANGED <<table, web, runs, cfg, prior, start, prev, clock, history>>

(* The run discovers the ids in found, old and new.                        *)
Discover(found) ==
  /\ pc = "discover"
  /\ disc' = found
  /\ toFetch' = found
  /\ missing' = prev \ found
  /\ pc' = "fetch"
  /\ UNCHANGED <<table, web, runs, cfg, prior, start, prev, clock, history>>

(* A discovered page is fetched and its listing upserted, or it is fresh   *)
(* enough, already stored, or a call fails.                                *)
Fetch(i) ==
  /\ pc = "fetch"
  /\ i \in toFetch
  /\ toFetch' = toFetch \ {i}
  /\ \/ listing' = [listing EXCEPT ![i] = Rules!Upserted(@, "listed", start)]
     \/ MayFail("fetch") /\ UNCHANGED listing
  /\ UNCHANGED <<row, latest, web, pc, runs, cfg, prior, start, disc, missing, prev, clock,
                 history>>

Healthy == prior <= 0 \/ Cardinality(disc) * 1000 >= cfg["ratio"] * prior

(* Mutant: the handler looks the thresholds up again.                      *)
MissedRunRereads(i) ==
  /\ pc = "fetch" /\ toFetch = {}
  /\ i \in missing
  /\ missing' = missing \ {i}
  /\ \/ /\ Rules!IsListed(listing[i])
        /\ listing' = [listing EXCEPT ![i] = Under(row.cfg)!Missed(@, Healthy, start)]
     \/ /\ ~Rules!IsListed(listing[i]) \/ MayFail("missed")
        /\ UNCHANGED listing
  /\ UNCHANGED <<row, latest, web, pc, runs, cfg, prior, start, disc, toFetch, prev, clock,
                 history>>

(* Mutant: an id without a row is not left out.                            *)
MissedRunUnseen(i) ==
  /\ pc = "fetch" /\ toFetch = {}
  /\ i \in missing
  /\ missing' = missing \ {i}
  /\ listing' = [listing EXCEPT ![i] = Under(cfg)!Missed(@, Healthy, start)]
  /\ UNCHANGED <<row, latest, web, pc, runs, cfg, prior, start, disc, toFetch, prev, clock,
                 history>>

(* The missed-run handler applies the thresholds the run has read to a     *)
(* listing that has a row, or fails with a warning.                        *)
MissedRun(i) ==
  /\ pc = "fetch" /\ toFetch = {}
  /\ i \in missing
  /\ missing' = missing \ {i}
  /\ \/ /\ Rules!IsListed(listing[i])
        /\ listing' = [listing EXCEPT ![i] = Under(cfg)!Missed(@, Healthy, start)]
     \/ /\ ~Rules!IsListed(listing[i]) \/ MayFail("missed")
        /\ UNCHANGED listing
  /\ UNCHANGED <<row, latest, web, pc, runs, cfg, prior, start, disc, toFetch, prev, clock,
                 history>>

RunEnds ==
  /\ pc = "fetch" /\ toFetch = {}
  /\ missing = {}
  /\ prev' = disc
  /\ FinishRun(Cardinality(disc))
  /\ UNCHANGED listing

(* The scraper stops, in a run or between two; its run keeps no count.     *)
Restart ==
  /\ MayFail("crash")
  /\ pc' = "idle"
  /\ prev' = {}
  /\ disc' = {}
  /\ toFetch' = {}
  /\ missing' = {}
  /\ UNCHANGED <<table, web, runs, cfg, prior, start, clock, history>>

Next ==
  \/ Tick
  \/ \E u \in Users : ShowPage(u) \/ UpdateSource(u) \/ UpdateFails(u)
                        \/ \E edit \in Edits : SendForm(u, edit)
  \/ StartRun \/ DiscoverFails \/ RunEnds \/ Restart
  \/ \E found \in SUBSET IDs : Discover(found)
  \/ \E i \in IDs : Fetch(i) \/ MissedRun(i)

Spec == Init /\ [][Next]_vars

-----------------------------------------------------------------------------
TypeOK ==
  /\ row \in Row
  /\ latest \in Int
  /\ listing \in [IDs -> Rules!Listing]
  /\ page \in [Users -> Row]
  /\ saving \subseteq Users
  /\ post \in [Users -> Post]
  /\ forms \in Nat
  /\ pc \in {"idle", "discover", "fetch"}
  /\ runs \in Nat
  /\ cfg \in Config
  /\ prior \in Int
  /\ start \in Nat /\ start <= clock
  /\ disc \subseteq IDs /\ toFetch \subseteq disc /\ missing \subseteq IDs \ disc
  /\ prev \subseteq IDs
  /\ clock \in Nat
  /\ asked \in Row
  /\ lost \subseteq Columns
  /\ promised \in [cfg: Config, lost: SUBSET Columns]

(* The row is what its forms ask for, one after the other in the order in  *)
(* which they are written, however the updates overlap: the columns a form *)
(* leaves blank while another form is written are the only ones to differ, *)
(* and the switch never does.                                              *)
FormsWin ==
  /\ row.enabled = asked.enabled
  /\ \A c \in Columns \ lost : row.cfg[c] = Stored(c, asked.cfg[c])

Obeys(c, n) ==
  \/ c \in promised.lost
  \/ promised.cfg[c] >= HalfRange
  \/ n >= promised.cfg[c]

(* A listing fades only as the thresholds say that users asked for before  *)
(* the run began, all of them, whatever is saved while it runs: missed     *)
(* often enough since it was last upserted, that long enough ago, by a run *)
(* that found enough.  It excepts a threshold too large for its column,    *)
(* which turns negative.  How misses and last_seen_at relate to what the   *)
(* site shows is the matter of Presence.                                   *)
FadingObeysForms ==
  [][\A i \in IDs :
       LET old == listing[i]  new == listing'[i]  absent == start - old.lastSeen
       IN  new.status # old.status /\ new.status \in Rules!Gone =>
             /\ Obeys("misses", new.misses)
             /\ Obeys(IF new.status = "stale" THEN "stale" ELSE "inactive", absent)
             /\ \/ prior <= 0 \/ "ratio" \in promised.lost
                \/ Cardinality(disc) * 1000 >= promised.cfg["ratio"] * prior]_vars

(* However the thresholds change, and in whatever order they end up, the   *)
(* statuses follow the lifecycle the documents promise.                    *)
L == INSTANCE Lifecycle WITH
  status <- [i \in IDs |-> listing[i].status],
  missed <- {i \in IDs : listing[i].misses > 0}
FollowsLifecycle == L!Spec
=============================================================================
