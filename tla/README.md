# land-trakker: verification project

land-trakker collects land listings from brokers' sites, keeps their history in PostgreSQL, and shows saved
searches, price drops and possible duplicates on a small web site. This directory holds TLA+ models of its core
logic, TLC configurations that check them on small instances, and proofs that the TLA+ proof system checks for
every value of the constants. Paths below are relative to the repository; file:line references are to `src/`.

Contents: [the system](#1-the-system) · [the modules](#2-the-modules) · [the runs](#3-the-runs) ·
[the proofs](#4-the-proofs) · [where documents and code differ](#5-where-documents-and-code-differ) ·
[not modelled](#6-what-is-not-modelled) · [plan](#7-plan) · [running it](#8-running-it)

## 1. The system

### 1.1 Components

| Component | Code | State | Operations that change it | What makes it correct |
|---|---|---|---|---|
| Scrape orchestrator | `foundation/scraper/orchestrator.go`, `diff.go` | `prevDiscovered`, in memory only | `RunOnce`: discover, diff, fetch, store, parse, upsert, record the attempt, count the missed, finish the run row | a listing fades only in a run that passes the gate and is the first without it, after it vanished often enough and its page was not taken in long enough; a run's row adds up; what was parsed is not lost |
| Listing bus | `business/sdk/listingbus/listingbus.go` | `listings`, `listing_snapshots`, `price_changes`, `parse_attempts` | `UpsertFromParsed`, `ApplyMissedRun`, `RecordParseAttempt` | statuses follow the lifecycle; every price move is recorded once and is real |
| Backfill | `cmd/backfill/main.go` | none of its own; writes the listing bus' tables | `runBackfill` over the eligible raw fetches | it ends, settles what its parser accepts, and does no harm beside a scraper |
| Source bus and store | `business/sdk/sourcebus`, `storage/sourcedb` | `sources`, `scrape_runs`, `raw_fetches` | `StartRun`, `FinishRun`, `CreateRawFetch`, `UpdateSource` | one row per run; a body is stored once |
| Saved searches | `business/sdk/searchbus`, `storage/searchdb`, `foundation/web/searches.go` | `saved_searches`, `search_hits` | create, edit, delete, `EvaluateAll` | a hit tells the truth; what matches all along is reported |
| Daily digest | `foundation/web/digest.go` | `search_hits.seen` | mark what the page showed as seen | nothing is marked that was not shown |
| Geocoding | `foundation/geocode` | `geocode_cache`, the daily counter (in memory) | `CachingGeocoder.Geocode`, `ResetDailyCount` | the daily limit is neither passed nor undershot |
| Duplicates | `business/sdk/listingbus/dedup.go`, `foundation/web/duplicates.go` | `possible_duplicates` | `RunDedup`, the user's decision | alike pairs reach the queue; a decision stands |
| Rate limiter | `foundation/scraper/rate_limiter.go` | one mutex and one `lastFetchTime` per wrapped scraper | `Fetch` with its sleeps and retries | requests to a site are spaced, one at a time, bounded; every call returns |
| Log capture | `foundation/web/logs.go` | a circular buffer | `Handle`; `Recent` and `Filter` read | a page shows the latest records in order |
| Source administration | `foundation/web/admin_sources.go` | `sources` | one form that reads and writes the whole row | no form undoes another's; a run obeys what was asked for before it began |
| Attribute extraction | `foundation/attrs`, `applyAttributeExtraction` | the `attr_*` columns and the evidence | pure extractors, merged into the row by every upsert | the row says what the last page to speak of it said; evidence and text agree |
| Listing pages | `foundation/web/listings.go` | none; the browser's offset and limit | reads | who follows the links sees every listing that kept its place |
| Page parser, health dashboard | `foundation/parser`, `foundation/web/health*.go` | none | text functions, reads | – |
| Session, configuration, commands | `foundation/web/auth.go`, `session.go`, `foundation/config`, `cmd/*` | none over time | – | – |

`PROJECT.json` lists every component with its status, and every hazard at its line.

### 1.2 How they interact

- The scheduler calls `RunOnce` per source. The orchestrator asks its `Scraper` (possibly wrapped in a
  `RateLimiter`) for ids, pages and parsed listings; it writes run rows and raw fetches through the source bus, and
  hands parsed pages and missed ids to callbacks that lead to the listing bus.
- The backfill parses stored raw fetches again and writes through the same `UpsertFromParsed`, in another process.
- `UpsertFromParsed` asks the `CachingGeocoder`; upserts of different listings share its cache and counter.
- The admin page rewrites the source row, thresholds and switch, that the next run reads once as it begins.
- Visitors page through the listings that upserts, missed runs and backfills rewrite, each page a query of its own.
- `EvaluateAll` and `RunDedup` read the listings that upserts rewrite at the same time, and write hits and pairs; the
  user edits the searches, reads the digest and decides about pairs through the web site.
- Shared state is the database. There are no transactions around more than one statement, so every component is a
  sequence of single calls, each of which may fail and between any two of which others may act or the process may
  stop. `prevDiscovered`, the geocoder's counter, the limiter's clock and the log buffer live in memory.

### 1.3 What is hard here

- **Sequences of runs**: a listing's fate is decided over several runs, by state kept half in memory
  (`prevDiscovered`) and half in the database (`consecutive_misses`, `last_seen_at`, the newest run's count).
- **Failures in the middle**: an upsert is up to five calls; `FinishRun` is deferred; warnings swallow errors.
- **Two writers of one history**: scraper and backfill read the row and the newest snapshot, and write later.
- **Whole rows written back**: upserts, missed runs and admin forms read a row and later write every column of it.
- **Columns that outlive their text**: an attribute stays when the page no longer speaks of it, the evidence does not.
- **Paging over moving rows**: `EvaluateAll` and the search page use LIMIT and OFFSET while rows come, leave and tie.
- **A counter that is checked apart from its use**: add, compare, give back; midnight and restarts in between.
- **Old pages in a browser**: a digest or a review page acts on what it showed, not on what is there now.
- **A lock held through sleeps**: all fetches of a source queue behind one call's back-off.

## 2. The modules

Each component module has one action per operation or call, `TypeOK`, its properties, and next to some definitions a
*mutant*: the same definition with a plausible bug, which a run must detect. `MC…` modules give instances for TLC;
`…Proofs` modules hold theorems.

```
ListingStatus <-- Orchestrator <-- Presence       Places <-- Duplicates      Searches
   ^     ^             |       ^-- Absence
   |     |             |  implements
   |     |         Lifecycle                      Attributes <-- Catalog
   |     |             |  implements
   |     +-------- Sources                        RateLimiter --implements--> Politeness
   +-------------- History --implements--> PriceHistory
                                                  LogCapture  --implements--> RecentLog
```

| Module | Models | State and actions |
|---|---|---|
| `ListingStatus` | the status rules of `listingbus.go`: `derivedStatus`, what `UpsertFromParsed` and `ApplyMissedRun` write | operators only; a row is status, misses, last seen |
| `Lifecycle` | *abstract*: how the status of a listing may move, and that only a listing that missed a run fades | `status`, `missed` |
| `Orchestrator` | `RunOnce` for one source | `pc` is the call `RunOnce` makes next; `lastRun`, `raw`, `fetched`, `snaps`, `listing` are the tables; `prev` is `prevDiscovered`. `StartRun`, `Discover`, `Fetch`, `StoreRawFetch`, `Upsert`, `RecordSuccess`, `MissedRun`, `RunEnds`, the failure of each, `Restart`, `ToggleEnabled` |
| `Presence` | `Orchestrator` with history variables that follow the site, not the row | `present`: what the latest complete run discovered; `vanished[i]`: how often `i` has vanished since its page was taken in; `takenIn[i]`: when that was |
| `Absence` | `Orchestrator` with a history variable | how many healthy runs in a row missed a listing |
| `History` | `UpsertFromParsed` taken apart into its calls, for one listing, by scraper and backfill at once | `pc[w]`, `job[w]` (what process `w` has read), `snaps`, `changes`, `attempts`, the parser `version`; `calm` chooses between a history without failures and overlaps and any other |
| `PriceHistory` | *abstract*: prices shown and moves derived, only ever appended | `prices`, `moves` |
| `Sources` | the source row under the admin forms of several users, and runs that obey it (what a run fetches is in `Orchestrator`; here it discovers in one step and judges the missed one by one) | `row`, `latest`, `listing` are the tables; `page[u]`, `post[u]` a browser's page and its update between read and write; `cfg` the thresholds a run has read. `ShowPage`, `SendForm`, `UpdateSource`, `StartRun`, `Discover`, `MissedRun`, failures, `Restart`. `asked`, `lost`, `promised` are history variables |
| `Attributes` | the seven extractors of `attrs.go` over texts | operators only; a text is a set of phrases, a pattern the set of phrases it matches |
| `Catalog` | what a row says, under upserts, missed runs and backfills, and the visitor of the search page | `row`, `job[w]` (a writer between read and write), `walk` (filter, limit, offset, what was shown). `StartUpsert`, `CreateListing`, `UpdateListing`, `UpdateMissed`, `Search`, `NextPage`, `PrevPage`. `said`, `lost`, `sure` are history variables |
| `Searches` | `EvaluateAll`, the searches' forms, the digest | the evaluation's `todo`, `offset`, `page`; `hits`, `seen`; `shown` is the page in the browser. `steady`, `skipped` (what LIMIT and OFFSET may pass over), `warned` are history variables |
| `Places` | `CachingGeocoder` under concurrent upserts | `job[l]` is the step of the upsert of `l`; `used` is `dailyUsed`; `calls`, `carried` are history variables |
| `Duplicates` | `RunDedup` and the review queue, beside `Places` | `looks`, `pairs`, `dedup` (the scored pairs a run has still to write) |
| `Politeness` | *abstract*: what a site sees of the rate limiter: permits an interval apart, requests one at a time and few per permit | `quiet`, `allowed`, `busy` |
| `RateLimiter` | `RateLimiter.Fetch` line by line, called by several goroutines | `pc[w]`, `mutex`, `since` (age of `lastFetchTime`), `wait`, `attempt` |
| `RecentLog` | *abstract*: the sequence of the latest records and what a page shows of it | `recent`, `page` |
| `LogCapture` | the circular buffer | `entries`, `pos`, `filled`, `page` |

### 2.1 Abstractions

- A listing is an id; a page body is a value with the status it reports (`Report`) and, in `History`, its price
  (`PriceOf`). The other fields of a page change nothing the properties see.
- Thresholds, TTL and ratio are constants in `Orchestrator`; in `Sources` they are columns that forms rewrite, 32 bits
  wide (`HalfRange` is 2^31), the ratio in thousandths as `numeric(4,3)` keeps it.
- A text is the set of the phrases it holds. The phrases are chosen so that every two patterns of `attrs.go` are told
  apart, with those that match more than they mean ("unpaved road", "ponderosas").
- In `Catalog` a broker stands for every field that a page without it leaves in place, the text for those it replaces.
- `Places` takes the upserts of one listing one at a time; two writers of one row are in `Catalog` and `History`.
- `Discover` returns a *set* of ids. The code keeps lists (`orchestrator.go:123`, `diff.go:24`): an id the site returns
  twice is fetched twice when new and counted twice, and doubled in `prevDiscovered` it is handed twice to the
  missed-run handler (`orchestrator.go:209`), so one run adds two misses. Everything about misses, `FadingIsEarned`
  first, assumes that the site returns an id once.
- `Places` has one counter. The code has one per `CachingGeocoder`, in memory (`cache.go:22`): a scraper and a backfill
  are two processes, each with a counter of its own, and together may make twice `Limit` calls. `QuotaKept` is about
  one process.
- A filter is the set of the listings that pass it; `passes` changes with every update of a row.
- Distances (`haversineKM`), shared words (`titleJaccard`, `brokerSimilar`) are relations given as constants; prices
  and acres are numbers, because `ScorePair` divides by the first of the two.
- A point is the address it was found for and how (provider or county centroid).
- Time: days in `Orchestrator`, run numbers in `History`, `Day` units in `Searches`, units of the back-off's base in
  `RateLimiter`. All calls of one run use the run's own time where the code does (`start`, `at`).
- A failed call has no effect. That a database may take a write and report an error is not modelled.
- A `RWMutex` section is one step in `LogCapture`; in `RateLimiter` the lock's section is many steps, since
  sleeping and fetching under the lock is the point.

## 3. The runs

| Run | Asks | Instance | Result |
|---|---|---|---|
| `orch_safety` | `TypeOK`, `ParsedStaysSeen`, `RunRowAddsUp`, `FadingIsEarned` | `Presence`; 2 listings, miss threshold 2, ages of 1 day, ratio 1/2, every failure, 4 runs, 2 days, symmetry | holds (about 1.5 million states) |
| `orch_lifecycle` | `AttemptsMatchSnapshots`, `RowsAreConsistent`, `FollowsLifecycle`, `RunsEnd` | 1 listing, 4 bodies (one reporting a sale, one garbled), miss threshold 2, inactive after 2 days, every failure, 4 runs, 3 days | holds (about 1.2 million states) |
| `orch_gate` | `GateUsesLastDiscovery` | 3 listings, `Discover` may fail, 3 runs | violated |
| `orch_reappear` | `ReappearedIsActive` | 2 listings, no failure, 3 runs | violated |
| `absence_fade` | `AbsentListingsFade` | 2 listings, miss threshold 2, no failure, 3 runs | violated |
| `history` | `TypeOK`, `ChangesAreReal`, `SuccessHasSnapshot`, `PriceMovesRecorded`, `RowShowsNewestSnapshot`, `BackfillSettles`, `FollowsPriceHistory`, `BackfillsEnd` | 3 pages (a price, none, another), 2 parser versions; either 6 runs, one process at a time and no failure, or 3 runs at once, every call may fail and either process may stop | holds (about 213,000 states) |
| `searches_evaluation` | `TypeOK`, `HitsAreEarned`, `DueAreReported`, `OnlyShownAreMarked`, `EvaluationsEnd` | 2 listings, 1 search, days of 2 units, 3 moments, pages of 1 row, a digest of 1 hit, failing database, at most 2 rows, 2 events, 1 edit, digests until a hit is seen | holds (about 1.1 million states) |
| `duplicates_review` | `TypeOK`, `QuotaKept`, `RefusedAtLimitOnly`, `PointsAreOfTheAddress`, `DuplicatesAreFound`, `DecisionsStand` | 2 listings of two sources, 2 addresses in two counties, limit 1, every failure, 3 upserts, 2 midnights or restarts | holds (about 2.7 million states) |
| `rate_limiter` | `TypeOK`, `StaysPolite`, `CallsReturn` | 3 goroutines, interval 3, jitter up to 2, unbounded | holds |
| `log_capture` | `TypeOK`, `ShowsRecentLog` | 4 entries, 2 texts and the blank one, 2 queries, limits below and above the capacity, unbounded | holds |
| `sources_admin` | `TypeOK`, `FormsWin`, `FadingObeysForms`, `FollowsLifecycle` | 2 listings, 2 users, 4 edits (switch off, swap the ages, leave a column blank, a number too large), 2 forms, 2 runs, 2 days, failures and restarts, symmetry | holds (about 1 million states) |
| `catalog` | `TypeOK`, `RowSaysLatest`, `EvidenceIsCoherent`, `BrowseShowsAll` | 3 listings, 3 pages, a scraper and a backfill, 3 writes, failing writes, 2 filters, limits 0 and 3 asked for with pages of 1 and at most 2 rows, symmetry | holds (about 205,000 states) |

### 3.1 Why the bounds are enough

- Orchestrator: to go wrong with one listing takes one run that finds it, runs that miss it up to the threshold and one
  that finds it again: four runs with a threshold of two, days enough to cross both ages. As each disappearance is
  counted once, four runs are also what two misses take: found, gone, found again with a fresh or a known page, gone;
  `orch_safety` fades a listing that way and no other. Two listings let the
  health gate and a miss meet in one run, and make the counts of the run row differ. Each failure can strike every call.
- History: three pages with a price, none and another give a move, a price that is cleared, and a page the older parser
  rejects. Three runs of two processes are enough for each to have read before the other wrote, and once more; the calm
  histories have six, so that three pages, a missed run and two backfills fit (`MaxRough`, `MaxCalm`).
- Sources: two forms overlap in every way, from pages of different age; one blank column and one entered by each is
  what one may undo. `HalfRange = 4` makes a threshold of 4 wrap. Two runs are one that finds and one that misses, with
  forms before, between and during.
- Catalog: two writers and a third write after them show a column carried over another's write and given anew. Three
  listings on pages of one and two rows make a walk with two links, while a row is created, changes its attribute or
  leaves in front of or behind the visitor.
- Searches: pages of one row make two listings cross a page boundary; one event before and one during an evaluation
  is what makes a row come, leave or tie; `DigestLimit = 1` leaves hits unseen on a full page. `MaxRows = 2` is reached
  when both rows match, and an empty last page is read when one does; that no row
  before the cap is lost is in the theorem for any cap. With days of two units (`Day = 2`) and three moments a price may
  drop before an evaluation and within its day, so that the drop is owed, and the day of a hit is truncated;
  two listings may be first seen at one moment or at two.
- Duplicates: limit 1 with two upserts is the smallest case in which one counts while another gives back; the third
  upsert comes after a midnight or restart. Looks are chosen so that acres and price are close one way round only.
- RateLimiter: three callers have one hold the lock and two compete for it. The interval exceeds the longest back-off,
  and the jitter is smaller than the interval and not zero. Nothing is cut off: time is counted up to what matters.
- LogCapture: four entries hold both halves of the buffer and a wrap; the buffer wraps any number of times.

`MaxDay`, `MaxRuns`, `MaxCalm`, `MaxRough`, `MaxTime`, `MaxResets`, `MaxUpserts`, `MaxWrites`, `MaxForms`, `MaxEdits`, `MaxEvents` and `MaxSeen` (the
hits seen when a digest is opened) bound the exploration and occur
only in the guards of environment actions (a new run, day, midnight, edit, visit); `MaxRows` is the code's own `evalMaxRows`.
`CHECK_DEADLOCK FALSE` stands in the configurations of `History`, `Sources`, `Catalog` and `Searches`: a source that is
switched off, a catalogue or a user without an enabled search may stop once runs, forms, writes, edits and time are used up.

### 3.2 Fairness

| Property | Assumes | Because |
|---|---|---|
| `RunsEnd` | WF of `RunStep` | `RunOnce` is a sequential loop; each call returns, well or with an error. Restarts may still cut it |
| `BackfillsEnd` | WF of `BackfillStep` | the same of `runBackfill`. Nothing is assumed of the scraper beside it |
| `EvaluationsEnd` | WF of `EvaluationStep` | the same of `EvaluateAll`; listings may come at any time |
| `CallsReturn` | WF of `Tick` and of `Fetch(w)`, SF of `Lock(w)` | time passes; a goroutine that holds the lock is scheduled and its requests are answered; Go's mutex hands itself to a goroutine that has waited too long (its starvation mode), so a caller is not passed over for ever |

Nothing is assumed of the scheduler, of the user, of a site or of a caller who has not called.

## 4. The proofs

Every theorem holds for all values of the constants that satisfy the modules' named assumptions
(`ThresholdsAssumption`, `OrchestratorAssumption`, `HistoryAssumption`, `PlacesAssumption`, `DuplicatesAssumption`,
`RateLimiterAssumption`, `LogCaptureAssumption`, `SourcesAssumption`, `CatalogAssumption`, `SearchesAssumption`), which
say no more than types, that ids are finite where they are counted, and that a page of results has room for a row. Any
number of listings, bodies, pages, searches, runs, goroutines and failures is covered. With them every safety and action
property and every refinement that a passing run checks is proved.

| Module | Theorem | Says |
|---|---|---|
| `OrchestratorProofs` | `TypeCorrect`, `ParsedCorrect`, `RunRowCorrect`, `AttemptsCorrect`, `RowsCorrect` | the safety properties of the runs `orch_safety` and `orch_lifecycle` |
| | `FadingCorrect` | `PresenceSpec => FadingIsEarned`: what the site had shown when a listing fades |
| | `LifecycleCorrect` | `Spec => L!Spec`: the pipeline implements the lifecycle |
| `HistoryProofs` | `TypeCorrect`, `ChangesCorrect`, `SuccessCorrect` | the safety properties of `history` that hold of any history |
| | `HistoryGrows` | `Spec => H!Spec`: any history implements the price history that only grows |
| | `MovesCorrect`, `PricesCorrect`, `SettlesCorrect` | the properties of calm histories |
| `DuplicatesProofs` | `TypeCorrect`, `QuotaCorrect`, `RefusalCorrect`, `PointsCorrect`, `DuplicatesCorrect`, `DecisionsCorrect` | every property of `duplicates_review` |
| | `GeocodingComposes` | `Spec => PlacesSpec`: what holds of the geocoder alone holds beside `RunDedup` |
| `LogCaptureProofs` | `TypeCorrect`, `RecentLogCorrect` | the buffer implements the sequence of the latest records |
| `RateLimiterProofs` | `TypeCorrect`, `PolitenessCorrect` | the limiter implements the politeness towards a site |
| `SourcesProofs` | `TypeCorrect`, `FormsCorrect`, `FadingCorrect` | the safety properties of `sources_admin` |
| | `LifecycleCorrect` | `Spec => L!Spec`: whatever the thresholds become, the statuses implement the lifecycle |
| `CatalogProofs` | `TypeCorrect`, `RowsCorrect`, `EvidenceCorrect`, `BrowsingCorrect` | the properties of `catalog` |
| `SearchesProofs` | `TypeCorrect`, `HitsCorrect`, `ReportingCorrect`, `MarkingCorrect` | the safety properties of `searches_evaluation` |

### 4.1 The arguments

**Orchestrator.** `TypeOK` is inductive. The other invariants are not, for they leave out what the loop is doing.
`LoopInv` says where the loop is: nothing is counted before it, nothing is left to fetch after it, the ids handed to
the missed-run handler lie in `prev \ disc`, and `start` is not after the clock. `CountInv` says how refs are counted:
each is still to fetch, current, parsed or failed, and never two of these. `RunRowAddsUp` then follows from the
cardinalities of finite sets (hence `IsFiniteSet(IDs)`). `AttemptInv` adds to `AttemptsMatchSnapshots` what the body in
hand has behind it: unparsed and without a snapshot before its upsert, unparsed with one after it. `RowInv` adds to
`RowsAreConsistent` that an id without a row has no misses. `ParsedStaysSeen` rests on the missed ids being outside
`disc`. `FadingIsEarned` is an action property over `Presence`, whose history variables see the site and not the row. The
guard of `ApplyMissedRun` reads the counter and the date of the row, so the property needs `PresenceInv`: the counter is at
most the number of disappearances seen since a page was last taken in, one less while the handler has still to be
told of one; the date is that of the run that took it in; and `prevDiscovered` lies in what the latest complete run
discovered (it is empty after a restart). `TakenIn` and `OtherSteps` say how steps move these, `ListingSteps` which
steps write a row, and `MissedRow` what a miss does to it. The refinement maps the statuses and the set of ids with misses; each step is an `Appear`, `Seen`,
`Close`, `Miss` or `Fade`, or a stutter.

**History.** `ChangesAreReal` speaks of what is written; the danger is in what a process has read before. `ReadInv`
says that what a job holds is still there: its snapshot `seen` exists, as snapshots are only appended, so no other
process can change the price it compares with. `MineInv` says that, between its snapshot and its attempt, `mine` is
the snapshot the process wrote for its page. `DueInv` says of a process about to write a change that it has seen an
earlier snapshot with another known price, that no change refers to its own snapshot yet, and that the other process
is not about to write one for the same. `OtherSteps` and `OtherKeeps` show that a step of one process disturbs none of
this for the other. Nothing about the order of `captured_at` is needed, which is why the property holds although the
"previous" snapshot may be a wrong one.

The same facts give the refinement (`ShowsPrice`, `DerivesMove`): a step appends a snapshot, or derives the first move of
one from a price shown before it, or stutters; this is the append-only history of `PLAN.md:324`.

*Calm histories* need just that order. `AloneInv`: at most one process is not at rest, and its run is the latest.
Hence what it has read is still so (`CurrentInv`), what is stored is older than the next run (`DatedInv`), and a new
snapshot is the newest or shares its date with others of its own backfill (`NewSnapshot`). `ShownInv` keeps the row's
price that of a newest snapshot but between an upsert's write of the row and of its snapshot. A move is recorded
because the previous snapshot that the process picked is a newest one; the property asks for the only newest, since
among several the pick is arbitrary (`MovesNext`). `SettledInv` sorts the pages of a backfill under way: still before
it, without an attempt of this run; or behind it, and then, if still eligible, rejected by its parser. That a new
attempt is the only latest one of its page (`Recorded`) carries it through a step; the end of the loop has nothing
before it.

**Places and Duplicates.** The strengthening (`CountInv`, for a limit above 0) is the equation
`used + carried = calls + Calling + Returning`: every unit of the counter stands for a call made, a call under way, or a
refusal not yet given back, less what a midnight or restart made it miss; with two bounds: `calls + Calling` stays
within `Limit + carried` (which is `QuotaKept`), and there are more refusals pending than were carried over only if
the calls made and under way have reached the limit. The last one makes `RefusedAtLimitOnly` inductive: a refusal
may be caused by other refusals under way, but those found the limit reached. `CountsMove` says how the cardinalities change
when one job moves; `StepOfPlaces` gives the composition theorem, through which the two results carry over to
`Duplicates`. `DecisionsStand` follows step by step: `UpsertPair` is the only step that rewrites a pair a user decided
about, and it keeps the decision. `PointsAreOfTheAddress` needs only that what the cache and a job hold for an address
was found for it: the cache is keyed by it (`TypeOK` says so of `cache` and `job`). `DuplicatesAreFound` speaks of the
end of a run: the invariant says of every alike pair of the run's start, before that, that it is still to be written, is
in the queue, has had a row rewritten since, or its write failed.

**Sources.** `ReadInv`: an update between its read and its write holds the row as it is, or has been raced. `FormsWin`
then survives the write: an unraced update writes what it was asked over what all forms before it asked, and a raced
one differs only in columns it left blank, which become `lost`. `PromiseInv` carries `FormsWin` into the run: what the
run has read is, column for column, what was asked for at its start. `ObeysColumn` says what the 32-bit conversion
does to a threshold that fits. `RowInv` (`lastSeen` not after `start`) makes absence a number of days. Fading is
then a case split over `MissedRun`; the refinement repeats `Orchestrator`'s with thresholds that vary.

**Catalog.** `JobInv`: a job holds the row as it is or has been raced, a row once created stays, and the evidence a job
holds is that of the text it holds. So a writer always writes text and evidence that belong together, also when it
undoes another's write (`EvidenceIsCoherent`), and a column differs from what was said last only if carried over
another's write (`RowSaysLatest`). `Coherence` is the finite argument over the patterns. Browsing: `WalkInv` says that a
listing that must be seen and has not been is *alone* at its moment and has at least `offset + limit` rows ahead of it.
`Position`: its place in every admissible order is one more than the rows ahead. `FullPage`: with that many rows ahead
the page is full, hence there is a Next link. `TurnShows`: the next page shows it or leaves it that far behind.
`WriteWalks`: a write in the middle moves no row ahead of it away without taking it out of `sure`.

**Searches.** A hit is recorded at `at` for what happened after `at - Day`; `DayStart` turns this into a bound on the
hit's own day, which is all a hit still says. First sightings and price drops are never taken back (`Kept`), and a
search that loses its row loses its hits. `DueAreReported` needs two invariants. `EvalInv`: the searches in hand are
those of the pairs being followed (`steady`), and nothing was first seen later than now. `PagingInv`: a pair that was not
`skipped`, with fewer than `MaxRows` rows before its own, is reported or logged, or its search is
still to come, or the row is on the page, or the page is full (or not read yet) and the rows before it fill the pages
read so far. Rows before it are only added (`Carried`: one that leaves skips those behind it unless their search is still
to come; what is found now comes before it or beside it), so an offset never passes it.
`Position`: in every order the database may pick, the row comes after the rows before it and within those beside it
(first seen at the same moment). So a page that does not end among them holds the row or leaves all of them to a later
page (`PageFacts`, `PagingQuery`); where a page ends, the cap is not reached while the row is still ahead
(`PagingLoop`). The evaluation may record a drop after `at` or not; `Reported` owes those before it.

**RateLimiter.** `MutexInv`: who is past its first line holds the mutex. `CallInv`: a sleep lasts until the interval is
over, a date is set after it, and a call that is to send another request has one left. At most one caller is past
the lock (`Alone`), so the `allowed` and `busy` of the refinement mapping, which quantify over callers, speak of
that one; `SetLastFetch` is the `Permit`, `Send` the `Request`, and a return or a failure the `Answer`.

**LogCapture.** `BlankBeyond`: before the buffer has been filled every entry from the position on is blank. It is why
`Filter`, which walks the whole buffer, shows no more than `Recent`, which walks what was written. `SameSlot`: the
two ways of computing an index agree on the buffer (`(pos - i + n) % n` and counting down with a wrap). One `Handle`
is then one `Log`: the mapped sequence gains its head and, once full, loses its last.

### 4.2 Only model-checked

- Liveness: `RunsEnd`, `BackfillsEnd`, `EvaluationsEnd`, `CallsReturn` (fairness and ENABLED are not in the prover's
  reach).
- The three properties that the code violates.

## 5. Where documents and code differ

### 5.1 Shown by a run

1. **The health gate is off after a failed run** (`orch_gate`; `orchestrator.go:106`). A run whose `Discover` failed
   stores a count of 0 and the next run takes that for its baseline; with 0 every count is healthy. `PLAN.md:618`
   promises that a site that returns 5 results instead of 500 fades nothing.
2. **An unchanged page does not bring a listing back** (`orch_reappear`; `orchestrator.go:152`). Its body is already
   stored, `CreateRawFetch` violates the unique index, and the loop goes on before the upsert. `PLAN.md:616`:
   `presumed_inactive` becomes `active` when the listing reappears.
3. **Absence is counted once, and not in a row** (`absence_fade`; `orchestrator.go:216`). `prevDiscovered` is the last run's,
   so only the first run without a listing reports it missed; with the default threshold of three a listing that
   stays away never fades, as the run shows. `PLAN.md:612` wants it stale after 14 days of absence from `Discover()` and
   three consecutive missed, healthy runs. The same line is not kept the other way round either, and a listing may
   fade that was hardly away: a sighting resets `consecutive_misses` and `last_seen_at` only through an upsert, which a page
   still fresh (`orchestrator.go:139`), stored already (`:152`) or failing (`:173`) does not reach, and unhealthy runs add misses
   (`listingbus.go:234`). So disappearances with sightings between them add up, and a listing that the site showed the
   day before fades at its next disappearance. `FadingIsEarned`, checked in `orch_safety` and proved, says what holds of
   every fade, in terms of the site: it comes in the first run without the listing right after one that discovered it,
   passes the gate, and the listing has vanished `MissThreshold` times, and its page was last taken in `StaleDays`
   (`InactiveDays`) ago. Every fade the code makes is therefore one that `PLAN.md:612` does not allow when `MissThreshold` is
   above one, as the first absent run is not a second consecutive one.

`FadingIsEarned`, `FollowsLifecycle` and `ChangesAreReal` hold in spite of these. The code may fade too little (3), too early
(1 and 3), or not come back (2).

### 5.2 Met while modelling

Not kept as runs; the models have the steps that lead there.

- *Searches.* Offset paging may skip a listing that matched all along, when rows tie in `first_seen_at` or one leaves
  meanwhile (`searchbus.go:134`, against the comment at 99). `DueAreReported` excepts these (`skipped`) and no others: of
  rows of one moment those a page's end parts, of a row's leaving those behind it. The count
  `EvaluateAll` returns includes hits that were there already. `evalMaxRows` stops after 10,000 rows. No diff has an
  attribute, so `attribute_added` is never recorded (`searchbus.go:229`); `AttrFields` and `DiffFields` show why. The digest of "today" has no
  date in its query.
- *Geocoding.* When the limit is reached, `geom` is not nil but stays the point of the old address
  (`listingbus.go:284`, comment at 257). A refused address is not retried unless the page changes (`PLAN.md:652`).
  Two upserts of one address may leave the centroid over the provider's point; a centroid is cached for ever. The
  counter is lost at a restart, and a midnight between the count and the give-back makes it negative (`carried`): both let
  more calls through, and `QuotaKept` bounds how many. Each process has its own counter (2.1).
  `.docs/arch/geocode-backend.md:169` says the county fallback uses no quota; it follows a call to the provider that was
  counted (`cache.go:46`), and code and model count it.
- *Source administration.* A threshold past 2^31 wraps to a negative number without an error (`sourcedb/store.go:59`);
  then every listing a healthy run misses fades. Rate limit and concurrency are saved and read by nobody;
  `last_run_at` is never written, so the page says "never". A column left blank by one form undoes another's when the two
  overlap (`lost` in `Sources`). Nothing keeps two backfills of one source apart. The health page
  shows an error rate of 0.0% when nothing was parsed at all (`health_dashboard.go:127`).
- *Attributes.* A column set once is never cleared, though the text and the evidence move on
  (`PLAN.md:576` has for power "explicit yes/no else null"). Patterns have no word boundaries: an unpaved road is paved, ponderosas are
  a pond. The road cascade goes by confidence and never says "unknown" (`PLAN.md:575`).
- *Listing pages.* Following Next may skip rows of one run, whose order is not fixed (`listingdb/store.go:320`), and those
  behind one that leaves the results. A full last page has a Next link to an empty one.
- *Rate limiter.* `lastFetchTime` is set before the attempts, so retries, and the first request of the next call, may
  come sooner than "1 req/sec per source" (`PLAN.md:634`); `Politeness` allows for it by stating permits, not requests.
  The back-off of 400 ms its comment names is never reached.
- *Duplicates.* `ScorePair` is relative to the first listing, hence not symmetric; the canonical order of a pair hides
  it. A pair that is no longer alike stays in the queue. "Dismiss" is a decision `PLAN.md` does not list.
- *Listings and backfill.* `presumed_inactive` with a sold page becomes `active` (`listingbus.go:313`). The scraper
  records a parser error when an upsert fails, the backfill nothing (`cmd/backfill/main.go:73`), so the page stays
  eligible. A backfill dates everything with its own start and revives faded listings; its snapshots
  share `captured_at`, so the newest one is arbitrary among them. Concurrent writers lose updates of the row
  (`listingbus.go:98`; `lost` in `Catalog`). Parsing a stored page again compares it with the newest snapshot and
  repeats a price change already recorded (`listingbus.go:138`); `PLAN.md:322` calls the derivation idempotent.
- *Runs.* An id that the site returns twice counts twice, found or missed (2.1).
- *Not wired.* Nothing calls `ResetDailyCount` but its test (`.docs/arch/geocode-backend.md:167` says that the orchestrator
  does at midnight): without it the counter only grows until a restart, and the limit becomes one per process
  lifetime; `Midnight` models the documented call. Mains use in-memory stubs or nil cores; no main calls `RunDedup`, `EvaluateAll`, `NewRateLimiter` or
  `NewCachingGeocoder`; the backfill's main refuses a full backfill. The health floor of `source-backend.md:127`, the
  summary-hash refetch of `PLAN.md:249` and `next_run_at` (`PLAN.md:239`) are not in the code. Models describe the
  functions as their tests run them.

## 6. What is not modelled

| Part | Why |
|---|---|
| Text: price and acre parsing, filter forms, log formatting; what a regular expression matches beyond the phrases of `Attributes` | pure functions over text, whose tests enumerate formats |
| Rendering: listing rows and details, map markers, timelines, health dashboard | reads only; the queries they share are in `Catalog`, `Searches` and `Orchestrator` |
| Session and configuration | one password and a signed cookie; values read once |
| Commands' wiring | no behaviour over time; see 5.2 |
| Backfill started from the admin page | calls an interface that no code implements; the backfill itself is in `History` |
| Auction rows, raw fetch retention, `llm`, `parcelbus` | no code writes them, or no code at all |
| Context cancellation | a cancelled call is a failed call of the models |
| A second process' own geocoding counter; ids that `Discover` returns twice | see 2.1 |
| A write that took effect but reported an error | the driver's protocol, outside the source |

## 7. Plan

The order followed: the pipeline that decides a listing's status (`ListingStatus`, `Orchestrator`, `Lifecycle`), its
history under two writers (`History`), what users see of it (`Searches`), geocoding with duplicates, the two in-memory
components, then the admin form with the runs that obey it (`Sources`) and the rows with their visitors (`Catalog`).
Ahead:

1. *Refine.* An abstract evaluation that reports at once what `EvaluateAll` pages for.
2. *Model.* Several sources sharing the scheduler, each under its `RateLimiter`, once a command wires them.

## 8. Running it

```
tlc -workers 2 -config Orchestrator_lifecycle.cfg MCOrchestrator.tla
tlapm OrchestratorProofs.tla
```

The module of each configuration is given in `PROJECT.json` under `runs`. Runs take from a second to three minutes with
two workers. The modules use the community modules (`FiniteSetsExt`) and, for the proofs, the library of TLAPS.
