---------------------------- MODULE Orchestrator -----------------------------
(***************************************************************************)
(* Orchestrator.RunOnce (foundation/scraper/orchestrator.go) for one       *)
(* source: discover, diff against the previous discovery held in memory,   *)
(* fetch what is new or past its TTL, parse, upsert, record the parse      *)
(* attempt, count the listings that disappeared as missed, finish the run  *)
(* row.  Every database call may fail, and the process may stop between    *)
(* any two of them; a restart keeps the database and forgets the memory.   *)
(*                                                                         *)
(* The broker's site is the environment: Discover returns any set of ids   *)
(* or fails, Fetch returns any body or fails.  Time is counted in days.    *)
(***************************************************************************)
EXTENDS ListingStatus, FiniteSets

CONSTANTS
  IDs,        \* source listing ids
  Bodies,     \* bodies a detail page may have
  Report,     \* Report[b]: the status a parsed body reports
  Garbled,    \* the bodies Parse rejects
  FetchTTL,   \* fetchTTL; 0 means always fetch again
  RatioNum,   \* source.MinResultRatioForInactivation is RatioNum / RatioDen
  RatioDen,
  HasHandler, \* whether a MissedRunHandler was wired in
  Faults,     \* the failures of the environment a behaviour may show
  MaxDay,     \* bound of the model: last day of the clock
  MaxRuns     \* bound of the model: number of run rows

ASSUME OrchestratorAssumption ==
  /\ IsFiniteSet(IDs)
  /\ Report \in [Bodies -> Reports]
  /\ Garbled \subseteq Bodies
  /\ FetchTTL \in Nat
  /\ RatioNum \in Nat
  /\ RatioDen \in Nat \ {0}
  /\ HasHandler \in BOOLEAN
  /\ Faults \subseteq {"discover", "fetch", "database", "restart"}
  /\ MaxDay \in Nat
  /\ MaxRuns \in Nat

VARIABLES
  \* the database
  enabled,   \* sources.enabled
  runs,      \* number of rows in scrape_runs
  lastRun,   \* the newest row of scrape_runs
  raw,       \* raw[<<i, b>>]: the raw_fetches row of body b of i, by latest attempt
  fetched,   \* fetched[i]: day of the newest raw_fetches row of i, -1 if none
  snaps,     \* the raw_fetches rows a listing_snapshots row refers to
  listing,   \* the listings table
  \* the process
  pc,        \* where RunOnce is
  prev,      \* o.prevDiscovered
  prior,     \* priorRun.DiscoveredCount, -1 if there is no prior run or no count
  start,     \* start, the time the run gives to everything it writes
  disc,      \* the ids Discover returned
  toFetch,   \* the refs still to fetch
  cur,       \* the raw fetch being processed, << >> outside the loop body
  stored,    \* the refs counted in result.Fetched
  parsed,    \* the refs counted in result.Parsed
  failed,    \* the refs counted in result.Errors
  missing,   \* the removed ids still to hand to the missed-run handler
  clock      \* today

dbVars == <<enabled, runs, lastRun, raw, fetched, snaps, listing>>
runVars == <<prior, start, disc, toFetch, cur, stored, parsed, failed, missing>>
vars == <<dbVars, pc, prev, runVars, clock>>

Days == 0..MaxDay
Rows == IDs \X Bodies
RowStates == {"absent", "unparsed", "parser_error", "success"}
NoCount == -1

(* scrape_runs: a row is created running, without counts, and is completed *)
(* by FinishRun.                                                           *)
RunStatuses == {"running", "ok", "partial", "failed"}
RunRow == [status: RunStatuses \cup {"none"}, discovered: Int,
           fetched: Nat, parsed: Nat, errors: Nat]
RunWithout(status, count) ==
  [status |-> status, discovered |-> count, fetched |-> 0, parsed |-> 0, errors |-> 0]
NoRun == RunWithout("none", NoCount)
StartedRun == RunWithout("running", NoCount)

(* Mutants: the arguments of the diff swapped, the diff not taken.         *)
AddedSwapped(p, c) == p \ c
RemovedAll(p, c) == p

(* DiffRefs(prev, curr) of foundation/scraper/diff.go.                     *)
Added(p, c) == c \ p
Kept(p, c) == c \cap p
Removed(p, c) == p \ c

(* ttlExpired: the newest fetch of i is older than the TTL, or there is    *)
(* none.                                                                   *)
TtlExpired(i) ==
  \/ FetchTTL = 0
  \/ fetched[i] = -1
  \/ start - fetched[i] > FetchTTL

(* orchIsRunHealthy of a run that discovered n refs.                       *)
Healthy(n) == prior <= 0 \/ n * RatioDen >= RatioNum * prior

MayFail(what) == what \in Faults

-----------------------------------------------------------------------------
IdleRun ==
  /\ prior' = NoCount
  /\ start' = 0
  /\ disc' = {}
  /\ toFetch' = {}
  /\ cur' = << >>
  /\ stored' = {}
  /\ parsed' = {}
  /\ failed' = {}
  /\ missing' = {}

Init ==
  /\ enabled = TRUE
  /\ runs = 0
  /\ lastRun = NoRun
  /\ raw = [r \in Rows |-> "absent"]
  /\ fetched = [i \in IDs |-> -1]
  /\ snaps = {}
  /\ listing = [i \in IDs |-> NoListing]
  /\ pc = "idle"
  /\ prev = {}
  /\ prior = NoCount
  /\ start = 0
  /\ disc = {}
  /\ toFetch = {}
  /\ cur = << >>
  /\ stored = {}
  /\ parsed = {}
  /\ failed = {}
  /\ missing = {}
  /\ clock = 0

(* The admin page switches the source on or off.  RunOnce reads the switch *)
(* only as it starts: one flipped during a run acts as if flipped after it.*)
ToggleEnabled ==
  /\ pc = "idle"
  /\ enabled' = ~enabled
  /\ UNCHANGED <<runs, lastRun, raw, fetched, snaps, listing, pc, prev, runVars, clock>>

Tick ==
  /\ clock < MaxDay
  /\ clock' = clock + 1
  /\ UNCHANGED <<dbVars, pc, prev, runVars>>

(* The count of the run QueryLatestRun returns, NoCount if there is none.  *)
LatestCount == lastRun.discovered

(* A scheduled run of an enabled source inserts its run row.  The error of *)
(* QueryLatestRun is dropped: a failed query looks like no prior run.  A   *)
(* disabled source and a failed QuerySource or StartRun change nothing.    *)
StartRun ==
  /\ pc = "idle"
  /\ enabled
  /\ runs < MaxRuns
  /\ start' = clock
  /\ prior' = LatestCount \/ (MayFail("database") /\ prior' = NoCount)
  /\ runs' = runs + 1
  /\ lastRun' = StartedRun
  /\ pc' = "discover"
  /\ UNCHANGED <<enabled, raw, fetched, snaps, listing, prev, disc, toFetch, cur,
                 stored, parsed, failed, missing, clock>>

(* The deferred FinishRun: it completes the run row with row, or fails and *)
(* leaves the row running.                                                 *)
FinishRun(row) ==
  /\ lastRun' = row \/ (MayFail("database") /\ UNCHANGED lastRun)
  /\ pc' = "idle"
  /\ IdleRun
  /\ UNCHANGED <<enabled, runs, raw, fetched, snaps, listing, clock>>

DiscoverFails ==
  /\ pc = "discover"
  /\ MayFail("discover")
  /\ FinishRun(RunWithout("failed", 0))
  /\ UNCHANGED prev

(* Discover returns the ids in found; what is new is fetched, what is kept *)
(* is fetched once its TTL has expired or the query for its fetches fails. *)
Discover(found) ==
  /\ pc = "discover"
  /\ disc' = found
  /\ \E unreadable \in IF MayFail("database") THEN SUBSET Kept(prev, found) ELSE {{}} :
       toFetch' = Added(prev, found)
                    \cup {i \in Kept(prev, found) : i \in unreadable \/ TtlExpired(i)}
  /\ pc' = "fetch"
  /\ UNCHANGED <<dbVars, prev, prior, start, cur, stored, parsed, failed, missing, clock>>

(* Fetch fails: result.Errors++ and continue.                              *)
FetchFails(i) ==
  /\ pc = "fetch"
  /\ i \in toFetch
  /\ MayFail("fetch")
  /\ toFetch' = toFetch \ {i}
  /\ failed' = failed \cup {i}
  /\ UNCHANGED <<dbVars, pc, prev, prior, start, disc, cur, stored, parsed, missing, clock>>

Fetch(i, b) ==
  /\ pc = "fetch"
  /\ i \in toFetch
  /\ toFetch' = toFetch \ {i}
  /\ cur' = <<i, b>>
  /\ pc' = "store"
  /\ UNCHANGED <<dbVars, prev, prior, start, disc, stored, parsed, failed, missing, clock>>

(* CreateRawFetch inserts a body that is not stored yet.                   *)
StoreRawFetch(i, b) ==
  /\ pc = "store"
  /\ cur = <<i, b>>
  /\ raw[<<i, b>>] = "absent"
  /\ raw' = [raw EXCEPT ![<<i, b>>] = "unparsed"]
  /\ fetched' = [fetched EXCEPT ![i] = clock]
  /\ stored' = stored \cup {i}
  /\ pc' = "parse"
  /\ UNCHANGED <<enabled, runs, lastRun, snaps, listing, prev, prior, start, disc,
                 toFetch, cur, parsed, failed, missing, clock>>

(* Mutant: the ref is put back and tried again.                            *)
StoreFailsRetries(i, b) ==
  /\ pc = "store"
  /\ cur = <<i, b>>
  /\ raw[<<i, b>>] # "absent" \/ MayFail("database")
  /\ toFetch' = toFetch \cup {i}
  /\ cur' = << >>
  /\ pc' = "fetch"
  /\ UNCHANGED <<dbVars, prev, prior, start, disc, stored, parsed, failed, missing, clock>>

(* CreateRawFetch fails: always for a body that is already stored, by the  *)
(* unique key (source_id, source_listing_id, body_sha256) of raw_fetches.  *)
StoreFails(i, b) ==
  /\ pc = "store"
  /\ cur = <<i, b>>
  /\ raw[<<i, b>>] # "absent" \/ MayFail("database")
  /\ failed' = failed \cup {i}
  /\ cur' = << >>
  /\ pc' = "fetch"
  /\ UNCHANGED <<dbVars, prev, prior, start, disc, toFetch, stored, parsed, missing, clock>>

(* Mutant: a success attempt recorded after an error.                      *)
GiveUpAsSuccess(i, b) ==
  /\ raw' = [raw EXCEPT ![<<i, b>>] = "success"]
  /\ failed' = failed \cup {i}
  /\ cur' = << >>
  /\ pc' = "fetch"

(* The end of the loop body after an error: a parser_error attempt is      *)
(* recorded (or that fails too, with a warning) and the error is counted.  *)
GiveUp(i, b) ==
  /\ \/ raw' = [raw EXCEPT ![<<i, b>>] = "parser_error"]
     \/ MayFail("database") /\ UNCHANGED raw
  /\ failed' = failed \cup {i}
  /\ cur' = << >>
  /\ pc' = "fetch"

ParseFails(i, b) ==
  /\ pc = "parse"
  /\ cur = <<i, b>>
  /\ b \in Garbled
  /\ GiveUp(i, b)
  /\ UNCHANGED <<enabled, runs, lastRun, fetched, snaps, listing, prev, prior, start,
                 disc, toFetch, stored, parsed, missing, clock>>

UpsertListing(i, b) ==
  listing' = [listing EXCEPT ![i] = Upserted(@, Report[b], start)]

(* UpsertFromParsed writes the listing row, then the snapshot.             *)
Upsert(i, b) ==
  /\ pc = "parse"
  /\ cur = <<i, b>>
  /\ b \notin Garbled
  /\ UpsertListing(i, b)
  /\ snaps' = snaps \cup {<<i, b>>}
  /\ parsed' = parsed \cup {i}
  /\ pc' = "record"
  /\ UNCHANGED <<enabled, runs, lastRun, raw, fetched, prev, prior, start, disc,
                 toFetch, cur, stored, failed, missing, clock>>

(* UpsertFromParsed fails before its first write, or between the write of  *)
(* the listing row and that of the snapshot.                               *)
UpsertFails(i, b) ==
  /\ pc = "parse"
  /\ cur = <<i, b>>
  /\ b \notin Garbled
  /\ MayFail("database")
  /\ UpsertListing(i, b) \/ UNCHANGED listing
  /\ GiveUp(i, b)
  /\ UNCHANGED <<enabled, runs, lastRun, fetched, snaps, prev, prior, start, disc,
                 toFetch, stored, parsed, missing, clock>>

(* The success attempt is recorded, or that fails with a warning only.     *)
RecordSuccess(i, b) ==
  /\ pc = "record"
  /\ cur = <<i, b>>
  /\ \/ raw' = [raw EXCEPT ![<<i, b>>] = "success"]
     \/ MayFail("database") /\ UNCHANGED raw
  /\ cur' = << >>
  /\ pc' = "fetch"
  /\ UNCHANGED <<enabled, runs, lastRun, fetched, snaps, listing, prev, prior, start,
                 disc, toFetch, stored, parsed, failed, missing, clock>>

FetchesDone ==
  /\ pc = "fetch"
  /\ toFetch = {}
  /\ missing' = IF HasHandler THEN Removed(prev, disc) ELSE {}
  /\ pc' = "missed"
  /\ UNCHANGED <<dbVars, prev, prior, start, disc, toFetch, cur, stored, parsed, failed, clock>>

(* The missed-run handler of one removed id: ApplyMissedRun on its listing *)
(* row.  It does nothing for an id without a row and may fail.             *)
MissedRun(i) ==
  /\ pc = "missed"
  /\ i \in missing
  /\ missing' = missing \ {i}
  /\ \/ /\ IsListed(listing[i])
        /\ listing' = [listing EXCEPT ![i] = Missed(@, Healthy(Cardinality(disc)), start)]
     \/ /\ ~IsListed(listing[i]) \/ MayFail("database")
        /\ UNCHANGED listing
  /\ UNCHANGED <<enabled, runs, lastRun, raw, fetched, snaps, pc, prev, prior, start,
                 disc, toFetch, cur, stored, parsed, failed, clock>>

RunEnds ==
  /\ pc = "missed"
  /\ missing = {}
  /\ prev' = disc
  /\ FinishRun([status     |-> IF failed = {} THEN "ok" ELSE "partial",
                discovered |-> Cardinality(disc),
                fetched    |-> Cardinality(stored),
                parsed     |-> Cardinality(parsed),
                errors     |-> Cardinality(failed)])

(* The process stops and is started again: only the database survives.     *)
Restart ==
  /\ MayFail("restart")
  /\ pc' = "idle"
  /\ prev' = {}
  /\ IdleRun
  /\ UNCHANGED <<dbVars, clock>>

ProcessRef(i) ==
  \/ FetchFails(i)
  \/ \E b \in Bodies :
       \/ Fetch(i, b)
       \/ StoreRawFetch(i, b)
       \/ StoreFails(i, b)
       \/ ParseFails(i, b)
       \/ Upsert(i, b)
       \/ UpsertFails(i, b)
       \/ RecordSuccess(i, b)

(* The steps of a run in flight.                                           *)
RunStep ==
  \/ DiscoverFails
  \/ \E found \in SUBSET IDs : Discover(found)
  \/ \E i \in IDs : ProcessRef(i)
  \/ FetchesDone
  \/ \E i \in IDs : MissedRun(i)
  \/ RunEnds

Next == ToggleEnabled \/ Tick \/ StartRun \/ RunStep \/ Restart

Spec == Init /\ [][Next]_vars

(* RunOnce is a sequential loop with no wait other than its calls, each of *)
(* which returns (they carry the context's deadline): a run in flight      *)
(* takes its next step.  Nothing is assumed of the scheduler or the admin. *)
FairSpec == Spec /\ WF_vars(RunStep)

-----------------------------------------------------------------------------
TypeOK ==
  /\ enabled \in BOOLEAN
  /\ runs \in Nat
  /\ lastRun \in RunRow
  /\ raw \in [Rows -> RowStates]
  /\ fetched \in [IDs -> Nat \cup {-1}]
  /\ snaps \subseteq Rows
  /\ listing \in [IDs -> Listing]
  /\ pc \in {"idle", "discover", "fetch", "store", "parse", "record", "missed"}
  /\ prev \subseteq IDs
  /\ prior \in Int
  /\ start \in Nat
  /\ disc \subseteq IDs
  /\ toFetch \subseteq IDs
  /\ cur \in Rows \cup {<< >>}
  /\ stored \subseteq IDs
  /\ parsed \subseteq IDs
  /\ failed \subseteq IDs
  /\ missing \subseteq IDs
  /\ clock \in Nat

(* A run that counts a listing as parsed leaves it freshly seen: it is not *)
(* also counted missed, faded or left with old misses by the same run,     *)
(* although the missed-run handler works on the same rows later on.        *)
ParsedStaysSeen ==
  \A i \in parsed : /\ IsListed(listing[i])
                    /\ listing[i].misses = 0
                    /\ listing[i].lastSeen = start
                    /\ listing[i].status \notin Gone

(* A faded row has the misses and the age that made it fade, and a closed  *)
(* row has none: the status, the miss counter and the last-seen date of a  *)
(* listing never drift apart, through returns, errors and restarts.        *)
RowsAreConsistent ==
  \A i \in IDs :
    /\ listing[i].status \in Gone => listing[i].misses >= MissThreshold
    /\ listing[i].status = "stale" => clock - listing[i].lastSeen >= StaleDays
    /\ listing[i].status = "presumed_inactive" =>
         clock - listing[i].lastSeen >= InactiveDays
    /\ listing[i].status \in Terminal => listing[i].misses = 0

(* A stored body is withdrawn from backfill (a success attempt) only when  *)
(* its snapshot exists, a parser_error attempt is never left on a body     *)
(* whose snapshot was written, and a snapshot has its listing: no fetched  *)
(* body is lost and none is stored as failed after it was applied,         *)
(* whichever call failed and wherever the process stopped.                 *)
AttemptsMatchSnapshots ==
  \A r \in Rows : /\ raw[r] = "success" => r \in snaps
                  /\ raw[r] \in {"absent", "parser_error"} => r \notin snaps
                  /\ r \in snaps => IsListed(listing[r[1]])

(* The counts of a finished run row agree with each other and with its     *)
(* status: every ref is counted parsed or as one error, never twice, and   *)
(* never more refs than were discovered.                                   *)
RunRowAddsUp ==
  /\ lastRun.status \in {"ok", "partial", "failed"} =>
       /\ lastRun.parsed <= lastRun.fetched
       /\ lastRun.fetched <= lastRun.parsed + lastRun.errors
       /\ lastRun.parsed + lastRun.errors <= lastRun.discovered
  /\ lastRun.status = "ok" => lastRun.errors = 0
  /\ lastRun.status = "partial" => lastRun.errors > 0
  /\ lastRun.status \in {"running", "none"} => lastRun.discovered = NoCount

(* The statuses move as the lifecycle says.                                *)
L == INSTANCE Lifecycle WITH
       status <- [i \in IDs |-> listing[i].status],
       missed <- {i \in IDs : listing[i].misses > 0}

FollowsLifecycle == L!Spec

(* Every run that starts comes to an end: no failure of a call keeps the   *)
(* fetch loop or the missed-run loop going round.                          *)
RunsEnd == pc # "idle" ~> pc = "idle"

-----------------------------------------------------------------------------
(* What the documents say of the program and the code does not do.         *)

Faded(i) == listing'[i].status \in Gone /\ listing'[i].status # listing[i].status

(* docs/PLAN.md 618, the health gate: a run that discovers far less than   *)
(* the source usually returns fades nothing, the usual count being that of *)
(* the last Discover that succeeded.                                       *)
GateUsesLastDiscovery ==
  [][\A i \in IDs : Faded(i) => Cardinality(disc) * RatioDen >= RatioNum * Cardinality(prev)]_vars

(* docs/PLAN.md 616: a faded listing that reappears is active again.  By   *)
(* the time the missed listings are handled every ref the run discovered   *)
(* has been dealt with.                                                    *)
ReappearedIsActive ==
  pc = "missed" => \A i \in disc : listing[i].status \notin Gone
=============================================================================
