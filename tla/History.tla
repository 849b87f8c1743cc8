------------------------------- MODULE History -------------------------------
(***************************************************************************)
(* The history of one listing: its row, its snapshots, its price changes   *)
(* and the parse attempts on its stored pages, as two processes write them *)
(* with the same calls and without a transaction: the scraper              *)
(* (Orchestrator.RunOnce) and the backfill of cmd/backfill (runBackfill).  *)
(* UpsertFromParsed and ApplyMissedRun are taken apart into their database *)
(* calls, each of which may fail.                                          *)
(*                                                                         *)
(* The pages are numbered in the order they are fetched.  Each run has a   *)
(* time of its own, which it gives to everything it writes.  A calm        *)
(* history, in which nothing fails and no run begins before the other      *)
(* process rests, is promised more than any other.                         *)
(***************************************************************************)
EXTENDS ListingStatus, FiniteSets, Sequences

CONSTANTS
  Pages,      \* number of pages the broker shows for the listing
  PriceOf,    \* PriceOf[f]: the price on page f, NoPrice if it shows none
  Report,     \* Report[f]: the status page f reports
  ParsedBy,   \* ParsedBy[f]: the parser versions that accept page f
  Versions,   \* number of parser versions
  Faults,     \* the calls that may fail, and "crash"
  MaxCalm,    \* bound of the model: number of runs in a calm history
  MaxRough    \* bound of the model: number of runs in any other

NoPrice == 0

ASSUME HistoryAssumption ==
  /\ Pages \in Nat
  /\ PriceOf \in [1..Pages -> Nat]
  /\ Report \in [1..Pages -> Reports]
  /\ ParsedBy \in [1..Pages -> SUBSET Nat]
  /\ Versions \in Nat
  /\ Faults \subseteq {"load", "parse", "row", "snaps", "snapshot", "change",
                       "attempt", "missed", "crash"}
  /\ MaxCalm \in Nat
  /\ MaxRough \in Nat

VARIABLES
  \* the database
  arrived,   \* pages 1..arrived are stored in raw_fetches
  row,       \* the listings row: status, misses, lastSeen
  price,     \* its price_cents
  snaps,     \* listing_snapshots, in order of insertion
  changes,   \* price_changes
  attempts,  \* parse_attempts
  \* the processes
  version,   \* the parser version deployed
  pc,        \* pc[w]: the call process w makes next
  job,       \* job[w]: what w works on and has read
  queue,     \* the ids runBackfill has still to process
  now,       \* the time of the next run
  calm       \* whether the processes take turns and nothing fails, all along

rows == <<row, price>>
vars == <<arrived, rows, snaps, changes, attempts, version, pc, job, queue, now, calm>>

Writers == {"scrape", "backfill"}
Fetches == 1..Pages
Snapshot == [fetch: Fetches, at: Nat, price: Nat]
Change == [old: Nat, new: Nat, snap: Nat]
Attempt == [fetch: Fetches, version: Nat, at: Nat, outcome: {"success", "parser_error"}]
Job == [fetch: 0..Pages, at: Nat, version: Nat, row: Listing, price: Nat,
        seen: Nat, mine: Nat]
NoJob == [fetch |-> 0, at |-> 0, version |-> 0, row |-> NoListing, price |-> NoPrice,
          seen |-> 0, mine |-> 0]

(* The latest attempt on page f, as the lateral join of                    *)
(* QueryEligibleRawFetchIDs picks it.                                      *)
Latest(f) == {a \in attempts : a.fetch = f /\ \A b \in attempts : b.fetch = f => b.at <= a.at}

(* QueryEligibleRawFetchIDs for parser version v.                          *)
Eligible(v) ==
  {f \in 1..arrived : \/ Latest(f) = {}
                      \/ \E a \in Latest(f) : a.outcome = "parser_error" \/ a.version # v}

(* The rows ORDER BY captured_at DESC may put first.                       *)
Newest == {k \in DOMAIN snaps : \A m \in DOMAIN snaps : snaps[m].at <= snaps[k].at}

Accepted(w) == job[w].version \in ParsedBy[job[w].fetch]

Goto(w, label) == pc' = [pc EXCEPT ![w] = label]

(* The end of the loop body: the next page of the backfill, or the end of  *)
(* the scrape of this listing.                                             *)
Finish(w) == Goto(w, IF w = "backfill" THEN "next" ELSE "idle")

MayFail(call) == ~calm /\ call \in Faults

MayStart(w) ==
  /\ now < IF calm THEN MaxCalm ELSE MaxRough
  /\ pc[w] = "idle"
  /\ calm => \A v \in Writers : pc[v] = "idle"

(* What a process holds at the start of a run: the version it was built    *)
(* with, the time, and nothing read yet but l with price p.                *)
NewJob(f, l, p) ==
  [fetch |-> f, at |-> now, version |-> version, row |-> l, price |-> p,
   seen |-> 0, mine |-> 0]

Start(w, newJob) ==
  /\ job' = [job EXCEPT ![w] = newJob]
  /\ now' = now + 1

-----------------------------------------------------------------------------
Init ==
  /\ arrived = 0
  /\ row = NoListing
  /\ price = NoPrice
  /\ snaps = << >>
  /\ changes = {}
  /\ attempts = {}
  /\ version = 1
  /\ pc = [w \in Writers |-> "idle"]
  /\ job = [w \in Writers |-> NoJob]
  /\ queue = {}
  /\ now = 0
  /\ calm \in BOOLEAN

(* A new parser version is deployed; a process under way keeps its own.    *)
Deploy ==
  /\ version < Versions
  /\ version' = version + 1
  /\ UNCHANGED <<arrived, rows, snaps, changes, attempts, pc, job, queue, now, calm>>

(* A scrape fetches a page that is not stored yet and stores it.           *)
StartScrape ==
  /\ MayStart("scrape")
  /\ arrived < Pages
  /\ arrived' = arrived + 1
  /\ Start("scrape", NewJob(arrived + 1, NoListing, NoPrice))
  /\ Goto("scrape", "parse")
  /\ UNCHANGED <<rows, snaps, changes, attempts, version, queue, calm>>

(* A scrape no longer discovers the listing; ApplyMissedRun reads the row. *)
StartMissed ==
  /\ MayStart("scrape")
  /\ IsListed(row)
  /\ Start("scrape", NewJob(0, row, price))
  /\ Goto("scrape", "missed")
  /\ UNCHANGED <<arrived, rows, snaps, changes, attempts, version, queue, calm>>

(* ApplyMissedRun writes the whole row it read unless that is terminal, or *)
(* fails.                                                                  *)
ApplyMissedRun ==
  /\ pc["scrape"] = "missed"
  /\ \/ /\ job["scrape"].row.status \notin Terminal
        /\ \E healthy \in BOOLEAN : row' = Missed(job["scrape"].row, healthy, job["scrape"].at)
        /\ price' = job["scrape"].price
     \/ /\ job["scrape"].row.status \in Terminal \/ MayFail("missed")
        /\ UNCHANGED rows
  /\ Goto("scrape", "idle")
  /\ UNCHANGED <<arrived, snaps, changes, attempts, version, job, queue, now, calm>>

StartBackfill ==
  /\ MayStart("backfill")
  /\ queue' = Eligible(version)
  /\ Start("backfill", NewJob(0, NoListing, NoPrice))
  /\ Goto("backfill", "next")
  /\ UNCHANGED <<arrived, rows, snaps, changes, attempts, version, calm>>

(* Mutant: a page that does not load is put back.                          *)
LoadRetries(f) ==
  /\ pc["backfill"] = "next"
  /\ f \in queue
  /\ job' = [job EXCEPT !["backfill"].fetch = f, !["backfill"].seen = 0]
  /\ \/ Goto("backfill", "parse") /\ queue' = queue \ {f}
     \/ MayFail("load") /\ UNCHANGED <<pc, queue>>
  /\ UNCHANGED <<arrived, rows, snaps, changes, attempts, version, now, calm>>

(* The query has no ORDER BY: the pages come in any order.                 *)
Load(f) ==
  /\ pc["backfill"] = "next"
  /\ f \in queue
  /\ queue' = queue \ {f}
  /\ job' = [job EXCEPT !["backfill"].fetch = f, !["backfill"].seen = 0]
  /\ Goto("backfill", "parse") \/ (MayFail("load") /\ UNCHANGED pc)
  /\ UNCHANGED <<arrived, rows, snaps, changes, attempts, version, now, calm>>

BackfillEnds ==
  /\ pc["backfill"] = "next"
  /\ queue = {}
  /\ Goto("backfill", "idle")
  /\ UNCHANGED <<arrived, rows, snaps, changes, attempts, version, job, queue, now, calm>>

(* Mutant: the attempt is dated by the page instead of the run.            *)
RecordDatedByPage(w, outcome) ==
  attempts' = attempts \cup
    {[fetch |-> job[w].fetch, version |-> job[w].version, at |-> job[w].fetch,
      outcome |-> outcome]}

(* RecordParseAttempt; its failure is a warning only.                      *)
Record(w, outcome) ==
  \/ attempts' = attempts \cup
       {[fetch |-> job[w].fetch, version |-> job[w].version, at |-> job[w].at,
         outcome |-> outcome]}
  \/ MayFail("attempt") /\ UNCHANGED attempts

ParseFails(w) ==
  /\ pc[w] = "parse"
  /\ ~Accepted(w)
  /\ Record(w, "parser_error")
  /\ Finish(w)
  /\ UNCHANGED <<arrived, rows, snaps, changes, version, job, queue, now, calm>>

(* QueryListingBySource.                                                   *)
ReadRow(w) ==
  /\ pc[w] = "parse"
  /\ Accepted(w)
  /\ job' = [job EXCEPT ![w].row = row, ![w].price = price]
  /\ Goto(w, "row")
  /\ UNCHANGED <<arrived, rows, snaps, changes, attempts, version, queue, now, calm>>

(* Mutant: a page without a price leaves the price of the row alone.       *)
WriteRowKeepsPrice(w) ==
  /\ pc[w] = "row"
  /\ IsListed(job[w].row) \/ ~IsListed(row)
  /\ row' = Upserted(job[w].row, Report[job[w].fetch], job[w].at)
  /\ price' = IF PriceOf[job[w].fetch] = NoPrice THEN job[w].price ELSE PriceOf[job[w].fetch]
  /\ Goto(w, IF IsListed(job[w].row) THEN "snaps" ELSE "snapshot")
  /\ UNCHANGED <<arrived, snaps, changes, attempts, version, job, queue, now, calm>>

(* CreateListing when no row was read, otherwise UpdateListing, which      *)
(* writes every field of the row.  The unique index on the source's        *)
(* listing id refuses a second row.                                        *)
WriteRow(w) ==
  /\ pc[w] = "row"
  /\ IsListed(job[w].row) \/ ~IsListed(row)
  /\ row' = Upserted(job[w].row, Report[job[w].fetch], job[w].at)
  /\ price' = PriceOf[job[w].fetch]
  /\ Goto(w, IF IsListed(job[w].row) THEN "snaps" ELSE "snapshot")
  /\ UNCHANGED <<arrived, snaps, changes, attempts, version, job, queue, now, calm>>

(* Mutant: the snapshots taken in order of insertion, the oldest first.    *)
ReadOldestSnapshot(w) ==
  /\ pc[w] = "snaps"
  /\ job' = [job EXCEPT ![w].seen = IF snaps = << >> THEN 0 ELSE 1]
  /\ Goto(w, "snapshot")
  /\ UNCHANGED <<arrived, rows, snaps, changes, attempts, version, queue, now, calm>>

(* QuerySnapshotsByListing; seen is the snapshot it lists first, 0 if none.*)
ReadSnapshots(w) ==
  /\ pc[w] = "snaps"
  /\ \E k \in IF snaps = << >> THEN {0} ELSE Newest : job' = [job EXCEPT ![w].seen = k]
  /\ Goto(w, "snapshot")
  /\ UNCHANGED <<arrived, rows, snaps, changes, attempts, version, queue, now, calm>>

(* Mutant: the new price is compared with that of the row read.            *)
PriceMovedFromRow(w) ==
  /\ job[w].seen # 0
  /\ PriceOf[job[w].fetch] # NoPrice
  /\ job[w].price # NoPrice
  /\ job[w].price # PriceOf[job[w].fetch]

(* A price change is due: both prices are known and differ.                *)
PriceMoved(w) ==
  /\ job[w].seen # 0
  /\ PriceOf[job[w].fetch] # NoPrice
  /\ snaps[job[w].seen].price # NoPrice
  /\ snaps[job[w].seen].price # PriceOf[job[w].fetch]

(* Mutant: a snapshot replaces that of the same captured_at.               *)
WriteSnapshotReplaces(w) ==
  /\ pc[w] = "snapshot"
  /\ LET new == [fetch |-> job[w].fetch, at |-> job[w].at, price |-> PriceOf[job[w].fetch]]
         k == CHOOSE k \in 1..(Len(snaps) + 1) : k > Len(snaps) \/ snaps[k].at = job[w].at
     IN  /\ snaps' = [i \in DOMAIN snaps \cup {k} |-> IF i = k THEN new ELSE snaps[i]]
         /\ job' = [job EXCEPT ![w].mine = k]
  /\ Goto(w, IF PriceMoved(w) THEN "change" ELSE "attempt")
  /\ UNCHANGED <<arrived, rows, changes, attempts, version, queue, now, calm>>

WriteSnapshot(w) ==
  /\ pc[w] = "snapshot"
  /\ snaps' = Append(snaps, [fetch |-> job[w].fetch, at |-> job[w].at,
                             price |-> PriceOf[job[w].fetch]])
  /\ job' = [job EXCEPT ![w].mine = Len(snaps) + 1]
  /\ Goto(w, IF PriceMoved(w) THEN "change" ELSE "attempt")
  /\ UNCHANGED <<arrived, rows, changes, attempts, version, queue, now, calm>>

(* CreatePriceChange; its failure is a warning only.                       *)
WriteChange(w) ==
  /\ pc[w] = "change"
  /\ \/ changes' = changes \cup
          {[old |-> snaps[job[w].seen].price, new |-> PriceOf[job[w].fetch],
            snap |-> job[w].mine]}
     \/ MayFail("change") /\ UNCHANGED changes
  /\ Goto(w, "attempt")
  /\ UNCHANGED <<arrived, rows, snaps, attempts, version, job, queue, now, calm>>

RecordSuccess(w) ==
  /\ pc[w] = "attempt"
  /\ Record(w, "success")
  /\ Finish(w)
  /\ UNCHANGED <<arrived, rows, snaps, changes, version, job, queue, now, calm>>

(* Mutant: the outcome of a failed upsert recorded as success.             *)
UpsertFailsAsSuccess(w) ==
  /\ \/ pc[w] = "parse" /\ Accepted(w) /\ MayFail("parse")
     \/ pc[w] \in {"row", "snaps", "snapshot"} /\ MayFail(pc[w])
     \/ pc[w] = "row" /\ ~IsListed(job[w].row) /\ IsListed(row)
  /\ IF w = "scrape" THEN Record(w, "success") ELSE UNCHANGED attempts
  /\ Finish(w)
  /\ UNCHANGED <<arrived, rows, snaps, changes, version, job, queue, now, calm>>

(* A call of UpsertFromParsed fails, or CreateListing finds a row another  *)
(* process has created.  The scraper records a parser_error attempt, the   *)
(* backfill records none.                                                  *)
UpsertFails(w) ==
  /\ \/ pc[w] = "parse" /\ Accepted(w) /\ MayFail("parse")
     \/ pc[w] \in {"row", "snaps", "snapshot"} /\ MayFail(pc[w])
     \/ pc[w] = "row" /\ ~IsListed(job[w].row) /\ IsListed(row)
  /\ IF w = "scrape" THEN Record(w, "parser_error") ELSE UNCHANGED attempts
  /\ Finish(w)
  /\ UNCHANGED <<arrived, rows, snaps, changes, version, job, queue, now, calm>>

(* Process w stops; what it had written stays.                             *)
Crash(w) ==
  /\ MayFail("crash")
  /\ pc[w] # "idle"
  /\ Goto(w, "idle")
  /\ queue' = IF w = "backfill" THEN {} ELSE queue
  /\ UNCHANGED <<arrived, rows, snaps, changes, attempts, version, job, now, calm>>

(* The steps by which process w handles a stored page.                     *)
HandlePage(w) ==
  \/ ParseFails(w) \/ ReadRow(w) \/ WriteRow(w) \/ ReadSnapshots(w)
  \/ WriteSnapshot(w) \/ WriteChange(w) \/ RecordSuccess(w) \/ UpsertFails(w)

BackfillStep == BackfillEnds \/ HandlePage("backfill") \/ \E f \in Fetches : Load(f)

Next ==
  \/ Deploy
  \/ StartScrape \/ StartMissed \/ ApplyMissedRun \/ HandlePage("scrape")
  \/ StartBackfill \/ BackfillStep
  \/ \E w \in Writers : Crash(w)

Spec == Init /\ [][Next]_vars

(* The backfill is a sequential loop whose calls all return.               *)
FairSpec == Spec /\ WF_vars(BackfillStep)

-----------------------------------------------------------------------------
TypeOK ==
  /\ arrived \in 0..Pages
  /\ row \in Listing
  /\ price \in Nat
  /\ snaps \in Seq(Snapshot)
  /\ changes \subseteq Change
  /\ attempts \subseteq Attempt
  /\ version \in Nat
  /\ pc \in [Writers -> {"idle", "next", "parse", "row", "snaps", "snapshot", "change",
                        "attempt", "missed"}]
  /\ job \in [Writers -> Job]
  /\ queue \subseteq Fetches
  /\ now \in Nat
  /\ calm \in BOOLEAN

Priced(k) == snaps[k].price # NoPrice

(* Every price change stands for a move between two snapshots: it leads to *)
(* the price of its own snapshot from the known and different price of one *)
(* written before, and no snapshot has two, though another process may     *)
(* write between the reading of the previous snapshot and the change.      *)
ChangesAreReal ==
  /\ \A c \in changes :
       /\ c.snap \in DOMAIN snaps
       /\ c.new = snaps[c.snap].price
       /\ c.old # c.new
       /\ \E k \in 1..(c.snap - 1) : Priced(k) /\ snaps[k].price = c.old
  /\ \A c, d \in changes : c.snap = d.snap => c = d

(* An attempt recorded as success has the snapshot its run wrote, an       *)
(* accepted page is never left with a success without one, and a snapshot  *)
(* has its listing row.                                                    *)
SuccessHasSnapshot ==
  /\ \A a \in attempts : a.outcome = "success" =>
       \E k \in DOMAIN snaps : snaps[k].fetch = a.fetch /\ snaps[k].at = a.at
  /\ snaps # << >> => IsListed(row)

(* In a calm history no price move is lost: of two consecutive snapshots   *)
(* with different known prices the later has its price change, whichever   *)
(* process wrote each.  It asks for the earlier one to be the only newest, *)
(* as snapshots of the same backfill share their captured_at.              *)
PriceMovesRecorded == calm =>
  \A k \in 1..(Len(snaps) - 1) :
    /\ Priced(k) /\ Priced(k + 1) /\ snaps[k].price # snaps[k + 1].price
    /\ \A m \in 1..(k - 1) : snaps[m].at < snaps[k].at
    => \/ \E c \in changes : c.snap = k + 1 /\ c.old = snaps[k].price
       \/ \E w \in Writers : pc[w] = "change" /\ job[w].mine = k + 1

(* When the processes of a calm history rest, the row shows the price of   *)
(* its newest snapshot, that a page without a price may have cleared.      *)
RowShowsNewestSnapshot ==
  calm /\ (\A w \in Writers : pc[w] = "idle") /\ snaps # << >>
    => \E k \in Newest : price = snaps[k].price

(* A backfill that meets no failure settles every page its parser accepts: *)
(* none of them is eligible for the same version when it ends.             *)
BackfillSettles ==
  [][calm /\ pc["backfill"] = "next" /\ pc'["backfill"] = "idle" =>
       \A f \in Eligible(job["backfill"].version) :
         job["backfill"].version \notin ParsedBy[f]]_vars

(* The price history only grows: snapshots and changes are appended, each  *)
(* snapshot once and each change once for its snapshot, also when a page   *)
(* is parsed again or a process is interrupted.                            *)
H == INSTANCE PriceHistory WITH
       Prices <- {PriceOf[f] : f \in Fetches},
       Unknown <- NoPrice,
       prices <- [k \in DOMAIN snaps |-> snaps[k].price],
       moves <- {<<c.snap, c.old>> : c \in changes}

FollowsPriceHistory == H!Spec

(* A backfill that starts comes to an end, whatever the scraper does.      *)
BackfillsEnd == pc["backfill"] # "idle" ~> pc["backfill"] = "idle"
=============================================================================
