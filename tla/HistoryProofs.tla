--------------------------- MODULE HistoryProofs ---------------------------
(***************************************************************************)
(* Proofs about History, for any number of pages, versions and runs, any   *)
(* prices and reports, and any set of calls that may fail.  The scraper    *)
(* and the backfill may interleave as they like.                           *)
(***************************************************************************)
EXTENDS History, TLAPS

(* The points of UpsertFromParsed and its callers.                         *)
AfterRow == {"snaps", "snapshot", "change", "attempt"}
OnPage == {"parse", "row"} \cup AfterRow

(* What process w has read and written is still there: snapshots are only  *)
(* ever appended, the row is never deleted.                                *)
ReadInv(w) ==
  /\ job[w].seen <= Len(snaps)
  /\ pc[w] \in OnPage => job[w].fetch \in Fetches
  /\ pc[w] = "missed" => IsListed(job[w].row)
  /\ pc[w] \in AfterRow => IsListed(row)

(* Between its snapshot and its attempt, mine is the snapshot w wrote for  *)
(* the page it works on.                                                   *)
MineInv(w) ==
  pc[w] \in {"change", "attempt"} =>
    /\ job[w].mine \in DOMAIN snaps
    /\ snaps[job[w].mine].fetch = job[w].fetch
    /\ snaps[job[w].mine].at = job[w].at
    /\ snaps[job[w].mine].price = PriceOf[job[w].fetch]

(* About to write a price change, w has seen an earlier snapshot with      *)
(* another known price, and its own snapshot has no change yet.            *)
DueInv(w) ==
  pc[w] = "change" =>
    /\ PriceMoved(w)
    /\ job[w].seen < job[w].mine
    /\ \A c \in changes : c.snap # job[w].mine
    /\ \A v \in Writers \ {w} : pc[v] = "change" => job[v].mine # job[w].mine

HistoryInv ==
  /\ TypeOK
  /\ \A w \in Writers : ReadInv(w) /\ MineInv(w) /\ DueInv(w)
  /\ ChangesAreReal
  /\ SuccessHasSnapshot

-----------------------------------------------------------------------------
(* A listing row stays a listing row under an upsert and a missed run, and *)
(* an upsert always leaves one.                                            *)
LEMMA ListingRules ==
  ASSUME NEW l \in Listing, NEW time \in Nat
  PROVE  /\ \A r \in Reports : Upserted(l, r, time) \in Listing /\ IsListed(Upserted(l, r, time))
         /\ IsListed(l) =>
              \A h \in BOOLEAN : Missed(l, h, time) \in Listing /\ IsListed(Missed(l, h, time))
<1>1. ASSUME NEW r \in Reports
      PROVE  Upserted(l, r, time) \in Listing /\ IsListed(Upserted(l, r, time))
  <2>1. IsListed(l) => DerivedStatus(l.status, r) \in Statuses
    BY DEF DerivedStatus, Listing, IsListed, Statuses, Terminal, Live, Gone
  <2> QED
    BY <2>1 DEF Upserted, Listing, Statuses, IsListed, Terminal
<1>2. ASSUME IsListed(l), NEW h \in BOOLEAN
      PROVE  Missed(l, h, time) \in Listing /\ IsListed(Missed(l, h, time))
  <2> DEFINE st == MissedStatus(l.status, l.misses + 1, h, time - l.lastSeen)
  <2>1. st \in Statuses
    BY <1>2 DEF MissedStatus, Listing, IsListed, Statuses
  <2> HIDE DEF st
  <2> DEFINE new == [status |-> st, misses |-> l.misses + 1, lastSeen |-> l.lastSeen]
  <2>2. new \in Listing /\ IsListed(new)
    BY <2>1 DEF Listing, Statuses, Terminal, IsListed
  <2>3. Missed(l, h, time) = IF l.status \in Terminal THEN l ELSE new
    BY DEF Missed, st
  <2> HIDE DEF new
  <2> QED
    BY <1>2, <2>2, <2>3
<1> QED
  BY <1>1, <1>2

LEMMA JobFacts ==
  ASSUME TypeOK, NEW w \in Writers
  PROVE  /\ job[w].fetch \in 0..Pages /\ job[w].at \in Nat /\ job[w].version \in Nat
         /\ job[w].row \in Listing /\ job[w].price \in Nat
         /\ job[w].seen \in Nat /\ job[w].mine \in Nat
BY DEF TypeOK, Job

LEMMA SnapFacts ==
  ASSUME TypeOK
  PROVE  /\ Len(snaps) \in Nat /\ DOMAIN snaps = 1..Len(snaps)
         /\ \A k \in 1..Len(snaps) : snaps[k] \in Snapshot /\ snaps[k].price \in Nat
<1>1. \A k \in 1..Len(snaps) : snaps[k] \in Snapshot
  BY DEF TypeOK
<1> QED
  BY <1>1 DEF TypeOK, Snapshot

LEMMA JobUpdates ==
  ASSUME TypeOK, NEW w \in Writers, NEW n \in Nat
  PROVE  /\ [job EXCEPT ![w].seen = n] \in [Writers -> Job]
         /\ [job EXCEPT ![w].mine = n] \in [Writers -> Job]
BY DEF TypeOK, Job

LEMMA StartTypes ==
  ASSUME TypeOK, NEW w \in Writers, NEW f \in 0..Pages, NEW l \in Listing, NEW p \in Nat,
         Start(w, NewJob(f, l, p))
  PROVE  job' \in [Writers -> Job] /\ now' \in Nat
<1>1. NewJob(f, l, p) \in Job
  BY DEF NewJob, Job, TypeOK
<1> QED
  BY <1>1 DEF Start, TypeOK

LEMMA RecordTypes ==
  ASSUME TypeOK, NEW w \in Writers, job[w].fetch \in Fetches,
         NEW o \in {"success", "parser_error"}, Record(w, o)
  PROVE  attempts' \subseteq Attempt
<1>1. [fetch |-> job[w].fetch, version |-> job[w].version, at |-> job[w].at,
       outcome |-> o] \in Attempt
  BY JobFacts DEF Attempt
<1> QED
  BY <1>1 DEF Record, TypeOK

LEMMA NoListingType == NoListing \in Listing /\ NoPrice \in Nat
BY DEF NoListing, Listing, NoPrice

LEMMA TypeInit == Init => TypeOK
BY NoListingType, HistoryAssumption DEF Init, TypeOK, NoJob, Job, Fetches

(* The steps a process makes on its page keep the types.                   *)
LEMMA TypeHandlePage ==
  ASSUME TypeOK, NEW w \in Writers, ReadInv(w), MineInv(w), DueInv(w), HandlePage(w)
  PROVE  TypeOK'
<1> USE DEF OnPage, AfterRow
<1>0. pc[w] \in OnPage => /\ job[w].fetch \in Fetches
                         /\ PriceOf[job[w].fetch] \in Nat
                         /\ Report[job[w].fetch] \in Reports
  BY HistoryAssumption DEF ReadInv, Fetches
<1>1. CASE ParseFails(w)
  BY <1>0, <1>1, RecordTypes DEF ParseFails, TypeOK, Finish, Goto, rows
<1>2. CASE ReadRow(w)
  BY <1>2 DEF ReadRow, TypeOK, Goto, Job, rows
<1>3. CASE WriteRow(w)
  <2>1. row' \in Listing
    BY <1>0, <1>3, JobFacts, ListingRules DEF WriteRow
  <2> QED
    BY <1>0, <1>3, <2>1 DEF WriteRow, TypeOK, Goto, rows
<1>4. CASE ReadSnapshots(w)
  <2>1. PICK k \in Nat : job' = [job EXCEPT ![w].seen = k]
    <3>1. \A k \in (IF snaps = << >> THEN {0} ELSE Newest) : k \in Nat
      BY SnapFacts DEF Newest
    <3> QED
      BY <1>4, <3>1 DEF ReadSnapshots
  <2>2. job' \in [Writers -> Job]
    BY <2>1, JobUpdates
  <2> QED
    BY <1>4, <2>2 DEF ReadSnapshots, TypeOK, Goto, rows
<1>5. CASE WriteSnapshot(w)
  <2> DEFINE new == [fetch |-> job[w].fetch, at |-> job[w].at, price |-> PriceOf[job[w].fetch]]
  <2>1. new \in Snapshot
    BY <1>0, <1>5, JobFacts DEF WriteSnapshot, Snapshot
  <2>2. snaps' = Append(snaps, new)
    BY <1>5 DEF WriteSnapshot
  <2> HIDE DEF new
  <2>3. snaps' \in Seq(Snapshot)
    BY <2>1, <2>2 DEF TypeOK
  <2>4. job' \in [Writers -> Job]
    <3>1. Len(snaps) + 1 \in Nat
      BY SnapFacts
    <3> QED
      BY <1>5, <3>1, JobUpdates DEF WriteSnapshot
  <2> QED
    BY <1>5, <2>3, <2>4 DEF WriteSnapshot, TypeOK, Goto, rows
<1>6. CASE WriteChange(w)
  <2> DEFINE new == [old |-> snaps[job[w].seen].price, new |-> PriceOf[job[w].fetch],
                     snap |-> job[w].mine]
  <2>1. job[w].seen \in DOMAIN snaps
    BY <1>6, JobFacts DEF WriteChange, DueInv, PriceMoved, ReadInv, TypeOK
  <2>2. snaps[job[w].seen].price \in Nat
    BY <2>1, SnapFacts
  <2>3. new \in Change
    BY <1>0, <1>6, <2>2, JobFacts DEF Change, WriteChange
  <2>4. changes' \subseteq Change
    BY <1>6, <2>3 DEF WriteChange, TypeOK
  <2> QED
    BY <1>6, <2>4 DEF WriteChange, TypeOK, Goto, rows
<1>7. CASE RecordSuccess(w)
  BY <1>0, <1>7, RecordTypes DEF RecordSuccess, TypeOK, Finish, Goto, rows
<1>8. CASE UpsertFails(w)
  BY <1>0, <1>8, RecordTypes DEF UpsertFails, TypeOK, Finish, Goto, rows
<1> QED
  BY <1>1, <1>2, <1>3, <1>4, <1>5, <1>6, <1>7, <1>8 DEF HandlePage

LEMMA TypeNext ==
  ASSUME HistoryInv, [Next]_vars
  PROVE  TypeOK'
<1>0. TypeOK
  BY DEF HistoryInv
<1>1. CASE Deploy
  BY <1>0, <1>1 DEF Deploy, TypeOK, rows
<1>2. CASE StartScrape
  <2>1. Start("scrape", NewJob(arrived + 1, NoListing, NoPrice)) /\ arrived + 1 \in 0..Pages
    BY <1>0, <1>2, HistoryAssumption DEF StartScrape, TypeOK
  <2>2. job' \in [Writers -> Job] /\ now' \in Nat
    BY <1>0, <2>1, StartTypes, NoListingType DEF Writers
  <2> QED
    BY <1>0, <1>2, <2>1, <2>2 DEF StartScrape, TypeOK, rows, Goto
<1>3. CASE StartMissed
  <2>1. Start("scrape", NewJob(0, row, price)) /\ 0 \in 0..Pages
    BY <1>3, HistoryAssumption DEF StartMissed
  <2>2. job' \in [Writers -> Job] /\ now' \in Nat
    BY <1>0, <2>1, StartTypes DEF Writers, TypeOK
  <2> QED
    BY <1>0, <1>3, <2>2 DEF StartMissed, TypeOK, rows, Goto
<1>4. CASE ApplyMissedRun
  <2>1. /\ job["scrape"].row \in Listing /\ IsListed(job["scrape"].row)
        /\ job["scrape"].at \in Nat /\ job["scrape"].price \in Nat
    BY <1>0, <1>4, JobFacts DEF ApplyMissedRun, HistoryInv, ReadInv, Writers
  <2>2. row' \in Listing /\ price' \in Nat
    BY <1>0, <1>4, <2>1, ListingRules DEF ApplyMissedRun, rows, TypeOK
  <2> QED
    BY <1>0, <1>4, <2>2 DEF ApplyMissedRun, TypeOK, Goto
<1>5. CASE HandlePage("scrape")
  BY <1>5, TypeHandlePage DEF HistoryInv, Writers
<1>6. CASE StartBackfill
  <2>1. Start("backfill", NewJob(0, NoListing, NoPrice)) /\ 0 \in 0..Pages
    BY <1>6, HistoryAssumption DEF StartBackfill
  <2>2. job' \in [Writers -> Job] /\ now' \in Nat
    BY <1>0, <2>1, StartTypes, NoListingType DEF Writers
  <2>3. Eligible(version) \subseteq Fetches
    BY <1>0, HistoryAssumption DEF Eligible, Fetches, TypeOK
  <2> QED
    BY <1>0, <1>6, <2>2, <2>3 DEF StartBackfill, TypeOK, rows, Goto
<1>7. CASE BackfillEnds
  BY <1>0, <1>7 DEF BackfillEnds, TypeOK, rows, Goto
<1>8. CASE HandlePage("backfill")
  BY <1>8, TypeHandlePage DEF HistoryInv, Writers
<1>9. ASSUME NEW f \in Fetches, Load(f)
      PROVE  TypeOK'
  <2>1. job' \in [Writers -> Job]
    <3>1. f \in 0..Pages /\ 0 \in Nat
      BY <1>9, HistoryAssumption DEF Fetches
    <3>2. job' = [job EXCEPT !["backfill"].fetch = f, !["backfill"].seen = 0]
      BY <1>9 DEF Load
    <3> QED
      BY <1>0, <3>1, <3>2 DEF TypeOK, Job, Writers
  <2> QED
    BY <1>0, <1>9, <2>1 DEF Load, TypeOK, rows, Goto
<1>10. ASSUME NEW w \in Writers, Crash(w)
       PROVE  TypeOK'
  BY <1>0, <1>10 DEF Crash, TypeOK, rows, Goto
<1>11. CASE UNCHANGED vars
  BY <1>0, <1>11 DEF vars, rows, TypeOK
<1> QED
  BY <1>1, <1>2, <1>3, <1>4, <1>5, <1>6, <1>7, <1>8, <1>9, <1>10, <1>11
     DEF Next, BackfillStep

-----------------------------------------------------------------------------
(* A step outside the handling of a page.                                  *)
OtherStep ==
  \/ Deploy \/ StartScrape \/ StartMissed \/ ApplyMissedRun
  \/ StartBackfill \/ BackfillEnds \/ (\E f \in Fetches : Load(f))
  \/ (\E w \in Writers : Crash(w)) \/ UNCHANGED vars

LEMMA Steps ==
  ASSUME [Next]_vars
  PROVE  OtherStep \/ \E w \in Writers : HandlePage(w)
BY DEF Next, BackfillStep, OtherStep, Writers

(* What OtherStep does to process v: nothing, or it leaves the page, or it *)
(* takes up a page or a missed listing with nothing read.                  *)
Turns(v) ==
  \/ pc'[v] = pc[v] /\ job'[v] = job[v]
  \/ pc'[v] \in {"idle", "next"} /\ job'[v].seen \in {0, job[v].seen}
  \/ pc'[v] = "parse" /\ job'[v].fetch \in Fetches /\ job'[v].seen = 0
  \/ pc'[v] = "missed" /\ IsListed(job'[v].row) /\ job'[v].seen = 0

LEMMA OtherSteps ==
  ASSUME HistoryInv, OtherStep
  PROVE  /\ UNCHANGED <<snaps, changes, attempts>>
         /\ IsListed(row) => IsListed(row')
         /\ \A v \in Writers : Turns(v)
<1> USE DEF Turns
<1>0. TypeOK
  BY DEF HistoryInv
<1>1. CASE Deploy \/ UNCHANGED vars
  BY <1>1 DEF Deploy, vars, rows
<1>2. CASE StartScrape
  BY <1>0, <1>2, HistoryAssumption DEF StartScrape, Start, NewJob, Goto, rows, TypeOK, Fetches
<1>3. CASE StartMissed
  BY <1>0, <1>3 DEF StartMissed, Start, NewJob, Goto, rows, TypeOK
<1>4. CASE ApplyMissedRun
  <2>1. /\ job["scrape"].row \in Listing /\ IsListed(job["scrape"].row)
        /\ job["scrape"].at \in Nat
    BY <1>0, <1>4, JobFacts DEF ApplyMissedRun, HistoryInv, ReadInv, Writers
  <2>2. IsListed(row) => IsListed(row')
    BY <1>4, <2>1, ListingRules DEF ApplyMissedRun, rows
  <2> QED
    BY <1>0, <1>4, <2>2 DEF ApplyMissedRun, Goto, TypeOK
<1>5. CASE StartBackfill
  BY <1>0, <1>5 DEF StartBackfill, Start, NewJob, Goto, rows, TypeOK
<1>6. CASE BackfillEnds
  BY <1>0, <1>6 DEF BackfillEnds, Goto, rows, TypeOK
<1>7. ASSUME NEW f \in Fetches, Load(f)
      PROVE  /\ UNCHANGED <<snaps, changes, attempts, row>>
             /\ \A v \in Writers : Turns(v)
  <2>1. job["backfill"] \in Job
    BY <1>0 DEF TypeOK, Writers
  <2>2. job'["backfill"].fetch = f /\ job'["backfill"].seen = 0
    BY <1>0, <1>7, <2>1 DEF Load, TypeOK, Job, Writers
  <2>3. \A v \in Writers \ {"backfill"} : job'[v] = job[v] /\ pc'[v] = pc[v]
    BY <1>0, <1>7 DEF Load, Goto, TypeOK
  <2>4. pc'["backfill"] \in {"next", "parse"}
    BY <1>0, <1>7 DEF Load, Goto, TypeOK, Writers
  <2> QED
    BY <1>7, <2>2, <2>3, <2>4 DEF Load, rows
<1>8. ASSUME NEW w \in Writers, Crash(w)
      PROVE  /\ UNCHANGED <<snaps, changes, attempts, row>>
             /\ \A v \in Writers : Turns(v)
  BY <1>0, <1>8 DEF Crash, Goto, rows, TypeOK
<1> QED
  BY <1>1, <1>2, <1>3, <1>4, <1>5, <1>6, <1>7, <1>8 DEF OtherStep

(* The invariants that OtherStep keeps, all at once.                       *)
LEMMA OtherKeeps ==
  ASSUME HistoryInv, OtherStep
  PROVE  /\ \A v \in Writers : ReadInv(v)' /\ MineInv(v)' /\ DueInv(v)'
         /\ ChangesAreReal'
         /\ SuccessHasSnapshot'
<1>1. /\ snaps' = snaps /\ changes' = changes /\ attempts' = attempts
      /\ IsListed(row) => IsListed(row')
      /\ \A v \in Writers : Turns(v)
  BY OtherSteps
<1>2. ASSUME NEW v \in Writers
      PROVE  ReadInv(v)'
  <2>1. ReadInv(v) /\ Turns(v) /\ job[v].seen \in Nat /\ Len(snaps) \in Nat
    BY <1>1, JobFacts, SnapFacts DEF HistoryInv
  <2> QED
    BY <1>1, <2>1 DEF ReadInv, Turns, OnPage, AfterRow
<1>3. ASSUME NEW v \in Writers
      PROVE  MineInv(v)'
  BY <1>1, <1>3 DEF MineInv, Turns, HistoryInv
<1>4. ASSUME NEW v \in Writers
      PROVE  DueInv(v)'
  BY <1>1, <1>4 DEF DueInv, PriceMoved, Turns, HistoryInv
<1>5. ChangesAreReal'
  BY <1>1 DEF ChangesAreReal, HistoryInv, Priced
<1>6. SuccessHasSnapshot'
  BY <1>1 DEF SuccessHasSnapshot, HistoryInv
<1> QED
  BY <1>2, <1>3, <1>4, <1>5, <1>6

-----------------------------------------------------------------------------
(* WriteSnapshot adds one snapshot at the end and keeps the others.        *)
LEMMA Appended ==
  ASSUME HistoryInv, NEW w \in Writers, WriteSnapshot(w)
  PROVE  /\ Len(snaps) \in Nat /\ Len(snaps') = Len(snaps) + 1
         /\ \A k \in 1..Len(snaps) : snaps'[k] = snaps[k]
         /\ snaps'[Len(snaps) + 1] = [fetch |-> job[w].fetch, at |-> job[w].at,
                                      price |-> PriceOf[job[w].fetch]]
         /\ DOMAIN snaps = 1..Len(snaps) /\ DOMAIN snaps' = 1..Len(snaps')
         /\ job'[w] = [job[w] EXCEPT !.mine = Len(snaps) + 1]
         /\ job'[w].mine = Len(snaps) + 1
<1> DEFINE new == [fetch |-> job[w].fetch, at |-> job[w].at, price |-> PriceOf[job[w].fetch]]
<1>0. TypeOK
  BY DEF HistoryInv
<1>1. new \in Snapshot
  BY <1>0, JobFacts, HistoryAssumption
     DEF WriteSnapshot, Snapshot, HistoryInv, ReadInv, OnPage, AfterRow, Fetches
<1>2. snaps' = Append(snaps, new) /\ snaps \in Seq(Snapshot)
  BY <1>0 DEF WriteSnapshot, TypeOK
<1>3. job'[w] = [job[w] EXCEPT !.mine = Len(snaps) + 1]
  BY <1>0 DEF WriteSnapshot, TypeOK
<1>4. job[w] \in Job
  BY <1>0 DEF TypeOK
<1>5. job'[w].mine = Len(snaps) + 1
  BY <1>3, <1>4 DEF Job
<1> HIDE DEF new
<1>6. /\ Len(snaps) \in Nat /\ Len(snaps') = Len(snaps) + 1
      /\ \A k \in 1..Len(snaps) : snaps'[k] = snaps[k]
      /\ snaps'[Len(snaps) + 1] = new
      /\ DOMAIN snaps = 1..Len(snaps) /\ DOMAIN snaps' = 1..Len(snaps')
  BY <1>1, <1>2
<1> QED
  BY <1>3, <1>5, <1>6 DEF new

(* A step on a page by w: the other process is not touched, snapshots are  *)
(* only appended, the row is not deleted.                                  *)
LEMMA PageSteps ==
  ASSUME HistoryInv, NEW w \in Writers, HandlePage(w)
  PROVE  /\ \A v \in Writers \ {w} : pc'[v] = pc[v] /\ job'[v] = job[v]
         /\ Len(snaps) \in Nat /\ Len(snaps') \in Nat /\ Len(snaps) <= Len(snaps')
         /\ \A k \in 1..Len(snaps) : snaps'[k] = snaps[k]
         /\ DOMAIN snaps = 1..Len(snaps) /\ DOMAIN snaps' = 1..Len(snaps')
         /\ IsListed(row) => IsListed(row')
<1>0. TypeOK
  BY DEF HistoryInv
<1>1. \A v \in Writers \ {w} : pc'[v] = pc[v] /\ job'[v] = job[v]
  BY <1>0 DEF HandlePage, ParseFails, ReadRow, WriteRow, ReadSnapshots, WriteSnapshot,
              WriteChange, RecordSuccess, UpsertFails, Finish, Goto, TypeOK
<1>2. CASE WriteSnapshot(w)
  BY <1>1, <1>2, Appended DEF WriteSnapshot, rows
<1>3. CASE ~WriteSnapshot(w)
  <2>1. snaps' = snaps
    BY <1>3 DEF HandlePage, ParseFails, ReadRow, WriteRow, ReadSnapshots,
                WriteChange, RecordSuccess, UpsertFails
  <2>2. IsListed(row) => IsListed(row')
    <3>1. CASE WriteRow(w)
      <4>1. Report[job[w].fetch] \in Reports
        BY <3>1, HistoryAssumption DEF HistoryInv, ReadInv, OnPage, Fetches, WriteRow
      <4> QED
        BY <1>0, <3>1, <4>1, JobFacts, ListingRules DEF WriteRow
    <3>2. CASE ~WriteRow(w)
      <4>1. row' = row
        BY <1>3, <3>2 DEF HandlePage, ParseFails, ReadRow, ReadSnapshots,
                          WriteChange, RecordSuccess, UpsertFails, rows
      <4> QED
        BY <4>1
    <3> QED
      BY <3>1, <3>2
  <2> QED
    BY <1>0, <1>1, <2>1, <2>2, SnapFacts
<1> QED
  BY <1>2, <1>3

LEMMA ReadNext ==
  ASSUME HistoryInv, NEW w \in Writers, HandlePage(w), NEW v \in Writers
  PROVE  ReadInv(v)'
<1> USE DEF OnPage, AfterRow
<1>0. /\ TypeOK /\ ReadInv(v) /\ ReadInv(w) /\ job[v] \in Job
      /\ job[v].seen \in Nat /\ Len(snaps) \in Nat
  BY JobFacts, SnapFacts DEF HistoryInv, TypeOK
<1>1. CASE v # w
  BY <1>0, <1>1, PageSteps DEF ReadInv
<1>2. CASE v = w
  <2>1. CASE ParseFails(w) \/ WriteChange(w) \/ RecordSuccess(w) \/ UpsertFails(w)
    BY <1>0, <1>2, <2>1, PageSteps
       DEF ParseFails, WriteChange, RecordSuccess, UpsertFails, Finish, Goto, TypeOK, ReadInv
  <2>2. CASE ReadRow(w)
    BY <1>0, <1>2, <2>2, PageSteps DEF ReadRow, Goto, TypeOK, ReadInv, Job
  <2>3. CASE WriteRow(w)
    <3>1. Report[job[w].fetch] \in Reports
      BY <1>0, <2>3, HistoryAssumption DEF ReadInv, Fetches, WriteRow
    <3>2. IsListed(row')
      BY <1>0, <2>3, <3>1, JobFacts, ListingRules DEF WriteRow
    <3> QED
      BY <1>0, <1>2, <2>3, <3>2, PageSteps DEF WriteRow, Goto, TypeOK, ReadInv
  <2>4. CASE ReadSnapshots(w)
    <3>1. PICK k \in 0..Len(snaps) : job' = [job EXCEPT ![w].seen = k]
      <4>1. \A k \in (IF snaps = << >> THEN {0} ELSE Newest) : k \in 0..Len(snaps)
        BY <1>0, SnapFacts DEF Newest
      <4> QED
        BY <2>4, <4>1 DEF ReadSnapshots
    <3>2. job'[w] = [job[w] EXCEPT !.seen = k]
      BY <1>0, <3>1 DEF TypeOK
    <3>3. job'[w].seen = k /\ job'[w].fetch = job[w].fetch
      BY <1>0, <1>2, <3>2 DEF Job
    <3> QED
      BY <1>0, <1>2, <2>4, <3>3, PageSteps DEF ReadSnapshots, Goto, TypeOK, ReadInv, rows
  <2>5. CASE WriteSnapshot(w)
    <3>1. job'[w].seen = job[w].seen /\ job'[w].fetch = job[w].fetch
      BY <1>0, <1>2, <2>5, Appended DEF Job
    <3> QED
      BY <1>0, <1>2, <2>5, <3>1, PageSteps DEF WriteSnapshot, Goto, TypeOK, ReadInv, rows
  <2> QED
    BY <2>1, <2>2, <2>3, <2>4, <2>5 DEF HandlePage
<1> QED
  BY <1>1, <1>2

LEMMA MineNext ==
  ASSUME HistoryInv, NEW w \in Writers, HandlePage(w), NEW v \in Writers
  PROVE  MineInv(v)'
<1>0. /\ TypeOK /\ MineInv(v) /\ job[v] \in Job /\ Len(snaps) \in Nat
      /\ DOMAIN snaps = 1..Len(snaps)
  BY SnapFacts DEF HistoryInv, TypeOK
<1>1. CASE v # w
  BY <1>0, <1>1, PageSteps DEF MineInv
<1>2. CASE v = w
  <2>1. CASE ParseFails(w) \/ ReadRow(w) \/ WriteRow(w) \/ ReadSnapshots(w) \/ RecordSuccess(w)
             \/ UpsertFails(w)
    <3>1. pc'[w] \notin {"change", "attempt"}
      BY <1>0, <2>1 DEF ParseFails, ReadRow, WriteRow, ReadSnapshots, RecordSuccess,
                        UpsertFails, Finish, Goto, TypeOK
    <3> QED
      BY <1>2, <3>1 DEF MineInv
  <2>2. CASE WriteChange(w)
    BY <1>0, <1>2, <2>2 DEF WriteChange, Goto, TypeOK, MineInv
  <2>3. CASE WriteSnapshot(w)
    <3>1. /\ job'[w].mine = Len(snaps) + 1
          /\ job'[w].fetch = job[w].fetch /\ job'[w].at = job[w].at
      BY <1>0, <1>2, <2>3, Appended DEF Job
    <3>2. /\ snaps'[job'[w].mine].fetch = job'[w].fetch
          /\ snaps'[job'[w].mine].at = job'[w].at
          /\ snaps'[job'[w].mine].price = PriceOf[job'[w].fetch]
          /\ job'[w].mine \in DOMAIN snaps'
      <4> DEFINE n == Len(snaps) + 1
      <4>1. snaps'[n] = [fetch |-> job[w].fetch, at |-> job[w].at,
                         price |-> PriceOf[job[w].fetch]]
        BY <2>3, Appended
      <4>2. n \in DOMAIN snaps'
        <5>1. DOMAIN snaps' = 1..(Len(snaps) + 1)
          BY <2>3, Appended
        <5> QED
          BY <1>0, <5>1
      <4>3. job'[w].mine = n
        BY <3>1
      <4> HIDE DEF n
      <4> QED
        BY <3>1, <4>1, <4>2, <4>3
    <3> QED
      BY <1>2, <3>2 DEF MineInv
  <2> QED
    BY <2>1, <2>2, <2>3 DEF HandlePage
<1> QED
  BY <1>1, <1>2

(* The argument of ChangesAreReal.  The pair DueInv of the two processes   *)
(* is what lets them interleave: each is bound to a snapshot of its own.   *)
LEMMA DueNext ==
  ASSUME HistoryInv, NEW w \in Writers, HandlePage(w), NEW v \in Writers
  PROVE  DueInv(v)'
<1> SUFFICES ASSUME pc'[v] = "change"
             PROVE  DueInv(v)'
  BY DEF DueInv
<1>0. /\ TypeOK /\ job[v] \in Job /\ job[w] \in Job /\ Len(snaps) \in Nat
      /\ DOMAIN snaps = 1..Len(snaps)
      /\ \A u \in Writers : DueInv(u) /\ MineInv(u) /\ ReadInv(u) /\ job[u].seen \in Nat
                             /\ job[u].mine \in Nat
      /\ \A c \in changes : c.snap \in 1..Len(snaps)
  BY SnapFacts, JobFacts DEF HistoryInv, TypeOK, ChangesAreReal
<1>1. CASE v = w
  <2>1. WriteSnapshot(w)
    BY <1>0, <1>1 DEF HandlePage, ParseFails, ReadRow, WriteRow, ReadSnapshots, WriteChange,
                      RecordSuccess, UpsertFails, Finish, Goto, TypeOK
  <2>2. /\ job'[w].mine = Len(snaps) + 1 /\ job'[w].seen = job[w].seen
        /\ job'[w].fetch = job[w].fetch
    BY <1>0, <2>1, Appended DEF Job
  <2>3. PriceMoved(w) /\ changes' = changes
    BY <1>0, <1>1, <2>1 DEF WriteSnapshot, Goto, TypeOK
  <2>4. job[w].seen \in 1..Len(snaps)
    BY <1>0, <2>3 DEF PriceMoved, ReadInv
  <2>5. PriceMoved(w)'
    BY <2>1, <2>2, <2>3, <2>4, Appended DEF PriceMoved
  <2>6. \A u \in Writers \ {w} : pc'[u] = "change" => job'[u].mine # job'[w].mine
    BY <1>0, <2>2, PageSteps DEF MineInv
  <2> QED
    BY <1>0, <1>1, <2>2, <2>3, <2>4, <2>5, <2>6 DEF DueInv
<1>2. CASE v # w
  <2>1. /\ pc[v] = "change" /\ job'[v] = job[v] /\ DueInv(v) /\ MineInv(v)
        /\ job[v].seen \in 1..Len(snaps) /\ job[v].mine \in 1..Len(snaps)
    BY <1>0, <1>2, PageSteps DEF DueInv, PriceMoved, ReadInv, MineInv
  <2>2. PriceMoved(v)'
    BY <2>1, PageSteps DEF PriceMoved, DueInv
  <2>3. \A c \in changes' : c.snap # job'[v].mine
    <3>1. CASE WriteChange(w)
      <4>1. \A c \in changes' : c \in changes \/ c.snap = job[w].mine
        BY <3>1 DEF WriteChange
      <4>2. job[w].mine # job[v].mine
        BY <1>2, <2>1, <3>1 DEF WriteChange, DueInv
      <4> QED
        BY <2>1, <4>1, <4>2 DEF DueInv
    <3>2. CASE ~WriteChange(w)
      <4>1. changes' = changes
        BY <3>2 DEF HandlePage, ParseFails, ReadRow, WriteRow, ReadSnapshots, WriteSnapshot,
                    RecordSuccess, UpsertFails
      <4> QED
        BY <2>1, <4>1 DEF DueInv
    <3> QED
      BY <3>1, <3>2
  <2>4. pc'[w] = "change" => job'[w].mine # job'[v].mine
    <3> HAVE pc'[w] = "change"
    <3>1. WriteSnapshot(w)
      BY <1>0 DEF HandlePage, ParseFails, ReadRow, WriteRow, ReadSnapshots, WriteChange,
                        RecordSuccess, UpsertFails, Finish, Goto, TypeOK
    <3>2. job'[w].mine = Len(snaps) + 1
      BY <3>1, Appended
    <3> QED
      BY <1>0, <2>1, <3>2
  <2>5. \A u \in Writers \ {v} : pc'[u] = "change" => job'[u].mine # job'[v].mine
    BY <2>1, <2>4, PageSteps DEF DueInv
  <2> QED
    BY <2>1, <2>2, <2>3, <2>5 DEF DueInv
<1> QED
  BY <1>1, <1>2

(* A change keeps what it says of its snapshot, and a new one is the first *)
(* of its snapshot.                                                        *)
LEMMA ChangesNext ==
  ASSUME HistoryInv, NEW w \in Writers, HandlePage(w)
  PROVE  ChangesAreReal'
<1>0. /\ TypeOK /\ Len(snaps) \in Nat /\ DOMAIN snaps = 1..Len(snaps)
      /\ DueInv(w) /\ MineInv(w) /\ ReadInv(w) /\ job[w].seen \in Nat /\ job[w].mine \in Nat
  BY SnapFacts, JobFacts DEF HistoryInv
<1>1. /\ \A c \in changes : c.snap \in 1..Len(snaps)
      /\ ChangesAreReal
  BY <1>0 DEF HistoryInv, ChangesAreReal
<1>2. CASE ~WriteChange(w)
  <2>1. changes' = changes
    BY <1>2 DEF HandlePage, ParseFails, ReadRow, WriteRow, ReadSnapshots, WriteSnapshot,
                RecordSuccess, UpsertFails
  <2>2. ASSUME NEW c \in changes
        PROVE  /\ c.snap \in DOMAIN snaps' /\ c.new = snaps'[c.snap].price /\ c.old # c.new
               /\ \E k \in 1..(c.snap - 1) : snaps'[k].price # NoPrice /\ snaps'[k].price = c.old
    <3>1. c.snap \in 1..Len(snaps)
      BY <1>1, <2>2
    <3>2. PICK k \in 1..(c.snap - 1) : Priced(k) /\ snaps[k].price = c.old
      BY <1>1, <2>2 DEF ChangesAreReal
    <3>3. k \in 1..Len(snaps)
      BY <1>0, <3>1, <3>2
    <3>4. snaps'[k] = snaps[k] /\ snaps'[c.snap] = snaps[c.snap]
      BY <3>1, <3>3, PageSteps
    <3>5. c.snap \in DOMAIN snaps'
      <4>1. DOMAIN snaps' = 1..Len(snaps') /\ Len(snaps) <= Len(snaps') /\ Len(snaps') \in Nat
        BY PageSteps
      <4> QED
        BY <1>0, <3>1, <4>1
    <3> QED
      BY <1>1, <2>2, <3>2, <3>4, <3>5 DEF ChangesAreReal, Priced
  <2> QED
    BY <1>1, <2>1, <2>2 DEF ChangesAreReal, Priced
<1>3. CASE WriteChange(w)
  <2> DEFINE new == [old |-> snaps[job[w].seen].price, new |-> PriceOf[job[w].fetch],
                     snap |-> job[w].mine]
  <2>1. snaps' = snaps /\ changes' \subseteq changes \cup {new} /\ pc[w] = "change"
    BY <1>3 DEF WriteChange
  <2>2. /\ job[w].mine \in DOMAIN snaps
        /\ snaps[job[w].mine].price = PriceOf[job[w].fetch]
        /\ PriceMoved(w) /\ job[w].seen < job[w].mine
        /\ \A c \in changes : c.snap # job[w].mine
    BY <1>0, <2>1 DEF MineInv, DueInv
  <2>3. job[w].seen \in 1..(job[w].mine - 1)
    BY <1>0, <2>2 DEF PriceMoved
  <2>4. /\ new.snap \in DOMAIN snaps /\ new.new = snaps[new.snap].price /\ new.old # new.new
        /\ \E k \in 1..(new.snap - 1) : Priced(k) /\ snaps[k].price = new.old
    BY <2>2, <2>3 DEF PriceMoved, Priced
  <2>5. \A c \in changes : c.snap # new.snap
    BY <2>2
  <2> HIDE DEF new
  <2>6. \A c \in changes' : \/ c \in changes
                           \/ c = new
    BY <2>1
  <2> QED
    BY <1>1, <2>1, <2>4, <2>5, <2>6 DEF ChangesAreReal, Priced
<1> QED
  BY <1>2, <1>3

LEMMA SuccessNext ==
  ASSUME HistoryInv, NEW w \in Writers, HandlePage(w)
  PROVE  SuccessHasSnapshot'
<1> DEFINE HasSnapshot(a) == \E k \in DOMAIN snaps : snaps[k].fetch = a.fetch /\ snaps[k].at = a.at
<1>0. /\ TypeOK /\ Len(snaps) \in Nat /\ DOMAIN snaps = 1..Len(snaps)
      /\ MineInv(w) /\ ReadInv(w) /\ ReadInv(w)' /\ SuccessHasSnapshot
  BY SnapFacts, ReadNext DEF HistoryInv
<1>1. ASSUME NEW a \in attempts', a.outcome = "success"
      PROVE  HasSnapshot(a)
  <2>1. CASE a \in attempts
    BY <1>0, <1>1, <2>1 DEF SuccessHasSnapshot
  <2>2. CASE a \notin attempts
    <3>1. RecordSuccess(w)
      BY <1>1, <2>2 DEF HandlePage, ParseFails, ReadRow, WriteRow, ReadSnapshots, WriteSnapshot,
                        WriteChange, RecordSuccess, UpsertFails, Record
    <3>2. a.fetch = job[w].fetch /\ a.at = job[w].at
      BY <1>1, <2>2, <3>1 DEF RecordSuccess, Record
    <3> QED
      BY <1>0, <3>1, <3>2 DEF RecordSuccess, MineInv
  <2> QED
    BY <2>1, <2>2
<1>2. ASSUME NEW a \in attempts', HasSnapshot(a)
      PROVE  HasSnapshot(a)'
  <2>1. PICK k \in 1..Len(snaps) : snaps[k].fetch = a.fetch /\ snaps[k].at = a.at
    BY <1>0, <1>2
  <2>2. snaps'[k] = snaps[k] /\ k \in DOMAIN snaps'
    BY <1>0, PageSteps
  <2> QED
    BY <2>1, <2>2
<1>3. snaps' # << >> => IsListed(row')
  <2>1. CASE WriteSnapshot(w)
    BY <1>0, <2>1, PageSteps DEF WriteSnapshot, ReadInv, AfterRow
  <2>2. CASE ~WriteSnapshot(w)
    <3>1. snaps' = snaps
      BY <2>2 DEF HandlePage, ParseFails, ReadRow, WriteRow, ReadSnapshots,
                  WriteChange, RecordSuccess, UpsertFails
    <3> QED
      BY <1>0, <3>1, PageSteps DEF SuccessHasSnapshot
  <2> QED
    BY <2>1, <2>2
<1> QED
  BY <1>1, <1>2, <1>3 DEF SuccessHasSnapshot

-----------------------------------------------------------------------------
LEMMA HistoryInit == Init => HistoryInv
<1> SUFFICES ASSUME Init
             PROVE  HistoryInv
  OBVIOUS
<1>1. TypeOK
  BY TypeInit
<1>2. /\ snaps = << >> /\ changes = {} /\ attempts = {}
      /\ \A w \in Writers : pc[w] = "idle" /\ job[w].seen = 0
  BY DEF Init, NoJob
<1> QED
  BY <1>1, <1>2 DEF HistoryInv, ReadInv, MineInv, DueInv, OnPage, AfterRow, ChangesAreReal,
                    SuccessHasSnapshot

LEMMA HistoryNext == HistoryInv /\ [Next]_vars => HistoryInv'
<1> SUFFICES ASSUME HistoryInv, [Next]_vars
             PROVE  HistoryInv'
  OBVIOUS
<1>1. TypeOK'
  BY TypeNext
<1>2. CASE OtherStep
  BY <1>1, <1>2, OtherKeeps DEF HistoryInv
<1>3. ASSUME NEW w \in Writers, HandlePage(w)
      PROVE  HistoryInv'
  BY <1>1, <1>3, ReadNext, MineNext, DueNext, ChangesNext, SuccessNext DEF HistoryInv
<1> QED
  BY <1>2, <1>3, Steps

(* What the processes hold and what the database holds agree, at every     *)
(* step of every interleaving.                                             *)
THEOREM HistoryCorrect == Spec => []HistoryInv
BY HistoryInit, HistoryNext, PTL DEF Spec

(* Every variable of the history keeps its type.                           *)
THEOREM TypeCorrect == Spec => []TypeOK
<1>1. HistoryInv => TypeOK
  BY DEF HistoryInv
<1> QED
  BY <1>1, HistoryCorrect, PTL

(* However the scraper and the backfill interleave in UpsertFromParsed,    *)
(* and whatever fails, a price change leads from the known price of an     *)
(* earlier snapshot to the different price of its own, once per snapshot.  *)
THEOREM ChangesCorrect == Spec => []ChangesAreReal
<1>1. HistoryInv => ChangesAreReal
  BY DEF HistoryInv
<1> QED
  BY <1>1, HistoryCorrect, PTL

(* An attempt recorded as success has the snapshot of its run, and a       *)
(* snapshot has its listing.                                               *)
THEOREM SuccessCorrect == Spec => []SuccessHasSnapshot
<1>1. HistoryInv => SuccessHasSnapshot
  BY DEF HistoryInv
<1> QED
  BY <1>1, HistoryCorrect, PTL
-----------------------------------------------------------------------------
(* In a calm history at most one process is not at rest, its run is the    *)
(* latest, ...                                                             *)
AloneInv(w) ==
  pc[w] # "idle" => job[w].at + 1 = now /\ \A v \in Writers \ {w} : pc[v] = "idle"

(* ... what it has read is what the database still holds, ...              *)
CurrentInv(w) ==
  /\ pc[w] \in {"row", "missed"} => job[w].row = row /\ job[w].price = price
  /\ pc[w] \in {"parse", "row", "snaps"} => job[w].seen = 0
  /\ pc[w] \in {"snaps", "snapshot"} => price = PriceOf[job[w].fetch]
  /\ pc[w] = "snapshot" => (job[w].seen = 0 /\ snaps = << >>) \/ job[w].seen \in Newest
  /\ pc[w] = "change" =>
       \A m \in 1..(job[w].mine - 1) : snaps[m].at <= snaps[job[w].seen].at

(* ... everything stored is older than the next run, ...                   *)
DatedInv ==
  /\ \A k \in DOMAIN snaps : snaps[k].at < now
  /\ \A a \in attempts : a.at < now

(* ... the row shows a newest snapshot, but while one is on its way, ...   *)
ShownInv ==
  snaps # << >> /\ (\A w \in Writers : pc[w] \notin {"snaps", "snapshot"}) =>
    \E k \in Newest : price = snaps[k].price

(* ... and the backfill has settled every page that is not before it: one  *)
(* before it has no attempt of this run yet.                               *)
Working(f) == pc["backfill"] \in OnPage /\ job["backfill"].fetch = f
Ahead(f) == f \in queue \/ Working(f)
SettledInv ==
  pc["backfill"] # "idle" =>
    /\ \A f \in queue : ~Working(f)
    /\ \A a \in attempts : a.at = job["backfill"].at => ~Ahead(a.fetch)
    /\ \A f \in Eligible(job["backfill"].version) :
         Ahead(f) \/ job["backfill"].version \notin ParsedBy[f]

CalmInv ==
  calm =>
    /\ DatedInv /\ ShownInv /\ SettledInv
    /\ \A w \in Writers : AloneInv(w) /\ CurrentInv(w)

(* What a step on a page leaves alone.                                     *)
LEMMA PageFrame ==
  ASSUME HistoryInv, NEW w \in Writers, HandlePage(w)
  PROVE  /\ UNCHANGED <<arrived, version, queue, now, calm>>
         /\ pc[w] \in OnPage /\ job[w].fetch \in Fetches
         /\ job'[w].fetch = job[w].fetch /\ job'[w].at = job[w].at
         /\ job'[w].version = job[w].version
<1> USE DEF HandlePage, ParseFails, ReadRow, WriteRow, ReadSnapshots, WriteSnapshot,
            WriteChange, RecordSuccess, UpsertFails
<1>1. job \in [Writers -> Job] /\ ReadInv(w)
  BY DEF HistoryInv, TypeOK
<1>2. pc[w] \in OnPage
  BY DEF OnPage, AfterRow
<1>3. UNCHANGED <<arrived, version, queue, now, calm>>
  OBVIOUS
<1>4. \/ job' = job
      \/ job' = [job EXCEPT ![w].row = row, ![w].price = price]
      \/ \E k : job' = [job EXCEPT ![w].seen = k]
      \/ \E k : job' = [job EXCEPT ![w].mine = k]
  OBVIOUS
<1>5. /\ job'[w].fetch = job[w].fetch /\ job'[w].at = job[w].at
      /\ job'[w].version = job[w].version
  BY <1>1, <1>4 DEF Job
<1> QED
  BY <1>1, <1>2, <1>3, <1>5 DEF ReadInv

(* In a calm history only the process that makes the step is not at rest.  *)
LEMMA CalmPage ==
  ASSUME HistoryInv, CalmInv, calm, NEW w \in Writers, HandlePage(w)
  PROVE  /\ pc[w] \in OnPage /\ calm' /\ now' = now
         /\ job[w].at \in Nat /\ job[w].at + 1 = now /\ now \in Nat
         /\ \A v \in Writers \ {w} : pc[v] = "idle" /\ pc'[v] = "idle"
         /\ CurrentInv(w) /\ DatedInv /\ ShownInv /\ SettledInv
         /\ \A v \in Writers : AloneInv(v)'
<1>1. /\ pc[w] \in OnPage /\ calm' = calm /\ now' = now /\ job'[w].at = job[w].at
      /\ \A v \in Writers \ {w} : pc'[v] = pc[v]
  BY PageFrame, PageSteps
<1>2. pc[w] # "idle"
  BY <1>1 DEF OnPage, AfterRow
<1>3. /\ job[w].at + 1 = now /\ \A v \in Writers \ {w} : pc[v] = "idle"
      /\ CurrentInv(w) /\ DatedInv /\ ShownInv /\ SettledInv
  BY <1>2 DEF CalmInv, AloneInv
<1>4. job[w].at \in Nat /\ now \in Nat
  BY JobFacts DEF HistoryInv, TypeOK
<1>5. \A v \in Writers : AloneInv(v)'
  BY <1>1, <1>3 DEF AloneInv
<1> QED
  BY <1>1, <1>3, <1>4, <1>5

(* The snapshot WriteSnapshot adds.                                        *)
LEMMA NewSnapshot ==
  ASSUME HistoryInv, NEW w \in Writers, WriteSnapshot(w)
  PROVE  /\ Len(snaps) \in Nat /\ DOMAIN snaps = 1..Len(snaps)
         /\ DOMAIN snaps' = 1..(Len(snaps) + 1)
         /\ \A k \in 1..Len(snaps) : snaps'[k] = snaps[k]
         /\ snaps'[Len(snaps) + 1].at = job[w].at
         /\ snaps'[Len(snaps) + 1].price = PriceOf[job[w].fetch]
<1> DEFINE n == Len(snaps) + 1
<1>1. snaps'[n] = [fetch |-> job[w].fetch, at |-> job[w].at, price |-> PriceOf[job[w].fetch]]
  BY Appended
<1>2. n = Len(snaps') /\ DOMAIN snaps' = 1..Len(snaps') /\ Len(snaps) \in Nat
      /\ DOMAIN snaps = 1..Len(snaps) /\ \A k \in 1..Len(snaps) : snaps'[k] = snaps[k]
  BY Appended
<1> HIDE DEF n
<1>3. snaps'[n].at = job[w].at /\ snaps'[n].price = PriceOf[job[w].fetch]
  BY <1>1
<1> QED
  BY <1>2, <1>3 DEF n

LEMMA DatedNext ==
  ASSUME HistoryInv, CalmInv, calm, NEW w \in Writers, HandlePage(w)
  PROVE  DatedInv'
<1>1. now' = now /\ job[w].at < now /\ DatedInv
  BY CalmPage
<1>2. \A a \in attempts' : a \in attempts \/ a.at = job[w].at
  <2>1. attempts' = attempts \/ \E o : Record(w, o)
    BY DEF HandlePage, ParseFails, ReadRow, WriteRow, ReadSnapshots, WriteSnapshot,
           WriteChange, RecordSuccess, UpsertFails
  <2> QED
    BY <2>1 DEF Record
<1>3. \A k \in DOMAIN snaps' : snaps'[k].at < now
  <2>1. CASE WriteSnapshot(w)
    <3>1. \A k \in 1..Len(snaps) : snaps'[k].at < now
      BY <1>1, <2>1, NewSnapshot DEF DatedInv
    <3>2. snaps'[Len(snaps) + 1].at < now
      BY <1>1, <2>1, NewSnapshot
    <3>3. \A k \in DOMAIN snaps' : k \in 1..Len(snaps) \/ k = Len(snaps) + 1
      BY <2>1, NewSnapshot
    <3> QED
      BY <3>1, <3>2, <3>3
  <2>2. CASE ~WriteSnapshot(w)
    BY <1>1, <2>2 DEF HandlePage, ParseFails, ReadRow, WriteRow, ReadSnapshots,
                      WriteChange, RecordSuccess, UpsertFails, DatedInv
  <2> QED
    BY <2>1, <2>2
<1> QED
  BY <1>1, <1>2, <1>3 DEF DatedInv

(* A process at rest has nothing to be current.                            *)
LEMMA CurrentNext ==
  ASSUME HistoryInv, CalmInv, calm, NEW w \in Writers, HandlePage(w)
  PROVE  \A v \in Writers : CurrentInv(v)'
<1>0. /\ TypeOK /\ job[w] \in Job /\ job[w].seen \in Nat
      /\ Len(snaps) \in Nat /\ DOMAIN snaps = 1..Len(snaps)
      /\ CurrentInv(w) /\ SuccessHasSnapshot
  BY CalmPage, JobFacts, SnapFacts DEF HistoryInv, TypeOK
<1>1. \A v \in Writers \ {w} : CurrentInv(v)'
  BY CalmPage DEF CurrentInv
<1>2. CASE ParseFails(w) \/ WriteChange(w) \/ RecordSuccess(w) \/ UpsertFails(w)
  <2>1. pc'[w] \in {"idle", "next", "attempt"}
    BY <1>0, <1>2 DEF ParseFails, WriteChange, RecordSuccess, UpsertFails, Finish, Goto, TypeOK
  <2> QED
    BY <1>1, <2>1 DEF CurrentInv
<1>3. CASE ReadRow(w)
  <2>1. /\ pc[w] = "parse" /\ pc'[w] = "row" /\ UNCHANGED rows
        /\ job'[w] = [job[w] EXCEPT !.row = row, !.price = price]
    BY <1>0, <1>3 DEF ReadRow, Goto, TypeOK
  <2>2. job'[w].row = row /\ job'[w].price = price /\ job'[w].seen = 0
    BY <1>0, <2>1 DEF Job, CurrentInv
  <2> QED
    BY <1>1, <2>1, <2>2 DEF CurrentInv, rows
<1>4. CASE WriteRow(w)
  <2>1. /\ pc[w] = "row" /\ job' = job /\ price' = PriceOf[job[w].fetch] /\ snaps' = snaps
        /\ pc'[w] = IF IsListed(job[w].row) THEN "snaps" ELSE "snapshot"
    BY <1>0, <1>4 DEF WriteRow, Goto, TypeOK
  <2>2. job[w].seen = 0 /\ (~IsListed(job[w].row) => snaps = << >>)
    BY <1>0, <2>1 DEF CurrentInv, SuccessHasSnapshot
  <2> QED
    BY <1>1, <2>1, <2>2 DEF CurrentInv
<1>5. CASE ReadSnapshots(w)
  <2>1. PICK k \in IF snaps = << >> THEN {0} ELSE Newest : job' = [job EXCEPT ![w].seen = k]
    BY <1>5 DEF ReadSnapshots
  <2>2. job'[w] = [job[w] EXCEPT !.seen = k]
    BY <1>0, <2>1 DEF TypeOK
  <2>3. job'[w].seen = k /\ job'[w].fetch = job[w].fetch
    BY <1>0, <2>2 DEF Job
  <2>4. /\ pc[w] = "snaps" /\ pc'[w] = "snapshot" /\ price' = price /\ snaps' = snaps
    BY <1>0, <1>5 DEF ReadSnapshots, Goto, TypeOK, rows
  <2>5. (snaps = << >> /\ k = 0) \/ k \in Newest'
    BY <2>1, <2>4 DEF Newest
  <2> QED
    BY <1>0, <1>1, <2>3, <2>4, <2>5 DEF CurrentInv
<1>6. CASE WriteSnapshot(w)
  <2>1. /\ pc[w] = "snapshot" /\ pc'[w] = IF PriceMoved(w) THEN "change" ELSE "attempt"
    BY <1>0, <1>6 DEF WriteSnapshot, Goto, TypeOK
  <2>2. job'[w].seen = job[w].seen /\ job'[w].mine = Len(snaps) + 1
    BY <1>0, <1>6, Appended DEF Job
  <2>3. ASSUME PriceMoved(w)
        PROVE  \A m \in 1..Len(snaps) : snaps'[m].at <= snaps'[job[w].seen].at
    <3>1. job[w].seen \in Newest
      BY <1>0, <2>1, <2>3 DEF CurrentInv, PriceMoved
    <3> QED
      BY <1>0, <1>6, <3>1, Appended DEF Newest
  <2>4. job'[w].mine - 1 = Len(snaps)
    BY <1>0, <2>2
  <2> QED
    BY <1>1, <2>1, <2>2, <2>3, <2>4 DEF CurrentInv
<1> QED
  BY <1>2, <1>3, <1>4, <1>5, <1>6 DEF HandlePage

LEMMA ShownNext ==
  ASSUME HistoryInv, CalmInv, calm, NEW w \in Writers, HandlePage(w)
  PROVE  ShownInv'
<1>0. /\ TypeOK /\ Len(snaps) \in Nat /\ DOMAIN snaps = 1..Len(snaps)
      /\ CurrentInv(w) /\ DatedInv /\ ShownInv
      /\ \A v \in Writers \ {w} : pc[v] = "idle" /\ pc'[v] = "idle"
      /\ job[w].at \in Nat /\ job[w].at + 1 = now
  BY CalmPage, SnapFacts DEF HistoryInv
<1> SUFFICES ASSUME \A v \in Writers : pc'[v] \notin {"snaps", "snapshot"}, snaps' # << >>
             PROVE  \E k \in Newest' : price' = snaps'[k].price
  BY DEF ShownInv
<1>1. CASE ParseFails(w) \/ ReadRow(w) \/ WriteChange(w) \/ RecordSuccess(w)
  <2>1. pc[w] \notin {"snaps", "snapshot"} /\ price' = price /\ snaps' = snaps
    BY <1>1 DEF ParseFails, ReadRow, WriteChange, RecordSuccess, rows
  <2> QED
    BY <1>0, <2>1 DEF ShownInv, Newest
<1>2. CASE WriteRow(w) \/ ReadSnapshots(w)
  BY <1>0, <1>2 DEF WriteRow, ReadSnapshots, Goto, TypeOK
<1>3. CASE WriteSnapshot(w)
  <2> DEFINE n == Len(snaps) + 1
  <2>1. price' = PriceOf[job[w].fetch]
    BY <1>0, <1>3 DEF WriteSnapshot, CurrentInv, rows
  <2>2. snaps'[n].price = price' /\ snaps'[n].at = job[w].at
    BY <1>3, <2>1, NewSnapshot
  <2>3. DOMAIN snaps' = 1..n /\ \A k \in 1..Len(snaps) : snaps'[k] = snaps[k]
    BY <1>3, NewSnapshot
  <2>4. \A k \in 1..Len(snaps) : snaps[k].at <= job[w].at
    <3>1. \A k \in 1..Len(snaps) : snaps[k].at \in Nat /\ snaps[k].at < now
      BY <1>0, SnapFacts DEF Snapshot, DatedInv
    <3> QED
      BY <1>0, <3>1
  <2>5. n \in Newest'
    BY <1>0, <2>2, <2>3, <2>4 DEF Newest
  <2> QED
    BY <2>2, <2>5
<1>4. ~UpsertFails(w)
  BY <1>0 DEF UpsertFails, MayFail, CurrentInv
<1> QED
  BY <1>1, <1>2, <1>3, <1>4 DEF HandlePage

(* An attempt of this run settles its page: no other of the page is as     *)
(* recent.                                                                 *)
LEMMA Recorded ==
  ASSUME HistoryInv, CalmInv, calm, HandlePage("backfill"),
         NEW o \in {"success", "parser_error"}, Record("backfill", o)
  PROVE  LET j == job["backfill"] IN
         /\ \A a \in attempts' : a \in attempts \/ a.fetch = j.fetch
         /\ \A f, v : o = "success" /\ f = j.fetch /\ f \in Eligible(v)' => v # j.version
         /\ \A f, v : f # j.fetch /\ f \in Eligible(v)' => f \in Eligible(v)
<1> DEFINE j == job["backfill"]
           new == [fetch |-> j.fetch, version |-> j.version, at |-> j.at, outcome |-> o]
<1>0. "backfill" \in Writers
  BY DEF Writers
<1>1. /\ TypeOK /\ j.at \in Nat /\ j.at + 1 = now /\ DatedInv /\ SettledInv
      /\ pc["backfill"] \in OnPage /\ arrived' = arrived
  BY <1>0, CalmPage, PageFrame DEF HistoryInv
<1>2. attempts' = attempts \cup {new}
  BY DEF Record, MayFail
<1>3. \A a \in attempts : a.at \in Nat /\ a.at <= j.at /\ (a.fetch = j.fetch => a.at # j.at)
  <2> SUFFICES ASSUME NEW a \in attempts
               PROVE  a.at \in Nat /\ a.at <= j.at /\ (a.fetch = j.fetch => a.at # j.at)
    OBVIOUS
  <2>1. a.at \in Nat /\ a.at < now
    BY <1>1 DEF TypeOK, Attempt, DatedInv
  <2>2. a.fetch = j.fetch => a.at # j.at
    BY <1>1 DEF SettledInv, Working, Ahead, OnPage, AfterRow
  <2> QED
    BY <1>1, <2>1, <2>2
<1> DEFINE n == new
<1>8. n.fetch = j.fetch /\ n.at = j.at /\ n.outcome = o /\ n.version = j.version
  OBVIOUS
<1>9. attempts' = attempts \cup {n}
  BY <1>2
<1> HIDE DEF n
<1>4. \A f : f = j.fetch => Latest(f)' = {n}
  <2> SUFFICES ASSUME NEW f, f = j.fetch
               PROVE  Latest(f)' = {n}
    OBVIOUS
  <2>1. Latest(f)' = {a \in attempts' : a.fetch = f /\ \A b \in attempts' : b.fetch = f => b.at <= a.at}
    BY DEF Latest
  <2>2. \A a \in attempts' : a.fetch = f => a.at <= n.at
    BY <1>1, <1>3, <1>8, <1>9
  <2>3. \A a \in attempts : a.fetch = f => ~(n.at <= a.at)
    BY <1>1, <1>3, <1>8
  <2> QED
    BY <1>8, <1>9, <2>1, <2>2, <2>3
<1>5. \A f : f # j.fetch => Latest(f)' = Latest(f)
  BY <1>8, <1>9 DEF Latest
<1>6. \A f, v : o = "success" /\ f = j.fetch /\ f \in Eligible(v)' => v # j.version
  BY <1>4, <1>8 DEF Eligible
<1>7. \A f, v : f # j.fetch /\ f \in Eligible(v)' => f \in Eligible(v)
  BY <1>1, <1>5 DEF Eligible
<1> QED
  BY <1>6, <1>7, <1>8, <1>9

LEMMA SettledNext ==
  ASSUME HistoryInv, CalmInv, calm, NEW w \in Writers, HandlePage(w)
  PROVE  SettledInv'
<1> DEFINE j == job["backfill"]
<1>1. CASE w = "scrape"
  BY <1>1, CalmPage DEF SettledInv, Writers
<1>2. CASE w = "backfill"
  <2>1. /\ TypeOK /\ SettledInv /\ pc["backfill"] \in OnPage
        /\ UNCHANGED <<arrived, queue>>
        /\ job'["backfill"].fetch = j.fetch /\ job'["backfill"].at = j.at
        /\ job'["backfill"].version = j.version
    BY <1>2, CalmPage, PageFrame DEF HistoryInv
  <2>2. /\ j.fetch \notin queue
        /\ \A a \in attempts : a.at = j.at => a.fetch # j.fetch /\ a.fetch \notin queue
        /\ \A f \in Eligible(j.version) :
             f \in queue \/ f = j.fetch \/ j.version \notin ParsedBy[f]
    BY <2>1 DEF SettledInv, Working, Ahead, OnPage, AfterRow
  <2>3. CASE ParseFails(w) \/ RecordSuccess(w)
    <3>1. PICK o \in {"success", "parser_error"} :
            Record("backfill", o) /\ (o = "success" \/ j.version \notin ParsedBy[j.fetch])
      BY <1>2, <2>3 DEF ParseFails, RecordSuccess, Accepted
    <3>2. pc'["backfill"] = "next"
      BY <1>2, <2>1, <2>3 DEF ParseFails, RecordSuccess, Finish, Goto, TypeOK, Writers
    <3>3. ASSUME NEW v, v = j.version, NEW f, f \in Eligible(v)'
          PROVE  f \in queue \/ v \notin ParsedBy[f]
      <4>1. CASE f = j.fetch
        BY <1>2, <3>1, <3>3, <4>1, Recorded
      <4>2. CASE f # j.fetch
        <5>1. f \in Eligible(v)
          BY <1>2, <3>1, <3>3, <4>2, Recorded
        <5> QED
          BY <2>2, <3>3, <4>2, <5>1
      <4> QED
        BY <4>1, <4>2
    <3>4. \A a \in attempts' : a.at = j.at => a.fetch \notin queue
      BY <1>2, <2>2, <3>1, Recorded
    <3>5. \A f : ~Working(f)'
      BY <3>2 DEF Working, OnPage, AfterRow
    <3>6. \A f \in Eligible(job["backfill"].version)' : f \in queue \/ j.version \notin ParsedBy[f]
      BY <2>1, <3>3 DEF Eligible, Latest
    <3> QED
      BY <2>1, <3>4, <3>5, <3>6 DEF SettledInv, Ahead
  <2>4. CASE ~(ParseFails(w) \/ RecordSuccess(w))
    <3>1. ~UpsertFails(w)
      BY <2>1, <1>2, CalmPage DEF UpsertFails, MayFail, CurrentInv
    <3>2. attempts' = attempts /\ pc'["backfill"] \in OnPage
      BY <1>2, <2>1, <2>4, <3>1
         DEF HandlePage, ReadRow, WriteRow, ReadSnapshots, WriteSnapshot, WriteChange, Goto,
             TypeOK, Writers, OnPage, AfterRow
    <3>3. \A f : Working(f)' <=> f = j.fetch
      BY <2>1, <3>2 DEF Working
    <3>4. Eligible(job["backfill"].version)' = Eligible(j.version)
      BY <2>1, <3>2 DEF Eligible, Latest
    <3> QED
      BY <2>1, <2>2, <3>2, <3>3, <3>4 DEF SettledInv, Ahead
  <2> QED
    BY <2>3, <2>4
<1> QED
  BY <1>1, <1>2 DEF Writers

(* A run of a calm history begins when everything rests.                   *)
LEMMA CalmStart ==
  ASSUME HistoryInv, CalmInv, calm, NEW w \in Writers, MayStart(w),
         NEW f \in 0..Pages, NEW l, NEW p, Start(w, NewJob(f, l, p)), NEW label, Goto(w, label),
         label \in {"parse", "missed", "next"},
         label = "missed" => l = row /\ p = price,
         UNCHANGED <<rows, snaps, attempts>>
  PROVE  /\ DatedInv' /\ ShownInv'
         /\ \A v \in Writers : AloneInv(v)' /\ CurrentInv(v)'
         /\ \A v \in Writers \ {w} : pc'[v] = "idle"
         /\ pc'[w] = label /\ job'[w] = NewJob(f, l, p)
<1>0. TypeOK /\ now \in Nat /\ now' = now + 1
  BY DEF HistoryInv, TypeOK, Start
<1>1. \A v \in Writers : pc[v] = "idle"
  BY DEF MayStart
<1>2. /\ \A v \in Writers \ {w} : pc'[v] = "idle"
      /\ pc'[w] = label /\ job'[w] = NewJob(f, l, p)
  BY <1>0, <1>1 DEF Goto, Start, TypeOK
<1>3. job'[w].at = now /\ job'[w].row = l /\ job'[w].price = p /\ job'[w].seen = 0
  BY <1>2 DEF NewJob
<1>4. DatedInv'
  <2>1. \A k \in DOMAIN snaps : snaps[k].at \in Nat
    BY <1>0, SnapFacts DEF Snapshot
  <2>2. \A a \in attempts : a.at \in Nat
    BY <1>0 DEF TypeOK, Attempt
  <2> QED
    BY <1>0, <2>1, <2>2 DEF CalmInv, DatedInv
<1>5. ShownInv'
  BY <1>1 DEF CalmInv, ShownInv, Newest, rows
<1>6. \A v \in Writers : AloneInv(v)' /\ CurrentInv(v)'
  BY <1>0, <1>2, <1>3 DEF AloneInv, CurrentInv, rows
<1> QED
  BY <1>2, <1>4, <1>5, <1>6

LEMMA CalmOther ==
  ASSUME HistoryInv, CalmInv, calm, OtherStep
  PROVE  CalmInv'
<1> DEFINE j == job["backfill"]
<1>0. /\ TypeOK /\ DatedInv /\ ShownInv /\ SettledInv
      /\ "scrape" \in Writers /\ "backfill" \in Writers
      /\ \A w \in Writers : AloneInv(w) /\ CurrentInv(w)
  BY DEF HistoryInv, CalmInv, Writers
<1>1. CASE Deploy \/ UNCHANGED vars
  <2>1. UNCHANGED <<arrived, row, price, snaps, attempts, pc, job, queue, now, calm>>
    BY <1>1 DEF Deploy, vars, rows
  <2>2. DatedInv' /\ ShownInv'
    BY <1>0, <2>1 DEF DatedInv, ShownInv, Newest
  <2>3. SettledInv'
    BY <1>0, <2>1 DEF SettledInv, Ahead, Working, Eligible, Latest
  <2>4. \A w \in Writers : AloneInv(w)' /\ CurrentInv(w)'
    BY <1>0, <2>1 DEF AloneInv, CurrentInv, Newest
  <2> QED
    BY <2>2, <2>3, <2>4 DEF CalmInv
<1>2. CASE StartScrape
  <2>1. /\ MayStart("scrape") /\ Start("scrape", NewJob(arrived + 1, NoListing, NoPrice))
        /\ Goto("scrape", "parse") /\ UNCHANGED <<rows, snaps, attempts>>
        /\ arrived + 1 \in 0..Pages
    BY <1>0, <1>2, HistoryAssumption DEF StartScrape, TypeOK
  <2>2. /\ DatedInv' /\ ShownInv' /\ \A v \in Writers : AloneInv(v)' /\ CurrentInv(v)'
        /\ pc'["backfill"] = "idle"
    BY <1>0, <2>1, CalmStart
  <2> QED
    BY <2>2 DEF CalmInv, SettledInv
<1>3. CASE StartMissed
  <2>1. /\ MayStart("scrape") /\ Start("scrape", NewJob(0, row, price))
        /\ Goto("scrape", "missed") /\ UNCHANGED <<rows, snaps, attempts>>
        /\ 0 \in 0..Pages
    BY <1>3, HistoryAssumption DEF StartMissed
  <2>2. /\ DatedInv' /\ ShownInv' /\ \A v \in Writers : AloneInv(v)' /\ CurrentInv(v)'
        /\ pc'["backfill"] = "idle"
    BY <1>0, <2>1, CalmStart
  <2> QED
    BY <2>2 DEF CalmInv, SettledInv
<1>4. CASE ApplyMissedRun
  <2>1. /\ price' = price /\ UNCHANGED <<snaps, attempts, now, job>>
        /\ \A v \in Writers : pc'[v] = "idle"
        /\ \A v \in Writers : pc[v] \in {"idle", "missed"}
    BY <1>0, <1>4 DEF ApplyMissedRun, CurrentInv, AloneInv, Goto, TypeOK, rows, Writers
  <2>2. DatedInv' /\ ShownInv'
    BY <1>0, <2>1 DEF DatedInv, ShownInv, Newest
  <2>3. SettledInv' /\ \A w \in Writers : AloneInv(w)' /\ CurrentInv(w)'
    BY <1>0, <2>1 DEF SettledInv, AloneInv, CurrentInv
  <2> QED
    BY <2>2, <2>3 DEF CalmInv
<1>5. CASE StartBackfill
  <2>1. /\ MayStart("backfill") /\ Start("backfill", NewJob(0, NoListing, NoPrice))
        /\ Goto("backfill", "next") /\ UNCHANGED <<rows, snaps, attempts>>
        /\ 0 \in 0..Pages
        /\ queue' = Eligible(version) /\ arrived' = arrived
    BY <1>5, HistoryAssumption DEF StartBackfill
  <2>2. /\ DatedInv' /\ ShownInv' /\ \A v \in Writers : AloneInv(v)' /\ CurrentInv(v)'
        /\ pc'["backfill"] = "next" /\ job'["backfill"] = NewJob(0, NoListing, NoPrice)
    BY <1>0, <2>1, CalmStart
  <2>3. job'["backfill"].version = version /\ job'["backfill"].at = now
    BY <2>2 DEF NewJob
  <2>4. \A f : ~Working(f)'
    BY <2>2 DEF Working, OnPage, AfterRow
  <2>5. \A a \in attempts' : a.at # job'["backfill"].at
    BY <1>0, <2>1, <2>3 DEF DatedInv, TypeOK, Attempt
  <2>6. Eligible(job["backfill"].version)' = queue'
    BY <2>1, <2>3 DEF Eligible, Latest
  <2>7. SettledInv'
    BY <2>4, <2>5, <2>6 DEF SettledInv, Ahead
  <2> QED
    BY <2>2, <2>7 DEF CalmInv
<1>6. CASE BackfillEnds
  <2>1. /\ UNCHANGED <<price, snaps, attempts, now, job>>
        /\ \A v \in Writers : pc'[v] = "idle"
        /\ \A v \in Writers : pc[v] \in {"idle", "next"}
    BY <1>0, <1>6 DEF BackfillEnds, AloneInv, Goto, TypeOK, rows, Writers
  <2>2. DatedInv' /\ ShownInv'
    BY <1>0, <2>1 DEF DatedInv, ShownInv, Newest
  <2>3. SettledInv' /\ \A w \in Writers : AloneInv(w)' /\ CurrentInv(w)'
    BY <1>0, <2>1 DEF SettledInv, AloneInv, CurrentInv
  <2> QED
    BY <2>2, <2>3 DEF CalmInv
<1>7. ASSUME NEW f \in Fetches, Load(f)
      PROVE  CalmInv'
  <2>1. /\ UNCHANGED <<arrived, price, snaps, attempts, now>>
        /\ pc["backfill"] = "next" /\ pc'["backfill"] = "parse"
        /\ pc["scrape"] = "idle" /\ pc'["scrape"] = "idle"
        /\ f \in queue /\ queue' = queue \ {f} /\ j.at + 1 = now
    BY <1>0, <1>7 DEF Load, MayFail, AloneInv, Goto, TypeOK, rows, Writers
  <2>2. /\ job'["backfill"].fetch = f /\ job'["backfill"].at = j.at
        /\ job'["backfill"].version = j.version /\ job'["backfill"].seen = 0
    <3>1. job["backfill"] \in Job /\ job \in [Writers -> Job]
      BY <1>0 DEF TypeOK
    <3>2. job' = [job EXCEPT !["backfill"].fetch = f, !["backfill"].seen = 0]
      BY <1>7 DEF Load
    <3>3. job'["backfill"] = [[job["backfill"] EXCEPT !.fetch = f] EXCEPT !.seen = 0]
      BY <1>0, <3>1, <3>2
    <3> QED
      BY <3>1, <3>3 DEF Job
  <2>3. DatedInv' /\ ShownInv'
    BY <1>0, <2>1 DEF DatedInv, ShownInv, Newest, Writers
  <2>4. \A w \in Writers : AloneInv(w)' /\ CurrentInv(w)'
    BY <1>0, <2>1, <2>2 DEF AloneInv, CurrentInv, Writers
  <2>5. \A g : (Ahead(g)' <=> g \in queue) /\ (Ahead(g) <=> g \in queue)
        /\ (Working(g)' <=> g = f)
    BY <2>1, <2>2 DEF Ahead, Working, OnPage, AfterRow
  <2>6. Eligible(job["backfill"].version)' = Eligible(j.version)
    BY <2>1, <2>2 DEF Eligible, Latest
  <2>7. SettledInv'
    BY <1>0, <2>1, <2>2, <2>5, <2>6 DEF SettledInv
  <2> QED
    BY <2>3, <2>4, <2>7 DEF CalmInv
<1>8. ~\E w \in Writers : Crash(w)
  BY DEF Crash, MayFail
<1> QED
  BY <1>1, <1>2, <1>3, <1>4, <1>5, <1>6, <1>7, <1>8 DEF OtherStep

LEMMA CalmInit == Init => CalmInv
<1> SUFFICES ASSUME Init
             PROVE  CalmInv
  OBVIOUS
<1>1. snaps = << >> /\ attempts = {} /\ \A w \in Writers : pc[w] = "idle"
  BY DEF Init
<1> QED
  BY <1>1 DEF CalmInv, DatedInv, ShownInv, SettledInv, AloneInv, CurrentInv, Writers

LEMMA CalmNext == HistoryInv /\ CalmInv /\ [Next]_vars => CalmInv'
<1> SUFFICES ASSUME HistoryInv, CalmInv, [Next]_vars, calm'
             PROVE  CalmInv'
  BY DEF CalmInv
<1>1. calm
  BY DEF Next, BackfillStep, HandlePage, Deploy, StartScrape, StartMissed, ApplyMissedRun,
         StartBackfill, BackfillEnds, Load, ParseFails, ReadRow, WriteRow, ReadSnapshots,
         WriteSnapshot, WriteChange, RecordSuccess, UpsertFails, Crash, vars
<1>2. CASE OtherStep
  BY <1>1, <1>2, CalmOther
<1>3. ASSUME NEW w \in Writers, HandlePage(w)
      PROVE  CalmInv'
  BY <1>1, <1>3, CalmPage, DatedNext, CurrentNext, ShownNext, SettledNext DEF CalmInv
<1> QED
  BY <1>2, <1>3, Steps

(* Two snapshots that were there before have their change, or it is under  *)
(* way.                                                                    *)
LEMMA MovesNext ==
  ASSUME HistoryInv, CalmInv, PriceMovesRecorded, [Next]_vars
  PROVE  PriceMovesRecorded'
<1> SUFFICES ASSUME calm',
                    NEW k \in 1..(Len(snaps') - 1), Priced(k)', Priced(k + 1)',
                    snaps'[k].price # snaps'[k + 1].price,
                    \A m \in 1..(k - 1) : snaps'[m].at < snaps'[k].at
             PROVE  \/ \E c \in changes' : c.snap = k + 1 /\ c.old = snaps'[k].price
                    \/ \E w \in Writers : pc'[w] = "change" /\ job'[w].mine = k + 1
  BY DEF PriceMovesRecorded
<1>0. TypeOK /\ calm /\ Len(snaps) \in Nat
  <2>1. calm
    BY DEF Next, BackfillStep, HandlePage, Deploy, StartScrape, StartMissed, ApplyMissedRun,
           StartBackfill, BackfillEnds, Load, ParseFails, ReadRow, WriteRow, ReadSnapshots,
           WriteSnapshot, WriteChange, RecordSuccess, UpsertFails, Crash, vars
  <2> QED
    BY <2>1, SnapFacts DEF HistoryInv
<1>1. ASSUME UNCHANGED snaps
      PROVE  \/ \E c \in changes : c.snap = k + 1 /\ c.old = snaps[k].price
             \/ \E w \in Writers : pc[w] = "change" /\ job[w].mine = k + 1
  BY <1>0, <1>1 DEF PriceMovesRecorded, Priced
<1>2. CASE OtherStep
  <2>1. UNCHANGED <<snaps, changes>>
    BY <1>2, OtherSteps
  <2>2. \A w \in Writers : pc[w] = "change" => pc'[w] = "change" /\ job'[w] = job[w]
    BY <1>0, <1>2 DEF OtherStep, Deploy, StartScrape, StartMissed, ApplyMissedRun, StartBackfill,
                      BackfillEnds, Load, Crash, MayFail, MayStart, Goto, vars, TypeOK
  <2> QED
    BY <1>1, <2>1, <2>2
<1>3. ASSUME NEW w \in Writers, HandlePage(w)
      PROVE  \/ \E c \in changes' : c.snap = k + 1 /\ c.old = snaps'[k].price
             \/ \E v \in Writers : pc'[v] = "change" /\ job'[v].mine = k + 1
  <2>0. /\ \A v \in Writers \ {w} : pc[v] = "idle"
        /\ CurrentInv(w) /\ DueInv(w) /\ MineInv(w) /\ ReadInv(w)
        /\ job[w].seen \in Nat /\ job[w].mine \in Nat /\ DOMAIN snaps = 1..Len(snaps)
    BY <1>0, <1>3, CalmPage, JobFacts, SnapFacts DEF HistoryInv
  <2>1. CASE WriteSnapshot(w)
    <3>1. /\ pc[w] = "snapshot" /\ changes' = changes
          /\ pc'[w] = IF PriceMoved(w) THEN "change" ELSE "attempt"
      BY <1>0, <2>1 DEF WriteSnapshot, Goto, TypeOK
    <3>2. /\ Len(snaps') = Len(snaps) + 1 /\ job'[w].mine = Len(snaps) + 1
          /\ \A m \in 1..Len(snaps) : snaps'[m] = snaps[m]
          /\ snaps'[Len(snaps) + 1].price = PriceOf[job[w].fetch]
      BY <2>1, Appended, NewSnapshot
    <3>3. CASE k + 1 <= Len(snaps)
      <4>1. /\ k \in 1..(Len(snaps) - 1) /\ snaps'[k] = snaps[k] /\ snaps'[k + 1] = snaps[k + 1]
            /\ \A m \in 1..(k - 1) : snaps'[m] = snaps[m]
        BY <1>0, <3>2, <3>3
      <4>2. \/ \E c \in changes : c.snap = k + 1 /\ c.old = snaps[k].price
            \/ \E v \in Writers : pc[v] = "change" /\ job[v].mine = k + 1
        BY <1>0, <4>1 DEF PriceMovesRecorded, Priced
      <4> QED
        BY <2>0, <3>1, <4>1, <4>2
    <3>4. CASE ~(k + 1 <= Len(snaps))
      <4>1. k = Len(snaps) /\ k \in 1..Len(snaps)
        BY <1>0, <3>2, <3>4
      <4>2. \A m \in 1..(k - 1) : snaps[m].at < snaps[k].at
        BY <3>2, <4>1
      <4>3. \A m \in 1..k : snaps[m].at \in Nat
        BY <1>0, <4>1, SnapFacts DEF Snapshot
      <4>4. snaps # << >> /\ \A m \in Newest : m = k
        BY <1>0, <2>0, <4>1, <4>2, <4>3 DEF Newest
      <4>5. job[w].seen = k
        BY <2>0, <3>1, <4>4 DEF CurrentInv
      <4>6. PriceMoved(w)
        BY <3>2, <4>1, <4>5 DEF PriceMoved, Priced
      <4> QED
        BY <3>1, <3>2, <4>1, <4>6
    <3> QED
      BY <3>3, <3>4
  <2>2. CASE WriteChange(w)
    <3>1. /\ UNCHANGED snaps /\ pc[w] = "change"
          /\ changes' = changes \cup {[old |-> snaps[job[w].seen].price,
                                       new |-> PriceOf[job[w].fetch], snap |-> job[w].mine]}
      BY <1>0, <2>2 DEF WriteChange, MayFail
    <3>2. CASE \E c \in changes : c.snap = k + 1 /\ c.old = snaps[k].price
      BY <3>1, <3>2
    <3>3. CASE ~\E c \in changes : c.snap = k + 1 /\ c.old = snaps[k].price
      <4>1. job[w].mine = k + 1
        BY <1>1, <2>0, <3>1, <3>3
      <4>2. job[w].seen \in 1..k /\ k \in 1..Len(snaps)
        BY <1>0, <2>0, <3>1, <4>1 DEF DueInv, PriceMoved
      <4>3. snaps[k].at <= snaps[job[w].seen].at
        BY <1>0, <2>0, <3>1, <4>1, <4>2 DEF CurrentInv
      <4>4. \A m \in 1..Len(snaps) : snaps[m].at \in Nat
        BY <1>0, SnapFacts DEF Snapshot
      <4>5. job[w].seen = k
        BY <1>0, <3>1, <4>2, <4>3, <4>4
      <4> DEFINE new == [old |-> snaps[job[w].seen].price, new |-> PriceOf[job[w].fetch],
                         snap |-> job[w].mine]
      <4>6. new.snap = k + 1 /\ new.old = snaps[k].price
        BY <4>1, <4>5
      <4>7. new \in changes' /\ snaps' = snaps
        BY <3>1
      <4> HIDE DEF new
      <4> QED
        BY <4>6, <4>7
    <3> QED
      BY <3>2, <3>3
  <2>3. CASE ~WriteSnapshot(w) /\ ~WriteChange(w)
    <3>1. UNCHANGED <<snaps, changes>> /\ pc[w] # "change"
      BY <1>3, <2>3, <1>0 DEF HandlePage, ParseFails, ReadRow, WriteRow, ReadSnapshots,
                              RecordSuccess, UpsertFails, MayFail
    <3> QED
      BY <1>1, <2>0, <3>1
  <2> QED
    BY <2>1, <2>2, <2>3
<1> QED
  BY <1>2, <1>3, Steps

LEMMA MovesInit == Init => PriceMovesRecorded
BY DEF Init, PriceMovesRecorded

(* In a calm history, of any length and with any prices, no price move is  *)
(* lost, whichever of the two processes writes the snapshots.              *)
THEOREM MovesCorrect == Spec => []PriceMovesRecorded
BY HistoryInit, HistoryNext, CalmInit, CalmNext, MovesInit, MovesNext, PTL DEF Spec

(* When the processes of a calm history rest, the row shows the price of   *)
(* its newest snapshot.                                                    *)
THEOREM PricesCorrect == Spec => []RowShowsNewestSnapshot
<1>1. CalmInv => RowShowsNewestSnapshot
  BY DEF CalmInv, ShownInv, RowShowsNewestSnapshot
<1> QED
  BY HistoryInit, HistoryNext, CalmInit, CalmNext, <1>1, PTL DEF Spec

(* When a backfill of a calm history ends, no page its parser accepts is   *)
(* left for it, whatever was stored and parsed before.                     *)
THEOREM SettlesCorrect == Spec => BackfillSettles
<1>1. HistoryInv /\ CalmInv /\ [Next]_vars =>
        [calm /\ pc["backfill"] = "next" /\ pc'["backfill"] = "idle" =>
           \A f \in Eligible(job["backfill"].version) :
             job["backfill"].version \notin ParsedBy[f]]_vars
  <2> SUFFICES ASSUME HistoryInv, CalmInv, [Next]_vars,
                      calm, pc["backfill"] = "next", pc'["backfill"] = "idle",
                      NEW f \in Eligible(job["backfill"].version)
               PROVE  job["backfill"].version \notin ParsedBy[f]
    OBVIOUS
  <2>1. BackfillEnds
    BY DEF HistoryInv, TypeOK, Next, BackfillStep, HandlePage, Deploy, StartScrape, StartMissed,
           ApplyMissedRun, StartBackfill, Load, ParseFails, ReadRow, WriteRow, ReadSnapshots,
           WriteSnapshot, WriteChange, RecordSuccess, UpsertFails, Crash, MayFail, MayStart,
           Finish, Goto, Writers, vars
  <2>2. ~Ahead(f)
    BY <2>1 DEF BackfillEnds, Ahead, Working, OnPage, AfterRow
  <2> QED
    BY <2>2 DEF CalmInv, SettledInv
<1> QED
  BY HistoryInit, HistoryNext, CalmInit, CalmNext, <1>1, PTL DEF Spec, BackfillSettles

-----------------------------------------------------------------------------
(* The refinement: what the tables say is a price history.                 *)
PricesShown == [k \in DOMAIN snaps |-> snaps[k].price]
MovesDerived == {<<c.snap, c.old>> : c \in changes}

LEMMA RefinementInit == Init => H!Init
<1> SUFFICES ASSUME Init
             PROVE  PricesShown = << >> /\ MovesDerived = {}
  BY DEF H!Init, PricesShown, MovesDerived
<1>1. snaps = << >> /\ changes = {}
  BY DEF Init
<1>2. DOMAIN snaps = {}
  BY <1>1
<1> QED
  BY <1>1, <1>2 DEF PricesShown, MovesDerived

(* A snapshot shows a price, after those shown before.                     *)
LEMMA ShowsPrice ==
  ASSUME HistoryInv, NEW w \in Writers, WriteSnapshot(w)
  PROVE  H!Next
<1>1. job[w].fetch \in Fetches
  BY DEF HistoryInv, ReadInv, WriteSnapshot, OnPage, AfterRow
<1> DEFINE n == Len(snaps)
           p == PriceOf[job[w].fetch]
<1>2. /\ n \in Nat /\ DOMAIN snaps = 1..n /\ DOMAIN snaps' = 1..(n + 1)
      /\ \A k \in 1..n : snaps'[k] = snaps[k]
      /\ snaps'[n + 1].price = p
  <2>1. /\ n \in Nat /\ DOMAIN snaps = 1..n /\ Len(snaps') = n + 1 /\ DOMAIN snaps' = 1..Len(snaps')
        /\ \A k \in 1..n : snaps'[k] = snaps[k]
    BY Appended
  <2>2. snaps'[n + 1] = [fetch |-> job[w].fetch, at |-> job[w].at, price |-> p]
    BY Appended
  <2> QED
    BY <2>1, <2>2
<1>3. \A k \in 1..n : snaps[k].price \in Nat
  BY SnapFacts DEF HistoryInv
<1>4. PricesShown \in [1..n -> Nat] /\ PricesShown \in Seq(Nat) /\ Len(PricesShown) = n
  BY <1>2, <1>3 DEF PricesShown
<1>5. Append(PricesShown, p) = [k \in 1..(n + 1) |-> IF k = n + 1 THEN p ELSE PricesShown[k]]
  BY <1>2, <1>4
<1>6. PricesShown' = [k \in 1..(n + 1) |-> snaps'[k].price]
  BY <1>2 DEF PricesShown
<1>7. PricesShown' = Append(PricesShown, p)
  <2>1. \A k \in 1..(n + 1) : snaps'[k].price = IF k = n + 1 THEN p ELSE PricesShown[k]
    <3> TAKE k \in 1..(n + 1)
    <3>1. k = n + 1 \/ k \in 1..n
      BY <1>2
    <3> QED
      BY <1>2, <3>1 DEF PricesShown
  <2> QED
    BY <1>5, <1>6, <2>1
<1>8. MovesDerived' = MovesDerived
  BY DEF WriteSnapshot, MovesDerived
<1> QED
  BY <1>1, <1>7, <1>8 DEF H!Next, H!Show, PricesShown, MovesDerived

(* A change is the one move of its snapshot, from an earlier price.        *)
LEMMA DerivesMove ==
  ASSUME HistoryInv, NEW w \in Writers, WriteChange(w), changes' # changes
  PROVE  H!Next
<1> DEFINE k == job[w].mine
           j == job[w].seen
<1>1. /\ MineInv(w) /\ DueInv(w) /\ pc[w] = "change"
      /\ Len(snaps) \in Nat /\ DOMAIN snaps = 1..Len(snaps) /\ j \in Nat /\ k \in Nat
  BY SnapFacts, JobFacts DEF HistoryInv, WriteChange
<1>2. /\ k \in DOMAIN snaps /\ snaps[k].price = PriceOf[job[w].fetch]
      /\ PriceMoved(w) /\ j < k /\ \A c \in changes : c.snap # k
  BY <1>1 DEF MineInv, DueInv
<1>3. j \in 1..(k - 1) /\ j \in DOMAIN snaps
  BY <1>1, <1>2 DEF PriceMoved
<1>4. /\ PricesShown[k] = PriceOf[job[w].fetch] /\ PricesShown[k] # NoPrice
      /\ PricesShown[j] = snaps[j].price /\ PricesShown[j] \notin {NoPrice, PricesShown[k]}
      /\ k \in DOMAIN PricesShown
  BY <1>2, <1>3 DEF PricesShown, PriceMoved
<1>5. changes' = changes \cup {[old |-> snaps[j].price, new |-> PriceOf[job[w].fetch], snap |-> k]}
  BY DEF WriteChange
<1>6. MovesDerived' = MovesDerived \cup {<<k, PricesShown[j]>>}
  BY <1>4, <1>5 DEF MovesDerived
<1>7. \A m \in MovesDerived : m[1] # k
  BY <1>2 DEF MovesDerived
<1>8. PricesShown' = PricesShown
  BY DEF WriteChange, PricesShown
<1> QED
  BY <1>3, <1>4, <1>6, <1>7, <1>8 DEF H!Next, H!Derive, PricesShown, MovesDerived

LEMMA RefinementStep == HistoryInv /\ [Next]_vars => [H!Next]_(H!historyVars)
<1> SUFFICES ASSUME HistoryInv, [Next]_vars
             PROVE  H!Next \/ UNCHANGED <<snaps, changes>>
  BY DEF H!historyVars
<1>1. CASE OtherStep
  BY <1>1 DEF OtherStep, Deploy, StartScrape, StartMissed, ApplyMissedRun, StartBackfill,
              BackfillEnds, Load, Crash, vars
<1>2. ASSUME NEW w \in Writers, HandlePage(w)
      PROVE  H!Next \/ UNCHANGED <<snaps, changes>>
  <2>1. CASE WriteSnapshot(w)
    BY <2>1, ShowsPrice
  <2>2. CASE WriteChange(w)
    <3>1. snaps' = snaps
      BY <2>2 DEF WriteChange
    <3> QED
      BY <2>2, <3>1, DerivesMove
  <2>3. CASE ~WriteSnapshot(w) /\ ~WriteChange(w)
    BY <1>2, <2>3 DEF HandlePage, ParseFails, ReadRow, WriteRow, ReadSnapshots, RecordSuccess,
                      UpsertFails
  <2> QED
    BY <2>1, <2>2, <2>3
<1> QED
  BY <1>1, <1>2, Steps

(* However the scraper and the backfill interleave, fail or stop, and how  *)
(* often a page is parsed again: the price history only grows, each        *)
(* snapshot is appended and gets at most one move, from an earlier price.  *)
THEOREM HistoryGrows == Spec => FollowsPriceHistory
BY HistoryInit, HistoryNext, RefinementInit, RefinementStep, PTL DEF Spec, FollowsPriceHistory, H!Spec
=============================================================================
