------------------------- MODULE OrchestratorProofs --------------------------
(***************************************************************************)
(* What holds of Orchestrator and Presence for every set of ids, every set *)
(* of bodies and every value of the thresholds, with every failure and     *)
(* restart.                                                                *)
(*                                                                         *)
(* The argument has three layers, each inductive relative to the ones      *)
(* before it: the types; where the loop of RunOnce is and what its         *)
(* counters then hold (LoopInv); what the database rows then say           *)
(* (ParsedStaysSeen, AttemptInv, RowInv, RunRowAddsUp).  PresenceInv ties  *)
(* the counter and the date of a row to what the history variables of      *)
(* Presence saw of its listing on the site.                                *)
(***************************************************************************)
EXTENDS Presence, FiniteSetTheorems, TLAPS

USE DEF Rows, RowStates, NoCount

(* A listing row stays a listing row under an upsert and a missed run, and *)
(* an upsert always leaves one.                                            *)
LEMMA ListingRules ==
  ASSUME NEW l \in Listing, NEW now \in Nat
  PROVE  /\ \A r \in Reports : Upserted(l, r, now) \in Listing /\ IsListed(Upserted(l, r, now))
         /\ IsListed(l) =>
              \A h \in BOOLEAN : Missed(l, h, now) \in Listing /\ IsListed(Missed(l, h, now))
<1>1. ASSUME NEW r \in Reports
      PROVE  Upserted(l, r, now) \in Listing /\ IsListed(Upserted(l, r, now))
  <2>1. IsListed(l) => DerivedStatus(l.status, r) \in Statuses
    BY DEF DerivedStatus, Listing, IsListed, Statuses, Terminal, Live, Gone
  <2> QED
    BY <2>1 DEF Upserted, Listing, Statuses, IsListed, Terminal
<1>2. ASSUME IsListed(l), NEW h \in BOOLEAN
      PROVE  Missed(l, h, now) \in Listing /\ IsListed(Missed(l, h, now))
  <2> DEFINE st == MissedStatus(l.status, l.misses + 1, h, now - l.lastSeen)
  <2>1. st \in Statuses
    BY <1>2 DEF MissedStatus, Listing, IsListed, Statuses
  <2> HIDE DEF st
  <2> DEFINE new == [status |-> st, misses |-> l.misses + 1, lastSeen |-> l.lastSeen]
  <2>2. new \in Listing /\ IsListed(new)
    BY <2>1 DEF Listing, Statuses, Terminal, IsListed
  <2>3. Missed(l, h, now) = IF l.status \in Terminal THEN l ELSE new
    BY DEF Missed, st
  <2> HIDE DEF new
  <2> QED
    BY <1>2, <2>2, <2>3
<1> QED
  BY <1>1, <1>2

(* The number of ids in a set of ids.                                      *)
LEMMA Counts ==
  ASSUME NEW S \in SUBSET IDs
  PROVE  IsFiniteSet(S) /\ Cardinality(S) \in Nat
BY OrchestratorAssumption, FS_Subset, FS_CardinalityType

-----------------------------------------------------------------------------
LEMMA TypeInit == Init => TypeOK
BY OrchestratorAssumption, ThresholdsAssumption
   DEF Init, TypeOK, NoRun, RunWithout, RunRow, RunStatuses, Listing, NoListing

LEMMA TypeFinish ==
  ASSUME TypeOK, NEW row \in RunRow, FinishRun(row), prev' \subseteq IDs
  PROVE  TypeOK'
BY DEF TypeOK, FinishRun, IdleRun

LEMMA TypeProcessRef ==
  ASSUME TypeOK, NEW i \in IDs, ProcessRef(i)
  PROVE  TypeOK'
<1>1. CASE FetchFails(i)
  BY <1>1 DEF TypeOK, FetchFails, dbVars
<1>2. ASSUME NEW b \in Bodies, Fetch(i, b)
      PROVE  TypeOK'
  BY <1>2 DEF TypeOK, Fetch, dbVars
<1>3. ASSUME NEW b \in Bodies, StoreRawFetch(i, b)
      PROVE  TypeOK'
  BY <1>3 DEF TypeOK, StoreRawFetch
<1>4. ASSUME NEW b \in Bodies, StoreFails(i, b)
      PROVE  TypeOK'
  BY <1>4 DEF TypeOK, StoreFails, dbVars
<1>5. ASSUME NEW b \in Bodies, ParseFails(i, b)
      PROVE  TypeOK'
  BY <1>5 DEF TypeOK, ParseFails, GiveUp
<1>6. ASSUME NEW b \in Bodies, UpsertListing(i, b), TypeOK
      PROVE  listing' \in [IDs -> Listing]
  <2>1. Report[b] \in Reports
    BY OrchestratorAssumption
  <2>2. Upserted(listing[i], Report[b], start) \in Listing
    BY <2>1, ListingRules DEF TypeOK
  <2> QED
    BY <1>6, <2>2 DEF UpsertListing, TypeOK
<1>7. ASSUME NEW b \in Bodies, Upsert(i, b)
      PROVE  TypeOK'
  BY <1>6, <1>7 DEF TypeOK, Upsert
<1>8. ASSUME NEW b \in Bodies, UpsertFails(i, b)
      PROVE  TypeOK'
  <2>1. listing' \in [IDs -> Listing]
    BY <1>6, <1>8 DEF UpsertFails, TypeOK
  <2> QED
    BY <1>8, <2>1 DEF TypeOK, UpsertFails, GiveUp
<1>9. ASSUME NEW b \in Bodies, RecordSuccess(i, b)
      PROVE  TypeOK'
  BY <1>9 DEF TypeOK, RecordSuccess
<1> QED
  BY <1>1, <1>2, <1>3, <1>4, <1>5, <1>7, <1>8, <1>9 DEF ProcessRef

LEMMA TypeRunStep ==
  ASSUME TypeOK, RunStep
  PROVE  TypeOK'
<1>1. CASE DiscoverFails
  <2>1. RunWithout("failed", 0) \in RunRow
    BY DEF RunWithout, RunRow, RunStatuses
  <2> QED
    BY <1>1, <2>1, TypeFinish DEF DiscoverFails, TypeOK
<1>2. ASSUME NEW found \in SUBSET IDs, Discover(found)
      PROVE  TypeOK'
  BY <1>2 DEF TypeOK, Discover, Added, Kept, dbVars
<1>3. ASSUME NEW i \in IDs, ProcessRef(i)
      PROVE  TypeOK'
  BY <1>3, TypeProcessRef
<1>4. CASE FetchesDone
  BY <1>4 DEF TypeOK, FetchesDone, Removed, dbVars
<1>5. ASSUME NEW i \in IDs, MissedRun(i)
      PROVE  TypeOK'
  <2>1. Healthy(Cardinality(disc)) \in BOOLEAN
    BY DEF Healthy
  <2>2. IsListed(listing[i]) => Missed(listing[i], Healthy(Cardinality(disc)), start) \in Listing
    BY <2>1, ListingRules DEF TypeOK
  <2> QED
    BY <1>5, <2>2 DEF TypeOK, MissedRun
<1>6. CASE RunEnds
  <2>1. /\ Cardinality(disc) \in Nat
        /\ Cardinality(stored) \in Nat
        /\ Cardinality(parsed) \in Nat
        /\ Cardinality(failed) \in Nat
    BY Counts DEF TypeOK
  <2>2. [status     |-> IF failed = {} THEN "ok" ELSE "partial",
         discovered |-> Cardinality(disc),
         fetched    |-> Cardinality(stored),
         parsed     |-> Cardinality(parsed),
         errors     |-> Cardinality(failed)] \in RunRow
    BY <2>1 DEF RunRow, RunStatuses
  <2> QED
    BY <1>6, <2>2, TypeFinish DEF RunEnds, TypeOK
<1> QED
  BY <1>1, <1>2, <1>3, <1>4, <1>5, <1>6 DEF RunStep

LEMMA TypeStep ==
  ASSUME TypeOK, [Next]_vars
  PROVE  TypeOK'
<1>1. CASE ToggleEnabled
  BY <1>1 DEF TypeOK, ToggleEnabled, runVars
<1>2. CASE Tick
  BY <1>2 DEF TypeOK, Tick, dbVars, runVars
<1>3. CASE StartRun
  <2>1. StartedRun \in RunRow /\ lastRun.discovered \in Int
    BY DEF TypeOK, StartedRun, RunWithout, RunRow, RunStatuses
  <2> QED
    BY <1>3, <2>1 DEF TypeOK, StartRun, LatestCount
<1>4. CASE RunStep
  BY <1>4, TypeRunStep
<1>5. CASE Restart
  BY <1>5 DEF TypeOK, Restart, IdleRun, dbVars
<1>6. CASE UNCHANGED vars
  BY <1>6 DEF TypeOK, vars, dbVars, runVars
<1> QED
  BY <1>1, <1>2, <1>3, <1>4, <1>5, <1>6 DEF Next

(* Every variable keeps its type: among others the listing rows stay       *)
(* listing rows and the finished run rows carry natural counts.            *)
THEOREM TypeCorrect == Spec => []TypeOK
BY TypeInit, TypeStep, PTL DEF Spec

-----------------------------------------------------------------------------
(* The ref whose fetch is being stored, parsed or recorded.                *)
Current == IF pc \in {"store", "parse", "record"} THEN {cur[1]} ELSE {}

(* Where the loop is: what runs ahead of it and behind it is empty, and    *)
(* what is handed to the missed-run handler was not discovered.            *)
LoopInv ==
  /\ pc \in {"store", "parse", "record"} => cur \in Rows
  /\ pc \in {"idle", "discover"} => /\ disc = {} /\ toFetch = {}
                                   /\ stored = {} /\ parsed = {} /\ failed = {}
  /\ pc = "missed" => toFetch = {}
  /\ pc # "missed" => missing = {}
  /\ missing \subseteq prev \ disc
  /\ start <= clock

(* How the refs of a run are counted: each is still to fetch, current,     *)
(* parsed or failed, and never two of these but for a current one that has *)
(* just been parsed.                                                       *)
CountInv ==
  /\ (toFetch \cup stored \cup failed \cup Current) \subseteq disc
  /\ toFetch \cap (stored \cup failed \cup Current) = {}
  /\ failed \cap (parsed \cup Current) = {}
  /\ parsed \subseteq stored
  /\ stored \subseteq (parsed \cup failed \cup Current)
  /\ pc = "store" => cur[1] \notin stored
  /\ pc = "parse" => cur[1] \in stored \ parsed
  /\ pc = "record" => cur[1] \in parsed

(* AttemptsMatchSnapshots, with what the body in hand has behind it.       *)
AttemptInv ==
  /\ AttemptsMatchSnapshots
  /\ pc = "parse" => raw[cur] = "unparsed" /\ cur \notin snaps
  /\ pc = "record" => raw[cur] = "unparsed" /\ cur \in snaps

(* RowsAreConsistent, with the ids that have no row.                       *)
RowInv ==
  /\ RowsAreConsistent
  /\ \A i \in IDs : ~IsListed(listing[i]) => listing[i].misses = 0

-----------------------------------------------------------------------------
LEMMA LoopInit == Init => LoopInv /\ CountInv
BY OrchestratorAssumption DEF Init, LoopInv, CountInv, Current

LEMMA LoopProcessRef ==
  ASSUME TypeOK, LoopInv, CountInv, NEW i \in IDs, ProcessRef(i)
  PROVE  LoopInv' /\ CountInv'
<1> USE DEF TypeOK, LoopInv, CountInv, Current
<1>1. CASE FetchFails(i)
  BY <1>1 DEF FetchFails
<1>2. ASSUME NEW b \in Bodies, Fetch(i, b)
      PROVE  LoopInv' /\ CountInv'
  BY <1>2 DEF Fetch
<1>3. ASSUME NEW b \in Bodies, StoreRawFetch(i, b)
      PROVE  LoopInv' /\ CountInv'
  BY <1>3 DEF StoreRawFetch
<1>4. ASSUME NEW b \in Bodies, StoreFails(i, b)
      PROVE  LoopInv' /\ CountInv'
  BY <1>4 DEF StoreFails
<1>5. ASSUME NEW b \in Bodies, ParseFails(i, b)
      PROVE  LoopInv' /\ CountInv'
  BY <1>5 DEF ParseFails, GiveUp
<1>6. ASSUME NEW b \in Bodies, Upsert(i, b)
      PROVE  LoopInv' /\ CountInv'
  BY <1>6 DEF Upsert
<1>7. ASSUME NEW b \in Bodies, UpsertFails(i, b)
      PROVE  LoopInv' /\ CountInv'
  BY <1>7 DEF UpsertFails, GiveUp
<1>8. ASSUME NEW b \in Bodies, RecordSuccess(i, b)
      PROVE  LoopInv' /\ CountInv'
  BY <1>8 DEF RecordSuccess
<1> QED
  BY <1>1, <1>2, <1>3, <1>4, <1>5, <1>6, <1>7, <1>8 DEF ProcessRef

LEMMA LoopStep ==
  ASSUME TypeOK, LoopInv, CountInv, [Next]_vars
  PROVE  LoopInv' /\ CountInv'
<1> USE DEF TypeOK, LoopInv, CountInv, Current
<1>1. CASE ToggleEnabled
  BY <1>1 DEF ToggleEnabled, runVars
<1>2. CASE Tick
  BY <1>2 DEF Tick, runVars
<1>3. CASE StartRun
  BY <1>3 DEF StartRun
<1>4. CASE DiscoverFails
  BY <1>4 DEF DiscoverFails, FinishRun, IdleRun
<1>5. ASSUME NEW found \in SUBSET IDs, Discover(found)
      PROVE  LoopInv' /\ CountInv'
  BY <1>5 DEF Discover, Added, Kept
<1>6. ASSUME NEW i \in IDs, ProcessRef(i)
      PROVE  LoopInv' /\ CountInv'
  BY <1>6, LoopProcessRef
<1>7. CASE FetchesDone
  BY <1>7 DEF FetchesDone, Removed
<1>8. ASSUME NEW i \in IDs, MissedRun(i)
      PROVE  LoopInv' /\ CountInv'
  BY <1>8 DEF MissedRun
<1>9. CASE RunEnds
  BY <1>9 DEF RunEnds, FinishRun, IdleRun
<1>10. CASE Restart
  BY <1>10 DEF Restart, IdleRun
<1>11. CASE UNCHANGED vars
  BY <1>11 DEF vars, runVars
<1> QED
  BY <1>1, <1>2, <1>3, <1>4, <1>5, <1>6, <1>7, <1>8, <1>9, <1>10, <1>11
     DEF Next, RunStep

THEOREM LoopCorrect == Spec => [](LoopInv /\ CountInv)
BY LoopInit, LoopStep, TypeCorrect, PTL DEF Spec

-----------------------------------------------------------------------------
LEMMA AttemptInit == Init => AttemptInv
BY DEF Init, AttemptInv, AttemptsMatchSnapshots

(* A row that is listed stays listed.                                      *)
LEMMA StaysListed ==
  ASSUME TypeOK, NEW i \in IDs, NEW b \in Bodies, UpsertListing(i, b)
  PROVE  /\ IsListed(listing'[i])
         /\ \A k \in IDs : IsListed(listing[k]) => IsListed(listing'[k])
<1>1. \A r \in Reports : IsListed(Upserted(listing[i], r, start))
  BY DEF TypeOK, Listing, Statuses, Terminal, Live, Gone, Reports, IsListed,
         Upserted, DerivedStatus
<1> QED
  BY <1>1, OrchestratorAssumption DEF UpsertListing, TypeOK

LEMMA AttemptProcessRef ==
  ASSUME TypeOK, LoopInv, AttemptInv, NEW i \in IDs, ProcessRef(i)
  PROVE  AttemptInv'
<1> USE DEF TypeOK, LoopInv, AttemptInv, AttemptsMatchSnapshots
<1>1. CASE FetchFails(i)
  BY <1>1 DEF FetchFails, dbVars
<1>2. ASSUME NEW b \in Bodies, Fetch(i, b)
      PROVE  AttemptInv'
  BY <1>2 DEF Fetch, dbVars
<1>3. ASSUME NEW b \in Bodies, StoreRawFetch(i, b)
      PROVE  AttemptInv'
  BY <1>3 DEF StoreRawFetch
<1>4. ASSUME NEW b \in Bodies, StoreFails(i, b)
      PROVE  AttemptInv'
  BY <1>4 DEF StoreFails, dbVars
<1>5. ASSUME NEW b \in Bodies, ParseFails(i, b)
      PROVE  AttemptInv'
  BY <1>5 DEF ParseFails, GiveUp
<1>6. ASSUME NEW b \in Bodies, Upsert(i, b)
      PROVE  AttemptInv'
  BY <1>6, StaysListed DEF Upsert
<1>7. ASSUME NEW b \in Bodies, UpsertFails(i, b)
      PROVE  AttemptInv'
  <2>1. \A k \in IDs : IsListed(listing[k]) => IsListed(listing'[k])
    BY <1>7, StaysListed DEF UpsertFails
  <2> QED
    BY <1>7, <2>1 DEF UpsertFails, GiveUp
<1>8. ASSUME NEW b \in Bodies, RecordSuccess(i, b)
      PROVE  AttemptInv'
  BY <1>8 DEF RecordSuccess
<1> QED
  BY <1>1, <1>2, <1>3, <1>4, <1>5, <1>6, <1>7, <1>8 DEF ProcessRef

LEMMA AttemptStep ==
  ASSUME TypeOK, LoopInv, AttemptInv, [Next]_vars
  PROVE  AttemptInv'
<1> USE DEF TypeOK, AttemptInv, AttemptsMatchSnapshots
<1>1. CASE ToggleEnabled
  BY <1>1 DEF ToggleEnabled, runVars
<1>2. CASE Tick
  BY <1>2 DEF Tick, dbVars, runVars
<1>3. CASE StartRun
  BY <1>3 DEF StartRun
<1>4. CASE DiscoverFails
  BY <1>4 DEF DiscoverFails, FinishRun
<1>5. ASSUME NEW found \in SUBSET IDs, Discover(found)
      PROVE  AttemptInv'
  BY <1>5 DEF Discover, dbVars
<1>6. ASSUME NEW i \in IDs, ProcessRef(i)
      PROVE  AttemptInv'
  BY <1>6, AttemptProcessRef
<1>7. CASE FetchesDone
  BY <1>7 DEF FetchesDone, dbVars
<1>8. ASSUME NEW i \in IDs, MissedRun(i)
      PROVE  AttemptInv'
  <2>1. \A k \in IDs : IsListed(listing[k]) => IsListed(listing'[k])
    BY <1>8 DEF MissedRun, Missed, MissedStatus, IsListed, Live, Terminal
  <2> QED
    BY <1>8, <2>1 DEF MissedRun
<1>9. CASE RunEnds
  BY <1>9 DEF RunEnds, FinishRun
<1>10. CASE Restart
  BY <1>10 DEF Restart, dbVars
<1>11. CASE UNCHANGED vars
  BY <1>11 DEF vars, dbVars, runVars
<1> QED
  BY <1>1, <1>2, <1>3, <1>4, <1>5, <1>6, <1>7, <1>8, <1>9, <1>10, <1>11
     DEF Next, RunStep

(* No stored body is withdrawn from backfill without its snapshot, and no  *)
(* body whose snapshot was written is left with a parser_error attempt.    *)
THEOREM AttemptsCorrect == Spec => []AttemptsMatchSnapshots
<1>1. Init => AttemptInv
  BY AttemptInit
<1>2. TypeOK /\ LoopInv /\ CountInv /\ AttemptInv /\ [Next]_vars => AttemptInv'
  BY AttemptStep
<1>3. AttemptInv => AttemptsMatchSnapshots
  BY DEF AttemptInv
<1> QED
  BY <1>1, <1>2, <1>3, TypeCorrect, LoopCorrect, PTL DEF Spec

-----------------------------------------------------------------------------
(* What an upsert and a missed run do to a row that is consistent.         *)
LEMMA UpsertedRow ==
  ASSUME NEW l \in Listing, NEW r \in Reports, NEW now \in Nat
  PROVE  LET u == Upserted(l, r, now)
         IN  /\ IsListed(u) /\ u.misses = 0 /\ u.lastSeen = now
             /\ u.status \notin Gone
BY DEF Listing, Statuses, Terminal, Live, Gone, Reports, IsListed, Upserted,
       DerivedStatus

LEMMA MissedRow ==
  ASSUME NEW l \in Listing, IsListed(l), NEW h \in BOOLEAN, NEW now \in Nat
  PROVE  LET u == Missed(l, h, now)
         IN  /\ IsListed(u) /\ u.lastSeen = l.lastSeen
             /\ l.status \in Terminal => u = l
             /\ l.status \notin Terminal => u.misses = l.misses + 1 /\ u.status \notin Terminal
             /\ l.status = "presumed_inactive" => u.status = "presumed_inactive"
             /\ u.status # l.status =>
                  /\ h
                  /\ l.status \in Live
                  /\ u.status \in Gone
                  /\ u.misses >= MissThreshold
                  /\ u.status = "stale" => now - l.lastSeen >= StaleDays
                  /\ u.status = "presumed_inactive" => now - l.lastSeen >= InactiveDays
<1>1. CASE l.status \in Terminal
  BY <1>1 DEF Missed, IsListed, Terminal
<1>2. CASE l.status \in {"active", "stale", "presumed_inactive"}
  <2> DEFINE d == now - l.lastSeen
             s == MissedStatus(l.status, l.misses + 1, h, d)
  <2>1. d \in Int /\ l.misses + 1 \in Nat
    BY DEF Listing
  <2>2. /\ s \in {"active", "stale", "presumed_inactive"}
        /\ l.status = "presumed_inactive" => s = "presumed_inactive"
        /\ s # l.status => /\ h /\ l.misses + 1 >= MissThreshold
                           /\ l.status \in Live /\ s \in Gone
                           /\ s = "stale" => d >= StaleDays
                           /\ s = "presumed_inactive" => d >= InactiveDays
    <3> HIDE DEF d
    <3> QED
      BY <1>2, <2>1, ThresholdsAssumption DEF MissedStatus, Live, Gone
  <2>3. Missed(l, h, now) = [status |-> s, misses |-> l.misses + 1, lastSeen |-> l.lastSeen]
    BY <1>2 DEF Missed, Terminal
  <2> HIDE DEF s
  <2> QED
    BY <1>2, <2>2, <2>3 DEF IsListed, Terminal
<1> QED
  BY <1>1, <1>2 DEF Listing, Statuses, IsListed, Terminal

LEMMA RowInit == Init => RowInv
BY DEF Init, RowInv, RowsAreConsistent, NoListing, Gone, Terminal

LEMMA RowUpsert ==
  ASSUME TypeOK, RowInv, clock' = clock, NEW i \in IDs, NEW b \in Bodies,
         UpsertListing(i, b)
  PROVE  RowInv'
<1>1. Report[b] \in Reports
  BY OrchestratorAssumption
<1>2. /\ IsListed(listing'[i]) /\ listing'[i].misses = 0
      /\ listing'[i].status \notin Gone
  BY <1>1, UpsertedRow DEF UpsertListing, TypeOK
<1>3. \A k \in IDs \ {i} : listing'[k] = listing[k]
  BY DEF UpsertListing, TypeOK
<1> QED
  BY <1>2, <1>3 DEF RowInv, RowsAreConsistent, Gone

LEMMA RowMissed ==
  ASSUME TypeOK, LoopInv, RowInv, NEW i \in IDs, MissedRun(i)
  PROVE  RowInv'
<1>1. CASE UNCHANGED listing
  BY <1>1 DEF MissedRun, RowInv, RowsAreConsistent
<1>2. CASE /\ IsListed(listing[i])
           /\ listing' = [listing EXCEPT ![i] = Missed(@, Healthy(Cardinality(disc)), start)]
  <2> DEFINE l == listing[i]
             u == Missed(l, Healthy(Cardinality(disc)), start)
  <2>1. l \in Listing /\ start \in Nat /\ clock \in Nat /\ start <= clock
    BY DEF TypeOK, LoopInv
  <2>2. Healthy(Cardinality(disc)) \in BOOLEAN
    BY DEF Healthy
  <2>3. /\ IsListed(u) /\ u.lastSeen = l.lastSeen
        /\ l.status \in Terminal => u = l
        /\ l.status \notin Terminal => u.misses = l.misses + 1 /\ u.status \notin Terminal
        /\ u.status # l.status =>
             /\ u.misses >= MissThreshold
             /\ u.status = "stale" => start - l.lastSeen >= StaleDays
             /\ u.status = "presumed_inactive" => start - l.lastSeen >= InactiveDays
    BY <1>2, <2>1, <2>2, MissedRow
  <2>4. listing'[i] = u /\ \A k \in IDs \ {i} : listing'[k] = listing[k]
    BY <1>2 DEF TypeOK
  <2>5. l.misses \in Nat /\ l.lastSeen \in Nat
    BY <2>1 DEF Listing
  <2>6. clock' = clock
    BY DEF MissedRun
  <2>7. /\ u.status \in Gone => u.misses >= MissThreshold
        /\ u.status = "stale" => clock - u.lastSeen >= StaleDays
        /\ u.status = "presumed_inactive" => clock - u.lastSeen >= InactiveDays
        /\ u.status \in Terminal => u.misses = 0
    <3>1. /\ l.status \in Gone => l.misses >= MissThreshold
          /\ l.status = "stale" => clock - l.lastSeen >= StaleDays
          /\ l.status = "presumed_inactive" => clock - l.lastSeen >= InactiveDays
          /\ l.status \in Terminal => l.misses = 0
      BY DEF RowInv, RowsAreConsistent
    <3> HIDE DEF l, u
    <3> QED
      BY <2>1, <2>3, <2>5, <3>1, ThresholdsAssumption DEF Gone
  <2> QED
    BY <2>3, <2>4, <2>6, <2>7 DEF RowInv, RowsAreConsistent
<1> QED
  BY <1>1, <1>2 DEF MissedRun

LEMMA RowStep ==
  ASSUME TypeOK, LoopInv, RowInv, [Next]_vars
  PROVE  RowInv'
<1>1. CASE UNCHANGED listing /\ clock' \in Nat /\ clock' >= clock
  BY <1>1, ThresholdsAssumption DEF TypeOK, Listing, RowInv, RowsAreConsistent
<1>2. CASE ToggleEnabled \/ StartRun \/ DiscoverFails \/ FetchesDone \/ RunEnds \/ UNCHANGED vars
  BY <1>1, <1>2 DEF ToggleEnabled, StartRun, DiscoverFails, FetchesDone, RunEnds,
                    FinishRun, vars, dbVars, runVars, TypeOK
<1>3. CASE Tick \/ Restart \/ \E found \in SUBSET IDs : Discover(found)
  BY <1>1, <1>3 DEF Tick, Restart, Discover, dbVars, TypeOK
<1>4. ASSUME NEW i \in IDs, ProcessRef(i)
      PROVE  RowInv'
  <2>1. clock' = clock
    BY <1>4 DEF ProcessRef, FetchFails, Fetch, StoreRawFetch, StoreFails, ParseFails,
                Upsert, UpsertFails, RecordSuccess
  <2>2. UNCHANGED listing \/ \E b \in Bodies : UpsertListing(i, b)
    BY <1>4 DEF ProcessRef, FetchFails, Fetch, StoreRawFetch, StoreFails, ParseFails,
                Upsert, UpsertFails, RecordSuccess, dbVars
  <2> QED
    BY <1>1, <2>1, <2>2, RowUpsert DEF TypeOK
<1>5. ASSUME NEW i \in IDs, MissedRun(i)
      PROVE  RowInv'
  BY <1>5, RowMissed
<1> QED
  BY <1>2, <1>3, <1>4, <1>5 DEF Next, RunStep

(* The status, the miss counter and the last-seen date of a listing agree  *)
(* in every reachable state, whatever the thresholds.                      *)
THEOREM RowsCorrect == Spec => []RowsAreConsistent
<1>1. TypeOK /\ LoopInv /\ CountInv /\ RowInv /\ [Next]_vars => RowInv'
  BY RowStep
<1>2. RowInv => RowsAreConsistent
  BY DEF RowInv
<1> QED
  BY RowInit, <1>1, <1>2, TypeCorrect, LoopCorrect, PTL DEF Spec

-----------------------------------------------------------------------------
LEMMA ParsedStep ==
  ASSUME TypeOK, LoopInv, CountInv, ParsedStaysSeen, [Next]_vars
  PROVE  ParsedStaysSeen'
<1>1. CASE UNCHANGED <<listing, parsed, start>> \/ parsed' = {}
  BY <1>1 DEF ParsedStaysSeen
<1>2. CASE ToggleEnabled \/ Tick \/ DiscoverFails \/ FetchesDone \/ RunEnds \/ Restart
           \/ UNCHANGED vars
  BY <1>1, <1>2 DEF ToggleEnabled, Tick, DiscoverFails, FetchesDone, RunEnds, Restart,
                    FinishRun, IdleRun, vars, dbVars, runVars
<1>3. CASE StartRun
  BY <1>1, <1>3 DEF StartRun, LoopInv
<1>4. ASSUME NEW found \in SUBSET IDs, Discover(found)
      PROVE  ParsedStaysSeen'
  BY <1>1, <1>4 DEF Discover, dbVars
<1>5. ASSUME NEW i \in IDs, ProcessRef(i)
      PROVE  ParsedStaysSeen'
  <2>1. ASSUME NEW b \in Bodies, UpsertListing(i, b)
        PROVE  /\ IsListed(listing'[i]) /\ listing'[i].misses = 0
               /\ listing'[i].lastSeen = start /\ listing'[i].status \notin Gone
               /\ \A k \in IDs \ {i} : listing'[k] = listing[k]
    <3>1. Report[b] \in Reports
      BY OrchestratorAssumption
    <3> QED
      BY <2>1, <3>1, UpsertedRow DEF UpsertListing, TypeOK
  <2>2. ASSUME NEW b \in Bodies, Upsert(i, b)
        PROVE  ParsedStaysSeen'
    BY <2>1, <2>2 DEF Upsert, ParsedStaysSeen, TypeOK
  <2>3. ASSUME NEW b \in Bodies, UpsertFails(i, b)
        PROVE  ParsedStaysSeen'
    <3>1. i \notin parsed
      BY <2>3 DEF UpsertFails, CountInv
    <3> QED
      BY <2>1, <2>3, <3>1 DEF UpsertFails, ParsedStaysSeen, TypeOK
  <2> QED
    BY <1>1, <1>5, <2>2, <2>3
       DEF ProcessRef, FetchFails, Fetch, StoreRawFetch, StoreFails, ParseFails,
           RecordSuccess, dbVars
<1>6. ASSUME NEW i \in IDs, MissedRun(i)
      PROVE  ParsedStaysSeen'
  <2>1. i \notin parsed
    BY <1>6 DEF MissedRun, LoopInv, CountInv
  <2>2. \A k \in parsed : listing'[k] = listing[k]
    BY <1>6, <2>1 DEF MissedRun, TypeOK
  <2> QED
    BY <1>6, <2>2 DEF MissedRun, ParsedStaysSeen
<1> QED
  BY <1>2, <1>3, <1>4, <1>5, <1>6 DEF Next, RunStep

(* A listing the run counted as parsed is never also faded or counted      *)
(* missed by that run.                                                     *)
THEOREM ParsedCorrect == Spec => []ParsedStaysSeen
<1>1. Init => ParsedStaysSeen
  BY DEF Init, ParsedStaysSeen
<1>2. TypeOK /\ LoopInv /\ CountInv /\ ParsedStaysSeen /\ [Next]_vars => ParsedStaysSeen'
  BY ParsedStep
<1> QED
  BY <1>1, <1>2, TypeCorrect, LoopCorrect, PTL DEF Spec

-----------------------------------------------------------------------------
(* The counts RunEnds writes: each ref was counted at most once.           *)
LEMMA CountsAddUp ==
  ASSUME TypeOK, CountInv, pc = "missed"
  PROVE  /\ Cardinality(parsed) <= Cardinality(stored)
         /\ Cardinality(stored) <= Cardinality(parsed) + Cardinality(failed)
         /\ Cardinality(parsed) + Cardinality(failed) <= Cardinality(disc)
         /\ failed = {} <=> Cardinality(failed) = 0
<1>1. /\ IsFiniteSet(disc) /\ IsFiniteSet(stored)
      /\ IsFiniteSet(parsed) /\ IsFiniteSet(failed)
  BY Counts DEF TypeOK
<1>2. /\ parsed \subseteq stored
      /\ stored \subseteq parsed \cup failed
      /\ parsed \cup failed \subseteq disc
      /\ parsed \cap failed = {}
  BY DEF CountInv, Current
<1>3. /\ IsFiniteSet(parsed \cup failed)
      /\ Cardinality(parsed \cup failed) = Cardinality(parsed) + Cardinality(failed)
  <2>1. Cardinality(parsed \cap failed) = 0
    BY <1>2, FS_EmptySet
  <2>2. /\ IsFiniteSet(parsed \cup failed)
        /\ Cardinality(parsed \cup failed)
             = Cardinality(parsed) + Cardinality(failed) - Cardinality(parsed \cap failed)
    BY <1>1, FS_Union
  <2>3. Cardinality(parsed) \in Nat /\ Cardinality(failed) \in Nat
    BY Counts DEF TypeOK
  <2> QED
    BY <2>1, <2>2, <2>3
<1>4. Cardinality(parsed) <= Cardinality(stored)
  BY <1>1, <1>2, FS_Subset
<1>5. Cardinality(stored) <= Cardinality(parsed \cup failed)
  BY <1>2, <1>3, FS_Subset
<1>6. Cardinality(parsed \cup failed) <= Cardinality(disc)
  BY <1>1, <1>2, FS_Subset
<1>7. failed = {} <=> Cardinality(failed) = 0
  BY <1>1, FS_EmptySet
<1> QED
  BY <1>3, <1>4, <1>5, <1>6, <1>7

LEMMA RunRowStep ==
  ASSUME TypeOK, CountInv, RunRowAddsUp, [Next]_vars
  PROVE  RunRowAddsUp'
<1>1. CASE UNCHANGED lastRun
  BY <1>1 DEF RunRowAddsUp
<1>2. CASE ToggleEnabled \/ Tick \/ Restart \/ FetchesDone \/ UNCHANGED vars
  BY <1>1, <1>2 DEF ToggleEnabled, Tick, Restart, FetchesDone, vars, dbVars
<1>3. CASE StartRun
  BY <1>3 DEF StartRun, StartedRun, RunWithout, RunRowAddsUp
<1>4. CASE DiscoverFails
  BY <1>1, <1>4 DEF DiscoverFails, FinishRun, RunWithout, RunRowAddsUp
<1>5. ASSUME NEW found \in SUBSET IDs, Discover(found)
      PROVE  RunRowAddsUp'
  BY <1>1, <1>5 DEF Discover, dbVars
<1>6. ASSUME NEW i \in IDs, ProcessRef(i) \/ MissedRun(i)
      PROVE  RunRowAddsUp'
  BY <1>1, <1>6 DEF ProcessRef, FetchFails, Fetch, StoreRawFetch, StoreFails, ParseFails,
                    Upsert, UpsertFails, RecordSuccess, MissedRun, dbVars
<1>7. CASE RunEnds
  <2>1. /\ Cardinality(parsed) <= Cardinality(stored)
        /\ Cardinality(stored) <= Cardinality(parsed) + Cardinality(failed)
        /\ Cardinality(parsed) + Cardinality(failed) <= Cardinality(disc)
        /\ failed = {} <=> Cardinality(failed) = 0
    BY <1>7, CountsAddUp DEF RunEnds
  <2>2. Cardinality(failed) \in Nat
    BY Counts DEF TypeOK
  <2> QED
    BY <1>1, <1>7, <2>1, <2>2 DEF RunEnds, FinishRun, RunRowAddsUp
<1> QED
  BY <1>2, <1>3, <1>4, <1>5, <1>6, <1>7 DEF Next, RunStep

(* The counts and the status of a finished run row agree, for any number   *)
(* of listings and any mixture of failures.                                *)
THEOREM RunRowCorrect == Spec => []RunRowAddsUp
<1>1. Init => RunRowAddsUp
  BY DEF Init, NoRun, RunWithout, RunRowAddsUp
<1>2. TypeOK /\ LoopInv /\ CountInv /\ RunRowAddsUp /\ [Next]_vars => RunRowAddsUp'
  BY RunRowStep
<1> QED
  BY <1>1, <1>2, TypeCorrect, LoopCorrect, PTL DEF Spec

-----------------------------------------------------------------------------
(* What a step does to one listing row: an upsert, a missed run or nothing. *)
LEMMA ListingSteps ==
  ASSUME TypeOK, LoopInv, [Next]_vars
  PROVE  \/ UNCHANGED listing
         \/ \E i \in IDs, b \in Bodies : UpsertListing(i, b)
         \/ \E i \in IDs : /\ i \in missing /\ i \in prev \ disc
                          /\ IsListed(listing[i])
                          /\ listing' = [listing EXCEPT ![i] =
                                           Missed(@, Healthy(Cardinality(disc)), start)]
<1>1. CASE ToggleEnabled \/ StartRun \/ DiscoverFails \/ FetchesDone \/ RunEnds
           \/ Tick \/ Restart \/ UNCHANGED vars
  BY <1>1 DEF ToggleEnabled, StartRun, DiscoverFails, FetchesDone, RunEnds, FinishRun,
              Tick, Restart, vars, dbVars
<1>2. ASSUME NEW found \in SUBSET IDs, Discover(found)
      PROVE  UNCHANGED listing
  BY <1>2 DEF Discover, dbVars
<1>3. ASSUME NEW i \in IDs, ProcessRef(i)
      PROVE  UNCHANGED listing \/ \E b \in Bodies : UpsertListing(i, b)
  BY <1>3 DEF ProcessRef, FetchFails, Fetch, StoreRawFetch, StoreFails, ParseFails,
              Upsert, UpsertFails, RecordSuccess, dbVars
<1>4. ASSUME NEW i \in IDs, MissedRun(i)
      PROVE  \/ UNCHANGED listing
             \/ /\ i \in missing /\ i \in prev \ disc
                /\ IsListed(listing[i])
                /\ listing' = [listing EXCEPT ![i] =
                                 Missed(@, Healthy(Cardinality(disc)), start)]
  BY <1>4 DEF MissedRun, LoopInv
<1> QED
  BY <1>1, <1>2, <1>3, <1>4 DEF Next, RunStep

(* The row counts at most the disappearances that were seen on the site    *)
(* since a page of its listing was taken in, the one the missed-run        *)
(* handler has still to be told of included, and has the date of that      *)
(* page.  prevDiscovered is what the latest complete run discovered, or    *)
(* empty after a restart.                                                  *)
PresenceInv ==
  /\ present \subseteq IDs
  /\ vanished \in [IDs -> Nat]
  /\ takenIn \in [IDs -> Nat]
  /\ prev \subseteq present
  /\ \A i \in IDs : /\ listing[i].misses <= vanished[i]
                    /\ i \in missing => listing[i].misses + 1 <= vanished[i]
                    /\ IsListed(listing[i]) => takenIn[i] = listing[i].lastSeen

LEMMA PresenceStarts == PresenceInit => Init /\ PresenceInv
BY DEF PresenceInit, PresenceInv, Init, NoListing, IsListed

(* A page is taken in while one is parsed, and it is that of its listing.  *)
LEMMA TakenIn ==
  ASSUME TypeOK, LoopInv, NEW i \in IDs, TakesIn(i)
  PROVE  /\ pc = "parse" /\ missing = {} /\ missing' = {} /\ prev' = prev
         /\ \A k \in IDs \ {i} : ~TakesIn(k) /\ listing'[k] = listing[k]
         /\ IsListed(listing'[i]) /\ listing'[i].misses = 0 /\ listing'[i].lastSeen = start
<1>1. PICK b \in Bodies : (Upsert(i, b) \/ UpsertFails(i, b)) /\ UpsertListing(i, b)
  BY DEF TakesIn
<1>2. /\ pc = "parse" /\ cur = <<i, b>> /\ missing' = missing /\ prev' = prev
  BY <1>1 DEF Upsert, UpsertFails
<1>3. missing = {}
  BY <1>2 DEF LoopInv
<1>4. ASSUME NEW k \in IDs \ {i}
      PROVE  ~TakesIn(k) /\ listing'[k] = listing[k]
  BY <1>1, <1>2, <1>4 DEF TakesIn, Upsert, UpsertFails, UpsertListing, TypeOK
<1>5. Report[b] \in Reports /\ listing[i] \in Listing /\ start \in Nat
  BY OrchestratorAssumption DEF TypeOK
<1>6. listing'[i] = Upserted(listing[i], Report[b], start)
  BY <1>1 DEF UpsertListing, TypeOK
<1> QED
  BY <1>2, <1>3, <1>4, <1>5, <1>6, UpsertedRow

(* The steps that neither take in a page nor have to do with missing ones. *)
LEMMA OtherSteps ==
  ASSUME LoopInv, Next, \A i \in IDs : ~TakesIn(i) /\ ~MissedRun(i), ~FetchesDone, ~RunEnds
  PROVE  UNCHANGED listing /\ missing' \subseteq missing /\ prev' \in {prev, {}}
<1>1. CASE ToggleEnabled \/ Tick \/ StartRun \/ DiscoverFails \/ Restart
  BY <1>1 DEF ToggleEnabled, Tick, StartRun, DiscoverFails, FinishRun, IdleRun, Restart,
              dbVars, runVars
<1>2. ASSUME NEW found \in SUBSET IDs, Discover(found)
      PROVE  UNCHANGED <<listing, missing, prev>>
  BY <1>2 DEF Discover, dbVars
<1>3. ASSUME NEW i \in IDs, ProcessRef(i)
      PROVE  UNCHANGED <<listing, missing, prev>>
  <2>1. ASSUME NEW b \in Bodies, Upsert(i, b) \/ UpsertFails(i, b)
        PROVE  UNCHANGED <<listing, missing, prev>>
    <3>1. ~UpsertListing(i, b)
      BY <2>1 DEF TakesIn
    <3> QED
      BY <2>1, <3>1 DEF Upsert, UpsertFails
  <2> QED
    BY <1>3, <2>1 DEF ProcessRef, FetchFails, Fetch, StoreRawFetch, StoreFails, ParseFails,
                      RecordSuccess, dbVars
<1> QED
  BY <1>1, <1>2, <1>3 DEF Next, RunStep

LEMMA PresenceStep ==
  ASSUME TypeOK, LoopInv, PresenceInv, [PresenceNext]_presenceVars
  PROVE  PresenceInv'
<1>1. CASE UNCHANGED presenceVars
  BY <1>1 DEF presenceVars, vars, dbVars, runVars, PresenceInv
<1>2. CASE PresenceNext
  <2> USE DEF PresenceInv
  <2>1. /\ present' = IF RunEnds THEN disc ELSE present
        /\ \A k \in IDs :
             /\ takenIn'[k] = IF TakesIn(k) THEN start ELSE takenIn[k]
             /\ TakesIn(k) => vanished'[k] = 0
             /\ ~TakesIn(k) => IF FetchesDone /\ k \in present \ disc
                               THEN vanished'[k] = vanished[k] + 1
                               ELSE vanished'[k] = vanished[k]
    BY <1>2 DEF PresenceNext, FollowPresence
  <2>2. /\ present' \subseteq IDs /\ vanished' \in [IDs -> Nat] /\ takenIn' \in [IDs -> Nat]
    <3>1. present' \subseteq IDs
      BY <2>1 DEF TypeOK
    <3>2. start \in Nat
      BY DEF TypeOK
    <3>3. takenIn' \in [IDs -> Nat]
      BY <1>2, <3>2 DEF PresenceNext, FollowPresence
    <3>4. \A k \in IDs : vanished'[k] \in Nat
      BY <2>1
    <3>5. \E f : vanished' = [k \in IDs |-> f[k]]
      <4>1. vanished' = [k \in IDs |-> vanished'[k]]
        BY <1>2 DEF PresenceNext, FollowPresence
      <4> QED
        BY <4>1
    <3> QED
      BY <3>1, <3>3, <3>4, <3>5
  <2>3. \A k \in IDs : listing[k].misses \in Nat
    BY DEF TypeOK, Listing
  <2>4. ASSUME NEW i \in IDs, TakesIn(i)
        PROVE  PresenceInv'
    <3>1. /\ pc = "parse" /\ missing = {} /\ missing' = {} /\ prev' = prev
          /\ \A k \in IDs \ {i} : ~TakesIn(k) /\ listing'[k] = listing[k]
          /\ IsListed(listing'[i]) /\ listing'[i].misses = 0 /\ listing'[i].lastSeen = start
      BY <2>4, TakenIn
    <3>2. ~FetchesDone /\ ~RunEnds
      BY <3>1 DEF FetchesDone, RunEnds
    <3>3. takenIn'[i] = start /\ vanished'[i] = 0
      BY <2>1, <2>4
    <3>4. \A k \in IDs \ {i} : takenIn'[k] = takenIn[k] /\ vanished'[k] = vanished[k]
      BY <2>1, <3>1, <3>2
    <3> QED
      BY <2>1, <2>2, <3>1, <3>2, <3>3, <3>4
  <2>5. CASE FetchesDone
    <3>1. /\ pc = "fetch" /\ missing = {} /\ missing' \subseteq prev \ disc
          /\ UNCHANGED <<listing, prev>>
      BY <2>5 DEF FetchesDone, Removed, LoopInv, dbVars
    <3>2. \A k \in IDs : ~TakesIn(k)
      BY <3>1 DEF TakesIn, Upsert, UpsertFails
    <3>3. ~RunEnds
      BY <3>1 DEF RunEnds
    <3>4. \A k \in IDs : /\ takenIn'[k] = takenIn[k]
                         /\ k \in present \ disc => vanished'[k] = vanished[k] + 1
                         /\ k \notin present \ disc => vanished'[k] = vanished[k]
      BY <2>1, <2>5, <3>2
    <3> QED
      BY <2>1, <2>2, <2>3, <3>1, <3>3, <3>4
  <2>6. CASE ~FetchesDone /\ \A k \in IDs : ~TakesIn(k)
    <3>1. \A k \in IDs : takenIn'[k] = takenIn[k] /\ vanished'[k] = vanished[k]
      BY <2>1, <2>6
    <3>2. CASE RunEnds
      <4>1. UNCHANGED listing /\ missing' = {} /\ prev' = present'
        BY <2>1, <3>2 DEF RunEnds, FinishRun, IdleRun
      <4> QED
        BY <2>2, <3>1, <4>1
    <3>3. ASSUME NEW i \in IDs, MissedRun(i)
          PROVE  PresenceInv'
      <4>1. /\ pc = "missed" /\ i \in missing /\ missing' = missing \ {i} /\ prev' = prev
        BY <3>3 DEF MissedRun
      <4>2. present' = present \/ (prev' \subseteq present' /\ present' \subseteq IDs)
        BY <2>1, <2>2, <4>1 DEF RunEnds
      <4>3. \A k \in IDs \ {i} : listing'[k] = listing[k]
        BY <3>3 DEF MissedRun, TypeOK
      <4>4. CASE UNCHANGED listing
        BY <2>2, <2>3, <3>1, <4>1, <4>2, <4>4
      <4>5. CASE listing' # listing
        <5> DEFINE h == Healthy(Cardinality(disc))
        <5>1. IsListed(listing[i]) /\ listing'[i] = Missed(listing[i], h, start)
          BY <3>3, <4>5 DEF MissedRun, TypeOK
        <5>2. listing[i] \in Listing /\ h \in BOOLEAN /\ start \in Nat
          BY DEF TypeOK, Healthy
        <5>3. /\ listing'[i].lastSeen = listing[i].lastSeen
              /\ listing'[i].misses <= listing[i].misses + 1
          <6> HIDE DEF h
          <6>1. /\ listing'[i].lastSeen = listing[i].lastSeen
                /\ \/ listing'[i] = listing[i]
                   \/ listing'[i].misses = listing[i].misses + 1
            BY <5>1, <5>2, MissedRow
          <6> QED
            BY <2>3, <6>1
        <5>4. /\ i \notin missing' /\ listing'[i].misses <= vanished'[i]
              /\ takenIn'[i] = listing'[i].lastSeen
          <6>1. listing[i].misses + 1 <= vanished[i] /\ takenIn[i] = listing[i].lastSeen
            BY <4>1, <5>1
          <6>2. listing'[i].misses \in Nat
            BY <3>3, TypeStep, <1>2 DEF TypeOK, Listing, PresenceNext
          <6> QED
            BY <2>3, <3>1, <4>1, <5>3, <6>1, <6>2
        <5> QED
          BY <2>2, <3>1, <4>1, <4>2, <4>3, <5>4
      <4> QED
        BY <4>4, <4>5
    <3>4. CASE ~RunEnds /\ \A i \in IDs : ~MissedRun(i)
      <4>1. UNCHANGED listing /\ missing' \subseteq missing /\ prev' \in {prev, {}}
        BY <1>2, <2>6, <3>4, OtherSteps DEF PresenceNext
      <4>2. present' = present
        BY <2>1, <3>4
      <4> QED
        BY <2>2, <3>1, <4>1, <4>2
    <3> QED
      BY <3>2, <3>3, <3>4
  <2> QED
    BY <2>4, <2>5, <2>6
<1> QED
  BY <1>1, <1>2

LEMMA FadeStep ==
  ASSUME TypeOK, LoopInv, PresenceInv, [Next]_vars
  PROVE  \A i \in IDs : Faded(i) => EarnedFade(i)
<1>1. CASE UNCHANGED listing
  BY <1>1 DEF Faded
<1>2. ASSUME NEW i \in IDs, NEW b \in Bodies, UpsertListing(i, b)
      PROVE  \A k \in IDs : ~Faded(k)
  <2>1. Report[b] \in Reports
    BY OrchestratorAssumption
  <2>2. listing'[i].status \notin Gone
    BY <1>2, <2>1, UpsertedRow DEF UpsertListing, TypeOK
  <2> QED
    BY <1>2, <2>2 DEF Faded, UpsertListing, TypeOK
<1>3. ASSUME NEW i \in IDs, i \in missing, i \in prev \ disc, IsListed(listing[i]),
             listing' = [listing EXCEPT ![i] = Missed(@, Healthy(Cardinality(disc)), start)]
      PROVE  \A k \in IDs : Faded(k) => EarnedFade(k)
  <2> DEFINE h == Healthy(Cardinality(disc))
             l == listing[i]
             u == Missed(l, h, start)
  <2>1. h \in BOOLEAN /\ l \in Listing /\ start \in Nat /\ l.misses \in Nat
    BY DEF Healthy, TypeOK, Listing
  <2>2. u.status # l.status =>
             /\ h
             /\ u.misses = l.misses + 1
             /\ u.misses >= MissThreshold
             /\ u.status = "stale" => start - l.lastSeen >= StaleDays
             /\ u.status = "presumed_inactive" => start - l.lastSeen >= InactiveDays
    <3>1. l.status \in Terminal => u.status = l.status
      BY DEF Missed
    <3> QED
      BY <1>3, <2>1, <3>1, MissedRow
  <2>3. /\ l.misses + 1 <= vanished[i] /\ vanished[i] \in Nat
        /\ takenIn[i] = l.lastSeen /\ i \in present \ disc
    BY <1>3 DEF PresenceInv
  <2>4. listing'[i] = u /\ \A k \in IDs \ {i} : listing'[k] = listing[k]
    BY <1>3 DEF TypeOK
  <2>5. h => (prior > 0 => Cardinality(disc) * RatioDen >= RatioNum * prior)
    BY DEF Healthy, TypeOK
  <2>6. u.status # l.status => vanished[i] >= MissThreshold
    <3> HIDE DEF h, l, u
    <3> QED
      BY <2>1, <2>2, <2>3, ThresholdsAssumption
  <2> HIDE DEF h, u
  <2>7. Faded(i) => EarnedFade(i)
    BY <2>2, <2>3, <2>4, <2>5, <2>6 DEF Faded, EarnedFade
  <2> QED
    BY <2>4, <2>7 DEF Faded
<1> QED
  BY <1>1, <1>2, <1>3, ListingSteps

(* No listing fades but in the first run without it after one that         *)
(* discovered it, that passes the health gate, and when it has vanished    *)
(* from the site as often, and gone as long without its page being taken   *)
(* in, as the source asks for: counted on the site, not in its row.        *)
THEOREM FadingCorrect == PresenceSpec => FadingIsEarned
<1>1. PresenceInit => Init /\ PresenceInv
  BY PresenceStarts
<1>2. [PresenceNext]_presenceVars => [Next]_vars
  BY DEF PresenceNext, presenceVars
<1>3. TypeOK /\ LoopInv /\ CountInv /\ PresenceInv /\ [PresenceNext]_presenceVars => PresenceInv'
  BY PresenceStep
<1>4. TypeOK /\ LoopInv /\ CountInv /\ PresenceInv /\ [PresenceNext]_presenceVars
        => [\A i \in IDs : Faded(i) => EarnedFade(i)]_presenceVars
  BY <1>2, FadeStep
<1> QED
  BY <1>1, <1>2, <1>3, <1>4, TypeCorrect, LoopCorrect, PTL
     DEF Spec, PresenceSpec, FadingIsEarned

-----------------------------------------------------------------------------
(* The lifecycle a listing row shows.                                      *)
StatusOf == [i \in IDs |-> listing[i].status]
MissedOf == {i \in IDs : listing[i].misses > 0}

(* A change of row i changes the status and the misses of i only.          *)
LEMMA RowChange ==
  ASSUME NEW i \in IDs, \A k \in IDs \ {i} : listing'[k] = listing[k]
  PROVE  /\ StatusOf' = [StatusOf EXCEPT ![i] = listing'[i].status]
         /\ listing'[i].misses > 0 => MissedOf' = MissedOf \cup {i}
         /\ ~(listing'[i].misses > 0) => MissedOf' = MissedOf \ {i}
         /\ StatusOf[i] = listing[i].status
         /\ listing'[i].status = listing[i].status => StatusOf' = StatusOf
<1>1. StatusOf' = [StatusOf EXCEPT ![i] = listing'[i].status]
  BY DEF StatusOf
<1>2. /\ listing'[i].misses > 0 => MissedOf' = MissedOf \cup {i}
      /\ ~(listing'[i].misses > 0) => MissedOf' = MissedOf \ {i}
  BY DEF MissedOf
<1>3. /\ StatusOf[i] = listing[i].status
      /\ listing'[i].status = listing[i].status => StatusOf' = StatusOf
  BY DEF StatusOf
<1> QED
  BY <1>1, <1>2, <1>3

LEMMA LifecycleInit == Init => L!Init
BY DEF Init, L!Init, NoListing

LEMMA LifecycleUpsert ==
  ASSUME TypeOK, RowInv, NEW i \in IDs, NEW b \in Bodies, UpsertListing(i, b)
  PROVE  [L!Next]_(L!lifecycleVars)
<1> DEFINE l == listing[i]
           u == listing'[i]
<1>1. l \in Listing /\ Report[b] \in Reports
  BY OrchestratorAssumption DEF TypeOK
<1>2. u = Upserted(l, Report[b], start) /\ \A k \in IDs \ {i} : listing'[k] = listing[k]
  BY DEF UpsertListing, TypeOK
<1>3. u.misses = 0
  BY <1>1, <1>2, UpsertedRow DEF TypeOK
<1>4. /\ StatusOf' = [StatusOf EXCEPT ![i] = u.status]
      /\ MissedOf' = MissedOf \ {i}
  BY <1>2, <1>3, RowChange
<1>5. /\ StatusOf[i] = l.status /\ (i \in MissedOf <=> l.misses > 0)
      /\ StatusOf \in [IDs -> Statuses \cup {"unlisted"}]
      /\ MissedOf \subseteq IDs
  BY DEF StatusOf, MissedOf, TypeOK, Listing
<1>6. CASE l.status = "unlisted"
  <2>1. u.status = "active"
    BY <1>2, <1>6 DEF Upserted, IsListed
  <2>2. l.misses = 0
    BY <1>6 DEF RowInv, IsListed
  <2>3. UNCHANGED MissedOf
    BY <1>4, <1>5, <2>2
  <2>4. L!Appear(i)
    BY <1>4, <1>5, <1>6, <2>1, <2>3 DEF L!Appear, StatusOf, MissedOf
  <2> QED
    BY <2>4 DEF L!Next
<1>7. CASE l.status \in Terminal
  <2>1. u.status = l.status
    BY <1>1, <1>2, <1>7 DEF Upserted, DerivedStatus, IsListed, Terminal, Live, Gone
  <2>2. l.misses = 0
    BY <1>7 DEF RowInv, RowsAreConsistent
  <2>3. UNCHANGED <<StatusOf, MissedOf>>
    BY <1>4, <1>5, <2>1, <2>2
  <2> QED
    BY <2>3 DEF L!lifecycleVars, StatusOf, MissedOf
<1>8. CASE l.status \in {"active", "stale", "presumed_inactive"}
  <2>1. \/ u.status = "active"
        \/ l.status \in Live /\ u.status \in {"confirmed_sold", "withdrawn"}
    BY <1>1, <1>2, <1>8 DEF Upserted, DerivedStatus, IsListed, Live, Gone
  <2>2. L!Seen(i) \/ L!Close(i)
    BY <1>4, <1>5, <1>8, <2>1 DEF L!Seen, L!Close, StatusOf, MissedOf, Live
  <2> QED
    BY <2>2 DEF L!Next
<1> QED
  BY <1>1, <1>6, <1>7, <1>8 DEF Listing, Statuses, Terminal

LEMMA LifecycleMissed ==
  ASSUME TypeOK, NEW i \in IDs, IsListed(listing[i]),
         listing' = [listing EXCEPT ![i] = Missed(@, Healthy(Cardinality(disc)), start)]
  PROVE  [L!Next]_(L!lifecycleVars)
<1> DEFINE h == Healthy(Cardinality(disc))
           l == listing[i]
           u == listing'[i]
<1>1. l \in Listing /\ start \in Nat /\ h \in BOOLEAN
  BY DEF TypeOK, Healthy
<1>2. u = Missed(l, h, start) /\ \A k \in IDs \ {i} : listing'[k] = listing[k]
  BY DEF TypeOK
<1>3. /\ l.status \in Terminal => u = l
      /\ l.status \notin Terminal => u.misses = l.misses + 1 /\ u.status \notin Terminal
      /\ l.status = "presumed_inactive" => u.status = "presumed_inactive"
      /\ u.status # l.status => l.status \in Live /\ u.status \in Gone
  BY <1>1, <1>2, MissedRow
<1>4. CASE l.status \in Terminal
  <2>1. UNCHANGED listing
    BY <1>2, <1>3, <1>4 DEF TypeOK
  <2> QED
    BY <2>1 DEF L!lifecycleVars
<1>5. CASE l.status \in {"active", "stale", "presumed_inactive"}
  <2>1. u.misses > 0
    BY <1>1, <1>3, <1>5 DEF Listing, Terminal
  <2>2. /\ StatusOf' = [StatusOf EXCEPT ![i] = u.status]
        /\ MissedOf' = MissedOf \cup {i}
        /\ StatusOf[i] = l.status
        /\ u.status = l.status => StatusOf' = StatusOf
    BY <1>2, <2>1, RowChange
  <2>3. CASE u.status = l.status
    <3>1. L!Miss(i)
      BY <1>5, <2>2, <2>3 DEF L!Miss, StatusOf, MissedOf
    <3> QED
      BY <3>1 DEF L!Next
  <2>4. CASE u.status # l.status
    <3>1. L!Fade(i)
      BY <1>3, <1>5, <2>2, <2>4 DEF L!Fade, StatusOf, MissedOf, Live, Gone
    <3> QED
      BY <3>1 DEF L!Next
  <2> QED
    BY <2>3, <2>4
<1> QED
  BY <1>1, <1>4, <1>5 DEF Listing, Statuses, Terminal, IsListed

LEMMA LifecycleStep ==
  ASSUME TypeOK, LoopInv, RowInv, [Next]_vars
  PROVE  [L!Next]_(L!lifecycleVars)
<1>1. CASE UNCHANGED listing
  BY <1>1 DEF L!lifecycleVars
<1> QED
  BY <1>1, ListingSteps, LifecycleUpsert, LifecycleMissed

(* The pipeline implements the lifecycle: no interleaving of runs,         *)
(* failures, restarts and reports moves a listing in another way.          *)
THEOREM LifecycleCorrect == Spec => FollowsLifecycle
<1>1. TypeOK /\ LoopInv /\ CountInv /\ RowInv /\ [Next]_vars => RowInv'
  BY RowStep
<1>2. TypeOK /\ LoopInv /\ CountInv /\ RowInv /\ [Next]_vars => [L!Next]_(L!lifecycleVars)
  BY LifecycleStep
<1> QED
  BY RowInit, LifecycleInit, <1>1, <1>2, TypeCorrect, LoopCorrect, PTL
     DEF Spec, FollowsLifecycle, L!Spec
=============================================================================
