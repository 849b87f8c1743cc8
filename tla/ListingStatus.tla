---------------------------- MODULE ListingStatus ----------------------------
(***************************************************************************)
(* The status of one listing and the two pure rules that move it: the      *)
(* status an upsert derives from what the source reports (derivedStatus)   *)
(* and the status a missed run leaves behind (ApplyMissedRun).  Both live  *)
(* in business/sdk/listingbus/listingbus.go.  Time is counted in days.     *)
(***************************************************************************)
EXTENDS Integers

CONSTANTS StaleDays,      \* source.AbsenceDaysBeforeStale
          InactiveDays,   \* source.AbsenceDaysBeforeInactive
          MissThreshold   \* source.ConsecutiveMissedRunsThreshold

ASSUME ThresholdsAssumption ==
  /\ StaleDays \in Nat
  /\ InactiveDays \in Nat
  /\ MissThreshold \in Nat

Live == {"active", "stale"}
Gone == {"stale", "presumed_inactive"}
Terminal == {"confirmed_sold", "withdrawn"}
Statuses == {"active", "stale", "presumed_inactive"} \cup Terminal

(* What the source says about a listing: "sold" stands for sold and        *)
(* under-contract, "withdrawn" for withdrawn and cancelled, "listed" for   *)
(* every other value of SourceStatus, the empty one included.              *)
Reports == {"listed", "sold", "withdrawn"}

(* A row of the listings table; "unlisted" is the absence of a row.        *)
Listing == [status: Statuses \cup {"unlisted"}, misses: Nat, lastSeen: Nat]

NoListing == [status |-> "unlisted", misses |-> 0, lastSeen |-> 0]

IsListed(l) == l.status # "unlisted"

(* Mutant: the live guard forgotten, so a closed listing comes back.       *)
DerivedStatusReopens(status, report) ==
  CASE report = "sold" /\ status \in Live      -> "confirmed_sold"
    [] report = "withdrawn" /\ status \in Live -> "withdrawn"
    [] OTHER -> "active"

DerivedStatus(status, report) ==
  CASE report = "sold" /\ status \in Live      -> "confirmed_sold"
    [] report = "withdrawn" /\ status \in Live -> "withdrawn"
    [] OTHER -> IF status \in Gone THEN "active" ELSE status

(* Mutant: last_seen_at taken one day too early.                           *)
UpsertedDayBefore(l, report, now) ==
  [status   |-> IF IsListed(l) THEN DerivedStatus(l.status, report) ELSE "active",
   misses   |-> 0,
   lastSeen |-> now - 1]

(* The listing row an upsert writes: a first sighting is created active    *)
(* whatever the source reports, an existing row gets its derived status.   *)
Upserted(l, report, now) ==
  [status   |-> IF IsListed(l) THEN DerivedStatus(l.status, report) ELSE "active",
   misses   |-> 0,
   lastSeen |-> now]

(* Mutant: the health gate forgotten.                                      *)
MissedStatusUngated(status, n, healthy, absentDays) ==
  IF n >= MissThreshold /\ status \in Live
  THEN CASE absentDays >= InactiveDays -> "presumed_inactive"
         [] absentDays < InactiveDays /\ absentDays >= StaleDays -> "stale"
         [] OTHER -> status
  ELSE status

(* Mutant: the miss threshold off by one.                                  *)
MissedStatusEarly(status, n, healthy, absentDays) ==
  IF healthy /\ n + 1 >= MissThreshold /\ status \in Live
  THEN CASE absentDays >= InactiveDays -> "presumed_inactive"
         [] absentDays < InactiveDays /\ absentDays >= StaleDays -> "stale"
         [] OTHER -> status
  ELSE status

(* The status left by the n-th miss since the row was last upserted, which *)
(* was absentDays ago.  Misses are not consecutive runs: a listing that is *)
(* discovered but not upserted keeps its misses and its last_seen_at, and  *)
(* an unhealthy run counts.                                                *)
MissedStatus(status, n, healthy, absentDays) ==
  IF healthy /\ n >= MissThreshold /\ status \in Live
  THEN CASE absentDays >= InactiveDays -> "presumed_inactive"
         [] absentDays < InactiveDays /\ absentDays >= StaleDays -> "stale"
         [] OTHER -> status
  ELSE status

(* The listing row ApplyMissedRun writes; a terminal row is left alone.    *)
Missed(l, healthy, now) ==
  IF l.status \in Terminal
  THEN l
  ELSE [status   |-> MissedStatus(l.status, l.misses + 1, healthy, now - l.lastSeen),
        misses   |-> l.misses + 1,
        lastSeen |-> l.lastSeen]
=============================================================================
