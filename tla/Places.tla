------------------------------- MODULE Places --------------------------------
(***************************************************************************)
(* Geocoding: every upsert of a listing asks CachingGeocoder for the point *)
(* of its address.  The upserts of different listings run concurrently and *)
(* share the cache and the counter of today's calls of the provider.       *)
(*                                                                         *)
(* A point is told by the address it was found for and by how it was       *)
(* found: by the provider, or as the centroid of the county.               *)
(***************************************************************************)
EXTENDS Integers, FiniteSets

CONSTANTS
  Listings,    \* ids of listings
  Addresses,   \* addresses, as normalizeKey tells them apart
  NoAddress,   \* the address of a page, or a row, without one
  Counties,    \* the addresses whose county is in countyCentroids
  Limit,       \* daily limit of provider calls, 0 means unlimited
  Faults,      \* which calls may fail: "cache", "geocoder", "database"
  MaxResets,   \* bound of the model: midnights and restarts
  MaxUpserts   \* bound of the model: upserts

ASSUME PlacesAssumption ==
  /\ IsFiniteSet(Listings)
  /\ NoAddress \notin Addresses
  /\ Counties \subseteq Addresses
  /\ Limit \in Nat
  /\ Faults \subseteq {"cache", "geocoder", "database"}
  /\ MaxResets \in Nat
  /\ MaxUpserts \in Nat

Nowhere == [of |-> NoAddress, precision |-> "none"]
Points == [of: Addresses, precision: {"rooftop", "county_centroid"}]
Geoms == Points \cup {Nowhere}

VARIABLES
  place,    \* place[l]: address and geom of the listing's row
  cache,    \* cache[a]: geocode_cache, Nowhere without a row
  used,     \* CachingGeocoder.dailyUsed
  job,      \* job[l]: the upsert of l: next step, page's address, geom so far
  calls,    \* provider calls made since midnight
  carried,  \* what the counter missed when it was last set to 0: calls made
            \* today already, and jobs that had counted and not finished
  resets,
  upserts

placesVars == <<place, cache, used, job, calls, carried, resets, upserts>>

Steps == {"count", "call", "giveback", "store", "write"}
MaybeAddress == Addresses \cup {NoAddress}
NoRow == [address |-> NoAddress, geom |-> Nowhere]
Row == [address: MaybeAddress, geom: Geoms]
NoJob == [step |-> "idle", address |-> NoAddress, geom |-> Nowhere]
Job == [step: Steps, address: Addresses, geom: Geoms]
         \cup [step: {"write"}, address: {NoAddress}, geom: Geoms]

(* The county of the address has a centroid to stand in.                   *)
HasCentroid(a) == a \in Counties

Cached(a) == cache[a] # Nowhere

At(step) == {l \in Listings : job[l].step = step}

(* The upsert of l goes on to a step, with a geom.                         *)
Goto(l, step, geom) ==
  job' = [job EXCEPT ![l] = [step |-> step, address |-> @.address, geom |-> geom]]

-----------------------------------------------------------------------------
PlacesInit ==
  /\ place = [l \in Listings |-> NoRow]
  /\ cache = [a \in Addresses |-> Nowhere]
  /\ used = 0
  /\ job = [l \in Listings |-> NoJob]
  /\ calls = 0
  /\ carried = 0
  /\ resets = 0
  /\ upserts = 0

(* UpsertFromParsed reads the row and takes the page's address.  Without   *)
(* one there is no geocoding; else the cache is asked: a cached point ends *)
(* it, a lookup that fails counts as a miss.  The geom stays the row's     *)
(* until there is another.                                                 *)
StartUpsert(l, a) ==
  /\ job[l].step = "idle"
  /\ upserts < MaxUpserts
  /\ upserts' = upserts + 1
  /\ LET miss == IF Limit > 0 THEN "count" ELSE "call"
         To(step, geom) ==
           job' = [job EXCEPT ![l] = [step |-> step, address |-> a, geom |-> geom]]
     IN  \/ a = NoAddress /\ To("write", place[l].geom)
         \/ a \in Addresses /\ Cached(a) /\ To("write", cache[a])
         \/ /\ a \in Addresses
            /\ ~Cached(a) \/ "cache" \in Faults
            /\ To(miss, place[l].geom)
  /\ UNCHANGED <<place, cache, used, calls, carried, resets>>

(* Mutant: one call too many let through.                                  *)
CountLate(l) ==
  /\ job[l].step = "count"
  /\ used' = used + 1
  /\ Goto(l, IF used > Limit THEN "giveback" ELSE "call", job[l].geom)
  /\ UNCHANGED <<place, cache, calls, carried, resets, upserts>>

(* dailyUsed.Add(1) and the comparison of what it returned.                *)
Count(l) ==
  /\ job[l].step = "count"
  /\ used' = used + 1
  /\ Goto(l, IF used + 1 > Limit THEN "giveback" ELSE "call", job[l].geom)
  /\ UNCHANGED <<place, cache, calls, carried, resets, upserts>>

(* dailyUsed.Add(-1) and ErrDailyLimitExceeded: the geom stays.            *)
GiveBack(l) ==
  /\ job[l].step = "giveback"
  /\ used' = used - 1
  /\ Goto(l, "write", job[l].geom)
  /\ UNCHANGED <<place, cache, calls, carried, resets, upserts>>

(* The provider finds the address, or fails: then the county's centroid    *)
(* stands in, or the error is logged and the geom stays.                   *)
Call(l) ==
  /\ job[l].step = "call"
  /\ calls' = calls + 1
  /\ LET a == job[l].address
     IN  \/ Goto(l, "store", [of |-> a, precision |-> "rooftop"])
         \/ /\ "geocoder" \in Faults /\ HasCentroid(a)
            /\ Goto(l, "store", [of |-> a, precision |-> "county_centroid"])
         \/ "geocoder" \in Faults /\ ~HasCentroid(a) /\ Goto(l, "write", job[l].geom)
  /\ UNCHANGED <<place, cache, used, carried, resets, upserts>>

(* Mutant: the answer cached for the address that the row had.             *)
StoreForRow(l) ==
  /\ job[l].step = "store"
  /\ \/ /\ place[l].address \in Addresses
        /\ cache' = [cache EXCEPT ![place[l].address] = job[l].geom]
     \/ UNCHANGED cache
  /\ Goto(l, "write", job[l].geom)
  /\ UNCHANGED <<place, used, calls, carried, resets, upserts>>

(* The answer is cached; an error of the cache is ignored.                 *)
Store(l) ==
  /\ job[l].step = "store"
  /\ \/ cache' = [cache EXCEPT ![job[l].address] = job[l].geom]
     \/ "cache" \in Faults /\ UNCHANGED cache
  /\ Goto(l, "write", job[l].geom)
  /\ UNCHANGED <<place, used, calls, carried, resets, upserts>>

(* The listing is created or updated, or the upsert fails.                 *)
WriteRow(l) ==
  /\ job[l].step = "write"
  /\ place' = [place EXCEPT ![l] = [address |-> job[l].address, geom |-> job[l].geom]]
  /\ job' = [job EXCEPT ![l] = NoJob]
  /\ UNCHANGED <<cache, used, calls, carried, resets, upserts>>

WriteFails(l) ==
  /\ job[l].step = "write"
  /\ "database" \in Faults
  /\ job' = [job EXCEPT ![l] = NoJob]
  /\ UNCHANGED <<place, cache, used, calls, carried, resets, upserts>>

(* Mutant: the counter not reset at midnight.                              *)
MidnightKeepsCount ==
  /\ resets < MaxResets
  /\ resets' = resets + 1
  /\ calls' = 0
  /\ carried' = Cardinality(At("call") \cup At("giveback"))
  /\ UNCHANGED <<place, cache, used, job, upserts>>

(* ResetDailyCount, "Call at midnight".                                    *)
Midnight ==
  /\ resets < MaxResets
  /\ resets' = resets + 1
  /\ used' = 0
  /\ calls' = 0
  /\ carried' = Cardinality(At("call") \cup At("giveback"))
  /\ UNCHANGED <<place, cache, job, upserts>>

(* The process restarts: the counter is in memory only, the day goes on.   *)
Restart ==
  /\ resets < MaxResets
  /\ resets' = resets + 1
  /\ used' = 0
  /\ job' = [l \in Listings |-> NoJob]
  /\ carried' = calls
  /\ UNCHANGED <<place, cache, calls, upserts>>

GeocodeStep(l) == Count(l) \/ GiveBack(l) \/ Call(l) \/ Store(l)

PlacesNext ==
  \/ Midnight
  \/ Restart
  \/ (\E l \in Listings : GeocodeStep(l) \/ WriteRow(l) \/ WriteFails(l))
  \/ (\E l \in Listings, a \in MaybeAddress : StartUpsert(l, a))

PlacesSpec == PlacesInit /\ [][PlacesNext]_placesVars

-----------------------------------------------------------------------------
PlacesTypeOK ==
  /\ place \in [Listings -> Row]
  /\ cache \in [Addresses -> Geoms]
  /\ used \in Int
  /\ job \in [Listings -> Job \cup {NoJob}]
  /\ calls \in Nat
  /\ carried \in Nat
  /\ resets \in Nat
  /\ upserts \in Nat

(* The daily limit holds however upserts interleave: the provider is       *)
(* called at most Limit times a day, but for what the counter misses: the  *)
(* calls before a restart, and the calls and refusals that midnight found  *)
(* between the counting and their end.                                     *)
QuotaKept == Limit > 0 => calls + Cardinality(At("call")) <= Limit + carried

(* No call is refused while the day has calls left, not even when other    *)
(* refused calls have yet to give back what they counted.                  *)
RefusedAtLimitOnly ==
  [][\A l \in Listings : job[l].step = "count" /\ job'[l].step = "giveback"
       => calls + Cardinality(At("call")) >= Limit]_placesVars

(* A row's point changes only to a point of the address that the row has   *)
(* from then on, however upserts share the cache: a point of another       *)
(* address is at most left standing, when geocoding the new one is refused *)
(* or fails, or the page gives none.                                       *)
PointsAreOfTheAddress ==
  [][\A l \in Listings : place'[l].geom # place[l].geom
       => place'[l].geom.of = place'[l].address]_placesVars
=============================================================================
