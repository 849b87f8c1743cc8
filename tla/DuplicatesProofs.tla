-------------------------- MODULE DuplicatesProofs ---------------------------
(***************************************************************************)
(* Proofs about geocoding and possible duplicates: composed with RunDedup, *)
(* geocoding still behaves as Places says, the daily limit holds for any   *)
(* number of concurrent upserts, and decisions stand.                      *)
(***************************************************************************)
EXTENDS Duplicates, FiniteSetTheorems, TLAPS

Calling == Cardinality(At("call"))
Returning == Cardinality(At("giveback"))

(* What the counter shows and what it misses are the calls made, the calls *)
(* about to be made and the refusals to be given back.  A refusal pending  *)
(* while the day has calls left was carried over.                          *)
CountInv ==
  Limit > 0 =>
    /\ used + carried = calls + Calling + Returning
    /\ calls + Calling <= Limit + carried
    /\ Returning <= carried \/ calls + Calling >= Limit

PlacesInv == PlacesTypeOK /\ CountInv

AnyJob == Job \cup {NoJob}

(* The jobs at a step are finitely many.                                   *)
LEMMA AtFinite ==
  ASSUME NEW step
  PROVE  IsFiniteSet(At(step)) /\ Cardinality(At(step)) \in Nat
<1>1. At(step) \in SUBSET Listings
  BY DEF At
<1>2. IsFiniteSet(At(step))
  BY <1>1, FS_Subset, PlacesAssumption
<1> QED
  BY <1>2, FS_CardinalityType

(* A job that moves from one step to another moves between the two sets.   *)
LEMMA AtMoves ==
  ASSUME job \in [Listings -> AnyJob], NEW l \in Listings, NEW new \in AnyJob,
         job' = [job EXCEPT ![l] = new], NEW step
  PROVE  At(step)' = IF new.step = step THEN At(step) \cup {l} ELSE At(step) \ {l}
  BY DEF At, AnyJob, Job, NoJob

LEMMA CountsMove ==
  ASSUME job \in [Listings -> AnyJob], NEW l \in Listings, NEW new \in AnyJob,
         job' = [job EXCEPT ![l] = new], NEW step
  PROVE  Cardinality(At(step)') =
           IF job[l].step # step /\ new.step = step THEN Cardinality(At(step)) + 1
           ELSE IF job[l].step = step /\ new.step # step THEN Cardinality(At(step)) - 1
           ELSE Cardinality(At(step))
<1>1. l \in At(step) <=> job[l].step = step
  BY DEF At
<1>2. IsFiniteSet(At(step))
  BY AtFinite
<1>3. CASE new.step = step
  <2>1. At(step)' = At(step) \cup {l}
    BY <1>3, AtMoves
  <2> QED
    BY <1>1, <1>2, <1>3, <2>1, FS_AddElement
<1>4. CASE new.step # step
  <2>1. At(step)' = At(step) \ {l}
    BY <1>4, AtMoves
  <2> QED
    BY <1>1, <1>2, <1>4, <2>1, FS_RemoveElement
<1> QED
  BY <1>3, <1>4

(* Every step of an upsert leaves its job a typed one; where it goes       *)
(* depends on the step.                                                    *)
LEMMA Goes ==
  ASSUME PlacesTypeOK, NEW l \in Listings, job[l].step \in Steps \ {"write"}, NEW step \in Steps,
         NEW geom \in Geoms, Goto(l, step, geom)
  PROVE  \E new \in Job : new.step = step /\ job' = [job EXCEPT ![l] = new]
<1>1. job[l] \in Job /\ job[l].address \in Addresses
  BY DEF PlacesTypeOK, NoJob, Steps, Job
<1>2. [step |-> step, address |-> job[l].address, geom |-> geom] \in Job
  BY <1>1 DEF Job
<1> QED
  BY <1>2 DEF Goto, PlacesTypeOK

LEMMA CountGoes ==
  ASSUME PlacesTypeOK, NEW l \in Listings, Count(l)
  PROVE  \E new \in Job : /\ new.step = IF used + 1 > Limit THEN "giveback" ELSE "call"
                          /\ job' = [job EXCEPT ![l] = new]
<1>1. job[l] \in Job
  BY DEF PlacesTypeOK, NoJob, Steps, Count
<1> QED
  BY <1>1, Goes DEF Count, Job, Steps

LEMMA GiveBackGoes ==
  ASSUME PlacesTypeOK, NEW l \in Listings, GiveBack(l)
  PROVE  \E new \in Job : new.step = "write" /\ job' = [job EXCEPT ![l] = new]
<1>1. job[l] \in Job
  BY DEF PlacesTypeOK, NoJob, Steps, GiveBack
<1> QED
  BY <1>1, Goes DEF GiveBack, Job, Steps

LEMMA CallGoes ==
  ASSUME PlacesTypeOK, NEW l \in Listings, Call(l)
  PROVE  \E new \in Job : new.step \in {"store", "write"} /\ job' = [job EXCEPT ![l] = new]
<1>1. job[l] \in Job
  BY DEF PlacesTypeOK, NoJob, Steps, Call
<1>2. job[l].step = "call" /\ job[l].address \in Addresses /\ job[l].geom \in Geoms
  BY <1>1 DEF Call, Job
<1>3. /\ [of |-> job[l].address, precision |-> "rooftop"] \in Geoms
      /\ [of |-> job[l].address, precision |-> "county_centroid"] \in Geoms
  BY <1>2 DEF Geoms, Points
<1>4. \E step \in {"store", "write"}, geom \in Geoms : Goto(l, step, geom)
  BY <1>2, <1>3 DEF Call
<1> QED
  BY <1>2, <1>4, Goes DEF Steps

LEMMA StoreGoes ==
  ASSUME PlacesTypeOK, NEW l \in Listings, Store(l)
  PROVE  /\ \E new \in Job : new.step = "write" /\ job' = [job EXCEPT ![l] = new]
         /\ job[l].geom \in Geoms
<1>1. job[l] \in Job
  BY DEF PlacesTypeOK, NoJob, Steps, Store
<1> QED
  BY <1>1, Goes DEF Store, Job, Steps

LEMMA UpsertStarts ==
  ASSUME PlacesTypeOK, NEW l \in Listings, NEW a \in MaybeAddress, StartUpsert(l, a)
  PROVE  \E new \in Job : /\ new.step \in {"write", IF Limit > 0 THEN "count" ELSE "call"}
                          /\ job' = [job EXCEPT ![l] = new]
<1>1. place[l].geom \in Geoms
  BY DEF PlacesTypeOK, Row
<1>2. CASE a \in Addresses
  <2>1. cache[a] \in Geoms
    BY <1>2 DEF PlacesTypeOK
  <2>2. \A step \in Steps, geom \in Geoms :
          [step |-> step, address |-> a, geom |-> geom] \in Job
    BY <1>2 DEF Job
  <2> QED
    BY <1>1, <1>2, <2>1, <2>2, PlacesAssumption DEF StartUpsert, Cached, Steps
<1>3. CASE a = NoAddress
  <2>1. [step |-> "write", address |-> a, geom |-> place[l].geom] \in Job
    BY <1>1, <1>3 DEF Job, Steps
  <2> QED
    BY <1>3, <2>1, PlacesAssumption DEF StartUpsert, Cached
<1> QED
  BY <1>2, <1>3 DEF MaybeAddress

-----------------------------------------------------------------------------
(* The type correctness of geocoding.                                      *)
LEMMA PlacesTyped ==
  ASSUME PlacesTypeOK, PlacesNext
  PROVE  PlacesTypeOK'
<1>1. CASE Midnight
  <2>1. IsFiniteSet(At("call") \cup At("giveback"))
    BY AtFinite, FS_Union
  <2>2. Cardinality(At("call") \cup At("giveback")) \in Nat
    BY <2>1, FS_CardinalityType
  <2> QED
    BY <1>1, <2>2 DEF Midnight, PlacesTypeOK
<1>2. CASE Restart
  BY <1>2 DEF Restart, PlacesTypeOK
<1>3. ASSUME NEW l \in Listings, Count(l)
      PROVE  PlacesTypeOK'
  BY <1>3, CountGoes DEF Count, PlacesTypeOK
<1>4. ASSUME NEW l \in Listings, GiveBack(l)
      PROVE  PlacesTypeOK'
  BY <1>4, GiveBackGoes DEF GiveBack, PlacesTypeOK
<1>5. ASSUME NEW l \in Listings, Call(l)
      PROVE  PlacesTypeOK'
  <2>1. job' \in [Listings -> Job \cup {NoJob}]
    BY <1>5, CallGoes DEF PlacesTypeOK
  <2> QED
    BY <1>5, <2>1 DEF Call, PlacesTypeOK
<1>6. ASSUME NEW l \in Listings, Store(l)
      PROVE  PlacesTypeOK'
  <2>1. job' \in [Listings -> Job \cup {NoJob}]
    BY <1>6, StoreGoes DEF PlacesTypeOK
  <2>2. cache' \in [Addresses -> Geoms]
    BY <1>6, StoreGoes DEF Store, PlacesTypeOK
  <2> QED
    BY <1>6, <2>1, <2>2 DEF Store, PlacesTypeOK
<1>7. ASSUME NEW l \in Listings, WriteRow(l)
      PROVE  PlacesTypeOK'
  <2>1. job[l] \in Job
    BY <1>7 DEF PlacesTypeOK, NoJob, WriteRow
  <2>2. [address |-> job[l].address, geom |-> job[l].geom] \in Row
    BY <2>1 DEF Job, Row, MaybeAddress
  <2> QED
    BY <1>7, <2>2 DEF WriteRow, PlacesTypeOK
<1>8. ASSUME NEW l \in Listings, WriteFails(l)
      PROVE  PlacesTypeOK'
  BY <1>8 DEF WriteFails, PlacesTypeOK
<1>9. ASSUME NEW l \in Listings, NEW a \in MaybeAddress, StartUpsert(l, a)
      PROVE  PlacesTypeOK'
  <2>1. job' \in [Listings -> Job \cup {NoJob}]
    BY <1>9, UpsertStarts DEF PlacesTypeOK
  <2> QED
    BY <1>9, <2>1 DEF StartUpsert, PlacesTypeOK
<1> QED
  BY <1>1, <1>2, <1>3, <1>4, <1>5, <1>6, <1>7, <1>8, <1>9 DEF PlacesNext, GeocodeStep

(* How the counts change when one job moves.                               *)
LEMMA Moved ==
  ASSUME PlacesTypeOK, NEW l \in Listings, NEW new \in Job \cup {NoJob},
         job' = [job EXCEPT ![l] = new]
  PROVE  /\ Calling \in Nat /\ Returning \in Nat
         /\ Calling' = IF job[l].step # "call" /\ new.step = "call" THEN Calling + 1
                       ELSE IF job[l].step = "call" /\ new.step # "call" THEN Calling - 1
                       ELSE Calling
         /\ Returning' = IF job[l].step # "giveback" /\ new.step = "giveback" THEN Returning + 1
                         ELSE IF job[l].step = "giveback" /\ new.step # "giveback"
                              THEN Returning - 1
                         ELSE Returning
<1>1. job \in [Listings -> AnyJob] /\ new \in AnyJob
  BY DEF PlacesTypeOK, AnyJob
<1>2. Calling' = IF job[l].step # "call" /\ new.step = "call" THEN Calling + 1
                 ELSE IF job[l].step = "call" /\ new.step # "call" THEN Calling - 1
                 ELSE Calling
  BY <1>1, CountsMove DEF Calling
<1>3. Returning' = IF job[l].step # "giveback" /\ new.step = "giveback" THEN Returning + 1
                   ELSE IF job[l].step = "giveback" /\ new.step # "giveback"
                        THEN Returning - 1
                   ELSE Returning
  BY <1>1, CountsMove DEF Returning
<1> QED
  BY <1>2, <1>3, AtFinite DEF Calling, Returning

(* The counter, what it misses, and the calls stay in agreement.           *)
LEMMA Counted ==
  ASSUME PlacesInv, PlacesNext
  PROVE  CountInv'
<1> SUFFICES ASSUME Limit > 0
             PROVE  /\ used' + carried' = calls' + Calling' + Returning'
                    /\ calls' + Calling' <= Limit + carried'
                    /\ Returning' <= carried' \/ calls' + Calling' >= Limit
  BY DEF CountInv
<1> USE PlacesAssumption DEF PlacesInv
<1>0. /\ used \in Int /\ carried \in Nat /\ calls \in Nat
      /\ Calling \in Nat /\ Returning \in Nat
      /\ used + carried = calls + Calling + Returning
      /\ calls + Calling <= Limit + carried
      /\ Returning <= carried \/ calls + Calling >= Limit
  BY AtFinite DEF CountInv, PlacesTypeOK, Calling, Returning
<1>1. CASE Midnight
  <2>1. Calling' = Calling /\ Returning' = Returning
    BY <1>1 DEF Midnight, Calling, Returning, At
  <2>2. At("call") \cap At("giveback") = {}
    BY DEF At
  <2>3. Cardinality(At("call") \cup At("giveback")) = Calling + Returning
    BY <1>0, <2>2, AtFinite, FS_Union, FS_EmptySet DEF Calling, Returning
  <2>4. used' = 0 /\ calls' = 0 /\ carried' = Calling + Returning
    BY <1>1, <2>3 DEF Midnight
  <2> QED
    BY <1>0, <2>1, <2>4
<1>2. CASE Restart
  <2>1. At("call")' = {} /\ At("giveback")' = {}
    BY <1>2 DEF Restart, At, NoJob
  <2>2. Calling' = 0 /\ Returning' = 0
    BY <2>1, FS_EmptySet DEF Calling, Returning
  <2>3. used' = 0 /\ calls' = calls /\ carried' = calls
    BY <1>2 DEF Restart
  <2> QED
    BY <1>0, <2>2, <2>3
<1>3. ASSUME NEW l \in Listings, Count(l)
      PROVE  /\ used' + carried' = calls' + Calling' + Returning'
             /\ calls' + Calling' <= Limit + carried'
             /\ Returning' <= carried' \/ calls' + Calling' >= Limit
  <2>1. used' = used + 1 /\ calls' = calls /\ carried' = carried
    BY <1>3 DEF Count
  <2>2. CASE used + 1 > Limit
    <3>1. Calling' = Calling /\ Returning' = Returning + 1
      BY <1>3, <2>2, CountGoes, Moved DEF Count
    <3> QED
      BY <1>0, <2>1, <2>2, <3>1
  <2>3. CASE ~(used + 1 > Limit)
    <3>1. Calling' = Calling + 1 /\ Returning' = Returning
      BY <1>3, <2>3, CountGoes, Moved DEF Count
    <3> QED
      BY <1>0, <2>1, <2>3, <3>1
  <2> QED
    BY <2>2, <2>3
<1>4. ASSUME NEW l \in Listings, GiveBack(l)
      PROVE  /\ used' + carried' = calls' + Calling' + Returning'
             /\ calls' + Calling' <= Limit + carried'
             /\ Returning' <= carried' \/ calls' + Calling' >= Limit
  <2>1. used' = used - 1 /\ calls' = calls /\ carried' = carried
    BY <1>4 DEF GiveBack
  <2>2. Calling' = Calling /\ Returning' = Returning - 1
    BY <1>4, GiveBackGoes, Moved DEF GiveBack
  <2> QED
    BY <1>0, <2>1, <2>2
<1>5. ASSUME NEW l \in Listings, Call(l)
      PROVE  /\ used' + carried' = calls' + Calling' + Returning'
             /\ calls' + Calling' <= Limit + carried'
             /\ Returning' <= carried' \/ calls' + Calling' >= Limit
  <2>1. used' = used /\ calls' = calls + 1 /\ carried' = carried
    BY <1>5 DEF Call
  <2>2. Calling' = Calling - 1 /\ Returning' = Returning
    <3>1. job[l].step = "call"
      BY <1>5 DEF Call
    <3> QED
      BY <1>5, <3>1, CallGoes, Moved
  <2> QED
    BY <1>0, <2>1, <2>2
<1>6. ASSUME NEW l \in Listings,
             \/ Store(l)
             \/ WriteRow(l)
             \/ WriteFails(l)
             \/ \E a \in MaybeAddress : StartUpsert(l, a)
      PROVE  /\ used' + carried' = calls' + Calling' + Returning'
             /\ calls' + Calling' <= Limit + carried'
             /\ Returning' <= carried' \/ calls' + Calling' >= Limit
  <2>1. used' = used /\ calls' = calls /\ carried' = carried
    BY <1>6 DEF Store, WriteRow, WriteFails, StartUpsert
  <2>2. job[l].step \notin {"call", "giveback"}
    BY <1>6 DEF Store, WriteRow, WriteFails, StartUpsert
  <2>3. \E new \in Job \cup {NoJob} :
          new.step \notin {"call", "giveback"} /\ job' = [job EXCEPT ![l] = new]
    BY <1>6, StoreGoes, UpsertStarts DEF WriteRow, WriteFails, NoJob
  <2>4. Calling' = Calling /\ Returning' = Returning
    BY <2>2, <2>3, Moved
  <2> QED
    BY <1>0, <2>1, <2>4
<1> QED
  BY <1>1, <1>2, <1>3, <1>4, <1>5, <1>6 DEF PlacesNext, GeocodeStep

LEMMA PlacesInvStep ==
  ASSUME PlacesInv, [PlacesNext]_placesVars
  PROVE  PlacesInv'
<1>1. CASE PlacesNext
  BY <1>1, PlacesTyped, Counted DEF PlacesInv
<1>2. CASE UNCHANGED placesVars
  BY <1>2 DEF placesVars, PlacesInv, PlacesTypeOK, CountInv, Calling, Returning, At
<1> QED
  BY <1>1, <1>2

LEMMA PlacesStart ==
  ASSUME PlacesInit
  PROVE  PlacesInv
<1>1. PlacesTypeOK
  BY DEF PlacesInit, PlacesTypeOK, Geoms, NoRow, Row, MaybeAddress
<1>2. At("call") = {} /\ At("giveback") = {}
  BY DEF PlacesInit, At, NoJob
<1>3. Calling = 0 /\ Returning = 0
  BY <1>2, FS_EmptySet DEF Calling, Returning
<1> QED
  BY <1>1, <1>3, PlacesAssumption DEF PlacesInv, CountInv, PlacesInit

(* A call is refused only when the calls of the day, made or under way,    *)
(* have reached the limit.                                                 *)
LEMMA RefusalStep ==
  ASSUME PlacesInv, [PlacesNext]_placesVars, NEW l \in Listings,
         job[l].step = "count", job'[l].step = "giveback"
  PROVE  calls + Cardinality(At("call")) >= Limit
<1> USE PlacesAssumption
<1>1. /\ used \in Int /\ carried \in Nat /\ calls \in Nat
      /\ Calling \in Nat /\ Returning \in Nat /\ Limit \in Nat
      /\ job \in [Listings -> Job \cup {NoJob}]
  BY AtFinite DEF PlacesInv, PlacesTypeOK, Calling, Returning
<1>2. SUFFICES ASSUME Limit > 0
               PROVE  calls + Calling >= Limit
  BY <1>1 DEF Calling
<1>3. /\ used + carried = calls + Calling + Returning
      /\ Returning <= carried \/ calls + Calling >= Limit
  BY <1>2 DEF PlacesInv, CountInv
<1>4. CASE Count(l)
  <2>1. used + 1 > Limit
    BY <1>1, <1>4 DEF Count, Goto
  <2> QED
    BY <1>1, <1>3, <2>1
<1>5. ASSUME NEW k \in Listings, k # l, NEW new, job' = [job EXCEPT ![k] = new]
      PROVE  FALSE
  BY <1>1, <1>5
<1>6. ASSUME NEW k \in Listings, k # l,
             \/ GeocodeStep(k) \/ WriteRow(k) \/ WriteFails(k)
             \/ \E a \in MaybeAddress : StartUpsert(k, a)
      PROVE  \E new : job' = [job EXCEPT ![k] = new]
  BY <1>6 DEF GeocodeStep, Count, GiveBack, Call, Store, WriteRow, WriteFails, StartUpsert, Goto
<1>7. CASE GiveBack(l) \/ Call(l) \/ Store(l) \/ WriteRow(l) \/ WriteFails(l)
           \/ \E a \in MaybeAddress : StartUpsert(l, a)
  BY <1>7 DEF GiveBack, Call, Store, WriteRow, WriteFails, StartUpsert
<1>8. CASE Midnight \/ Restart \/ UNCHANGED placesVars
  BY <1>8 DEF Midnight, Restart, placesVars, NoJob
<1> QED
  BY <1>4, <1>5, <1>6, <1>7, <1>8 DEF PlacesNext, GeocodeStep

-----------------------------------------------------------------------------
(* Every step of the composition is a step of geocoding, or leaves it.     *)
LEMMA StepOfPlaces ==
  ASSUME [Next]_vars
  PROVE  [PlacesNext]_placesVars
BY DEF Next, Geocode, WriteListing, StartDedup, DedupStep, EndDedup, UpsertPair, RestartAll,
       Decide, PlacesNext, vars

(* With RunDedup and the review queue beside it, geocoding behaves as      *)
(* Places says.                                                            *)
THEOREM GeocodingComposes == Spec => PlacesSpec
<1>1. Init => PlacesInit
  BY DEF Init
<1>2. [Next]_vars => [PlacesNext]_placesVars
  BY StepOfPlaces
<1> QED
  BY <1>1, <1>2, PTL DEF Spec, PlacesSpec

(* The inductive invariant of geocoding.                                   *)
THEOREM CountsAgree == PlacesSpec => []PlacesInv
<1>1. PlacesInit => PlacesInv
  BY PlacesStart
<1>2. PlacesInv /\ [PlacesNext]_placesVars => PlacesInv'
  BY PlacesInvStep
<1> QED
  BY <1>1, <1>2, PTL DEF PlacesSpec

(* The provider is called at most Limit times a day, but for what a        *)
(* restart or midnight made the counter miss: for any number of listings   *)
(* upserted at once and every limit.                                       *)
THEOREM QuotaCorrect == Spec => []QuotaKept
<1>1. PlacesInv => QuotaKept
  BY DEF PlacesInv, CountInv, QuotaKept, Calling
<1> QED
  BY <1>1, GeocodingComposes, CountsAgree, PTL

(* No call is refused while the day has calls left.                        *)
THEOREM RefusalCorrect == Spec => RefusedAtLimitOnly
<1>1. PlacesInv /\ [PlacesNext]_placesVars =>
        [\A l \in Listings : job[l].step = "count" /\ job'[l].step = "giveback"
           => calls + Cardinality(At("call")) >= Limit]_placesVars
  BY RefusalStep
<1> QED
  BY <1>1, GeocodingComposes, CountsAgree, PTL DEF PlacesSpec, RefusedAtLimitOnly

-----------------------------------------------------------------------------
(* A cached point is of its address; the point an upsert carries is of the *)
(* page's address, or that of the row, which no other upsert writes.       *)
PointInv ==
  /\ \A a \in Addresses : Cached(a) => cache[a].of = a
  /\ \A l \in Listings : job[l].step # "idle" =>
       job[l].geom = place[l].geom \/ job[l].geom.of = job[l].address
  /\ \A l \in Listings : job[l].step = "store" => job[l].geom.of = job[l].address

LEMMA PointStep ==
  ASSUME PlacesTypeOK, PointInv, [PlacesNext]_placesVars
  PROVE  /\ PointInv'
         /\ \A l \in Listings : place'[l].geom # place[l].geom
              => place'[l].geom.of = place'[l].address
<1>1. CASE Midnight \/ UNCHANGED placesVars
  BY <1>1 DEF Midnight, placesVars, PointInv, Cached
<1>2. CASE Restart
  BY <1>2 DEF Restart, PointInv, Cached, NoJob
<1>3. ASSUME NEW l \in Listings, Count(l) \/ GiveBack(l)
      PROVE  PointInv' /\ UNCHANGED place
  BY <1>3 DEF Count, GiveBack, Goto, PointInv, Cached, PlacesTypeOK
<1>4. ASSUME NEW l \in Listings, Call(l)
      PROVE  PointInv' /\ UNCHANGED place
  BY <1>4 DEF Call, Goto, PointInv, Cached, PlacesTypeOK
<1>5. ASSUME NEW l \in Listings, Store(l)
      PROVE  PointInv' /\ UNCHANGED place
  <2>1. job[l].geom.of = job[l].address
    BY <1>5 DEF Store, PointInv
  <2> QED
    BY <1>5, <2>1 DEF Store, Goto, PointInv, Cached, PlacesTypeOK
<1>6. ASSUME NEW l \in Listings, WriteFails(l)
      PROVE  PointInv' /\ UNCHANGED place
  BY <1>6 DEF WriteFails, PointInv, Cached, PlacesTypeOK, NoJob
<1>7. ASSUME NEW l \in Listings, NEW a \in MaybeAddress, StartUpsert(l, a)
      PROVE  PointInv' /\ UNCHANGED place
  BY <1>7 DEF StartUpsert, PointInv, Cached, PlacesTypeOK
<1>8. ASSUME NEW l \in Listings, WriteRow(l)
      PROVE  /\ PointInv'
             /\ \A k \in Listings : place'[k].geom # place[k].geom
                  => place'[k].geom.of = place'[k].address
  <2>1. \A k \in Listings \ {l} : place'[k] = place[k] /\ job'[k] = job[k]
    BY <1>8 DEF WriteRow, PlacesTypeOK
  <2>2. /\ place'[l] = [address |-> job[l].address, geom |-> job[l].geom]
        /\ job'[l].step = "idle" /\ job[l].step # "idle"
    BY <1>8 DEF WriteRow, PlacesTypeOK, NoJob
  <2> QED
    BY <1>8, <2>1, <2>2 DEF WriteRow, PointInv, Cached
<1> QED
  BY <1>1, <1>2, <1>3, <1>4, <1>5, <1>6, <1>7, <1>8 DEF PlacesNext, GeocodeStep, Midnight,
     Restart, placesVars

(* A row's point changes only to a point of its new address: for any       *)
(* number of listings upserted at once, with any failures.                 *)
THEOREM PointsCorrect == Spec => PointsAreOfTheAddress
<1>1. PlacesInit => PointInv
  BY DEF PlacesInit, PointInv, Cached, NoJob
<1>2. PlacesInv /\ PointInv /\ [PlacesNext]_placesVars => PointInv'
  BY PointStep DEF PlacesInv
<1>3. PlacesInv /\ PointInv /\ [PlacesNext]_placesVars =>
        [\A l \in Listings : place'[l].geom # place[l].geom
           => place'[l].geom.of = place'[l].address]_placesVars
  BY PointStep DEF PlacesInv
<1> QED
  BY <1>1, <1>2, <1>3, GeocodingComposes, CountsAgree, PTL DEF PlacesSpec, PointsAreOfTheAddress

-----------------------------------------------------------------------------
(* What RunDedup finds is typed.                                           *)
LEMMA FoundTyped == Found \in SUBSET Scored
<1>1. \A a, b : ReasonsFor(a, b) \in SUBSET Reasons
  BY DEF ReasonsFor
<1> QED
  BY <1>1 DEF Found, Scored

LEMMA TypeStep ==
  ASSUME TypeOK, [Next]_vars
  PROVE  TypeOK'
<1>1. PlacesTypeOK'
  <2>1. CASE PlacesNext
    BY <2>1, PlacesTyped DEF TypeOK
  <2>2. CASE UNCHANGED placesVars
    BY <2>2 DEF placesVars, TypeOK, PlacesTypeOK
  <2> QED
    BY <2>1, <2>2, StepOfPlaces
<1>2. CASE Geocode
  BY <1>1, <1>2 DEF Geocode, dedupVars, TypeOK
<1>3. ASSUME NEW l \in Listings, WriteListing(l)
      PROVE  TypeOK'
  BY <1>1, <1>3 DEF WriteListing, TypeOK
<1>4. CASE StartDedup
  BY <1>1, <1>4, FoundTyped DEF StartDedup, TypeOK
<1>5. CASE EndDedup
  BY <1>1, <1>5 DEF EndDedup, TypeOK, Idle
<1>6. ASSUME NEW f \in dedup.todo, UpsertPair(f)
      PROVE  TypeOK'
  <2>1. f.pair \in Pairs /\ f.reasons \in SUBSET Reasons
    BY DEF TypeOK, Scored
  <2>2. [reasons |-> f.reasons, decision |-> pairs[f.pair].decision] \in Pair
    BY <2>1 DEF TypeOK, Pair
  <2>3. pairs' \in [Pairs -> Pair] /\ failed' \subseteq Pairs
    BY <1>6, <2>1, <2>2 DEF UpsertPair, TypeOK
  <2>4. dedup' \in [running: BOOLEAN, todo: SUBSET Scored]
    BY <1>6 DEF UpsertPair, TypeOK
  <2> QED
    BY <1>1, <1>6, <2>3, <2>4 DEF UpsertPair, TypeOK
<1>7. CASE RestartAll
  BY <1>1, <1>7 DEF RestartAll, TypeOK, Idle
<1>8. ASSUME NEW p \in Pairs, NEW d \in Decisions, Decide(p, d)
      PROVE  TypeOK'
  <2>1. pairs' \in [Pairs -> Pair]
    BY <1>8 DEF Decide, TypeOK, Pair
  <2> QED
    BY <1>1, <1>8, <2>1 DEF Decide, TypeOK
<1>9. CASE UNCHANGED vars
  BY <1>1, <1>9 DEF vars, dedupVars, TypeOK
<1> QED
  BY <1>2, <1>3, <1>4, <1>5, <1>6, <1>7, <1>8, <1>9 DEF Next, DedupStep

(* The type invariant of the composition.                                  *)
THEOREM TypeCorrect == Spec => []TypeOK
<1>1. Init => TypeOK
  <2>1. ASSUME Init
        PROVE  PlacesTypeOK
    BY <2>1, PlacesStart DEF Init, PlacesInv
  <2> QED
    BY <2>1 DEF Init, TypeOK, Pair, None, Idle
<1>2. TypeOK /\ [Next]_vars => TypeOK'
  BY TypeStep
<1> QED
  BY <1>1, <1>2, PTL DEF Spec

LEMMA DecisionStep ==
  ASSUME TypeOK, [Next]_vars, NEW p \in Pairs, pairs[p].decision # Undecided
  PROVE  p \notin Queue'
<1>0. SUFFICES pairs'[p].decision # Undecided
  BY DEF Queue
<1>1. ASSUME NEW f \in dedup.todo, UpsertPair(f)
      PROVE  pairs'[p].decision = pairs[p].decision
  <2>1. CASE pairs' = [pairs EXCEPT ![f.pair] =
                         [reasons |-> f.reasons, decision |-> @.decision]]
    BY <2>1 DEF TypeOK
  <2>2. CASE UNCHANGED pairs
    BY <2>2
  <2> QED
    BY <1>1, <2>1, <2>2 DEF UpsertPair
<1>2. ASSUME NEW q \in Pairs, NEW d \in Decisions, Decide(q, d)
      PROVE  pairs'[p].decision # Undecided
  BY <1>2, DuplicatesAssumption DEF Decide, TypeOK, Pair
<1>3. CASE UNCHANGED pairs
  BY <1>3
<1> QED
  BY <1>1, <1>2, <1>3 DEF Next, Geocode, WriteListing, StartDedup, DedupStep, EndDedup,
       RestartAll, vars, dedupVars

(* A decided pair never returns to the review queue.                       *)
THEOREM DecisionsCorrect == Spec => DecisionsStand
<1>1. TypeOK /\ [Next]_vars =>
        [\A p \in Pairs : pairs[p].decision # Undecided => p \notin Queue']_vars
  BY DecisionStep
<1> QED
  BY <1>1, TypeCorrect, PTL DEF Spec, DecisionsStand

-----------------------------------------------------------------------------
(* What is to be upserted for a pair that no upsert has rewritten is what  *)
(* the pair looks like; every such pair that looks alike is still to be    *)
(* upserted, upserted, or failed.                                          *)
FoundInv ==
  /\ ~dedup.running => failed = {} /\ touched = {} /\ dedup.todo = {}
  /\ \A f \in dedup.todo :
       f.pair[1] \notin touched /\ f.pair[2] \notin touched =>
         f.reasons = ReasonsFor(f.pair[1], f.pair[2])
  /\ dedup.running =>
       \A p \in Pairs \ failed :
         Alike(p[1], p[2]) /\ p[1] \notin touched /\ p[2] \notin touched =>
           \/ \E f \in dedup.todo : f.pair = p
           \/ pairs[p].reasons = ReasonsFor(p[1], p[2])

(* Two listings look to each other as before while neither row changes.    *)
LEMMA LookUnchanged ==
  ASSUME NEW a, NEW b, place'[a] = place[a], place'[b] = place[b],
         looks'[a] = looks[a], looks'[b] = looks[b]
  PROVE  ReasonsFor(a, b)' = ReasonsFor(a, b) /\ Alike(a, b)' = Alike(a, b)
<1>1. ReasonsFor(a, b)' = ReasonsFor(a, b)
  BY DEF ReasonsFor, NearBy
<1>2. Compared(a, b)' = Compared(a, b)
  BY DEF Compared
<1> QED
  BY <1>1, <1>2 DEF Alike

LEMMA FoundStep ==
  ASSUME TypeOK, FoundInv, [Next]_vars
  PROVE  FoundInv'
<1>1. ASSUME UNCHANGED <<place, looks, pairs, dedup, failed, touched>>
      PROVE  FoundInv'
  <2>1. \A a, b : ReasonsFor(a, b)' = ReasonsFor(a, b) /\ Alike(a, b)' = Alike(a, b)
    BY <1>1, LookUnchanged
  <2> QED
    BY <1>1, <2>1 DEF FoundInv
<1>2. CASE Geocode \/ UNCHANGED vars
  <2>1. UNCHANGED <<place, looks, pairs, dedup, failed, touched>>
    BY <1>2 DEF Geocode, Midnight, GeocodeStep, Count, GiveBack, Call, Store, WriteFails,
       StartUpsert, dedupVars, vars, placesVars
  <2> QED
    BY <1>1, <2>1
<1>3. ASSUME NEW l \in Listings, WriteListing(l)
      PROVE  FoundInv'
  <2>1. /\ \A k \in Listings \ {l} : place'[k] = place[k] /\ looks'[k] = looks[k]
        /\ touched' = IF dedup.running THEN touched \cup {l} ELSE {}
        /\ UNCHANGED <<pairs, dedup, failed>>
    BY <1>3 DEF WriteListing, WriteRow, TypeOK, PlacesTypeOK
  <2>2. \A a, b \in Listings \ {l} :
          ReasonsFor(a, b)' = ReasonsFor(a, b) /\ Alike(a, b)' = Alike(a, b)
    BY <2>1, LookUnchanged
  <2>3. \A p \in Pairs : p[1] \in Listings /\ p[2] \in Listings
    BY DEF Pairs
  <2>4. \A f \in dedup.todo : f.pair \in Pairs
    BY DEF TypeOK, Scored
  <2>5. CASE dedup.running
    BY <2>1, <2>2, <2>3, <2>4, <2>5 DEF FoundInv
  <2>6. CASE ~dedup.running
    BY <2>1, <2>6 DEF FoundInv
  <2> QED
    BY <2>5, <2>6
<1>4. CASE StartDedup
  <2>1. UNCHANGED <<place, looks, pairs, failed, touched>> /\ dedup'.running /\ dedup'.todo = Found
    BY <1>4 DEF StartDedup, placesVars
  <2>2. \A a, b : ReasonsFor(a, b)' = ReasonsFor(a, b) /\ Alike(a, b)' = Alike(a, b)
    BY <2>1, LookUnchanged
  <2>3. \A f \in Found : f.reasons = ReasonsFor(f.pair[1], f.pair[2])
    BY DEF Found
  <2>4. ASSUME NEW p \in Pairs, Alike(p[1], p[2])
        PROVE  \E f \in Found : f.pair = p
    <3>1. [pair |-> p, reasons |-> ReasonsFor(p[1], p[2])] \in Found
      BY <2>4 DEF Found
    <3> QED
      BY <3>1
  <2> QED
    BY <2>1, <2>2, <2>3, <2>4 DEF FoundInv
<1>5. CASE EndDedup \/ RestartAll
  <2>1. ~dedup'.running /\ dedup'.todo = {} /\ failed' = {} /\ touched' = {}
    BY <1>5 DEF EndDedup, RestartAll, Idle
  <2> QED
    BY <2>1 DEF FoundInv
<1>6. ASSUME NEW f \in dedup.todo, UpsertPair(f)
      PROVE  FoundInv'
  <2>1. /\ UNCHANGED <<place, looks, touched>>
        /\ dedup'.running = dedup.running /\ dedup'.todo = dedup.todo \ {f}
    BY <1>6 DEF UpsertPair, placesVars, TypeOK
  <2>2. \A a, b : ReasonsFor(a, b)' = ReasonsFor(a, b) /\ Alike(a, b)' = Alike(a, b)
    BY <2>1, LookUnchanged
  <2>3. f.pair \in Pairs /\ dedup.running
    BY DEF TypeOK, Scored, FoundInv
  <2>4. CASE failed' = failed \cup {f.pair} /\ UNCHANGED pairs
    BY <2>1, <2>2, <2>3, <2>4 DEF FoundInv
  <2>5. CASE /\ pairs' = [pairs EXCEPT ![f.pair] =
                            [reasons |-> f.reasons, decision |-> @.decision]]
             /\ UNCHANGED failed
    <3>1. /\ pairs'[f.pair].reasons = f.reasons
          /\ \A p \in Pairs \ {f.pair} : pairs'[p] = pairs[p]
      BY <2>3, <2>5 DEF TypeOK
    <3>2. /\ ~dedup'.running => failed' = {} /\ touched' = {} /\ dedup'.todo = {}
          /\ \A g \in dedup'.todo :
               g.pair[1] \notin touched' /\ g.pair[2] \notin touched' =>
                 g.reasons = ReasonsFor(g.pair[1], g.pair[2])'
      BY <2>1, <2>2, <2>3 DEF FoundInv
    <3>3. ASSUME NEW p \in Pairs \ failed, Alike(p[1], p[2]), p[1] \notin touched,
                 p[2] \notin touched
          PROVE  \/ \E g \in dedup'.todo : g.pair = p
                 \/ pairs'[p].reasons = ReasonsFor(p[1], p[2])
      <4>1. CASE p = f.pair
        <5>1. f.reasons = ReasonsFor(p[1], p[2])
          BY <3>3, <4>1 DEF FoundInv
        <5> QED
          BY <3>1, <4>1, <5>1
      <4>2. CASE p # f.pair
        <5>1. \/ \E g \in dedup.todo : g.pair = p
              \/ pairs[p].reasons = ReasonsFor(p[1], p[2])
          BY <2>3, <3>3 DEF FoundInv
        <5> QED
          BY <2>1, <3>1, <4>2, <5>1
      <4> QED
        BY <4>1, <4>2
    <3> QED
      BY <2>1, <2>2, <2>5, <3>2, <3>3 DEF FoundInv
  <2> QED
    BY <1>6, <2>4, <2>5 DEF UpsertPair
<1>7. ASSUME NEW p \in Pairs, NEW d \in Decisions, Decide(p, d)
      PROVE  FoundInv'
  <2>1. UNCHANGED <<place, looks, dedup, failed, touched>>
    BY <1>7 DEF Decide, placesVars
  <2>2. \A a, b : ReasonsFor(a, b)' = ReasonsFor(a, b) /\ Alike(a, b)' = Alike(a, b)
    BY <2>1, LookUnchanged
  <2>3. \A q \in Pairs : pairs'[q].reasons = pairs[q].reasons
    BY <1>7 DEF Decide, TypeOK, Pair
  <2> QED
    BY <2>1, <2>2, <2>3 DEF FoundInv
<1> QED
  BY <1>2, <1>3, <1>4, <1>5, <1>6, <1>7 DEF Next, DedupStep

(* A run of RunDedup that comes to its end has the pair of every two       *)
(* listings that look alike, whatever upserts, the user and failing        *)
(* database calls do meanwhile: for any number of listings.                *)
THEOREM DuplicatesCorrect == Spec => []DuplicatesAreFound
<1>1. Init => FoundInv
  BY DEF Init, FoundInv, Idle
<1>2. TypeOK /\ FoundInv /\ [Next]_vars => FoundInv'
  BY FoundStep
<1>3. FoundInv => DuplicatesAreFound
  BY DEF FoundInv, DuplicatesAreFound
<1> QED
  BY <1>1, <1>2, <1>3, TypeCorrect, PTL DEF Spec
=============================================================================
