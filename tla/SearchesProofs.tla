--------------------------- MODULE SearchesProofs ---------------------------
(***************************************************************************)
(* Proofs about Searches, for any number of listings, searches and         *)
(* filters, any size of page, any limits and any length of a day.          *)
(***************************************************************************)
EXTENDS Searches, FiniteSetTheorems, FunctionTheorems, SequenceTheorems, TLAPS

-----------------------------------------------------------------------------
(* Facts about the operators.                                              *)

(* The day of an evaluation begins at most a day before it.                *)
LEMMA DayStart ==
  ASSUME NEW t \in Nat
  PROVE  /\ t \div Day \in Nat
         /\ ((t \div Day) - 1) * Day <= t - Day
         /\ ((t \div Day) - 1) * Day \in Int
<1>1. t \div Day \in Nat /\ (t \div Day) * Day <= t
  BY SearchesAssumption
<1>2. \A q \in Nat : (q - 1) * Day = q * Day - Day /\ (q - 1) * Day \in Int
  BY SearchesAssumption
<1> QED
  BY <1>1, <1>2, SearchesAssumption

LEMMA MinOfTwo ==
  ASSUME NEW a \in Int, NEW b \in Int
  PROVE  Min({a, b}) = IF a <= b THEN a ELSE b
BY DEF Min

(* No snapshot diff has an attribute, so no hit is due for one.            *)
LEMMA DueFacts ==
  ASSUME NEW l
  PROVE  /\ Due(l) \subseteq {"new", "price_drop"}
         /\ "new" \in Due(l) <=> firstSeen[l] > at - Day
         /\ "price_drop" \in Due(l) <=> \E t \in drops[l] : t > at - Day
<1>1. DiffFields \cap AttrFields = {}
  BY DEF DiffFields, AttrFields
<1> QED
  BY <1>1 DEF Due, Reasons

LEMMA HitsFacts ==
  ASSUME NEW s, NEW l, NEW R, NEW h \in HitsOf(s, l, R)
  PROVE  h.search = s /\ h.listing = l /\ h.reason \in R /\ h.day = at \div Day
BY DEF HitsOf

LEMMA HitsTypes ==
  ASSUME TypeOK, NEW s \in Searches, NEW l \in Listings, NEW R \in SUBSET Reasons
  PROVE  HitsOf(s, l, R) \subseteq Hit
<1>1. at \div Day \in Nat
  BY DayStart DEF TypeOK
<1> QED
  BY <1>1 DEF HitsOf, Hit

LEMMA RowFacts ==
  ASSUME TypeOK, NEW q
  PROVE  /\ IsFiniteSet(Matches(q)) /\ Cardinality(Matches(q)) \in Nat
         /\ Matches(q) \subseteq Listings
         /\ \A k \in Listed : k \in Listings /\ firstSeen[k] \in Nat
         /\ \A k \in Matches(q) : firstSeen[k] \in Nat
         /\ \A l : IsFiniteSet(RowsBefore(q, l)) /\ Cardinality(RowsBefore(q, l)) \in Nat
         /\ \A l : IsFiniteSet(RowsBeside(q, l)) /\ Cardinality(RowsBeside(q, l)) \in Nat
<1>1. Matches(q) \in SUBSET Listings
  BY DEF Matches, Listed
<1>2. IsFiniteSet(Matches(q))
  BY <1>1, FS_Subset, SearchesAssumption
<1>3. \A l : RowsBefore(q, l) \in SUBSET Matches(q) /\ RowsBeside(q, l) \in SUBSET Matches(q)
  BY DEF RowsBefore, RowsBeside
<1>4. \A l : IsFiniteSet(RowsBefore(q, l)) /\ IsFiniteSet(RowsBeside(q, l))
  BY <1>2, <1>3, FS_Subset
<1>5. \A k \in Listed : k \in Listings /\ firstSeen[k] \in Nat
  BY DEF Listed, TypeOK
<1>6. \A k \in Matches(q) : k \in Listed
  BY DEF Matches
<1> QED
  BY <1>1, <1>2, <1>4, <1>5, <1>6, FS_CardinalityType

LEMMA LimitFacts ==
  ASSUME TypeOK
  PROVE  /\ Limit \in Nat /\ offset \in Nat /\ offset + Limit <= MaxRows
         /\ offset < MaxRows => Limit >= 1
BY SearchesAssumption DEF Limit, TypeOK

(* A page is a stretch of the order it is taken from.                      *)
LEMMA Stretch ==
  ASSUME NEW S, NEW n \in Nat, NEW o \in [1..n -> S], NEW off \in Nat, NEW e \in 0..n
  PROVE  LET P == SubSeq(o, off + 1, e) IN
         /\ P \in Seq(S) /\ DOMAIN P = 1..Len(P)
         /\ Len(P) = IF off < e THEN e - off ELSE 0
         /\ \A i \in 1..n : off < i /\ i <= e => i - off \in 1..Len(P) /\ P[i - off] = o[i]
<1> DEFINE m == off + 1
           P == SubSeq(o, m, e)
<1>1. m \in Int /\ e \in Int /\ \A i \in m..e : o[i] \in S
  OBVIOUS
<1> HIDE DEF m
<1>2. P \in Seq(S)
  BY <1>1, SubSeqProperties
<1>3. Len(P) = IF m <= e THEN e - m + 1 ELSE 0
  BY <1>1, SubSeqProperties
<1>4. \A i \in 1..(e - m + 1) : P[i] = o[m + i - 1]
  BY <1>1, SubSeqProperties
<1>5. m = off + 1
  BY DEF m
<1> HIDE DEF P
<1>6. Len(P) = IF off < e THEN e - off ELSE 0
  BY <1>3, <1>5
<1>7. ASSUME NEW i \in 1..n, off < i, i <= e
      PROVE  i - off \in 1..Len(P) /\ P[i - off] = o[i]
  <2>1. i - off \in 1..(e - m + 1) /\ m + (i - off) - 1 = i
    BY <1>5, <1>7
  <2>2. i - off \in 1..Len(P)
    BY <1>6, <1>7
  <2> QED
    BY <1>4, <2>1, <2>2
<1>8. DOMAIN P = 1..Len(P)
  BY <1>2, LenProperties
<1> QED
  BY <1>2, <1>6, <1>7, <1>8 DEF P, m

(* The page from offset on in an order of the rows.                        *)
LEMMA PageFacts ==
  ASSUME TypeOK, NEW q, NEW lim \in Nat, NEW P \in PagesOf(Matches(q), lim)
  PROVE  LET n == Cardinality(Matches(q)) IN
         /\ P \in Seq(Listings)
         /\ \E o \in Orders(Matches(q)) :
              /\ offset + lim <= n => Len(P) = lim
              /\ \A i \in 1..n : offset < i /\ i <= offset + lim =>
                   i - offset \in DOMAIN P /\ P[i - offset] = o[i]
<1> DEFINE n == Cardinality(Matches(q))
<1>1. PICK o \in Orders(Matches(q)) :
        P = SubSeq(o, offset + 1, Min({offset + lim, Len(o)}))
  BY DEF PagesOf
<1>2. n \in Nat /\ offset \in Nat /\ o \in [1..n -> Matches(q)] /\ Matches(q) \subseteq Listings
  BY RowFacts DEF Orders, TypeOK
<1>3. o \in [1..n -> Listings]
  BY <1>2
<1>4. Len(o) = n
  <2>1. o \in Seq(Listings)
    BY <1>2, <1>3, SeqDef
  <2> QED
    BY <1>2, <1>3, <2>1, LenProperties
<1> DEFINE e == Min({offset + lim, n})
<1>5. e = (IF offset + lim <= n THEN offset + lim ELSE n) /\ e \in 0..n
  BY <1>2, MinOfTwo
<1>6. P = SubSeq(o, offset + 1, e)
  BY <1>1, <1>4
<1> HIDE DEF e, n
<1>7. /\ P \in Seq(Listings) /\ DOMAIN P = 1..Len(P)
      /\ Len(P) = IF offset < e THEN e - offset ELSE 0
      /\ \A i \in 1..n : offset < i /\ i <= e =>
           i - offset \in 1..Len(P) /\ P[i - offset] = o[i]
  BY <1>2, <1>3, <1>5, <1>6, Stretch
<1>8. offset + lim <= n => Len(P) = lim
  BY <1>2, <1>5, <1>7
<1>9. ASSUME NEW i \in 1..n, offset < i, i <= offset + lim
      PROVE  i - offset \in DOMAIN P /\ P[i - offset] = o[i]
  <2>1. i <= e
    BY <1>2, <1>5, <1>9
  <2> QED
    BY <1>7, <1>9, <2>1
<1> QED
  BY <1>7, <1>8, <1>9 DEF n

-----------------------------------------------------------------------------
(* The evaluation works on one search at a time.                           *)
OneSearch == \A t, u \in cur : t = u

LEMMA TypeInit == Init => TypeOK
<1> SUFFICES ASSUME Init
             PROVE  TypeOK
  OBVIOUS
<1>1. search \in [Searches -> [state: SearchStates, query: Filters]]
  BY DEF Init, SearchStates
<1>2. page \in Seq(Listings)
  BY EmptySeq DEF Init
<1>3. 0 \in 0..MaxRows
  BY SearchesAssumption
<1> QED
  BY <1>1, <1>2, <1>3 DEF Init, TypeOK

(* Recorded hits are hits of listings, whatever happens to the rest.       *)
LEMMA EvaluationTypes ==
  ASSUME TypeOK, NEW l \in Listings, EvaluateListing(l)
  PROVE  /\ TypeOK'
         /\ \E t \in cur, R \in SUBSET Due(l) :
              /\ hits' = hits \cup HitsOf(t.id, l, R)
              /\ R # {} => Exists(t.id)
<1>1. PICK t \in cur : EvaluationOfSucceeds(t, l) \/ EvaluationOfFails(t, l)
  BY DEF EvaluateListing
<1>2. t.id \in Searches
  BY <1>1 DEF TypeOK, Task
<1>3. PICK R \in SUBSET Due(l) :
        hits' = hits \cup HitsOf(t.id, l, R) /\ (R # {} => Exists(t.id))
  <2>1. CASE EvaluationOfSucceeds(t, l)
    BY <2>1 DEF EvaluationOfSucceeds
  <2>2. CASE EvaluationOfFails(t, l) /\ hits' = hits
    <3>1. HitsOf(t.id, l, {}) = {}
      BY DEF HitsOf
    <3> QED
      BY <2>2, <3>1
  <2>3. CASE EvaluationOfFails(t, l) /\ hits' # hits
    BY <2>3 DEF EvaluationOfFails
  <2> QED
    BY <1>1, <2>1, <2>2, <2>3
<1>4. R \subseteq Reasons
  BY DueFacts DEF Reasons
<1>5. hits' \subseteq Hit /\ hits \subseteq hits'
  BY <1>2, <1>3, <1>4, HitsTypes DEF TypeOK
<1>6. page' \in Seq(Listings)
  <2>1. page' = Tail(page) /\ page # << >> /\ page \in Seq(Listings)
    BY <1>1 DEF TypeOK, EvaluationOfSucceeds, EvaluationOfFails
  <2> QED
    BY <2>1, HeadTailProperties
<1>7. warned' \subseteq Searches \X Listings
  BY <1>1, <1>2 DEF TypeOK, EvaluationOfSucceeds, EvaluationOfFails
<1>8. TypeOK'
  BY <1>5, <1>6, <1>7 DEF EvaluateListing, TypeOK, listingVars, ghostVars
<1> QED
  BY <1>3, <1>8

LEMMA TypeEvaluation ==
  ASSUME TypeOK, EvaluationStep
  PROVE  TypeOK'
<1>1. CASE EvaluationEnds
  <2>1. 0 \in 0..MaxRows
    BY SearchesAssumption
  <2> QED
    BY <1>1, <2>1 DEF EvaluationEnds, TypeOK, listingVars
<1>2. CASE QueryPage
  <2>1. PICK t \in cur : \E P \in PagesOf(Matches(t.query), Limit) :
          page' = P /\ full' = (Len(P) >= Limit) /\ pc' \in {"search", "listing"}
    BY <1>2 DEF QueryPage
  <2>2. page' \in Seq(Listings)
    BY <2>1, PageFacts, LimitFacts
  <2>3. full' \in BOOLEAN
    BY <2>1
  <2>4. skipped' \subseteq Searches \X Listings
    BY <1>2 DEF QueryPage, TypeOK
  <2> QED
    BY <1>2, <2>1, <2>2, <2>3, <2>4 DEF QueryPage, TypeOK, listingVars
<1>3. CASE QueryFails
  <2>1. \A t \in cur : t.id \in Searches
    BY DEF TypeOK, Task
  <2> QED
    BY <1>3, <2>1 DEF QueryFails, TypeOK, listingVars, ghostVars
<1>4. CASE PageEnds
  <2>1. offset' \in 0..MaxRows /\ pc' \in {"page", "search"}
    BY <1>4, LimitFacts, SearchesAssumption DEF PageEnds, TypeOK
  <2> QED
    BY <1>4, <2>1 DEF PageEnds, TypeOK, listingVars, ghostVars
<1>5. ASSUME NEW t \in todo, NextSearch(t)
      PROVE  TypeOK'
  <2>1. 0 \in 0..MaxRows /\ cur' \subseteq Task /\ todo' \subseteq Task
    BY <1>5, SearchesAssumption DEF NextSearch, TypeOK
  <2> QED
    BY <1>5, <2>1 DEF NextSearch, TypeOK, listingVars, ghostVars
<1>6. ASSUME NEW l \in Listings, EvaluateListing(l)
      PROVE  TypeOK'
  BY <1>6, EvaluationTypes
<1> QED
  BY <1>1, <1>2, <1>3, <1>4, <1>5, <1>6 DEF EvaluationStep

(* Saved searches are edited one at a time.                                *)
LEMMA EditTypes ==
  ASSUME TypeOK, NEW s \in Searches, NEW new \in [state: SearchStates, query: Filters],
         Edit(s, new), hits' \subseteq hits, seen' = seen \cap hits'
  PROVE  TypeOK'
<1>1. search' \in [Searches -> [state: SearchStates, query: Filters]] /\ edits' \in Nat
  BY DEF Edit, TypeOK
<1>2. hits' \subseteq Hit /\ seen' \subseteq hits' /\ steady' \subseteq Searches \X Listings
  BY DEF Edit, TypeOK
<1> QED
  BY <1>1, <1>2 DEF Edit, TypeOK, listingVars, evalVars

(* An edit creates, updates or deletes search s.                           *)
LEMMA Edits ==
  ASSUME TypeOK, NEW s \in Searches,
         CreateSavedSearch(s) \/ UpdateSavedSearch(s) \/ DeleteSavedSearch(s)
  PROVE  \E new \in [state: SearchStates, query: Filters] :
           /\ Edit(s, new)
           /\ \/ new.state \in {"enabled", "disabled"} /\ hits' = hits /\ seen' = seen
              \/ /\ hits' = {h \in hits : h.search # s} /\ seen' = {h \in seen : h.search # s}
<1>1. CASE CreateSavedSearch(s) \/ UpdateSavedSearch(s)
  <2>1. PICK q \in Filters, e \in {"enabled", "disabled"} : Edit(s, [state |-> e, query |-> q])
    BY <1>1 DEF CreateSavedSearch, UpdateSavedSearch
  <2>2. hits' = hits /\ seen' = seen
    BY <1>1 DEF CreateSavedSearch, UpdateSavedSearch
  <2>3. [state |-> e, query |-> q] \in [state: SearchStates, query: Filters]
    BY DEF SearchStates
  <2> QED
    BY <2>1, <2>2, <2>3
<1>2. CASE DeleteSavedSearch(s)
  BY <1>2 DEF DeleteSavedSearch, SearchStates, TypeOK
<1> QED
  BY <1>1, <1>2

LEMMA TypeNext ==
  ASSUME TypeOK, [Next]_vars
  PROVE  TypeOK'
<1>1. CASE Tick
  BY <1>1 DEF Tick, TypeOK, listingVars, evalVars, ghostVars
<1>2. ASSUME NEW new \in SUBSET Listings, FindListings(new)
      PROVE  TypeOK'
  <2>1. firstSeen' \in [Listings -> Nat \cup {Absent}]
    BY <1>2 DEF FindListings, TypeOK
  <2>2. passes' \in [Listings -> SUBSET Filters]
    BY <1>2 DEF FindListings, TypeOK
  <2> QED
    BY <1>2, <2>1, <2>2 DEF FindListings, TypeOK, evalVars, ghostVars
<1>3. ASSUME NEW l \in Listings, UpdateListing(l)
      PROVE  TypeOK'
  <2>1. drops' \in [Listings -> SUBSET Nat] /\ passes' \in [Listings -> SUBSET Filters]
    BY <1>3 DEF UpdateListing, TypeOK
  <2>2. steady' \subseteq Searches \X Listings /\ skipped' \subseteq Searches \X Listings
    BY <1>3 DEF UpdateListing, TrackRows, TypeOK
  <2> QED
    BY <1>3, <2>1, <2>2 DEF UpdateListing, TypeOK, evalVars
<1>4. ASSUME NEW s \in Searches,
             CreateSavedSearch(s) \/ UpdateSavedSearch(s) \/ DeleteSavedSearch(s)
      PROVE  TypeOK'
  <2>1. PICK new \in [state: SearchStates, query: Filters] :
          /\ Edit(s, new)
          /\ \/ hits' = hits /\ seen' = seen
             \/ hits' = {h \in hits : h.search # s} /\ seen' = {h \in seen : h.search # s}
    BY <1>4, Edits
  <2>2. hits' \subseteq hits /\ seen' = seen \cap hits'
    BY <2>1 DEF TypeOK
  <2> QED
    BY <2>1, <2>2, EditTypes
<1>5. CASE StartEvaluation
  <2>1. todo' \subseteq Task
    BY <1>5 DEF StartEvaluation, TypeOK, Task
  <2>2. steady' \subseteq Searches \X Listings /\ skipped' \subseteq Searches \X Listings
    BY <1>5 DEF StartEvaluation, Listed
  <2> QED
    BY <1>5, <2>1, <2>2 DEF StartEvaluation, TypeOK, listingVars
<1>6. CASE EvaluationStep
  BY <1>6, TypeEvaluation
<1>7. CASE OpenDigest
  BY <1>7 DEF OpenDigest, Unseen, TypeOK, listingVars, evalVars, ghostVars
<1>8. CASE MarkHitsSeen
  BY <1>8 DEF MarkHitsSeen, Marked, TypeOK, listingVars, evalVars, ghostVars
<1>9. CASE UNCHANGED vars
  BY <1>9 DEF vars, TypeOK, listingVars, evalVars, ghostVars
<1> QED
  BY <1>1, <1>2, <1>3, <1>4, <1>5, <1>6, <1>7, <1>8, <1>9 DEF Next

(* Every variable keeps its type, and every seen hit is there.             *)
THEOREM TypeCorrect == Spec => []TypeOK
BY TypeInit, TypeNext, PTL DEF Spec

-----------------------------------------------------------------------------
(* What no step takes back: the first sighting of a listing and the drops  *)
(* of its price.  A step records hits only for a listing it evaluates.     *)
LEMMA Kept ==
  ASSUME TypeOK, [Next]_vars
  PROVE  /\ \A l \in Listings : /\ firstSeen'[l] = firstSeen[l] \/ firstSeen[l] = Absent
                                /\ firstSeen[l] <= firstSeen'[l]
                                /\ drops[l] \subseteq drops'[l]
         /\ hits' \subseteq hits \/ \E l \in Listings : EvaluateListing(l)
<1>1. ASSUME NEW new \in SUBSET Listings, FindListings(new), NEW l \in Listings
      PROVE  /\ firstSeen'[l] = firstSeen[l] \/ firstSeen[l] = Absent
             /\ firstSeen[l] <= firstSeen'[l] /\ drops[l] \subseteq drops'[l] /\ hits' = hits
  BY <1>1 DEF FindListings, TypeOK, Listed, Absent
<1>2. ASSUME NEW k \in Listings, UpdateListing(k), NEW l \in Listings
      PROVE  /\ firstSeen'[l] = firstSeen[l] /\ drops[l] \subseteq drops'[l] /\ hits' = hits
  BY <1>2 DEF UpdateListing, TypeOK
<1>3. ASSUME NEW s \in Searches,
             CreateSavedSearch(s) \/ UpdateSavedSearch(s) \/ DeleteSavedSearch(s)
      PROVE  UNCHANGED listingVars /\ hits' \subseteq hits
  BY <1>3, Edits DEF Edit
<1>4. \A l \in Listings : firstSeen[l] \in Int
  BY DEF TypeOK, Absent
<1>5. \/ \E new \in SUBSET Listings : FindListings(new)
      \/ \E k \in Listings : UpdateListing(k)
      \/ UNCHANGED listingVars /\ hits' \subseteq hits
      \/ UNCHANGED listingVars /\ \E k \in Listings : EvaluateListing(k)
  BY <1>3
     DEF Next, EvaluationStep, Tick, StartEvaluation, EvaluationEnds, QueryPage, QueryFails,
         PageEnds, NextSearch, EvaluateListing, OpenDigest, MarkHitsSeen, vars
<1>6. CASE \E new \in SUBSET Listings : FindListings(new)
  <2>1. PICK new \in SUBSET Listings : FindListings(new)
    BY <1>6
  <2>2. hits' = hits
    BY <2>1 DEF FindListings
  <2> QED
    BY <1>1, <2>1, <2>2
<1>7. CASE \E k \in Listings : UpdateListing(k)
  <2>1. PICK k \in Listings : UpdateListing(k)
    BY <1>7
  <2>2. hits' = hits
    BY <2>1 DEF UpdateListing
  <2> QED
    BY <1>2, <1>4, <2>1, <2>2
<1>8. CASE UNCHANGED listingVars
  <2>1. firstSeen' = firstSeen /\ drops' = drops
    BY <1>8 DEF listingVars
  <2>2. \A l \in Listings : firstSeen[l] <= firstSeen'[l]
    BY <1>4, <2>1
  <2>3. hits' \subseteq hits \/ \E l \in Listings : EvaluateListing(l)
    BY <1>5 DEF FindListings, UpdateListing
  <2> QED
    BY <2>1, <2>2, <2>3
<1> QED
  BY <1>5, <1>6, <1>7, <1>8

(* What HitsAreEarned says of a hit.                                       *)
Earned(h) ==
  /\ Exists(h.search)
  /\ \/ h.reason = "new" /\ firstSeen[h.listing] > (h.day - 1) * Day
     \/ h.reason = "price_drop" /\ \E t \in drops[h.listing] : t > (h.day - 1) * Day

LEMMA EarnedNext == TypeOK /\ HitsAreEarned /\ [Next]_vars => HitsAreEarned'
<1> SUFFICES ASSUME TypeOK, HitsAreEarned, [Next]_vars, NEW h \in hits'
             PROVE  Earned(h)'
  BY DEF HitsAreEarned, Earned
<1>1. h \in Hit
  BY TypeNext DEF TypeOK
<1>2. /\ h.listing \in Listings /\ h.search \in Searches /\ h.day \in Nat
      /\ (h.day - 1) * Day \in Int
  BY <1>1, SearchesAssumption DEF Hit
<1>3. Earned(h) /\ Exists(h.search)' => Earned(h)'
  <2>1. /\ firstSeen[h.listing] \in Int /\ firstSeen'[h.listing] \in Int
        /\ firstSeen[h.listing] <= firstSeen'[h.listing]
        /\ drops[h.listing] \subseteq drops'[h.listing]
    <3>1. TypeOK'
      BY TypeNext
    <3>2. \A l \in Listings : firstSeen[l] \in Int /\ firstSeen'[l] \in Int
      BY <3>1 DEF TypeOK, Absent
    <3>3. \A l \in Listings : firstSeen[l] <= firstSeen'[l] /\ drops[l] \subseteq drops'[l]
      BY Kept
    <3> QED
      BY <1>2, <3>2, <3>3
  <2> DEFINE start == (h.day - 1) * Day
  <2>2. start \in Int
    BY <1>2
  <2>3. Earned(h) <=> /\ Exists(h.search)
                      /\ \/ h.reason = "new" /\ firstSeen[h.listing] > start
                         \/ h.reason = "price_drop" /\ \E t \in drops[h.listing] : t > start
    BY DEF Earned
  <2>4. Earned(h)' <=> /\ Exists(h.search)'
                       /\ \/ h.reason = "new" /\ firstSeen'[h.listing] > start
                          \/ h.reason = "price_drop" /\ \E t \in drops'[h.listing] : t > start
    BY DEF Earned
  <2> HIDE DEF start
  <2>5. firstSeen[h.listing] > start => firstSeen'[h.listing] > start
    BY <2>1, <2>2
  <2> QED
    BY <2>1, <2>3, <2>4, <2>5
<1>4. CASE h \in hits
  <2>1. Earned(h)
    BY <1>4 DEF HitsAreEarned, Earned
  <2>2. Exists(h.search)'
    <3>1. ASSUME NEW s \in Searches,
                 CreateSavedSearch(s) \/ UpdateSavedSearch(s) \/ DeleteSavedSearch(s)
          PROVE  Exists(h.search)'
      <4>1. PICK new \in [state: SearchStates, query: Filters] :
              /\ Edit(s, new)
              /\ \/ new.state \in {"enabled", "disabled"}
                 \/ hits' = {g \in hits : g.search # s}
        BY <3>1, Edits
      <4>2. \/ search'[h.search] = search[h.search]
            \/ search'[h.search].state \in {"enabled", "disabled"}
        BY <1>2, <4>1 DEF Edit, TypeOK
      <4> QED
        BY <2>1, <4>2 DEF Exists, Earned
    <3>2. CASE search' = search
      BY <2>1, <3>2 DEF Exists, Earned
    <3>3. CASE search' # search
      BY <3>1, <3>3
         DEF Next, EvaluationStep, Tick, FindListings, UpdateListing, StartEvaluation,
             EvaluationEnds, QueryPage, QueryFails, PageEnds, NextSearch, EvaluateListing,
             OpenDigest, MarkHitsSeen, vars
    <3> QED
      BY <3>2, <3>3
  <2> QED
    BY <1>3, <2>1, <2>2
<1>5. CASE h \notin hits
  <2>1. PICK l \in Listings : EvaluateListing(l)
    BY <1>5, Kept
  <2>2. PICK t \in cur, R \in SUBSET Due(l) : h \in HitsOf(t.id, l, R) /\ Exists(t.id)
    <3>1. PICK t \in cur, R \in SUBSET Due(l) :
            hits' = hits \cup HitsOf(t.id, l, R) /\ (R # {} => Exists(t.id))
      BY <2>1, EvaluationTypes
    <3>2. h \in HitsOf(t.id, l, R)
      BY <1>5, <3>1
    <3>3. R # {}
      BY <3>2, HitsFacts
    <3> QED
      BY <3>1, <3>2, <3>3
  <2>3. h.search = t.id /\ h.listing = l /\ h.reason \in Due(l) /\ h.day = at \div Day
    BY <2>2, HitsFacts
  <2>4. at \in Nat /\ Day \in Nat /\ firstSeen[l] \in Int /\ drops[l] \subseteq Nat
    BY SearchesAssumption DEF TypeOK, Absent
  <2>5. (h.day - 1) * Day <= at - Day
    BY <2>3, <2>4, DayStart
  <2>6. \/ h.reason = "new" /\ firstSeen[l] > at - Day
        \/ h.reason = "price_drop" /\ \E u \in drops[l] : u > at - Day
    BY <2>3, DueFacts
  <2>7. Earned(h)
    BY <1>2, <2>2, <2>3, <2>4, <2>5, <2>6 DEF Earned
  <2>8. search' = search
    BY <2>1 DEF EvaluateListing
  <2> QED
    BY <1>3, <2>2, <2>3, <2>7, <2>8 DEF Exists
<1> QED
  BY <1>4, <1>5

(* A hit is never recorded for a search that is gone, nor for an event     *)
(* older than a day: whatever the scraper and the user do while the        *)
(* evaluation pages, for any length of a day.                              *)
THEOREM HitsCorrect == Spec => []HitsAreEarned
<1>1. Init => HitsAreEarned
  BY DEF Init, HitsAreEarned
<1> QED
  BY TypeInit, TypeNext, <1>1, EarnedNext, PTL DEF Spec

(* Only a hit that a page has shown leaves the digest, and it stays away.  *)
THEOREM MarkingCorrect == Spec => OnlyShownAreMarked
<1>1. TypeOK /\ [Next]_vars =>
        [/\ seen' \ seen \subseteq shown
         /\ seen \cap hits' \subseteq seen']_vars
  <2> SUFFICES ASSUME TypeOK, [Next]_vars
               PROVE  seen' \ seen \subseteq shown /\ seen \cap hits' \subseteq seen'
    OBVIOUS
  <2>1. ASSUME NEW s \in Searches,
               CreateSavedSearch(s) \/ UpdateSavedSearch(s) \/ DeleteSavedSearch(s)
        PROVE  seen' \subseteq seen /\ seen \cap hits' \subseteq seen'
    BY <2>1, Edits
  <2>2. CASE MarkHitsSeen
    BY <2>2 DEF MarkHitsSeen, Marked
  <2> QED
    BY <2>1, <2>2
       DEF Next, EvaluationStep, Tick, FindListings, UpdateListing, StartEvaluation,
           EvaluationEnds, QueryPage, QueryFails, PageEnds, NextSearch, EvaluateListing,
           OpenDigest, vars
<1> QED
  BY TypeInit, TypeNext, <1>1, PTL DEF Spec, OnlyShownAreMarked

-----------------------------------------------------------------------------
(* Paging.  In every order of the rows that of l comes after those before  *)
(* it, and at most those beside it with them.                              *)
LEMMA Position ==
  ASSUME TypeOK, NEW q, NEW o \in Orders(Matches(q)), NEW l \in Matches(q)
  PROVE  \E i \in 1..Cardinality(Matches(q)) :
           /\ o[i] = l
           /\ Cardinality(RowsBefore(q, l)) < i
           /\ i <= Cardinality(RowsBefore(q, l)) + Cardinality(RowsBeside(q, l))
<1> DEFINE M == Matches(q)
           n == Cardinality(M)
           B == RowsBefore(q, l)
           T == RowsBeside(q, l)
<1>1. /\ IsFiniteSet(M) /\ n \in Nat /\ l \in M
      /\ \A k \in M : firstSeen[k] \in Nat
      /\ IsFiniteSet(B) /\ Cardinality(B) \in Nat
      /\ IsFiniteSet(T) /\ Cardinality(T) \in Nat
  BY RowFacts
<1>2. /\ o \in [1..n -> M]
      /\ \A i, j \in 1..n : i < j => o[i] # o[j] /\ firstSeen[o[i]] >= firstSeen[o[j]]
  BY DEF Orders
<1>3. /\ B = {k \in M : firstSeen[k] > firstSeen[l]}
      /\ T = {k \in M : firstSeen[k] = firstSeen[l]}
  BY DEF RowsBefore, RowsBeside
<1> HIDE DEF M, n, B, T
<1>4. \A i, j \in 1..n : o[i] = o[j] => i = j
  BY <1>1, <1>2
<1>5. o \in Injection(1..n, M)
  BY <1>2, <1>4 DEF Injection, IsInjective
<1>6. IsFiniteSet(1..n) /\ Cardinality(1..n) = n
  <2>1. n \in Nat
    BY <1>1
  <2> QED
    BY <2>1, FS_Interval
<1>7. o \in Surjection(1..n, M)
  <2>1. IsFiniteSet(M) /\ Cardinality(1..n) = Cardinality(M)
    BY <1>1, <1>6 DEF n
  <2> QED
    BY <1>5, <1>6, <2>1, FS_Injection
<1>8. PICK p \in 1..n : o[p] = l
  BY <1>1, <1>7 DEF Surjection
<1>9. p \in Nat /\ p >= 1 /\ p <= n
  BY <1>1
<1>10. Cardinality(B) <= p - 1
  <2>1. \A k \in B : \E i \in 1..(p - 1) : o[i] = k
    <3> SUFFICES ASSUME NEW k \in B
                 PROVE  \E i \in 1..(p - 1) : o[i] = k
      OBVIOUS
    <3>1. k \in M /\ firstSeen[k] > firstSeen[l]
      BY <1>3
    <3>2. PICK i \in 1..n : o[i] = k
      BY <1>7, <3>1 DEF Surjection
    <3>3. i # p
      BY <1>1, <1>8, <3>1, <3>2
    <3>4. ~(p < i)
      BY <1>1, <1>2, <1>8, <3>1, <3>2
    <3>5. i \in 1..(p - 1)
      BY <1>1, <1>9, <3>3, <3>4
    <3> QED
      BY <3>2, <3>5
  <2> DEFINE place == [k \in B |-> CHOOSE i \in 1..(p - 1) : o[i] = k]
  <2>2. \A k \in B : place[k] \in 1..(p - 1) /\ o[place[k]] = k
    BY <2>1
  <2>3. place \in Injection(B, 1..(p - 1))
    <3>1. place \in [B -> 1..(p - 1)]
      BY <2>2
    <3> HIDE DEF place
    <3> QED
      BY <2>2, <3>1 DEF Injection, IsInjective
  <2>4. IsFiniteSet(1..(p - 1)) /\ Cardinality(1..(p - 1)) = p - 1
    BY <1>9, FS_Interval
  <2> QED
    BY <2>3, <2>4, FS_Injection
<1>11. p <= Cardinality(B) + Cardinality(T)
  <2> DEFINE upTo == [i \in 1..p |-> o[i]]
  <2>1. \A i \in 1..p : i \in 1..n /\ o[i] \in B \cup T
    <3> SUFFICES ASSUME NEW i \in 1..p
                 PROVE  i \in 1..n /\ o[i] \in B \cup T
      OBVIOUS
    <3>1. i \in 1..n /\ (i < p \/ i = p)
      BY <1>1, <1>9
    <3>2. o[i] \in M /\ firstSeen[o[i]] >= firstSeen[l]
      BY <1>1, <1>2, <1>8, <3>1
    <3> QED
      BY <1>1, <1>3, <3>1, <3>2
  <2>2. upTo \in Injection(1..p, B \cup T)
    <3>1. upTo \in [1..p -> B \cup T]
      BY <2>1
    <3>2. \A i, j \in 1..p : upTo[i] = upTo[j] => i = j
      BY <1>4, <2>1
    <3> QED
      BY <3>1, <3>2 DEF Injection, IsInjective
  <2>3. IsFiniteSet(1..p) /\ Cardinality(1..p) = p
    BY <1>9, FS_Interval
  <2>4. B \cap T = {}
    BY <1>1, <1>3
  <2>5. /\ IsFiniteSet(B \cup T)
        /\ Cardinality(B \cup T) = Cardinality(B) + Cardinality(T)
    <3>1. IsFiniteSet(B) /\ IsFiniteSet(T) /\ Cardinality(B \cap T) = 0
      BY <1>1, <2>4, FS_EmptySet
    <3>2. Cardinality(B) \in Nat /\ Cardinality(T) \in Nat
      BY <1>1
    <3>3. /\ IsFiniteSet(B \cup T)
          /\ Cardinality(B \cup T) = Cardinality(B) + Cardinality(T) - Cardinality(B \cap T)
      BY <3>1, FS_Union
    <3> QED
      BY <3>1, <3>2, <3>3
  <2> QED
    BY <2>2, <2>3, <2>5, FS_Injection
<1> QED
  BY <1>1, <1>8, <1>9, <1>10, <1>11 DEF B, T, n, M

(* What the loop of EvaluateAll keeps.  The searches it holds are as it    *)
(* read them; nothing is first seen later than now.                        *)
LoopInv ==
  /\ pc = "idle" => cur = {} /\ steady = {}
  /\ pc \in {"page", "listing"} => offset < MaxRows
  /\ OneSearch

TimesInv == at <= now /\ \A l \in Listed : firstSeen[l] <= now

SteadyInv ==
  \A p \in steady : /\ p[2] \in Matches(search[p[1]].query)
                    /\ \A t \in todo \cup cur : t.id = p[1] => t.query = search[p[1]].query

EvalInv == TypeOK /\ LoopInv /\ TimesInv /\ SteadyInv

(* A pair that is owed a report has it, or its search is still to come, or *)
(* its row is on the page or after it.                                     *)
Before(p) == Cardinality(RowsBefore(search[p[1]].query, p[2]))

OnPage(l) == \E i \in DOMAIN page : page[i] = l

Coming(p) ==
  \/ pc = "page" /\ Before(p) >= offset
  \/ pc = "listing" /\ (OnPage(p[2]) \/ (full /\ Before(p) >= offset + Limit))

Covered(p) ==
  Before(p) < MaxRows =>
    \/ Reported(p)
    \/ \E t \in todo : t.id = p[1]
    \/ \E t \in cur : t.id = p[1] /\ Coming(p)

PagingInv == \A p \in steady \ (warned \cup skipped) : Covered(p)

LEMMA LoopNext == EvalInv /\ [Next]_vars => LoopInv'
<1> SUFFICES ASSUME EvalInv, [Next]_vars
             PROVE  LoopInv'
  OBVIOUS
<1> USE DEF EvalInv
<1>1. ASSUME UNCHANGED evalVars, steady' \subseteq steady
      PROVE  LoopInv'
  BY <1>1 DEF LoopInv, OneSearch, evalVars
<1>2. CASE StartEvaluation
  BY <1>2 DEF StartEvaluation, LoopInv, OneSearch
<1>3. ASSUME NEW t \in todo, NextSearch(t)
      PROVE  LoopInv'
  BY <1>3, SearchesAssumption DEF NextSearch, LoopInv, OneSearch
<1>4. CASE EvaluationEnds
  BY <1>4 DEF EvaluationEnds, LoopInv, OneSearch
<1>5. CASE QueryPage \/ QueryFails
  BY <1>5 DEF QueryPage, QueryFails, LoopInv, OneSearch
<1>6. CASE PageEnds
  BY <1>6 DEF PageEnds, LoopInv, OneSearch
<1>7. ASSUME NEW l \in Listings, EvaluateListing(l)
      PROVE  LoopInv'
  BY <1>7 DEF EvaluateListing, LoopInv, OneSearch, ghostVars
<1>8. ASSUME NEW s \in Searches,
             CreateSavedSearch(s) \/ UpdateSavedSearch(s) \/ DeleteSavedSearch(s)
      PROVE  UNCHANGED evalVars /\ steady' \subseteq steady
  BY <1>8, Edits DEF Edit
<1>9. ASSUME NEW l \in Listings, UpdateListing(l)
      PROVE  UNCHANGED evalVars /\ steady' \subseteq steady
  BY <1>9 DEF UpdateListing, TrackRows
<1>10. CASE ~(StartEvaluation \/ EvaluationStep)
  BY <1>1, <1>8, <1>9, <1>10
     DEF Next, Tick, FindListings, OpenDigest, MarkHitsSeen, vars, ghostVars
<1> QED
  BY <1>2, <1>3, <1>4, <1>5, <1>6, <1>7, <1>10 DEF EvaluationStep

(* The listings do not change while the evaluation takes a step.           *)
LEMMA ListedNext ==
  ASSUME TypeOK, [Next]_vars
  PROVE  \/ UNCHANGED listingVars
         \/ \E new \in SUBSET Listings : FindListings(new)
         \/ \E l \in Listings : UpdateListing(l)
<1>1. ASSUME NEW s \in Searches,
             CreateSavedSearch(s) \/ UpdateSavedSearch(s) \/ DeleteSavedSearch(s)
      PROVE  UNCHANGED listingVars
  BY <1>1, Edits DEF Edit
<1> QED
  BY <1>1 DEF Next, EvaluationStep, Tick, StartEvaluation, EvaluationEnds, QueryPage, QueryFails,
              PageEnds, NextSearch, EvaluateListing, OpenDigest, MarkHitsSeen, vars

(* Newly found listings are first seen now, and the others stay.           *)
LEMMA Found ==
  ASSUME TypeOK, NEW new \in SUBSET Listings, FindListings(new)
  PROVE  /\ Listed' = Listed \cup new
         /\ \A l \in new : firstSeen'[l] = now
         /\ \A l \in Listed : l \notin new /\ firstSeen'[l] = firstSeen[l] /\ passes'[l] = passes[l]
BY DEF FindListings, TypeOK, Listed, Absent

LEMMA TimesNext == EvalInv /\ [Next]_vars => TimesInv'
<1> SUFFICES ASSUME EvalInv, [Next]_vars
             PROVE  TimesInv'
  OBVIOUS
<1> USE DEF EvalInv
<1>1. at \in Nat /\ now \in Nat /\ at' \in Nat /\ now' \in Nat
  BY TypeNext DEF TypeOK
<1>2. ASSUME NEW s \in Searches,
             CreateSavedSearch(s) \/ UpdateSavedSearch(s) \/ DeleteSavedSearch(s)
      PROVE  at' = at /\ now' = now
  BY <1>2, Edits DEF Edit, evalVars
<1>3. now <= now' /\ (at' = at \/ at' = now \/ at' = 0)
  BY <1>1, <1>2
     DEF Next, EvaluationStep, Tick, FindListings, UpdateListing, StartEvaluation,
         EvaluationEnds, QueryPage, QueryFails, PageEnds, NextSearch, EvaluateListing,
         OpenDigest, MarkHitsSeen, vars, evalVars
<1>4. at' <= now'
  BY <1>1, <1>3 DEF TimesInv
<1>5. ASSUME NEW new \in SUBSET Listings, FindListings(new), NEW l \in Listed'
      PROVE  firstSeen'[l] <= now
  BY <1>1, <1>5, Found DEF TimesInv
<1>6. ASSUME UNCHANGED firstSeen, NEW l \in Listed'
      PROVE  firstSeen'[l] <= now
  BY <1>6 DEF TimesInv, Listed
<1>7. \A l \in Listed' : firstSeen'[l] <= now
  BY <1>5, <1>6, ListedNext DEF listingVars, UpdateListing
<1>8. \A l \in Listed' : firstSeen'[l] \in Int
  BY TypeNext DEF Listed, TypeOK
<1> QED
  BY <1>1, <1>3, <1>4, <1>7, <1>8 DEF TimesInv

LEMMA SteadyNext == EvalInv /\ [Next]_vars => SteadyInv'
<1> SUFFICES ASSUME EvalInv, [Next]_vars, NEW p \in steady'
             PROVE  /\ p[2] \in Matches(search[p[1]].query)'
                    /\ \A t \in todo' \cup cur' : t.id = p[1] => t.query = search'[p[1]].query
  BY DEF SteadyInv
<1> USE DEF EvalInv
<1>1. p[1] \in Searches /\ p[2] \in Listings
  BY TypeNext DEF TypeOK
<1>2. CASE StartEvaluation
  BY <1>1, <1>2 DEF StartEvaluation, LoopInv, Matches, Listed, listingVars
<1>3. ASSUME p \in steady, search'[p[1]] = search[p[1]], UNCHANGED <<firstSeen, passes>>,
             todo' \cup cur' \subseteq todo \cup cur
      PROVE  /\ p[2] \in Matches(search[p[1]].query)'
             /\ \A t \in todo' \cup cur' : t.id = p[1] => t.query = search'[p[1]].query
  BY <1>3 DEF SteadyInv, Matches, Listed
<1>4. ASSUME NEW new \in SUBSET Listings, FindListings(new)
      PROVE  /\ p[2] \in Matches(search[p[1]].query)'
             /\ \A t \in todo' \cup cur' : t.id = p[1] => t.query = search'[p[1]].query
  <2>1. p \in steady /\ search' = search /\ todo' = todo /\ cur' = cur
    BY <1>4 DEF FindListings, evalVars, ghostVars
  <2>2. p[2] \in Listed /\ search[p[1]].query \in passes[p[2]]
    BY <2>1 DEF SteadyInv, Matches
  <2>3. p[2] \in Listed' /\ passes'[p[2]] = passes[p[2]]
    BY <1>4, <2>2, Found
  <2> QED
    BY <2>1, <2>2, <2>3 DEF SteadyInv, Matches
<1>5. ASSUME NEW l \in Listings, UpdateListing(l)
      PROVE  /\ p[2] \in Matches(search[p[1]].query)'
             /\ \A t \in todo' \cup cur' : t.id = p[1] => t.query = search'[p[1]].query
  <2>1. /\ p \in steady /\ search' = search /\ todo' = todo /\ cur' = cur
        /\ firstSeen' = firstSeen /\ search[p[1]].query \in passes'[p[2]]
    BY <1>5 DEF UpdateListing, TrackRows, evalVars
  <2> QED
    BY <2>1 DEF SteadyInv, Matches, Listed
<1>6. ASSUME NEW s \in Searches,
             CreateSavedSearch(s) \/ UpdateSavedSearch(s) \/ DeleteSavedSearch(s)
      PROVE  /\ p \in steady /\ search'[p[1]] = search[p[1]] /\ UNCHANGED <<firstSeen, passes>>
             /\ todo' \cup cur' \subseteq todo \cup cur
  BY <1>1, <1>6, Edits DEF Edit, TypeOK, listingVars, evalVars
<1>7. CASE EvaluationStep
  BY <1>3, <1>7
     DEF EvaluationStep, EvaluationEnds, QueryPage, QueryFails, PageEnds, NextSearch,
         EvaluateListing, listingVars, ghostVars
<1>8. CASE Tick \/ OpenDigest \/ MarkHitsSeen \/ UNCHANGED vars
  BY <1>3, <1>8
     DEF Tick, OpenDigest, MarkHitsSeen, vars, listingVars, ghostVars, evalVars
<1> QED
  BY <1>2, <1>3, <1>4, <1>5, <1>6, <1>7, <1>8 DEF Next

LEMMA EvalInit == Init => EvalInv
<1>1. Init => LoopInv /\ TimesInv /\ SteadyInv
  BY DEF Init, LoopInv, OneSearch, TimesInv, SteadyInv, Listed
<1> QED
  BY <1>1, TypeInit DEF EvalInv

LEMMA EvalNext == EvalInv /\ [Next]_vars => EvalInv'
BY TypeNext, LoopNext, TimesNext, SteadyNext DEF EvalInv

(* A pair stays covered while no row before its own leaves, and what is    *)
(* reported stays reported.                                                *)
LEMMA Carried ==
  ASSUME EvalInv, EvalInv', NEW p \in steady, p \in steady', UNCHANGED evalVars,
         search'[p[1]] = search[p[1]],
         RowsBefore(search[p[1]].query, p[2]) \subseteq RowsBefore(search[p[1]].query, p[2])',
         Reported(p) => Reported(p)', Covered(p)
  PROVE  Covered(p)'
<1>1. Before(p) <= Before(p)' /\ Before(p) \in Nat /\ Before(p)' \in Nat
  <2> DEFINE A == RowsBefore(search[p[1]].query, p[2])
             B == RowsBefore(search[p[1]].query, p[2])'
  <2>1. IsFiniteSet(A) /\ Cardinality(A) \in Nat
    BY RowFacts DEF EvalInv
  <2>2. TypeOK'
    BY DEF EvalInv
  <2>3. IsFiniteSet(B) /\ Cardinality(B) \in Nat
    <3>1. B \in SUBSET Listings
      BY DEF RowsBefore, Matches, Listed
    <3>2. IsFiniteSet(B)
      BY <3>1, FS_Subset, SearchesAssumption
    <3> QED
      BY <3>2, FS_CardinalityType
  <2>4. A \subseteq B
    OBVIOUS
  <2>5. Cardinality(A) <= Cardinality(B)
    <3> HIDE DEF A, B
    <3> QED
      BY <2>3, <2>4, FS_Subset
  <2> QED
    BY <2>1, <2>3, <2>5 DEF Before
<1>2. Limit' = Limit /\ Limit \in Nat /\ offset \in Nat /\ MaxRows \in Nat
  BY LimitFacts, SearchesAssumption DEF EvalInv, Limit, evalVars
<1>3. Coming(p) => Coming(p)'
  BY <1>1, <1>2 DEF Coming, OnPage, evalVars
<1> QED
  BY <1>1, <1>2, <1>3 DEF Covered, evalVars

(* What the scraper does while the evaluation pages.                       *)
LEMMA PagingFind ==
  ASSUME EvalInv, EvalInv', PagingInv, NEW new \in SUBSET Listings, FindListings(new)
  PROVE  PagingInv'
<1> SUFFICES ASSUME NEW p \in steady' \ (warned' \cup skipped')
             PROVE  Covered(p)'
  BY DEF PagingInv
<1>1. p \in steady \ (warned \cup skipped)
  BY DEF FindListings, evalVars, ghostVars
<1>2. UNCHANGED evalVars /\ search' = search /\ drops' = drops /\ hits' = hits
  BY DEF FindListings
<1>3. /\ p[2] \in Listed /\ firstSeen'[p[2]] = firstSeen[p[2]]
      /\ \A k \in Listed : k \in Listed' /\ firstSeen'[k] = firstSeen[k] /\ passes'[k] = passes[k]
  BY <1>1, Found DEF EvalInv, SteadyInv, Matches
<1>4. RowsBefore(search[p[1]].query, p[2]) \subseteq RowsBefore(search[p[1]].query, p[2])'
  BY <1>2, <1>3 DEF RowsBefore, Matches
<1>5. Reported(p) => Reported(p)'
  BY <1>2, <1>3 DEF Reported, HitsOf, evalVars
<1> QED
  BY <1>1, <1>2, <1>4, <1>5, Carried DEF PagingInv, FindListings, ghostVars

LEMMA PagingUpdate ==
  ASSUME EvalInv, EvalInv', PagingInv, NEW l \in Listings, UpdateListing(l)
  PROVE  PagingInv'
<1> SUFFICES ASSUME NEW p \in steady' \ (warned' \cup skipped')
             PROVE  Covered(p)'
  BY DEF PagingInv
<1> DEFINE q == search[p[1]].query
<1>1. p \in steady \ (warned \cup skipped)
  BY DEF UpdateListing, TrackRows, evalVars
<1>2. UNCHANGED evalVars /\ search' = search /\ firstSeen' = firstSeen /\ hits' = hits
  BY DEF UpdateListing
<1>3. /\ \A k \in Listings : k # l => passes'[k] = passes[k]
      /\ \A t \in drops'[p[2]] : t \in drops[p[2]] \/ t = now
  BY <1>1 DEF UpdateListing, EvalInv, TypeOK
<1>4. ASSUME q \notin passes[l] \ passes'[l] \/ ~(firstSeen[l] > firstSeen[p[2]])
      PROVE  RowsBefore(q, p[2]) \subseteq RowsBefore(q, p[2])'
  BY <1>2, <1>3, <1>4 DEF RowsBefore, Matches, Listed
<1>5. at <= now /\ at \in Nat /\ now \in Nat
  BY DEF EvalInv, TimesInv, TypeOK
<1>6. \A t \in drops'[p[2]] : t < at => t \in drops[p[2]]
  BY <1>3, <1>5
<1>7. Reported(p) => Reported(p)'
  BY <1>2, <1>6 DEF Reported, HitsOf, evalVars
<1>8. CASE q \notin passes[l] \ passes'[l] \/ ~(firstSeen[l] > firstSeen[p[2]])
  BY <1>1, <1>2, <1>4, <1>7, <1>8, Carried DEF PagingInv
<1>9. CASE q \in passes[l] \ passes'[l] /\ firstSeen[l] > firstSeen[p[2]]
  <2>1. p \notin skipped'
    OBVIOUS
  <2>2. \E t \in todo : t.id = p[1]
    BY <1>1, <1>9, <2>1 DEF UpdateListing, TrackRows
  <2>3. todo' = todo
    BY <1>2 DEF evalVars
  <2> QED
    BY <2>2, <2>3 DEF Covered
<1> QED
  BY <1>8, <1>9

(* What the user does: hits are only deleted with their search.            *)
LEMMA PagingEdit ==
  ASSUME EvalInv, EvalInv', PagingInv, NEW s \in Searches,
         CreateSavedSearch(s) \/ UpdateSavedSearch(s) \/ DeleteSavedSearch(s)
  PROVE  PagingInv'
<1> SUFFICES ASSUME NEW p \in steady' \ (warned' \cup skipped')
             PROVE  Covered(p)'
  BY DEF PagingInv
<1>1. PICK new \in [state: SearchStates, query: Filters] :
        Edit(s, new) /\ {h \in hits : h.search # s} \subseteq hits'
  BY Edits DEF EvalInv
<1>2. /\ p \in steady \ (warned \cup skipped) /\ p[1] # s
      /\ UNCHANGED evalVars /\ UNCHANGED listingVars
  BY <1>1 DEF Edit, evalVars
<1>3. search'[p[1]] = search[p[1]]
  BY <1>1, <1>2 DEF Edit, EvalInv, TypeOK
<1>4. RowsBefore(search[p[1]].query, p[2]) \subseteq RowsBefore(search[p[1]].query, p[2])'
  BY <1>2, <1>3 DEF RowsBefore, Matches, Listed, listingVars
<1>5. \A R : HitsOf(p[1], p[2], R) \subseteq hits => HitsOf(p[1], p[2], R) \subseteq hits'
  BY <1>1, <1>2, HitsFacts
<1>6. Reported(p) => Reported(p)'
  <2>1. at' = at /\ firstSeen' = firstSeen /\ drops' = drops
    BY <1>2 DEF evalVars, listingVars
  <2>2. \A R : HitsOf(p[1], p[2], R)' = HitsOf(p[1], p[2], R)
    BY <2>1 DEF HitsOf
  <2> QED
    BY <1>5, <2>1, <2>2 DEF Reported
<1> QED
  BY <1>2, <1>3, <1>4, <1>6, Carried DEF PagingInv

(* The next page has the row, or is full and leaves it to a later page.    *)
LEMMA PagingQuery ==
  ASSUME EvalInv, PagingInv, QueryPage
  PROVE  PagingInv'
<1> SUFFICES ASSUME NEW p \in steady \ (warned \cup skipped), p \notin skipped'
             PROVE  Covered(p)'
  BY DEF PagingInv, QueryPage
<1> USE DEF EvalInv
<1> DEFINE q == search[p[1]].query
           n == Before(p)
<1>1. /\ UNCHANGED <<listingVars, search, hits, at, todo, cur, offset>>
      /\ pc = "page"
  BY DEF QueryPage
<1>2. Reported(p)' <=> Reported(p)
  BY <1>1 DEF Reported, HitsOf, listingVars
<1>3. Before(p)' = n /\ Limit' = Limit
  BY <1>1 DEF Before, RowsBefore, Matches, Listed, Limit, listingVars
<1>4. p[2] \in Matches(q)
  BY DEF SteadyInv
<1>5. ASSUME NEW t \in cur, t.id = p[1], n >= offset
      PROVE  Coming(p)'
  <2>1. PICK P \in PagesOf(Matches(t.query), Limit) :
          /\ page' = P
          /\ full' = (Len(P) >= Limit)
          /\ pc' = IF P = << >> THEN "search" ELSE "listing"
    BY <1>5 DEF QueryPage, LoopInv, OneSearch
  <2>2. t.query = q
    BY <1>5 DEF SteadyInv
  <2> DEFINE c == Cardinality(Matches(q))
  <2>3. /\ Limit \in Nat /\ Limit >= 1 /\ offset \in Nat /\ c \in Nat
    BY <1>1, LimitFacts, RowFacts DEF LoopInv
  <2>4. PICK o \in Orders(Matches(q)) :
          /\ offset + Limit <= c => Len(P) = Limit
          /\ \A i \in 1..c : offset < i /\ i <= offset + Limit =>
               i - offset \in DOMAIN P /\ P[i - offset] = o[i]
    BY <2>1, <2>2, <2>3, PageFacts
  <2> DEFINE b == Cardinality(RowsBeside(q, p[2]))
  <2>5. PICK i \in 1..c : o[i] = p[2] /\ n < i /\ i <= n + b
    BY <1>4, Position DEF Before
  <2>6. n \in Nat /\ b \in Nat
    BY RowFacts DEF Before
  <2>10. ~(n < offset + Limit /\ offset + Limit < n + b)
    BY <1>5, <2>2 DEF QueryPage, CutsAt, Before
  <2> HIDE DEF c, n, b
  <2>11. i \in Nat /\ offset < i /\ i <= c
    BY <1>5, <2>3, <2>5, <2>6
  <2>7. P \in Seq(Listings)
    BY <2>1, <2>2, <2>3, PageFacts
  <2>8. CASE i <= offset + Limit
    <3>1. i - offset \in DOMAIN P /\ P[i - offset] = p[2]
      BY <2>4, <2>5, <2>8, <2>11
    <3>2. P # << >>
      BY <2>7, <3>1, EmptySeq, LenProperties
    <3> QED
      BY <2>1, <3>1, <3>2 DEF Coming, OnPage
  <2>9. CASE i > offset + Limit
    <3>1. offset + Limit <= c /\ n >= offset + Limit
      BY <2>3, <2>5, <2>6, <2>9, <2>10, <2>11
    <3>2. Len(P) = Limit
      BY <2>4, <3>1
    <3>3. P # << >>
      BY <2>3, <2>7, <3>2, EmptySeq
    <3>4. full'
      <4>1. Len(P) >= Limit
        BY <2>3, <3>2
      <4> QED
        BY <2>1, <4>1
    <3> QED
      BY <1>1, <1>3, <2>1, <3>1, <3>3, <3>4 DEF Coming, n
  <2> QED
    BY <2>3, <2>8, <2>9, <2>11
<1> QED
  BY <1>1, <1>2, <1>3, <1>5 DEF PagingInv, Covered, Coming

(* A listing of the page is evaluated: its hits are recorded, or its       *)
(* failure is logged; the other listings of the page follow.               *)
LEMMA PagingEvaluate ==
  ASSUME EvalInv, PagingInv, NEW l \in Listings, EvaluateListing(l)
  PROVE  PagingInv'
<1> SUFFICES ASSUME NEW p \in steady \ (warned' \cup skipped)
             PROVE  Covered(p)'
  BY DEF PagingInv, EvaluateListing, ghostVars
<1> USE DEF EvalInv
<1>1. /\ UNCHANGED <<listingVars, search, pc, at, todo, cur, offset, full>>
      /\ hits \subseteq hits' /\ warned \subseteq warned'
  BY EvaluationTypes DEF EvaluateListing, EvaluationOfSucceeds, EvaluationOfFails
<1>2. Reported(p) => Reported(p)'
  BY <1>1 DEF Reported, HitsOf, listingVars
<1>3. Before(p)' = Before(p) /\ Limit' = Limit
  BY <1>1 DEF Before, RowsBefore, Matches, Listed, Limit, listingVars
<1>4. PICK t \in cur : EvaluationOfSucceeds(t, l) \/ EvaluationOfFails(t, l)
  BY DEF EvaluateListing
<1>5. page \in Seq(Listings) /\ page # << >> /\ l = page[1] /\ page' = Tail(page)
  BY <1>4 DEF TypeOK, EvaluationOfSucceeds, EvaluationOfFails
<1>6. ASSUME OnPage(p[2]), p[2] # l
      PROVE  OnPage(p[2])'
  <2>1. PICK i \in DOMAIN page : page[i] = p[2]
    BY <1>6 DEF OnPage
  <2>2. i \in 1..Len(page) /\ i # 1 /\ Len(page) \in Nat
    BY <1>5, <1>6, <2>1, LenProperties
  <2>3. Len(page') = Len(page) - 1 /\ \A j \in 1..(Len(page) - 1) : page'[j] = page[j + 1]
    BY <1>5, HeadTailProperties
  <2>4. i - 1 \in 1..(Len(page) - 1) /\ (i - 1) + 1 = i
    BY <2>2
  <2>5. page'[i - 1] = p[2]
    BY <2>1, <2>3, <2>4
  <2>6. page' \in Seq(Listings)
    BY <1>5, HeadTailProperties
  <2>7. DOMAIN page' = 1..(Len(page) - 1)
    BY <2>3, <2>6, LenProperties
  <2> QED
    BY <2>4, <2>5, <2>7 DEF OnPage
<1>7. ASSUME p[2] = l, p[1] = t.id
      PROVE  Reported(p)'
  <2>1. p = <<t.id, l>>
    BY <1>7 DEF TypeOK
  <2>2. EvaluationOfSucceeds(t, l)
    BY <1>4, <2>1 DEF EvaluationOfFails
  <2>3. HitsOf(p[1], p[2], Due(l)) \subseteq hits' /\ at' = at /\ UNCHANGED listingVars
    BY <1>1, <1>7, <2>2 DEF EvaluationOfSucceeds
  <2>4. \A r \in Due(l) : HitsOf(p[1], p[2], {r})' \subseteq hits'
    BY <2>3 DEF HitsOf
  <2>5. /\ firstSeen'[l] > at' - Day => "new" \in Due(l)
        /\ (\E u \in drops'[l] : u > at' - Day /\ u < at') => "price_drop" \in Due(l)
    BY <2>3, DueFacts DEF listingVars
  <2> QED
    BY <1>7, <2>4, <2>5 DEF Reported
<1>8. Covered(p)
  BY <1>1 DEF PagingInv
<1>9. CASE p[2] = l /\ p[1] = t.id
  BY <1>7, <1>9 DEF Covered
<1>10. CASE ~(p[2] = l /\ p[1] = t.id)
  <2>1. ASSUME NEW u \in cur, u.id = p[1], Coming(p)
        PROVE  Coming(p)'
    <3>1. u = t
      BY DEF LoopInv, OneSearch
    <3>2. p[2] # l
      BY <1>10, <2>1, <3>1
    <3> QED
      BY <1>1, <1>3, <1>6, <2>1, <3>2 DEF Coming
  <2> QED
    BY <1>1, <1>2, <1>3, <1>8, <2>1 DEF Covered
<1> QED
  BY <1>9, <1>10

(* The other steps of the evaluation.  A page ends with its rows           *)
(* evaluated, and the next one begins with the row after it.               *)
LEMMA PagingLoop ==
  ASSUME EvalInv, PagingInv,
         EvaluationEnds \/ QueryFails \/ PageEnds \/ \E t \in todo : NextSearch(t)
  PROVE  PagingInv'
<1> SUFFICES ASSUME NEW p \in steady' \ (warned' \cup skipped')
             PROVE  Covered(p)'
  BY DEF PagingInv
<1> USE DEF EvalInv
<1>1. CASE EvaluationEnds
  BY <1>1 DEF EvaluationEnds
<1>2. CASE ~EvaluationEnds
  <2>1. /\ UNCHANGED <<listingVars, search, hits, at, ghostVars>> /\ warned \subseteq warned'
    BY <1>2 DEF QueryFails, PageEnds, NextSearch
  <2>2. p \in steady \ (warned \cup skipped)
    BY <2>1 DEF ghostVars
  <2>3. Covered(p)
    BY <2>2 DEF PagingInv
  <2>4. /\ Reported(p) => Reported(p)'
        /\ Before(p)' = Before(p) /\ Before(p) \in Nat
    BY <2>1, RowFacts DEF Reported, HitsOf, Before, RowsBefore, Matches, Listed, listingVars
  <2>5. CASE QueryFails
    <3>1. \A t \in cur : t.id # p[1]
      <4> SUFFICES ASSUME NEW t \in cur, t.id = p[1]
                   PROVE  FALSE
        OBVIOUS
      <4>1. p = <<p[1], p[2]>> /\ p[2] \in Listings
        BY <2>2 DEF TypeOK
      <4> QED
        BY <2>5, <4>1 DEF QueryFails
    <3> QED
      BY <2>3, <2>4, <2>5, <3>1 DEF QueryFails, Covered
  <2>6. CASE PageEnds
    <3>1. ~OnPage(p[2])
      BY <2>6 DEF PageEnds, OnPage
    <3>2. ASSUME Coming(p), Before(p) < MaxRows
          PROVE  Coming(p)'
      <4>1. full /\ Before(p) >= offset + Limit
        BY <2>6, <3>1, <3>2 DEF PageEnds, Coming
      <4>2. offset + Limit < MaxRows
        BY <2>4, <3>2, <4>1, LimitFacts, SearchesAssumption
      <4> QED
        BY <2>4, <2>6, <4>1, <4>2 DEF PageEnds, Coming
    <3> QED
      BY <2>3, <2>4, <2>6, <3>2 DEF PageEnds, Covered
  <2>7. ASSUME NEW t \in todo, NextSearch(t)
        PROVE  Covered(p)'
    <3>1. ~Coming(p)
      BY <2>7 DEF NextSearch, Coming
    <3>2. CASE t.id = p[1]
      <4>1. Coming(p)' /\ t \in cur'
        BY <2>4, <2>7 DEF NextSearch, Coming
      <4> QED
        BY <3>2, <4>1 DEF Covered
    <3>3. CASE t.id # p[1]
      BY <2>3, <2>4, <2>7, <3>1, <3>3 DEF NextSearch, Covered
    <3> QED
      BY <3>2, <3>3
  <2> QED
    BY <1>2, <2>5, <2>6, <2>7
<1> QED
  BY <1>1, <1>2

LEMMA PagingNext ==
  ASSUME EvalInv, PagingInv, [Next]_vars
  PROVE  PagingInv'
<1>1. EvalInv'
  BY EvalNext
<1>2. CASE StartEvaluation
  <2>1. \A p \in steady' : \E t \in todo' : t.id = p[1]
    <3> TAKE p \in steady'
    <3>1. p[1] \in Searches /\ search[p[1]].state = "enabled"
      BY <1>2 DEF StartEvaluation
    <3>2. [id |-> p[1], query |-> search[p[1]].query] \in todo'
      BY <1>2, <3>1 DEF StartEvaluation
    <3> QED
      BY <3>2
  <2> QED
    BY <2>1 DEF PagingInv, Covered
<1>3. ASSUME UNCHANGED <<listingVars, search, hits, evalVars, ghostVars>>
      PROVE  PagingInv'
  BY <1>3
     DEF PagingInv, Covered, Coming, OnPage, Before, RowsBefore, Matches, Listed, Limit,
         Reported, HitsOf, listingVars, evalVars, ghostVars
<1>4. CASE Tick \/ OpenDigest \/ MarkHitsSeen \/ UNCHANGED vars
  BY <1>3, <1>4 DEF Tick, OpenDigest, MarkHitsSeen, vars
<1> QED
  BY <1>1, <1>2, <1>4, PagingFind, PagingUpdate, PagingEdit, PagingQuery, PagingEvaluate,
     PagingLoop DEF Next, EvaluationStep

(* Paging loses nothing it need not, however many listings the scraper     *)
(* finds meanwhile, in the same run as others or not, and however the user *)
(* edits the searches: a listing that matched all along, within the first  *)
(* MaxRows rows, is reported when the evaluation ends, for any page size,  *)
(* unless a page's end parted it from a row first seen at the same moment, *)
(* or a row before it left after its search began to page.                 *)
THEOREM ReportingCorrect == Spec => DueAreReported
<1>1. Init => EvalInv /\ PagingInv
  BY EvalInit DEF Init, PagingInv
<1>2. ASSUME EvalInv, PagingInv, [Next]_vars, pc # "idle", pc' = "idle",
             NEW p \in steady \ (warned \cup skipped), Before(p) < MaxRows
      PROVE  Reported(p)
  <2>1. EvaluationEnds
    <3>1. ASSUME NEW s \in Searches,
                 CreateSavedSearch(s) \/ UpdateSavedSearch(s) \/ DeleteSavedSearch(s)
          PROVE  pc' = pc
      BY <1>2, <3>1, Edits DEF Edit, evalVars, EvalInv
    <3> QED
      BY <1>2, <3>1
         DEF Next, EvaluationStep, Tick, FindListings, UpdateListing, StartEvaluation,
             QueryPage, QueryFails, PageEnds, NextSearch, EvaluateListing, OpenDigest,
             MarkHitsSeen, vars, evalVars
  <2>2. pc = "search" /\ todo = {}
    BY <2>1 DEF EvaluationEnds
  <2> QED
    BY <1>2, <2>2 DEF PagingInv, Covered, Coming
<1>3. EvalInv /\ PagingInv /\ [Next]_vars =>
        [pc # "idle" /\ pc' = "idle" =>
           \A p \in steady \ (warned \cup skipped) :
             Cardinality(RowsBefore(search[p[1]].query, p[2])) < MaxRows => Reported(p)]_vars
  BY <1>2 DEF Before
<1> QED
  BY <1>1, EvalNext, PagingNext, <1>3, PTL DEF Spec, DueAreReported
=============================================================================
