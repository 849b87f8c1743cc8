---------------------------- MODULE CatalogProofs ----------------------------
(***************************************************************************)
(* Proofs about Catalog, for any listings, pages, filters, limits and      *)
(* number of backfills.                                                    *)
(***************************************************************************)
EXTENDS Catalog, FiniteSetTheorems, FunctionTheorems, TLAPS

(* What the extractors answer.                                             *)
LEMMA BestExists ==
  ASSUME NEW s \in [1..5 -> Nat]
  PROVE  Best(s) \in 1..5
<1>1. 1..5 = {1, 2, 3, 4, 5}
  OBVIOUS
<1>2. s[1] \in Nat /\ s[2] \in Nat /\ s[3] \in Nat /\ s[4] \in Nat /\ s[5] \in Nat
  OBVIOUS
<1> DEFINE IsBest(i) == \A j \in 1..5 : s[i] > s[j] \/ (s[i] = s[j] /\ i <= j)
<1>3. IsBest(1) \/ IsBest(2) \/ IsBest(3) \/ IsBest(4) \/ IsBest(5)
  BY <1>1, <1>2
<1>4. \E i \in 1..5 : IsBest(i)
  BY <1>3, <1>1
<1> HIDE DEF IsBest
<1>5. Best(s) = CHOOSE i \in 1..5 : IsBest(i)
  BY DEF Best, IsBest
<1> QED
  BY <1>4, <1>5

LEMMA Candidates ==
  \A i \in 1..5 :
    /\ Roads[i].value \in Words /\ Roads[i].confidence \in Nat
    /\ PropertyTypes[i].value \in Words
    /\ \E a, b, c : PropertyTypes[i].re = {a, b, c}
<1>1. 1..5 = {1, 2, 3, 4, 5}
  OBVIOUS
<1>2. /\ Roads[1].value = "paved" /\ Roads[1].confidence = 95
      /\ Roads[2].value = "none" /\ Roads[2].confidence = 90
  BY DEF Roads
<1>3. /\ Roads[3].value = "gravel" /\ Roads[3].confidence = 90
      /\ Roads[4].value = "dirt" /\ Roads[4].confidence = 85
  BY DEF Roads
<1>4. Roads[5].value = "seasonal" /\ Roads[5].confidence = 80
  BY DEF Roads
<1>5. /\ PropertyTypes[1].value = "timber" /\ PropertyTypes[2].value = "agricultural"
      /\ PropertyTypes[3].value = "hunting" /\ PropertyTypes[4].value = "homesite"
      /\ PropertyTypes[5].value = "commercial"
  BY DEF PropertyTypes
<1>6. /\ PropertyTypes[1].re = {"timber", "tree farm", "forest service road"}
      /\ PropertyTypes[2].re = {"tree farm", "pasture", "pasture"}
  BY DEF PropertyTypes
<1>7. /\ PropertyTypes[3].re = {"hunting", "elk", "elk"}
      /\ PropertyTypes[4].re = {"lot", "residential", "residential"}
      /\ PropertyTypes[5].re = {"commercial", "commercial", "commercial"}
  BY DEF PropertyTypes
<1>8. \A i \in 1..5 : Roads[i].value \in Words /\ Roads[i].confidence \in Nat
  BY <1>1, <1>2, <1>3, <1>4 DEF Words
<1>9. \A i \in 1..5 : PropertyTypes[i].value \in Words
  BY <1>1, <1>5 DEF Words
<1>10. \A i \in 1..5 : \E a, b, c : PropertyTypes[i].re = {a, b, c}
  <2> DEFINE Triple(S) == \E a, b, c : S = {a, b, c}
  <2>2. Triple(PropertyTypes[1].re) /\ Triple(PropertyTypes[2].re)
    BY <1>6
  <2>3. Triple(PropertyTypes[3].re) /\ Triple(PropertyTypes[4].re) /\ Triple(PropertyTypes[5].re)
    BY <1>7
  <2> HIDE DEF Triple
  <2>4. \A i \in 1..5 : Triple(PropertyTypes[i].re)
    BY <1>1, <2>2, <2>3
  <2> QED
    BY <2>4 DEF Triple
<1> QED
  BY <1>8, <1>9, <1>10

LEMMA ExtractTypes ==
  ASSUME NEW text \in SUBSET Phrases
  PROVE  ExtractAll(text) \in [Attrs -> Words]
<1>1. /\ ExtractWaterFrontage(text) \in Words /\ ExtractOffGrid(text) \in Words
      /\ ExtractPower(text) \in Words /\ ExtractWell(text) \in Words
      /\ ExtractSeptic(text) \in Words
  BY DEF ExtractWaterFrontage, ExtractOffGrid, ExtractPower, ExtractWell, ExtractSeptic, Negated,
     Words
<1>2. ExtractRoadAccess(text) \in Words
  <2> DEFINE s == [i \in 1..5 |-> IF Says(text, Roads[i].re) THEN Roads[i].confidence ELSE 0]
  <2>1. s \in [1..5 -> Nat]
    BY Candidates
  <2>2. \A i \in 1..5 : Roads[i].value \in Words
    BY Candidates
  <2> HIDE DEF s
  <2>3. Winner(Roads, s) \in Words
    BY <2>1, <2>2, BestExists DEF Winner, Words
  <2> QED
    BY <2>3 DEF ExtractRoadAccess, s
<1>3. ExtractPropertyType(text) \in Words
  <2> DEFINE s == [i \in 1..5 |-> Cardinality(text \cap PropertyTypes[i].re)]
  <2>1. s \in [1..5 -> Nat]
    <3>1. ASSUME NEW i \in 1..5
          PROVE  Cardinality(text \cap PropertyTypes[i].re) \in Nat
      <4>1. PICK a, b, c : PropertyTypes[i].re = {a, b, c}
        BY Candidates
      <4>2. IsFiniteSet({a, b, c})
        <5>1. IsFiniteSet(({a} \cup {b}) \cup {c})
          BY FS_Singleton, FS_AddElement
        <5>2. ({a} \cup {b}) \cup {c} = {a, b, c}
          OBVIOUS
        <5> QED
          BY <5>1, <5>2
      <4> QED
        BY <4>1, <4>2, FS_Subset, FS_CardinalityType
    <3> QED
      BY <3>1
  <2>2. \A i \in 1..5 : PropertyTypes[i].value \in Words
    BY Candidates
  <2> HIDE DEF s
  <2>3. Winner(PropertyTypes, s) \in Words
    BY <2>1, <2>2, BestExists DEF Winner, Words
  <2> QED
    BY <2>3 DEF ExtractPropertyType, s
<1> QED
  BY <1>1, <1>2, <1>3 DEF ExtractAll, Attrs

(* Only a text without utilities is off the grid and powered.              *)
LEMMA Coherence ==
  ASSUME NEW text \in SUBSET Phrases,
         ExtractAll(text)["off_grid"] = "true", ExtractAll(text)["power"] = "true"
  PROVE  "no utilities" \in text
<1>1. ExtractOffGrid(text) = "true" /\ ExtractPower(text) = "true"
  BY DEF ExtractAll, Attrs
<1>2. Says(text, OffGridPos) /\ ~Says(text, PowerNeg)
  BY <1>1 DEF ExtractOffGrid, ExtractPower, Negated, Null
<1> QED
  BY <1>2 DEF Says, OffGridPos, PowerNeg

-----------------------------------------------------------------------------
(* What a job remembers: the row it has read is the one in the table unless*)
(* another job has written it since; a row never goes away.                *)
JobInv ==
  \A w \in Writers : job[w] # Idle =>
    LET j == job[w] IN
      /\ j.read # NoRow => row[j.listing] # NoRow
      /\ j.raced \/ j.read = row[j.listing]
      /\ j.step = "missed" => j.read # NoRow
      /\ j.read # NoRow => j.read.evidence = ExtractAll(j.read.text)

EvidenceInv == \A l \in Listed : row[l].evidence = ExtractAll(row[l].text)

LEMMA RowFacts ==
  /\ NoRow \in Row /\ NoRow.firstSeen = -1
  /\ \A r \in Row : /\ r.text \in SUBSET Phrases /\ r.broker \in Brokers \cup {NoBroker}
                    /\ r.attrs \in [Attrs -> Words] /\ r.evidence \in [Attrs -> Words]
                    /\ r # NoRow => r.firstSeen \in Nat
<1>1. NoWords \in [Attrs -> Words]
  BY DEF NoWords, Words
<1> QED
  BY <1>1 DEF Row, NoRow, Absent

LEMMA JobFacts ==
  ASSUME NEW j \in Upsert \cup Missed
  PROVE  /\ j # Idle /\ j.listing \in Listings /\ j.read \in Row /\ j.raced \in BOOLEAN
         /\ j.step \in {"upsert", "missed"}
         /\ j.step = "upsert" => j.page \in Pages /\ j.at \in Nat
         /\ [j EXCEPT !.raced = TRUE] \in Upsert \cup Missed
         /\ [j EXCEPT !.raced = TRUE].listing = j.listing
         /\ [j EXCEPT !.raced = TRUE].read = j.read
         /\ [j EXCEPT !.raced = TRUE].step = j.step
         /\ [j EXCEPT !.raced = TRUE].raced = TRUE
<1> DEFINE i == [j EXCEPT !.raced = TRUE]
<1>1. CASE j \in Upsert
  <2>1. /\ j.step = "upsert" /\ j.listing \in Listings /\ j.read \in Row /\ j.raced \in BOOLEAN
        /\ j.page \in Pages /\ j.at \in Nat
    BY <1>1 DEF Upsert
  <2>2. i \in Upsert /\ i.listing = j.listing /\ i.read = j.read /\ i.step = j.step /\ i.raced = TRUE
    BY <1>1 DEF Upsert
  <2>3. j # Idle
    BY <2>1 DEF Idle
  <2> QED
    BY <2>1, <2>2, <2>3
<1>2. CASE j \in Missed
  <2>1. j.step = "missed" /\ j.listing \in Listings /\ j.read \in Row /\ j.raced \in BOOLEAN
    BY <1>2 DEF Missed
  <2>2. i \in Missed /\ i.listing = j.listing /\ i.read = j.read /\ i.step = j.step /\ i.raced = TRUE
    BY <1>2 DEF Missed
  <2>3. j # Idle
    BY <2>1 DEF Idle
  <2> QED
    BY <2>1, <2>2, <2>3
<1> QED
  BY <1>1, <1>2

(* A row into which a page has been written.                               *)
LEMMA ParsedRow ==
  ASSUME NEW r \in Row, NEW page \in Page, NEW t \in Nat,
         NEW u, u = Parsed(r, page, t)
  PROVE  /\ u \in Row /\ u # NoRow /\ u.firstSeen = t
         /\ u.text = page.text /\ u.evidence = ExtractAll(page.text)
         /\ u.broker = IF page.broker = NoBroker THEN r.broker ELSE page.broker
         /\ \A x \in Attrs : u.attrs[x] = IF ExtractAll(page.text)[x] # Null
                                         THEN ExtractAll(page.text)[x] ELSE r.attrs[x]
<1> DEFINE b == IF page.broker = NoBroker THEN r.broker ELSE page.broker
           e == ExtractAll(page.text)
           a == [x \in Attrs |-> IF e[x] # Null THEN e[x] ELSE r.attrs[x]]
           q == ApplyParsedFields(r, page)
<1>1. page.text \in SUBSET Phrases /\ page.broker \in Brokers \cup {NoBroker}
  BY DEF Page
<1>2. e \in [Attrs -> Words]
  BY <1>1, ExtractTypes
<1>3. r.broker \in Brokers \cup {NoBroker} /\ r.attrs \in [Attrs -> Words]
  BY RowFacts
<1> DEFINE Shape == [firstSeen: Int, text: SUBSET Phrases, broker: Brokers \cup {NoBroker},
                     attrs: [Attrs -> Words], evidence: [Attrs -> Words]]
<1>10. r \in Shape
  <2>1. CASE r = NoRow
    BY <2>1, RowFacts DEF NoRow, Absent
  <2>2. CASE r # NoRow
    BY <2>2 DEF Row
  <2> QED
    BY <2>1, <2>2
<1>4. q = [r EXCEPT !.text = page.text, !.broker = b]
  BY DEF ApplyParsedFields
<1>5. q.text = page.text /\ q.attrs = r.attrs
  BY <1>4, <1>10
<1>6. u = [[q EXCEPT !.evidence = e, !.attrs = a] EXCEPT !.firstSeen = t]
  BY <1>5 DEF Parsed, ApplyAttributeExtraction
<1>7. b \in Brokers \cup {NoBroker} /\ a \in [Attrs -> Words]
  BY <1>1, <1>2, <1>3
<1> HIDE DEF a, b, e, q
<1>8. /\ u \in Shape /\ u.firstSeen = t /\ u.text = page.text /\ u.broker = b /\ u.attrs = a
      /\ u.evidence = e
  <2>1. q \in Shape /\ q.text = page.text /\ q.broker = b
    BY <1>1, <1>4, <1>7, <1>10
  <2> DEFINE v == [q EXCEPT !.evidence = e, !.attrs = a]
  <2>2. /\ v \in Shape /\ v.text = page.text /\ v.broker = b /\ v.attrs = a /\ v.evidence = e
    BY <1>2, <1>7, <2>1
  <2>3. u = [v EXCEPT !.firstSeen = t]
    BY <1>6
  <2> HIDE DEF v
  <2>4. u \in Shape
    <3>1. \A z \in Shape : [z EXCEPT !.firstSeen = t] \in Shape
      OBVIOUS
    <3> HIDE DEF Shape
    <3> QED
      BY <2>2, <2>3, <3>1
  <2>5. u.firstSeen = t /\ u.text = v.text /\ u.broker = v.broker
    BY <2>2, <2>3
  <2>6. u.attrs = v.attrs /\ u.evidence = v.evidence
    BY <2>2, <2>3
  <2> HIDE DEF Shape
  <2> QED
    BY <2>2, <2>4, <2>5, <2>6
<1>9. u \in Row /\ u # NoRow
  BY <1>8, RowFacts DEF Row
<1> QED
  BY <1>8, <1>9 DEF a, b, e

(* What a write leaves behind.                                             *)
LEMMA WriteTypes ==
  ASSUME TypeOK, NEW w \in Writers, NEW l \in Listings, NEW r \in Row, Write(w, l, r)
  PROVE  /\ row' \in [Listings -> Row] /\ row'[l] = r
         /\ \A k \in Listings \ {l} : row'[k] = row[k]
         /\ job' \in [Writers -> {Idle} \cup Upsert \cup Missed]
         /\ sure' \subseteq Listings
         /\ UNCHANGED <<walk, now, writes>>
<1>1. /\ row' \in [Listings -> Row] /\ row'[l] = r
      /\ \A k \in Listings \ {l} : row'[k] = row[k]
  BY DEF Write, TypeOK
<1>2. job' \in [Writers -> {Idle} \cup Upsert \cup Missed]
  <2>1. \A v \in Writers : job[v] # Idle => [job[v] EXCEPT !.raced = TRUE] \in Upsert \cup Missed
    BY JobFacts DEF TypeOK
  <2> QED
    BY <2>1 DEF Write, TypeOK
<1>3. sure' \subseteq Listings /\ UNCHANGED <<walk, now, writes>>
  BY DEF Write, TypeOK
<1> QED
  BY <1>1, <1>2, <1>3

(* The write of an upsert and of a missed run.                             *)
UpsertWrite(w) ==
  LET j == job[w] IN
    /\ job[w] \in Upsert
    /\ \E t \in Nat : Write(w, j.listing, Parsed(j.read, j.page, t))
    /\ SaidBy(j.page, j.listing)
    /\ Remember(w, j.listing, GivenBy(j.page))

MissedWrite(w) ==
  LET j == job[w] IN
    /\ job[w] \in Missed
    /\ Write(w, j.listing, [j.read EXCEPT !.firstSeen = row[j.listing].firstSeen])
    /\ Remember(w, j.listing, {})
    /\ UNCHANGED said

LEMMA Writes ==
  ASSUME TypeOK, JobInv, NEW w \in Writers
  PROVE  /\ CreateListing(w) => UpsertWrite(w)
         /\ UpdateListing(w) => UpsertWrite(w) /\ row[job[w].listing] # NoRow
         /\ UpdateMissed(w) => MissedWrite(w) /\ row[job[w].listing] # NoRow
<1>1. job[w] \in {Idle} \cup Upsert \cup Missed
  BY DEF TypeOK
<1>2. ASSUME CreateListing(w)
      PROVE  UpsertWrite(w)
  <2>1. job[w] \in Upsert
    BY <1>1, <1>2 DEF CreateListing, Idle, Missed
  <2>2. job[w].at \in Nat
    BY <2>1 DEF Upsert
  <2> QED
    BY <1>2, <2>1, <2>2 DEF CreateListing, UpsertWrite
<1>3. ASSUME UpdateListing(w)
      PROVE  UpsertWrite(w) /\ row[job[w].listing] # NoRow
  <2>1. job[w] \in Upsert
    BY <1>1, <1>3 DEF UpdateListing, Idle, Missed
  <2>2. row[job[w].listing] # NoRow
    BY <1>3, <2>1, JobFacts DEF UpdateListing, JobInv
  <2>3. row[job[w].listing].firstSeen \in Nat
    BY <2>1, <2>2, JobFacts, RowFacts DEF TypeOK
  <2> QED
    BY <1>3, <2>1, <2>2, <2>3 DEF UpdateListing, UpsertWrite
<1>4. ASSUME UpdateMissed(w)
      PROVE  MissedWrite(w) /\ row[job[w].listing] # NoRow
  <2>1. job[w] \in Missed
    BY <1>1, <1>4 DEF UpdateMissed, Idle, Upsert
  <2>2. row[job[w].listing] # NoRow
    BY <1>4, <2>1, JobFacts DEF UpdateMissed, JobInv
  <2> QED
    BY <1>4, <2>1, <2>2 DEF UpdateMissed, MissedWrite
<1> QED
  BY <1>2, <1>3, <1>4

-----------------------------------------------------------------------------
(* The invariants.                                                         *)
Inv == TypeOK /\ JobInv /\ EvidenceInv /\ RowSaysLatest

LEMMA InvInit == Init => Inv
<1> SUFFICES ASSUME Init PROVE Inv
  OBVIOUS
<1>1. TypeOK
  <2>1. NoRow \in Row /\ NothingSaid.text \in SUBSET Phrases
    BY RowFacts DEF NothingSaid
  <2>2. NothingSaid \in [text: SUBSET Phrases, broker: Brokers \cup {NoBroker}, attrs: [Attrs -> Words]]
    BY DEF NothingSaid, NoWords, Words
  <2>3. NoWalk \in [filter: Filter, limit: Nat \ {0}, offset: Nat, more: BOOLEAN,
                   shown: SUBSET Listings]
    BY CatalogAssumption DEF NoWalk, Filter
  <2> QED
    BY <2>1, <2>2, <2>3 DEF Init, TypeOK
<1>2. JobInv /\ EvidenceInv
  BY DEF Init, JobInv, EvidenceInv, Listed
<1>3. RowSaysLatest
  <2>1. \A c \in Columns : Column(NoRow, c) = Column(NothingSaid, c)
    <3>1. /\ NoRow.text = NothingSaid.text /\ NoRow.broker = NothingSaid.broker
          /\ NoRow.attrs = NothingSaid.attrs
      BY DEF NoRow, NothingSaid
    <3> QED
      BY <3>1 DEF Columns, Column
  <2> QED
    BY <2>1 DEF Init, RowSaysLatest
<1> QED
  BY <1>1, <1>2, <1>3 DEF Inv

(* Columns of a row that a page has been written into.                     *)
LEMMA ParsedColumns ==
  ASSUME NEW page \in Page, NEW r, NEW s, NEW u, NEW z,
         u.text = page.text,
         u.broker = IF page.broker = NoBroker THEN r.broker ELSE page.broker,
         \A x \in Attrs : u.attrs[x] = IF ExtractAll(page.text)[x] # Null
                                         THEN ExtractAll(page.text)[x] ELSE r.attrs[x],
         z.text = page.text,
         z.broker = IF "broker" \in GivenBy(page) THEN page.broker ELSE s.broker,
         \A x \in Attrs : z.attrs[x] = IF x \in GivenBy(page) THEN ExtractAll(page.text)[x]
                                      ELSE s.attrs[x],
         NEW c \in Columns
  PROVE  /\ c \in GivenBy(page) => Column(u, c) = Column(z, c)
         /\ c \notin GivenBy(page) => Column(u, c) = Column(r, c) /\ Column(z, c) = Column(s, c)
<1>2. "text" \notin Attrs /\ "broker" \notin Attrs
  BY DEF Attrs
<1>3. /\ "text" \in GivenBy(page)
      /\ "broker" \in GivenBy(page) <=> page.broker # NoBroker
      /\ \A x \in Attrs : x \in GivenBy(page) <=> ExtractAll(page.text)[x] # Null
  BY <1>2 DEF GivenBy
<1>4. CASE c = "text"
  BY <1>3, <1>4 DEF Column
<1>5. CASE c = "broker"
  BY <1>3, <1>5 DEF Column
<1>6. CASE c \in Attrs
  <2>1. /\ u.attrs[c] = IF c \in GivenBy(page) THEN ExtractAll(page.text)[c] ELSE r.attrs[c]
        /\ z.attrs[c] = IF c \in GivenBy(page) THEN ExtractAll(page.text)[c] ELSE s.attrs[c]
    BY <1>3, <1>6
  <2>2. \A y : Column(y, c) = y.attrs[c]
    BY <1>2, <1>6 DEF Column
  <2> QED
    BY <2>1, <2>2
<1> QED
  BY <1>4, <1>5, <1>6 DEF Columns

LEMMA WriteJobs ==
  ASSUME TypeOK, JobInv, NEW w \in Writers, NEW l \in Listings, NEW r \in Row, Write(w, l, r),
         r # NoRow, r.evidence = ExtractAll(r.text), EvidenceInv
  PROVE  JobInv' /\ EvidenceInv'
<1>1. /\ row'[l] = r
      /\ \A k \in Listings \ {l} : row'[k] = row[k]
  BY WriteTypes
<1>2. ASSUME NEW v \in Writers, job'[v] # Idle
      PROVE  /\ job[v] # Idle /\ job[v] \in Upsert \cup Missed
             /\ job'[v] = IF job[v].listing = l THEN [job[v] EXCEPT !.raced = TRUE] ELSE job[v]
  BY <1>2 DEF Write, TypeOK
<1>3. JobInv'
  <2> SUFFICES ASSUME NEW v \in Writers, job'[v] # Idle
               PROVE  LET j == job'[v] IN
                        /\ j.read # NoRow => row'[j.listing] # NoRow
                        /\ j.raced \/ j.read = row'[j.listing]
                        /\ j.step = "missed" => j.read # NoRow
                        /\ j.read # NoRow => j.read.evidence = ExtractAll(j.read.text)
    BY DEF JobInv
  <2>1. /\ job[v].read # NoRow => row[job[v].listing] # NoRow
        /\ job[v].raced \/ job[v].read = row[job[v].listing]
        /\ job[v].step = "missed" => job[v].read # NoRow
        /\ job[v].read # NoRow => job[v].read.evidence = ExtractAll(job[v].read.text)
    BY <1>2 DEF JobInv
  <2>2. CASE job[v].listing = l
    <3> DEFINE i == [job[v] EXCEPT !.raced = TRUE]
    <3>1. job'[v] = i /\ i.listing = l /\ i.read = job[v].read /\ i.step = job[v].step /\ i.raced
      BY <1>2, <2>2, JobFacts
    <3> HIDE DEF i
    <3> QED
      BY <1>1, <2>1, <3>1
  <2>3. CASE job[v].listing # l
    <3>1. job'[v] = job[v] /\ row'[job[v].listing] = row[job[v].listing]
      BY <1>1, <1>2, <2>3, JobFacts
    <3> QED
      BY <2>1, <3>1
  <2> QED
    BY <2>2, <2>3
<1>4. EvidenceInv'
  BY <1>1 DEF EvidenceInv, Listed
<1> QED
  BY <1>3, <1>4

LEMMA UpsertStep ==
  ASSUME Inv, NEW w \in Writers, UpsertWrite(w)
  PROVE  Inv'
<1> DEFINE j == job[w]
           l == j.listing
           p == j.page
<1>1. j \in Upsert /\ l \in Listings /\ j.read \in Row /\ p \in Page /\ j # Idle
  BY CatalogAssumption, JobFacts DEF UpsertWrite, Upsert
<1>2. PICK t \in Nat : Write(w, l, Parsed(j.read, p, t))
  BY DEF UpsertWrite
<1> DEFINE u == Parsed(j.read, p, t)
<1> DEFINE r == j.read
<1>3. /\ u \in Row /\ u # NoRow /\ u.evidence = ExtractAll(u.text)
      /\ u.text = p.text
      /\ u.broker = IF p.broker = NoBroker THEN r.broker ELSE p.broker
      /\ \A x \in Attrs : u.attrs[x] = IF ExtractAll(p.text)[x] # Null
                                         THEN ExtractAll(p.text)[x] ELSE r.attrs[x]
  <2>1. u = Parsed(r, p, t) /\ r \in Row /\ p \in Page
    BY <1>1
  <2> HIDE DEF u, r, p
  <2>2. /\ u \in Row /\ u # NoRow /\ u.evidence = ExtractAll(p.text)
        /\ u.text = p.text
        /\ u.broker = IF p.broker = NoBroker THEN r.broker ELSE p.broker
        /\ \A x \in Attrs : u.attrs[x] = IF ExtractAll(p.text)[x] # Null
                                         THEN ExtractAll(p.text)[x] ELSE r.attrs[x]
    BY <2>1, ParsedRow
  <2> QED
    BY <2>2
<1> DEFINE z == [text   |-> p.text,
                 broker |-> IF "broker" \in GivenBy(p) THEN p.broker ELSE said[l].broker,
                 attrs  |-> [x \in Attrs |-> IF x \in GivenBy(p) THEN ExtractAll(p.text)[x]
                                            ELSE said[l].attrs[x]]]
<1>4. /\ said' = [said EXCEPT ![l] = z]
      /\ lost' = [lost EXCEPT ![l] = (@ \ GivenBy(p))
                                     \cup (IF j.raced THEN Columns \ GivenBy(p) ELSE {})]
  BY DEF UpsertWrite, SaidBy, Remember
<1>5. GivenBy(p) \subseteq Columns
  BY DEF GivenBy, Columns
<1>6. j.raced \/ j.read = row[l]
  BY <1>1 DEF Inv, JobInv
<1>7. \A c \in Columns :
        /\ c \in GivenBy(p) => Column(u, c) = Column(z, c)
        /\ c \notin GivenBy(p) => Column(u, c) = Column(j.read, c) /\ Column(z, c) = Column(said[l], c)
  <2> DEFINE s == said[l]
  <2>1. /\ z.text = p.text
        /\ z.broker = IF "broker" \in GivenBy(p) THEN p.broker ELSE s.broker
        /\ \A x \in Attrs : z.attrs[x] = IF x \in GivenBy(p) THEN ExtractAll(p.text)[x]
                                         ELSE s.attrs[x]
    OBVIOUS
  <2> HIDE DEF s, z, u, p, r
  <2>2. \A c \in Columns :
          /\ c \in GivenBy(p) => Column(u, c) = Column(z, c)
          /\ c \notin GivenBy(p) => Column(u, c) = Column(r, c) /\ Column(z, c) = Column(s, c)
    BY <1>1, <1>3, <2>1, ParsedColumns
  <2> QED
    BY <2>2 DEF s, r
<1>8. z \in [text: SUBSET Phrases, broker: Brokers \cup {NoBroker}, attrs: [Attrs -> Words]]
  <2>1. p.text \in SUBSET Phrases /\ p.broker \in Brokers \cup {NoBroker}
    BY <1>1 DEF Page
  <2>2. ExtractAll(p.text) \in [Attrs -> Words]
    BY <2>1, ExtractTypes
  <2>3. said[l].broker \in Brokers \cup {NoBroker} /\ said[l].attrs \in [Attrs -> Words]
    BY <1>1 DEF Inv, TypeOK
  <2> QED
    BY <2>1, <2>2, <2>3
<1> HIDE DEF z, u
<1>9. Write(w, l, u)
  BY <1>2 DEF u
<1>10. TypeOK'
  <2>1. lost' \in [Listings -> SUBSET Columns]
    BY <1>1, <1>4, <1>5 DEF Inv, TypeOK
  <2>2. said' \in [Listings -> [text: SUBSET Phrases, broker: Brokers \cup {NoBroker},
                                attrs: [Attrs -> Words]]]
    BY <1>1, <1>4, <1>8 DEF Inv, TypeOK
  <2> QED
    BY <1>1, <1>3, <1>9, <2>1, <2>2, WriteTypes DEF Inv, TypeOK
<1>11. JobInv' /\ EvidenceInv'
  BY <1>1, <1>3, <1>9, WriteJobs DEF Inv
<1>12. RowSaysLatest'
  <2> SUFFICES ASSUME NEW k \in Listings, NEW c \in Columns, c \notin lost'[k]
               PROVE  Column(row'[k], c) = Column(said'[k], c)
    BY DEF RowSaysLatest, Column
  <2>1. CASE k # l
    <3>1. row'[k] = row[k] /\ said'[k] = said[k] /\ lost'[k] = lost[k]
      BY <1>1, <1>3, <1>4, <1>9, <2>1, WriteTypes DEF Inv, TypeOK
    <3> QED
      BY <3>1 DEF Inv, RowSaysLatest
  <2>2. CASE k = l
    <3>1. row'[l] = u /\ said'[l] = z
          /\ lost'[l] = (lost[l] \ GivenBy(p)) \cup (IF j.raced THEN Columns \ GivenBy(p) ELSE {})
      BY <1>1, <1>3, <1>4, <1>9, WriteTypes DEF Inv, TypeOK
    <3>2. CASE c \in GivenBy(p)
      BY <1>7, <2>2, <3>1, <3>2
    <3>3. CASE c \notin GivenBy(p)
      <4>1. c \notin lost[l] /\ j.read = row[l]
        BY <1>6, <2>2, <3>1, <3>3
      <4>2. Column(row[l], c) = Column(said[l], c)
        BY <1>1, <4>1 DEF Inv, RowSaysLatest
      <4> QED
        BY <1>7, <2>2, <3>1, <3>3, <4>1, <4>2
    <3> QED
      BY <3>2, <3>3
  <2> QED
    BY <2>1, <2>2
<1> QED
  BY <1>10, <1>11, <1>12 DEF Inv

LEMMA MissedStep ==
  ASSUME Inv, NEW w \in Writers, MissedWrite(w)
  PROVE  Inv'
<1> DEFINE j == job[w]
           l == j.listing
           r == j.read
           u == [r EXCEPT !.firstSeen = row[l].firstSeen]
<1>1. j \in Missed /\ j \in Upsert \cup Missed /\ l \in Listings /\ r \in Row /\ j # Idle
  BY JobFacts DEF MissedWrite
<1>2. /\ r # NoRow /\ row[l] # NoRow /\ r.evidence = ExtractAll(r.text)
      /\ j.raced \/ r = row[l]
  <2>1. j.step = "missed"
    BY <1>1 DEF Missed
  <2> QED
    BY <1>1, <2>1 DEF Inv, JobInv
<1>3. /\ u \in Row /\ u # NoRow /\ u.text = r.text /\ u.broker = r.broker /\ u.attrs = r.attrs
      /\ u.evidence = r.evidence
  <2>1. row[l].firstSeen \in Nat
    BY <1>1, <1>2, RowFacts DEF Inv, TypeOK
  <2> DEFINE t == row[l].firstSeen
             Seen == [firstSeen: Nat, text: SUBSET Phrases, broker: Brokers \cup {NoBroker},
                      attrs: [Attrs -> Words], evidence: [Attrs -> Words]]
  <2>2. r \in Seen
    BY <1>1, <1>2 DEF Row
  <2>3. t \in Nat
    BY <2>1
  <2> HIDE DEF t, r
  <2>4. \A q \in Seen : /\ [q EXCEPT !.firstSeen = t] \in Seen
                        /\ [q EXCEPT !.firstSeen = t].firstSeen = t
                        /\ [q EXCEPT !.firstSeen = t].text = q.text
                        /\ [q EXCEPT !.firstSeen = t].broker = q.broker
                        /\ [q EXCEPT !.firstSeen = t].attrs = q.attrs
                        /\ [q EXCEPT !.firstSeen = t].evidence = q.evidence
    BY <2>3
  <2> DEFINE y == [r EXCEPT !.firstSeen = t]
  <2>5. /\ y \in Seen /\ y.firstSeen = t /\ y.text = r.text /\ y.broker = r.broker /\ y.attrs = r.attrs
        /\ y.evidence = r.evidence
    BY <2>2, <2>4
  <2>6. u = y
    BY DEF t
  <2> HIDE DEF u, y
  <2>7. u # NoRow
    BY <2>3, <2>5, <2>6, RowFacts
  <2> QED
    BY <2>5, <2>6, <2>7 DEF Row
<1>4. /\ lost' = [lost EXCEPT ![l] = (@ \ {}) \cup (IF j.raced THEN Columns \ {} ELSE {})]
      /\ UNCHANGED said
      /\ Write(w, l, u)
  BY DEF MissedWrite, Remember
<1> HIDE DEF u
<1>5. TypeOK'
  <2>1. lost' \in [Listings -> SUBSET Columns]
    BY <1>1, <1>4 DEF Inv, TypeOK
  <2> QED
    BY <1>1, <1>3, <1>4, <2>1, WriteTypes DEF Inv, TypeOK
<1>6. JobInv' /\ EvidenceInv'
  <2>1. u.evidence = ExtractAll(u.text)
    BY <1>2, <1>3
  <2> QED
    BY <1>1, <1>3, <1>4, <2>1, WriteJobs DEF Inv
<1>7. RowSaysLatest'
  <2> SUFFICES ASSUME NEW k \in Listings, NEW c \in Columns, c \notin lost'[k]
               PROVE  Column(row'[k], c) = Column(said'[k], c)
    BY DEF RowSaysLatest, Column
  <2>1. CASE k # l
    <3>1. row'[k] = row[k] /\ said'[k] = said[k] /\ lost'[k] = lost[k]
      BY <1>1, <1>3, <1>4, <2>1, WriteTypes DEF Inv, TypeOK
    <3> QED
      BY <3>1 DEF Inv, RowSaysLatest
  <2>2. CASE k = l
    <3>1. row'[l] = u /\ lost'[l] = lost[l] \cup (IF j.raced THEN Columns ELSE {})
      BY <1>1, <1>3, <1>4, WriteTypes DEF Inv, TypeOK
    <3>2. c \notin lost[l] /\ r = row[l]
      BY <1>2, <2>2, <3>1
    <3>3. Column(row[l], c) = Column(said[l], c)
      BY <1>1, <3>2 DEF Inv, RowSaysLatest
    <3>4. Column(u, c) = Column(r, c)
      BY <1>3 DEF Column
    <3> QED
      BY <1>4, <2>2, <3>1, <3>2, <3>3, <3>4
  <2> QED
    BY <2>1, <2>2
<1> QED
  BY <1>5, <1>6, <1>7 DEF Inv

LEMMA BeginStep ==
  ASSUME Inv, NEW w \in Writers, NEW j \in Upsert \cup Missed, Begin(w, j),
         ~j.raced, j.read = row[j.listing], j.step = "missed" => j.read # NoRow
  PROVE  Inv'
<1>1. UNCHANGED <<row, walk, now, said, lost, sure>> /\ writes' \in Nat
      /\ job' = [job EXCEPT ![w] = j]
  BY DEF Begin, history, Inv, TypeOK
<1>2. TypeOK'
  BY <1>1 DEF Inv, TypeOK
<1>3. j.read # NoRow => j.read.evidence = ExtractAll(j.read.text)
  <2>1. j.listing \in Listings
    BY JobFacts
  <2> QED
    BY <2>1 DEF Inv, EvidenceInv, Listed
<1>4. JobInv'
  <2> SUFFICES ASSUME NEW v \in Writers, job'[v] # Idle
               PROVE  LET i == job'[v] IN
                        /\ i.read # NoRow => row'[i.listing] # NoRow
                        /\ i.raced \/ i.read = row'[i.listing]
                        /\ i.step = "missed" => i.read # NoRow
                        /\ i.read # NoRow => i.read.evidence = ExtractAll(i.read.text)
    BY DEF JobInv
  <2>1. CASE v = w
    BY <1>1, <1>3, <2>1 DEF Inv, TypeOK
  <2>2. CASE v # w
    BY <1>1, <2>2 DEF Inv, TypeOK, JobInv
  <2> QED
    BY <2>1, <2>2
<1>5. EvidenceInv' /\ RowSaysLatest'
  BY <1>1 DEF Inv, EvidenceInv, Listed, RowSaysLatest, Column
<1> QED
  BY <1>2, <1>4, <1>5 DEF Inv

LEMMA ReadStep ==
  ASSUME Inv,
         \/ UNCHANGED vars \/ Tick \/ NextPage \/ PrevPage
         \/ \E f \in Filters, n \in Asked : Search(f, n)
         \/ \E w \in Writers : SaveFails(w)
  PROVE  Inv'
<1>1. /\ UNCHANGED <<row, said, lost>>
      /\ \A v \in Writers : job'[v] \in {job[v], Idle}
  BY DEF vars, history, Tick, NextPage, PrevPage, Search, SaveFails, Inv, TypeOK
<1>2. \A f \in Filter, n \in Int, o \in Nat, S \in SUBSET Listings :
        Turn(f, n, o, S) => walk' \in [filter: Filter, limit: Nat \ {0}, offset: Nat, more: BOOLEAN,
                                      shown: SUBSET Listings]
  <2> SUFFICES ASSUME NEW f \in Filter, NEW n \in Int, NEW o \in Nat, NEW S \in SUBSET Listings,
                      Turn(f, n, o, S)
               PROVE  walk' \in [filter: Filter, limit: Nat \ {0}, offset: Nat, more: BOOLEAN,
                                shown: SUBSET Listings]
    OBVIOUS
  <2>1. PICK page \in Results(f, LimitOf(n), o) :
          walk' = [filter |-> f, limit |-> LimitOf(n), offset |-> o,
                   more |-> Cardinality(page) = LimitOf(n), shown |-> S \cup page]
    BY DEF Turn
  <2>2. page \subseteq Listings
    <3>1. PICK p \in Orders(Matching(row, f)) :
            page = {p[i] : i \in {k \in DOMAIN p : o < k /\ k <= o + LimitOf(n)}}
      BY DEF Results
    <3>2. p \in [1..Cardinality(Matching(row, f)) -> Matching(row, f)]
      BY DEF Orders
    <3> QED
      BY <3>1, <3>2 DEF Matching
  <2>3. LimitOf(n) \in Nat \ {0}
    BY CatalogAssumption DEF LimitOf
  <2> QED
    BY <2>1, <2>2, <2>3
<1>3. TypeOK'
  <2>1. CASE UNCHANGED vars \/ Tick \/ \E w \in Writers : SaveFails(w)
    BY <2>1 DEF vars, history, Tick, SaveFails, Inv, TypeOK
  <2>2. CASE NextPage
    <3>1. /\ walk.filter \in Filter /\ walk.limit \in Int /\ walk.offset + walk.limit \in Nat
          /\ walk.shown \in SUBSET Listings
      BY DEF Inv, TypeOK
    <3> QED
      BY <1>2, <2>2, <3>1 DEF NextPage, Inv, TypeOK, history
  <2>4. CASE PrevPage
    <3> DEFINE o == IF walk.offset < walk.limit THEN 0 ELSE walk.offset - walk.limit
    <3>1. walk.filter \in Filter /\ walk.limit \in Int /\ o \in Nat /\ walk.shown \in SUBSET Listings
      BY DEF Inv, TypeOK
    <3>2. Turn(walk.filter, walk.limit, o, walk.shown)
      BY <2>4 DEF PrevPage
    <3> HIDE DEF o
    <3> QED
      BY <1>2, <2>4, <3>1, <3>2 DEF PrevPage, Inv, TypeOK, history
  <2>3. ASSUME NEW f \in Filters, NEW n \in Asked, Search(f, n)
        PROVE  TypeOK'
    <3>1. f \in Filter /\ n \in Int
      BY CatalogAssumption
    <3>2. sure' \subseteq Listings
      BY <2>3 DEF Search, Alone, Matching
    <3> QED
      BY <1>2, <2>3, <3>1, <3>2 DEF Search, Inv, TypeOK, history
  <2> QED
    BY <2>1, <2>2, <2>3, <2>4
<1>4. JobInv' /\ EvidenceInv' /\ RowSaysLatest'
  BY <1>1 DEF Inv, JobInv, EvidenceInv, Listed, RowSaysLatest, Column
<1> QED
  BY <1>3, <1>4 DEF Inv

LEMMA InvStep == Inv /\ [Next]_vars => Inv'
<1> SUFFICES ASSUME Inv, [Next]_vars PROVE Inv'
  OBVIOUS
<1>1. ASSUME NEW w \in Writers, NEW l \in Listings, NEW page \in Pages, StartUpsert(w, l, page)
      PROVE  Inv'
  <2> DEFINE j == [step |-> "upsert", listing |-> l, page |-> page, read |-> row[l], at |-> now,
                   raced |-> FALSE]
  <2>1. j \in Upsert
    BY DEF Inv, TypeOK, Upsert
  <2>2. Begin(w, j)
    BY <1>1 DEF StartUpsert
  <2>3. ~j.raced /\ j.read = row[j.listing] /\ j.step = "upsert"
    OBVIOUS
  <2> HIDE DEF j
  <2> QED
    BY <2>1, <2>2, <2>3, BeginStep
<1>2. ASSUME NEW l \in Listings, StartMissedRun(l)
      PROVE  Inv'
  <2> DEFINE j == [step |-> "missed", listing |-> l, read |-> row[l], raced |-> FALSE]
  <2>1. j \in Missed
    BY DEF Inv, TypeOK, Missed
  <2>2. Begin("scraper", j) /\ "scraper" \in Writers
    BY <1>2 DEF StartMissedRun, Writers
  <2>3. ~j.raced /\ j.read = row[j.listing] /\ j.read # NoRow
    BY <1>2 DEF StartMissedRun, Listed
  <2> HIDE DEF j
  <2> QED
    BY <2>1, <2>2, <2>3, BeginStep
<1>3. ASSUME NEW w \in Writers, CreateListing(w) \/ UpdateListing(w) \/ UpdateMissed(w)
      PROVE  Inv'
  BY <1>3, Writes, UpsertStep, MissedStep DEF Inv
<1> QED
  BY <1>1, <1>2, <1>3, ReadStep DEF Next

(* Every variable keeps its type, and a job knows the row it writes.       *)
THEOREM TypeCorrect == Spec => [](TypeOK /\ JobInv)
<1>1. Inv => TypeOK /\ JobInv
  BY DEF Inv
<1> QED
  BY InvInit, InvStep, <1>1, PTL DEF Spec

(* Each column of each row is the last word of the pages written into it,  *)
(* however many backfills write the rows the scraper writes, but for the   *)
(* columns carried over another's write.                                   *)
THEOREM RowsCorrect == Spec => []RowSaysLatest
<1>1. Inv => RowSaysLatest
  BY DEF Inv
<1> QED
  BY InvInit, InvStep, <1>1, PTL DEF Spec

(* The evidence of a row is that of its text, and coherent.                *)
THEOREM EvidenceCorrect == Spec => []EvidenceIsCoherent
<1>1. Inv => EvidenceIsCoherent
  <2> SUFFICES ASSUME Inv, NEW l \in Listed
               PROVE  LET r == row[l] IN
                        /\ r.evidence = ExtractAll(r.text)
                        /\ r.evidence["off_grid"] = "true" /\ r.evidence["power"] = "true" =>
                             "no utilities" \in r.text
    BY DEF EvidenceIsCoherent
  <2>1. row[l].evidence = ExtractAll(row[l].text)
    BY DEF Inv, EvidenceInv
  <2>2. row[l].text \in SUBSET Phrases
    BY RowFacts DEF Inv, TypeOK, Listed
  <2> QED
    BY <2>1, <2>2, Coherence
<1> QED
  BY InvInit, InvStep, <1>1, PTL DEF Spec

-----------------------------------------------------------------------------
(* The rows before l in the results of a filter.                           *)
Ahead(f, l) == {k \in Matching(row, f) : row[k].firstSeen > row[l].firstSeen}

(* What the walk has not shown of what it must show lies on a later page.  *)
WalkInv ==
  \A l \in sure \ walk.shown :
    /\ walk.more
    /\ l \in Alone(row, Matching(row, walk.filter))
    /\ Cardinality(Ahead(walk.filter, l)) >= walk.offset + walk.limit

LEMMA MatchingFacts ==
  ASSUME TypeOK, NEW f
  PROVE  /\ IsFiniteSet(Matching(row, f)) /\ Cardinality(Matching(row, f)) \in Nat
         /\ Matching(row, f) \subseteq Listings
         /\ \A k \in Matching(row, f) : row[k].firstSeen \in Nat
         /\ \A l : IsFiniteSet(Ahead(f, l)) /\ Cardinality(Ahead(f, l)) \in Nat
<1>1. Matching(row, f) \in SUBSET Listings
  BY DEF Matching
<1>2. IsFiniteSet(Matching(row, f))
  BY <1>1, FS_Subset, CatalogAssumption
<1>3. \A l : Ahead(f, l) \in SUBSET Matching(row, f)
  BY DEF Ahead
<1>4. \A l : IsFiniteSet(Ahead(f, l))
  BY <1>2, <1>3, FS_Subset
<1>5. \A k \in Matching(row, f) : row[k] \in Row /\ row[k] # NoRow
  BY DEF Matching, Passes, TypeOK
<1> QED
  BY <1>1, <1>2, <1>4, <1>5, FS_CardinalityType, RowFacts

(* An order of the results is one to one; the rows before one that is      *)
(* alone with its moment are those ahead of it.                            *)
LEMMA Position ==
  ASSUME TypeOK, NEW f, NEW o \in Orders(Matching(row, f)),
         NEW l \in Alone(row, Matching(row, f))
  PROVE  \E p \in 1..Cardinality(Matching(row, f)) :
           o[p] = l /\ Cardinality(Ahead(f, l)) = p - 1
<1> DEFINE M == Matching(row, f)
           n == Cardinality(M)
<1>1. /\ IsFiniteSet(M) /\ n \in Nat /\ l \in M
      /\ \A k \in M : row[k].firstSeen \in Nat
      /\ \A k \in M \ {l} : row[k].firstSeen # row[l].firstSeen
  BY MatchingFacts DEF Alone
<1>2. /\ o \in [1..n -> M]
      /\ \A i, j \in 1..n : i < j => o[i] # o[j] /\ row[o[i]].firstSeen >= row[o[j]].firstSeen
  BY DEF Orders
<1>8. Ahead(f, l) = {k \in M : row[k].firstSeen > row[l].firstSeen}
  BY DEF Ahead
<1> HIDE DEF M, n
<1>3. \A i, j \in 1..n : o[i] = o[j] => i = j
  BY <1>1, <1>2
<1>4. o \in Injection(1..n, M)
  BY <1>2, <1>3 DEF Injection, IsInjective
<1>5. IsFiniteSet(1..n) /\ Cardinality(1..n) = n
  BY <1>1, FS_Interval
<1>6. o \in Surjection(1..n, M)
  BY <1>1, <1>4, <1>5, FS_Injection DEF n
<1>7. PICK p \in 1..n : o[p] = l
  BY <1>1, <1>6 DEF Surjection
<1>9. p \in Nat /\ p >= 1 /\ p <= n
  BY <1>1
<1> DEFINE before == [i \in 1..(p - 1) |-> o[i]]
<1>10. \A i \in 1..(p - 1) : i \in 1..n /\ o[i] \in Ahead(f, l)
  <2> SUFFICES ASSUME NEW i \in 1..(p - 1)
               PROVE  i \in 1..n /\ o[i] \in Ahead(f, l)
    OBVIOUS
  <2>1. i \in 1..n /\ i < p
    BY <1>1, <1>9
  <2>2. o[i] # l /\ o[i] \in M /\ row[o[i]].firstSeen >= row[l].firstSeen
    BY <1>2, <1>7, <2>1
  <2>3. row[o[i]].firstSeen # row[l].firstSeen
    BY <1>1, <2>2
  <2> QED
    BY <1>1, <1>8, <2>1, <2>2, <2>3
<1>11. \A k \in Ahead(f, l) : \E i \in 1..(p - 1) : o[i] = k
  <2> SUFFICES ASSUME NEW k \in Ahead(f, l)
               PROVE  \E i \in 1..(p - 1) : o[i] = k
    OBVIOUS
  <2>1. k \in M /\ row[k].firstSeen > row[l].firstSeen
    BY <1>8
  <2>2. PICK i \in 1..n : o[i] = k
    BY <1>6, <2>1 DEF Surjection
  <2>3. i # p
    BY <1>1, <1>7, <2>1, <2>2
  <2>4. ~(p < i)
    BY <1>1, <1>2, <1>7, <2>1, <2>2
  <2>5. i \in 1..(p - 1)
    BY <1>1, <1>9, <2>3, <2>4
  <2> QED
    BY <2>2, <2>5
<1>12. before \in Bijection(1..(p - 1), Ahead(f, l))
  <2>1. before \in [1..(p - 1) -> Ahead(f, l)]
    BY <1>10
  <2>2. before \in Injection(1..(p - 1), Ahead(f, l))
    BY <1>3, <1>10, <2>1 DEF Injection, IsInjective
  <2>3. before \in Surjection(1..(p - 1), Ahead(f, l))
    BY <1>11, <2>1 DEF Surjection
  <2> QED
    BY <2>2, <2>3 DEF Bijection
<1>13. Cardinality(Ahead(f, l)) = p - 1
  <2>1. IsFiniteSet(1..(p - 1)) /\ Cardinality(1..(p - 1)) = p - 1
    BY <1>9, FS_Interval
  <2>2. ExistsBijection(1..(p - 1), Ahead(f, l))
    BY <1>12 DEF ExistsBijection
  <2> QED
    BY <2>1, <2>2, FS_Bijection
<1> QED
  BY <1>7, <1>13 DEF n, M

(* A page with rows enough before its end is full.                         *)
LEMMA FullPage ==
  ASSUME TypeOK, NEW f, NEW o \in Orders(Matching(row, f)), NEW off \in Nat, NEW lim \in Nat,
         off + lim <= Cardinality(Matching(row, f))
  PROVE  Cardinality({o[i] : i \in {k \in DOMAIN o : off < k /\ k <= off + lim}}) = lim
<1> DEFINE M == Matching(row, f)
           n == Cardinality(M)
           page == {o[i] : i \in {k \in DOMAIN o : off < k /\ k <= off + lim}}
           I == (off + 1)..(off + lim)
           g == [i \in I |-> o[i]]
<1>1. /\ n \in Nat /\ o \in [1..n -> M]
      /\ \A i, j \in 1..n : i < j => o[i] # o[j]
  BY MatchingFacts DEF Orders
<1>2. \A i : i \in I <=> i \in DOMAIN o /\ off < i /\ i <= off + lim
  BY <1>1
<1>3. page = {o[i] : i \in I}
  BY <1>2
<1>4. I \subseteq 1..n
  BY <1>1
<1> HIDE DEF I, n, M
<1>5. \A i, j \in I : o[i] = o[j] => i = j
  BY <1>1, <1>4
<1> HIDE DEF page
<1>6. g \in [I -> page]
  BY <1>3
<1>7. g \in Injection(I, page)
  BY <1>5, <1>6 DEF Injection, IsInjective
<1>8. g \in Surjection(I, page)
  BY <1>3, <1>6 DEF Surjection
<1>9. ExistsBijection(I, page)
  BY <1>7, <1>8 DEF Bijection, ExistsBijection
<1>10. IsFiniteSet(I) /\ Cardinality(I) = lim
  <2>1. IsFiniteSet(I) /\ Cardinality(I) = IF off + 1 > off + lim THEN 0
                                          ELSE (off + lim) - (off + 1) + 1
    BY FS_Interval DEF I
  <2> QED
    BY <2>1
<1>11. Cardinality(page) = lim
  BY <1>9, <1>10, FS_Bijection
<1> QED
  BY <1>11 DEF page

(* A page from offset on shows a listing that is not ahead of it, or the   *)
(* listing is on a later one.                                              *)
LEMMA TurnShows ==
  ASSUME TypeOK, NEW f \in Filter, NEW n \in Int, NEW off \in Nat, NEW S, Turn(f, n, off, S),
         NEW l \in Alone(row, Matching(row, f)), Cardinality(Ahead(f, l)) >= off
  PROVE  /\ walk'.filter = f
         /\ \/ l \in walk'.shown
            \/ walk'.more /\ Cardinality(Ahead(f, l)) >= walk'.offset + walk'.limit
<1>1. PICK page \in Results(f, LimitOf(n), off) :
        walk' = [filter |-> f, limit |-> LimitOf(n), offset |-> off,
                 more |-> Cardinality(page) = LimitOf(n), shown |-> S \cup page]
  BY DEF Turn
<1> DEFINE lim == LimitOf(n)
<1>2. lim \in Nat
  BY CatalogAssumption DEF LimitOf
<1> HIDE DEF lim
<1>3. PICK o \in Orders(Matching(row, f)) :
        page = {o[i] : i \in {k \in DOMAIN o : off < k /\ k <= off + lim}}
  BY DEF Results, lim
<1>4. PICK p \in 1..Cardinality(Matching(row, f)) :
        o[p] = l /\ Cardinality(Ahead(f, l)) = p - 1
  BY Position
<1>5. Cardinality(Matching(row, f)) \in Nat /\ p \in DOMAIN o /\ p \in Nat /\ off < p
  BY <1>4, MatchingFacts DEF Orders
<1>6. CASE p <= off + lim
  <2>1. l \in page
    BY <1>3, <1>4, <1>5, <1>6
  <2> QED
    BY <1>1, <2>1
<1>7. CASE ~(p <= off + lim)
  <2>1. Cardinality(page) = lim
    BY <1>2, <1>3, <1>5, <1>7, FullPage
  <2>2. Cardinality(Ahead(f, l)) >= off + lim
    BY <1>2, <1>4, <1>5, <1>7
  <2> QED
    BY <1>1, <2>1, <2>2 DEF lim
<1> QED
  BY <1>6, <1>7

(* A write of a row first seen when it was, or of a new one, moves no      *)
(* listing up that the walk must still show.                               *)
LEMMA WriteWalks ==
  ASSUME TypeOK, WalkInv, NEW w \in Writers, NEW l \in Listings, NEW r \in Row, Write(w, l, r),
         TypeOK', row[l] # NoRow => r.firstSeen = row[l].firstSeen
  PROVE  WalkInv'
<1>1. /\ row'[l] = r /\ \A k \in Listings \ {l} : row'[k] = row[k]
      /\ UNCHANGED walk
  BY WriteTypes
<1> DEFINE f == walk.filter
           left == {k \in Matching(row, f) : k = l /\ ~Passes(r, f)}
<1>2. sure' = {k \in sure : /\ k \in Alone(row', Matching(row', f))
                            /\ \A m \in left : row[m].firstSeen < row[k].firstSeen}
  BY <1>1 DEF Write
<1> SUFFICES ASSUME NEW k \in sure', k \notin walk.shown
             PROVE  /\ walk.more /\ k \in Alone(row', Matching(row', f))
                    /\ Cardinality(Ahead(f, k)') >= walk.offset + walk.limit
  BY <1>1 DEF WalkInv
<1>3. /\ k \in sure /\ k \in Alone(row', Matching(row', f))
      /\ \A m \in left : row[m].firstSeen < row[k].firstSeen
  BY <1>2
<1>4. /\ walk.more /\ k \in Alone(row, Matching(row, f))
      /\ Cardinality(Ahead(f, k)) >= walk.offset + walk.limit
  BY <1>3 DEF WalkInv
<1>5. k \in Matching(row, f) /\ k \in Listings /\ row[k] # NoRow /\ row'[k].firstSeen = row[k].firstSeen
  BY <1>1, <1>4 DEF Alone, Matching, Passes
<1>6. Ahead(f, k) \subseteq Ahead(f, k)'
  <2> SUFFICES ASSUME NEW m \in Ahead(f, k)
               PROVE  m \in Ahead(f, k)'
    OBVIOUS
  <2>1. m \in Matching(row, f) /\ row[m].firstSeen > row[k].firstSeen /\ m \in Listings
    BY DEF Ahead, Matching
  <2>2. row[m].firstSeen \in Nat /\ row[k].firstSeen \in Nat
    BY <1>5, <2>1, MatchingFacts
  <2>3. m \notin left
    BY <1>3, <2>1, <2>2
  <2>4. row'[m].firstSeen = row[m].firstSeen
    BY <1>1, <2>1 DEF Matching, Passes
  <2>5. m \in Matching(row', f)
    BY <1>1, <2>1, <2>3 DEF Matching
  <2> QED
    BY <1>1, <1>5, <2>1, <2>4, <2>5 DEF Ahead
<1>7. IsFiniteSet(Ahead(f, k)') /\ Cardinality(Ahead(f, k)') \in Nat
  <2>1. Ahead(f, k)' \in SUBSET Listings
    BY DEF Ahead, Matching
  <2> QED
    BY <2>1, CatalogAssumption, FS_Subset, FS_CardinalityType
<1>8. Cardinality(Ahead(f, k)) <= Cardinality(Ahead(f, k)')
  BY <1>6, <1>7, FS_Subset
<1>9. walk.offset \in Nat /\ walk.limit \in Nat /\ Cardinality(Ahead(f, k)) \in Nat
  BY MatchingFacts DEF TypeOK
<1> QED
  BY <1>3, <1>4, <1>7, <1>8, <1>9

LEMMA WalkStep ==
  ASSUME Inv, WalkInv, [Next]_vars
  PROVE  WalkInv'
<1>1. ASSUME UNCHANGED <<row, walk, sure>>
      PROVE  WalkInv'
  BY <1>1 DEF WalkInv, Ahead, Matching, Alone
<1>2. TypeOK'
  BY InvStep DEF Inv
<1>3. CASE \/ UNCHANGED vars \/ Tick
           \/ \E w \in Writers : SaveFails(w)
           \/ \E w \in Writers, l \in Listings, page \in Pages : StartUpsert(w, l, page)
           \/ \E l \in Listings : StartMissedRun(l)
  BY <1>1, <1>3 DEF vars, Tick, SaveFails, StartUpsert, StartMissedRun, Begin
<1>4. ASSUME NEW f \in Filters, NEW n \in Asked, Search(f, n)
      PROVE  WalkInv'
  <2>1. f \in Filter /\ n \in Int /\ Turn(f, n, 0, {}) /\ UNCHANGED row
        /\ sure' = Alone(row, Matching(row, f))
    BY <1>4, CatalogAssumption DEF Search
  <2>2. \A l \in sure' \ walk'.shown :
          /\ walk'.filter = f /\ walk'.more
          /\ Cardinality(Ahead(f, l)) >= walk'.offset + walk'.limit
    BY <2>1, TurnShows, MatchingFacts DEF Inv
  <2> QED
    BY <2>1, <2>2 DEF WalkInv, Ahead
<1>5. ASSUME NEW off \in Nat, off <= walk.offset + walk.limit,
             Turn(walk.filter, walk.limit, off, walk.shown), UNCHANGED <<row, sure>>
      PROVE  WalkInv'
  <2>1. walk.filter \in Filter /\ walk.limit \in Int /\ walk.offset \in Nat
    BY DEF Inv, TypeOK
  <2>2. walk.shown \subseteq walk'.shown
    BY <1>5 DEF Turn
  <2>3. \A l \in sure' \ walk'.shown :
          /\ l \in Alone(row, Matching(row, walk.filter))
          /\ walk'.filter = walk.filter /\ walk'.more
          /\ Cardinality(Ahead(walk.filter, l)) >= walk'.offset + walk'.limit
    <3> SUFFICES ASSUME NEW l \in sure' \ walk'.shown
                 PROVE  /\ l \in Alone(row, Matching(row, walk.filter))
                        /\ walk'.filter = walk.filter /\ walk'.more
                        /\ Cardinality(Ahead(walk.filter, l)) >= walk'.offset + walk'.limit
      OBVIOUS
    <3>1. /\ l \in Alone(row, Matching(row, walk.filter))
          /\ Cardinality(Ahead(walk.filter, l)) >= walk.offset + walk.limit
          /\ Cardinality(Ahead(walk.filter, l)) \in Nat
      BY <1>5, <2>2, MatchingFacts DEF WalkInv, Inv
    <3>2. Cardinality(Ahead(walk.filter, l)) >= off
      BY <1>5, <2>1, <3>1
    <3> QED
      BY <1>5, <2>1, <3>1, <3>2, TurnShows DEF Inv
  <2> QED
    BY <1>5, <2>3 DEF WalkInv, Ahead
<1>6. CASE NextPage
  <2>1. walk.offset + walk.limit \in Nat
    BY DEF Inv, TypeOK
  <2> QED
    BY <1>5, <1>6, <2>1 DEF NextPage
<1>7. CASE PrevPage
  <2> DEFINE o == IF walk.offset < walk.limit THEN 0 ELSE walk.offset - walk.limit
  <2>1. o \in Nat /\ o <= walk.offset + walk.limit
    BY DEF Inv, TypeOK
  <2>2. Turn(walk.filter, walk.limit, o, walk.shown) /\ UNCHANGED <<row, sure>>
    BY <1>7 DEF PrevPage
  <2> HIDE DEF o
  <2> QED
    BY <1>5, <2>1, <2>2
<1>8. ASSUME NEW w \in Writers, CreateListing(w) \/ UpdateListing(w)
      PROVE  WalkInv'
  <2> DEFINE j == job[w]
             l == j.listing
  <2>1. job[w] \in Upsert
    BY <1>8, Writes DEF Inv, UpsertWrite
  <2>2. l \in Listings /\ j.read \in Row /\ j.page \in Page /\ j.at \in Nat
    BY <2>1, CatalogAssumption, JobFacts DEF Upsert
  <2>3. \E t \in Nat : /\ Write(w, l, Parsed(j.read, j.page, t))
                       /\ row[l] # NoRow => t = row[l].firstSeen
    <3>1. CASE CreateListing(w)
      BY <2>2, <3>1 DEF CreateListing, Parsed, UpsertWrite
    <3>2. CASE UpdateListing(w)
      <4>1. row[l].firstSeen \in Nat
        BY <2>2, <3>2, Writes, RowFacts DEF Inv, TypeOK
      <4> QED
        BY <3>2, <4>1 DEF UpdateListing
    <3> QED
      BY <1>8, <3>1, <3>2
  <2> HIDE DEF j, l
  <2> QED
    BY <1>2, <2>2, <2>3, ParsedRow, WriteWalks DEF Inv
<1>9. ASSUME NEW w \in Writers, UpdateMissed(w)
      PROVE  WalkInv'
  <2> DEFINE j == job[w]
             l == j.listing
  <2>1. job[w] \in Missed
    BY <1>9, Writes DEF Inv, MissedWrite
  <2>2. l \in Listings /\ j.read \in Row /\ j.read # NoRow
    BY <2>1, JobFacts DEF Inv, JobInv, Missed
  <2>3. row[l].firstSeen \in Nat
    BY <1>9, <2>2, Writes, RowFacts DEF Inv, TypeOK
  <2>4. Write(w, l, [j.read EXCEPT !.firstSeen = row[l].firstSeen])
    BY <1>9 DEF UpdateMissed
  <2> HIDE DEF j, l
  <2>5. \A t \in Nat : /\ [j.read EXCEPT !.firstSeen = t] \in Row
                       /\ [j.read EXCEPT !.firstSeen = t].firstSeen = t
    BY <2>2 DEF Row
  <2> QED
    BY <1>2, <2>2, <2>3, <2>4, <2>5, WriteWalks DEF Inv
<1> QED
  BY <1>3, <1>4, <1>6, <1>7, <1>8, <1>9 DEF Next

(* Whoever follows the links to the last page has seen what passed his     *)
(* filter all along: for any number of listings, any limits, and whatever  *)
(* the scraper and the backfills write between two of his pages.           *)
THEOREM BrowsingCorrect == Spec => []BrowseShowsAll
<1>1. Init => WalkInv
  BY DEF Init, WalkInv
<1>2. Inv /\ WalkInv /\ [Next]_vars => WalkInv'
  BY WalkStep
<1>3. WalkInv => BrowseShowsAll
  BY DEF WalkInv, BrowseShowsAll
<1> QED
  BY InvInit, InvStep, <1>1, <1>2, <1>3, PTL DEF Spec
=============================================================================
