---------------------------- MODULE SourcesProofs ----------------------------
(***************************************************************************)
(* Proofs about Sources, for any listings, users and edits, any thresholds *)
(* and width of a column, and any calls that fail.                         *)
(***************************************************************************)
EXTENDS Sources, FiniteSetTheorems, TLAPS

Fading == {"active", "stale", "presumed_inactive"}

(* A row that has none of the closed statuses: in this module no page      *)
(* reports a sale.                                                         *)
RowInv ==
  \A i \in IDs :
    /\ listing[i].status \in Fading \/ listing[i] = Rules!NoListing
    /\ listing[i].lastSeen <= start

(* What an update has read is the row itself, unless another update has    *)
(* been written since.                                                     *)
ReadInv == \A u \in saving : post[u].raced \/ post[u].read = row

(* A run has read what was asked for.                                      *)
PromiseInv ==
  pc # "idle" => \A c \in Columns \ promised.lost : cfg[c] = Stored(c, promised.cfg[c])

-----------------------------------------------------------------------------
(* Numbers in a column.                                                    *)
LEMMA Modulus ==
  ASSUME NEW n \in Nat \ {0}, NEW x \in Int
  PROVE  /\ x % n \in 0..(n - 1)
         /\ x \in 0..(n - 1) => x % n = x
OBVIOUS

LEMMA StoredFacts ==
  ASSUME NEW c \in Columns, NEW v \in Int
  PROVE  /\ Stored(c, v) \in Int
         /\ Stored(c, Stored(c, v)) = Stored(c, v)
         /\ v \in -HalfRange..(HalfRange - 1) => Stored(c, v) = v
<1>1. HalfRange \in Nat \ {0}
  BY SourcesAssumption
<1> DEFINE n == 2 * HalfRange
           x == v + HalfRange
           m == x % n
<1>2. n \in Nat \ {0} /\ x \in Int
  BY <1>1
<1>3. \A y : Stored(c, y) = IF c = "ratio" THEN y ELSE ((y + HalfRange) % n) - HalfRange
  BY DEF Stored
<1>4. v \in -HalfRange..(HalfRange - 1) => x \in 0..(n - 1)
  BY <1>1
<1>5. m - HalfRange + HalfRange = m /\ x - HalfRange = v /\ n - 1 \in Nat
  <2>1. m \in 0..(n - 1)
    <3> HIDE DEF n, x
    <3> QED
      BY <1>2, Modulus
  <2> HIDE DEF m
  <2> QED
    BY <1>1, <2>1
<1> HIDE DEF n, x
<1>6. m \in 0..(n - 1)
  BY <1>2, Modulus
<1>7. m % n = m
  <2> HIDE DEF m
  <2>1. m \in Int
    BY <1>5, <1>6
  <2> QED
    BY <1>2, <1>6, <2>1, Modulus
<1>8. x \in 0..(n - 1) => m = x
  BY <1>2, Modulus
<1>9. Stored(c, v) = IF c = "ratio" THEN v ELSE m - HalfRange
  BY <1>3 DEF x
<1> HIDE DEF m
<1>10. m \in Int
  BY <1>2, <1>6
<1> QED
  BY <1>1, <1>3, <1>4, <1>5, <1>7, <1>8, <1>9, <1>10

-----------------------------------------------------------------------------
(* What the rules do to one listing row, under any thresholds.             *)
LEMMA SeenRow ==
  ASSUME NEW l \in Rules!Listing, NEW t \in Nat,
         l.status \in Fading \/ l = Rules!NoListing
  PROVE  Rules!Upserted(l, "listed", t) = [status |-> "active", misses |-> 0, lastSeen |-> t]
<1>1. l = Rules!NoListing => ~Rules!IsListed(l)
  BY DEF Rules!NoListing, Rules!IsListed
<1>2. l.status \in Fading => Rules!DerivedStatus(l.status, "listed") = "active"
  BY DEF Fading, Rules!DerivedStatus, Rules!Gone
<1> QED
  BY <1>1, <1>2 DEF Rules!Upserted, Fading, Rules!IsListed

LEMMA MissedRow ==
  ASSUME NEW c \in Config, NEW l \in Rules!Listing, NEW h \in BOOLEAN, NEW t \in Nat,
         l.status \in Fading,
         NEW u, u = Under(c)!Missed(l, h, t)
  PROVE  /\ u \in Rules!Listing
         /\ u.status \in Fading /\ u.misses = l.misses + 1 /\ u.lastSeen = l.lastSeen
         /\ u.status # l.status =>
              /\ h /\ u.misses >= c["misses"]
              /\ \/ u.status = "stale" /\ l.status = "active" /\ t - l.lastSeen >= c["stale"]
                 \/ u.status = "presumed_inactive" /\ t - l.lastSeen >= c["inactive"]
<1> DEFINE n == l.misses + 1
           d == t - l.lastSeen
           st == Under(c)!MissedStatus(l.status, n, h, d)
<1>1. l.misses \in Nat /\ l.lastSeen \in Nat /\ n \in Nat /\ d \in Int
  BY DEF Rules!Listing
<1>2. c["misses"] \in Int /\ c["stale"] \in Int /\ c["inactive"] \in Int
  BY DEF Config, Columns
<1>3. u = [status |-> st, misses |-> n, lastSeen |-> l.lastSeen]
  BY DEF Under!Missed, Under!Terminal, Fading
<1>4. st = IF h /\ n >= c["misses"] /\ l.status \in {"active", "stale"}
           THEN IF d >= c["inactive"] THEN "presumed_inactive"
                ELSE IF d >= c["stale"] THEN "stale" ELSE l.status
           ELSE l.status
  <2> HIDE DEF n, d
  <2>1. d >= c["inactive"] \/ d < c["inactive"]
    BY <1>1, <1>2
  <2>2. ~(d >= c["inactive"] /\ d < c["inactive"])
    BY <1>1, <1>2
  <2> QED
    BY <2>1, <2>2 DEF Under!MissedStatus, Under!Live
<1> HIDE DEF n, d, st
<1>5. st \in Fading
  BY <1>4 DEF Fading
<1>6. u \in Rules!Listing
  BY <1>1, <1>3, <1>5 DEF Rules!Listing, Rules!Statuses, Fading
<1>7. u.status = st /\ u.misses = n /\ u.lastSeen = l.lastSeen
  BY <1>3
<1>8. n = l.misses + 1 /\ d = t - l.lastSeen
  BY DEF n, d
<1>9. st # l.status =>
        /\ h /\ n >= c["misses"]
        /\ \/ st = "stale" /\ l.status = "active" /\ d >= c["stale"]
           \/ st = "presumed_inactive" /\ d >= c["inactive"]
  BY <1>4
<1> QED
  BY <1>5, <1>6, <1>7, <1>8, <1>9

-----------------------------------------------------------------------------
(* What a form and the filled row are made of.                             *)
LEMMA FormTypes ==
  ASSUME NEW e \in Edit, NEW r \in Row
  PROVE  FormOf(e, r) \in Form
BY DEF FormOf, Form, Edit, Row, Config

LEMMA FilledTypes ==
  ASSUME NEW f \in Form, NEW r \in Row
  PROVE  /\ Filled(f, r) \in Row
         /\ InColumns(Filled(f, r)) \in Row
         /\ Filled(f, r).enabled = f.enabled
         /\ InColumns(Filled(f, r)).enabled = f.enabled
         /\ \A c \in Columns :
              /\ Filled(f, r).cfg[c] = IF c \in f.given THEN f.cfg[c] ELSE r.cfg[c]
              /\ InColumns(Filled(f, r)).cfg[c] = Stored(c, Filled(f, r).cfg[c])
<1>1. \A c \in Columns : f.cfg[c] \in Int /\ r.cfg[c] \in Int
  BY DEF Form, Row, Config
<1>2. /\ Filled(f, r) \in Row
      /\ Filled(f, r).enabled = f.enabled
      /\ \A c \in Columns : Filled(f, r).cfg[c] = IF c \in f.given THEN f.cfg[c] ELSE r.cfg[c]
  BY <1>1 DEF Filled, Row, Config, Form
<1>3. \A c \in Columns : Stored(c, Filled(f, r).cfg[c]) \in Int
  BY <1>2, StoredFacts DEF Row, Config
<1> QED
  BY <1>2, <1>3 DEF InColumns, Row, Config

LEMMA TypeInit == Init => TypeOK /\ RowInv /\ ReadInv /\ PromiseInv /\ FormsWin
<1> SUFFICES ASSUME Init PROVE TypeOK /\ RowInv /\ ReadInv /\ PromiseInv /\ FormsWin
  OBVIOUS
<1>0. FirstRow \in Row /\ FirstRow.cfg \in Config
  BY SourcesAssumption DEF Row
<1>1. /\ InColumns(FirstRow) \in Row
      /\ InColumns(FirstRow).enabled = FirstRow.enabled
      /\ \A c \in Columns : InColumns(FirstRow).cfg[c] = Stored(c, FirstRow.cfg[c])
  <2>1. \A c \in Columns : Stored(c, FirstRow.cfg[c]) \in Int
    BY <1>0, StoredFacts DEF Row, Config
  <2> QED
    BY <1>0, <2>1 DEF InColumns, Row, Config
<1>2. TypeOK
  <2>1. Rules!NoListing \in Rules!Listing
    BY DEF Rules!NoListing, Rules!Listing
  <2>2. NoPost \in Post
    BY <1>0 DEF NoPost, Post, NoForm, Form
  <2> QED
    BY <1>0, <1>1, <2>1, <2>2 DEF Init, TypeOK, NoCount
<1>3. RowInv /\ ReadInv /\ PromiseInv
  BY DEF Init, RowInv, ReadInv, PromiseInv, Rules!NoListing
<1>4. FormsWin
  BY <1>1 DEF Init, FormsWin
<1> QED
  BY <1>2, <1>3, <1>4

(* The steps that write a listing row.                                     *)
See(i) ==
  /\ i \in IDs
  /\ listing' = [listing EXCEPT ![i] = Rules!Upserted(@, "listed", start)]
Miss(i) ==
  /\ i \in IDs /\ pc = "fetch" /\ Rules!IsListed(listing[i])
  /\ listing' = [listing EXCEPT ![i] = Under(cfg)!Missed(@, Healthy, start)]

LEMMA ListingMoves ==
  ASSUME TypeOK, [Next]_vars
  PROVE  \/ UNCHANGED listing /\ start' \in {start, clock}
         \/ /\ UNCHANGED start
            /\ \E i \in IDs : See(i) \/ Miss(i)
<1>1. ASSUME NEW i \in IDs, Fetch(i)
      PROVE  UNCHANGED start /\ (UNCHANGED listing \/ See(i))
  BY <1>1 DEF Fetch, See
<1>2. ASSUME NEW i \in IDs, MissedRun(i)
      PROVE  UNCHANGED start /\ (UNCHANGED listing \/ Miss(i))
  BY <1>2 DEF MissedRun, Miss
<1>3. CASE UNCHANGED vars \/ Tick \/ StartRun \/ DiscoverFails \/ RunEnds \/ Restart
  BY <1>3 DEF vars, table, run, web, Tick, StartRun, DiscoverFails, RunEnds, FinishRun, Restart
<1>4. ASSUME NEW u \in Users, ShowPage(u) \/ UpdateSource(u) \/ UpdateFails(u)
      PROVE  UNCHANGED <<listing, start>>
  BY <1>4 DEF ShowPage, UpdateSource, UpdateFails, table, run
<1>5. ASSUME NEW u \in Users, NEW edit \in Edits, SendForm(u, edit)
      PROVE  UNCHANGED <<listing, start>>
  BY <1>5 DEF SendForm, table, run
<1>6. ASSUME NEW found \in SUBSET IDs, Discover(found)
      PROVE  UNCHANGED <<listing, start>>
  BY <1>6 DEF Discover, table
<1> QED
  BY <1>1, <1>2, <1>3, <1>4, <1>5, <1>6 DEF Next

(* One row changes and the others stay.                                    *)
LEMMA OneSeen ==
  ASSUME TypeOK, RowInv, NEW i \in IDs, See(i)
  PROVE  /\ listing' \in [IDs -> Rules!Listing]
         /\ listing'[i] = [status |-> "active", misses |-> 0, lastSeen |-> start]
         /\ \A k \in IDs \ {i} : listing'[k] = listing[k]
<1>1. listing[i] \in Rules!Listing /\ start \in Nat
  BY DEF TypeOK
<1>2. listing'[i] = [status |-> "active", misses |-> 0, lastSeen |-> start]
  BY <1>1, SeenRow DEF See, RowInv, TypeOK
<1>3. listing'[i] \in Rules!Listing
  BY <1>1, <1>2 DEF Rules!Listing, Rules!Statuses
<1> QED
  BY <1>2, <1>3 DEF See, TypeOK

LEMMA OneMissed ==
  ASSUME TypeOK, RowInv, NEW i \in IDs, Miss(i)
  PROVE  /\ listing' \in [IDs -> Rules!Listing]
         /\ listing[i].status \in Fading
         /\ listing'[i] = Under(cfg)!Missed(listing[i], Healthy, start)
         /\ listing'[i].status \in Fading
         /\ listing'[i].misses = listing[i].misses + 1
         /\ listing'[i].lastSeen = listing[i].lastSeen
         /\ \A k \in IDs \ {i} : listing'[k] = listing[k]
<1>1. listing[i] \in Rules!Listing /\ start \in Nat /\ cfg \in Config /\ Healthy \in BOOLEAN
  BY DEF TypeOK, Healthy
<1>2. listing[i].status \in Fading
  BY DEF Miss, RowInv, Rules!IsListed, Rules!NoListing
<1>3. /\ listing'[i] = Under(cfg)!Missed(listing[i], Healthy, start)
      /\ \A k \in IDs \ {i} : listing'[k] = listing[k]
  BY DEF Miss, TypeOK
<1>4. /\ listing'[i] \in Rules!Listing
      /\ listing'[i].status \in Fading
      /\ listing'[i].misses = listing[i].misses + 1
      /\ listing'[i].lastSeen = listing[i].lastSeen
  <2> HIDE DEF Healthy
  <2> QED
    BY <1>1, <1>2, <1>3, MissedRow
<1>5. listing' \in [IDs -> Rules!Listing]
  BY <1>3, <1>4 DEF Miss, TypeOK
<1> QED
  BY <1>2, <1>3, <1>4, <1>5

LEMMA RowStep ==
  ASSUME TypeOK, RowInv, [Next]_vars
  PROVE  RowInv' /\ listing' \in [IDs -> Rules!Listing]
<1>0. /\ start \in Nat /\ clock \in Nat /\ start <= clock
      /\ \A k \in IDs : listing[k].lastSeen \in Nat
  BY DEF TypeOK, Rules!Listing
<1>1. CASE UNCHANGED listing /\ start' \in {start, clock}
  BY <1>0, <1>1 DEF RowInv, TypeOK, Rules!NoListing
<1>2. ASSUME NEW i \in IDs, See(i) \/ Miss(i), UNCHANGED start
      PROVE  RowInv' /\ listing' \in [IDs -> Rules!Listing]
  <2>1. /\ listing'[i].status \in Fading
        /\ listing'[i].lastSeen \in {start, listing[i].lastSeen}
        /\ \A k \in IDs \ {i} : listing'[k] = listing[k]
        /\ listing' \in [IDs -> Rules!Listing]
    BY <1>2, OneSeen, OneMissed DEF Fading
  <2> QED
    BY <1>0, <1>2, <2>1 DEF RowInv
<1> QED
  BY <1>1, <1>2, ListingMoves

(* The columns of the database and what the run and the forms remember.    *)
LEMMA WebTypes ==
  ASSUME TypeOK, NEW u \in Users,
         ShowPage(u) \/ UpdateSource(u) \/ UpdateFails(u) \/ \E edit \in Edits : SendForm(u, edit)
  PROVE  TypeOK'
<1>0. /\ row \in Row /\ asked \in Row /\ post[u] \in Post /\ NoPost \in Post
      /\ page[u] \in Row
  <2>1. FirstRow \in Row /\ FirstRow.cfg \in Config
    BY SourcesAssumption DEF Row
  <2> QED
    BY <2>1 DEF TypeOK, NoPost, NoForm, Post, Form
<1>1. CASE ShowPage(u)
  BY <1>0, <1>1 DEF ShowPage, TypeOK, table, run, history
<1>2. CASE UpdateSource(u)
  <2>1. post[u].form \in Form /\ post[u].read \in Row
    BY <1>0 DEF Post
  <2>2. row' \in Row /\ asked' \in Row
    BY <1>0, <1>2, <2>1, FilledTypes DEF UpdateSource
  <2>3. \A v \in Users : post[v] \in Post /\ [post[v] EXCEPT !.raced = TRUE] \in Post
    BY DEF TypeOK, Post
  <2>4. post' \in [Users -> Post]
    BY <1>0, <1>2, <2>3 DEF UpdateSource
  <2>5. lost' \subseteq Columns /\ saving' \subseteq Users
    BY <1>2 DEF UpdateSource, TypeOK
  <2> QED
    BY <1>2, <2>2, <2>4, <2>5 DEF UpdateSource, TypeOK, run
<1>3. CASE UpdateFails(u)
  BY <1>0, <1>3 DEF UpdateFails, TypeOK, table, run, history
<1>4. ASSUME NEW edit \in Edits, SendForm(u, edit)
      PROVE  TypeOK'
  <2>1. FormOf(edit, page[u]) \in Form
    BY <1>0, SourcesAssumption, FormTypes
  <2>2. [form |-> FormOf(edit, page[u]), read |-> row, raced |-> FALSE] \in Post
    BY <1>0, <2>1 DEF Post
  <2> QED
    BY <1>4, <2>2 DEF SendForm, TypeOK, table, run, history
<1> QED
  BY <1>1, <1>2, <1>3, <1>4

LEMMA TypeStep ==
  ASSUME TypeOK, RowInv, [Next]_vars
  PROVE  TypeOK'
<1>0. /\ listing' \in [IDs -> Rules!Listing]
      /\ start \in Nat /\ clock \in Nat
      /\ \A D \in SUBSET IDs : Cardinality(D) \in Nat
  BY RowStep, SourcesAssumption, FS_Subset, FS_CardinalityType DEF TypeOK
<1>1. CASE UNCHANGED vars
  BY <1>1 DEF vars, table, web, run, history, TypeOK
<1>2. CASE Tick
  BY <1>0, <1>2 DEF Tick, TypeOK, table, web, run, history
<1>3. CASE StartRun
  <2>1. row.cfg \in Config /\ asked.cfg \in Config /\ prior' \in Int
    BY <1>3 DEF StartRun, TypeOK, Row, NoCount
  <2> QED
    BY <1>0, <1>3, <2>1 DEF StartRun, TypeOK, web, NoCount
<1>4. CASE DiscoverFails
  BY <1>0, <1>4 DEF DiscoverFails, FinishRun, TypeOK, web, history
<1>5. CASE RunEnds
  <2>1. Cardinality(disc) \in Int /\ disc \subseteq IDs
    BY <1>0 DEF TypeOK
  <2> QED
    BY <1>0, <1>5, <2>1 DEF RunEnds, FinishRun, TypeOK, web, history
<1>6. CASE Restart
  BY <1>6 DEF Restart, TypeOK, table, web, history
<1>7. ASSUME NEW found \in SUBSET IDs, Discover(found)
      PROVE  TypeOK'
  BY <1>7 DEF Discover, TypeOK, table, web, history
<1>8. ASSUME NEW i \in IDs, Fetch(i)
      PROVE  TypeOK'
  BY <1>0, <1>8 DEF Fetch, TypeOK, web, history
<1>9. ASSUME NEW i \in IDs, MissedRun(i)
      PROVE  TypeOK'
  BY <1>0, <1>9 DEF MissedRun, TypeOK, web, history
<1> QED
  BY <1>1, <1>2, <1>3, <1>4, <1>5, <1>6, <1>7, <1>8, <1>9, WebTypes DEF Next

(* Every variable keeps its type, and a listing is never closed nor seen   *)
(* after the run that is going on began.                                   *)
THEOREM TypeCorrect == Spec => [](TypeOK /\ RowInv)
<1>1. TypeOK /\ RowInv /\ [Next]_vars => TypeOK' /\ RowInv'
  BY TypeStep, RowStep
<1> QED
  BY TypeInit, <1>1, PTL DEF Spec

-----------------------------------------------------------------------------
(* Forms.                                                                  *)
LEMMA FormsStep ==
  ASSUME TypeOK, ReadInv, FormsWin, [Next]_vars
  PROVE  ReadInv' /\ FormsWin'
<1>1. CASE UNCHANGED <<row, saving, post, asked, lost>>
  BY <1>1 DEF ReadInv, FormsWin
<1>2. ASSUME NEW u \in Users, NEW edit \in Edits, SendForm(u, edit)
      PROVE  ReadInv' /\ FormsWin'
  BY <1>2 DEF SendForm, ReadInv, FormsWin, TypeOK, table, history
<1>3. ASSUME NEW u \in Users, UpdateFails(u)
      PROVE  ReadInv' /\ FormsWin'
  BY <1>3 DEF UpdateFails, ReadInv, FormsWin, TypeOK, table, history
<1>4. ASSUME NEW u \in Users, UpdateSource(u)
      PROVE  ReadInv' /\ FormsWin'
  <2>1. ReadInv'
    BY <1>4 DEF UpdateSource, ReadInv, TypeOK, Post
  <2> DEFINE f == post[u].form
             r == post[u].read
  <2>2. f \in Form /\ r \in Row /\ row \in Row /\ asked \in Row /\ u \in saving
    BY <1>4 DEF UpdateSource, TypeOK, Post
  <2>3. /\ row' = InColumns(Filled(f, r)) /\ asked' = Filled(f, asked)
        /\ lost' = (lost \ f.given) \cup (IF post[u].raced THEN Columns \ f.given ELSE {})
        /\ post[u].raced \/ r = row
    BY <1>4 DEF UpdateSource, ReadInv
  <2> HIDE DEF f, r
  <2>4. row'.enabled = asked'.enabled
    BY <2>2, <2>3, FilledTypes
  <2>5. ASSUME NEW c \in Columns, c \notin lost'
        PROVE  row'.cfg[c] = Stored(c, asked'.cfg[c])
    <3>1. /\ asked'.cfg[c] = IF c \in f.given THEN f.cfg[c] ELSE asked.cfg[c]
          /\ row'.cfg[c] = Stored(c, IF c \in f.given THEN f.cfg[c] ELSE r.cfg[c])
      BY <2>2, <2>3, FilledTypes
    <3>2. CASE c \in f.given
      BY <3>1, <3>2
    <3>3. CASE c \notin f.given
      <4>1. c \notin lost /\ r = row
        BY <2>3, <2>5, <3>3
      <4>2. asked.cfg[c] \in Int
        BY <2>2 DEF Row, Config
      <4> QED
        BY <3>1, <3>3, <4>1, <4>2, StoredFacts DEF FormsWin
    <3> QED
      BY <3>2, <3>3
  <2> QED
    BY <2>1, <2>4, <2>5 DEF FormsWin
<1>5. ASSUME NEW u \in Users, ShowPage(u)
      PROVE  UNCHANGED <<row, saving, post, asked, lost>>
  BY <1>5 DEF ShowPage, table, history
<1>6. CASE UNCHANGED vars \/ Tick \/ StartRun \/ DiscoverFails \/ RunEnds \/ Restart
  BY <1>1, <1>6 DEF vars, table, web, history, Tick, StartRun, DiscoverFails, RunEnds,
     FinishRun, Restart
<1>7. ASSUME NEW i \in IDs, Fetch(i) \/ MissedRun(i)
      PROVE  UNCHANGED <<row, saving, post, asked, lost>>
  BY <1>7 DEF Fetch, MissedRun, web, history
<1>8. ASSUME NEW found \in SUBSET IDs, Discover(found)
      PROVE  UNCHANGED <<row, saving, post, asked, lost>>
  BY <1>8 DEF Discover, table, web, history
<1> QED
  BY <1>1, <1>2, <1>3, <1>4, <1>5, <1>6, <1>7, <1>8 DEF Next

(* However updates overlap and whatever pages they are built from, the row *)
(* holds what the forms ask for, one after the other, but for columns that *)
(* a form left blank while another one was written.                        *)
THEOREM FormsCorrect == Spec => [](ReadInv /\ FormsWin)
<1>1. TypeOK /\ ReadInv /\ FormsWin /\ [Next]_vars => ReadInv' /\ FormsWin'
  BY FormsStep
<1> QED
  BY TypeInit, <1>1, TypeCorrect, PTL DEF Spec

-----------------------------------------------------------------------------
(* Fading.                                                                 *)
LEMMA PromiseStep ==
  ASSUME TypeOK, FormsWin, PromiseInv, [Next]_vars
  PROVE  PromiseInv'
<1>1. CASE StartRun
  BY <1>1 DEF StartRun, FormsWin, PromiseInv, TypeOK, Row
<1>2. CASE UNCHANGED <<cfg, promised>> /\ (pc = "idle" => pc' = "idle")
  BY <1>2 DEF PromiseInv
<1>3. ASSUME NEW u \in Users, ShowPage(u) \/ UpdateSource(u) \/ UpdateFails(u)
      PROVE  UNCHANGED <<cfg, promised, pc>>
  BY <1>3 DEF ShowPage, UpdateSource, UpdateFails, run, history
<1>4. ASSUME NEW u \in Users, NEW edit \in Edits, SendForm(u, edit)
      PROVE  UNCHANGED <<cfg, promised, pc>>
  BY <1>4 DEF SendForm, run, history
<1>5. CASE UNCHANGED vars \/ Tick \/ DiscoverFails \/ RunEnds \/ Restart
  BY <1>2, <1>5 DEF vars, run, history, Tick, DiscoverFails, RunEnds, FinishRun, Restart
<1>6. ASSUME NEW i \in IDs, Fetch(i) \/ MissedRun(i)
      PROVE  UNCHANGED <<cfg, promised, pc>>
  BY <1>6 DEF Fetch, MissedRun, history
<1>7. ASSUME NEW found \in SUBSET IDs, Discover(found)
      PROVE  UNCHANGED <<cfg, promised>> /\ pc = "discover"
  BY <1>7 DEF Discover, history
<1> QED
  BY <1>1, <1>2, <1>3, <1>4, <1>5, <1>6, <1>7 DEF Next

(* A number that reaches what the column keeps of p reaches p, unless p is *)
(* too large for the column.                                               *)
LEMMA ObeysColumn ==
  ASSUME NEW c \in Columns \ {"ratio"}, NEW n \in Nat,
         promised \in [cfg: Config, lost: SUBSET Columns], cfg \in Config,
         c \in promised.lost \/ cfg[c] = Stored(c, promised.cfg[c]),
         n >= cfg[c]
  PROVE  Obeys(c, n)
<1> DEFINE p == promised.cfg[c]
<1>1. p \in Int /\ HalfRange \in Nat \ {0}
  BY SourcesAssumption DEF Config
<1>2. p \in -HalfRange..(HalfRange - 1) => Stored(c, p) = p
  BY <1>1, StoredFacts
<1> HIDE DEF p
<1>3. CASE p \in -HalfRange..(HalfRange - 1)
  BY <1>2, <1>3 DEF Obeys, p
<1>4. CASE p \notin -HalfRange..(HalfRange - 1)
  <2>1. p >= HalfRange \/ n >= p
    BY <1>1, <1>4
  <2> QED
    BY <2>1 DEF Obeys, p
<1> QED
  BY <1>3, <1>4

FadesByForms(i) ==
  LET old == listing[i]  new == listing'[i]  absent == start - old.lastSeen
  IN  new.status # old.status /\ new.status \in Rules!Gone =>
        /\ Obeys("misses", new.misses)
        /\ Obeys(IF new.status = "stale" THEN "stale" ELSE "inactive", absent)
        /\ \/ prior <= 0 \/ "ratio" \in promised.lost
           \/ Cardinality(disc) * 1000 >= promised.cfg["ratio"] * prior

LEMMA FadeStep ==
  ASSUME TypeOK, RowInv, PromiseInv, NEW i \in IDs, [Next]_vars
  PROVE  FadesByForms(i)
<1>1. CASE UNCHANGED listing
  BY <1>1 DEF FadesByForms
<1>2. ASSUME NEW k \in IDs, See(k)
      PROVE  FadesByForms(i)
  BY <1>2, OneSeen DEF FadesByForms, Rules!Gone
<1>3. ASSUME NEW k \in IDs, Miss(k)
      PROVE  FadesByForms(i)
  <2>1. CASE i # k
    BY <1>3, <2>1, OneMissed DEF FadesByForms
  <2>2. CASE i = k
    <3> DEFINE l == listing[i]
               u == listing'[i]
               h == Healthy
    <3>1. /\ l \in Rules!Listing /\ l.status \in Fading /\ start \in Nat /\ h \in BOOLEAN
          /\ cfg \in Config /\ promised \in [cfg: Config, lost: SUBSET Columns]
          /\ u = Under(cfg)!Missed(l, h, start)
          /\ l.lastSeen \in Nat /\ l.lastSeen <= start /\ l.misses \in Nat
      BY <1>3, <2>2, OneMissed DEF TypeOK, RowInv, Healthy, Rules!Listing
    <3>2. \A c \in Columns : c \in promised.lost \/ cfg[c] = Stored(c, promised.cfg[c])
      BY <1>3 DEF Miss, PromiseInv
    <3>3. h => prior <= 0 \/ Cardinality(disc) * 1000 >= cfg["ratio"] * prior
      BY DEF Healthy
    <3>4. /\ u.misses = l.misses + 1
          /\ u.status # l.status =>
               /\ h /\ u.misses >= cfg["misses"]
               /\ \/ u.status = "stale" /\ start - l.lastSeen >= cfg["stale"]
                  \/ u.status = "presumed_inactive" /\ start - l.lastSeen >= cfg["inactive"]
      <4> HIDE DEF h
      <4>1. /\ l \in Rules!Listing /\ l.status \in Fading /\ start \in Nat /\ h \in BOOLEAN
            /\ cfg \in Config /\ u = Under(cfg)!Missed(l, h, start)
        BY <3>1
      <4>2. /\ u.misses = l.misses + 1
            /\ u.status # l.status =>
                 /\ h /\ u.misses >= cfg["misses"]
                 /\ \/ u.status = "stale" /\ l.status = "active"
                       /\ start - l.lastSeen >= cfg["stale"]
                    \/ u.status = "presumed_inactive" /\ start - l.lastSeen >= cfg["inactive"]
        BY <4>1, MissedRow
      <4> QED
        BY <4>2
    <3> HIDE DEF h, l, u
    <3>5. u.misses \in Nat /\ start - l.lastSeen \in Nat
      BY <3>1, <3>4
    <3>6. Columns = {"stale", "inactive", "misses", "ratio"}
      BY DEF Columns
    <3>7. ASSUME u.status # l.status
          PROVE  /\ Obeys("misses", u.misses)
                 /\ Obeys(IF u.status = "stale" THEN "stale" ELSE "inactive",
                          start - l.lastSeen)
                 /\ \/ prior <= 0 \/ "ratio" \in promised.lost
                    \/ Cardinality(disc) * 1000 >= promised.cfg["ratio"] * prior
      <4>1. Obeys("misses", u.misses)
        BY <3>1, <3>2, <3>4, <3>5, <3>6, <3>7, ObeysColumn
      <4>2. CASE u.status = "stale" /\ start - l.lastSeen >= cfg["stale"]
        <5>1. Obeys("stale", start - l.lastSeen)
          BY <3>1, <3>2, <3>5, <3>6, <4>2, ObeysColumn
        <5> QED
          BY <3>2, <3>3, <3>4, <3>6, <3>7, <4>1, <4>2, <5>1 DEF Stored
      <4>3. CASE u.status = "presumed_inactive" /\ start - l.lastSeen >= cfg["inactive"]
        <5>1. Obeys("inactive", start - l.lastSeen)
          BY <3>1, <3>2, <3>5, <3>6, <4>3, ObeysColumn
        <5> QED
          BY <3>2, <3>3, <3>4, <3>6, <3>7, <4>1, <4>3, <5>1 DEF Stored
      <4> QED
        BY <3>4, <3>7, <4>2, <4>3
    <3> QED
      BY <3>7 DEF FadesByForms, l, u
  <2> QED
    BY <2>1, <2>2
<1> QED
  BY <1>1, <1>2, <1>3, ListingMoves

(* A listing fades only under thresholds that users asked for before the   *)
(* run began, whatever is saved while it runs.                             *)
THEOREM FadingCorrect == Spec => FadingObeysForms
<1>1. TypeOK /\ FormsWin /\ PromiseInv /\ [Next]_vars => PromiseInv'
  BY PromiseStep
<1>2. TypeOK /\ RowInv /\ PromiseInv /\ [Next]_vars => [\A i \in IDs : FadesByForms(i)]_vars
  BY FadeStep
<1> QED
  BY TypeInit, <1>1, <1>2, TypeCorrect, FormsCorrect, PTL
     DEF Spec, FadingObeysForms, FadesByForms

-----------------------------------------------------------------------------
(* The lifecycle the listing rows show.                                    *)
StatusOf == [i \in IDs |-> listing[i].status]
MissedOf == {i \in IDs : listing[i].misses > 0}

(* A change of row i changes the status and the misses of i only.          *)
LEMMA RowChange ==
  ASSUME NEW i \in IDs, \A k \in IDs \ {i} : listing'[k] = listing[k]
  PROVE  /\ StatusOf' = [StatusOf EXCEPT ![i] = listing'[i].status]
         /\ listing'[i].misses > 0 => MissedOf' = MissedOf \cup {i}
         /\ ~(listing'[i].misses > 0) => MissedOf' = MissedOf \ {i}
         /\ StatusOf[i] = listing[i].status
         /\ listing'[i].status = listing[i].status => StatusOf' = StatusOf
<1>1. StatusOf' = [StatusOf EXCEPT ![i] = listing'[i].status]
  BY DEF StatusOf
<1>2. /\ listing'[i].misses > 0 => MissedOf' = MissedOf \cup {i}
      /\ ~(listing'[i].misses > 0) => MissedOf' = MissedOf \ {i}
  BY DEF MissedOf
<1>3. /\ StatusOf[i] = listing[i].status
      /\ listing'[i].status = listing[i].status => StatusOf' = StatusOf
  BY DEF StatusOf
<1> QED
  BY <1>1, <1>2, <1>3

LEMMA LifecycleSeen ==
  ASSUME TypeOK, RowInv, NEW i \in IDs, See(i)
  PROVE  [L!Next]_(L!lifecycleVars)
<1>1. /\ listing'[i].status = "active" /\ listing'[i].misses = 0
      /\ \A k \in IDs \ {i} : listing'[k] = listing[k]
  BY OneSeen
<1>2. /\ StatusOf' = [StatusOf EXCEPT ![i] = "active"]
      /\ MissedOf' = MissedOf \ {i}
      /\ StatusOf[i] = listing[i].status
  BY <1>1, RowChange
<1>3. CASE listing[i].status \in Fading
  <2>1. L!Seen(i)
    BY <1>2, <1>3 DEF L!Seen, StatusOf, MissedOf, Fading
  <2> QED
    BY <2>1 DEF L!Next
<1>4. CASE listing[i] = Rules!NoListing
  <2>1. listing[i].status = "unlisted" /\ listing[i].misses = 0
    BY <1>4 DEF Rules!NoListing
  <2>2. UNCHANGED MissedOf
    BY <1>2, <2>1 DEF MissedOf
  <2>3. L!Appear(i)
    BY <1>2, <2>1, <2>2 DEF L!Appear, StatusOf, MissedOf
  <2> QED
    BY <2>3 DEF L!Next
<1> QED
  BY <1>3, <1>4 DEF RowInv

LEMMA LifecycleMissed ==
  ASSUME TypeOK, RowInv, NEW i \in IDs, Miss(i)
  PROVE  [L!Next]_(L!lifecycleVars)
<1> DEFINE l == listing[i]
           u == listing'[i]
<1>1. /\ l.status \in Fading /\ u.status \in Fading /\ u.misses > 0
      /\ \A k \in IDs \ {i} : listing'[k] = listing[k]
  BY OneMissed DEF TypeOK, Rules!Listing
<1>2. u.status # l.status =>
        (u.status = "stale" /\ l.status = "active") \/ u.status = "presumed_inactive"
  <2> DEFINE h == Healthy
  <2>1. l \in Rules!Listing /\ cfg \in Config /\ start \in Nat /\ h \in BOOLEAN
    BY DEF TypeOK, Healthy
  <2>2. u = Under(cfg)!Missed(l, h, start)
    BY OneMissed
  <2> HIDE DEF h
  <2>3. u.status # l.status =>
          \/ u.status = "stale" /\ l.status = "active" /\ start - l.lastSeen >= cfg["stale"]
          \/ u.status = "presumed_inactive" /\ start - l.lastSeen >= cfg["inactive"]
    BY <1>1, <2>1, <2>2, MissedRow
  <2> QED
    BY <2>3
<1>3. /\ StatusOf' = [StatusOf EXCEPT ![i] = u.status]
      /\ MissedOf' = MissedOf \cup {i}
      /\ StatusOf[i] = l.status
      /\ u.status = l.status => StatusOf' = StatusOf
  BY <1>1, RowChange
<1>4. CASE u.status = l.status
  <2>1. L!Miss(i)
    BY <1>1, <1>3, <1>4 DEF L!Miss, StatusOf, MissedOf, Fading
  <2> QED
    BY <2>1 DEF L!Next
<1>5. CASE u.status # l.status
  <2>1. L!Fade(i)
    BY <1>1, <1>2, <1>3, <1>5 DEF L!Fade, StatusOf, MissedOf, Fading
  <2> QED
    BY <2>1 DEF L!Next
<1> QED
  BY <1>4, <1>5

(* Whatever thresholds the runs obey, one after the other, the statuses    *)
(* follow the same lifecycle as under thresholds that never change.        *)
THEOREM LifecycleCorrect == Spec => FollowsLifecycle
<1>1. Init => L!Init
  BY DEF Init, L!Init, Rules!NoListing
<1>2. TypeOK /\ RowInv /\ [Next]_vars => [L!Next]_(L!lifecycleVars)
  <2> SUFFICES ASSUME TypeOK, RowInv, [Next]_vars PROVE [L!Next]_(L!lifecycleVars)
    OBVIOUS
  <2>1. CASE UNCHANGED listing
    BY <2>1 DEF L!lifecycleVars
  <2> QED
    BY <2>1, ListingMoves, LifecycleSeen, LifecycleMissed
<1> QED
  BY <1>1, <1>2, TypeCorrect, PTL DEF Spec, FollowsLifecycle, L!Spec
=============================================================================
