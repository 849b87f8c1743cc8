-------------------------- MODULE LogCaptureProofs ---------------------------
(***************************************************************************)
(* The circular buffer keeps its types and implements RecentLog, for every *)
(* capacity and every set of texts, queries and limits.                    *)
(***************************************************************************)
EXTENDS LogCapture, Sequences, TLAPS

(* Nothing was written beyond the position before the buffer was full.     *)
BlankBeyond == ~filled => \A s \in Slots : s >= pos => entries[s] = Blank

BufferInv == TypeOK /\ BlankBeyond

Mapped == [i \in 1..Total |-> entries[SlotDown(i)]]

(* The two ways of counting back from the position meet the same entry.    *)
LEMMA SameSlot ==
  ASSUME TypeOK, NEW i \in 1..Capacity
  PROVE  SlotBack(i) = SlotDown(i) /\ SlotDown(i) \in Slots
<1> USE LogCaptureAssumption DEF TypeOK, Slots
<1>1. SlotDown(i) \in Slots
  BY DEF SlotDown
<1>2. CASE i <= pos
  <2>1. pos - i + Capacity = 1 * Capacity + (pos - i) /\ pos - i \in 0..Capacity - 1
    BY <1>2
  <2>2. (pos - i + Capacity) % Capacity = pos - i
    BY <2>1
  <2> QED BY <1>1, <1>2, <2>2 DEF SlotBack, SlotDown
<1>3. CASE i > pos
  <2>1. pos - i + Capacity \in 0..Capacity - 1
    BY <1>3
  <2>2. (pos - i + Capacity) % Capacity = pos - i + Capacity
    BY <2>1
  <2> QED BY <1>1, <1>3, <2>2 DEF SlotBack, SlotDown
<1> QED BY <1>2, <1>3

(* Both modules count with the same definition.                            *)
LEMMA SameCardinality == \A S : R!Cardinality(S) = Cardinality(S)
BY DEF Cardinality, R!Cardinality

LEMMA TotalRange == TypeOK => Total \in 0..Capacity
BY LogCaptureAssumption DEF TypeOK, Total, Slots

(* The lines of both pages are texts of the buffer.                        *)
LEMMA PageTypes ==
  ASSUME TypeOK, NEW n \in Limits
  PROVE  /\ Recent(n) \subseteq (1..Capacity) \X Texts
         /\ \A query \in Queries : Filter(query, n) \subseteq (1..Capacity) \X Texts
<1>1. \A i \in 1..Capacity : entries[SlotBack(i)] \in Texts \cup {Blank}
  BY SameSlot DEF TypeOK
<1>2. \A i \in 1..Capacity : entries[SlotDown(i)] \in Texts \cup {Blank}
  BY SameSlot DEF TypeOK
<1>3. 1..Total \subseteq 1..Capacity
  BY TotalRange, LogCaptureAssumption
<1>4. Recent(n) \subseteq (1..Capacity) \X Texts
  BY <1>1, <1>3 DEF Recent
<1>5. ASSUME NEW query \in Queries
      PROVE  Filter(query, n) \subseteq (1..Capacity) \X Texts
  <2>1. \A i \in Hits(query) : <<i, entries[SlotDown(i)]>> \in (1..Capacity) \X Texts
    BY <1>2 DEF Hits
  <2> QED BY <2>1 DEF Filter
<1> QED BY <1>4, <1>5

LEMMA BufferInit == Init => BufferInv
<1> SUFFICES ASSUME Init
             PROVE  BufferInv
  OBVIOUS
<1>1. \A s \in Slots : entries[s] = Blank
  BY DEF Init
<1>2. entries \in [Slots -> Texts \cup {Blank}]
  BY DEF Init
<1>3. pos \in Slots
  BY LogCaptureAssumption DEF Init, Slots
<1>4. filled \in BOOLEAN /\ page \subseteq (1..Capacity) \X Texts
  BY DEF Init
<1> QED BY <1>1, <1>2, <1>3, <1>4 DEF BufferInv, TypeOK, BlankBeyond

LEMMA BufferStep == BufferInv /\ [Next]_vars => BufferInv'
<1> SUFFICES ASSUME BufferInv, [Next]_vars
             PROVE  BufferInv'
  OBVIOUS
<1> USE LogCaptureAssumption DEF BufferInv
<1>1. ASSUME NEW text \in Texts, Handle(text)
      PROVE  BufferInv'
  <2>1. pos' \in Slots /\ filled' \in BOOLEAN /\ page' = page
    BY <1>1 DEF Handle, TypeOK, Slots
  <2>2. entries' \in [Slots -> Texts \cup {Blank}]
    BY <1>1 DEF Handle, TypeOK
  <2>3. ASSUME NEW s \in Slots, ~filled', s >= pos'
        PROVE  entries'[s] = Blank
    <3>1. ~filled /\ ~(pos + 1 >= Capacity)
      BY <1>1, <2>3 DEF Handle
    <3>2. s # pos /\ s >= pos
      BY <1>1, <2>3, <3>1 DEF Handle, TypeOK, Slots
    <3> QED BY <1>1, <3>1, <3>2 DEF Handle, TypeOK, BlankBeyond
  <2> QED BY <2>1, <2>2, <2>3 DEF TypeOK, BlankBeyond
<1>2. ASSUME NEW n \in Limits, ShowLogs(n)
      PROVE  BufferInv'
  <2>1. page' \subseteq (1..Capacity) \X Texts
    BY <1>2, PageTypes DEF ShowLogs
  <2> QED BY <1>2, <2>1 DEF ShowLogs, TypeOK, BlankBeyond
<1>3. CASE UNCHANGED vars
  BY <1>3 DEF vars, TypeOK, BlankBeyond
<1> QED BY <1>1, <1>2, <1>3 DEF Next

(* Entries, position and page keep their types, and nothing is found in    *)
(* the part of the buffer that was never written.                          *)
THEOREM BufferCorrect == Spec => []BufferInv
BY BufferInit, BufferStep, PTL DEF Spec

(* The entries, the position and the page keep their types.                *)
THEOREM TypeCorrect == Spec => []TypeOK
<1>1. BufferInv => TypeOK
  BY DEF BufferInv
<1> QED BY <1>1, BufferCorrect, PTL

-----------------------------------------------------------------------------
LEMMA MappedType ==
  ASSUME TypeOK
  PROVE  /\ Mapped \in Seq(Texts \cup {Blank})
         /\ Len(Mapped) = Total
         /\ DOMAIN Mapped = 1..Total
<1>1. Total \in Nat /\ 1..Total \subseteq 1..Capacity
  BY TotalRange, LogCaptureAssumption
<1>2. \A i \in 1..Total : entries[SlotDown(i)] \in Texts \cup {Blank}
  BY <1>1, SameSlot DEF TypeOK
<1> QED BY <1>1, <1>2 DEF Mapped

(* A record logged becomes the first, and the others move back by one; the *)
(* oldest of a full buffer is gone.                                        *)
LEMMA LogStep ==
  ASSUME BufferInv, NEW text \in Texts, Handle(text)
  PROVE  R!Log(text)
<1> DEFINE kept == IF Len(Mapped) < Capacity THEN Len(Mapped) + 1 ELSE Capacity
<1> USE LogCaptureAssumption
<1>1. TypeOK /\ TypeOK'
  BY BufferStep DEF BufferInv, Next
<1>2. Total \in 0..Capacity /\ Len(Mapped) = Total /\ Mapped \in Seq(Texts \cup {Blank})
  BY <1>1, MappedType, TotalRange
<1>3. Total' = kept /\ kept \in 1..Capacity /\ kept <= Total + 1
  BY <1>1, <1>2 DEF Handle, Total, TypeOK, Slots
<1>4. <<text>> \o Mapped \in Seq(Texts \cup {Blank}) /\ Len(<<text>> \o Mapped) = Total + 1
  BY <1>2
<1>5. SubSeq(<<text>> \o Mapped, 1, kept) = [i \in 1..kept |-> (<<text>> \o Mapped)[i]]
  BY <1>3, <1>4
<1>6. ASSUME NEW i \in 1..kept
      PROVE  entries'[SlotDown(i)'] = (<<text>> \o Mapped)[i]
  <2>1. CASE i = 1
    <3>1. SlotDown(i)' = pos
      BY <1>1, <2>1 DEF SlotDown, Handle, TypeOK, Slots
    <3> QED BY <1>1, <1>2, <2>1, <3>1 DEF Handle, TypeOK
  <2>2. CASE i > 1
    <3>1. i - 1 \in 1..Total /\ i - 1 \in 1..Capacity /\ i \in 1..Capacity
      BY <1>2, <1>3, <2>2
    <3>2. (<<text>> \o Mapped)[i] = entries[SlotDown(i - 1)]
      BY <1>2, <2>2, <3>1 DEF Mapped
    <3>3. SlotDown(i)' = SlotDown(i - 1) /\ SlotDown(i - 1) # pos
      BY <1>1, <2>2, <3>1 DEF SlotDown, Handle, TypeOK, Slots
    <3> QED BY <1>1, <3>1, <3>2, <3>3, SameSlot DEF Handle, TypeOK
  <2> QED BY <2>1, <2>2
<1>7. Mapped' = SubSeq(<<text>> \o Mapped, 1, kept)
  BY <1>3, <1>5, <1>6 DEF Mapped
<1> QED BY <1>7 DEF R!Log, Mapped, Handle

(* Recent and Filter find the same lines in the buffer as in the sequence. *)
LEMMA PageStep ==
  ASSUME BufferInv, NEW n \in Limits, ShowLogs(n)
  PROVE  R!ShowLatest(n) \/ \E query \in Queries : R!ShowMatching(query, n)
<1> USE LogCaptureAssumption
<1>1. TypeOK /\ Total \in 0..Capacity /\ DOMAIN Mapped = 1..Total
  BY MappedType, TotalRange DEF BufferInv
<1>2. Mapped' = Mapped
  BY DEF ShowLogs, Mapped, Total, SlotDown
<1>3. \A i \in 1..Total : i \in 1..Capacity /\ Mapped[i] = entries[SlotDown(i)]
  BY <1>1 DEF Mapped
<1>4. CASE page' = Recent(n)
  <2>1. \A i \in 1..Total : Mapped[i] = entries[SlotBack(i)]
    BY <1>1, <1>3, SameSlot
  <2>2. Recent(n) = {<<i, Mapped[i]>> : i \in {i \in DOMAIN Mapped : i <= n /\ Mapped[i] # Blank}}
    BY <1>1, <2>1 DEF Recent
  <2> QED BY <1>2, <1>4, <2>2 DEF R!ShowLatest, Mapped
<1>5. ASSUME NEW query \in Queries, page' = Filter(query, n)
      PROVE  R!ShowMatching(query, n)
  <2>1. \A i \in 1..Capacity : i > Total => entries[SlotDown(i)] = Blank
    <3> SUFFICES ASSUME NEW i \in 1..Capacity, i > Total
                 PROVE  entries[SlotDown(i)] = Blank
      OBVIOUS
    <3>1. ~filled /\ SlotDown(i) \in Slots /\ SlotDown(i) >= pos
      BY <1>1 DEF Total, SlotDown, TypeOK, Slots
    <3> QED BY <3>1 DEF BufferInv, BlankBeyond
  <2>2. Hits(query) = {i \in DOMAIN Mapped : Mapped[i] # Blank /\ Mapped[i] \in query}
    BY <1>1, <1>3, <2>1 DEF Hits
  <2>3. Hits(query) = R!Found(query)
    BY <2>2 DEF R!Found, Mapped
  <2>4. \A i \in Hits(query) : Mapped[i] = entries[SlotDown(i)]
    BY <1>1, <1>3, <2>2
  <2>5. Filter(query, n) =
          {<<i, Mapped[i]>> :
             i \in {i \in R!Found(query) :
                      Cardinality({j \in R!Found(query) : j <= i}) <= n}}
    BY <2>3, <2>4 DEF Filter
  <2> QED BY <1>2, <1>5, <2>5, SameCardinality DEF R!ShowMatching, Mapped
<1> QED BY <1>4, <1>5 DEF ShowLogs

LEMMA RecentInit == Init => R!Init
<1> SUFFICES ASSUME Init
             PROVE  R!Init
  OBVIOUS
<1>1. Total = 0 /\ page = {}
  BY DEF Init, Total
<1>2. Mapped = << >>
  BY <1>1 DEF Mapped
<1> QED BY <1>1, <1>2 DEF R!Init, Mapped

LEMMA RecentStep == BufferInv /\ [Next]_vars => [R!Next]_(R!recentVars)
<1> SUFFICES ASSUME BufferInv, [Next]_vars
             PROVE  [R!Next]_(R!recentVars)
  OBVIOUS
<1>1. CASE \E text \in Texts : Handle(text)
  BY <1>1, LogStep DEF R!Next
<1>2. CASE \E n \in Limits : ShowLogs(n)
  BY <1>2, PageStep DEF R!Next
<1>3. CASE UNCHANGED vars
  BY <1>3 DEF vars, R!recentVars, Total, SlotDown
<1> QED BY <1>1, <1>2, <1>3 DEF Next

(* The buffer holds the latest records in order, and the log page shows    *)
(* what it should of them, for every capacity.                             *)
THEOREM RecentLogCorrect == Spec => ShowsRecentLog
BY RecentInit, RecentStep, BufferCorrect, PTL DEF Spec, ShowsRecentLog, R!Spec
=============================================================================
