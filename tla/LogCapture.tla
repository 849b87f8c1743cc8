----------------------------- MODULE LogCapture ------------------------------
(***************************************************************************)
(* The log capture of the web server (foundation/web/logs.go): a circular  *)
(* buffer that every goroutine that logs writes to and the log page reads. *)
(* Handle holds the lock, Recent and Filter the read lock, from their      *)
(* first access of the buffer to their last: each is one step.             *)
(***************************************************************************)
EXTENDS Integers, FiniteSets

CONSTANTS
  Capacity,   \* number of entries
  Texts,      \* what a record may say
  Blank,      \* the empty string
  Queries,    \* a query is the set of the texts it occurs in
  Limits      \* the limits of a page

ASSUME LogCaptureAssumption ==
  /\ Capacity \in Nat \ {0}
  /\ Queries \subseteq SUBSET Texts
  /\ Limits \subseteq Nat \ {0}

VARIABLES
  entries,   \* lc.entries; blank where nothing was written
  pos,       \* lc.pos, the next entry to write
  filled,    \* lc.filled
  page       \* the log page shown last: <<how far back, text>> of its lines

vars == <<entries, pos, filled, page>>

Slots == 0..Capacity - 1

Init ==
  /\ entries = [s \in Slots |-> Blank]
  /\ pos = 0
  /\ filled = FALSE
  /\ page = {}

(* Mutant: the position wraps one entry too late.                          *)
HandleWrapsLate(text) ==
  /\ entries' = [entries EXCEPT ![pos] = text]
  /\ pos' = IF pos >= Capacity THEN 0 ELSE pos + 1
  /\ filled' = (filled \/ pos >= Capacity)
  /\ UNCHANGED page

(* Handle writes the record at the position and moves on, past the last    *)
(* entry to the first.                                                     *)
Handle(text) ==
  /\ entries' = [entries EXCEPT ![pos] = text]
  /\ pos' = IF pos + 1 >= Capacity THEN 0 ELSE pos + 1
  /\ filled' = (filled \/ pos + 1 >= Capacity)
  /\ UNCHANGED page

Total == IF filled THEN Capacity ELSE pos

(* The entry i records back, the newest being the first: as Recent         *)
(* computes it, and as Filter reaches it by counting down with a wrap at 0.*)
SlotBack(i) == (pos - i + Capacity) % Capacity
SlotDown(i) == IF i <= pos THEN pos - i ELSE Capacity + pos - i

(* Mutant: the walk starts at the entry to be written next.                *)
RecentFromNext(n) ==
  {<<i, entries[(pos + 1 - i + Capacity) % Capacity]>> :
     i \in {i \in 1..Total : i <= n /\ entries[(pos + 1 - i + Capacity) % Capacity] # Blank}}

(* The lines of a page, each with how far back it was logged.              *)
Recent(n) ==
  {<<i, entries[SlotBack(i)]>> : i \in {i \in 1..Total : i <= n /\ entries[SlotBack(i)] # Blank}}

Hits(query) ==
  {i \in 1..Capacity : entries[SlotDown(i)] # Blank /\ entries[SlotDown(i)] \in query}

(* Filter walks the whole buffer, written or not, until it has n lines.    *)
Filter(query, n) ==
  {<<i, entries[SlotDown(i)]>> :
     i \in {i \in Hits(query) : Cardinality({j \in Hits(query) : j <= i}) <= n}}

(* LogsHandler: a page for a query, or for none.                           *)
ShowLogs(n) ==
  /\ page' = Recent(n) \/ \E query \in Queries : page' = Filter(query, n)
  /\ UNCHANGED <<entries, pos, filled>>

Next == (\E text \in Texts : Handle(text)) \/ (\E n \in Limits : ShowLogs(n))

Spec == Init /\ [][Next]_vars

-----------------------------------------------------------------------------
TypeOK ==
  /\ entries \in [Slots -> Texts \cup {Blank}]
  /\ pos \in Slots
  /\ filled \in BOOLEAN
  /\ page \subseteq (1..Capacity) \X Texts

(* The buffer holds the latest records in the order they were logged, and  *)
(* a page shows what it should of them, whether or not the buffer has      *)
(* wrapped, however often it has, and whatever was logged without text.    *)
R == INSTANCE RecentLog WITH
       recent <- [i \in 1..Total |-> entries[SlotDown(i)]]

ShowsRecentLog == R!Spec
=============================================================================
