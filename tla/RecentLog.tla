------------------------------ MODULE RecentLog ------------------------------
(***************************************************************************)
(* What the log page promises: it shows records among the latest Capacity  *)
(* ones, the newest first, each record with its age; a page without a      *)
(* query shows the records of the latest ages, a page with a query the     *)
(* youngest records that match it.  A record without text is never shown.  *)
(***************************************************************************)
EXTENDS Naturals, Sequences, FiniteSets

CONSTANTS
  Capacity,   \* number of records kept
  Texts,      \* what a record may say
  Blank,      \* the record without text
  Queries,    \* the queries: each the set of texts it finds
  Limits      \* how many records a page may ask for

VARIABLES
  recent,     \* the latest records, the newest first
  page        \* the page shown last: <<age, text>> of its lines

recentVars == <<recent, page>>

Init ==
  /\ recent = << >>
  /\ page = {}

Log(text) ==
  /\ recent' = SubSeq(<<text>> \o recent, 1,
                      IF Len(recent) < Capacity THEN Len(recent) + 1 ELSE Capacity)
  /\ UNCHANGED page

ShowLatest(n) ==
  /\ page' = {<<i, recent[i]>> : i \in {i \in DOMAIN recent : i <= n /\ recent[i] # Blank}}
  /\ UNCHANGED recent

Found(query) == {i \in DOMAIN recent : recent[i] # Blank /\ recent[i] \in query}

ShowMatching(query, n) ==
  /\ page' = {<<i, recent[i]>> :
                i \in {i \in Found(query) : Cardinality({j \in Found(query) : j <= i}) <= n}}
  /\ UNCHANGED recent

Next ==
  \/ \E text \in Texts : Log(text)
  \/ \E n \in Limits : ShowLatest(n) \/ \E query \in Queries : ShowMatching(query, n)

Spec == Init /\ [][Next]_recentVars
=============================================================================
