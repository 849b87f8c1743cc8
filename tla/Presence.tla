------------------------------ MODULE Presence -------------------------------
(***************************************************************************)
(* Orchestrator with history variables that follow the presence of each    *)
(* listing on the site, apart from the counter and the date its row keeps: *)
(* what the latest complete run discovered, how often the listing has      *)
(* vanished since its page was last taken in, and when that was.           *)
(***************************************************************************)
EXTENDS Orchestrator

VARIABLES
  present,   \* the ids the latest run discovered that came to its end
  vanished,  \* vanished[i]: runs without i after one with it, since takenIn[i]
  takenIn    \* takenIn[i]: the start of the run that last upserted a page of i

presenceVars == <<vars, present, vanished, takenIn>>

PresenceInit ==
  /\ Init
  /\ present = {}
  /\ vanished = [i \in IDs |-> 0]
  /\ takenIn = [i \in IDs |-> 0]

(* An upsert of i, perhaps one that fails later, writes the row of i.      *)
TakesIn(i) ==
  \E b \in Bodies : (Upsert(i, b) \/ UpsertFails(i, b)) /\ UpsertListing(i, b)

FollowPresence ==
  /\ present' = IF RunEnds THEN disc ELSE present
  /\ takenIn' = [i \in IDs |-> IF TakesIn(i) THEN start ELSE takenIn[i]]
  /\ vanished' = [i \in IDs |->
       IF TakesIn(i) THEN 0
       ELSE IF FetchesDone /\ i \in present \ disc THEN vanished[i] + 1
       ELSE vanished[i]]

PresenceNext == Next /\ FollowPresence

PresenceSpec == PresenceInit /\ [][PresenceNext]_presenceVars

-----------------------------------------------------------------------------
(* What the code asks of the step that fades i: the latest complete run    *)
(* discovered i and this one did not, and passes the gate; i has vanished  *)
(* from the site MissThreshold times since its page was last taken in, and *)
(* that was long enough ago.                                               *)
EarnedFade(i) ==
  /\ i \in present \ disc
  /\ prior > 0 => Cardinality(disc) * RatioDen >= RatioNum * prior
  /\ vanished[i] >= MissThreshold
  /\ listing'[i].status = "stale" => start - takenIn[i] >= StaleDays
  /\ listing'[i].status = "presumed_inactive" => start - takenIn[i] >= InactiveDays

(* A listing fades only in the first run without it, that passes the gate, *)
(* and only after its page has not been taken in for as many               *)
(* disappearances and as many days as the source asks for, whatever        *)
(* failed, stopped or was reset meanwhile.  Its disappearances need not be *)
(* consecutive runs, nor healthy ones, and it may have been discovered the *)
(* day before: a page that is still fresh, or stored already, is not taken *)
(* in.  docs/PLAN.md 612 asks for days and consecutive runs of absence.    *)
FadingIsEarned == [][\A i \in IDs : Faded(i) => EarnedFade(i)]_presenceVars
=============================================================================
