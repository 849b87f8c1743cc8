------------------------------- MODULE Absence -------------------------------
(***************************************************************************)
(* Orchestrator with a history variable: the number of consecutive         *)
(* finished healthy runs that looked for a listing and did not discover it.*)
(***************************************************************************)
EXTENDS Orchestrator

VARIABLES absences,   \* absences[i]: healthy runs in a row without i
          lastStart   \* the start of the latest finished run

absenceVars == <<vars, absences, lastStart>>

AbsenceInit ==
  /\ Init
  /\ absences = [i \in IDs |-> 0]
  /\ lastStart = 0

CountAbsences ==
  /\ absences' = [i \in IDs |->
       IF Healthy(Cardinality(disc)) /\ IsListed(listing[i]) /\ i \notin disc
       THEN absences[i] + 1
       ELSE 0]
  /\ lastStart' = start

AbsenceNext ==
  \/ RunEnds /\ CountAbsences
  \/ Next /\ ~RunEnds /\ UNCHANGED <<absences, lastStart>>

AbsenceSpec == AbsenceInit /\ [][AbsenceNext]_absenceVars

(* docs/PLAN.md 612: a listing absent from Discover for StaleDays and from *)
(* at least MissThreshold consecutive healthy runs is no longer active.    *)
AbsentListingsFade ==
  \A i \in IDs :
    absences[i] >= MissThreshold /\ lastStart - listing[i].lastSeen >= StaleDays
      => listing[i].status # "active"
=============================================================================
