------------------------------ MODULE Lifecycle ------------------------------
(***************************************************************************)
(* What the pipeline promises about the status of each listing, whatever   *)
(* the interleaving of runs, failures and restarts: a listing appears      *)
(* active; only a listing that has missed a run fades, and only while it   *)
(* is live; a faded listing can come back; a source can close only a live  *)
(* listing; a closed listing never moves again and is never counted as     *)
(* missed.                                                                 *)
(***************************************************************************)
EXTENDS Naturals

CONSTANT IDs                 \* the source's listing ids

VARIABLES status,   \* status[i], "unlisted" before its first sighting
          missed    \* the ids that have missed a run since last seen

lifecycleVars == <<status, missed>>

Init ==
  /\ status = [i \in IDs |-> "unlisted"]
  /\ missed = {}

Appear(i) ==
  /\ status[i] = "unlisted"
  /\ status' = [status EXCEPT ![i] = "active"]
  /\ UNCHANGED missed

Seen(i) ==
  /\ status[i] \in {"active", "stale", "presumed_inactive"}
  /\ status' = [status EXCEPT ![i] = "active"]
  /\ missed' = missed \ {i}

Close(i) ==
  /\ status[i] \in {"active", "stale"}
  /\ \E s \in {"confirmed_sold", "withdrawn"} : status' = [status EXCEPT ![i] = s]
  /\ missed' = missed \ {i}

Miss(i) ==
  /\ status[i] \in {"active", "stale", "presumed_inactive"}
  /\ missed' = missed \cup {i}
  /\ UNCHANGED status

Fade(i) ==
  /\ \/ /\ status[i] = "active"
        /\ \E s \in {"stale", "presumed_inactive"} : status' = [status EXCEPT ![i] = s]
     \/ /\ status[i] = "stale"
        /\ status' = [status EXCEPT ![i] = "presumed_inactive"]
  /\ missed' = missed \cup {i}

Next == \E i \in IDs : Appear(i) \/ Seen(i) \/ Close(i) \/ Miss(i) \/ Fade(i)

Spec == Init /\ [][Next]_lifecycleVars
=============================================================================
