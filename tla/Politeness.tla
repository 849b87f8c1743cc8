----------------------------- MODULE Politeness ------------------------------
(***************************************************************************)
(* What the rate limiter promises the broker's site, whoever fetches: the  *)
(* requests come one at a time, each on a permit; a permit is given only   *)
(* an interval after the one before, and is good for a first request and   *)
(* its retries, until one of them is answered well or all are used up.     *)
(***************************************************************************)
EXTENDS Naturals

CONSTANTS
  Interval,     \* the time between two permits
  MaxAttempts   \* the requests a permit is good for

VARIABLES
  quiet,     \* time since the last permit, up to Interval
  allowed,   \* requests the permit is still good for
  busy       \* whether a request is at the site

politeVars == <<quiet, allowed, busy>>

Init ==
  /\ quiet = Interval
  /\ allowed = 0
  /\ busy = FALSE

Tick ==
  /\ quiet < Interval
  /\ quiet' = quiet + 1
  /\ UNCHANGED <<allowed, busy>>

Permit ==
  /\ quiet = Interval
  /\ ~busy
  /\ quiet' = 0
  /\ allowed' = MaxAttempts
  /\ UNCHANGED busy

Request ==
  /\ ~busy
  /\ allowed > 0
  /\ busy' = TRUE
  /\ allowed' = allowed - 1
  /\ UNCHANGED quiet

Answer ==
  /\ busy
  /\ busy' = FALSE
  /\ allowed' \in {0, allowed}
  /\ UNCHANGED quiet

Next == Tick \/ Permit \/ Request \/ Answer

Spec == Init /\ [][Next]_politeVars
=============================================================================
