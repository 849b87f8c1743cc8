---------------------------- MODULE RateLimiter ------------------------------
(***************************************************************************)
(* RateLimiter.Fetch (foundation/scraper/rate_limiter.go), called by       *)
(* several goroutines for one source.  A call holds the mutex from its     *)
(* first line to its return, its sleeps and its requests included.         *)
(*                                                                         *)
(* Time is counted in the base of the backoff.  A sleep may last longer    *)
(* than asked for, and a goroutine may be held up between any two lines.   *)
(***************************************************************************)
EXTENDS Integers

CONSTANTS
  Callers,     \* goroutines
  Nobody,      \* the holder of a free mutex
  Interval,    \* Source.RateLimit
  MaxJitter    \* the largest jitter

ASSUME RateLimiterAssumption ==
  /\ Nobody \notin Callers
  /\ Interval \in Nat
  /\ MaxJitter \in Nat

MaxAttempts == 3

(* Time since the last fetch counts up to what no fetch needs to wait for; *)
(* the zero lastFetchTime of a new limiter is that far.                    *)
Far == Interval + MaxJitter

VARIABLES
  pc,        \* pc[w]: the line of Fetch caller w is at
  mutex,     \* rl.mu: its holder
  since,     \* time since rl.lastFetchTime, up to Far
  wait,      \* what is left of the holder's sleep
  attempt    \* the holder's requests so far

vars == <<pc, mutex, since, wait, attempt>>

Goto(w, line) == pc' = [pc EXCEPT ![w] = line]

Init ==
  /\ pc = [w \in Callers |-> "idle"]
  /\ mutex = Nobody
  /\ since = Far
  /\ wait = 0
  /\ attempt = 0

Tick ==
  /\ since' = IF since < Far THEN since + 1 ELSE since
  /\ wait' = IF wait > 0 THEN wait - 1 ELSE 0
  /\ UNCHANGED <<pc, mutex, attempt>>

Call(w) ==
  /\ pc[w] = "idle"
  /\ Goto(w, "lock")
  /\ UNCHANGED <<mutex, since, wait, attempt>>

(* Mutant: the mutex not taken.                                            *)
LockNothing(w) ==
  /\ pc[w] = "lock"
  /\ Goto(w, "measure")
  /\ UNCHANGED <<mutex, since, wait, attempt>>

Lock(w) ==
  /\ pc[w] = "lock"
  /\ mutex = Nobody
  /\ mutex' = w
  /\ Goto(w, "measure")
  /\ UNCHANGED <<since, wait, attempt>>

(* The time since the last fetch is measured and the jitter drawn; the     *)
(* call sleeps for what is missing from the interval and the jitter.       *)
Measure(w) ==
  /\ pc[w] = "measure"
  /\ \E jitter \in 0..MaxJitter :
       \/ /\ since < Interval + jitter
          /\ wait' = Interval + jitter - since
          /\ Goto(w, "sleep")
       \/ /\ since >= Interval + jitter
          /\ Goto(w, "date")
          /\ UNCHANGED wait
  /\ UNCHANGED <<mutex, since, attempt>>

Wake(w) ==
  /\ pc[w] = "sleep"
  /\ wait = 0
  /\ Goto(w, "date")
  /\ UNCHANGED <<mutex, since, wait, attempt>>

(* lastFetchTime is set before the requests.                               *)
SetLastFetch(w) ==
  /\ pc[w] = "date"
  /\ since' = 0
  /\ attempt' = 0
  /\ Goto(w, "send")
  /\ UNCHANGED <<mutex, wait>>

Send(w) ==
  /\ pc[w] = "send"
  /\ attempt' = attempt + 1
  /\ Goto(w, "request")
  /\ UNCHANGED <<mutex, since, wait>>

(* Mutant: the mutex is not released after the last attempt.               *)
ReturnLocked(w) ==
  /\ pc[w] = "request"
  /\ mutex' = IF attempt = MaxAttempts THEN mutex ELSE Nobody
  /\ Goto(w, "idle")
  /\ UNCHANGED <<since, wait, attempt>>

(* The request succeeds, or it is the last one and fails: Fetch returns.   *)
Return(w) ==
  /\ pc[w] = "request"
  /\ mutex' = Nobody
  /\ Goto(w, "idle")
  /\ UNCHANGED <<since, wait, attempt>>

(* Mutant: one attempt too many.                                           *)
FailRequestOnceMore(w) ==
  /\ pc[w] = "request"
  /\ attempt <= MaxAttempts
  /\ wait' = IF attempt = 1 THEN 1 ELSE 2
  /\ Goto(w, "backoff")
  /\ UNCHANGED <<mutex, since, attempt>>

(* The request fails, as every error does transiently, and is tried again  *)
(* after one base of the backoff, then after two.                          *)
FailRequest(w) ==
  /\ pc[w] = "request"
  /\ attempt < MaxAttempts
  /\ wait' = IF attempt = 1 THEN 1 ELSE 2
  /\ Goto(w, "backoff")
  /\ UNCHANGED <<mutex, since, attempt>>

Retry(w) ==
  /\ pc[w] = "backoff"
  /\ wait = 0
  /\ Goto(w, "send")
  /\ UNCHANGED <<mutex, since, wait, attempt>>

(* The steps of a call that holds the mutex.                               *)
Fetch(w) ==
  \/ Measure(w) \/ Wake(w) \/ SetLastFetch(w) \/ Send(w)
  \/ Return(w) \/ FailRequest(w) \/ Retry(w)

Next == Tick \/ \E w \in Callers : Call(w) \/ Lock(w) \/ Fetch(w)

Spec == Init /\ [][Next]_vars

(* Time passes; a goroutine is scheduled, and its requests are answered;   *)
(* a Go mutex hands itself to a goroutine that has waited long enough.     *)
FairSpec ==
  /\ Spec
  /\ WF_vars(Tick)
  /\ \A w \in Callers : WF_vars(Fetch(w)) /\ SF_vars(Lock(w))

-----------------------------------------------------------------------------
TypeOK ==
  /\ pc \in [Callers -> {"idle", "lock", "measure", "sleep", "date", "send", "request",
                         "backoff"}]
  /\ mutex \in Callers \cup {Nobody}
  /\ since \in 0..Far
  /\ wait \in Nat
  /\ attempt \in 0..MaxAttempts

(* The site is treated politely: however the calls interleave and their    *)
(* requests fail, two calls are an interval apart, their requests come one *)
(* at a time, and no call makes more than three.                           *)
P == INSTANCE Politeness WITH
       quiet <- IF since < Interval THEN since ELSE Interval,
       allowed <- IF \E w \in Callers : pc[w] \in {"send", "request", "backoff"}
                  THEN MaxAttempts - attempt
                  ELSE 0,
       busy <- \E w \in Callers : pc[w] = "request"

StaysPolite == P!Spec

(* Every call returns, however many others wait for the mutex and however  *)
(* often its requests fail.                                                *)
CallsReturn == \A w \in Callers : pc[w] = "lock" ~> pc[w] = "idle"
=============================================================================
