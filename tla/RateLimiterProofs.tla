-------------------------- MODULE RateLimiterProofs --------------------------
(***************************************************************************)
(* The rate limiter keeps its types and implements Politeness, for any     *)
(* number of callers, any interval and any jitter.                         *)
(***************************************************************************)
EXTENDS RateLimiter, TLAPS

Outside == {"idle", "lock"}
Permitted == {"send", "request", "backoff"}

(* Only the holder of the mutex is past its first line.                    *)
MutexInv == \A w \in Callers : pc[w] \notin Outside => mutex = w

(* A sleep lasts until the interval is over, a date is set after it, and   *)
(* a call that is to send another request has one left.                    *)
CallInv ==
  \A w \in Callers :
    /\ pc[w] = "sleep" => since + wait >= Interval
    /\ pc[w] = "date" => since >= Interval
    /\ pc[w] \in {"send", "backoff"} => attempt < MaxAttempts

Inv == TypeOK /\ MutexInv /\ CallInv

Quiet == IF since < Interval THEN since ELSE Interval
Sending == \E w \in Callers : pc[w] \in Permitted
Allowed == IF Sending THEN MaxAttempts - attempt ELSE 0
Busy == \E w \in Callers : pc[w] = "request"

LEMMA InvInit == Init => Inv
BY RateLimiterAssumption
   DEF Init, Inv, TypeOK, MutexInv, CallInv, Far, MaxAttempts, Outside

LEMMA InvStep == Inv /\ [Next]_vars => Inv'
<1> SUFFICES ASSUME Inv, [Next]_vars
             PROVE  Inv'
  OBVIOUS
<1> USE RateLimiterAssumption DEF Inv, TypeOK, MutexInv, CallInv, Far, MaxAttempts, Outside
<1>1. CASE Tick
  BY <1>1 DEF Tick
<1>2. ASSUME NEW w \in Callers, Call(w) \/ Lock(w)
      PROVE  Inv'
  BY <1>2 DEF Call, Lock, Goto
<1>3. ASSUME NEW w \in Callers, Measure(w)
      PROVE  Inv'
  BY <1>3 DEF Measure, Goto
<1>4. ASSUME NEW w \in Callers, Wake(w) \/ SetLastFetch(w) \/ Send(w)
      PROVE  Inv'
  BY <1>4 DEF Wake, SetLastFetch, Send, Goto
<1>5. ASSUME NEW w \in Callers, Return(w) \/ FailRequest(w) \/ Retry(w)
      PROVE  Inv'
  BY <1>5 DEF Return, FailRequest, Retry, Goto
<1>6. CASE UNCHANGED vars
  BY <1>6 DEF vars
<1> QED BY <1>1, <1>2, <1>3, <1>4, <1>5, <1>6 DEF Next, Fetch

(* The calls exclude each other, sleep long enough and count their         *)
(* requests.                                                               *)
THEOREM CallsCorrect == Spec => []Inv
BY InvInit, InvStep, PTL DEF Spec

(* Line, mutex, times and attempt keep their types.                        *)
THEOREM TypeCorrect == Spec => []TypeOK
<1>1. Inv => TypeOK
  BY DEF Inv
<1> QED BY <1>1, CallsCorrect, PTL

-----------------------------------------------------------------------------
(* A caller past the first line stands for all: the others are outside.    *)
LEMMA Alone ==
  ASSUME Inv, NEW w \in Callers, pc[w] \notin Outside
  PROVE  /\ \A v \in Callers : v # w => pc[v] \in Outside
         /\ Sending <=> pc[w] \in Permitted
         /\ Busy <=> pc[w] = "request"
BY DEF Inv, MutexInv, Sending, Busy, Permitted, Outside

LEMMA PoliteInit == Init => P!Init
BY RateLimiterAssumption DEF Init, P!Init, Far

LEMMA Booleans == Busy \in BOOLEAN /\ Busy' \in BOOLEAN
BY DEF Busy

(* A call outside the critical section changes nothing the site sees.      *)
LEMMA OutsideStep ==
  ASSUME Inv, NEW w \in Callers, Call(w) \/ Lock(w)
  PROVE  Quiet' = Quiet /\ Allowed' = Allowed /\ Busy' = Busy
<1>1. \A v \in Callers : /\ pc'[v] \in Permitted <=> pc[v] \in Permitted
                         /\ pc'[v] = "request" <=> pc[v] = "request"
  BY DEF Call, Lock, Goto, Inv, TypeOK, Permitted
<1>2. (Sending' <=> Sending) /\ (Busy' <=> Busy)
  BY <1>1 DEF Sending, Busy
<1>3. Busy' = Busy
  BY <1>2, Booleans
<1>4. Allowed' = Allowed
  <2>1. attempt' = attempt
    BY DEF Call, Lock
  <2> QED BY <1>2, <2>1 DEF Allowed
<1>5. Quiet' = Quiet
  BY DEF Call, Lock, Quiet
<1> QED BY <1>3, <1>4, <1>5

(* What the step of the holder does to what the site sees.                 *)
LEMMA HolderStep ==
  ASSUME Inv, Inv', NEW w \in Callers, Fetch(w)
  PROVE  /\ Sending <=> pc[w] \in Permitted
         /\ Busy <=> pc[w] = "request"
         /\ Sending' <=> pc'[w] \in Permitted
         /\ Busy' <=> pc'[w] = "request"
<1> USE DEF Fetch, Measure, Wake, SetLastFetch, Send, Return, FailRequest, Retry
<1>1. pc[w] \notin Outside
  BY DEF Outside
<1>2. \A v \in Callers : v # w => pc[v] \in Outside /\ pc'[v] = pc[v]
  BY <1>1, Alone DEF Goto, Inv, TypeOK
<1> QED BY <1>1, <1>2, Alone DEF Sending, Busy, Permitted, Outside

(* Until its date is set, a call keeps quiet.                              *)
LEMMA QuietStep ==
  ASSUME Inv, Inv', NEW w \in Callers, Measure(w) \/ Wake(w) \/ Retry(w)
  PROVE  Quiet' = Quiet /\ Allowed' = Allowed /\ Busy' = Busy
<1>1. /\ (pc[w] \in Permitted <=> pc'[w] \in Permitted)
      /\ pc[w] # "request" /\ pc'[w] # "request"
  BY DEF Measure, Wake, Retry, Goto, Inv, TypeOK, Permitted
<1>2. (Sending' <=> Sending) /\ ~Busy /\ ~Busy'
  BY <1>1, HolderStep DEF Fetch
<1>3. Busy' = Busy
  BY <1>2, Booleans
<1>4. since' = since /\ attempt' = attempt
  BY DEF Measure, Wake, Retry
<1> QED BY <1>2, <1>3, <1>4 DEF Quiet, Allowed

LEMMA PermitStep ==
  ASSUME Inv, Inv', NEW w \in Callers, SetLastFetch(w)
  PROVE  /\ Quiet = Interval /\ ~Busy
         /\ Quiet' = 0 /\ Allowed' = MaxAttempts /\ Busy' = Busy
<1>1. pc[w] = "date" /\ pc'[w] = "send" /\ since' = 0 /\ attempt' = 0
  BY DEF SetLastFetch, Goto, Inv, TypeOK
<1>2. Sending' /\ ~Busy /\ ~Busy'
  BY <1>1, HolderStep DEF Fetch, Permitted
<1>3. Busy' = Busy
  BY <1>2, Booleans
<1>4. Quiet = Interval /\ Quiet' = 0
  BY <1>1, RateLimiterAssumption DEF Quiet, Inv, CallInv, TypeOK, Far
<1>5. Allowed' = MaxAttempts
  BY <1>1, <1>2 DEF Allowed, MaxAttempts
<1> QED BY <1>2, <1>3, <1>4, <1>5

LEMMA RequestStep ==
  ASSUME Inv, Inv', NEW w \in Callers, Send(w)
  PROVE  /\ ~Busy /\ Allowed > 0
         /\ Quiet' = Quiet /\ Allowed' = Allowed - 1 /\ Busy' = TRUE
<1>1. /\ pc[w] = "send" /\ pc'[w] = "request"
      /\ since' = since /\ attempt' = attempt + 1
  BY DEF Send, Goto, Inv, TypeOK
<1>2. Sending /\ Sending' /\ ~Busy /\ Busy'
  BY <1>1, HolderStep DEF Fetch, Permitted
<1>3. Busy' = TRUE
  BY <1>2, Booleans
<1>4. Allowed > 0 /\ Allowed' = Allowed - 1
  BY <1>1, <1>2 DEF Allowed, MaxAttempts, Inv, CallInv, TypeOK
<1>5. Quiet' = Quiet
  BY <1>1 DEF Quiet
<1> QED BY <1>2, <1>3, <1>4, <1>5

LEMMA AnswerStep ==
  ASSUME Inv, Inv', NEW w \in Callers, Return(w) \/ FailRequest(w)
  PROVE  /\ Busy
         /\ Quiet' = Quiet /\ Allowed' \in {0, Allowed} /\ Busy' = FALSE
<1>1. /\ pc[w] = "request" /\ pc'[w] \in {"idle", "backoff"}
      /\ since' = since /\ attempt' = attempt
  BY DEF Return, FailRequest, Goto, Inv, TypeOK
<1>2. Sending /\ Busy /\ ~Busy'
  BY <1>1, HolderStep DEF Fetch, Permitted
<1>3. Busy' = FALSE
  BY <1>2, Booleans
<1>4. Allowed' \in {0, Allowed}
  BY <1>1, <1>2 DEF Allowed
<1>5. Quiet' = Quiet
  BY <1>1 DEF Quiet
<1> QED BY <1>2, <1>3, <1>4, <1>5

LEMMA TickStep ==
  ASSUME Inv, Tick
  PROVE  /\ Allowed' = Allowed /\ Busy' = Busy
         /\ Quiet' = Quiet \/ (Quiet < Interval /\ Quiet' = Quiet + 1)
<1>1. pc' = pc /\ attempt' = attempt
  BY DEF Tick
<1>2. (Sending' <=> Sending) /\ (Busy' <=> Busy)
  BY <1>1 DEF Sending, Busy
<1>3. Busy' = Busy
  BY <1>2, Booleans
<1>4. Allowed' = Allowed
  BY <1>1, <1>2 DEF Allowed
<1>5. Quiet' = Quiet \/ (Quiet < Interval /\ Quiet' = Quiet + 1)
  BY RateLimiterAssumption DEF Tick, Quiet, Inv, TypeOK, Far
<1> QED BY <1>3, <1>4, <1>5

LEMMA PoliteStep == Inv /\ [Next]_vars => [P!Next]_(P!politeVars)
<1> SUFFICES ASSUME Inv, [Next]_vars
             PROVE  [P!Next]_(P!politeVars)
  OBVIOUS
<1> USE DEF P!Next, P!politeVars, Quiet, Allowed, Busy, Sending, Permitted
<1>1. Inv'
  BY InvStep
<1>2. CASE Tick
  BY <1>2, TickStep DEF P!Tick
<1>3. ASSUME NEW w \in Callers, Call(w) \/ Lock(w)
      PROVE  UNCHANGED P!politeVars
  BY <1>3, OutsideStep
<1>4. ASSUME NEW w \in Callers, Measure(w) \/ Wake(w) \/ Retry(w)
      PROVE  UNCHANGED P!politeVars
  BY <1>1, <1>4, QuietStep
<1>5. ASSUME NEW w \in Callers, SetLastFetch(w)
      PROVE  P!Permit
  BY <1>1, <1>5, PermitStep DEF P!Permit
<1>6. ASSUME NEW w \in Callers, Send(w)
      PROVE  P!Request
  BY <1>1, <1>6, RequestStep DEF P!Request
<1>7. ASSUME NEW w \in Callers, Return(w) \/ FailRequest(w)
      PROVE  P!Answer
  BY <1>1, <1>7, AnswerStep DEF P!Answer
<1>8. CASE UNCHANGED vars
  BY <1>8 DEF vars
<1> QED BY <1>2, <1>3, <1>4, <1>5, <1>6, <1>7, <1>8 DEF Next, Fetch

(* Two calls are an interval apart, their requests come one at a time and  *)
(* no call makes more than three, for any callers, interval and jitter.    *)
THEOREM PolitenessCorrect == Spec => StaysPolite
BY PoliteInit, PoliteStep, CallsCorrect, PTL DEF Spec, StaysPolite, P!Spec
=============================================================================
