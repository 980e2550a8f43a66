---------------------------- MODULE RateLimiter ----------------------------
(***************************************************************************)
(* The token buckets in front of POST /app/evaluate (app/rate_limiter.py), *)
(* in a server that limits: the mode of production.                        *)
(*                                                                         *)
(* A unit of time is what it takes to earn one unit of credit, so a token  *)
(* is Cost units (60 s / requests_per_minute) and refilling is addition.   *)
(* check() has no await and the routes run on one event loop: a check is   *)
(* one step.                                                               *)
(***************************************************************************)
EXTENDS Integers

CONSTANTS
  Callers,       \* client addresses
  Cost,          \* one token, in units of credit
  Burst,         \* burst_size
  StaleAfter,    \* stale_threshold
  CleanupEvery,  \* _cleanup_interval
  Absent,        \* no bucket, no answer, no promise
  LastMoment     \* bound: the clock stops here

Capacity == Burst * Cost

\* A bucket is forgotten only after the time in which an empty one fills up
\* (300 s against 18 s in the code).
ASSUME RateAssumption ==
  /\ Cost \in Nat \ {0} /\ Burst \in Nat \ {0}
  /\ StaleAfter \in Nat /\ CleanupEvery \in Nat
  /\ Capacity \in Nat /\ Capacity <= StaleAfter
  /\ LastMoment \in Nat
  /\ Absent \notin Callers \cup Int
  /\ Absent \notin [tokens : Int, last_refill : Int]

VARIABLES
  moment,        \* time.time()
  buckets,       \* RateLimiter._buckets, Absent where there is no entry
  last_cleanup,  \* RateLimiter._last_cleanup
  reply,         \* last answer of RateLimiter.check
  promise,       \* history: when the last refusal told a client to come back
  window         \* history: admissions of one client from some moment on

code == <<moment, buckets, last_cleanup, reply>>
vars == <<code, promise, window>>

\* The limiter is created when web.py is imported.
RateInit ==
  /\ moment = 0
  /\ buckets = [c \in Callers |-> Absent]
  /\ last_cleanup = moment
  /\ reply = Absent
  /\ promise = [c \in Callers |-> Absent]
  /\ window \in [client : Callers, from : {0}, admitted : {0}]

-----------------------------------------------------------------------------
(* TokenBucket and RateLimiter.check                                       *)

\* Mutant: a bucket idle for one cleanup interval is thrown away.
MutCleaned(t) ==
  IF t - last_cleanup > CleanupEvery
  THEN [c \in Callers |->
          IF buckets[c] # Absent /\ t - buckets[c].last_refill > CleanupEvery
          THEN Absent ELSE buckets[c]]
  ELSE buckets

\* _cleanup_stale_buckets, when it is due
Cleaned(t) ==
  IF t - last_cleanup > CleanupEvery
  THEN [c \in Callers |->
          IF buckets[c] # Absent /\ t - buckets[c].last_refill > StaleAfter
          THEN Absent ELSE buckets[c]]
  ELSE buckets

\* The first half of TokenBucket.consume.
Refilled(b, t) ==
  LET earned == b.tokens + (t - b.last_refill)
  IN  [tokens |-> IF earned < Capacity THEN earned ELSE Capacity, last_refill |-> t]

\* The bucket a check finds, refilled; a new one starts full.
BucketAt(c, t) ==
  LET b == Cleaned(t)[c]
  IN  Refilled(IF b = Absent THEN [tokens |-> Capacity, last_refill |-> t] ELSE b, t)

\* Mutant: more than a whole token is needed.
MutAllowed(c, t) == BucketAt(c, t).tokens > Cost

Allowed(c, t) == BucketAt(c, t).tokens >= Cost

\* Mutant: the time a whole token takes, whatever the bucket holds.
MutRetryAfter(b) == Cost

RetryAfter(b) == Cost - b.tokens

Check(c) ==
  LET b == BucketAt(c, moment)
      ok == Allowed(c, moment)
  IN  /\ buckets' = [Cleaned(moment) EXCEPT
                       ![c] = IF ok THEN [b EXCEPT !.tokens = @ - Cost] ELSE b]
      /\ last_cleanup' = IF moment - last_cleanup > CleanupEvery THEN moment ELSE last_cleanup
      /\ reply' = [client |-> c, allowed |-> ok]
      /\ promise' = [promise EXCEPT ![c] = IF ok THEN Absent ELSE moment + RetryAfter(b)]
      /\ window' = IF ok /\ window.client = c
                   THEN [window EXCEPT !.admitted = @ + 1] ELSE window
      /\ UNCHANGED moment

NextMoment ==
  /\ moment < LastMoment
  /\ moment' = moment + 1
  /\ UNCHANGED <<buckets, last_cleanup, reply, promise, window>>

\* An observer starts counting the admissions of a client.
Observe(c) ==
  /\ window' = [client |-> c, from |-> moment, admitted |-> 0]
  /\ UNCHANGED <<code, promise>>

RateNext ==
  \/ NextMoment
  \/ \E c \in Callers : Check(c) \/ Observe(c)

RateSpec == RateInit /\ [][RateNext]_vars

-----------------------------------------------------------------------------
(* Properties                                                              *)

\* The variables have their types: a bucket never holds less than nothing or
\* more than the burst, and neither it nor the cleanup is from the future.
RateTypeOK ==
  /\ moment \in Nat /\ last_cleanup \in 0..moment
  /\ buckets \in [Callers -> {Absent} \cup [tokens : 0..Capacity, last_refill : 0..moment]]
  /\ reply = Absent \/ reply \in [client : Callers, allowed : BOOLEAN]
  /\ promise \in [Callers -> Int \cup {Absent}]
  /\ window \in [client : Callers, from : 0..moment, admitted : Nat]

\* Between any two moments a client gets at most burst_size requests plus one
\* per Cost of the time between them, although its bucket may be dropped and
\* created anew on the way ("10 requests/minute per IP", web.py).
RateBound == (window.admitted - Burst) * Cost <= moment - window.from

\* retry_after is exact: until its next admission a refused client is let in
\* when it comes back at that time or later, and refused before, no matter
\* what others and the cleanup do meanwhile.
RetryAfterIsExact ==
  [][\A c \in Callers :
       Check(c) /\ promise[c] # Absent => (reply'.allowed <=> moment >= promise[c])]_vars

\* No bucket outlives its client for long: a check leaves none that has been
\* idle for more than the threshold and one cleanup interval.
IdleBucketsGo ==
  [][\A c \in Callers :
       Check(c) => \A d \in Callers : buckets'[d] # Absent =>
                     moment - buckets'[d].last_refill <= StaleAfter + CleanupEvery]_vars

\* What a client with bucket b owes at time t: the credit the bucket lacks.
Owed(b, t) ==
  IF b = Absent THEN 0
  ELSE LET missing == Capacity - b.tokens - (t - b.last_refill)
       IN  IF missing > 0 THEN missing ELSE 0

Debt(c) == Owed(buckets[c], moment)

Leaky == INSTANCE LeakyBucket WITH Clients <- Callers, debt <- [c \in Callers |-> Debt(c)]

\* The limiter implements LeakyBucket: creating, lazily refilling and
\* forgetting buckets cannot be seen from the answers.
ImplementsLeakyBucket == Leaky!LeakySpec

=============================================================================
