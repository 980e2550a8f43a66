------------------------- MODULE Evaluation_proofs --------------------------
(***************************************************************************)
(* What stands before an evaluation and what it may claim.  The limiter in *)
(* front of POST /app/evaluate implements LeakyBucket and keeps its        *)
(* promises, for all costs, bursts, thresholds and numbers of clients; an  *)
(* audit is passed, translated and shown as proof only when it was earned, *)
(* for all texts, claims, evidence and flags; and the panels of a response *)
(* agree with each other, for all texts, tables of keywords and rosters.   *)
(***************************************************************************)
EXTENDS RateLimiter, Evaluation, FiniteSetTheorems, TLAPS

-----------------------------------------------------------------------------
(* The limiter (RateLimiter.tla).                                          *)

Bucket(t) == [tokens : 0..Capacity, last_refill : 0..t]

\* A refused client's bucket holds exactly one token at the promised time, or
\* is gone because that time is long past.
PromiseInv ==
  \A c \in Callers : promise[c] # Absent =>
    IF buckets[c] = Absent THEN promise[c] <= moment
    ELSE buckets[c].tokens + (promise[c] - buckets[c].last_refill) = Cost

\* The last cleanup left no stale bucket.
CleanupInv ==
  \A c \in Callers : buckets[c] # Absent =>
    last_cleanup - buckets[c].last_refill <= StaleAfter

\* What was admitted since the window began is still owed or was paid by time.
WindowInv == window.admitted * Cost <= Debt(window.client) + (moment - window.from)

RateInv == RateTypeOK /\ PromiseInv /\ CleanupInv /\ WindowInv

-----------------------------------------------------------------------------
(* A check seen from the debt.                                             *)

\* A full bucket holds at least one token.
LEMMA CostFits == Cost \in Int /\ Capacity \in Int /\ 0 < Cost /\ Cost <= Capacity
<1>1. Cost \in Nat \ {0} /\ Burst \in Nat \ {0} /\ Capacity \in Nat
  BY RateAssumption
<1>2. \A m, n \in Nat \ {0} : n <= m * n
  BY Z3
<1>3. QED BY <1>1, <1>2 DEF Capacity

\* Throwing a stale bucket away forgives no debt: it has none left.
LEMMA CleanupForgivesNothing ==
  ASSUME RateTypeOK, NEW c \in Callers
  PROVE  /\ Cleaned(moment)[c] \in {Absent, buckets[c]}
         /\ Cleaned(moment)[c] # buckets[c] =>
              buckets[c] # Absent /\ moment - buckets[c].last_refill > StaleAfter
         /\ Owed(Cleaned(moment)[c], moment) = Debt(c)
<1>1. /\ Cleaned(moment)[c] \in {Absent, buckets[c]}
      /\ Cleaned(moment)[c] # buckets[c] =>
           buckets[c] # Absent /\ moment - buckets[c].last_refill > StaleAfter
  BY DEF Cleaned
<1>2. CASE Cleaned(moment)[c] = buckets[c]
  BY <1>1, <1>2 DEF Debt
<1>3. CASE Cleaned(moment)[c] # buckets[c]
  <2>1. buckets[c] \in Bucket(moment) /\ moment - buckets[c].last_refill > StaleAfter
    BY <1>1, <1>3 DEF RateTypeOK, Bucket
  <2>2. buckets[c].tokens \in 0..Capacity /\ buckets[c].last_refill \in 0..moment /\ moment \in Nat
    BY <2>1 DEF RateTypeOK, Bucket
  <2>3. Capacity - buckets[c].tokens - (moment - buckets[c].last_refill) <= 0
    BY <2>1, <2>2, CostFits, RateAssumption
  <2>4. Debt(c) = 0
    BY <2>1, <2>2, <2>3, CostFits DEF Debt, Owed
  <2>5. Owed(Absent, moment) = 0
    BY DEF Owed
  <2>6. QED BY <1>1, <1>3, <2>4, <2>5
<1>4. QED BY <1>2, <1>3

\* The refilled bucket lacks what the client owes.
LEMMA RefilledBucket ==
  ASSUME RateTypeOK, NEW c \in Callers
  PROVE  /\ BucketAt(c, moment) \in Bucket(moment)
         /\ BucketAt(c, moment).last_refill = moment
         /\ BucketAt(c, moment).tokens = Capacity - Debt(c)
         /\ Debt(c) \in 0..Capacity
<1> DEFINE b == Cleaned(moment)[c]
           found == IF b = Absent THEN [tokens |-> Capacity, last_refill |-> moment] ELSE b
<1>1. b \in {Absent} \cup Bucket(moment) /\ Owed(b, moment) = Debt(c) /\ moment \in Nat
  BY CleanupForgivesNothing DEF RateTypeOK, Bucket
<1>2. found \in Bucket(moment)
  BY <1>1, CostFits DEF Bucket
<1>3. BucketAt(c, moment) = Refilled(found, moment)
  BY DEF BucketAt
<1>4. /\ Refilled(found, moment).last_refill = moment
      /\ Refilled(found, moment) \in Bucket(moment)
      /\ Refilled(found, moment).tokens = Capacity - Owed(found, moment)
      /\ Owed(found, moment) \in 0..Capacity
  <2> HIDE DEF found
  <2>1. found # Absent /\ found.tokens \in 0..Capacity /\ found.last_refill \in 0..moment
    BY <1>2, RateAssumption DEF Bucket
  <2>2. QED BY <2>1, <1>1, CostFits DEF Refilled, Owed, Bucket
<1>5. Owed(found, moment) = Owed(b, moment)
  BY <1>1, CostFits DEF Owed
<1>6. QED BY <1>1, <1>3, <1>4, <1>5

\* A request is let in exactly when its cost fits on top of the debt.
LEMMA AllowedFits ==
  ASSUME RateTypeOK, NEW c \in Callers
  PROVE  /\ Allowed(c, moment) \in BOOLEAN
         /\ Allowed(c, moment) <=> Debt(c) + Cost <= Capacity
BY RefilledBucket, CostFits DEF Allowed

\* A check changes the caller's debt by its cost, if it fits, and nobody else's.
LEMMA CheckDebt ==
  ASSUME RateTypeOK, NEW c \in Callers, Check(c), NEW d \in Callers
  PROVE  Debt(d)' = IF d = c /\ Allowed(c, moment) THEN Debt(d) + Cost ELSE Debt(d)
<1> DEFINE b == BucketAt(c, moment)
           left == IF Allowed(c, moment) THEN [b EXCEPT !.tokens = @ - Cost] ELSE b
<1>1. moment' = moment /\ moment \in Nat
  BY DEF Check, RateTypeOK
<1>2. buckets'[d] = IF d = c THEN left ELSE Cleaned(moment)[d]
  BY DEF Check, Cleaned, RateTypeOK
<1>3. Debt(d)' = Owed(buckets'[d], moment)
  BY <1>1 DEF Debt, Owed
<1>4. CASE d # c
  BY <1>2, <1>3, <1>4, CleanupForgivesNothing
<1>5. CASE d = c
  <2>1. /\ b \in Bucket(moment) /\ b.last_refill = moment /\ b.tokens = Capacity - Debt(c)
        /\ Debt(c) \in 0..Capacity
    BY RefilledBucket
  <2>2. Allowed(c, moment) <=> Debt(c) + Cost <= Capacity
    BY AllowedFits
  <2> HIDE DEF b
  <2>3. CASE Allowed(c, moment)
    <3>1. left = [b EXCEPT !.tokens = @ - Cost]
      BY <2>3
    <3>2. left # Absent /\ left.tokens = Capacity - Debt(c) - Cost /\ left.last_refill = moment
      BY <3>1, <2>1, CostFits, RateAssumption DEF Bucket
    <3>3. Owed(left, moment) = Debt(c) + Cost
      BY <3>2, <2>1, <2>2, <2>3, <1>1, CostFits DEF Owed
    <3>4. QED BY <3>3, <1>2, <1>3, <1>5, <2>3
  <2>4. CASE ~Allowed(c, moment)
    <3>1. b # Absent
      BY <2>1, RateAssumption DEF Bucket
    <3>2. Owed(b, moment) = Debt(c)
      BY <3>1, <2>1, <1>1, CostFits DEF Owed
    <3>3. QED BY <3>2, <1>2, <1>3, <1>5, <2>4
  <2>5. QED BY <2>3, <2>4
<1>6. QED BY <1>4, <1>5

\* One unit of time pays one unit of everybody's debt.
LEMMA TickDebt ==
  ASSUME RateTypeOK, NextMoment, NEW c \in Callers
  PROVE  Debt(c)' = IF Debt(c) > 0 THEN Debt(c) - 1 ELSE 0
<1>1. moment \in Nat /\ moment' = moment + 1 /\ buckets' = buckets
  BY DEF RateTypeOK, NextMoment
<1>2. CASE buckets[c] = Absent
  BY <1>1, <1>2 DEF Debt, Owed
<1>3. CASE buckets[c] # Absent
  <2>1. buckets[c].tokens \in 0..Capacity /\ buckets[c].last_refill \in 0..moment
    BY <1>3 DEF RateTypeOK
  <2>2. QED BY <1>1, <1>3, <2>1, CostFits DEF Debt, Owed
<1>4. QED BY <1>2, <1>3

-----------------------------------------------------------------------------
(* The inductive invariant.                                                *)

LEMMA RateInitInv == RateInit => RateInv
<1> SUFFICES ASSUME RateInit PROVE RateInv
  OBVIOUS
<1>1. RateTypeOK
  BY RateAssumption DEF RateInit, RateTypeOK
<1>2. PromiseInv /\ CleanupInv
  BY DEF RateInit, PromiseInv, CleanupInv
<1>3. WindowInv
  <2>1. window.client \in Callers /\ window.from = 0 /\ window.admitted = 0 /\ moment = 0
    BY DEF RateInit
  <2>2. Debt(window.client) = 0
    BY <2>1 DEF RateInit, Debt, Owed
  <2>3. QED BY <2>1, <2>2, CostFits DEF WindowInv
<1>4. QED BY <1>1, <1>2, <1>3 DEF RateInv

\* What a check leaves in the buckets.
LEMMA CheckBuckets ==
  ASSUME RateTypeOK, NEW c \in Callers, Check(c), NEW d \in Callers
  PROVE  /\ d # c => buckets'[d] = Cleaned(moment)[d]
         /\ d = c => /\ buckets'[c].last_refill = moment
                     /\ buckets'[c].tokens = Capacity - Debt(c)'
                     /\ buckets'[c] \in Bucket(moment)
<1> DEFINE b == BucketAt(c, moment)
           left == IF Allowed(c, moment) THEN [b EXCEPT !.tokens = @ - Cost] ELSE b
<1>1. buckets'[d] = IF d = c THEN left ELSE Cleaned(moment)[d]
  BY DEF Check, Cleaned, RateTypeOK
<1>2. CASE d = c
  <2>1. /\ b \in Bucket(moment) /\ b.last_refill = moment /\ b.tokens = Capacity - Debt(c)
        /\ Debt(c) \in 0..Capacity
    BY RefilledBucket
  <2>2. Allowed(c, moment) <=> Debt(c) + Cost <= Capacity
    BY AllowedFits
  <2>3. Debt(c)' = IF Allowed(c, moment) THEN Debt(c) + Cost ELSE Debt(c)
    BY CheckDebt
  <2> HIDE DEF b
  <2>4. /\ left.last_refill = moment /\ left.tokens = Capacity - Debt(c)'
        /\ left \in Bucket(moment)
    <3>1. CASE Allowed(c, moment)
      <4>1. left = [b EXCEPT !.tokens = @ - Cost]
        BY <3>1
      <4>2. QED BY <4>1, <3>1, <2>1, <2>2, <2>3, CostFits DEF Bucket
    <3>2. CASE ~Allowed(c, moment)
      BY <3>2, <2>1, <2>3
    <3>3. QED BY <3>1, <3>2
  <2>5. QED BY <1>1, <1>2, <2>4
<1>3. CASE d # c
  BY <1>1, <1>3
<1>4. QED BY <1>2, <1>3

LEMMA CheckKeepsTypes ==
  ASSUME RateTypeOK, NEW c \in Callers, Check(c)
  PROVE  RateTypeOK'
<1>1. moment' = moment /\ moment \in Nat
  BY DEF Check, RateTypeOK
<1>2. buckets' \in [Callers -> {Absent} \cup Bucket(moment)]
  <2>1. DOMAIN buckets' = Callers /\ buckets' = [d \in Callers |-> buckets'[d]]
    BY DEF Check, Cleaned, RateTypeOK
  <2>2. ASSUME NEW d \in Callers PROVE buckets'[d] \in {Absent} \cup Bucket(moment)
    BY <2>2, CheckBuckets, CleanupForgivesNothing DEF RateTypeOK, Bucket
  <2>3. QED BY <2>1, <2>2
<1>3. last_cleanup' \in 0..moment
  BY DEF Check, RateTypeOK
<1>4. reply' \in [client : Callers, allowed : BOOLEAN]
  BY AllowedFits DEF Check
<1>5. promise' \in [Callers -> Int \cup {Absent}]
  <2>1. RetryAfter(BucketAt(c, moment)) \in Int
    BY RefilledBucket, CostFits DEF RetryAfter, Bucket
  <2>2. QED BY <2>1, <1>1 DEF Check, RateTypeOK
<1>6. window' \in [client : Callers, from : 0..moment, admitted : Nat]
  <2>1. window \in [client : Callers, from : 0..moment, admitted : Nat]
    BY DEF RateTypeOK
  <2>2. window' \in {window, [window EXCEPT !.admitted = @ + 1]}
    BY DEF Check
  <2>3. QED BY <2>1, <2>2
<1>7. QED BY <1>1, <1>2, <1>3, <1>4, <1>5, <1>6 DEF RateTypeOK, Bucket

LEMMA CheckKeepsPromises ==
  ASSUME RateInv, NEW c \in Callers, Check(c)
  PROVE  PromiseInv'
<1>1. RateTypeOK /\ PromiseInv /\ moment \in Nat /\ moment' = moment
  BY DEF RateInv, RateTypeOK, Check
<1> SUFFICES ASSUME NEW d \in Callers, promise'[d] # Absent
             PROVE  IF buckets'[d] = Absent THEN promise'[d] <= moment
                    ELSE buckets'[d].tokens + (promise'[d] - buckets'[d].last_refill) = Cost
  BY <1>1 DEF PromiseInv
<1>2. CASE d = c
  <2>1. ~Allowed(c, moment) /\ promise'[c] = moment + RetryAfter(BucketAt(c, moment))
    BY <1>1, <1>2 DEF Check, RateTypeOK
  <2>2. /\ buckets'[c].last_refill = moment /\ buckets'[c].tokens = Capacity - Debt(c)'
        /\ buckets'[c] # Absent
    BY <1>1, CheckBuckets, RateAssumption DEF Bucket
  <2>3. Debt(c)' = Debt(c) /\ BucketAt(c, moment).tokens = Capacity - Debt(c)
        /\ Debt(c) \in 0..Capacity
    BY <1>1, <2>1, CheckDebt, RefilledBucket
  <2>4. QED BY <1>1, <1>2, <2>1, <2>2, <2>3, CostFits DEF RetryAfter
<1>3. CASE d # c
  <2>1. promise'[d] = promise[d] /\ promise[d] \in Int
    BY <1>1, <1>3 DEF Check, RateTypeOK
  <2>2. buckets'[d] = Cleaned(moment)[d]
    BY <1>1, <1>3, CheckBuckets
  <2>3. CASE buckets'[d] = buckets[d]
    BY <1>1, <2>1, <2>3 DEF PromiseInv
  <2>4. CASE buckets'[d] # buckets[d]
    <3>1. /\ buckets'[d] = Absent /\ buckets[d] # Absent
          /\ moment - buckets[d].last_refill > StaleAfter
      BY <1>1, <2>2, <2>4, CleanupForgivesNothing
    <3>2. buckets[d].tokens \in 0..Capacity /\ buckets[d].last_refill \in 0..moment
      BY <1>1, <3>1 DEF RateTypeOK
    <3>3. buckets[d].tokens + (promise[d] - buckets[d].last_refill) = Cost
      BY <1>1, <2>1, <3>1, RateAssumption DEF PromiseInv
    <3>4. promise[d] <= moment
      BY <1>1, <2>1, <3>1, <3>2, <3>3, CostFits, RateAssumption
    <3>5. QED BY <2>1, <3>1, <3>4
  <2>5. QED BY <2>3, <2>4
<1>4. QED BY <1>2, <1>3

LEMMA CheckKeepsCleanup ==
  ASSUME RateInv, NEW c \in Callers, Check(c)
  PROVE  CleanupInv'
<1>1. RateTypeOK /\ CleanupInv /\ moment \in Nat /\ last_cleanup \in 0..moment
  BY DEF RateInv, RateTypeOK
<1> SUFFICES ASSUME NEW d \in Callers, buckets'[d] # Absent
             PROVE  last_cleanup' - buckets'[d].last_refill <= StaleAfter
  BY DEF CleanupInv
<1>2. last_cleanup' = IF moment - last_cleanup > CleanupEvery THEN moment ELSE last_cleanup
  BY DEF Check
<1>3. CASE d = c
  <2>1. buckets'[c].last_refill = moment
    BY <1>1, CheckBuckets
  <2>2. QED BY <1>1, <1>2, <1>3, <2>1, RateAssumption
<1>4. CASE d # c
  <2>1. buckets'[d] = Cleaned(moment)[d]
    BY <1>1, <1>4, CheckBuckets
  <2>2. buckets[d] # Absent /\ buckets'[d] = buckets[d]
    BY <1>1, <2>1, CleanupForgivesNothing
  <2>3. buckets[d].last_refill \in 0..moment
    BY <1>1, <2>2 DEF RateTypeOK
  <2>4. CASE moment - last_cleanup > CleanupEvery
    <3>1. moment - buckets[d].last_refill <= StaleAfter
      BY <1>1, <2>1, <2>2, <2>3, <2>4, RateAssumption DEF Cleaned
    <3>2. QED BY <1>2, <2>2, <2>4, <3>1
  <2>5. CASE ~(moment - last_cleanup > CleanupEvery)
    BY <1>1, <1>2, <2>2, <2>5 DEF CleanupInv
  <2>6. QED BY <2>4, <2>5
<1>5. QED BY <1>3, <1>4

LEMMA CheckKeepsWindow ==
  ASSUME RateInv, NEW c \in Callers, Check(c)
  PROVE  WindowInv'
<1>0. PICK w \in Callers : w = window.client
  BY DEF RateInv, RateTypeOK
<1>1. /\ RateTypeOK /\ WindowInv /\ moment \in Nat /\ moment' = moment
      /\ window.from \in 0..moment /\ window.admitted \in Nat
  BY DEF RateInv, RateTypeOK, Check
<1>2. Debt(w)' = IF w = c /\ Allowed(c, moment) THEN Debt(w) + Cost ELSE Debt(w)
  BY <1>1, CheckDebt
<1>3. Debt(w) \in Int /\ Cost \in Int
  BY <1>1, RefilledBucket, CostFits
<1>4. /\ window'.client = w /\ window'.from = window.from
      /\ window'.admitted = IF w = c /\ Allowed(c, moment)
                            THEN window.admitted + 1 ELSE window.admitted
  BY <1>0, <1>1 DEF Check, RateTypeOK
<1>5. (window.admitted + 1) * Cost = window.admitted * Cost + Cost
  BY <1>1, <1>3, Z3
<1>6. Debt(window.client)' = Debt(w)'
  BY <1>4 DEF Debt
<1>7. window.admitted * Cost \in Int
  BY <1>1, <1>3, Z3
<1> DEFINE paid == window.admitted * Cost
<1>8. window'.admitted * Cost = IF w = c /\ Allowed(c, moment) THEN paid + Cost ELSE paid
  BY <1>4, <1>5
<1>9. paid <= Debt(w) + (moment - window.from)
  BY <1>0, <1>1 DEF WindowInv
<1> HIDE DEF paid
<1>10. paid \in Int
  BY <1>7 DEF paid
<1>11. window'.admitted * Cost <= Debt(w)' + (moment - window.from)
  BY <1>1, <1>2, <1>3, <1>8, <1>9, <1>10
<1>12. QED BY <1>1, <1>4, <1>6, <1>11 DEF WindowInv

LEMMA RateStepInv == RateInv /\ [RateNext]_vars => RateInv'
<1> SUFFICES ASSUME RateInv, [RateNext]_vars PROVE RateInv'
  OBVIOUS
<1>1. RateTypeOK /\ PromiseInv /\ CleanupInv /\ WindowInv
  BY DEF RateInv
<1>2. ASSUME NEW c \in Callers, Check(c) PROVE RateInv'
  BY <1>1, <1>2, CheckKeepsTypes, CheckKeepsPromises, CheckKeepsCleanup,
     CheckKeepsWindow DEF RateInv
<1>3. CASE NextMoment
  <2>1. /\ moment \in Nat /\ moment' = moment + 1
        /\ UNCHANGED <<buckets, last_cleanup, reply, promise, window>>
    BY <1>1, <1>3 DEF NextMoment, RateTypeOK
  <2>2. RateTypeOK'
    <3>1. 0..moment \subseteq 0..moment'
      BY <2>1
    <3>2. [tokens : 0..Capacity, last_refill : 0..moment]
            \subseteq [tokens : 0..Capacity, last_refill : 0..moment']
      BY <3>1
    <3>3. [client : Callers, from : 0..moment, admitted : Nat]
            \subseteq [client : Callers, from : 0..moment', admitted : Nat]
      BY <3>1
    <3>4. QED BY <1>1, <2>1, <3>1, <3>2, <3>3 DEF RateTypeOK
  <2>3. PromiseInv'
    <3> SUFFICES ASSUME NEW c \in Callers, promise[c] # Absent, buckets[c] = Absent
                 PROVE  promise[c] <= moment + 1
      BY <1>1, <2>1 DEF PromiseInv
    <3>1. promise[c] \in Int /\ promise[c] <= moment
      BY <1>1 DEF RateTypeOK, PromiseInv
    <3>2. QED BY <2>1, <3>1
  <2>4. CleanupInv'
    BY <1>1, <2>1 DEF CleanupInv
  <2>5. WindowInv'
    <3> PICK w \in Callers : w = window.client
      BY <1>1 DEF RateTypeOK
    <3> DEFINE paid == window.admitted * Cost
    <3>1. window.from \in 0..moment /\ window.admitted \in Nat /\ Debt(w) \in Int
      BY <1>1, RefilledBucket, CostFits DEF RateTypeOK
    <3>2. Debt(w)' = IF Debt(w) > 0 THEN Debt(w) - 1 ELSE 0
      BY <1>1, <1>3, TickDebt
    <3>3. paid \in Int /\ paid <= Debt(w) + (moment - window.from)
      <4>1. paid \in Int
        BY <3>1, CostFits, Z3
      <4>2. QED BY <4>1, <1>1 DEF WindowInv
    <3>4. Debt(w) \in 0..Capacity
      BY <1>1, RefilledBucket
    <3> HIDE DEF paid
    <3>5. paid <= Debt(w)' + (moment' - window.from)
      BY <2>1, <3>1, <3>2, <3>3, <3>4, CostFits
    <3>6. window' = window /\ Debt(window.client)' = Debt(w)'
      BY <2>1 DEF Debt
    <3>7. QED BY <3>5, <3>6 DEF WindowInv, paid
  <2>6. QED BY <2>2, <2>3, <2>4, <2>5 DEF RateInv
<1>4. ASSUME NEW c \in Callers, Observe(c) PROVE RateInv'
  <2>1. /\ UNCHANGED <<moment, buckets, last_cleanup, reply, promise>>
        /\ window' = [client |-> c, from |-> moment, admitted |-> 0]
    BY <1>4 DEF Observe, code
  <2>2. RateTypeOK'
    BY <1>1, <2>1 DEF RateTypeOK
  <2>3. PromiseInv' /\ CleanupInv'
    BY <1>1, <2>1 DEF PromiseInv, CleanupInv
  <2>4. WindowInv'
    <3>1. Debt(c) \in 0..Capacity /\ moment \in Nat
      BY <1>1, RefilledBucket DEF RateTypeOK
    <3>2. Debt(window.client)' = Debt(c) /\ moment' = moment
      BY <2>1 DEF Debt
    <3>3. QED BY <2>1, <3>1, <3>2, CostFits DEF WindowInv
  <2>5. QED BY <2>2, <2>3, <2>4 DEF RateInv
<1>5. CASE UNCHANGED vars
  <2>1. UNCHANGED <<moment, buckets, last_cleanup, reply, promise, window>>
    BY <1>5 DEF vars, code
  <2>2. RateTypeOK'
    BY <1>1, <2>1 DEF RateTypeOK
  <2>3. PromiseInv' /\ CleanupInv' /\ WindowInv'
    BY <1>1, <2>1 DEF PromiseInv, CleanupInv, WindowInv, Debt
  <2>4. QED BY <2>2, <2>3 DEF RateInv
<1>6. QED BY <1>2, <1>3, <1>4, <1>5 DEF RateNext

\* The invariant holds in every reachable state.
THEOREM RateInvariant == RateSpec => []RateInv
BY RateInitInv, RateStepInv, PTL DEF RateSpec

-----------------------------------------------------------------------------
(* What a client can rely on.                                              *)

\* Buckets stay within the burst and never come from the future.
THEOREM RateTypes == RateSpec => []RateTypeOK
<1>1. RateInv => RateTypeOK
  BY DEF RateInv
<1>2. QED BY <1>1, RateInvariant, PTL

\* No window of any length holds more admissions than the burst and the rate
\* allow.
THEOREM AdmissionRate == RateSpec => []RateBound
<1>1. RateInv => RateBound
  <2> SUFFICES ASSUME RateInv PROVE RateBound
    OBVIOUS
  <2>1. /\ RateTypeOK /\ window.client \in Callers /\ window.admitted \in Nat
        /\ window.from \in 0..moment /\ moment \in Nat
    BY DEF RateInv, RateTypeOK
  <2>2. Debt(window.client) \in 0..Capacity
    BY <2>1, RefilledBucket
  <2>3. window.admitted * Cost <= Debt(window.client) + (moment - window.from)
    BY DEF RateInv, WindowInv
  <2>4. Burst \in Int /\ Cost \in Int
    BY RateAssumption
  <2>5. (window.admitted - Burst) * Cost = window.admitted * Cost - Capacity
    BY <2>1, <2>4, Z3 DEF Capacity
  <2>6. window.admitted * Cost \in Int
    BY <2>1, <2>4, Z3
  <2> DEFINE paid == window.admitted * Cost
  <2> HIDE DEF paid
  <2>7. paid \in Int /\ paid <= Debt(window.client) + (moment - window.from)
    BY <2>3, <2>6 DEF paid
  <2>8. paid - Capacity <= moment - window.from
    BY <2>1, <2>2, <2>7, CostFits
  <2>9. QED BY <2>5, <2>8 DEF RateBound, paid
<1>2. QED BY <1>1, RateInvariant, PTL

\* A refused client that returns at the announced time is let in, one that
\* returns earlier is not.
THEOREM RetryAfterExact == RateSpec => RetryAfterIsExact
<1>1. RateInv /\ [RateNext]_vars =>
        [\A c \in Callers :
           Check(c) /\ promise[c] # Absent => (reply'.allowed <=> moment >= promise[c])]_vars
  <2> SUFFICES ASSUME RateInv, NEW c \in Callers, Check(c), promise[c] # Absent
               PROVE  reply'.allowed <=> moment >= promise[c]
    OBVIOUS
  <2>1. RateTypeOK /\ moment \in Nat /\ promise[c] \in Int
    BY DEF RateInv, RateTypeOK
  <2>2. reply'.allowed <=> Debt(c) + Cost <= Capacity
    BY <2>1, AllowedFits DEF Check
  <2>3. CASE buckets[c] = Absent
    <3>1. promise[c] <= moment
      BY <2>3 DEF RateInv, PromiseInv
    <3>2. Debt(c) = 0
      BY <2>3 DEF Debt, Owed
    <3>3. QED BY <2>1, <2>2, <3>1, <3>2, CostFits
  <2>4. CASE buckets[c] # Absent
    <3>1. buckets[c].tokens \in 0..Capacity /\ buckets[c].last_refill \in 0..moment
      BY <2>1, <2>4 DEF RateTypeOK
    <3>2. buckets[c].tokens + (promise[c] - buckets[c].last_refill) = Cost
      BY <2>4 DEF RateInv, PromiseInv
    <3>3. QED BY <2>1, <2>2, <2>4, <3>1, <3>2, CostFits DEF Debt, Owed
  <2>5. QED BY <2>3, <2>4
<1>2. QED BY <1>1, RateInvariant, PTL DEF RateSpec, RetryAfterIsExact

\* Every check bounds the age of the buckets it leaves.
THEOREM IdleBucketsAreDropped == RateSpec => IdleBucketsGo
<1>1. RateInv /\ RateInv' /\ [RateNext]_vars =>
        [\A c \in Callers :
           Check(c) => \A d \in Callers : buckets'[d] # Absent =>
                         moment - buckets'[d].last_refill <= StaleAfter + CleanupEvery]_vars
  <2> SUFFICES ASSUME RateInv, RateInv', NEW c \in Callers, Check(c),
                      NEW d \in Callers, buckets'[d] # Absent
               PROVE  moment - buckets'[d].last_refill <= StaleAfter + CleanupEvery
    OBVIOUS
  <2>1. last_cleanup' - buckets'[d].last_refill <= StaleAfter
    BY DEF RateInv, CleanupInv
  <2>2. moment \in Nat /\ last_cleanup \in 0..moment /\ moment' = moment
    BY DEF RateInv, RateTypeOK, Check
  <2>3. moment - last_cleanup' <= CleanupEvery /\ last_cleanup' \in Int
    BY <2>2, RateAssumption DEF Check
  <2>4. buckets'[d].last_refill \in Int
    BY <2>2 DEF RateInv, RateTypeOK
  <2>5. moment \in Int /\ StaleAfter \in Int /\ CleanupEvery \in Int
    BY <2>2, RateAssumption
  <2>6. \A t, a, b, m, n \in Int : a - b <= m /\ t - a <= n => t - b <= m + n
    OBVIOUS
  <2>7. QED BY ONLY <2>1, <2>3, <2>4, <2>5, <2>6
<1>2. QED BY <1>1, RateInvariant, PTL DEF RateSpec, IdleBucketsGo

-----------------------------------------------------------------------------
(* Refinement.                                                             *)

LEMMA LeakyInitMaps == RateInit => Leaky!LeakyInit
BY DEF RateInit, Leaky!LeakyInit, Debt, Owed

LEMMA LeakyCheckMaps ==
  ASSUME RateTypeOK, NEW c \in Callers, Check(c)
  PROVE  Leaky!Request(c)
<1>1. Leaky!Fits(c) <=> Debt(c) + Cost <= Capacity
  BY DEF Leaky!Fits
<1>2. Leaky!Fits(c) <=> Allowed(c, moment)
  BY <1>1, AllowedFits
<1>3. reply' = [client |-> c, allowed |-> Leaky!Fits(c)]
  BY <1>1, <1>2, AllowedFits DEF Check, Leaky!Fits
<1>4. [d \in Callers |-> Debt(d)'] =
        [[d \in Callers |-> Debt(d)] EXCEPT ![c] = IF Leaky!Fits(c) THEN @ + Cost ELSE @]
  BY <1>2, CheckDebt
<1>5. QED BY <1>3, <1>4 DEF Leaky!Request

LEMMA LeakyStepMaps ==
  RateTypeOK /\ [RateNext]_vars =>
    [Leaky!LeakyNext]_<<[c \in Callers |-> Debt(c)], reply>>
<1> SUFFICES ASSUME RateTypeOK, [RateNext]_vars
             PROVE  [Leaky!LeakyNext]_<<[c \in Callers |-> Debt(c)], reply>>
  OBVIOUS
<1>1. ASSUME NEW c \in Callers, Check(c) PROVE Leaky!LeakyNext
  BY <1>1, LeakyCheckMaps DEF Leaky!LeakyNext
<1>2. CASE NextMoment
  <2>1. [c \in Callers |-> Debt(c)'] =
          [c \in Callers |-> IF [d \in Callers |-> Debt(d)][c] > 0
                             THEN [d \in Callers |-> Debt(d)][c] - 1 ELSE 0]
    BY <1>2, TickDebt
  <2>2. Leaky!Drain
    BY <1>2, <2>1 DEF Leaky!Drain, NextMoment
  <2>3. QED BY <2>2 DEF Leaky!LeakyNext
<1>3. CASE (\E c \in Callers : Observe(c)) \/ UNCHANGED vars
  <2>1. buckets' = buckets /\ moment' = moment /\ reply' = reply
    BY <1>3 DEF Observe, vars, code
  <2>2. QED BY <2>1 DEF Debt
<1>4. QED BY <1>1, <1>2, <1>3 DEF RateNext

\* Lazy refilling, buckets created on demand and the cleanup implement the
\* leaky bucket, client by client.
THEOREM RefinesLeakyBucket == RateSpec => ImplementsLeakyBucket
<1>1. RateInv => RateTypeOK
  BY DEF RateInv
<1>2. QED
  BY <1>1, RateInvariant, LeakyInitMaps, LeakyStepMaps, PTL
  DEF RateSpec, ImplementsLeakyBucket, Leaky!LeakySpec

-----------------------------------------------------------------------------
(* The engine (Parlay.tla): every leg a text can give, nothing enforced.   *)

Engine == INSTANCE Parlay_proofs WITH
  LegIds <- BlockIds,
  Catalogue <- [id \in BlockIds |->
                  [game |-> id.game, type |-> id.type, player |-> None, team |-> None,
                   tags |-> {}, keyword |-> FALSE, base |-> BaseFragility(id.type),
                   mods |-> NoModifier]],
  Batches <- {}, Requests <- {[profile |-> None, bankroll |-> None]}, MaxLegs <- 6,
  MaxBatches <- 0, MaxEdits <- 0,
  parlay <- None, batches <- 0, edits <- 0, response <- None, alerts <- {}

\* A leg of a text has no modifier and a base fragility by its type.
LEMMA Fits == Engine!ParlayAssumption /\ Engine!CatalogueAssumption /\ Engine!RequestAssumption
<1>1. Engine!ParlayAssumption
  BY PipelineAssumption DEF Engine!ParlayAssumption
<1>2. Engine!RequestAssumption
  BY DEF Engine!RequestAssumption
<1>3. \A id \in BlockIds : BaseFragility(id.type) \in Nat
  <2>1. \A id \in BlockIds : id.type \in BetTypes
    BY DEF BlockIds
  <2>2. \A type \in BetTypes : BaseFragility(type) \in Nat
    BY DEF BaseFragility, BetTypes
  <2> QED BY <2>1, <2>2
<1>4. NoModifier \in Engine!Modifiers
  BY DEF NoModifier, Engine!Modifiers, Engine!Kinds
<1>5. Engine!CatalogueAssumption
  BY <1>3, <1>4 DEF Engine!CatalogueAssumption
<1> QED BY <1>1, <1>2, <1>5

\* A sum over a function is the engine's sum over its domain.
LEMMA SumReadOff ==
  ASSUME NEW f
  PROVE  SumFunction(f) = Engine!SumFunctionOnSet(f, DOMAIN f)
BY DEF SumFunction, SumFunctionOnSet, FoldFunctionOnSet, MapThenFoldSet,
       Engine!SumFunctionOnSet, Engine!FoldFunctionOnSet, Engine!MapThenFoldSet

\* Finite here is finite there.
LEMMA FiniteSame == ASSUME NEW S, IsFiniteSet(S) PROVE Engine!IsFiniteSet(S)
<1>1. PICK s \in Seq(S) : \A e \in S : \E i \in 1..Len(s) : s[i] = e
  BY DEF IsFiniteSet
<1> QED BY <1>1, Zenon DEF Engine!IsFiniteSet

\* A sum of naturals is one.
LEMMA SumNatural ==
  ASSUME NEW f, IsFiniteSet(DOMAIN f), \A x \in DOMAIN f : f[x] \in Nat
  PROVE  SumFunction(f) \in Nat
<1>1. Engine!IsFiniteSet(DOMAIN f)
  BY FiniteSame
<1> QED BY <1>1, SumReadOff, Fits, Engine!SumIsNat

-----------------------------------------------------------------------------
(* Audits (Evaluation.tla, Sherlock.tla, Artifacts.tla).                   *)

Item == [tier : 1..3, reliability : 0..100, cited : BOOLEAN]

LEMMA ItemIs == \A e \in Item : e.tier \in 1..3 /\ e.reliability \in Nat /\ e.cited \in BOOLEAN
BY DEF Item

\* What is investigated is typed: the assumption for the claims posed, by construction
\* for the derived ones.
LEMMA ClaimsAreSound ==
  ASSUME NEW c \in Investigated
  PROVE  c.parts \in Nat /\ c.falsifiable \in BOOLEAN /\ Evidence(c) \in Seq(Item)
<1>1. /\ c.parts \in Nat /\ c.falsifiable \in BOOLEAN /\ c.evidence \in Seq(Item)
      /\ c.placeholder = NoPlaceholder \/ c.placeholder \in 0..100
  <2>1. CASE c = NoClaim
    BY <2>1 DEF NoClaim
  <2>2. CASE \E r \in Placeholders : c = DerivedClaim(r)
    <3>1. PICK r \in Placeholders : c = DerivedClaim(r)
      BY <2>2
    <3>2. r \in 0..100
      BY EvaluationAssumption
    <3> QED BY <3>1, <3>2 DEF DerivedClaim
  <2>3. CASE c \in Claims
    BY <2>3, EvaluationAssumption, Zenon DEF Item
  <2> QED BY <2>1, <2>2, <2>3 DEF Investigated
<1>2. CASE c.evidence = <<>> /\ c.placeholder # NoPlaceholder
  <2>1. Evidence(c) = <<[tier |-> 2, reliability |-> c.placeholder, cited |-> TRUE]>>
    BY <1>2 DEF Evidence
  <2>2. [tier |-> 2, reliability |-> c.placeholder, cited |-> TRUE] \in Item
    BY <1>1, <1>2 DEF Item
  <2> QED BY <1>1, <2>1, <2>2
<1>3. CASE ~(c.evidence = <<>> /\ c.placeholder # NoPlaceholder)
  <2>1. Evidence(c) = c.evidence
    BY <1>3 DEF Evidence
  <2> QED BY <1>1, <2>1
<1> QED BY <1>2, <1>3

\* The average of percentages is not negative.
LEMMA ReliabilityNat ==
  ASSUME NEW c, Evidence(c) \in Seq(Item)
  PROVE  TotalReliability(c) \in Nat
<1> DEFINE items == Evidence(c)
           f == [i \in DOMAIN items |-> items[i].reliability]
<1>1. CASE items = <<>>
  BY <1>1 DEF TotalReliability
<1>2. CASE items # <<>>
  <2>1. Len(items) \in Nat \ {0} /\ DOMAIN f = 1..Len(items)
    BY <1>2
  <2>2. \A i \in DOMAIN f : f[i] \in Nat
    <3>1. \A i \in DOMAIN items : items[i] \in Item
      OBVIOUS
    <3> HIDE DEF items, Item
    <3>3. ASSUME NEW i \in DOMAIN items PROVE items[i].reliability \in Nat
      <4>1. items[i] \in Item
        BY <3>1
      <4> QED BY <4>1, ItemIs
    <3> QED BY <3>3
  <2> HIDE DEF f
  <2>5. SumFunction(f) \in Nat
    <3>1. PICK n \in Int : n = Len(items)
      BY <2>1
    <3>2. IsFiniteSet(DOMAIN f)
      BY <2>1, <3>1, FS_Interval
    <3> QED BY <2>2, <3>2, SumNatural
  <2>6. TotalReliability(c) = (Percent * SumFunction(f)) \div Len(items)
    BY <1>2 DEF TotalReliability, f
  <2>7. \A n \in Nat, m \in Nat \ {0} : (6000 * n) \div m \in Nat
    BY Z3
  <2> HIDE DEF items
  <2> QED BY <2>1, <2>5, <2>6, <2>7 DEF Percent
<1> QED BY <1>1, <1>2

\* A falsifiable claim with evidence scores half at least: the arguments in its
\* favour are two to one and being falsifiable counts three tenths.
LEMMA ScoreIsHalf ==
  ASSUME NEW c, c.parts \in Nat, c.falsifiable, HasEvidence(c), Evidence(c) \in Seq(Item)
  PROVE  OverallScore(c) \in Nat /\ OverallScore(c) >= 50 * Percent
<1>1. PICK r \in Nat : r = TotalReliability(c)
  BY ReliabilityNat
<1>2. PICK s \in 0..2 : s = Subclaims(c)
  BY DEF Subclaims
<1>3. ProCount(c) = 2 + s /\ Nodes(c) = 3 + s
  BY <1>2 DEF ProCount, Nodes, ConCount
<1>4. PICK b : b = (One * ProCount(c)) \div Nodes(c)
  OBVIOUS
<1>5. b \in Nat /\ b >= 400000
  BY <1>2, <1>3, <1>4 DEF One
<1>6. OverallScore(c) = (r * 4 + b * 3 + One * 3) \div 10
  BY <1>1, <1>4 DEF OverallScore
<1> QED BY <1>1, <1>5, <1>6 DEF One, Percent

\* A passed audit has no failure: scope fails a claim that is not falsifiable, evidence
\* one without citations or with nothing above the lowest tier, and what is left
\* scores too high for a denial.
LEMMA PassedIsEarned ==
  ASSUME NEW c \in Investigated, NEW m \in BOOLEAN, Round(c, m).audit.passed
  PROVE  /\ c.falsifiable /\ HasEvidence(c)
         /\ \A e \in ToSet(Evidence(c)) : e.cited
         /\ \E e \in ToSet(Evidence(c)) : e.tier < 3
         /\ Round(c, m).verdict.level \in {"true", "likely_true", "unclear"}
<1>1. c.parts \in Nat /\ c.falsifiable \in BOOLEAN /\ Evidence(c) \in Seq(Item)
  BY ClaimsAreSound
<1>2. PICK v : v = ScoreToVerdict(OverallScore(c))
  OBVIOUS
<1>3. Failures(c, v) = {} /\ Round(c, m).verdict = v
  BY <1>2 DEF Round, RunLogicAudit
<1>4. EvidenceFailures(c) = {} /\ ScopeFailures(c) = {}
  BY <1>3 DEF Failures
<1>5. c.falsifiable /\ HasEvidence(c)
  BY <1>1, <1>4 DEF ScopeFailures
<1>6. PICK items \in Seq(Item) : items = Evidence(c) /\ items # <<>>
  BY <1>1, <1>5 DEF HasEvidence
<1>7. /\ {f \in {"tier_3"} : \A i \in DOMAIN items : items[i].tier = 3} = {}
      /\ {f \in {"uncited"} : \E i \in DOMAIN items : ~items[i].cited} = {}
  BY <1>4, <1>6 DEF EvidenceFailures
<1>8. PICK i \in DOMAIN items : items[i].tier # 3
  BY <1>7
<1>9. \A j \in DOMAIN items : items[j] \in Item
  OBVIOUS
<1>10. items[i].tier < 3
  BY <1>8, <1>9 DEF Item
<1>11. \A j \in DOMAIN items : items[j].cited
  BY <1>7
<1>12. ToSet(items) = {items[j] : j \in DOMAIN items}
  BY DEF ToSet
<1>13. v.level \in {"true", "likely_true", "unclear"}
  <2>1. PICK s \in Nat : s = OverallScore(c) /\ s >= 50 * Percent
    BY <1>1, <1>5, ScoreIsHalf
  <2>2. v = ScoreToVerdict(s)
    BY <1>2, <2>1
  <2> QED BY <2>1, <2>2 DEF ScoreToVerdict, Percent
<1> QED BY <1>3, <1>5, <1>6, <1>10, <1>11, <1>12, <1>13

-----------------------------------------------------------------------------

\* The report on the investigation, the second half of AuditIsEarned.
ReportIsEarned ==
  LET earned == flags.sherlock /\ report.hook.verdict # "error" /\ Last(rounds).audit.passed
      dna == report.hook.dna
  IN  /\ report.proof.audit = "PASS" <=> earned
      /\ report.proof.audit = "NOT_RUN" <=> ~flags.sherlock
      /\ report.hook # Nothing /\ dna # Nothing =>
           /\ flags.recording /\ dna.quarantined = ~earned
           /\ dna.primitives.baseline + dna.primitives.drifts = 1
           /\ dna.primitives.baseline = 1 <=> earned

FlagsInv == flags \in EnvFlags /\ claim \in Investigated

\* Every round is one of the claim under investigation, and a passed one is the
\* last.
RoundsInv ==
  /\ rounds \in Seq({Round(claim, m) : m \in BOOLEAN})
  /\ \A i \in DOMAIN rounds : i < Len(rounds) => ~rounds[i].audit.passed
  /\ rounds # <<>> => verdict = NonFalsifiable \/ verdict = Last(rounds).verdict

\* Sherlock's hook is entered when it is switched on, and there is no report
\* while an evaluation or a client's investigation is under way.
PhaseInv ==
  /\ phase \in {"investigating", "failed"} => flags.sherlock
  /\ phase = "reporting" => ~flags.sherlock
  /\ phase # "idle" => report = None

ReportInv == Answered => ReportIsEarned

AuditInv == FlagsInv /\ RoundsInv /\ PhaseInv /\ ReportInv

LEMMA LevelOf ==
  ASSUME NEW c, NEW m
  PROVE  Round(c, m).verdict.level \in HookVerdicts \ {"error"}
<1>1. \A s : ScoreToVerdict(s).level \in HookVerdicts \ {"error"}
  BY DEF ScoreToVerdict, HookVerdicts
<1> QED BY <1>1 DEF Round

LEMMA RoundIs ==
  ASSUME NEW c \in Investigated, NEW m \in BOOLEAN
  PROVE  Round(c, m) # Nothing /\ Round(c, m).audit.passed \in BOOLEAN
BY EvaluationAssumption DEF Round, RunLogicAudit

\* The invariant gives the property.
LEMMA AuditInvHolds == AuditInv => AuditIsEarned
<1> SUFFICES ASSUME AuditInv
             PROVE  AuditIsEarned
    OBVIOUS
<1>1. ASSUME NEW i \in DOMAIN rounds, rounds[i].audit.passed
      PROVE  /\ claim.falsifiable /\ HasEvidence(claim)
             /\ \A e \in ToSet(Evidence(claim)) : e.cited
             /\ \E e \in ToSet(Evidence(claim)) : e.tier < 3
             /\ rounds[i].verdict.level \in {"true", "likely_true", "unclear"}
             /\ i = Len(rounds)
  <2>1. PICK m \in BOOLEAN : rounds[i] = Round(claim, m)
    BY DEF AuditInv, RoundsInv
  <2>2. claim \in Investigated
    BY DEF AuditInv, FlagsInv
  <2>3. i = Len(rounds)
    BY <1>1 DEF AuditInv, RoundsInv
  <2> QED BY <1>1, <2>1, <2>2, <2>3, PassedIsEarned
<1>2. Answered => ReportIsEarned
  BY DEF AuditInv, ReportInv
<1> QED BY <1>1, <1>2 DEF AuditIsEarned, ReportIsEarned

LEMMA AuditInvInit == EvaluationInit => AuditInv
<1> SUFFICES ASSUME EvaluationInit
             PROVE  AuditInv
    OBVIOUS
<1>1. FlagsInv
  BY DEF EvaluationInit, FlagsInv, Investigated
<1>2. RoundsInv
  BY DEF EvaluationInit, RoundsInv
<1>3. PhaseInv /\ ReportInv
  BY DEF EvaluationInit, PhaseInv, ReportInv, Answered
<1> QED BY <1>1, <1>2, <1>3 DEF AuditInv

\* An investigation that starts has no round.
LEMMA StartKeeps ==
  ASSUME FlagsInv, UNCHANGED flags, NEW c \in Investigated, StartInvestigation(c)
  PROVE  FlagsInv' /\ RoundsInv'
BY DEF FlagsInv, RoundsInv, StartInvestigation

LEMMA RoundKeeps ==
  ASSUME AuditInv, NEW m \in BOOLEAN, RunIteration(m), UNCHANGED <<flags, phase, report>>,
         phase # "idle"
  PROVE  AuditInv'
<1>1. FlagsInv'
  BY DEF AuditInv, FlagsInv, RunIteration
<1>2. PICK r : r = Round(claim, m)
  OBVIOUS
<1>3. /\ claim' = claim /\ rounds' = Append(rounds, r)
      /\ verdict' = NonFalsifiable \/ verdict' = Last(rounds').verdict
      /\ rounds \in Seq({Round(claim, n) : n \in BOOLEAN})
  BY <1>2 DEF RunIteration, AuditInv, RoundsInv
<1>4. rounds' \in Seq({Round(claim, n) : n \in BOOLEAN})
  BY <1>2, <1>3
<1>5. ASSUME NEW i \in DOMAIN rounds', i < Len(rounds')
      PROVE  ~rounds'[i].audit.passed
  <2>1. i \in DOMAIN rounds /\ rounds'[i] = rounds[i]
    BY <1>3, <1>5
  <2>2. CASE i < Len(rounds)
    BY <2>1, <2>2 DEF AuditInv, RoundsInv
  <2>3. CASE i = Len(rounds)
    BY <2>1, <2>3 DEF RunIteration, Stopped, Last
  <2> QED BY <1>3, <2>1, <2>2, <2>3
<1>6. RoundsInv'
  BY <1>3, <1>4, <1>5 DEF RoundsInv
<1>7. PhaseInv'
  BY DEF AuditInv, PhaseInv
<1>8. ~Answered'
  BY DEF AuditInv, PhaseInv, Answered
<1> QED BY <1>1, <1>6, <1>7, <1>8 DEF AuditInv, ReportInv

Blocks == {"investigation_summary", "claim", "verdict", "audit", "dna_preview"}

LEMMA BlocksAre ==
  \A dna : <<"investigation_summary", "claim", "verdict", "audit">>
              \o (IF dna # Nothing THEN <<"dna_preview">> ELSE <<>>) \in Seq(Blocks)
<1>1. \A s, t \in Seq(Blocks) : s \o t \in Seq(Blocks)
  OBVIOUS
<1>2. <<"investigation_summary", "claim", "verdict", "audit">> \in Seq(Blocks)
  BY DEF Blocks
<1>3. <<"dna_preview">> \in Seq(Blocks) /\ <<>> \in Seq(Blocks)
  BY DEF Blocks
<1> QED BY ONLY <1>1, <1>2, <1>3

\* What the hook, its explanation and the proof summary say of an investigation.
LEMMA HookIsEarned ==
  ASSUME FlagsInv, RoundsInv, PhaseInv, NEW hook, hook = Hooked,
         phase \in {"reporting", "failed"} \/ (phase = "investigating" /\ Stopped)
  PROVE  LET earned == flags.sherlock /\ hook.verdict # "error" /\ Last(rounds).audit.passed
             x == Explainability(hook)
         IN  /\ x = Nothing <=> ~flags.sherlock
             /\ x # Nothing => x.passed = earned
             /\ earned \in BOOLEAN
             /\ hook = Nothing => ~flags.sherlock
             /\ hook # Nothing /\ hook.dna # Nothing =>
                  /\ flags.recording /\ hook.dna.quarantined = ~earned
                  /\ hook.dna.primitives.baseline + hook.dna.primitives.drifts = 1
                  /\ hook.dna.primitives.baseline = 1 <=> earned
<1> DEFINE earned == flags.sherlock /\ hook.verdict # "error" /\ Last(rounds).audit.passed
           x == Explainability(hook)
<1>1. CASE ~flags.sherlock
  BY <1>1 DEF Hooked, Explainability
<1>2. CASE flags.sherlock /\ phase = "failed"
  <2>1. hook = [verdict |-> "error", iterations |-> 0, passed |-> FALSE, dna |-> Nothing]
    BY <1>2 DEF Hooked, HookResult
  <2>2. hook \in HookResults
    BY <2>1 DEF HookResults, HookVerdicts
  <2>3. hook # Nothing
    BY <2>2, NothingAssumption
  <2>4. x = [blocks |-> <<"investigation_summary", "claim", "verdict", "audit">> \o <<>>,
             passed |-> FALSE, verdict |-> "error", primitives |-> Nothing]
    BY <2>1, <2>3 DEF Explainability
  <2>5. x \in Explanations
    BY <2>4 DEF Explanations, HookVerdicts
  <2>6. x # Nothing
    BY <2>5, NothingAssumption
  <2>7. earned = FALSE /\ x.passed = FALSE /\ hook.dna = Nothing
    BY <2>1, <2>4
  <2> HIDE DEF earned, x
  <2>8. /\ x = Nothing <=> ~flags.sherlock
        /\ x # Nothing => x.passed = earned
        /\ earned \in BOOLEAN
        /\ hook = Nothing => ~flags.sherlock
        /\ ~(hook # Nothing /\ hook.dna # Nothing)
    BY <1>2, <2>3, <2>6, <2>7
  <2> QED BY <2>8 DEF earned, x
<1>3. CASE flags.sherlock /\ phase # "failed"
  <2>1. rounds # <<>>
    BY <1>3 DEF PhaseInv, Stopped
  <2>2. PICK m \in BOOLEAN : Last(rounds) = Round(claim, m)
    BY <2>1 DEF RoundsInv, Last
  <2>3. PICK r : r = Last(rounds)
    OBVIOUS
  <2>4. r # Nothing /\ r.audit.passed \in BOOLEAN
    BY <2>2, <2>3, RoundIs DEF FlagsInv
  <2>5. verdict.level \in HookVerdicts \ {"error"}
    <3>1. CASE verdict = NonFalsifiable
      BY <3>1 DEF NonFalsifiable, HookVerdicts
    <3>2. CASE verdict = Last(rounds).verdict
      BY <3>2, <2>2, LevelOf
    <3> QED BY <2>1, <3>1, <3>2 DEF RoundsInv
  <2>6. PICK passed \in BOOLEAN, level \in HookVerdicts \ {"error"}, count \in Nat :
          passed = r.audit.passed /\ level = verdict.level /\ count = Len(rounds)
    BY <2>4, <2>5 DEF RoundsInv
  <2>7. PICK p : p = [weights |-> 2, constraints |-> 1, conflicts |-> 0,
                      baseline |-> IF passed THEN 1 ELSE 0, drifts |-> IF passed THEN 0 ELSE 1,
                      tradeoffs |-> IF passed THEN 1 ELSE 0, lineage |-> 1]
    OBVIOUS
  <2>8. PICK dna : dna = IF flags.recording THEN [quarantined |-> ~passed, primitives |-> p]
                         ELSE Nothing
    OBVIOUS
  <2>9. hook = [verdict |-> level, iterations |-> count, passed |-> passed, dna |-> dna]
    BY <1>3, <2>3, <2>4, <2>6, <2>7, <2>8 DEF Hooked, HookResult, TranslateToDna
  <2>10. p \in Counts /\ p.baseline + p.drifts = 1 /\ (p.baseline = 1 <=> passed)
    BY <2>7 DEF Counts
  <2>11. dna \in {Nothing} \cup [quarantined : BOOLEAN, primitives : Counts]
    BY <2>8, <2>10
  <2>12. hook \in HookResults
    BY <2>9, <2>11 DEF HookResults
  <2>13. hook # Nothing
    BY <2>12, NothingAssumption
  <2>14. PICK q : q = IF dna # Nothing THEN dna.primitives ELSE Nothing
    OBVIOUS
  <2>15. q \in {Nothing} \cup Counts
    BY <2>11, <2>14
  <2>16. PICK blocks \in Seq(Blocks) :
           blocks = <<"investigation_summary", "claim", "verdict", "audit">>
                      \o (IF dna # Nothing THEN <<"dna_preview">> ELSE <<>>)
    BY BlocksAre
  <2>17. x = [blocks |-> blocks, passed |-> passed, verdict |-> level, primitives |-> q]
    BY <2>9, <2>13, <2>14, <2>16 DEF Explainability
  <2>18. x \in Explanations
    BY <2>15, <2>16, <2>17 DEF Explanations, Blocks
  <2>19. x # Nothing /\ x.passed = passed
    BY <2>17, <2>18, NothingAssumption
  <2>20. hook.verdict # "error" /\ hook.dna = dna
    BY <2>9
  <2>21. earned = passed
    BY <1>3, <2>3, <2>6, <2>20
  <2>22. hook.dna # Nothing => /\ flags.recording /\ hook.dna.quarantined = ~passed
                              /\ hook.dna.primitives = p
    BY <2>8, <2>20
  <2> HIDE DEF earned, x
  <2>23. /\ x = Nothing <=> ~flags.sherlock
         /\ x # Nothing => x.passed = earned
         /\ earned \in BOOLEAN
         /\ hook = Nothing => ~flags.sherlock
    BY <1>3, <2>13, <2>19, <2>21
  <2>24. hook # Nothing /\ hook.dna # Nothing =>
           /\ flags.recording /\ hook.dna.quarantined = ~earned
           /\ hook.dna.primitives.baseline + hook.dna.primitives.drifts = 1
           /\ hook.dna.primitives.baseline = 1 <=> earned
    BY <2>10, <2>21, <2>22
  <2> QED BY <2>23, <2>24 DEF earned, x
<1> QED BY <1>1, <1>2, <1>3

LEMMA AnswerKeeps ==
  ASSUME AuditInv, Answer
  PROVE  AuditInv'
<1>1. PICK a, hook, failure, current :
        /\ hook = Hooked
        /\ report' = Response(a, failure, hook, Artifacts(a, failure), current, Stored(Session))
  BY Zenon DEF Answer
<1>2. /\ phase \in {"reporting", "failed"} \/ (phase = "investigating" /\ Stopped)
      /\ phase' = "idle" /\ flags' = flags /\ claim' = claim /\ rounds' = rounds
      /\ verdict' = verdict
  BY DEF Answer, engineVars
<1>3. FlagsInv' /\ RoundsInv' /\ PhaseInv'
  BY <1>2 DEF AuditInv, FlagsInv, RoundsInv, PhaseInv
<1>4. PICK x, e : /\ x = Explainability(hook)
                  /\ e = (flags.sherlock /\ hook.verdict # "error" /\ Last(rounds).audit.passed)
  OBVIOUS
<1>5. /\ x = Nothing <=> ~flags.sherlock
      /\ x # Nothing => x.passed = e
      /\ e \in BOOLEAN
      /\ hook # Nothing /\ hook.dna # Nothing =>
           /\ flags.recording /\ hook.dna.quarantined = ~e
           /\ hook.dna.primitives.baseline + hook.dna.primitives.drifts = 1
           /\ hook.dna.primitives.baseline = 1 <=> e
  BY <1>1, <1>2, <1>4, HookIsEarned DEF AuditInv
<1>6. report'.hook = hook
  BY <1>1 DEF Response
<1>7. report'.proof.audit = IF x = Nothing THEN "NOT_RUN" ELSE IF x.passed THEN "PASS" ELSE "FAIL"
  BY <1>1, <1>4 DEF Response, ProofSummary
<1>8. (flags.sherlock /\ report'.hook.verdict # "error" /\ Last(rounds).audit.passed) = e
  BY <1>4, <1>6
<1>9. e => flags.sherlock
  BY <1>4
<1>10. ReportIsEarned'
  BY <1>2, <1>5, <1>6, <1>7, <1>8, <1>9 DEF ReportIsEarned
<1> QED BY <1>3, <1>10 DEF AuditInv, ReportInv

LEMMA AuditInvStep ==
  ASSUME AuditInv, [EvaluationNext]_evalVars
  PROVE  AuditInv'
<1> USE DEF AuditInv
<1>1. ASSUME NEW raw, Ingest(raw)
      PROVE  AuditInv'
  <2>1. CASE AirlockError(raw) # None
    <3>1. /\ report' = [error |-> AirlockError(raw)] /\ phase' = "idle"
          /\ flags' = flags /\ claim' = claim /\ rounds' = rounds /\ verdict' = verdict
      BY <1>1, <2>1 DEF Ingest, engineVars
    <3>2. ~Answered'
      BY <3>1 DEF Answered
    <3> QED BY <3>1, <3>2 DEF FlagsInv, RoundsInv, PhaseInv, ReportInv
  <2>2. CASE AirlockError(raw) = None
    <3>1. /\ report' = None /\ phase' = "received" /\ flags' = flags
          /\ StartInvestigation(NoClaim)
      BY <1>1, <2>2 DEF Ingest
    <3>2. NoClaim \in Investigated
      BY DEF Investigated
    <3>3. FlagsInv' /\ RoundsInv'
      BY <3>1, <3>2, StartKeeps
    <3> QED BY <3>1, <3>3 DEF PhaseInv, ReportInv, Answered
  <2> QED BY <2>1, <2>2
<1>2. CASE RunSherlockHook
  <2>1. report = None /\ report' = None /\ flags' = flags
    BY <1>2 DEF RunSherlockHook, PhaseInv
  <2>2. CASE flags.sherlock
    <3>1. PICK r \in Placeholders : StartInvestigation(DerivedClaim(r))
      BY <1>2, <2>2 DEF RunSherlockHook
    <3>2. DerivedClaim(r) \in Investigated
      BY DEF Investigated
    <3>3. FlagsInv' /\ RoundsInv'
      BY <2>1, <3>1, <3>2, StartKeeps
    <3>4. phase' = "investigating"
      BY <1>2, <2>2 DEF RunSherlockHook
    <3> QED BY <2>1, <2>2, <3>3, <3>4 DEF PhaseInv, ReportInv, Answered
  <2>3. CASE ~flags.sherlock
    <3>1. phase' = "reporting" /\ claim' = claim /\ rounds' = rounds /\ verdict' = verdict
      BY <1>2, <2>3 DEF RunSherlockHook, engineVars
    <3> QED BY <2>1, <2>3, <3>1 DEF FlagsInv, RoundsInv, PhaseInv, ReportInv, Answered
  <2> QED BY <2>2, <2>3
<1>3. CASE Iterate
  <2>1. PICK m \in BOOLEAN : RunIteration(m)
    BY <1>3 DEF Iterate
  <2> QED BY <1>3, <2>1, RoundKeeps DEF Iterate
<1>4. CASE EngineFails
  <2>1. /\ report = None /\ report' = None /\ flags' = flags /\ flags.sherlock
        /\ phase' = "failed" /\ StartInvestigation(NoClaim)
    BY <1>4 DEF EngineFails, PhaseInv
  <2>2. NoClaim \in Investigated
    BY DEF Investigated
  <2>3. FlagsInv' /\ RoundsInv'
    BY <2>1, <2>2, StartKeeps
  <2> QED BY <2>1, <2>3 DEF PhaseInv, ReportInv, Answered
<1>5. CASE Answer
  BY <1>5, AnswerKeeps
<1>6. ASSUME NEW c \in Claims, Investigate(c)
      PROVE  AuditInv'
  <2>1. /\ report = None /\ report' = None /\ flags' = flags
        /\ phase' = "library" /\ StartInvestigation(c)
    BY <1>6 DEF Investigate
  <2>2. c \in Investigated
    BY DEF Investigated
  <2>3. FlagsInv' /\ RoundsInv'
    BY <2>1, <2>2, StartKeeps
  <2> QED BY <2>1, <2>3 DEF PhaseInv, ReportInv, Answered
<1>7. CASE FinishInvestigation
  <2>1. /\ report = None /\ report' = None /\ flags' = flags
        /\ phase' = "idle" /\ StartInvestigation(NoClaim)
    BY <1>7 DEF FinishInvestigation, PhaseInv
  <2>2. NoClaim \in Investigated
    BY DEF Investigated
  <2>3. FlagsInv' /\ RoundsInv'
    BY <2>1, <2>2, StartKeeps
  <2> QED BY <2>1, <2>3 DEF PhaseInv, ReportInv, Answered
<1>8. CASE UNCHANGED evalVars
  BY <1>8 DEF evalVars, engineVars, FlagsInv, RoundsInv, PhaseInv, ReportInv, ReportIsEarned, Answered
<1> QED
  BY <1>1, <1>2, <1>3, <1>4, <1>5, <1>6, <1>7, <1>8 DEF EvaluationNext

\* For all texts, claims, flags and bounds: an audit is passed only by a falsifiable
\* claim with cited evidence of which something is above the lowest tier, by a
\* verdict that does not deny it, and in the last round; what the hook reports,
\* the DNA artifact's quarantine and baseline and the proof summary are that
\* round's audit, and an engine that raised never passes.
THEOREM AuditAlwaysEarned == EvaluationSpec => []AuditIsEarned
<1>1. EvaluationInit => AuditInv
  BY AuditInvInit
<1>2. AuditInv /\ [EvaluationNext]_evalVars => AuditInv'
  BY AuditInvStep
<1>3. AuditInv => AuditIsEarned
  BY AuditInvHolds
<1> QED BY <1>1, <1>2, <1>3, PTL DEF EvaluationSpec

-----------------------------------------------------------------------------
(* The analysis of a slip (Pipeline.tla, Slip.tla).                        *)

\* The two names of the engine's operators mean the same.
LEMMA SumsSame == \A f, S : Core!SumFunctionOnSet(f, S) = Engine!SumFunctionOnSet(f, S)
BY DEF Core!SumFunctionOnSet, Engine!SumFunctionOnSet, Core!FoldFunctionOnSet, Engine!FoldFunctionOnSet,
       Core!MapThenFoldSet, Engine!MapThenFoldSet
LEMMA SumSame == \A f : Core!SumFunction(f) = Engine!SumFunction(f)
BY SumsSame DEF Core!SumFunction, Engine!SumFunction
LEMMA PenaltySame == \A a, b : Core!PairPenalty(a, b) = Engine!PairPenalty(a, b)
BY DEF Core!PairPenalty, Engine!PairPenalty, Core!SamePlayerMultiProps, Engine!SamePlayerMultiProps,
  Core!VolumeDependency, Engine!VolumeDependency, Core!TdDependency, Engine!TdDependency,
  Core!ScriptDependency, Engine!ScriptDependency, Core!PaceDependency, Engine!PaceDependency,
  Core!Tagged, Engine!Tagged, Core!HasTag, Engine!HasTag, Core!ScriptTypes, Engine!ScriptTypes,
  Core!TotalTypes, Engine!TotalTypes, Core!Receiving, Engine!Receiving, Core!Volume, Engine!Volume
LEMMA CorrelationSame == \A b : Core!CorrelationPenalty(b) = Engine!CorrelationPenalty(b)
<1> TAKE b
<1> DEFINE f == [p \in Core!Pairs(Len(b)) |-> Core!PairPenalty(Core!Leg(b[p[1]]), Core!Leg(b[p[2]]))]
           g == [p \in Engine!Pairs(Len(b)) |-> Engine!PairPenalty(Engine!Leg(b[p[1]]), Engine!Leg(b[p[2]]))]
<1>1. \A n : Core!Pairs(n) = Engine!Pairs(n)
  BY DEF Core!Pairs, Engine!Pairs
<1>2. \A x : Core!Leg(x) = Engine!Leg(x)
  BY DEF Core!Leg, Engine!Leg
<1>3. f = g
  BY <1>1, <1>2, PenaltySame
<1>4. Core!CorrelationPenalty(b) = Core!SumFunction(f) /\ Engine!CorrelationPenalty(b) = Engine!SumFunction(g)
  BY DEF Core!CorrelationPenalty, Engine!CorrelationPenalty
<1> QED BY <1>3, <1>4, SumSame
LEMMA MultiplierSame == \A p : Core!CorrelationMultiplier(p) = Engine!CorrelationMultiplier(p)
BY DEF Core!CorrelationMultiplier, Engine!CorrelationMultiplier
LEMMA EffectiveSame == \A b : Core!EffectiveFragility(b) = Engine!EffectiveFragility(b)
BY SumSame DEF Core!EffectiveFragility, Engine!EffectiveFragility, Core!Leg, Engine!Leg, Core!Kinds, Engine!Kinds
LEMMA FinalSame == \A x, y : Core!FinalFragility(x, y) = Engine!FinalFragility(x, y)
BY DEF Core!FinalFragility, Engine!FinalFragility, Core!Point, Engine!Point
LEMMA MetricsSame == \A b : Core!ParlayMetrics(b) = Engine!ParlayMetrics(b)
BY CorrelationSame, MultiplierSame, EffectiveSame, FinalSame, SumSame DEF Core!ParlayMetrics, Engine!ParlayMetrics
-----------------------------------------------------------------------------
(* The legs of a text.                                                     *)

\* What the rest needs of the blocks of a slip.
IsSlip(b, n) ==
  /\ n \in 1..6 /\ b \in Seq({b[i] : i \in 1..n}) /\ Len(b) = n
  /\ \A i \in 1..n : b[i].type \in BetTypes /\ b[i].game \in Games

\* What a function makes of a finite set is finite.
LEMMA ImageIsFinite ==
  ASSUME NEW S, IsFiniteSet(S), NEW f, NEW T, \A y \in T : \E x \in S : y = f[x]
  PROVE  IsFiniteSet(T)
<1> DEFINE U == {x \in S : f[x] \in T}
           g == [x \in U |-> f[x]]
<1>1. IsFiniteSet(U)
  BY FS_Subset
<1>2. g \in Surjection(U, T)
  BY DEF Surjection
<1> HIDE DEF U, g
<1> QED BY <1>1, <1>2, FS_Surjection

\* A finite set of integers has a least and a greatest element.
LEMMA LeastElement ==
  ASSUME NEW S \in SUBSET Int, IsFiniteSet(S), S # {}
  PROVE  Min(S) \in S /\ \A i \in S : Min(S) <= i
<1> DEFINE f == [i \in S |-> 0 - i]
           T == {j \in Int : 0 - j \in S}
<1>1. T \in SUBSET Int /\ T # {}
  <2>1. PICK i \in S : i \in Int
    OBVIOUS
  <2>2. 0 - i \in Int /\ 0 - (0 - i) = i
    BY <2>1
  <2>3. 0 - i \in T
    BY <2>1, <2>2
  <2> QED BY <2>3
<1>2. IsFiniteSet(T)
  <2>1. ASSUME NEW y \in T
        PROVE  \E x \in S : y = f[x]
    <3>1. 0 - y \in S /\ y \in Int /\ y = 0 - (0 - y)
      BY <2>1
    <3> QED BY <3>1
  <2> HIDE DEF T, f
  <2> QED BY <2>1, ImageIsFinite
<1>3. Engine!IsFiniteSet(T)
  <2>1. PICK s \in Seq(T) : \A e \in T : \E i \in 1..Len(s) : s[i] = e
    BY <1>2 DEF IsFiniteSet
  <2> HIDE DEF T
  <2> QED BY <2>1, Zenon DEF Engine!IsFiniteSet
<1>4. PICK m \in T : \A i \in T : i <= m
  <2> HIDE DEF T
  <2> QED BY <1>1, <1>3, Fits, Engine!LargestElement
<1>5. 0 - m \in S /\ \A i \in S : 0 - m <= i
  <2>1. ASSUME NEW i \in S
        PROVE  0 - m <= i
    <3>1. 0 - i \in Int /\ 0 - (0 - i) = i /\ i \in Int
      OBVIOUS
    <3>2. 0 - i \in T
      BY <3>1
    <3>3. 0 - i <= m /\ m \in Int
      BY <1>4, <3>2
    <3> QED BY <3>1, <3>3
  <2> QED BY <1>4, <2>1
<1>6. \E x \in S : \A y \in S : x <= y
  BY <1>5
<1> QED BY <1>6 DEF Min

LEMMA GreatestElement ==
  ASSUME NEW S \in SUBSET Int, IsFiniteSet(S), S # {}
  PROVE  Max(S) \in S /\ \A i \in S : i <= Max(S)
<1>3. Engine!IsFiniteSet(S)
  <2>1. PICK s \in Seq(S) : \A e \in S : \E i \in 1..Len(s) : s[i] = e
    BY DEF IsFiniteSet
  <2> QED BY <2>1, Zenon DEF Engine!IsFiniteSet
<1>4. PICK m \in S : \A i \in S : i <= m
  BY <1>3, Fits, Engine!LargestElement
<1>5. \E x \in S : \A y \in S : x >= y
  BY <1>4
<1> QED BY <1>5 DEF Max

\* A leg is in a game that the tables name, or in its own.
LEMMA GameIs ==
  ASSUME NEW p, p.nbaKeys \in Seq(Games), p.nflKeys \in Seq(Games), NEW i \in 1..6, NEW teams
  PROVE  GameOf(p, i, teams) \in Games
<1> DEFINE S == Among(p.nbaKeys, teams)
<1>1. CASE S # {}
  <2>1. S \in SUBSET Int /\ S \in SUBSET (1..Len(p.nbaKeys)) /\ Len(p.nbaKeys) \in Nat
    BY DEF Among
  <2>2. IsFiniteSet(1..Len(p.nbaKeys))
    <3>1. PICK d \in Int : d = Len(p.nbaKeys)
      BY <2>1
    <3> QED BY <3>1, FS_Interval
  <2>3. IsFiniteSet(S)
    BY <2>1, <2>2, FS_Subset
  <2>4. Min(S) \in S
    <3> HIDE DEF S
    <3> QED BY <1>1, <2>1, <2>3, LeastElement
  <2>5. p.nbaKeys[Min(S)] \in Games
    BY <2>1, <2>4
  <2> QED BY <1>1, <2>5 DEF GameOf, FirstAmong
<1>2. CASE S = {} /\ p.nflKeys # <<>>
  BY <1>2 DEF GameOf
<1>3. CASE S = {} /\ p.nflKeys = <<>>
  <2>1. OwnGame[i] \in ToSet(OwnGame)
    BY DEF OwnGame, ToSet
  <2> QED BY <1>3, <2>1, PipelineAssumption DEF GameOf
<1> QED BY <1>1, <1>2, <1>3

LEMMA MappedIsSeq ==
  ASSUME NEW n \in Nat, NEW b, b = [i \in 1..n |-> b[i]]
  PROVE  b \in Seq({b[i] : i \in 1..n}) /\ Len(b) = n
OBVIOUS

\* A text gives one to six legs.
LEMMA BlocksAreLegs ==
  ASSUME NEW text \in Seq(DOMAIN Phrase), text # <<>>
  PROVE  IsSlip(ParseBetText(text), Len(ParseBetText(text)))
<1> DEFINE n == IF Len(text) > 6 THEN 6 ELSE Len(text)
           b == ParseBetText(text)
           teams == RecognizeEntities(text).teams
<1>1. n \in 1..6 /\ n <= Len(text) /\ Len(text) \in Nat
  <2>1. PICK m \in Nat : m = Len(text) /\ m # 0
    OBVIOUS
  <2> QED BY <2>1
<1>2. /\ b = [i \in 1..n |-> b[i]]
      /\ \A i \in 1..n : /\ b[i].type = DetectLegMarket(Phrase[text[i]])
                         /\ b[i].game = GameOf(Phrase[text[i]], i, teams)
  BY DEF ParseBetText
<1>3. ASSUME NEW i \in 1..n
      PROVE  b[i].type \in BetTypes /\ b[i].game \in Games
  <2>1. text[i] \in DOMAIN Phrase /\ i \in 1..6
    BY <1>1
  <2>2. PICK p : p = Phrase[text[i]]
    OBVIOUS
  <2>3. p.nbaKeys \in Seq(Games) /\ p.nflKeys \in Seq(Games)
    BY <2>1, <2>2, PipelineAssumption
  <2>4. GameOf(p, i, teams) \in Games
    BY <2>1, <2>3, GameIs
  <2>5. DetectLegMarket(p) \in BetTypes
    BY DEF DetectLegMarket, BetTypes
  <2> HIDE DEF b, n, teams
  <2> QED BY <1>2, <2>2, <2>4, <2>5
<1> HIDE DEF b, n
<1>4. b \in Seq({b[i] : i \in 1..n}) /\ Len(b) = n
  <2>0. PICK m \in Nat : m = n
    BY <1>1
  <2>1. PICK c : c = b
    OBVIOUS
  <2>2. c = [i \in 1..m |-> c[i]]
    BY <1>2, <2>0, <2>1
  <2>3. c \in Seq({c[i] : i \in 1..m}) /\ Len(c) = m
    BY <2>2, MappedIsSeq
  <2> QED BY <2>0, <2>1, <2>3
<1>5. IsSlip(b, Len(b))
  BY <1>1, <1>3, <1>4 DEF IsSlip
<1> QED BY <1>5 DEF b

\* A leg as the engine sees it.
LegOf(b, i) ==
  [game |-> b[i].game, type |-> b[i].type, player |-> None, team |-> None,
   tags |-> {}, keyword |-> FALSE, base |-> BaseFragility(b[i].type), mods |-> NoModifier]

LEMMA BuiltIs ==
  ASSUME NEW b, NEW n, IsSlip(b, n)
  PROVE  /\ Built(b) \in Seq(Engine!Block) /\ Len(Built(b)) = n
         /\ \A i \in 1..n :
              /\ Built(b)[i] = [id |-> [type |-> b[i].type, game |-> b[i].game], mods |-> NoModifier]
              /\ Core!Leg(Built(b)[i]) = LegOf(b, i) /\ Engine!Leg(Built(b)[i]) = LegOf(b, i)
<1>1. n \in Nat /\ DOMAIN b = 1..n
  BY DEF IsSlip
<1>2. \A i \in 1..n : Built(b)[i] = [id |-> [type |-> b[i].type, game |-> b[i].game], mods |-> NoModifier]
  BY <1>1 DEF Built
<1>3. ASSUME NEW i \in 1..n
      PROVE  /\ Built(b)[i] \in Engine!Block
             /\ Core!Leg(Built(b)[i]) = LegOf(b, i) /\ Engine!Leg(Built(b)[i]) = LegOf(b, i)
  <2>1. PICK type \in BetTypes, game \in Games : type = b[i].type /\ game = b[i].game
    BY DEF IsSlip
  <2>2. PICK id : id = [type |-> type, game |-> game]
    OBVIOUS
  <2>3. id \in BlockIds /\ id.type = type /\ id.game = game
    BY <2>2 DEF BlockIds
  <2>4. NoModifier \in Engine!Modifiers
    BY DEF NoModifier, Engine!Modifiers, Engine!Kinds
  <2>5. Built(b)[i] = [id |-> id, mods |-> NoModifier]
    BY <1>2, <2>1, <2>2
  <2>6. Built(b)[i] \in Engine!Block
    BY <2>3, <2>4, <2>5 DEF Engine!Block
  <2>7. Built(b)[i].id = id
    BY <2>5
  <2>8. Core!Leg(Built(b)[i]) = LegOf(b, i)
    BY <2>1, <2>3, <2>7 DEF Core!Leg, LegOf
  <2>9. Engine!Leg(Built(b)[i]) = LegOf(b, i)
    BY <2>1, <2>3, <2>7 DEF Engine!Leg, LegOf
  <2> QED BY <2>6, <2>8, <2>9
<1>4. Built(b) \in Seq(Engine!Block) /\ Len(Built(b)) = n
  <2>1. PICK c : c = Built(b)
    OBVIOUS
  <2>2. DOMAIN c = 1..n /\ c = [i \in 1..n |-> c[i]]
    BY <1>1, <2>1 DEF Built
  <2>3. \A i \in 1..n : c[i] \in Engine!Block
    BY <1>3, <2>1
  <2>4. c \in [1..n -> Engine!Block]
    BY <2>2, <2>3
  <2>5. c \in Seq(Engine!Block) /\ Len(c) = n
    BY <1>1, <2>4
  <2> QED BY <2>1, <2>5
<1> QED BY <1>2, <1>3, <1>4

Unbound == [profile |-> None, bankroll |-> None]

\* Without a profile the engine enforces nothing.
LEMMA EvaluationIs ==
  ASSUME NEW b
  PROVE  /\ EvaluateBlocks(b) = Engine!EvaluateParlay(Engine!BuildParlayState(Built(b)), Unbound)
         /\ EvaluateBlocks(b).metrics = Engine!ParlayMetrics(Built(b))
         /\ EvaluateBlocks(b).inductor =
              Engine!ResolveInductor(Engine!ParlayMetrics(Built(b)).final, Len(Built(b)),
                                     Engine!ParlayMetrics(Built(b)).penalty, FALSE)
<1> DEFINE p == Engine!BuildParlayState(Built(b))
<1>1. Core!BuildParlayState(Built(b)) = p
  BY MetricsSame DEF Core!BuildParlayState, Engine!BuildParlayState
<1>2. p.blocks = Built(b) /\ p.metrics = Engine!ParlayMetrics(Built(b))
  BY DEF Engine!BuildParlayState
<1>3. \A f, m, k, v : Core!ResolveInductor(f, m, k, v) = Engine!ResolveInductor(f, m, k, v)
  BY DEF Core!ResolveInductor, Engine!ResolveInductor, Core!Point, Engine!Point
<1>4. \A i, v : Core!ComputeRecommendation(i, v) = Engine!ComputeRecommendation(i, v)
  BY DEF Core!ComputeRecommendation, Engine!ComputeRecommendation, Core!BaseAction, Engine!BaseAction
<1> HIDE DEF p
<1>5. Unbound.profile = None
  BY DEF Unbound
<1>6. Core!EvaluateParlay(p, Unbound) = Engine!EvaluateParlay(p, Unbound)
  BY <1>3, <1>4, <1>5 DEF Core!EvaluateParlay, Engine!EvaluateParlay
<1>7. EvaluateBlocks(b) = Core!EvaluateParlay(p, Unbound)
  BY <1>1 DEF EvaluateBlocks, Unbound
<1>8. /\ Engine!EvaluateParlay(p, Unbound).metrics = p.metrics
      /\ Engine!EvaluateParlay(p, Unbound).inductor =
           Engine!ResolveInductor(p.metrics.final, Len(p.blocks), p.metrics.penalty, FALSE)
  BY <1>5 DEF Engine!EvaluateParlay
<1> QED BY <1>2, <1>6, <1>7, <1>8 DEF p

LEMMA SlipIsFinite ==
  ASSUME NEW b, NEW n, IsSlip(b, n)
  PROVE  DOMAIN b = 1..n /\ n \in 1..6 /\ Len(b) = n /\ IsFiniteSet(1..n)
<1>1. PICK m \in Int : m = n
  BY DEF IsSlip
<1> QED BY <1>1, FS_Interval DEF IsSlip

\* Correlated legs are two legs of one game: no leg of a text names a player.
LEMMA PairsAre ==
  ASSUME NEW b, NEW n, IsSlip(b, n)
  PROVE  /\ IsFiniteSet(Correlated(b))
         /\ \A p \in Correlated(b) : /\ p \in (1..n) \X (1..n) /\ p[1] < p[2]
                                     /\ b[p[1]].game = b[p[2]].game
<1>1. DOMAIN b = 1..n /\ IsFiniteSet(1..n)
  BY SlipIsFinite
<1>2. Correlated(b) \in SUBSET ((1..n) \X (1..n))
  BY <1>1 DEF Correlated
<1>3. IsFiniteSet(Correlated(b))
  <2>1. PICK N : N = 1..n
    OBVIOUS
  <2>2. IsFiniteSet(N \X N)
    BY <1>1, <2>1, FS_Product
  <2> QED BY <1>2, <2>1, <2>2, FS_Subset
<1>4. ASSUME NEW p \in Correlated(b)
      PROVE  p[1] < p[2] /\ b[p[1]].game = b[p[2]].game
  <2>1. p[1] \in 1..n /\ p[2] \in 1..n
    BY <1>2
  <2>2. /\ p[1] < p[2]
        /\ Core!PairPenalty(Core!Leg(Built(b)[p[1]]), Core!Leg(Built(b)[p[2]])) > 0
    BY <1>1, <2>1 DEF Correlated
  <2>3. PICK x, y : x = LegOf(b, p[1]) /\ y = LegOf(b, p[2])
    OBVIOUS
  <2>4. Core!PairPenalty(x, y) > 0
    BY <2>1, <2>2, <2>3, BuiltIs
  <2>5. x.player = None /\ x.game = b[p[1]].game /\ y.game = b[p[2]].game
    BY <2>3 DEF LegOf
  <2>6. x.game # y.game => Core!PairPenalty(x, y) = 0
    BY <2>5 DEF Core!PairPenalty, Core!SamePlayerMultiProps, Core!VolumeDependency, Core!TdDependency,
                Core!ScriptDependency, Core!PaceDependency
  <2> QED BY <2>2, <2>4, <2>5, <2>6
<1> QED BY <1>2, <1>3, <1>4

\* The numbers of an evaluation are natural, also after a leg is taken out.
LEMMA MetricsAre ==
  ASSUME NEW b, NEW n, IsSlip(b, n)
  PROVE  Engine!ParlayMetrics(Built(b)) \in Engine!Metrics
<1>1. PICK q : q = Built(b)
  OBVIOUS
<1>2. q \in Seq(Engine!Block) /\ Len(q) = n /\ n \in 1..6
  BY <1>1, BuiltIs DEF IsSlip
<1>3. \A x \in Engine!Block : Engine!EffectiveFragility(x) \in Nat
  BY Fits, Engine!EffectiveNat
<1>4. Engine!Embeds(q, q)
  <2>1. \A i \in 1..Len(q) : q[i] \in Engine!Block
    BY <1>2
  <2>2. \A i \in 1..Len(q) : Engine!EffectiveFragility(q[i]) <= Engine!EffectiveFragility(q[i])
    BY <1>3, <2>1
  <2> QED BY <1>2, <2>2 DEF Engine!Embeds
<1>5. Engine!ParlayMetrics(q) \in Engine!Metrics
  BY <1>2, <1>4, Fits, Engine!MetricsMonotone
<1> QED BY <1>1, <1>5

-----------------------------------------------------------------------------
(* The scores of the failures.                                             *)

\* The counts the scores are made of.
LEMMA CountsAre ==
  ASSUME NEW b, NEW n, IsSlip(b, n)
  PROVE  /\ Props(b) \in SUBSET (1..n) /\ IsFiniteSet(Props(b)) /\ Cardinality(Props(b)) \in Nat
         /\ Totals(b) \in SUBSET (1..n) /\ IsFiniteSet(Totals(b)) /\ Cardinality(Totals(b)) \in Nat
         /\ \A g : /\ InGame(b, g) \in SUBSET (1..n) /\ IsFiniteSet(InGame(b, g))
                   /\ Cardinality(InGame(b, g)) \in Nat
                   /\ \A i \in 1..n : i \in InGame(b, g) <=> b[i].game = g
<1>1. DOMAIN b = 1..n /\ IsFiniteSet(1..n)
  BY SlipIsFinite
<1>2. /\ Props(b) \in SUBSET (1..n) /\ Totals(b) \in SUBSET (1..n)
      /\ \A g : /\ InGame(b, g) \in SUBSET (1..n)
                /\ \A i \in 1..n : i \in InGame(b, g) <=> b[i].game = g
  BY <1>1 DEF Props, Totals, InGame, Legs
<1>3. \A S \in SUBSET (1..n) : IsFiniteSet(S) /\ Cardinality(S) \in Nat
  BY <1>1, FS_Subset, FS_CardinalityType
<1> QED BY <1>2, <1>3

LEMMA SameGamesAre ==
  ASSUME NEW b, NEW n, IsSlip(b, n)
  PROVE  /\ IsFiniteSet(SameGames(b))
         /\ MaxSameGame(b) \in Nat
         /\ MaxSameGame(b) > 0 =>
              \E i \in 1..n : Cardinality(InGame(b, b[i].game)) = MaxSameGame(b)
<1>1. DOMAIN b = 1..n /\ IsFiniteSet(1..n)
  BY SlipIsFinite
<1>2. \A g \in SameGames(b) : \E i \in 1..n : g = b[i].game
  BY <1>1 DEF SameGames
<1>3. IsFiniteSet(SameGames(b))
  <2>1. PICK f : f = [i \in 1..n |-> b[i].game]
    OBVIOUS
  <2>2. \A g \in SameGames(b) : \E i \in 1..n : g = f[i]
    BY <1>2, <2>1
  <2> QED BY <1>1, <2>2, ImageIsFinite
<1>4. PICK f : f = [g \in SameGames(b) |-> Cardinality(InGame(b, g))]
  OBVIOUS
<1>5. PICK S : S = {Cardinality(InGame(b, g)) : g \in SameGames(b)}
  OBVIOUS
<1>6. IsFiniteSet(S)
  <2>1. \A y \in S : \E g \in SameGames(b) : y = f[g]
    BY <1>4, <1>5
  <2> QED BY <1>3, <2>1, ImageIsFinite
<1>7. S \in SUBSET Nat
  <2>1. \A g : Cardinality(InGame(b, g)) \in Nat
    <3> TAKE g
    <3> QED BY CountsAre
  <2>2. \A y \in S : \E g \in SameGames(b) : y = Cardinality(InGame(b, g))
    BY <1>5
  <2> QED BY <2>1, <2>2
<1>8. IsFiniteSet({0} \cup S) /\ ({0} \cup S) \in SUBSET Int /\ {0} \cup S # {}
  <2>1. IsFiniteSet({0})
    BY FS_Singleton
  <2>2. IsFiniteSet({0} \cup S)
    BY <1>6, <2>1, FS_Union
  <2> QED BY <1>7, <2>2
<1>9. MaxSameGame(b) = Max({0} \cup S)
  BY <1>5 DEF MaxSameGame
<1>10. MaxSameGame(b) \in {0} \cup S
  BY <1>8, <1>9, GreatestElement
<1>11. ASSUME MaxSameGame(b) > 0
       PROVE  \E i \in 1..n : Cardinality(InGame(b, b[i].game)) = MaxSameGame(b)
  <2>1. MaxSameGame(b) \in S
    BY <1>10, <1>11
  <2>2. PICK g \in SameGames(b) : MaxSameGame(b) = Cardinality(InGame(b, g))
    BY <1>5, <2>1
  <2> QED BY <1>2, <2>2
<1>12. MaxSameGame(b) \in Nat
  <2>1. PICK x : x = MaxSameGame(b)
    OBVIOUS
  <2>2. \A y \in S : y \in Nat
    BY <1>7
  <2>3. x = 0 \/ x \in S
    BY <1>10, <2>1
  <2> QED BY <2>1, <2>2, <2>3
<1> QED BY <1>3, <1>11, <1>12

\* What run_evaluation works on, of n legs.
IsAnalysis(a, n) ==
  /\ IsSlip(a.blocks, n)
  /\ a.eval = EvaluateBlocks(a.blocks) /\ a.pairs = Correlated(a.blocks)
  /\ a.signal = Signal(a.eval) /\ a.score = a.eval.metrics.final

\* The numbers of an analysis.
LEMMA NumbersAre ==
  ASSUME NEW a, NEW n, IsAnalysis(a, n)
  PROVE  /\ a.eval.metrics.penalty \in Nat /\ a.eval.metrics.multiplier \in 20..30
         /\ a.eval.metrics.final \in 0..100 * Pt /\ a.score = a.eval.metrics.final
         /\ a.pairs \in SUBSET ((1..n) \X (1..n)) /\ IsFiniteSet(a.pairs)
         /\ Cardinality(a.pairs) \in Nat
         /\ LegPenalty[Len(a.blocks)] \in Nat /\ Len(a.blocks) = n /\ n \in 1..6
<1>1. IsSlip(a.blocks, n) /\ a.eval.metrics = Engine!ParlayMetrics(Built(a.blocks))
  <2>1. PICK b : b = a.blocks
    OBVIOUS
  <2>2. a.eval = EvaluateBlocks(b) /\ IsSlip(b, n)
    BY <2>1 DEF IsAnalysis
  <2>3. a.eval.metrics = Engine!ParlayMetrics(Built(b))
    BY <2>2, EvaluationIs
  <2> QED BY <2>1, <2>2, <2>3
<1>2. PICK m \in Engine!Metrics : a.eval.metrics = m
  BY <1>1, MetricsAre
<1>3. m.penalty \in Nat /\ m.multiplier \in 20..30 /\ m.final \in 0..100 * Pt
  <2>1. /\ m.penalty \in Nat /\ m.multiplier \in 20..30
        /\ m.final \in 0..100 * Engine!Point
    BY DEF Engine!Metrics
  <2> QED BY <2>1 DEF Engine!Point, Pt, Core!Point
<1>4. a.pairs \in SUBSET ((1..n) \X (1..n)) /\ IsFiniteSet(a.pairs)
  <2>1. PICK c : c = Correlated(a.blocks) /\ c = a.pairs
    BY DEF IsAnalysis
  <2>2. IsFiniteSet(c) /\ \A p \in c : p \in (1..n) \X (1..n)
    BY <1>1, <2>1, PairsAre
  <2> QED BY <2>1, <2>2
<1>5. Cardinality(a.pairs) \in Nat
  BY <1>4, FS_CardinalityType
<1>6. Len(a.blocks) = n /\ n \in 1..6
  BY <1>1 DEF IsSlip
<1>7. LegPenalty[n] \in Nat
  BY <1>6, PipelineAssumption
<1> QED BY <1>2, <1>3, <1>4, <1>5, <1>6, <1>7 DEF IsAnalysis

LEMMA FailuresAre ==
  Failure = {"correlation", "leg_count", "volatility", "dependency", "prop_density",
             "same_game_dependency", "market_conflict", "weak_clarity"}
BY DEF Failure, FailureOrder, ToSet

LEMMA TimesNat == \A i, j \in Nat : i * j \in Nat
OBVIOUS

\* Scores are natural numbers, and counting the length of the text only adds.
LEMMA ScoresAre ==
  ASSUME NEW a, NEW n, IsAnalysis(a, n)
  PROVE  \A f \in Failure :
           /\ FailureScores(a, TRUE)[f] \in Nat /\ FailureScores(a, FALSE)[f] \in Nat
           /\ FailureScores(a, FALSE)[f] <= FailureScores(a, TRUE)[f]
<1>1. IsSlip(a.blocks, n)
  BY DEF IsAnalysis
<1>2. PICK p \in Nat, m \in Nat, k \in Nat, l \in Nat :
        /\ p = a.eval.metrics.penalty /\ m = a.eval.metrics.multiplier
        /\ k = Cardinality(a.pairs) /\ l = LegPenalty[Len(a.blocks)]
  <2>1. a.eval.metrics.multiplier \in Nat
    <3>1. PICK m \in 20..30 : m = a.eval.metrics.multiplier
      BY NumbersAre
    <3> QED BY <3>1
  <2> QED BY <2>1, NumbersAre
<1>3. PICK r \in Nat, s \in Nat, t \in Nat :
        /\ r = Cardinality(Props(a.blocks)) /\ s = MaxSameGame(a.blocks)
        /\ t = Cardinality(Totals(a.blocks))
  BY <1>1, CountsAre, SameGamesAre
<1>4. PropDensity(a) \in Nat
  BY <1>3 DEF PropDensity
<1>5. SameGameDependency(a.blocks) \in Nat
  <2>1. PICK h : h = [g \in SameGames(a.blocks) |-> Cardinality(InGame(a.blocks, g))]
    OBVIOUS
  <2>2. DOMAIN h = SameGames(a.blocks) /\ IsFiniteSet(DOMAIN h)
    BY <1>1, <2>1, SameGamesAre
  <2>3. \A x \in DOMAIN h : h[x] \in Nat
    BY <1>1, <2>1, CountsAre
  <2>4. PICK u \in Nat : u = SumFunction(h)
    BY <2>2, <2>3, SumNatural
  <2>5. SameGameDependency(a.blocks) = IF s < 2 THEN 0 ELSE 15 * s + 5 * u
    BY <1>3, <2>1, <2>4 DEF SameGameDependency
  <2> QED BY <2>5
<1>6. MarketConflict(a.blocks) \in Nat
  BY <1>3 DEF MarketConflict
<1>7. /\ WeakClarity(a, TRUE) \in Nat /\ WeakClarity(a, FALSE) \in Nat
      /\ WeakClarity(a, FALSE) <= WeakClarity(a, TRUE)
  BY DEF WeakClarity
<1>8. PICK c \in Nat : c = 100 * p * m
  <2>1. PICK q \in Nat : q = 100 * p
    OBVIOUS
  <2>2. q * m \in Nat
    BY TimesNat
  <2> QED BY <2>1, <2>2
<1>9. Pt = 2000
  BY DEF Pt, Core!Point
<1>10. PICK d \in Nat, e \in Nat, g \in Nat, v \in Nat, w \in Nat :
        /\ d = Pt * PropDensity(a) /\ e = Pt * SameGameDependency(a.blocks)
        /\ g = Pt * MarketConflict(a.blocks)
        /\ v = Pt * WeakClarity(a, FALSE) /\ w = Pt * WeakClarity(a, TRUE)
        /\ v <= w
  <2>1. \A i \in Nat : Pt * i \in Nat
    BY <1>9
  <2>2. \A i, j \in Nat : i <= j => Pt * i <= Pt * j
    BY <1>9
  <2> QED BY <1>4, <1>5, <1>6, <1>7, <2>1, <2>2
<1>11. PICK x \in Nat, y \in Nat, z \in Nat : x = 20 * l /\ y = 5 * Pt * r /\ z = 3 * Pt * k
  BY <1>9
<1>12. ASSUME NEW f \in Failure, NEW q \in BOOLEAN
       PROVE  FailureScores(a, q)[f] =
         CASE f = "correlation" -> 100 * a.eval.metrics.penalty * a.eval.metrics.multiplier
           [] f = "leg_count" -> 20 * LegPenalty[Len(a.blocks)]
           [] f = "volatility" -> 5 * Pt * Cardinality(Props(a.blocks))
           [] f = "dependency" -> 3 * Pt * Cardinality(a.pairs)
           [] f = "prop_density" -> Pt * PropDensity(a)
           [] f = "same_game_dependency" -> Pt * SameGameDependency(a.blocks)
           [] f = "market_conflict" -> Pt * MarketConflict(a.blocks)
           [] f = "weak_clarity" -> Pt * WeakClarity(a, q)
  BY DEF FailureScores
<1>13. ASSUME NEW f \in Failure, NEW q \in BOOLEAN, NEW val, val = Pt * WeakClarity(a, q)
       PROVE  FailureScores(a, q)[f] =
         CASE f = "correlation" -> c
           [] f = "leg_count" -> x
           [] f = "volatility" -> y
           [] f = "dependency" -> z
           [] f = "prop_density" -> d
           [] f = "same_game_dependency" -> e
           [] f = "market_conflict" -> g
           [] f = "weak_clarity" -> val
  BY <1>2, <1>3, <1>8, <1>10, <1>11, <1>12, <1>13, Zenon
<1>14. ASSUME NEW f \in Failure
       PROVE  /\ FailureScores(a, TRUE)[f] \in Nat /\ FailureScores(a, FALSE)[f] \in Nat
              /\ FailureScores(a, FALSE)[f] <= FailureScores(a, TRUE)[f]
  <2>1. f \in {"correlation", "leg_count", "volatility", "dependency", "prop_density",
               "same_game_dependency", "market_conflict", "weak_clarity"}
    BY FailuresAre
  <2>2. PICK x1, x2 : x1 = FailureScores(a, TRUE)[f] /\ x2 = FailureScores(a, FALSE)[f]
    OBVIOUS
  <2>3. x1 = CASE f = "correlation" -> c [] f = "leg_count" -> x [] f = "volatility" -> y
               [] f = "dependency" -> z [] f = "prop_density" -> d
               [] f = "same_game_dependency" -> e [] f = "market_conflict" -> g
               [] f = "weak_clarity" -> w
    BY <1>10, <1>13, <2>2, Zenon
  <2>4. x2 = CASE f = "correlation" -> c [] f = "leg_count" -> x [] f = "volatility" -> y
               [] f = "dependency" -> z [] f = "prop_density" -> d
               [] f = "same_game_dependency" -> e [] f = "market_conflict" -> g
               [] f = "weak_clarity" -> v
    BY <1>10, <1>13, <2>2, Zenon
  <2>5. v <= w
    BY <1>10
  <2>6. x1 \in Nat /\ x2 \in Nat /\ x2 <= x1
    BY <2>1, <2>3, <2>4, <2>5
  <2> QED BY <2>2, <2>6
<1> QED BY <1>14

LEMMA PositionIs ==
  /\ \A f \in Failure : Position(f) \in 1..8 /\ FailureOrder[Position(f)] = f
  /\ IsFiniteSet(Failure)
<1>1. DOMAIN FailureOrder = 1..8
  BY DEF FailureOrder
<1>2. \A f \in Failure : \E i \in 1..8 : f = FailureOrder[i]
  BY <1>1 DEF Failure, ToSet
<1>3. \A f \in Failure : Position(f) \in 1..8 /\ FailureOrder[Position(f)] = f
  <2> TAKE f \in Failure
  <2>1. PICK i \in DOMAIN FailureOrder : FailureOrder[i] = f
    BY <1>1, <1>2
  <2>2. PICK p : p = Position(f)
    OBVIOUS
  <2>3. p \in DOMAIN FailureOrder /\ FailureOrder[p] = f
    BY <2>1, <2>2, Zenon DEF Position
  <2> QED BY <1>1, <2>2, <2>3
<1>4. IsFiniteSet(1..8)
  <2>1. PICK d \in Int : d = 8
    OBVIOUS
  <2>2. IsFiniteSet(1..d)
    BY FS_Interval
  <2> QED BY <2>1, <2>2, Zenon
<1>5. IsFiniteSet(Failure)
  BY <1>2, <1>4, ImageIsFinite
<1> QED BY <1>3, <1>5

\* No score is above the one of the failure reported.
LEMMA WorstIs ==
  ASSUME NEW scores, \A f \in Failure : scores[f] \in Nat
  PROVE  /\ Worst(scores) \in Failure
         /\ \A g \in Failure : scores[g] <= scores[Worst(scores)]
         /\ scores[Worst(scores)] = 0 => Worst(scores) = "leg_count"
<1>1. CASE \A f \in Failure : scores[f] = 0
  <2>1. Worst(scores) = "leg_count" /\ "leg_count" \in Failure
    BY <1>1, FailuresAre DEF Worst
  <2> QED BY <1>1, <2>1
<1>2. CASE ~ \A f \in Failure : scores[f] = 0
  <2>1. PICK key : key = [f \in Failure |-> 8 * scores[f] - Position(f)]
    OBVIOUS
  <2>2. PICK S : S = {key[f] : f \in Failure}
    OBVIOUS
  <2>3. IsFiniteSet(S)
    <3>1. \A y \in S : \E f \in Failure : y = key[f]
      BY <2>2
    <3> QED BY <3>1, PositionIs, ImageIsFinite
  <2>4. \A f \in Failure : key[f] = 8 * scores[f] - Position(f) /\ key[f] \in Int
    BY <2>1, PositionIs
  <2>5. S \in SUBSET Int /\ S # {}
    BY <2>2, <2>4, FailuresAre
  <2>6. PICK f \in Failure : \A g \in Failure : key[g] <= key[f]
    <3>1. Max(S) \in S /\ \A i \in S : i <= Max(S)
      BY <2>3, <2>5, GreatestElement
    <3>2. PICK f \in Failure : key[f] = Max(S)
      BY <2>2, <3>1
    <3> QED BY <2>2, <3>1, <3>2
  <2>7. ASSUME NEW g \in Failure \ {f}
        PROVE  Outranks(scores, f, g)
    <3>1. PICK x \in Nat, y \in Nat, p \in 1..8, q \in 1..8 :
            x = scores[f] /\ y = scores[g] /\ p = Position(f) /\ q = Position(g)
      BY PositionIs
    <3>2. 8 * y - q <= 8 * x - p
      BY <2>4, <2>6, <3>1
    <3>3. p # q
      BY <3>1, PositionIs
    <3>4. x > y \/ (x = y /\ p < q)
      BY <3>2, <3>3
    <3> QED BY <3>1, <3>4 DEF Outranks
  <2>8. PICK w : w = Worst(scores)
    OBVIOUS
  <2>9. w \in Failure /\ \A g \in Failure \ {w} : Outranks(scores, w, g)
    BY <1>2, <2>7, <2>8 DEF Worst
  <2>10. \A g \in Failure : scores[g] <= scores[w]
    BY <2>9 DEF Outranks
  <2>11. scores[w] # 0
    BY <1>2, <2>9, <2>10
  <2> QED BY <2>8, <2>9, <2>10, <2>11
<1> QED BY <1>1, <1>2

\* A higher score has no lower impact.
LEMMA ImpactRanks ==
  \A x, y \in Nat : x <= y => SeverityRank[Impact(x)] <= SeverityRank[Impact(y)]
BY DEF Impact, SeverityRank, Pt, Core!Point

\* No secondary factor outranks the failure reported.
LEMMA SecondaryAre ==
  ASSUME NEW a, NEW n, IsAnalysis(a, n),
         NEW f, f = PrimaryFailure(a)
  PROVE  /\ f.type \in Failure /\ f.type \notin DOMAIN SecondaryFactors(a, f.type)
         /\ \A g \in DOMAIN SecondaryFactors(a, f.type) :
              SeverityRank[SecondaryFactors(a, f.type)[g]] <= SeverityRank[f.severity]
         /\ f.candidates = CandidateLegs(a, f.type) /\ f.action = FixOf(a, f.type)
         /\ FailureScores(a, TRUE)[f.type] \in Nat
         /\ f.severity = Impact(FailureScores(a, TRUE)[f.type])
         /\ \A g \in Failure : FailureScores(a, TRUE)[g] <= FailureScores(a, TRUE)[f.type]
         /\ FailureScores(a, TRUE)[f.type] = 0 => f.type = "leg_count"
<1>1. PICK s, t : s = FailureScores(a, TRUE) /\ t = FailureScores(a, FALSE)
  OBVIOUS
<1>2. \A g \in Failure : s[g] \in Nat /\ t[g] \in Nat /\ t[g] <= s[g]
  BY <1>1, ScoresAre
<1>3. PICK w : w = Worst(s)
  OBVIOUS
<1>4. w \in Failure /\ (\A g \in Failure : s[g] <= s[w]) /\ (s[w] = 0 => w = "leg_count")
  BY <1>2, <1>3, WorstIs
<1>5. f = [type |-> w, severity |-> Impact(s[w]), action |-> FixOf(a, w),
           candidates |-> CandidateLegs(a, w)]
  BY <1>1, <1>3 DEF PrimaryFailure, Diagnosis
<1>6. PICK top : /\ top \in SUBSET (Failure \ {w})
                 /\ SecondaryFactors(a, w) = [g \in top |-> Impact(t[g])]
  BY <1>1, Zenon DEF SecondaryFactors
<1>7. ASSUME NEW g \in top
      PROVE  SeverityRank[Impact(t[g])] <= SeverityRank[Impact(s[w])]
  <2>1. PICK x \in Nat, y \in Nat : x = t[g] /\ y = s[w] /\ x <= y
    <3>1. g \in Failure
      BY <1>6
    <3>2. t[g] \in Nat /\ s[g] \in Nat /\ s[w] \in Nat /\ t[g] <= s[g] /\ s[g] <= s[w]
      BY <1>2, <1>4, <3>1
    <3> QED BY <3>2
  <2> QED BY <2>1, ImpactRanks
<1>8. PICK r : r = SecondaryFactors(a, w)
  OBVIOUS
<1>9. DOMAIN r = top /\ \A g \in top : r[g] = Impact(t[g])
  BY <1>6, <1>8
<1>10. w \notin top
  BY <1>6
<1>11. f.type = w /\ f.severity = Impact(s[w]) /\ f.action = FixOf(a, w)
       /\ f.candidates = CandidateLegs(a, w)
  BY <1>5
<1> QED BY <1>1, <1>2, <1>4, <1>7, <1>8, <1>9, <1>10, <1>11

\* The legs of the most pairs are legs of pairs.
LEMMA MostCorrelatedAre ==
  ASSUME NEW pairs, NEW m, NEW i \in MostCorrelated(pairs, m)
  PROVE  \E p \in pairs : i \in {p[1], p[2]}
BY DEF MostCorrelated

\* Each has another leg in its game.
LEMMA RemovalsAre ==
  ASSUME NEW b, NEW n, IsSlip(b, n), NEW m, NEW i \in MostCorrelated(Correlated(b), m)
  PROVE  \E j \in 1..n : i \in 1..n /\ i # j /\ b[i].game = b[j].game
<1>1. PICK p \in Correlated(b) : i \in {p[1], p[2]}
  BY MostCorrelatedAre
<1>2. p \in (1..n) \X (1..n) /\ p[1] < p[2] /\ b[p[1]].game = b[p[2]].game
  BY <1>1, PairsAre
<1>3. p[1] \in 1..n /\ p[2] \in 1..n /\ p[1] # p[2]
  BY <1>2
<1>4. CASE i = p[1]
  BY <1>2, <1>3, <1>4
<1>5. CASE i = p[2]
  BY <1>2, <1>3, <1>5
<1> QED BY <1>1, <1>4, <1>5

\* Notable legs are legs.
LEMMA NotableAre == \A a : NotableLegs(a) \subseteq DOMAIN a.blocks
BY DEF NotableLegs

LEMMA PickedLeg ==
  ASSUME NEW n \in 1..6, NEW S \in SUBSET (1..n), S # {}
  PROVE  Min(S) \in S /\ Max(S) \in S
<1>1. PICK d \in Int : d = n
  OBVIOUS
<1>2. IsFiniteSet(1..n)
  BY <1>1, FS_Interval
<1>3. IsFiniteSet(S) /\ S \in SUBSET Int
  <2>1. IsFiniteSet(S)
    BY <1>2, FS_Subset
  <2> QED BY <2>1
<1> QED BY <1>3, LeastElement, GreatestElement

\* The legs a fix is about are legs of the slip.
LEMMA CandidatesAre ==
  ASSUME NEW a, NEW n, IsAnalysis(a, n),
         NEW type \in Failure, NEW top \in Nat, top = FailureScores(a, TRUE)[type],
         top = 0 => type = "leg_count"
  PROVE  CandidateLegs(a, type) \in SUBSET (1..n)
<1>1. PICK b : b = a.blocks
  OBVIOUS
<1>2. IsSlip(b, n) /\ a.pairs = Correlated(b)
  BY <1>1 DEF IsAnalysis
<1>3. n \in 1..6 /\ Len(b) = n /\ DOMAIN b = 1..n
  BY <1>2, SlipIsFinite
<1>4. CASE type = "leg_count"
  <2>1. CandidateLegs(a, type) = {i \in {n} : a.legs > 2}
    BY <1>1, <1>3, <1>4 DEF CandidateLegs
  <2> QED BY <1>3, <2>1
<1>5. CASE type = "correlation"
  <2>1. PICK f : f = CHOOSE p \in a.pairs : \A q \in a.pairs : 10 * p[1] + p[2] <= 10 * q[1] + q[2]
    OBVIOUS
  <2>2. CandidateLegs(a, type) = IF a.pairs = {} THEN {} ELSE {f[2]}
    BY <1>5, <2>1, Zenon DEF CandidateLegs
  <2>3. CASE a.pairs # {}
    <3>1. PICK key : key = [p \in a.pairs |-> 10 * p[1] + p[2]]
      OBVIOUS
    <3>2. \A p \in a.pairs : p[1] \in 1..n /\ p[2] \in 1..n
      <4> TAKE p \in a.pairs
      <4>1. p \in (1..n) \X (1..n)
        BY <1>2, PairsAre
      <4> QED BY <4>1
    <3>3. \A p \in a.pairs : key[p] = 10 * p[1] + p[2] /\ key[p] \in Int
      <4> TAKE p \in a.pairs
      <4>1. PICK x \in 1..n, y \in 1..n : x = p[1] /\ y = p[2]
        BY <3>2
      <4>2. 10 * x + y \in Int
        BY <1>3
      <4> QED BY <3>1, <4>1, <4>2
    <3>4. PICK S : S = {key[p] : p \in a.pairs}
      OBVIOUS
    <3>5. S \in SUBSET Int /\ S # {}
      BY <2>3, <3>3, <3>4
    <3>6. IsFiniteSet(S)
      <4>1. \A y \in S : \E p \in a.pairs : y = key[p]
        BY <3>4
      <4>2. IsFiniteSet(a.pairs)
        BY <1>2, PairsAre
      <4> QED BY <4>1, <4>2, ImageIsFinite
    <3>7. Min(S) \in S /\ \A y \in S : Min(S) <= y
      BY <3>5, <3>6, LeastElement
    <3>8. PICK p \in a.pairs : key[p] = Min(S)
      BY <3>4, <3>7
    <3>9. \A q \in a.pairs : key[p] <= key[q]
      BY <3>4, <3>7, <3>8
    <3>10. \A q \in a.pairs : 10 * p[1] + p[2] <= 10 * q[1] + q[2]
      BY <3>3, <3>9
    <3>11. f \in a.pairs
      BY <2>1, <3>10, Zenon
    <3> QED BY <2>2, <2>3, <3>2, <3>11
  <2> QED BY <2>2, <2>3
<1>6. CASE type \in {"volatility", "prop_density"}
  <2>1. CandidateLegs(a, type) = IF Props(b) = {} THEN {} ELSE {Min(Props(b))}
    BY <1>1, <1>6 DEF CandidateLegs
  <2>2. Props(b) \in SUBSET (1..n)
    BY <1>2, CountsAre
  <2>3. Props(b) # {} => Min(Props(b)) \in Props(b)
    BY <1>3, <2>2, PickedLeg
  <2> QED BY <2>1, <2>2, <2>3
<1>7. CASE type = "dependency"
  <2>1. CandidateLegs(a, type) = MostCorrelated(a.pairs, 1)
    BY <1>7 DEF CandidateLegs
  <2>2. \A i \in MostCorrelated(Correlated(b), 1) : i \in 1..n
    BY <1>2, RemovalsAre
  <2> QED BY <1>2, <2>1, <2>2
<1>8. CASE type = "same_game_dependency"
  <2>1. MaxSameGame(b) >= 2
    <3>1. FailureScores(a, TRUE)[type] = Pt * SameGameDependency(b)
      BY <1>1, <1>8 DEF FailureScores
    <3>2. MaxSameGame(b) < 2 => SameGameDependency(b) = 0
      BY DEF SameGameDependency
    <3>3. ASSUME MaxSameGame(b) < 2
          PROVE  FALSE
      <4>1. PICK u, v : u = Pt /\ v = SameGameDependency(b)
        OBVIOUS
      <4>2. u = 2000 /\ v = 0
        BY <3>2, <3>3, <4>1 DEF Pt, Core!Point
      <4>3. top = u * v
        BY <3>1, <4>1
      <4>4. top = 0
        BY ONLY <4>2, <4>3
      <4>5. type = "leg_count"
        BY <4>4
      <4> QED BY <1>8, <4>5
    <3>4. MaxSameGame(b) \in Nat
      BY <1>2, SameGamesAre
    <3> QED BY <3>3, <3>4
  <2>2. PICK m \in 1..n : Cardinality(InGame(b, b[m].game)) = MaxSameGame(b)
    <3>1. MaxSameGame(b) \in Nat /\ MaxSameGame(b) > 0
      BY <1>2, <2>1, SameGamesAre
    <3> QED BY <1>2, <3>1, SameGamesAre
  <2>3. PICK S : S = {i \in 1..n : Cardinality(InGame(b, b[i].game)) = MaxSameGame(b)}
    OBVIOUS
  <2>4. PICK w \in 1..n : w = Min(S)
    <3>1. S \in SUBSET (1..n) /\ m \in S
      BY <2>2, <2>3
    <3>2. Min(S) \in S
      BY <1>3, <3>1, PickedLeg
    <3> QED BY <3>1, <3>2
  <2>5. PICK T : T = InGame(b, b[w].game)
    OBVIOUS
  <2>6. T \in SUBSET (1..n) /\ w \in T
    BY <1>2, <2>5, CountsAre
  <2>7. Max(T) \in 1..n
    BY <1>3, <2>6, PickedLeg
  <2>8. CandidateLegs(a, type) = {Max(T)}
    BY <1>1, <1>3, <1>8, <2>3, <2>4, <2>5 DEF CandidateLegs
  <2> QED BY <2>7, <2>8
<1>9. CASE type = "market_conflict"
  <2>1. CandidateLegs(a, type) = IF Totals(b) = {} THEN {} ELSE {Max(Totals(b))}
    BY <1>1, <1>9 DEF CandidateLegs
  <2>2. Totals(b) \in SUBSET (1..n)
    BY <1>2, CountsAre
  <2>3. Totals(b) # {} => Max(Totals(b)) \in Totals(b)
    BY <1>3, <2>2, PickedLeg
  <2> QED BY <2>1, <2>2, <2>3
<1>10. CASE type = "weak_clarity"
  <2>1. CandidateLegs(a, type) = {}
    BY <1>10 DEF CandidateLegs
  <2> QED BY <2>1
<1> QED BY <1>4, <1>5, <1>6, <1>7, <1>8, <1>9, <1>10, FailuresAre

-----------------------------------------------------------------------------
(* Grounding.                                                              *)

\* A share of at most all, rounded, is a percentage.
LEMMA PercentageIs ==
  ASSUME NEW k \in Nat, NEW d \in Nat \ {0}, k <= d
  PROVE  RoundHalfEven(100 * k, d) \in 0..100
<1>1. PICK n \in Nat : n = 100 * k
  OBVIOUS
<1>2. PICK q \in Int, m \in Int : q = n \div d /\ m = n % d
  OBVIOUS
<1>3. n = d * q + m /\ 0 <= m /\ m < d
  BY <1>2
<1>4. q >= 0
  <2> SUFFICES ASSUME q + 1 <= 0
               PROVE  FALSE
      OBVIOUS
  <2>1. d * (q + 1) <= 0
    OBVIOUS
  <2>2. d * (q + 1) = d * q + d
    OBVIOUS
  <2> QED BY <1>3, <2>1, <2>2
<1>5. q <= 100
  <2> SUFFICES ASSUME 101 <= q
               PROVE  FALSE
      OBVIOUS
  <2>1. d * 101 <= d * q
    OBVIOUS
  <2> QED BY <1>1, <1>3, <2>1
<1>6. q = 100 => m = 0
  BY <1>1, <1>3
<1>7. RoundHalfEven(n, d) \in {q, q + 1} /\ (m = 0 => RoundHalfEven(n, d) = q)
  BY <1>2 DEF RoundHalfEven
<1> QED BY <1>1, <1>4, <1>5, <1>6, <1>7

\* The shares sum to 100: the last is what the two others leave.
LEMMA GroundingIs ==
  ASSUME NEW p, p.structural \in Nat, p.heuristics \in Nat, p.generic \in Nat \ {0}
  PROVE  LET g == GroundingScore(p)
         IN  /\ g.structural \in 0..100 /\ g.heuristics \in 0..100 /\ g.generic \in 0..100
             /\ g.structural + g.heuristics + g.generic = 100
<1>1. PICK s \in Nat, h \in Nat, d \in Nat \ {0} :
        s = p.structural /\ h = p.heuristics /\ d = s + h + p.generic /\ s <= d /\ h <= d
  OBVIOUS
<1>2. PICK x \in 0..100, y \in 0..100 : x = RoundHalfEven(100 * s, d) /\ y = RoundHalfEven(100 * h, d)
  BY <1>1, PercentageIs
<1>3. PICK g : g = GroundingScore(p)
  OBVIOUS
<1>4. g = [structural |-> IF 100 - x - y < 0 /\ x > y THEN x + (100 - x - y) ELSE x,
           heuristics |-> IF 100 - x - y < 0 /\ x <= y THEN y + (100 - x - y) ELSE y,
           generic |-> IF 100 - x - y < 0 THEN 0 ELSE 100 - x - y]
  BY <1>1, <1>2, <1>3 DEF GroundingScore
<1>5. /\ g.structural \in 0..100 /\ g.heuristics \in 0..100 /\ g.generic \in 0..100
      /\ g.structural + g.heuristics + g.generic = 100
  BY <1>4
<1> QED BY <1>3, <1>5

-----------------------------------------------------------------------------
(* Context.                                                                *)

\* A sum of deductions adds nothing.
LEMMA SumNotPositive ==
  ASSUME NEW f, IsFiniteSet(DOMAIN f), \A x \in DOMAIN f : f[x] \in Int /\ f[x] <= 0
  PROVE  SumFunction(f) \in Int /\ SumFunction(f) <= 0
<1>1. Engine!IsFiniteSet(DOMAIN f)
  BY FiniteSame
<1> QED BY <1>1, SumReadOff, Fits, Engine!SumIsNotPositive

\* What a finite sequence holds, and what finitely many sets hold, is finite.
LEMMA ToSetIsFinite == ASSUME NEW S, NEW s \in Seq(S) PROVE IsFiniteSet(ToSet(s))
<1>1. PICK n \in Int : n = Len(s) /\ DOMAIN s = 1..n
  OBVIOUS
<1>2. IsFiniteSet(1..n)
  BY FS_Interval
<1>3. \A y \in ToSet(s) : \E i \in 1..n : y = s[i]
  BY <1>1 DEF ToSet
<1> QED BY <1>2, <1>3, ImageIsFinite

LEMMA UnionIsFinite ==
  ASSUME NEW n \in Nat, NEW T, NEW f, \A y \in T : \E i \in 1..n : y \in f[i],
         \A i \in 1..n : IsFiniteSet(f[i])
  PROVE  IsFiniteSet(T)
<1>1. PICK S : S = {f[i] : i \in 1..n}
  OBVIOUS
<1>2. IsFiniteSet(S)
  <2>1. PICK d \in Int : d = n
    OBVIOUS
  <2>2. IsFiniteSet(1..n)
    BY <2>1, FS_Interval
  <2>3. \A y \in S : \E i \in 1..n : y = f[i]
    BY <1>1
  <2> QED BY <2>2, <2>3, ImageIsFinite
<1>3. \A x \in S : IsFiniteSet(x)
  BY <1>1
<1>4. IsFiniteSet(UNION S)
  BY <1>2, <1>3, FS_UNION
<1>5. T \subseteq UNION S
  BY <1>1
<1> QED BY <1>4, <1>5, FS_Subset

\* Nobody on the roster adds confidence.
LEMMA ImpactsAre ==
  /\ \A x : PlayerImpact(x) \in Int /\ PlayerImpact(x) <= 0
  /\ \A t : TeamImpact(t) \in Int /\ TeamImpact(t) <= 0
<1>1. \A s : StatusImpact(s) \in Int /\ StatusImpact(s) <= 0
  BY DEF StatusImpact
<1>2. \A x : PlayerImpact(x) \in Int /\ PlayerImpact(x) <= 0
  BY <1>1 DEF PlayerImpact
<1>3. ASSUME NEW t
      PROVE  TeamImpact(t) \in Int /\ TeamImpact(t) <= 0
  <2>1. PICK out : /\ out \in SUBSET (DOMAIN Roster)
                   /\ TeamImpact(t) = -10 * AtMost(Cardinality(out), 3)
    BY Zenon DEF TeamImpact
  <2>2. PICK n \in Nat : n = Cardinality(out)
    BY <2>1, PipelineAssumption, FS_Subset, FS_CardinalityType
  <2>3. AtMost(n, 3) \in Nat
    BY DEF AtMost
  <2> QED BY <2>1, <2>2, <2>3
<1> QED BY <1>2, <1>3

\* What is found in a text of known phrases.
LEMMA ConfidenceIs ==
  ASSUME NEW text \in Seq(DOMAIN Phrase)
  PROVE  ContextPanel(text) # None => ContextPanel(text) \in -100..0
<1>1. PICK players, teams :
        /\ players = UNION {Phrase[text[i]].availability : i \in DOMAIN text}
        /\ teams = UNION {ToSet(Phrase[text[i]].nbaKeys) : i \in DOMAIN text}
  OBVIOUS
<1>2. PICK f, g : f = [p \in players |-> PlayerImpact(p)] /\ g = [t \in teams |-> TeamImpact(t)]
  OBVIOUS
<1>3. PICK total : total = Points(HasMissingData, -10) + SumFunction(f) + SumFunction(g)
  OBVIOUS
<1>4. Confidence(text) = IF total < -100 THEN -100 ELSE total
  BY <1>1, <1>2, <1>3 DEF Confidence, Found
<1>5. PICK n \in Nat : n = Len(text) /\ DOMAIN text = 1..n
  OBVIOUS
<1>6. \A i \in 1..n : text[i] \in DOMAIN Phrase
  BY <1>5
<1>7. IsFiniteSet(players)
  <2>1. PICK h : h = [i \in 1..n |-> Phrase[text[i]].availability]
    OBVIOUS
  <2>2. \A i \in 1..n : h[i] = Phrase[text[i]].availability
    BY <2>1
  <2>3. \A i \in 1..n : IsFiniteSet(h[i])
    BY <1>6, <2>2, PipelineAssumption
  <2>4. \A y \in players : \E i \in 1..n : y \in h[i]
    BY <1>1, <1>5, <2>2
  <2> QED BY <2>3, <2>4, UnionIsFinite
<1>8. IsFiniteSet(teams)
  <2>1. PICK h : h = [i \in 1..n |-> ToSet(Phrase[text[i]].nbaKeys)]
    OBVIOUS
  <2>2. \A i \in 1..n : h[i] = ToSet(Phrase[text[i]].nbaKeys)
    BY <2>1
  <2>3. ASSUME NEW i \in 1..n
        PROVE  IsFiniteSet(h[i])
    <3>1. PICK s : s = Phrase[text[i]].nbaKeys
      OBVIOUS
    <3>2. s \in Seq(Games)
      BY <1>6, <3>1, PipelineAssumption
    <3>3. IsFiniteSet(ToSet(s))
      BY <3>2, ToSetIsFinite
    <3> QED BY <2>2, <3>1, <3>3
  <2>4. \A y \in teams : \E i \in 1..n : y \in h[i]
    BY <1>1, <1>5, <2>2
  <2> QED BY <2>3, <2>4, UnionIsFinite
<1>9. SumFunction(f) \in Int /\ SumFunction(f) <= 0
  <2>1. DOMAIN f = players /\ \A x \in DOMAIN f : f[x] \in Int /\ f[x] <= 0
    BY <1>2, ImpactsAre
  <2> QED BY <1>7, <2>1, SumNotPositive
<1>10. SumFunction(g) \in Int /\ SumFunction(g) <= 0
  <2>1. DOMAIN g = teams /\ \A x \in DOMAIN g : g[x] \in Int /\ g[x] <= 0
    BY <1>2, ImpactsAre
  <2> QED BY <1>8, <2>1, SumNotPositive
<1>11. Points(HasMissingData, -10) \in -10..0
  BY DEF Points
<1>12. total \in Int /\ total <= 0
  BY <1>3, <1>9, <1>10, <1>11
<1>13. Confidence(text) \in -100..0
  BY <1>4, <1>12
<1> QED BY <1>13 DEF ContextPanel

LEMMA CountIsNat ==
  ASSUME NEW S, NEW s \in Seq(S), NEW kinds
  PROVE  Cardinality({i \in DOMAIN s : s[i] \in kinds}) \in Nat
<1>1. PICK n \in Int : n = Len(s) /\ DOMAIN s = 1..n
  OBVIOUS
<1>2. PICK T : T = {i \in DOMAIN s : s[i] \in kinds}
  OBVIOUS
<1>3. IsFiniteSet(T)
  <2>1. IsFiniteSet(1..n) /\ T \in SUBSET (1..n)
    BY <1>1, <1>2, FS_Interval
  <2> QED BY <2>1, FS_Subset
<1> QED BY <1>2, <1>3, FS_CardinalityType

\* The numbers of a structure.
LEMMA StructureIs ==
  ASSUME NEW b, NEW n, IsSlip(b, n), NEW canonical, canonical \in Seq(ToSet(canonical)),
         NEW s, s = StructureSnapshot(b, canonical)
  PROVE  /\ s.props \in Nat /\ s.totals \in Nat /\ s.leg_count \in Nat
         /\ Cardinality(s.flags) \in Nat /\ Cardinality(ToSet(s.leg_types)) \in Nat
<1>1. PICK types : types = IF NamesMarkets(canonical) THEN canonical
                           ELSE [i \in DOMAIN b |-> b[i].type]
  OBVIOUS
<1>2. PICK T : types \in Seq(T)
  <2>1. CASE NamesMarkets(canonical)
    BY <1>1, <2>1
  <2>2. CASE ~NamesMarkets(canonical)
    <3>1. DOMAIN b = 1..n /\ n \in 1..6 /\ n \in Nat
      BY SlipIsFinite
    <3>2. types = [i \in 1..n |-> b[i].type]
      BY <1>1, <2>2, <3>1
    <3>3. \A i \in 1..n : b[i].type \in BetTypes
      BY DEF IsSlip
    <3>4. types \in [1..n -> BetTypes]
      BY <3>2, <3>3
    <3>5. types \in Seq(BetTypes)
      BY <3>1, <3>4
    <3> QED BY <3>5
  <2> QED BY <2>1, <2>2
<1>3. /\ s.props = Cardinality({i \in DOMAIN types : types[i] \in {"player_prop"}})
      /\ s.totals = Cardinality({i \in DOMAIN types : types[i] \in {"total", "team_total"}})
      /\ s.leg_count = Len(types) /\ s.leg_types = types
      /\ s.flags \in SUBSET {"same_game"}
  BY <1>1 DEF StructureSnapshot
<1>4. s.props \in Nat /\ s.totals \in Nat
  <2>1. Cardinality({i \in DOMAIN types : types[i] \in {"player_prop"}}) \in Nat
    BY <1>2, CountIsNat
  <2>2. Cardinality({i \in DOMAIN types : types[i] \in {"total", "team_total"}}) \in Nat
    BY <1>2, CountIsNat
  <2> QED BY <1>3, <2>1, <2>2
<1>5. Cardinality(s.flags) \in Nat
  <2>1. IsFiniteSet({"same_game"})
    BY FS_Singleton
  <2> QED BY <1>3, <2>1, FS_Subset, FS_CardinalityType
<1>6. Cardinality(ToSet(types)) \in Nat
  BY <1>2, ToSetIsFinite, FS_CardinalityType
<1>7. s.leg_count \in Nat
  BY <1>2, <1>3
<1> QED BY <1>3, <1>4, <1>5, <1>6, <1>7

\* The points for the structure, the heuristics and the rest; something is generic always.
LEMMA PointsAre ==
  ASSUME NEW a, NEW n, IsAnalysis(a, n), NEW s, NEW f, NEW tone,
         s.props \in Nat, s.totals \in Nat,
         Cardinality(s.flags) \in Nat, Cardinality(ToSet(s.leg_types)) \in Nat,
         NEW p, p = GroundingPoints(s, a, f, tone)
  PROVE  p.structural \in Nat /\ p.heuristics \in Nat /\ p.generic \in Nat \ {0}
<1>1. \A c : /\ Points(c, 5) \in Nat /\ Points(c, 8) \in Nat /\ Points(c, 10) \in Nat
            /\ Points(c, 15) \in Nat /\ Points(c, 20) \in Nat
  BY DEF Points
<1>2. \A i, k \in Nat : AtMost(i, k) \in Nat
  BY DEF AtMost
<1>3. PICK x \in Nat, y \in Nat, z \in Nat, u \in Nat, v \in Nat :
        /\ x = Cardinality(s.flags) /\ y = Cardinality(a.pairs) /\ z = Cardinality(ToSet(s.leg_types))
        /\ u = AtMost(s.props, 3) /\ v = AtMost(s.totals, 2)
  BY <1>2, NumbersAre
<1>4. p.structural \in Nat
  <2>1. PICK q1 \in Nat, q2 \in Nat, q3 \in Nat :
          /\ q1 = Points(s.leg_count > 0, 15) /\ q2 = Points(s.leg_count >= 3, 10)
          /\ q3 = Points(s.leg_count >= 5, 5)
    BY <1>1, Zenon
  <2>2. PICK q4 \in Nat, q5 \in Nat, q6 \in Nat :
          /\ q4 = Points(s.flags # {}, 20)
          /\ q5 = Points(s.sources # {}, 10) /\ q6 = Points(a.eval.metrics.penalty > 0, 15)
    BY <1>1, Zenon
  <2>3. PICK q7 \in Nat, q8 \in Nat, q9 \in Nat :
          /\ q7 = Points(a.eval.metrics.multiplier > 20, 10) /\ q8 = Points(f.type = "leg_count", 8)
          /\ q9 = Points(tone = "cautious", 5)
    BY <1>1, Zenon
  <2>4. p.structural = q1 + q2 + q3 + q4 + 5 * x + q5 + q6 + q7 + 3 * y + q8 + q9
    BY <1>3, <2>1, <2>2, <2>3, Zenon DEF GroundingPoints
  <2> QED BY <2>4
<1>5. p.heuristics \in Nat
  <2>1. PICK q1 \in Nat, q2 \in Nat, q3 \in Nat, q4 \in Nat, q5 \in Nat :
          /\ q1 = Points(s.props > 0, 15) /\ q2 = Points(s.totals > 0, 10)
          /\ q3 = Points("spread" \in ToSet(s.leg_types), 8)
          /\ q4 = Points(ToSet(s.leg_types) \cap {"ml", "moneyline"} # {}, 5)
          /\ q5 = Points(f.type # "leg_count", 5)
    BY <1>1, Zenon
  <2>2. p.heuristics = 8 * z + q1 + 5 * u + q2 + 5 * v + q3 + q4 + q5
    BY <1>3, <2>1, Zenon DEF GroundingPoints
  <2> QED BY <2>2
<1>6. p.generic \in Nat \ {0}
  <2>1. PICK q1 \in Nat, q2 \in Nat : q1 = Points(s.flags = {}, 10) /\ q2 = Points(tone = "positive", 5)
    BY <1>1, Zenon
  <2>2. p.generic = 10 + q1 + q2
    BY <2>1, Zenon DEF GroundingPoints
  <2> QED BY <2>2
<1> QED BY <1>4, <1>5, <1>6

-----------------------------------------------------------------------------
(* The thresholds of the panels.                                           *)

\* The thresholds, which every panel repeats, agree.
LEMMA ThresholdsAgree ==
  ASSUME NEW a, NEW n, IsAnalysis(a, n), NEW f, f.type \in Failure, NEW legs, NEW penalty
  PROVE  LET calm == a.signal \in {"blue", "green"}
             tone == FinalVerdict(a.signal)
             bucket == InterpretFragility(a.score)
             emitted == EmitArtifacts(a.score, legs, penalty, f.type, a.signal, Pt)
         IN  /\ calm <=> bucket \in {"low", "medium"}
             /\ calm <=> tone = "positive"
             /\ calm <=> GentleGuidance(f, a.signal) = None
             /\ a.signal = "red" <=> tone = "cautious"
             /\ a.signal = "red" <=> emitted[3].key = "FAIL"
             /\ a.signal = "red" => emitted[2].key = "high_fragility"
             /\ <<bucket, Assessment(a.score), emitted[3].advisory.fragility>> \in
                  {<<"low", "clean", "low">>, <<"medium", "moving_parts", "moderate">>,
                   <<"high", "pressure", "elevated">>, <<"critical", "thin_ice", "high">>}
<1>1. PICK x \in Nat : x = a.score /\ x = a.eval.metrics.final
  <2>1. a.eval.metrics.final \in 0..100 * Pt /\ a.score = a.eval.metrics.final
    BY NumbersAre
  <2>2. 100 * Pt \in Int
    BY DEF Pt, Core!Point
  <2> QED BY <2>1, <2>2
<1>2. PICK sig : sig = a.signal
  OBVIOUS
<1>3. sig = CASE x <= 30000 -> "blue"
              [] x > 30000 /\ x <= 70000 -> "green"
              [] x > 120000 /\ a.eval.inductor = "critical" -> "red"
              [] OTHER -> "yellow"
  <2>1. sig = Core!FragilityToSignal(a.eval)
    BY <1>2 DEF IsAnalysis, Signal
  <2> QED BY <1>1, <2>1 DEF Core!FragilityToSignal, Core!Point
<1>4. Pt = 2000
  BY DEF Pt, Core!Point
<1>5. PICK bucket : bucket = InterpretFragility(x)
  OBVIOUS
<1>6. bucket = CASE x <= 30000 -> "low" [] x > 30000 /\ x <= 70000 -> "medium"
                 [] x > 70000 /\ x <= 120000 -> "high" [] OTHER -> "critical"
  BY <1>4, <1>5 DEF InterpretFragility
<1>7. PICK assessment : assessment = Assessment(x)
  OBVIOUS
<1>8. assessment = CASE x <= 30000 -> "clean" [] x > 30000 /\ x <= 70000 -> "moving_parts"
                     [] x > 70000 /\ x <= 120000 -> "pressure" [] OTHER -> "thin_ice"
  BY <1>4, <1>7 DEF Assessment
<1>9. PICK emitted : emitted = EmitArtifacts(a.score, legs, penalty, f.type, a.signal, Pt)
  OBVIOUS
<1>10. /\ emitted[3].key = AuditStatus(sig)
       /\ emitted[3].advisory = SherlockAdvisory(x, legs, penalty, f.type, sig, Pt)
       /\ emitted[2] = Constraint(x, legs, f.type, Pt)
  BY <1>1, <1>2, <1>9 DEF EmitArtifacts
<1>11. PICK advised : advised = emitted[3].advisory.fragility
  OBVIOUS
<1>12. advised = CASE x <= 30000 -> "low" [] x > 30000 /\ x <= 70000 -> "moderate"
                   [] x > 70000 /\ x <= 120000 -> "elevated" [] OTHER -> "high"
  BY <1>4, <1>10, <1>11 DEF SherlockAdvisory
<1>13. sig = "red" => emitted[2].key = "high_fragility"
  BY <1>3, <1>4, <1>10 DEF Constraint
<1>14. sig = "red" <=> emitted[3].key = "FAIL"
  BY <1>3, <1>10 DEF AuditStatus
<1>15. sig \in {"blue", "green"} <=> bucket \in {"low", "medium"}
  BY <1>3, <1>6
<1>16. PICK tone : tone = FinalVerdict(sig)
  OBVIOUS
<1>17. (sig \in {"blue", "green"} <=> tone = "positive") /\ (sig = "red" <=> tone = "cautious")
  BY <1>3, <1>16 DEF FinalVerdict
<1>18. sig \in {"blue", "green"} <=> GentleGuidance(f, sig) = None
  <2>1. None \notin Failure /\ None # "default"
    BY PipelineAssumption DEF Failure
  <2>2. sig \notin {"blue", "green"} => GentleGuidance(f, sig) \in {f.type, "default"}
    BY DEF GentleGuidance
  <2>3. sig \in {"blue", "green"} => GentleGuidance(f, sig) = None
    BY DEF GentleGuidance
  <2> QED BY <2>1, <2>2, <2>3
<1>19. <<bucket, assessment, advised>> \in
         {<<"low", "clean", "low">>, <<"medium", "moving_parts", "moderate">>,
          <<"high", "pressure", "elevated">>, <<"critical", "thin_ice", "high">>}
  BY <1>6, <1>8, <1>12
<1> QED BY <1>1, <1>2, <1>5, <1>7, <1>9, <1>11, <1>13, <1>14, <1>15, <1>16, <1>17, <1>18, <1>19

-----------------------------------------------------------------------------
(* The preview of a removal.                                               *)

\* A piece of a sequence, and two pieces put together.
LEMMA PieceIs ==
  ASSUME NEW S, NEW s \in Seq(S), NEW a \in Int, NEW b \in Int, 1 <= a, b <= Len(s), a <= b + 1
  PROVE  /\ SubSeq(s, a, b) \in Seq(S)
         /\ Len(SubSeq(s, a, b)) = b - a + 1
         /\ \A i \in 1..(b - a + 1) : SubSeq(s, a, b)[i] = s[a + i - 1]
<1>1. SubSeq(s, a, b) \in Seq(S)
  OBVIOUS
<1>2. Len(SubSeq(s, a, b)) = b - a + 1
  OBVIOUS
<1>3. \A i \in 1..(b - a + 1) : SubSeq(s, a, b)[i] = s[a + i - 1]
  OBVIOUS
<1> QED BY <1>1, <1>2, <1>3

LEMMA PiecesJoin ==
  ASSUME NEW S, NEW l \in Seq(S), NEW r \in Seq(S)
  PROVE  /\ l \o r \in Seq(S)
         /\ Len(l \o r) = Len(l) + Len(r)
         /\ \A i \in 1..Len(l) : (l \o r)[i] = l[i]
         /\ \A i \in 1..Len(r) : (l \o r)[Len(l) + i] = r[i]
OBVIOUS

\* A slip without its leg g.
LEMMA RemovedIs ==
  ASSUME NEW S, NEW s \in Seq(S), NEW n \in Nat, Len(s) = n, NEW g \in 1..n
  PROVE  RemoveAt(s, g) = [i \in 1..(n - 1) |-> IF i < g THEN s[i] ELSE s[i + 1]]
<1>2. s \in Seq(S) /\ Len(s) = n
  OBVIOUS
<1>3. PICK m \in Nat, k \in Nat : g = m + 1 /\ n = m + 1 + k
  <2>1. g - 1 \in Nat /\ n - g \in Nat
    OBVIOUS
  <2>2. g = (g - 1) + 1 /\ n = (g - 1) + 1 + (n - g)
    OBVIOUS
  <2> QED BY <2>1, <2>2
<1>4. PICK o \in Int : o = m + 2
  OBVIOUS
<1>5. PICK l, r : l = SubSeq(s, 1, m) /\ r = SubSeq(s, o, n)
  OBVIOUS
<1>6. l \in Seq(S) /\ Len(l) = m /\ \A i \in 1..m : l[i] = s[i]
  <2>1. /\ l \in Seq(S) /\ Len(l) = m - 1 + 1
        /\ \A i \in 1..(m - 1 + 1) : l[i] = s[1 + i - 1]
    BY <1>2, <1>3, <1>5, PieceIs
  <2>2. m - 1 + 1 = m /\ \A i \in 1..m : 1 + i - 1 = i
    OBVIOUS
  <2> QED BY <2>1, <2>2
<1>7. r \in Seq(S) /\ Len(r) = k /\ \A i \in 1..k : r[i] = s[m + 1 + i]
  <2>1. /\ r \in Seq(S) /\ Len(r) = n - o + 1
        /\ \A i \in 1..(n - o + 1) : r[i] = s[o + i - 1]
    BY <1>2, <1>3, <1>4, <1>5, PieceIs
  <2>2. n - o + 1 = k /\ \A i \in 1..k : o + i - 1 = m + 1 + i
    BY <1>3, <1>4
  <2> QED BY <2>1, <2>2
<1>8. PICK t : t = l \o r
  OBVIOUS
<1>9. /\ t \in Seq(S) /\ Len(t) = m + k
      /\ \A i \in 1..m : t[i] = s[i]
      /\ \A i \in 1..k : t[m + i] = s[m + 1 + i]
  <2>1. l \in Seq(S) /\ r \in Seq(S)
    BY <1>6, <1>7
  <2>2. /\ t \in Seq(S) /\ Len(t) = Len(l) + Len(r)
        /\ \A i \in 1..Len(l) : t[i] = l[i]
        /\ \A i \in 1..Len(r) : t[Len(l) + i] = r[i]
    BY <1>8, <2>1, PiecesJoin
  <2> QED BY <1>6, <1>7, <2>2
<1>10. m + k = n - 1
  BY <1>3
<1>11. ASSUME NEW i \in 1..(n - 1)
       PROVE  t[i] = IF i < g THEN s[i] ELSE s[i + 1]
  <2>1. CASE i < g
    <3>1. i \in 1..m
      BY <1>3, <2>1
    <3> QED BY <1>9, <2>1, <3>1
  <2>2. CASE ~(i < g)
    <3>1. PICK d \in 1..k : i = m + d
      <4>1. i - m \in 1..k /\ i = m + (i - m)
        BY <1>3, <1>10, <2>2
      <4> QED BY <4>1
    <3>2. t[i] = s[m + 1 + d]
      BY <1>9, <3>1
    <3>3. m + 1 + d = i + 1
      BY <3>1
    <3> QED BY <2>2, <3>2, <3>3
  <2> QED BY <2>1, <2>2
<1>12. t = RemoveAt(s, g)
  <2>1. g - 1 = m /\ g + 1 = o
    BY <1>3, <1>4
  <2> QED BY <1>2, <1>5, <1>8, <2>1 DEF RemoveAt
<1>13. t = [i \in 1..(n - 1) |-> t[i]]
  BY <1>9, <1>10
<1> QED BY <1>11, <1>12, <1>13

LEMMA RemovedIsSlip ==
  ASSUME NEW b, NEW n, IsSlip(b, n), n >= 2, NEW leg \in 1..n, NEW c, c = RemoveAt(b, leg)
  PROVE  IsSlip(c, n - 1) /\ \A i \in 1..(n - 1) : c[i] = b[IF i < leg THEN i ELSE i + 1]
<1>1. PICK S : b \in Seq(S) /\ Len(b) = n /\ n \in Nat /\ n \in 1..6
  BY DEF IsSlip
<1>2. c = [i \in 1..(n - 1) |-> IF i < leg THEN b[i] ELSE b[i + 1]]
  BY <1>1, RemovedIs
<1>3. \A i \in 1..(n - 1) : c[i] = b[IF i < leg THEN i ELSE i + 1]
  BY <1>2
<1>4. \A i \in 1..(n - 1) : (IF i < leg THEN i ELSE i + 1) \in 1..n
  BY <1>1
<1>5. PICK m \in Nat : m = n - 1 /\ m \in 1..6
  BY <1>1
<1>6. c \in Seq({c[i] : i \in 1..m}) /\ Len(c) = m
  <2>1. c = [i \in 1..m |-> c[i]]
    BY <1>2, <1>5
  <2> QED BY <2>1, MappedIsSeq
<1>7. \A i \in 1..m : c[i].type \in BetTypes /\ c[i].game \in Games
  BY <1>3, <1>4, <1>5 DEF IsSlip
<1>8. IsSlip(c, m)
  BY <1>5, <1>6, <1>7 DEF IsSlip
<1> QED BY <1>3, <1>5, <1>8

\* A removal leaves metrics no higher: put last, the leg taken out is one more.
LEMMA RemovedMetrics ==
  ASSUME NEW b, NEW n, IsSlip(b, n), n >= 2, NEW leg \in 1..n, NEW c, c = RemoveAt(b, leg)
  PROVE  LET x == Engine!ParlayMetrics(Built(c))
             y == Engine!ParlayMetrics(Built(b))
         IN  /\ x \in Engine!Metrics /\ y \in Engine!Metrics
             /\ x.penalty <= y.penalty /\ x.final <= y.final
<1>1. PICK m \in Nat : m = n - 1 /\ n = m + 1 /\ n \in Nat /\ n <= 6
  BY DEF IsSlip
<1>2. IsSlip(c, m) /\ \A i \in 1..m : c[i] = b[IF i < leg THEN i ELSE i + 1]
  BY <1>1, RemovedIsSlip
<1>3. PICK p, q : p = Built(b) /\ q = Built(c)
  OBVIOUS
<1>4. /\ p \in Seq(Engine!Block) /\ Len(p) = n
      /\ q \in Seq(Engine!Block) /\ Len(q) = m
  BY <1>2, <1>3, BuiltIs
<1>5. PICK place : place = [i \in 1..n |-> IF i = n THEN leg ELSE IF i < leg THEN i ELSE i + 1]
  OBVIOUS
<1>6. place \in Engine!Bijection(1..n, 1..n)
  <2>1. place \in [1..n -> 1..n]
    BY <1>1, <1>5
  <2>2. \A i, j \in 1..n : place[i] = place[j] => i = j
    BY <1>1, <1>5
  <2>3. \A j \in 1..n : \E i \in 1..n : place[i] = j
    <3> TAKE j \in 1..n
    <3>1. CASE j = leg
      BY <1>1, <1>5, <3>1
    <3>2. CASE j < leg
      BY <1>1, <1>5, <3>2
    <3>3. CASE j > leg
      <4>1. PICK k \in 1..n : k = j - 1 /\ k # n /\ ~(k < leg) /\ k + 1 = j
        BY <1>1, <3>3
      <4> QED BY <1>5, <4>1
    <3> QED BY <1>1, <3>1, <3>2, <3>3
  <2>4. place \in Engine!Surjection(1..n, 1..n)
    BY <2>1, <2>3 DEF Engine!Surjection
  <2>5. place \in Engine!Injection(1..n, 1..n)
    BY <2>1, <2>2 DEF Engine!Injection, Engine!IsInjective
  <2> QED BY <2>4, <2>5 DEF Engine!Bijection
<1>7. PICK d : d = [i \in 1..n |-> p[place[i]]]
  OBVIOUS
<1>8. Engine!ParlayMetrics(d) = Engine!ParlayMetrics(p)
  BY <1>4, <1>6, <1>7, Fits, Engine!AnyOrderSameMetrics
<1>9. d \in Seq(Engine!Block) /\ Len(d) = n /\ \A i \in 1..m : q[i] = d[i]
  <2>1. \A i \in 1..n : place[i] \in 1..n /\ d[i] = p[place[i]]
    BY <1>1, <1>5, <1>7
  <2>2. d \in [1..n -> Engine!Block]
    BY <1>4, <1>7, <2>1
  <2>3. d \in Seq(Engine!Block) /\ Len(d) = n
    BY <1>1, <2>2
  <2>4. ASSUME NEW i \in 1..m
        PROVE  q[i] = d[i]
    <3>1. PICK j \in 1..n : j = IF i < leg THEN i ELSE i + 1
      BY <1>1
    <3>2. i \in 1..n /\ place[i] = j /\ c[i] = b[j]
      BY <1>1, <1>2, <1>5, <3>1
    <3>3. d[i] = [id |-> [type |-> b[j].type, game |-> b[j].game], mods |-> NoModifier]
      BY <1>3, <2>1, <3>2, BuiltIs
    <3>4. q[i] = [id |-> [type |-> c[i].type, game |-> c[i].game], mods |-> NoModifier]
      BY <1>2, <1>3, BuiltIs
    <3> QED BY <3>2, <3>3, <3>4
  <2> QED BY <2>3, <2>4
<1>10. Engine!Embeds(q, d)
  <2>1. \A x \in Engine!Block : Engine!EffectiveFragility(x) \in Nat
    BY Fits, Engine!EffectiveNat
  <2>2. \A i \in 1..m : q[i] \in Engine!Block /\ q[i] = d[i]
    BY <1>4, <1>9
  <2>3. \A i \in 1..m : Engine!EffectiveFragility(q[i]) <= Engine!EffectiveFragility(d[i])
    BY <2>1, <2>2
  <2> QED BY <1>1, <1>4, <1>9, <2>2, <2>3 DEF Engine!Embeds
<1>11. /\ Engine!ParlayMetrics(q) \in Engine!Metrics /\ Engine!ParlayMetrics(d) \in Engine!Metrics
       /\ Engine!ParlayMetrics(q).penalty <= Engine!ParlayMetrics(d).penalty
       /\ Engine!ParlayMetrics(q).final <= Engine!ParlayMetrics(d).final
  BY <1>1, <1>4, <1>9, <1>10, Fits, Engine!MetricsMonotone
<1> QED BY <1>3, <1>8, <1>11

\* The signal of a slip with lower metrics and fewer legs is no worse.
LEMMA SignalNoWorse ==
  ASSUME NEW e, NEW d, NEW x \in Nat, NEW y \in Nat, y <= x, NEW k \in Nat, NEW l \in Nat, l <= k,
         NEW m \in Nat, NEW n \in Nat, n <= m,
         e.metrics.final = x, d.metrics.final = y,
         e.inductor = Engine!ResolveInductor(x, m, k, FALSE),
         d.inductor = Engine!ResolveInductor(y, n, l, FALSE)
  PROVE  /\ Signal(e) \in DOMAIN SignalOrder /\ Signal(d) \in DOMAIN SignalOrder
         /\ SignalOrder[Signal(e)] \in Nat /\ SignalOrder[Signal(d)] \in Nat
         /\ SignalOrder[Signal(e)] <= SignalOrder[Signal(d)]
<1>1. d.inductor = "critical" /\ x > 150000 => e.inductor = "critical"
  BY DEF Engine!ResolveInductor, Engine!Point
<1>2. d.inductor = "critical" => y > 150000
  BY DEF Engine!ResolveInductor, Engine!Point
<1>3. PICK s, t : s = Signal(e) /\ t = Signal(d)
  OBVIOUS
<1>4. /\ s = CASE x <= 30000 -> "blue" [] x > 30000 /\ x <= 70000 -> "green"
                [] x > 120000 /\ e.inductor = "critical" -> "red" [] OTHER -> "yellow"
      /\ t = CASE y <= 30000 -> "blue" [] y > 30000 /\ y <= 70000 -> "green"
                [] y > 120000 /\ d.inductor = "critical" -> "red" [] OTHER -> "yellow"
  BY <1>3 DEF Signal, Core!FragilityToSignal, Core!Point
<1>5. /\ {"red", "yellow", "green", "blue"} \subseteq DOMAIN SignalOrder
      /\ SignalOrder["red"] = 0 /\ SignalOrder["yellow"] = 1
      /\ SignalOrder["green"] = 2 /\ SignalOrder["blue"] = 3
  BY DEF SignalOrder
<1>6. s \in {"red", "yellow", "green", "blue"} /\ t \in {"red", "yellow", "green", "blue"}
  BY ONLY <1>4
<1>7. PICK o : o = SignalOrder
  OBVIOUS
<1>8. s = "blue" => t = "blue"
  BY ONLY <1>4, x \in Nat, y \in Nat, y <= x
<1>9. s = "green" => t \in {"blue", "green"}
  BY ONLY <1>4, x \in Nat, y \in Nat, y <= x
<1>10. s = "yellow" => t # "red"
  <2>1. t = "red" => x > 120000 /\ e.inductor = "critical"
    BY ONLY <1>1, <1>2, <1>4, x \in Nat, y \in Nat, y <= x
  <2> QED BY ONLY <1>4, <2>1, x \in Nat
<1>11. o[s] \in Nat /\ o[t] \in Nat /\ o[s] <= o[t] /\ s \in DOMAIN o /\ t \in DOMAIN o
  BY ONLY <1>5, <1>6, <1>7, <1>8, <1>9, <1>10
<1> QED BY <1>3, <1>7, <1>11

\* A previewed removal never makes the slip look worse.
LEMMA PreviewIs ==
  ASSUME NEW a, NEW n, IsAnalysis(a, n), NEW f, f.candidates \in SUBSET (1..n),
         NEW p, p = DeltaPreview(a, f), p # None
  PROVE  p.signal # "down" /\ p.fragility # "up"
<1>1. PICK b : b = a.blocks /\ IsSlip(b, n) /\ Len(b) = n
  BY DEF IsAnalysis, IsSlip
<1>2. f.candidates # {} /\ ~(n <= 1)
  BY <1>1 DEF DeltaPreview
<1>3. PICK leg \in 1..n : leg = CHOOSE i \in f.candidates : TRUE
  BY <1>2
<1>4. PICK c : c = RemoveAt(b, leg)
  OBVIOUS
<1>5. PICK m \in Nat : m = n - 1 /\ n >= 2 /\ n \in Nat /\ m <= n
  BY <1>1, <1>2 DEF IsSlip
<1>6. PICK after : after = EvaluateBlocks(c)
  OBVIOUS
<1>7. p = [signal |-> Change(SignalOrder[a.signal], SignalOrder[Signal(after)]),
           fragility |-> Change(a.score, after.metrics.final)]
  BY <1>1, <1>2, <1>3, <1>4, <1>6, Zenon DEF DeltaPreview
<1>8. PICK x \in Engine!Metrics, y \in Engine!Metrics :
        /\ x = Engine!ParlayMetrics(Built(b)) /\ y = Engine!ParlayMetrics(Built(c))
        /\ y.penalty <= x.penalty /\ y.final <= x.final
  BY <1>1, <1>4, <1>5, RemovedMetrics
<1>9. Len(Built(b)) = n /\ Len(Built(c)) = m
  <2>1. IsSlip(c, m)
    BY <1>1, <1>4, <1>5, RemovedIsSlip
  <2> QED BY <1>1, <2>1, BuiltIs
<1>10. PICK e : e = EvaluateBlocks(b)
  OBVIOUS
<1>11. a.signal = Signal(e) /\ a.score = e.metrics.final
  BY <1>1, <1>10 DEF IsAnalysis
<1>12. /\ e.metrics = x
       /\ e.inductor = Engine!ResolveInductor(x.final, n, x.penalty, FALSE)
  BY <1>8, <1>9, <1>10, EvaluationIs
<1>13. /\ after.metrics = y
       /\ after.inductor = Engine!ResolveInductor(y.final, m, y.penalty, FALSE)
  BY <1>6, <1>8, <1>9, EvaluationIs
<1>14. x.final \in Nat /\ y.final \in Nat /\ x.penalty \in Nat /\ y.penalty \in Nat
  <2>1. /\ x.penalty \in Nat /\ x.final \in 0..100 * Engine!Point
        /\ y.penalty \in Nat /\ y.final \in 0..100 * Engine!Point
    BY ONLY x \in Engine!Metrics, y \in Engine!Metrics DEF Engine!Metrics
  <2>2. PICK top \in Int : top = 100 * Engine!Point
    BY DEF Engine!Point
  <2>3. x.final \in 0..top /\ y.final \in 0..top
    BY <2>1, <2>2
  <2> QED BY <2>1, <2>3
<1>15. PICK s \in Nat, t \in Nat : s = SignalOrder[a.signal] /\ t = SignalOrder[Signal(after)] /\ s <= t
  <2>1. /\ SignalOrder[Signal(e)] \in Nat /\ SignalOrder[Signal(after)] \in Nat
        /\ SignalOrder[Signal(e)] <= SignalOrder[Signal(after)]
    <3>1. PICK u \in Nat, v \in Nat, k \in Nat, l \in Nat :
            u = x.final /\ v = y.final /\ k = x.penalty /\ l = y.penalty
      BY <1>14
    <3>2. v <= u /\ l <= k
      BY <1>8, <3>1
    <3>3. /\ e.metrics.final = u /\ after.metrics.final = v
          /\ e.inductor = Engine!ResolveInductor(u, n, k, FALSE)
          /\ after.inductor = Engine!ResolveInductor(v, m, l, FALSE)
      BY <1>12, <1>13, <3>1
    <3> QED BY <1>5, <3>2, <3>3, SignalNoWorse
  <2> QED BY <1>11, <2>1
<1>16. Change(s, t) # "down" /\ Change(x.final, y.final) # "up"
  BY <1>8, <1>14, <1>15 DEF Change
<1> QED BY <1>7, <1>15, <1>16, <1>11, <1>12, <1>13

-----------------------------------------------------------------------------
(* The response.                                                           *)

\* What AdviceConsistent asks of a report.
Advice(r) ==
  LET p == r.panels
      g == r.grounding
      note == r.artifacts[3]
      calm == p.signal \in {"blue", "green"}
  IN  /\ {g.structural, g.heuristics, g.generic} \subseteq 0..100
      /\ g.structural + g.heuristics + g.generic = 100
      /\ p.context # None => p.context \in -100..0
      /\ p.failure.candidates \cup p.notable \subseteq DOMAIN r.blocks
      /\ p.tier = "good" => p.explain.signal = p.signal /\ p.explain.grade = p.grade
      /\ calm <=> p.bucket \in {"low", "medium"}
      /\ calm <=> p.tone = "positive"
      /\ calm <=> p.guidance = None
      /\ p.signal = "red" <=> p.tone = "cautious"
      /\ p.signal = "red" <=> note.key = "FAIL"
      /\ p.signal = "red" => r.artifacts[2].key = "high_fragility"
      /\ <<p.bucket, p.summary.assessment, note.advisory.fragility>> \in
           {<<"low", "clean", "low">>, <<"medium", "moving_parts", "moderate">>,
            <<"high", "pressure", "elevated">>, <<"critical", "thin_ice", "high">>}
      /\ p.preview # None => p.preview.signal # "down" /\ p.preview.fragility # "up"
      /\ p.failure.type \notin DOMAIN p.secondary
      /\ \A f \in DOMAIN p.secondary :
           SeverityRank[p.secondary[f]] <= SeverityRank[p.failure.severity]
      /\ p.tier = "good" =>
           \A i \in p.explain.removals :
             \E j \in DOMAIN r.blocks : i # j /\ r.blocks[i].game = r.blocks[j].game

\* The slip under way came through the airlock.
SlipInv ==
  phase \in {"received", "investigating", "failed", "reporting"} =>
    \E raw \in Requests \cup Followups :
      raw.text # <<>> /\ slip.text = raw.text /\ slip.canonical = raw.canonical

\* The analysis of a text that is not empty.
LEMMA AnalysisIs ==
  ASSUME NEW s, s.text \in Seq(DOMAIN Phrase), s.text # <<>>, NEW a, a = Analysis(s)
  PROVE  IsAnalysis(a, Len(ParseBetText(s.text))) /\ a.blocks = ParseBetText(s.text)
<1>1. PICK b, n : b = ParseBetText(s.text) /\ n = Len(b)
  OBVIOUS
<1>2. IsSlip(b, n)
  BY <1>1, BlocksAreLegs
<1>3. a = Context(s, b, EvaluateBlocks(b))
  BY <1>1 DEF Analysis
<1>4. /\ a.blocks = b /\ a.eval = EvaluateBlocks(b) /\ a.pairs = Correlated(b)
      /\ a.signal = Signal(EvaluateBlocks(b)) /\ a.score = EvaluateBlocks(b).metrics.final
  BY <1>3 DEF Context
<1>5. IsAnalysis(a, n)
  BY <1>2, <1>4 DEF IsAnalysis
<1> QED BY <1>1, <1>4, <1>5

\* Only the tier GOOD reads the signal, the grade and the removals again.
LEMMA ExplainIs ==
  ASSUME NEW a, NEW n, IsAnalysis(a, n), NEW f, NEW tier, NEW x, x = ApplyTierFiltering(tier, a, f),
         tier = "good"
  PROVE  /\ x.signal = a.signal /\ x.grade = Grade[a.signal]
         /\ \A i \in x.removals : \E j \in 1..n : i # j /\ a.blocks[i].game = a.blocks[j].game
<1>1. x = BuildGoodTierOutput(a, f)
  BY DEF ApplyTierFiltering
<1>2. /\ x.signal = Signal(a.eval) /\ x.grade = Grade[Signal(a.eval)]
      /\ x.removals = MostCorrelated(a.pairs, 2)
  BY <1>1 DEF BuildGoodTierOutput
<1>3. PICK b : b = a.blocks /\ IsSlip(b, n) /\ a.pairs = Correlated(b) /\ a.signal = Signal(a.eval)
  BY DEF IsAnalysis
<1>4. \A i \in x.removals : \E j \in 1..n : i # j /\ b[i].game = b[j].game
  BY <1>2, <1>3, RemovalsAre
<1> QED BY <1>2, <1>3, <1>4

\* The response to a slip from the airlock.
LEMMA ResponseIs ==
  ASSUME NEW raw \in Requests \cup Followups, raw.text # <<>>,
         slip.text = raw.text, slip.canonical = raw.canonical,
         NEW a, a = Analysis(slip), NEW f, f = PrimaryFailure(a), NEW hook, NEW current,
         current.structure = StructureSnapshot(a.blocks, slip.canonical), NEW previous,
         NEW r, r = Response(a, f, hook, Artifacts(a, f), current, previous)
  PROVE  Advice(r)
<1>1. raw.text \in Seq(DOMAIN Phrase) /\ raw.canonical \in Seq(ToSet(raw.canonical))
  BY EvaluationAssumption
<1>2. PICK n : IsAnalysis(a, n)
  BY <1>1, AnalysisIs
<1>3. PICK b : b = a.blocks /\ IsSlip(b, n) /\ DOMAIN b = 1..n
  BY <1>2, SlipIsFinite DEF IsAnalysis
<1>4. PICK p, g, e, x, s, tone :
        /\ p = Panels(a, f) /\ x = ApplyTierFiltering(slip.tier, a, f)
        /\ s = current.structure /\ tone = FinalVerdict(a.signal)
        /\ e = EmitArtifacts(a.score, a.legs, a.eval.metrics.penalty, f.type, a.signal, Pt)
        /\ g = GroundingScore(GroundingPoints(s, a, f, tone))
  OBVIOUS
<1>5. r.panels = p /\ r.blocks = b /\ r.grounding = g /\ r.artifacts = e
  BY <1>3, <1>4 DEF Response, Artifacts
<1>6. /\ p.failure = f /\ p.preview = DeltaPreview(a, f) /\ p.signal = a.signal
      /\ p.grade = Grade[a.signal] /\ p.bucket = InterpretFragility(a.score)
      /\ p.explain = x /\ p.tier = slip.tier /\ p.secondary = SecondaryFactors(a, f.type)
      /\ p.summary.assessment = Assessment(a.score) /\ p.notable = NotableLegs(a)
      /\ p.tone = tone /\ p.guidance = GentleGuidance(f, a.signal)
      /\ p.context = ContextPanel(slip.text)
  BY <1>4 DEF Panels, HumanSummary
<1>7. /\ g.structural \in 0..100 /\ g.heuristics \in 0..100 /\ g.generic \in 0..100
      /\ g.structural + g.heuristics + g.generic = 100
  <2>1. /\ s.props \in Nat /\ s.totals \in Nat
        /\ Cardinality(s.flags) \in Nat /\ Cardinality(ToSet(s.leg_types)) \in Nat
    <3>1. PICK c : c = slip.canonical /\ c \in Seq(ToSet(c))
      BY <1>1
    <3>2. s = StructureSnapshot(b, c)
      BY <1>3, <1>4, <3>1
    <3> QED BY <1>3, <3>1, <3>2, StructureIs
  <2>2. PICK q : q = GroundingPoints(s, a, f, tone)
    OBVIOUS
  <2>3. q.structural \in Nat /\ q.heuristics \in Nat /\ q.generic \in Nat \ {0}
    BY <1>2, <2>1, <2>2, PointsAre
  <2> QED BY <1>4, <2>2, <2>3, GroundingIs
<1>8. p.context # None => p.context \in -100..0
  BY <1>1, <1>6, ConfidenceIs
<1>9. /\ f.type \in Failure /\ f.type \notin DOMAIN SecondaryFactors(a, f.type)
      /\ \A h \in DOMAIN SecondaryFactors(a, f.type) :
           SeverityRank[SecondaryFactors(a, f.type)[h]] <= SeverityRank[f.severity]
      /\ f.candidates = CandidateLegs(a, f.type)
      /\ FailureScores(a, TRUE)[f.type] \in Nat
      /\ FailureScores(a, TRUE)[f.type] = 0 => f.type = "leg_count"
  BY <1>2, SecondaryAre
<1>10. f.candidates \in SUBSET (1..n)
  <2>1. PICK type, top : type = f.type /\ top = FailureScores(a, TRUE)[type]
    OBVIOUS
  <2>2. type \in Failure /\ top \in Nat /\ (top = 0 => type = "leg_count")
    BY <1>9, <2>1
  <2>3. PICK c : c = CandidateLegs(a, type) /\ f.candidates = c
    BY <1>9, <2>1
  <2>4. c \in SUBSET (1..n)
    BY <1>2, <2>1, <2>2, <2>3, CandidatesAre
  <2> QED BY <2>3, <2>4
<1>11. p.failure.candidates \cup p.notable \subseteq DOMAIN r.blocks
  <2>1. NotableLegs(a) \subseteq 1..n
    <3>1. NotableLegs(a) \subseteq DOMAIN a.blocks
      BY NotableAre
    <3> QED BY <1>3, <3>1
  <2>2. p.failure.candidates = f.candidates /\ p.notable = NotableLegs(a) /\ DOMAIN r.blocks = 1..n
    BY <1>3, <1>5, <1>6
  <2> QED BY <1>10, <2>1, <2>2
<1>12. p.preview # None => p.preview.signal # "down" /\ p.preview.fragility # "up"
  BY <1>2, <1>6, <1>10, PreviewIs
<1>13. p.tier = "good" =>
         /\ p.explain.signal = p.signal /\ p.explain.grade = p.grade
         /\ \A i \in p.explain.removals :
              \E j \in DOMAIN r.blocks : i # j /\ r.blocks[i].game = r.blocks[j].game
  <2> SUFFICES ASSUME p.tier = "good"
               PROVE  /\ p.explain.signal = p.signal /\ p.explain.grade = p.grade
                      /\ \A i \in p.explain.removals :
                           \E j \in DOMAIN r.blocks : i # j /\ r.blocks[i].game = r.blocks[j].game
    OBVIOUS
  <2>1. PICK tier : tier = slip.tier /\ x = ApplyTierFiltering(tier, a, f)
    BY <1>4
  <2>2. tier = "good"
    BY <1>6, <2>1
  <2>3. /\ x.signal = a.signal /\ x.grade = Grade[a.signal]
        /\ \A i \in x.removals : \E j \in 1..n : i # j /\ a.blocks[i].game = a.blocks[j].game
    BY <1>2, <2>1, <2>2, ExplainIs
  <2>4. p.explain = x /\ p.signal = a.signal /\ p.grade = Grade[a.signal]
    BY <1>6
  <2>5. r.blocks = b /\ a.blocks = b /\ DOMAIN b = 1..n
    BY <1>3, <1>5
  <2> QED BY ONLY <2>3, <2>4, <2>5
<1>14. /\ p.signal \in {"blue", "green"} <=> p.bucket \in {"low", "medium"}
       /\ p.signal \in {"blue", "green"} <=> p.tone = "positive"
       /\ p.signal \in {"blue", "green"} <=> p.guidance = None
       /\ p.signal = "red" <=> p.tone = "cautious"
       /\ p.signal = "red" <=> e[3].key = "FAIL"
       /\ p.signal = "red" => e[2].key = "high_fragility"
       /\ <<p.bucket, p.summary.assessment, e[3].advisory.fragility>> \in
            {<<"low", "clean", "low">>, <<"medium", "moving_parts", "moderate">>,
             <<"high", "pressure", "elevated">>, <<"critical", "thin_ice", "high">>}
  BY <1>2, <1>4, <1>6, <1>9, ThresholdsAgree
<1>15. /\ p.failure.type \notin DOMAIN p.secondary
       /\ \A h \in DOMAIN p.secondary :
            SeverityRank[p.secondary[h]] <= SeverityRank[p.failure.severity]
  BY <1>6, <1>9
<1> QED BY <1>5, <1>7, <1>8, <1>11, <1>12, <1>13, <1>14, <1>15 DEF Advice

\* Only the airlock lets a slip in.
LEMMA SlipStep == SlipInv /\ [EvaluationNext]_evalVars => SlipInv'
<1> SUFFICES ASSUME SlipInv, [EvaluationNext]_evalVars
             PROVE  SlipInv'
  OBVIOUS
<1>1. ASSUME NEW raw \in Requests \cup Followups, Ingest(raw)
      PROVE  SlipInv'
  <2>1. CASE AirlockError(raw) # None
    <3>1. UNCHANGED <<phase, slip>>
      BY <1>1, <2>1 DEF Ingest
    <3> QED BY <3>1 DEF SlipInv
  <2>2. CASE AirlockError(raw) = None
    <3>1. slip' = [text |-> raw.text, canonical |-> raw.canonical, tier |-> NormalizeTier(raw.tier)]
      BY <1>1, <2>2 DEF Ingest
    <3>2. raw.text # <<>>
      BY <2>2, EvaluationAssumption DEF AirlockError
    <3> QED BY <3>1, <3>2 DEF SlipInv
  <2> QED BY <2>1, <2>2
<1>2. ASSUME RunSherlockHook \/ EngineFails \/ FinishInvestigation \/ \E c \in Claims : Investigate(c)
      PROVE  SlipInv'
  <2>1. /\ slip' = slip /\ phase' # "received"
        /\ phase' \in {"investigating", "failed", "reporting"} =>
             phase \in {"received", "investigating", "failed", "reporting"}
    BY <1>2 DEF RunSherlockHook, EngineFails, FinishInvestigation, Investigate
  <2> QED BY <2>1 DEF SlipInv
<1>3. ASSUME Iterate \/ UNCHANGED evalVars
      PROVE  SlipInv'
  <2>1. UNCHANGED <<slip, phase>>
    BY <1>3 DEF Iterate, evalVars
  <2> QED BY <2>1 DEF SlipInv
<1>4. ASSUME Answer
      PROVE  SlipInv'
  <2>1. phase' = "idle"
    BY <1>4 DEF Answer
  <2> QED BY <2>1 DEF SlipInv
<1>5. ASSUME NEW raw \in (IF snapshots = <<>> THEN Requests ELSE Followups), Ingest(raw)
      PROVE  SlipInv'
  BY <1>1, <1>5
<1> QED BY <1>2, <1>3, <1>4, <1>5 DEF EvaluationNext

\* What is answered to a slip from the airlock agrees with itself.
LEMMA AnswerKeepsAdvice ==
  ASSUME SlipInv, Answer
  PROVE  AdviceConsistent'
<1>1. PICK raw \in Requests \cup Followups :
        raw.text # <<>> /\ slip.text = raw.text /\ slip.canonical = raw.canonical
  BY DEF SlipInv, Answer
<1>2. PICK a, f, hook, current, previous :
        /\ a = Analysis(slip) /\ f = PrimaryFailure(a)
        /\ current.structure = StructureSnapshot(a.blocks, slip.canonical)
        /\ report' = Response(a, f, hook, Artifacts(a, f), current, previous)
  <2>1. PICK a \in {Analysis(slip)}, hook \in {Hooked} : \E f \in {PrimaryFailure(a)} :
          report' = Response(a, f, hook, Artifacts(a, f),
                      [structure |-> StructureSnapshot(a.blocks, slip.canonical),
                       signal |-> a.signal, score |-> a.score], Stored(Session))
    BY DEF Answer
  <2>2. PICK f : f = PrimaryFailure(a) /\
          report' = Response(a, f, hook, Artifacts(a, f),
                      [structure |-> StructureSnapshot(a.blocks, slip.canonical),
                       signal |-> a.signal, score |-> a.score], Stored(Session))
    BY <2>1
  <2>3. PICK structure, current, previous :
          /\ structure = StructureSnapshot(a.blocks, slip.canonical)
          /\ current = [structure |-> structure, signal |-> a.signal, score |-> a.score]
          /\ previous = Stored(Session)
    OBVIOUS
  <2>4. current.structure = structure
    BY ONLY <2>3
  <2>5. report' = Response(a, f, hook, Artifacts(a, f), current, previous)
    BY <2>2, <2>3
  <2> QED BY <2>1, <2>2, <2>3, <2>4, <2>5
<1>3. PICK r : r = report'
  OBVIOUS
<1>4. r = Response(a, f, hook, Artifacts(a, f), current, previous)
  BY <1>2, <1>3
<1>5. Advice(r)
  BY <1>1, <1>2, <1>4, ResponseIs
<1> QED BY <1>3, <1>5 DEF AdviceConsistent, Advice

\* Nothing else answers.
LEMMA AdviceStep ==
  SlipInv /\ AdviceConsistent /\ [EvaluationNext]_evalVars => AdviceConsistent'
<1> SUFFICES ASSUME SlipInv, AdviceConsistent, [EvaluationNext]_evalVars
             PROVE  AdviceConsistent'
  OBVIOUS
<1>1. ASSUME NEW raw \in (IF snapshots = <<>> THEN Requests ELSE Followups), Ingest(raw)
      PROVE  AdviceConsistent'
  <2>1. report' = None \/ \E e : report' = [error |-> e]
    BY <1>1 DEF Ingest
  <2>2. ~Answered'
    BY <2>1 DEF Answered
  <2> QED BY <2>2 DEF AdviceConsistent
<1>2. CASE Answer
  BY <1>2, AnswerKeepsAdvice
<1>3. ASSUME UNCHANGED report
      PROVE  AdviceConsistent'
  BY <1>3 DEF AdviceConsistent, Answered
<1> QED BY <1>1, <1>2, <1>3 DEF EvaluationNext, evalVars, RunSherlockHook, Iterate, EngineFails,
      Investigate, FinishInvestigation

\* The thresholds of every panel agree, a previewed removal is never for the
\* worse, no runner-up outranks the failure reported, grounding sums to 100,
\* context only takes confidence away and the panels name legs of the slip, for
\* all texts, builder slips, flags, tables of keywords and rosters.
THEOREM AdviceAlwaysConsistent == EvaluationSpec => []AdviceConsistent
<1>1. EvaluationInit => SlipInv /\ AdviceConsistent
  BY DEF EvaluationInit, SlipInv, AdviceConsistent, Answered
<1>2. SlipInv /\ AdviceConsistent /\ [EvaluationNext]_evalVars => (SlipInv /\ AdviceConsistent)'
  BY SlipStep, AdviceStep
<1> QED BY <1>1, <1>2, PTL DEF EvaluationSpec

=============================================================================
