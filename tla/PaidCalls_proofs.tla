--------------------------- MODULE PaidCalls_proofs ---------------------------
(***************************************************************************)
(* The routes that call OpenAI: what the tracker knows of the calls, what  *)
(* the audio cache saves and what the upload window lets through, for any  *)
(* number of overlapping requests, clients, narrations and limits.  Then   *)
(* the routes that keep nothing: a higher plan never gives less, and a     *)
(* suggestion is worth what it says, for any legs, candidates and signals. *)
(***************************************************************************)
EXTENDS PaidCalls, FiniteSetTheorems, WellFoundedInduction, TLAPS

Keys == {KeyOf(case) : case \in DOMAIN Narrations}

\* The requests under way, and the calls recorded.
Jobs ==
  {Idle}
    \cup [pc : {"speaking"}, route : {"narration"}, key : Keys]
    \cup [pc : {"speaking"}, route : {"tts"}, key : {NoNarration}]
    \cup [pc : {"reading"}, large : {u.large : u \in Uploads}, plan : {"good", "best"}]
    \cup [pc : {"seeing"}, plan : {"good", "best"}]

Calls == [endpoint : Endpoints, success : BOOLEAN, cached : BOOLEAN, at : Nat,
          what : Keys \cup {NoNarration}]

PaidTypes ==
  /\ now \in Nat
  /\ requests \in [Slots -> Jobs]
  /\ DOMAIN audio \subseteq Keys /\ \A k \in DOMAIN audio : audio[k] \in Nat
  /\ granted \in [Clients -> Seq(Nat)]
  /\ uploads \in [Clients -> SUBSET Nat]
  /\ issued \in [Endpoints -> Nat]
  /\ records \in Seq(Calls)
  /\ counters \in [Endpoints -> [total : Nat, success : Nat, failed : Nat, cached : Nat]]

\* How many slots have a request of X, and which positions a call of R.
Doing(X) == {s \in Slots : requests[s] \in X}
Number(X) == Cardinality(Doing(X))
Hits(R) == {i \in DOMAIN records : records[i] \in R}

Waiting(e) == {j \in Jobs : j.pc = IF e = "tts" THEN "speaking" ELSE "seeing"}
Reading == {j \in Jobs : j.pc = "reading"}
SpeakingFor(key) == {j \in Jobs : j.pc = "speaking" /\ j.key = key}

Fields == {"total", "success", "failed", "cached"}
CallsOf(e, field) ==
  {r \in Calls : /\ r.endpoint = e
                 /\ field = "success" => r.success
                 /\ field = "failed" => ~r.success
                 /\ field = "cached" => r.cached}
PaidCallsFor(key, from) ==
  {r \in Calls : r.what = key /\ r.success /\ ~r.cached /\ r.at \in from..from + CacheTtl}

-----------------------------------------------------------------------------
(* The invariant, part by part.                                            *)

\* Every call sent is counted or under way.
FlightInv ==
  \A e \in Endpoints : issued[e] + counters[e].cached = counters[e].total + Number(Waiting(e))

\* The list is the counters' until it is full; it is in order.
CountInv ==
  /\ Recorded <= MaxRecords => Len(records) = Recorded
  /\ Recorded > MaxRecords => Len(records) = MaxRecords
  /\ \A e \in Endpoints, field \in Fields :
       /\ Cardinality(Hits(CallsOf(e, field))) <= counters[e][field]
       /\ Recorded <= MaxRecords => Cardinality(Hits(CallsOf(e, field))) = counters[e][field]

OrderInv ==
  /\ \A i \in DOMAIN records : records[i].at <= now
  /\ \A i, j \in DOMAIN records : i <= j => records[i].at <= records[j].at

\* What was paid for in the last time to live is in the cache.
AudioInv ==
  /\ \A k \in DOMAIN audio : audio[k] <= now
  /\ \A k \in Keys : \A i \in DOMAIN records :
       records[i].what = k /\ records[i].success /\ ~records[i].cached =>
         \/ now - records[i].at > CacheTtl
         \/ k \in DOMAIN audio /\ records[i].at <= audio[k]

\* While a time to live lasts, the calls under way count too.
OnceInv ==
  \A k \in Keys, t \in Nat :
    LET paid == Cardinality(Hits(PaidCallsFor(k, t)))
    IN  /\ paid <= Cardinality(Slots)
        /\ now <= t + CacheTtl => paid + Number(SpeakingFor(k)) <= Cardinality(Slots)

\* The list of a client has every upload that still counts.
WindowInv ==
  \A c \in Clients :
    /\ uploads[c] \subseteq DOMAIN granted[c]
    /\ \A n \in DOMAIN granted[c] :
         granted[c][n] <= now /\ (now - granted[c][n] < UploadWindow => n \in uploads[c])
    /\ \A t \in Nat :
         Cardinality({n \in DOMAIN granted[c] : granted[c][n] \in t..t + UploadWindow - 1})
           <= UploadLimit

\* Every call of the vision API, sent or still to be sent, was charged.
ChargedInv ==
  IsFiniteSet(Charged) /\ issued["vision"] + Number(Reading) <= Cardinality(Charged)

PaidInv ==
  PaidTypes /\ FlightInv /\ CountInv /\ OrderInv /\ AudioInv /\ OnceInv /\ WindowInv /\ ChargedInv

-----------------------------------------------------------------------------
(* Counting.                                                               *)

\* Parts of a finite set.
LEMMA PartIsFinite ==
  ASSUME NEW T, IsFiniteSet(T), NEW S, S \subseteq T
  PROVE  /\ IsFiniteSet(S) /\ Cardinality(S) \in Nat /\ Cardinality(T) \in Nat
         /\ Cardinality(S) <= Cardinality(T)
<1>1. IsFiniteSet(S) /\ Cardinality(S) <= Cardinality(T)
  BY FS_Subset
<1> QED
  BY <1>1, FS_CardinalityType

\* A finite set with an element more or less.
LEMMA OneMore ==
  ASSUME NEW S, IsFiniteSet(S), NEW x
  PROVE  Cardinality(S \cup {x}) = Cardinality(S) + One(x \notin S)
<1>1. Cardinality(S) \in Nat
  BY FS_CardinalityType
<1>2. Cardinality(S \cup {x}) = IF x \in S THEN Cardinality(S) ELSE Cardinality(S) + 1
  BY FS_AddElement
<1> QED
  BY <1>1, <1>2 DEF One

LEMMA OneLess ==
  ASSUME NEW S, IsFiniteSet(S), NEW x
  PROVE  Cardinality(S \ {x}) + One(x \in S) = Cardinality(S)
<1>1. Cardinality(S) \in Nat
  BY FS_CardinalityType
<1>2. Cardinality(S \ {x}) = IF x \in S THEN Cardinality(S) - 1 ELSE Cardinality(S)
  BY FS_RemoveElement
<1> QED
  BY <1>1, <1>2 DEF One

\* A slot that goes from one request to another.
LEMMA SlotMoves ==
  ASSUME requests \in [Slots -> Jobs], NEW s \in Slots, NEW new \in Jobs,
         requests' = [requests EXCEPT ![s] = new], NEW X
  PROVE  /\ Number(X) \in Nat /\ Number(X)' \in Nat
         /\ Number(X)' + One(requests[s] \in X) = Number(X) + One(new \in X)
         /\ Number(X) <= Cardinality(Slots)
<1>1. Doing(X) \subseteq Slots /\ Doing(X)' \subseteq Slots
  BY DEF Doing
<1>2. /\ IsFiniteSet(Doing(X)) /\ Number(X) \in Nat /\ Number(X) <= Cardinality(Slots)
      /\ IsFiniteSet(Doing(X)') /\ Number(X)' \in Nat
  BY <1>1, PaidAssumption, PartIsFinite DEF Number
<1>3. s \in Doing(X) <=> requests[s] \in X
  BY DEF Doing
<1>4. CASE new \in X
  <2>1. Doing(X)' = Doing(X) \cup {s}
    BY <1>4 DEF Doing
  <2>2. Number(X)' = Number(X) + One(s \notin Doing(X))
    BY <1>2, <2>1, OneMore DEF Number
  <2> QED
    BY <1>2, <1>3, <1>4, <2>2 DEF One
<1>5. CASE new \notin X
  <2>1. Doing(X)' = Doing(X) \ {s}
    BY <1>5 DEF Doing
  <2>2. Number(X)' + One(s \in Doing(X)) = Number(X)
    BY <1>2, <2>1, OneLess DEF Number
  <2> QED
    BY <1>2, <1>3, <1>5, <2>2 DEF One
<1> QED
  BY <1>2, <1>4, <1>5

\* There are no more requests than slots.
LEMMA NumberIsNat == \A X : Number(X) \in Nat /\ Number(X) <= Cardinality(Slots)
<1> SUFFICES ASSUME NEW X PROVE Number(X) \in Nat /\ Number(X) <= Cardinality(Slots)
  OBVIOUS
<1>1. Doing(X) \subseteq Slots
  BY DEF Doing
<1> QED
  BY <1>1, PaidAssumption, PartIsFinite DEF Number

\* Positions in the list of calls are finitely many.
LEMMA HitsAreFinite ==
  ASSUME records \in Seq(Calls), NEW R
  PROVE  /\ IsFiniteSet(Hits(R)) /\ Cardinality(Hits(R)) \in Nat
         /\ Hits(R) \subseteq 1..Len(records) /\ Len(records) \in Nat
<1>1. Hits(R) \subseteq 1..Len(records) /\ Len(records) \in Nat
  BY DEF Hits
<1>2. IsFiniteSet(1..Len(records))
  BY <1>1, FS_Interval
<1> QED
  BY <1>1, <1>2, PartIsFinite

\* A call is recorded: the calls of a kind grow by it, unless the oldest of the
\* list is dropped for it.
LEMMA HitsAfterCall ==
  ASSUME records \in Seq(Calls), Len(records) <= MaxRecords, NEW call \in Calls,
         RecordApiCall(call), NEW R
  PROVE  /\ records' \in Seq(Calls) /\ Cardinality(Hits(R)') \in Nat
         /\ Cardinality(Hits(R)') <= Cardinality(Hits(R)) + One(call \in R)
         /\ Len(records) < MaxRecords =>
              Cardinality(Hits(R)') = Cardinality(Hits(R)) + One(call \in R)
<1>1. PICK n \in Nat : n = Len(records)
  OBVIOUS
<1>2. IsFiniteSet(Hits(R)) /\ Cardinality(Hits(R)) \in Nat /\ Hits(R) \subseteq 1..n
  BY <1>1, HitsAreFinite
<1>3. CASE n < MaxRecords
  <2>1. /\ records' = Append(records, call) /\ records' \in Seq(Calls) /\ Len(records') = n + 1
        /\ records'[n + 1] = call /\ \A i \in 1..n : records'[i] = records[i]
    BY <1>1, <1>3 DEF RecordApiCall
  <2>2. DOMAIN records' = 1..(n + 1) /\ DOMAIN records = 1..n
    BY <1>1, <2>1
  <2>3. Hits(R)' = IF call \in R THEN Hits(R) \cup {n + 1} ELSE Hits(R)
    <3>1. \A i \in 1..(n + 1) : i \in 1..n \/ i = n + 1
      OBVIOUS
    <3> QED
      BY <2>1, <2>2, <3>1 DEF Hits
  <2>4. n + 1 \notin Hits(R)
    BY <1>2
  <2>5. Cardinality(Hits(R) \cup {n + 1}) = Cardinality(Hits(R)) + 1
    <3>1. Cardinality(Hits(R) \cup {n + 1}) = Cardinality(Hits(R)) + One(n + 1 \notin Hits(R))
      BY ONLY <1>2, OneMore
    <3> QED
      BY <2>4, <3>1 DEF One
  <2> QED
    BY <1>1, <1>2, <1>3, <2>1, <2>3, <2>5 DEF One
<1>4. CASE n = MaxRecords
  <2>1. /\ records' = Tail(Append(records, call)) /\ records' \in Seq(Calls)
        /\ Len(records') = n /\ records'[n] = call /\ n > 0
        /\ \A i \in 1..(n - 1) : records'[i] = records[i + 1]
    <3>1. PICK longer : longer = Append(records, call)
      OBVIOUS
    <3>2. /\ longer \in Seq(Calls) /\ Len(longer) = n + 1 /\ longer[n + 1] = call
          /\ \A i \in 1..n : longer[i] = records[i]
      BY <1>1, <3>1
    <3>3. records' = Tail(longer) /\ n > 0
      BY <1>1, <1>4, <3>1, CostAssumption DEF RecordApiCall
    <3>4. /\ records' \in Seq(Calls) /\ Len(records') = n
          /\ \A i \in 1..n : records'[i] = longer[i + 1]
      BY <3>2, <3>3
    <3> QED
      BY <3>1, <3>2, <3>3, <3>4
  <2> DEFINE kept == Hits(R)' \ {n}
             back == [i \in kept |-> i + 1]
  <2>2. DOMAIN records' = 1..n /\ DOMAIN records = 1..n
    BY <1>1, <2>1
  <2>3. kept \subseteq 1..(n - 1)
    BY <2>2 DEF Hits
  <2>4. back \in Injection(kept, Hits(R))
    <3>1. \A i \in kept : i + 1 \in Hits(R)
      BY <2>1, <2>2, <2>3 DEF Hits
    <3>2. \A i, j \in kept : i + 1 = j + 1 => i = j
      BY <2>3
    <3> QED
      BY <3>1, <3>2 DEF Injection, IsInjective
  <2>5. IsFiniteSet(kept) /\ Cardinality(kept) <= Cardinality(Hits(R)) /\ Cardinality(kept) \in Nat
    BY <1>2, <2>4, FS_Injection, FS_CardinalityType
  <2>6. Hits(R)' = IF call \in R THEN kept \cup {n} ELSE kept
    BY <2>1, <2>2 DEF Hits
  <2>7. Cardinality(kept \cup {n}) = Cardinality(kept) + 1
    <3>1. n \notin kept
      OBVIOUS
    <3> HIDE DEF kept, back
    <3>2. Cardinality(kept \cup {n}) = Cardinality(kept) + One(n \notin kept)
      BY ONLY <2>5, OneMore
    <3> QED
      BY <3>1, <3>2 DEF One
  <2>8. Cardinality(Hits(R)') = Cardinality(kept) + One(call \in R)
    <3> HIDE DEF kept
    <3>1. CASE call \in R
      BY <2>6, <2>7, <3>1 DEF One
    <3>2. CASE call \notin R
      BY <2>5, <2>6, <3>2 DEF One
    <3> QED
      BY <3>1, <3>2
  <2>9. PICK c : c = Cardinality(kept)
    OBVIOUS
  <2>10. PICK d : d = Cardinality(Hits(R)')
    OBVIOUS
  <2>11. d \in Nat /\ d <= Cardinality(Hits(R)) + One(call \in R)
    <3>1. d = c + One(call \in R) /\ c \in Nat /\ c <= Cardinality(Hits(R))
      BY <2>5, <2>8, <2>9, <2>10
    <3> HIDE DEF kept
    <3> QED
      BY <1>2, <3>1 DEF One
  <2>12. ~(Len(records) < MaxRecords)
    BY <1>1, <1>4
  <2> QED
    BY <2>1, <2>10, <2>11, <2>12
<1> QED
  BY <1>1, <1>3, <1>4, CostAssumption

-----------------------------------------------------------------------------
(* The tracker: its list and its counters.                                 *)

LEMMA Constants ==
  /\ CacheTtl \in Nat /\ UploadWindow \in Nat /\ UploadWindow > 0 /\ UploadLimit \in Nat
  /\ MaxRecords \in Nat /\ MaxRecords > 0
  /\ Endpoints = {"tts", "vision"}
  /\ Cardinality(Slots) \in Nat
BY PaidAssumption, CostAssumption, FS_CardinalityType

\* The counters are numbers.
LEMMA CountersAreNat ==
  ASSUME PaidTypes
  PROVE  /\ \A e \in Endpoints, field \in Fields : counters[e][field] \in Nat
         /\ \A e \in Endpoints : issued[e] \in Nat
         /\ Recorded \in Nat /\ now \in Nat /\ Len(records) \in Nat
<1>1. \A e \in Endpoints : counters[e] \in [total : Nat, success : Nat, failed : Nat, cached : Nat]
  BY DEF PaidTypes
<1>2. \A e \in Endpoints, field \in Fields : counters[e][field] \in Nat
  BY <1>1 DEF Fields
<1>3. counters["tts"].total \in Nat /\ counters["vision"].total \in Nat
  BY <1>1, Constants
<1> QED
  BY <1>2, <1>3 DEF PaidTypes, Recorded

\* The list after a call: the call is its last, the oldest may be gone.
LEMMA RecordsAfterCall ==
  ASSUME records \in Seq(Calls), Len(records) <= MaxRecords, NEW call \in Calls,
         RecordApiCall(call)
  PROVE  \E d \in {0, 1} :
           /\ (d = 0 <=> Len(records) < MaxRecords) /\ Len(records) - d \in Nat
           /\ Len(records') = Len(records) - d + 1
           /\ records' \in Seq(Calls) /\ records'[Len(records')] = call
           /\ \A i \in 1..(Len(records) - d) : records'[i] = records[i + d]
<1>1. PICK n \in Nat : n = Len(records)
  OBVIOUS
<1>2. PICK longer : longer = Append(records, call)
  OBVIOUS
<1>3. /\ longer \in Seq(Calls) /\ Len(longer) = n + 1 /\ longer[n + 1] = call
      /\ \A i \in 1..n : longer[i] = records[i]
  BY <1>1, <1>2
<1>4. CASE n < MaxRecords
  <2>1. records' = longer
    BY <1>1, <1>2, <1>4 DEF RecordApiCall
  <2>2. n - 0 = n /\ \A i \in 1..n : i + 0 = i
    OBVIOUS
  <2> QED
    BY <1>1, <1>3, <1>4, <2>1, <2>2
<1>5. CASE ~(n < MaxRecords)
  <2>1. records' = Tail(longer) /\ n > 0
    BY <1>1, <1>2, <1>5, Constants DEF RecordApiCall
  <2>2. /\ records' \in Seq(Calls) /\ Len(records') = n /\ n - 1 \in Nat /\ n - 1 + 1 = n
        /\ \A i \in 1..n : records'[i] = longer[i + 1]
    BY <1>3, <2>1
  <2>3. \A i \in 1..(n - 1) : records'[i] = records[i + 1]
    BY <1>3, <2>1, <2>2
  <2>4. records'[n] = call
    BY <1>3, <2>1, <2>2
  <2> QED
    BY <1>1, <1>5, <2>2, <2>3, <2>4
<1> QED
  BY <1>4, <1>5

\* What a call adds to the counters.
LEMMA CountersAfterCall ==
  ASSUME PaidTypes, NEW call \in Calls, RecordApiCall(call)
  PROVE  /\ counters' \in [Endpoints -> [total : Nat, success : Nat, failed : Nat, cached : Nat]]
         /\ Recorded' = Recorded + 1
         /\ \A e \in Endpoints, field \in Fields :
              counters'[e][field] = counters[e][field] + One(call \in CallsOf(e, field))
<1>1. PICK e0 \in Endpoints : e0 = call.endpoint
  BY DEF Calls
<1>2. call.success \in BOOLEAN /\ call.cached \in BOOLEAN
  BY DEF Calls
<1>3. PICK old \in [total : Nat, success : Nat, failed : Nat, cached : Nat] : old = counters[e0]
  BY DEF PaidTypes
<1>4. PICK new : new = [total |-> old.total + 1, success |-> old.success + One(call.success),
                        failed |-> old.failed + One(~call.success),
                        cached |-> old.cached + One(call.cached)]
  OBVIOUS
<1>5. new \in [total : Nat, success : Nat, failed : Nat, cached : Nat]
  BY <1>3, <1>4 DEF One
<1>6. counters' = [counters EXCEPT ![e0] = new]
  BY <1>1, <1>3, <1>4 DEF RecordApiCall, PaidTypes
<1>7. counters' \in [Endpoints -> [total : Nat, success : Nat, failed : Nat, cached : Nat]]
  BY <1>5, <1>6 DEF PaidTypes
<1>8. counters'[e0] = new /\ \A e \in Endpoints : e # e0 => counters'[e] = counters[e]
  BY <1>6 DEF PaidTypes
<1>9. Recorded' = Recorded + 1
  <2>1. new.total = counters[e0].total + 1
    BY <1>3, <1>4
  <2>2. e0 = "tts" \/ e0 = "vision"
    BY Constants
  <2>3. counters["tts"].total \in Nat /\ counters["vision"].total \in Nat
    BY CountersAreNat, Constants DEF Fields
  <2> QED
    BY <1>8, <2>1, <2>2, <2>3, Constants DEF Recorded
<1>10. ASSUME NEW e \in Endpoints, NEW field \in Fields
       PROVE  counters'[e][field] = counters[e][field] + One(call \in CallsOf(e, field))
  <2>1. CASE e # e0
    <3>1. call \notin CallsOf(e, field)
      BY <1>1, <2>1 DEF CallsOf
    <3> QED
      BY <1>8, <2>1, <3>1, CountersAreNat DEF One
  <2>2. CASE e = e0
    <3>1. CASE field = "total"
      BY <1>1, <1>3, <1>4, <1>8, <2>2, <3>1 DEF CallsOf, One
    <3>2. CASE field = "success"
      BY <1>1, <1>2, <1>3, <1>4, <1>8, <2>2, <3>2 DEF CallsOf, One
    <3>3. CASE field = "failed"
      BY <1>1, <1>2, <1>3, <1>4, <1>8, <2>2, <3>3 DEF CallsOf, One
    <3>4. CASE field = "cached"
      BY <1>1, <1>2, <1>3, <1>4, <1>8, <2>2, <3>4 DEF CallsOf, One
    <3> QED
      BY <3>1, <3>2, <3>3, <3>4 DEF Fields
  <2> QED
    BY <2>1, <2>2
<1> QED
  BY <1>7, <1>9, <1>10

\* The list is never longer than its cap.
LEMMA ListIsCapped ==
  ASSUME PaidTypes, CountInv
  PROVE  Len(records) <= MaxRecords /\ (Len(records) < MaxRecords <=> Recorded < MaxRecords)
BY CountersAreNat, Constants DEF CountInv

\* A call recorded now keeps the list and the counters in step.
LEMMA CallKeepsCounts ==
  ASSUME PaidTypes, CountInv, OrderInv, NEW call \in Calls, call.at = now, now' = now,
         RecordApiCall(call)
  PROVE  CountInv' /\ OrderInv' /\ records' \in Seq(Calls)
<1>1. /\ records \in Seq(Calls) /\ Len(records) \in Nat /\ Recorded \in Nat /\ now \in Nat
      /\ Len(records) <= MaxRecords /\ (Len(records) < MaxRecords <=> Recorded < MaxRecords)
  BY CountersAreNat, ListIsCapped DEF PaidTypes
<1>2. Recorded' = Recorded + 1
  BY CountersAfterCall
<1>3. PICK d \in {0, 1} :
        /\ (d = 0 <=> Len(records) < MaxRecords) /\ Len(records) - d \in Nat
        /\ Len(records') = Len(records) - d + 1
        /\ records' \in Seq(Calls) /\ records'[Len(records')] = call
        /\ \A i \in 1..(Len(records) - d) : records'[i] = records[i + d]
  BY <1>1, RecordsAfterCall
<1>4. /\ Recorded' <= MaxRecords => Len(records') = Recorded'
      /\ Recorded' > MaxRecords => Len(records') = MaxRecords
  BY <1>1, <1>2, <1>3, Constants DEF CountInv
<1>5. ASSUME NEW e \in Endpoints, NEW field \in Fields
      PROVE  /\ Cardinality(Hits(CallsOf(e, field)))' <= counters'[e][field]
             /\ Recorded' <= MaxRecords =>
                  Cardinality(Hits(CallsOf(e, field)))' = counters'[e][field]
  <2>1. PICK n \in Nat : n = Cardinality(Hits(CallsOf(e, field)))
    BY <1>1, HitsAreFinite
  <2>2. PICK one \in {0, 1} : one = One(call \in CallsOf(e, field))
    BY DEF One
  <2>3. PICK m \in Nat : m = Cardinality(Hits(CallsOf(e, field))')
    BY <1>1, HitsAfterCall
  <2>4. m <= n + one /\ (Len(records) < MaxRecords => m = n + one)
    BY <1>1, <2>1, <2>2, <2>3, HitsAfterCall
  <2>5. counters'[e][field] = counters[e][field] + one /\ counters[e][field] \in Nat
    BY <2>2, CountersAfterCall, CountersAreNat
  <2>6. n <= counters[e][field] /\ (Recorded <= MaxRecords => n = counters[e][field])
    BY <2>1 DEF CountInv
  <2> QED
    BY <1>1, <1>2, <2>3, <2>4, <2>5, <2>6, Constants
<1>6. CountInv'
  BY <1>4, <1>5 DEF CountInv
<1>7. OrderInv'
  <2>1. PICK m \in Nat : m = Len(records) - d
    BY <1>3
  <2>2. DOMAIN records' = 1..(m + 1) /\ records'[m + 1] = call /\ DOMAIN records = 1..(m + d)
    BY <1>1, <1>3, <2>1
  <2>3. \A i \in 1..m : i + d \in DOMAIN records /\ records'[i] = records[i + d]
    BY <1>3, <2>1, <2>2
  <2>4. \A i \in 1..(m + 1) : i \in 1..m \/ i = m + 1
    OBVIOUS
  <2>5. ASSUME NEW i \in DOMAIN records'
        PROVE  records'[i].at <= now'
    <3>1. CASE i \in 1..m
      BY <2>3, <3>1 DEF OrderInv
    <3>2. CASE i = m + 1
      BY <1>1, <2>2, <3>2
    <3> QED
      BY <2>2, <2>4, <3>1, <3>2
  <2>6. \A i, j \in DOMAIN records' : i <= j => records'[i].at <= records'[j].at
    <3> SUFFICES ASSUME NEW i \in 1..(m + 1), NEW j \in 1..(m + 1), i <= j
                 PROVE  records'[i].at <= records'[j].at
      BY <2>2
    <3>1. CASE j = m + 1
      BY <2>2, <2>5, <3>1
    <3>2. CASE j \in 1..m
      <4>1. i \in 1..m /\ i + d <= j + d
        BY <3>2
      <4> QED
        BY <2>3, <3>2, <4>1 DEF OrderInv
    <3> QED
      BY <2>4, <3>1, <3>2
  <2> QED
    BY <2>5, <2>6 DEF OrderInv
<1> QED
  BY <1>3, <1>6, <1>7

\* Without a call, time alone disturbs nothing.
LEMMA CountsStay ==
  ASSUME PaidTypes, CountInv, OrderInv, UNCHANGED costVars, now' \in {now, now + 1}
  PROVE  CountInv' /\ OrderInv'
<1>1. records' = records /\ counters' = counters
  BY DEF costVars
<1>2. now \in Nat /\ now' \in Nat /\ now <= now'
  BY DEF PaidTypes
<1>3. \A i \in DOMAIN records : records[i].at \in Nat
  <2>1. \A i \in DOMAIN records : records[i] \in Calls
    BY DEF PaidTypes
  <2> QED
    BY <2>1 DEF Calls
<1>4. CountInv'
  BY <1>1 DEF CountInv, Hits, Recorded
<1>5. OrderInv'
  BY <1>1, <1>2, <1>3 DEF OrderInv
<1> QED
  BY <1>4, <1>5

-----------------------------------------------------------------------------
(* The requests under way.                                                 *)

LEMMA IdleJob ==
  /\ Idle \in Jobs /\ Idle \notin Reading
  /\ \A e \in Endpoints : Idle \notin Waiting(e)
  /\ \A k : Idle \notin SpeakingFor(k)
BY DEF Idle, Jobs, Reading, Waiting, SpeakingFor

LEMMA NoNarrationHasNoKey == NoNarration \notin Keys
BY PaidAssumption DEF NoNarration, Keys, KeyOf

LEMMA SpeakingJob ==
  ASSUME NEW k, NEW route, (route = "narration" /\ k \in Keys) \/ (route = "tts" /\ k = NoNarration),
         NEW job, job = [pc |-> "speaking", route |-> route, key |-> k]
  PROVE  /\ job \in Jobs /\ job \notin Reading
         /\ job \in Waiting("tts") /\ job \notin Waiting("vision")
         /\ \A key : job \in SpeakingFor(key) <=> key = k
BY DEF Jobs, Reading, Waiting, SpeakingFor

LEMMA ReadingJob ==
  ASSUME NEW upload \in Uploads, NEW plan \in {"good", "best"},
         NEW job, job = [pc |-> "reading", large |-> upload.large, plan |-> plan]
  PROVE  /\ job \in Jobs /\ job \in Reading
         /\ job \notin Waiting("tts") /\ job \notin Waiting("vision")
         /\ \A key : job \notin SpeakingFor(key)
BY DEF Jobs, Reading, Waiting, SpeakingFor

LEMMA SeeingJob ==
  ASSUME NEW plan \in {"good", "best"}, NEW job, job = [pc |-> "seeing", plan |-> plan]
  PROVE  /\ job \in Jobs /\ job \notin Reading
         /\ job \notin Waiting("tts") /\ job \in Waiting("vision")
         /\ \A key : job \notin SpeakingFor(key)
BY DEF Jobs, Reading, Waiting, SpeakingFor

\* What a slot that is doing something does.
LEMMA JobShapes ==
  ASSUME NEW job \in Jobs
  PROVE  /\ job.pc = "speaking" =>
              /\ (job.route = "narration" /\ job.key \in Keys) \/ (job.route = "tts" /\ job.key = NoNarration)
              /\ job \in Waiting("tts") /\ job \notin Waiting("vision") /\ job \notin Reading
              /\ \A key : job \in SpeakingFor(key) <=> key = job.key
         /\ job.pc = "reading" =>
              /\ job.plan \in {"good", "best"} /\ job \in Reading
              /\ job \notin Waiting("tts") /\ job \notin Waiting("vision")
              /\ \A key : job \notin SpeakingFor(key)
         /\ job.pc = "seeing" =>
              /\ job.plan \in {"good", "best"}
              /\ job \notin Reading /\ job \notin Waiting("tts") /\ job \in Waiting("vision")
              /\ \A key : job \notin SpeakingFor(key)
<1>1. ASSUME job.pc = "speaking"
      PROVE  (job.route = "narration" /\ job.key \in Keys) \/ (job.route = "tts" /\ job.key = NoNarration)
  <2>1. CASE job \in [pc : {"speaking"}, route : {"narration"}, key : Keys]
    BY <2>1
  <2>2. CASE job \in [pc : {"speaking"}, route : {"tts"}, key : {NoNarration}]
    BY <2>2
  <2> QED
    BY <1>1, <2>1, <2>2 DEF Jobs, Idle
<1>2. ASSUME job.pc \in {"reading", "seeing"} PROVE job.plan \in {"good", "best"}
  BY <1>2 DEF Jobs, Idle
<1>3. /\ job \in Waiting("tts") <=> job.pc = "speaking"
      /\ job \in Waiting("vision") <=> job.pc = "seeing"
      /\ job \in Reading <=> job.pc = "reading"
      /\ \A key : job \in SpeakingFor(key) <=> (job.pc = "speaking" /\ job.key = key)
  BY DEF Reading, Waiting, SpeakingFor
<1> QED
  BY <1>1, <1>2, <1>3

LEMMA FlightArithmetic ==
  \A i, c, t, i1, c1, t1, n, m \in Nat : \A old, one \in {0, 1} :
    i + c = t + n /\ m + old = n + one /\ i1 + c1 + t + old = i + c + t1 + one
      => i1 + c1 = t1 + m
OBVIOUS

\* A slot moves; what is sent, counted and under way changes alike.
LEMMA FlightMoves ==
  ASSUME PaidTypes, FlightInv, NEW s \in Slots, NEW new \in Jobs,
         requests' = [requests EXCEPT ![s] = new],
         \A e \in Endpoints :
           /\ issued'[e] \in Nat /\ counters'[e].cached \in Nat /\ counters'[e].total \in Nat
           /\ issued'[e] + counters'[e].cached + counters[e].total + One(requests[s] \in Waiting(e))
                = issued[e] + counters[e].cached + counters'[e].total + One(new \in Waiting(e))
  PROVE  FlightInv'
<1> SUFFICES ASSUME NEW e \in Endpoints
             PROVE  issued'[e] + counters'[e].cached = counters'[e].total + Number(Waiting(e))'
  BY DEF FlightInv
<1>1. PICK old \in {0, 1} : old = One(requests[s] \in Waiting(e))
  BY DEF One
<1>2. PICK one \in {0, 1} : one = One(new \in Waiting(e))
  BY DEF One
<1>3. PICK n \in Nat : n = Number(Waiting(e))
  BY NumberIsNat
<1>4. PICK m \in Nat : m = Number(Waiting(e))' /\ m + old = n + one
  BY <1>1, <1>2, <1>3, SlotMoves DEF PaidTypes
<1>5. issued[e] + counters[e].cached = counters[e].total + n
  BY <1>3 DEF FlightInv
<1>6. counters[e].cached \in Nat /\ counters[e].total \in Nat /\ issued[e] \in Nat
  BY CountersAreNat DEF Fields
<1>7. /\ issued'[e] \in Nat /\ counters'[e].cached \in Nat /\ counters'[e].total \in Nat
      /\ issued'[e] + counters'[e].cached + counters[e].total + old
           = issued[e] + counters[e].cached + counters'[e].total + one
  BY <1>1, <1>2 DEF One
<1>8. issued'[e] + counters'[e].cached = counters'[e].total + m
  BY ONLY <1>4, <1>5, <1>6, <1>7, m \in Nat, n \in Nat, old \in {0, 1}, one \in {0, 1},
          FlightArithmetic
<1> QED
  BY <1>4, <1>8

-----------------------------------------------------------------------------
(* The audio cache.                                                        *)

LEMMA CallTypes ==
  ASSUME PaidTypes
  PROVE  \A i \in DOMAIN records : records[i] \in Calls /\ records[i].at \in Nat
<1>1. \A i \in DOMAIN records : records[i] \in Calls
  BY DEF PaidTypes
<1> QED
  BY <1>1 DEF Calls

\* An entry is dropped only when it is out of date.
LEMMA AudioForgets ==
  ASSUME PaidTypes, AudioInv, records' = records, now' = now, NEW key, GetCachedAudio(key)
  PROVE  AudioInv' /\ DOMAIN audio' \subseteq DOMAIN audio
         /\ \A k \in DOMAIN audio' : audio'[k] = audio[k]
<1>1. now \in Nat /\ CacheTtl \in Nat /\ \A k \in DOMAIN audio : audio[k] \in Nat
  BY Constants DEF PaidTypes
<1>2. CASE audio' = audio
  BY <1>2 DEF AudioInv
<1>3. CASE key \in DOMAIN audio /\ ~Fresh(key)
  <2>1. audio' = [k \in DOMAIN audio \ {key} |-> audio[k]]
    BY <1>3 DEF GetCachedAudio
  <2>2. now - audio[key] > CacheTtl
    BY <1>1, <1>3 DEF Fresh
  <2>3. ASSUME NEW k \in Keys, NEW i \in DOMAIN records,
               records[i].what = k, records[i].success, ~records[i].cached
        PROVE  now - records[i].at > CacheTtl \/ (k \in DOMAIN audio' /\ records[i].at <= audio'[k])
    <3>1. records[i].at \in Nat
      BY CallTypes
    <3>2. now - records[i].at > CacheTtl \/ (k \in DOMAIN audio /\ records[i].at <= audio[k])
      BY <2>3 DEF AudioInv
    <3>3. CASE k = key
      BY <1>1, <1>3, <2>2, <3>1, <3>2, <3>3
    <3>4. CASE k # key
      BY <2>1, <3>2, <3>4
    <3> QED
      BY <3>3, <3>4
  <2> QED
    BY <2>1, <2>3 DEF AudioInv
<1> QED
  BY <1>2, <1>3 DEF GetCachedAudio

\* What was paid for a key stays so without a call.
LEMMA PaidStays ==
  ASSUME records' = records, NEW k, NEW t
  PROVE  Cardinality(Hits(PaidCallsFor(k, t)))' = Cardinality(Hits(PaidCallsFor(k, t)))
BY DEF Hits

\* Time passes, or a lookup fails, and nobody speaks more than before.
LEMMA AudioStays ==
  ASSUME PaidTypes, AudioInv, OnceInv, records' = records, now' \in {now, now + 1},
         audio' = audio \/ (now' = now /\ \E key : GetCachedAudio(key)),
         \A k \in Keys : Number(SpeakingFor(k))' \in Nat
                         /\ Number(SpeakingFor(k))' <= Number(SpeakingFor(k))
  PROVE  AudioInv' /\ OnceInv'
<1>1. now \in Nat /\ now' \in Nat /\ now <= now' /\ CacheTtl \in Nat /\ Cardinality(Slots) \in Nat
  BY Constants DEF PaidTypes
<1>2. ASSUME audio' = audio
      PROVE  AudioInv'
  <2>1. \A k \in DOMAIN audio' : audio'[k] <= now'
    BY <1>1, <1>2 DEF AudioInv, PaidTypes
  <2>2. ASSUME NEW k \in Keys, NEW i \in DOMAIN records,
               records[i].what = k, records[i].success, ~records[i].cached
        PROVE  now' - records[i].at > CacheTtl \/ (k \in DOMAIN audio /\ records[i].at <= audio[k])
    <3>1. records[i].at \in Nat
      BY CallTypes
    <3>2. now - records[i].at > CacheTtl \/ (k \in DOMAIN audio /\ records[i].at <= audio[k])
      BY <2>2 DEF AudioInv
    <3> QED
      BY <1>1, <3>1, <3>2
  <2>3. \A k \in Keys : \A i \in DOMAIN records :
          records[i].what = k /\ records[i].success /\ ~records[i].cached =>
            now' - records[i].at > CacheTtl \/ (k \in DOMAIN audio /\ records[i].at <= audio[k])
    BY <2>2
  <2> QED
    BY <1>2, <2>1, <2>3 DEF AudioInv
<1>3. AudioInv'
  BY <1>2, AudioForgets
<1>4. ASSUME NEW k \in Keys, NEW t \in Nat
      PROVE  /\ Cardinality(Hits(PaidCallsFor(k, t)))' <= Cardinality(Slots)
             /\ now' <= t + CacheTtl =>
                  Cardinality(Hits(PaidCallsFor(k, t)))' + Number(SpeakingFor(k))'
                    <= Cardinality(Slots)
  <2>1. PICK n \in Nat : n = Cardinality(Hits(PaidCallsFor(k, t)))
    BY HitsAreFinite DEF PaidTypes
  <2>2. n = Cardinality(Hits(PaidCallsFor(k, t)))'
    BY <2>1, PaidStays
  <2>3. n <= Cardinality(Slots)
        /\ (now <= t + CacheTtl => n + Number(SpeakingFor(k)) <= Cardinality(Slots))
    BY <2>1 DEF OnceInv
  <2>4. PICK a, b \in Nat : a = Number(SpeakingFor(k)) /\ b = Number(SpeakingFor(k))' /\ b <= a
    BY NumberIsNat
  <2>5. n <= Cardinality(Slots) /\ (now' <= t + CacheTtl => n + b <= Cardinality(Slots))
    BY <1>1, <2>1, <2>3, <2>4
  <2> QED
    BY <2>2, <2>4, <2>5
<1>5. OnceInv'
  BY <1>4 DEF OnceInv
<1> QED
  BY <1>3, <1>5

\* Who asks for a narration that is not cached is the first to pay for it in
\* any time to live that has not ended.
LEMMA AskKeepsAudio ==
  ASSUME PaidTypes, AudioInv, OnceInv, records' = records, now' = now, NEW key \in Keys,
         ~Cached(key), GetCachedAudio(key),
         \A k \in Keys : Number(SpeakingFor(k))' \in Nat
                         /\ Number(SpeakingFor(k))' <= Cardinality(Slots)
                         /\ (k # key => Number(SpeakingFor(k))' <= Number(SpeakingFor(k)))
  PROVE  AudioInv' /\ OnceInv'
<1>1. now \in Nat /\ CacheTtl \in Nat /\ Cardinality(Slots) \in Nat
      /\ \A k \in DOMAIN audio : audio[k] \in Nat
  BY Constants DEF PaidTypes
<1>2. AudioInv'
  BY AudioForgets
<1>3. ASSUME NEW t \in Nat, now <= t + CacheTtl
      PROVE  Hits(PaidCallsFor(key, t)) = {}
  <2> SUFFICES ASSUME NEW i \in Hits(PaidCallsFor(key, t)) PROVE FALSE
    OBVIOUS
  <2>1. /\ i \in DOMAIN records /\ records[i].what = key /\ records[i].success
        /\ ~records[i].cached /\ records[i].at \in t..t + CacheTtl
    BY DEF Hits, PaidCallsFor
  <2>2. now - records[i].at > CacheTtl \/ (key \in DOMAIN audio /\ records[i].at <= audio[key])
    BY <2>1 DEF AudioInv
  <2>3. key \in DOMAIN audio => now - audio[key] > CacheTtl
    BY <1>1 DEF Cached, Fresh
  <2> QED
    BY <1>1, <1>3, <2>1, <2>2, <2>3
<1>4. ASSUME NEW k \in Keys, NEW t \in Nat
      PROVE  /\ Cardinality(Hits(PaidCallsFor(k, t)))' <= Cardinality(Slots)
             /\ now' <= t + CacheTtl =>
                  Cardinality(Hits(PaidCallsFor(k, t)))' + Number(SpeakingFor(k))'
                    <= Cardinality(Slots)
  <2>1. PICK n \in Nat : n = Cardinality(Hits(PaidCallsFor(k, t)))
    BY HitsAreFinite DEF PaidTypes
  <2>2. n = Cardinality(Hits(PaidCallsFor(k, t)))'
    BY <2>1, PaidStays
  <2>3. n <= Cardinality(Slots)
        /\ (now <= t + CacheTtl => n + Number(SpeakingFor(k)) <= Cardinality(Slots))
    BY <2>1 DEF OnceInv
  <2>4. PICK a, b \in Nat : /\ a = Number(SpeakingFor(k)) /\ b = Number(SpeakingFor(k))'
                            /\ b <= Cardinality(Slots) /\ (k # key => b <= a)
    BY NumberIsNat
  <2>5. k = key /\ now <= t + CacheTtl => n = 0
    BY <1>3, <2>1, FS_EmptySet
  <2>6. n <= Cardinality(Slots) /\ (now <= t + CacheTtl => n + b <= Cardinality(Slots))
    BY <1>1, <2>1, <2>3, <2>4, <2>5
  <2> QED
    BY <2>2, <2>4, <2>6
<1>5. OnceInv'
  BY <1>4 DEF OnceInv
<1> QED
  BY <1>2, <1>5

\* A call recorded now is the only new one of the list.
LEMMA OldOrThis ==
  ASSUME PaidTypes, CountInv, NEW call \in Calls, RecordApiCall(call)
  PROVE  \A i \in DOMAIN records' :
           records'[i] = call \/ \E j \in DOMAIN records : records'[i] = records[j]
<1>1. records \in Seq(Calls) /\ Len(records) \in Nat /\ Len(records) <= MaxRecords
  BY ListIsCapped DEF PaidTypes
<1>2. PICK d \in {0, 1} :
        /\ Len(records) - d \in Nat /\ Len(records') = Len(records) - d + 1
        /\ records' \in Seq(Calls) /\ records'[Len(records')] = call
        /\ \A i \in 1..(Len(records) - d) : records'[i] = records[i + d]
  BY <1>1, RecordsAfterCall
<1>3. PICK m \in Nat : m = Len(records) - d
  BY <1>2
<1>4. DOMAIN records' = 1..(m + 1) /\ DOMAIN records = 1..(m + d)
  BY <1>1, <1>2, <1>3
<1>5. ASSUME NEW i \in 1..(m + 1)
      PROVE  i = m + 1 \/ (i \in 1..m /\ i + d \in 1..(m + d))
  OBVIOUS
<1> QED
  BY <1>2, <1>3, <1>4, <1>5

\* How many calls were paid for a key, after a call.
LEMMA PaidGrows ==
  ASSUME PaidTypes, CountInv, NEW call \in Calls, RecordApiCall(call), NEW k, NEW t
  PROVE  /\ Cardinality(Hits(PaidCallsFor(k, t))) \in Nat
         /\ Cardinality(Hits(PaidCallsFor(k, t)))' \in Nat
         /\ Cardinality(Hits(PaidCallsFor(k, t)))' <=
              Cardinality(Hits(PaidCallsFor(k, t))) + One(call \in PaidCallsFor(k, t))
<1>1. records \in Seq(Calls) /\ Len(records) <= MaxRecords
  BY ListIsCapped DEF PaidTypes
<1> QED
  BY <1>1, HitsAreFinite, HitsAfterCall

\* A call that pays for no narration.
LEMMA OtherCallKeepsAudio ==
  ASSUME PaidTypes, CountInv, AudioInv, OnceInv, audio' = audio, now' = now,
         NEW call \in Calls, RecordApiCall(call),
         call.what \notin Keys \/ ~call.success \/ call.cached,
         \A k \in Keys : Number(SpeakingFor(k))' \in Nat
                         /\ Number(SpeakingFor(k))' <= Number(SpeakingFor(k))
  PROVE  AudioInv' /\ OnceInv'
<1>1. now \in Nat /\ CacheTtl \in Nat /\ Cardinality(Slots) \in Nat
  BY Constants DEF PaidTypes
<1>2. AudioInv'
  <2>1. \A k \in Keys : \A i \in DOMAIN records' :
          records'[i].what = k /\ records'[i].success /\ ~records'[i].cached =>
            now - records'[i].at > CacheTtl \/ (k \in DOMAIN audio /\ records'[i].at <= audio[k])
    BY OldOrThis DEF AudioInv
  <2> QED
    BY <2>1 DEF AudioInv
<1>3. ASSUME NEW k \in Keys, NEW t \in Nat
      PROVE  /\ Cardinality(Hits(PaidCallsFor(k, t)))' <= Cardinality(Slots)
             /\ now' <= t + CacheTtl =>
                  Cardinality(Hits(PaidCallsFor(k, t)))' + Number(SpeakingFor(k))'
                    <= Cardinality(Slots)
  <2>1. PICK n \in Nat : n = Cardinality(Hits(PaidCallsFor(k, t)))
    BY PaidGrows
  <2>2. PICK m \in Nat : m = Cardinality(Hits(PaidCallsFor(k, t)))'
    BY PaidGrows
  <2>3. call \notin PaidCallsFor(k, t)
    BY DEF PaidCallsFor
  <2>4. m <= n
    BY <2>1, <2>2, <2>3, PaidGrows DEF One
  <2>5. n <= Cardinality(Slots)
        /\ (now <= t + CacheTtl => n + Number(SpeakingFor(k)) <= Cardinality(Slots))
    BY <2>1 DEF OnceInv
  <2>6. PICK a, b \in Nat : a = Number(SpeakingFor(k)) /\ b = Number(SpeakingFor(k))' /\ b <= a
    BY NumberIsNat
  <2>7. m <= Cardinality(Slots) /\ (now <= t + CacheTtl => m + b <= Cardinality(Slots))
    BY <1>1, <2>4, <2>5, <2>6
  <2> QED
    BY <2>2, <2>6, <2>7
<1>4. OnceInv'
  BY <1>3 DEF OnceInv
<1> QED
  BY <1>2, <1>4

\* A narration is spoken: it is paid for and cached, and speaks no longer.
LEMMA SpokenKeepsAudio ==
  ASSUME PaidTypes, CountInv, AudioInv, OnceInv, now' = now, NEW key \in Keys,
         SetCachedAudio(key), NEW call \in Calls, RecordApiCall(call),
         call.what = key, call.at = now,
         \A k \in Keys : Number(SpeakingFor(k))' \in Nat
                         /\ Number(SpeakingFor(k))' <= Number(SpeakingFor(k)),
         Number(SpeakingFor(key))' + 1 = Number(SpeakingFor(key))
  PROVE  AudioInv' /\ OnceInv'
<1>1. now \in Nat /\ CacheTtl \in Nat /\ Cardinality(Slots) \in Nat
  BY Constants DEF PaidTypes
<1>2. /\ DOMAIN audio' = DOMAIN audio \cup {key} /\ audio'[key] = now
      /\ \A k \in DOMAIN audio : k # key => audio'[k] = audio[k]
  BY DEF SetCachedAudio
<1>3. AudioInv'
  <2>1. \A k \in DOMAIN audio' : audio'[k] <= now
    BY <1>1, <1>2 DEF AudioInv
  <2>2. ASSUME NEW k \in Keys, NEW i \in DOMAIN records', records'[i].what = k
        PROVE  records'[i].success /\ ~records'[i].cached =>
                 \/ now - records'[i].at > CacheTtl
                 \/ k \in DOMAIN audio' /\ records'[i].at <= audio'[k]
    <3>1. CASE records'[i] = call
      BY <1>1, <1>2, <2>2, <3>1
    <3>2. CASE \E j \in DOMAIN records : records'[i] = records[j]
      <4>1. PICK j \in DOMAIN records : records'[i] = records[j]
        BY <3>2
      <4>2. records[j].at \in Nat
        BY CallTypes
      <4>3. records[j].success /\ ~records[j].cached =>
              \/ now - records[j].at > CacheTtl
              \/ k \in DOMAIN audio /\ records[j].at <= audio[k]
        BY <2>2, <4>1 DEF AudioInv
      <4>4. ASSUME k \in DOMAIN audio, records[j].at <= audio[k]
            PROVE  records[j].at <= audio'[k]
        <5>1. audio[k] \in Nat /\ audio[k] <= now
          BY <4>4 DEF AudioInv, PaidTypes
        <5>2. audio'[k] = audio[k] \/ audio'[k] = now
          BY <1>2, <4>4
        <5> QED
          BY ONLY <1>1, <4>2, <4>4, <5>1, <5>2
      <4> QED
        BY <1>2, <4>1, <4>3, <4>4
    <3> QED
      BY <3>1, <3>2, OldOrThis
  <2>3. \A k \in Keys : \A i \in DOMAIN records' :
          records'[i].what = k /\ records'[i].success /\ ~records'[i].cached =>
            now - records'[i].at > CacheTtl \/ (k \in DOMAIN audio' /\ records'[i].at <= audio'[k])
    BY <2>2
  <2> QED
    BY <2>1, <2>3 DEF AudioInv
<1>4. ASSUME NEW k \in Keys, NEW t \in Nat
      PROVE  /\ Cardinality(Hits(PaidCallsFor(k, t)))' <= Cardinality(Slots)
             /\ now' <= t + CacheTtl =>
                  Cardinality(Hits(PaidCallsFor(k, t)))' + Number(SpeakingFor(k))'
                    <= Cardinality(Slots)
  <2>1. PICK n \in Nat : n = Cardinality(Hits(PaidCallsFor(k, t)))
    BY PaidGrows
  <2>2. PICK m \in Nat : m = Cardinality(Hits(PaidCallsFor(k, t)))'
    BY PaidGrows
  <2>3. PICK one \in {0, 1} : one = One(call \in PaidCallsFor(k, t))
    BY DEF One
  <2>4. m <= n + one
    BY <2>1, <2>2, <2>3, PaidGrows
  <2>5. one = 1 => k = key /\ now <= t + CacheTtl
    <3>1. one = 1 => call \in PaidCallsFor(k, t)
      BY <2>3 DEF One
    <3> QED
      BY <1>1, <3>1 DEF PaidCallsFor
  <2>6. n <= Cardinality(Slots)
        /\ (now <= t + CacheTtl => n + Number(SpeakingFor(k)) <= Cardinality(Slots))
    BY <2>1 DEF OnceInv
  <2>7. PICK a, b \in Nat : /\ a = Number(SpeakingFor(k)) /\ b = Number(SpeakingFor(k))'
                            /\ b <= a /\ (k = key => b + 1 = a)
    BY NumberIsNat
  <2>8. m <= Cardinality(Slots) /\ (now <= t + CacheTtl => m + b <= Cardinality(Slots))
    BY <1>1, <2>4, <2>5, <2>6, <2>7
  <2> QED
    BY <2>2, <2>7, <2>8
<1>5. OnceInv'
  BY <1>4 DEF OnceInv
<1> QED
  BY <1>3, <1>5

-----------------------------------------------------------------------------
(* The window of uploads.                                                  *)

InTime(c, t) == {n \in DOMAIN granted[c] : granted[c][n] \in t..t + UploadWindow - 1}

LEMMA WindowTypes ==
  ASSUME PaidTypes, NEW c \in Clients
  PROVE  /\ granted[c] \in Seq(Nat) /\ Len(granted[c]) \in Nat
         /\ DOMAIN granted[c] = 1..Len(granted[c])
         /\ \A n \in DOMAIN granted[c] : granted[c][n] \in Nat
         /\ now \in Nat /\ UploadWindow \in Nat /\ UploadWindow > 0 /\ UploadLimit \in Nat
<1>1. granted[c] \in Seq(Nat)
  BY DEF PaidTypes
<1> QED
  BY <1>1, Constants DEF PaidTypes

\* Time passes, or a list is trimmed.
LEMMA WindowStays ==
  ASSUME PaidTypes, WindowInv, granted' = granted, now' \in {now, now + 1},
         \/ uploads' = uploads
         \/ now' = now /\ \E c \in Clients : uploads' = [uploads EXCEPT ![c] = InWindow(c)]
  PROVE  WindowInv' /\ uploads' \in [Clients -> SUBSET Nat]
<1>1. now \in Nat /\ now' \in Nat /\ now <= now' /\ uploads \in [Clients -> SUBSET Nat]
  BY DEF PaidTypes
<1>2. uploads' \in [Clients -> SUBSET Nat]
  BY <1>1 DEF InWindow
<1>3. ASSUME NEW c \in Clients
      PROVE  /\ uploads'[c] \subseteq DOMAIN granted[c]
             /\ \A n \in DOMAIN granted[c] :
                  granted[c][n] <= now' /\ (now' - granted[c][n] < UploadWindow => n \in uploads'[c])
  <2>1. \A n \in DOMAIN granted[c] : granted[c][n] \in Nat
    BY WindowTypes
  <2>2. /\ uploads[c] \subseteq DOMAIN granted[c]
        /\ \A n \in DOMAIN granted[c] :
             granted[c][n] <= now /\ (now - granted[c][n] < UploadWindow => n \in uploads[c])
    BY DEF WindowInv
  <2>3. UploadWindow \in Nat
    BY Constants
  <2>4. uploads'[c] = uploads[c] \/ (now' = now /\ uploads'[c] = InWindow(c))
    BY <1>1
  <2> QED
    BY <1>1, <2>1, <2>2, <2>3, <2>4 DEF InWindow
<1>4. \A c \in Clients, t \in Nat :
        Cardinality({n \in DOMAIN granted[c] : granted[c][n] \in t..t + UploadWindow - 1})
          <= UploadLimit
  BY DEF WindowInv
<1> QED
  BY <1>2, <1>3, <1>4 DEF WindowInv

\* An upload is charged when fewer than the limit are listed.
LEMMA WindowCharges ==
  ASSUME PaidTypes, WindowInv, now' = now, NEW c \in Clients,
         Cardinality(InWindow(c)) < UploadLimit,
         uploads' = [uploads EXCEPT ![c] = InWindow(c) \cup {Len(granted[c]) + 1}],
         granted' = [granted EXCEPT ![c] = Append(granted[c], now)]
  PROVE  /\ WindowInv' /\ uploads' \in [Clients -> SUBSET Nat]
         /\ granted' \in [Clients -> Seq(Nat)]
<1>1. /\ uploads \in [Clients -> SUBSET Nat] /\ granted \in [Clients -> Seq(Nat)] /\ now \in Nat
      /\ UploadWindow \in Nat /\ UploadWindow > 0 /\ UploadLimit \in Nat
  BY Constants DEF PaidTypes
<1>2. PICK len \in Nat : len = Len(granted[c]) /\ DOMAIN granted[c] = 1..len
  BY WindowTypes
<1>3. /\ granted'[c] \in Seq(Nat) /\ Len(granted'[c]) = len + 1
      /\ DOMAIN granted'[c] = 1..(len + 1) /\ granted'[c][len + 1] = now
      /\ \A n \in 1..len : granted'[c][n] = granted[c][n]
  BY <1>1, <1>2
<1>4. uploads'[c] = InWindow(c) \cup {len + 1}
  BY <1>1, <1>2
<1>5. \A b \in Clients : b # c => uploads'[b] = uploads[b] /\ granted'[b] = granted[b]
  BY <1>1
<1>6. InWindow(c) \subseteq 1..len
  BY <1>2 DEF InWindow, WindowInv
<1>7. uploads' \in [Clients -> SUBSET Nat] /\ granted' \in [Clients -> Seq(Nat)]
  <2>1. InWindow(c) \cup {len + 1} \in SUBSET Nat
    BY <1>6
  <2>2. Append(granted[c], now) \in Seq(Nat)
    BY <1>1
  <2> QED
    BY <1>1, <1>2, <2>1, <2>2
<1>8. \A n \in 1..(len + 1) : n \in 1..len \/ n = len + 1
  OBVIOUS
<1>9. /\ uploads'[c] \subseteq DOMAIN granted'[c]
      /\ \A n \in DOMAIN granted'[c] :
           /\ granted'[c][n] <= now'
           /\ now' - granted'[c][n] < UploadWindow => n \in uploads'[c]
  BY <1>1, <1>2, <1>3, <1>4, <1>6, <1>8 DEF WindowInv, InWindow
<1>10. ASSUME NEW t \in Nat
       PROVE  Cardinality(InTime(c, t))' <= UploadLimit
  <2>1. InTime(c, t) \subseteq 1..len /\ IsFiniteSet(1..len)
    BY <1>2, FS_Interval DEF InTime
  <2>2. IsFiniteSet(InTime(c, t)) /\ Cardinality(InTime(c, t)) \in Nat
    BY <2>1, PartIsFinite
  <2>3. CASE now \notin t..t + UploadWindow - 1
    <3>1. InTime(c, t)' = InTime(c, t)
      BY <1>2, <1>3, <1>8, <2>3 DEF InTime
    <3>2. Cardinality(InTime(c, t)) <= UploadLimit
      BY DEF WindowInv, InTime
    <3> QED
      BY <3>1, <3>2
  <2>4. CASE now \in t..t + UploadWindow - 1
    <3>1. InTime(c, t)' = InTime(c, t) \cup {len + 1}
      BY <1>2, <1>3, <1>8, <2>4 DEF InTime
    <3>2. len + 1 \notin InTime(c, t)
      BY <2>1
    <3>3. InTime(c, t) \subseteq InWindow(c)
      <4> SUFFICES ASSUME NEW n \in InTime(c, t) PROVE n \in InWindow(c)
        OBVIOUS
      <4>1. n \in DOMAIN granted[c] /\ granted[c][n] \in Nat /\ granted[c][n] >= t
        BY WindowTypes DEF InTime
      <4>2. now - granted[c][n] < UploadWindow
        BY <1>1, <2>4, <4>1
      <4> QED
        BY <4>1, <4>2 DEF WindowInv, InWindow
    <3>4. IsFiniteSet(InWindow(c)) /\ Cardinality(InWindow(c)) \in Nat
      BY <1>6, <2>1, PartIsFinite
    <3>5. Cardinality(InTime(c, t)) <= Cardinality(InWindow(c))
      BY <3>3, <3>4, PartIsFinite
    <3>6. Cardinality(InTime(c, t) \cup {len + 1}) = Cardinality(InTime(c, t)) + 1
      BY <2>2, <3>2, OneMore DEF One
    <3>7. Cardinality(InTime(c, t)) + 1 <= UploadLimit
      BY <1>1, <2>2, <3>4, <3>5
    <3> QED
      BY <3>1, <3>6, <3>7
  <2> QED
    BY <2>3, <2>4
<1>11. ASSUME NEW b \in Clients
       PROVE  /\ uploads'[b] \subseteq DOMAIN granted'[b]
              /\ \A n \in DOMAIN granted'[b] :
                   /\ granted'[b][n] <= now'
                   /\ now' - granted'[b][n] < UploadWindow => n \in uploads'[b]
              /\ \A t \in Nat :
                   Cardinality({n \in DOMAIN granted'[b] :
                                  granted'[b][n] \in t..t + UploadWindow - 1}) <= UploadLimit
  <2>1. CASE b = c
    BY <1>9, <1>10, <2>1 DEF InTime
  <2>2. CASE b # c
    BY <1>5, <2>2 DEF WindowInv
  <2> QED
    BY <2>1, <2>2
<1>12. WindowInv'
  BY <1>11 DEF WindowInv
<1> QED
  BY <1>7, <1>12

\* One upload more is charged.
LEMMA ChargedGrows ==
  ASSUME PaidTypes, IsFiniteSet(Charged), NEW c \in Clients,
         granted' = [granted EXCEPT ![c] = Append(granted[c], now)]
  PROVE  IsFiniteSet(Charged') /\ Cardinality(Charged') = Cardinality(Charged) + 1
<1>1. PICK len \in Nat : len = Len(granted[c]) /\ DOMAIN granted[c] = 1..len
  BY WindowTypes
<1>2. DOMAIN granted'[c] = 1..(len + 1)
  <2>1. granted[c] \in Seq(Nat) /\ now \in Nat /\ granted'[c] = Append(granted[c], now)
    BY DEF PaidTypes
  <2> QED
    BY <1>1, <2>1
<1>3. \A b \in Clients : b # c => granted'[b] = granted[b]
  BY DEF PaidTypes
<1>4. \A z : z \in Charged <=> \E b \in Clients : \E n \in DOMAIN granted[b] : z = <<b, n>>
  BY DEF Charged
<1>5. \A z : z \in Charged' <=> \E b \in Clients : \E n \in DOMAIN granted'[b] : z = <<b, n>>
  BY DEF Charged
<1>6. \A n : n \in 1..(len + 1) <=> n \in 1..len \/ n = len + 1
  OBVIOUS
<1>7. Charged' = Charged \cup {<<c, len + 1>>}
  BY <1>1, <1>2, <1>3, <1>4, <1>5, <1>6
<1>8. <<c, len + 1>> \notin Charged
  BY <1>1, <1>4
<1> QED
  BY <1>7, <1>8, FS_AddElement, OneMore DEF One

\* What was charged stays so, and no more is owed than before.
LEMMA ChargedStays ==
  ASSUME PaidTypes, ChargedInv, granted' = granted,
         issued'["vision"] \in Nat, Number(Reading)' \in Nat,
         issued'["vision"] + Number(Reading)' <= issued["vision"] + Number(Reading)
  PROVE  ChargedInv'
<1>1. Charged' = Charged
  BY DEF Charged
<1>2. PICK all \in Nat : all = Cardinality(Charged)
  BY FS_CardinalityType DEF ChargedInv
<1>3. issued["vision"] \in Nat /\ Number(Reading) \in Nat
  BY CountersAreNat, NumberIsNat, Constants
<1>4. issued["vision"] + Number(Reading) <= all
  BY <1>2 DEF ChargedInv
<1>5. issued'["vision"] + Number(Reading)' <= all
  BY <1>2, <1>3, <1>4
<1> QED
  BY <1>1, <1>2, <1>5 DEF ChargedInv

-----------------------------------------------------------------------------
(* The steps.                                                              *)

\* How many speak for a key when a slot moves.
LEMMA SpeakersMove ==
  ASSUME PaidTypes, NEW s \in Slots, NEW new \in Jobs,
         requests' = [requests EXCEPT ![s] = new], NEW k
  PROVE  /\ Number(SpeakingFor(k))' \in Nat /\ Number(SpeakingFor(k))' <= Cardinality(Slots)
         /\ new \notin SpeakingFor(k) => Number(SpeakingFor(k))' <= Number(SpeakingFor(k))
         /\ new \notin SpeakingFor(k) /\ requests[s] \in SpeakingFor(k) =>
              Number(SpeakingFor(k))' + 1 = Number(SpeakingFor(k))
<1>1. PICK n \in Nat : n = Number(SpeakingFor(k))
  BY NumberIsNat
<1>2. PICK m \in Nat :
        /\ m = Number(SpeakingFor(k))'
        /\ m + One(requests[s] \in SpeakingFor(k)) = n + One(new \in SpeakingFor(k))
  BY <1>1, SlotMoves DEF PaidTypes
<1>3. m <= Cardinality(Slots)
  <2>1. Doing(SpeakingFor(k))' \subseteq Slots
    BY DEF Doing
  <2> QED
    BY <1>2, <2>1, PaidAssumption, PartIsFinite DEF Number
<1> QED
  BY <1>1, <1>2, <1>3 DEF One

\* A step in which nothing is sent, recorded or charged: time passes, a request
\* is refused, an entry of the cache or an upload out of date is forgotten.
LEMMA QuietStep ==
  ASSUME PaidInv, UNCHANGED <<requests, issued, granted, costVars>>, now' \in {now, now + 1},
         audio' = audio \/ (now' = now /\ \E key : GetCachedAudio(key)),
         \/ uploads' = uploads
         \/ now' = now /\ \E c \in Clients : uploads' = [uploads EXCEPT ![c] = InWindow(c)]
  PROVE  PaidInv'
<1>1. /\ PaidTypes /\ FlightInv /\ CountInv /\ OrderInv /\ AudioInv /\ OnceInv /\ WindowInv
      /\ ChargedInv
  BY DEF PaidInv
<1>2. /\ requests' = requests /\ issued' = issued /\ granted' = granted
      /\ records' = records /\ counters' = counters
  BY DEF costVars
<1>3. \A X : Number(X)' = Number(X)
  BY <1>2 DEF Number, Doing
<1>4. \A X : Number(X) \in Nat
  BY NumberIsNat
<1>5. FlightInv'
  BY <1>1, <1>2, <1>3 DEF FlightInv
<1>6. CountInv' /\ OrderInv'
  BY <1>1, CountsStay
<1>7. AudioInv' /\ OnceInv'
  <2>1. \A k \in Keys : Number(SpeakingFor(k))' \in Nat
                        /\ Number(SpeakingFor(k))' <= Number(SpeakingFor(k))
    BY <1>3, <1>4
  <2> QED
    BY <1>1, <1>2, <2>1, AudioStays
<1>8. WindowInv' /\ uploads' \in [Clients -> SUBSET Nat]
  BY <1>1, <1>2, WindowStays
<1>9. ChargedInv'
  <2>1. issued["vision"] \in Nat
    BY <1>1, CountersAreNat, Constants
  <2>2. issued'["vision"] + Number(Reading)' <= issued["vision"] + Number(Reading)
    BY <1>2, <1>3, <1>4, <2>1
  <2> QED
    BY <1>1, <1>2, <1>3, <1>4, <2>1, <2>2, ChargedStays
<1>10. DOMAIN audio' \subseteq Keys /\ \A k \in DOMAIN audio' : audio'[k] \in Nat
  BY <1>1, <1>2, AudioForgets DEF PaidTypes
<1>11. now' \in Nat
  BY <1>1 DEF PaidTypes
<1>12. PaidTypes'
  BY <1>1, <1>2, <1>8, <1>10, <1>11 DEF PaidTypes
<1> QED
  BY <1>5, <1>6, <1>7, <1>8, <1>9, <1>12 DEF PaidInv

\* A call is sent.
LEMMA SendKeepsFlight ==
  ASSUME PaidTypes, FlightInv, UNCHANGED costVars, NEW s \in Slots, NEW e0 \in Endpoints,
         NEW new \in Jobs, Send(s, e0, new), new \in Waiting(e0),
         \A e \in Endpoints : e # e0 => new \notin Waiting(e),
         \A e \in Endpoints : requests[s] \notin Waiting(e)
  PROVE  /\ FlightInv' /\ issued' \in [Endpoints -> Nat] /\ requests' \in [Slots -> Jobs]
         /\ issued'[e0] = issued[e0] + 1
         /\ \A e \in Endpoints : e # e0 => issued'[e] = issued[e]
<1>1. /\ issued \in [Endpoints -> Nat] /\ requests \in [Slots -> Jobs]
      /\ records' = records /\ counters' = counters
  BY DEF PaidTypes, costVars
<1>2. /\ issued' = [issued EXCEPT ![e0] = issued[e0] + 1]
      /\ requests' = [requests EXCEPT ![s] = new]
  BY DEF Send
<1>3. /\ issued' \in [Endpoints -> Nat] /\ requests' \in [Slots -> Jobs]
      /\ issued'[e0] = issued[e0] + 1
      /\ \A e \in Endpoints : e # e0 => issued'[e] = issued[e]
  BY <1>1, <1>2
<1>4. ASSUME NEW e \in Endpoints
      PROVE  /\ issued'[e] \in Nat /\ counters'[e].cached \in Nat /\ counters'[e].total \in Nat
             /\ issued'[e] + counters'[e].cached + counters[e].total + One(requests[s] \in Waiting(e))
                  = issued[e] + counters[e].cached + counters'[e].total + One(new \in Waiting(e))
  <2>1. /\ counters[e].cached \in Nat /\ counters[e].total \in Nat /\ issued[e] \in Nat
        /\ counters'[e] = counters[e]
    BY <1>1, CountersAreNat DEF Fields
  <2>2. One(requests[s] \in Waiting(e)) = 0
    BY DEF One
  <2>3. CASE e = e0
    <3>1. One(new \in Waiting(e)) = 1
      BY <2>3 DEF One
    <3> QED
      BY <1>3, <2>1, <2>2, <2>3, <3>1
  <2>4. CASE e # e0
    <3>1. One(new \in Waiting(e)) = 0
      BY <2>4 DEF One
    <3> QED
      BY <1>3, <2>1, <2>2, <2>4, <3>1
  <2> QED
    BY <2>3, <2>4
<1>5. FlightInv'
  BY <1>2, <1>4, FlightMoves
<1> QED
  BY <1>3, <1>5

\* The call a slot waited for is recorded.
LEMMA AnswerKeepsFlight ==
  ASSUME PaidTypes, FlightInv, issued' = issued, NEW s \in Slots, Finish(s),
         NEW call \in Calls, RecordApiCall(call), ~call.cached,
         requests[s] \in Waiting(call.endpoint),
         \A e \in Endpoints : e # call.endpoint => requests[s] \notin Waiting(e)
  PROVE  FlightInv'
<1>1. requests' = [requests EXCEPT ![s] = Idle]
  BY DEF Finish
<1>2. ASSUME NEW e \in Endpoints
      PROVE  /\ issued'[e] \in Nat /\ counters'[e].cached \in Nat /\ counters'[e].total \in Nat
             /\ issued'[e] + counters'[e].cached + counters[e].total + One(requests[s] \in Waiting(e))
                  = issued[e] + counters[e].cached + counters'[e].total + One(Idle \in Waiting(e))
  <2>1. /\ counters[e].cached \in Nat /\ counters[e].total \in Nat /\ issued[e] \in Nat
        /\ issued'[e] = issued[e]
    BY CountersAreNat DEF Fields
  <2>2. PICK one \in {0, 1} : one = One(requests[s] \in Waiting(e))
    BY DEF One
  <2>3. counters'[e].cached = counters[e].cached
    <3>1. call \notin CallsOf(e, "cached")
      BY DEF CallsOf
    <3>2. counters'[e]["cached"] = counters[e]["cached"] + 0
      BY <3>1, CountersAfterCall DEF Fields, One
    <3> QED
      BY <2>1, <3>2
  <2>4. counters'[e].total = counters[e].total + one
    <3>1. call \in CallsOf(e, "total") <=> requests[s] \in Waiting(e)
      BY DEF CallsOf
    <3>2. counters'[e]["total"] = counters[e]["total"] + one
      BY <2>2, <3>1, CountersAfterCall DEF Fields, One
    <3> QED
      BY <3>2
  <2>5. One(Idle \in Waiting(e)) = 0
    BY IdleJob DEF One
  <2> QED
    BY <2>1, <2>2, <2>3, <2>4, <2>5
<1>3. Idle \in Jobs
  BY IdleJob
<1> QED
  BY <1>1, <1>2, <1>3, FlightMoves

\* A call is sent by a slot that waited for none: the parts that are about calls
\* and uploads.  What is charged covers it when it is speech, or was waited for.
LEMMA SendStep ==
  ASSUME PaidInv, UNCHANGED <<now, uploads, granted, costVars>>, NEW s \in Slots,
         NEW e0 \in Endpoints, NEW new \in Jobs, Send(s, e0, new), new \in Waiting(e0),
         \A e \in Endpoints : e # e0 => new \notin Waiting(e), new \notin Reading,
         \A e \in Endpoints : requests[s] \notin Waiting(e),
         e0 = "vision" => requests[s] \in Reading,
         DOMAIN audio' \subseteq Keys, \A k \in DOMAIN audio' : audio'[k] \in Nat,
         AudioInv', OnceInv'
  PROVE  PaidInv'
<1>1. /\ PaidTypes /\ FlightInv /\ CountInv /\ OrderInv /\ WindowInv /\ ChargedInv
  BY DEF PaidInv
<1>2. /\ now' = now /\ uploads' = uploads /\ granted' = granted
      /\ records' = records /\ counters' = counters
  BY DEF costVars
<1>3. /\ FlightInv' /\ issued' \in [Endpoints -> Nat] /\ requests' \in [Slots -> Jobs]
      /\ issued'[e0] = issued[e0] + 1
      /\ \A e \in Endpoints : e # e0 => issued'[e] = issued[e]
  BY <1>1, SendKeepsFlight
<1>4. CountInv' /\ OrderInv'
  BY <1>1, CountsStay
<1>5. WindowInv'
  BY <1>1, <1>2, WindowStays
<1>6. ChargedInv'
  <2>1. PICK one \in {0, 1} : one = One(requests[s] \in Reading)
    BY DEF One
  <2>2. PICK n \in Nat : n = Number(Reading)
    BY NumberIsNat
  <2>3. PICK m \in Nat : m = Number(Reading)' /\ m + one = n
    <3>1. One(new \in Reading) = 0
      BY DEF One
    <3>2. requests' = [requests EXCEPT ![s] = new]
      BY DEF Send
    <3>3. /\ Number(Reading) \in Nat /\ Number(Reading)' \in Nat
          /\ Number(Reading)' + One(requests[s] \in Reading) = Number(Reading) + One(new \in Reading)
      <4>1. requests \in [Slots -> Jobs]
        BY <1>1 DEF PaidTypes
      <4> QED
        BY ONLY <3>2, <4>1, s \in Slots, new \in Jobs, SlotMoves
    <3> QED
      BY <2>1, <2>2, <3>1, <3>3
  <2>4. issued["vision"] \in Nat /\ issued'["vision"] \in Nat
    BY <1>1, <1>3, Constants DEF PaidTypes
  <2>5. issued'["vision"] <= issued["vision"] + one
    <3>1. CASE e0 = "vision"
      BY <1>3, <2>1, <2>4, <3>1 DEF One
    <3>2. CASE e0 # "vision"
      BY <1>3, <2>1, <2>4, <3>2, Constants
    <3> QED
      BY <3>1, <3>2
  <2>6. issued'["vision"] + m <= issued["vision"] + n
    BY <2>1, <2>2, <2>3, <2>4, <2>5
  <2> QED
    BY <1>1, <1>2, <2>2, <2>3, <2>4, <2>6, ChargedStays
<1>7. PaidTypes'
  BY <1>1, <1>2, <1>3 DEF PaidTypes
<1> QED
  BY <1>3, <1>4, <1>5, <1>6, <1>7 DEF PaidInv

\* An idle slot waits for nothing.
LEMMA ReadySlot ==
  ASSUME NEW s \in Slots, Ready(s)
  PROVE  /\ requests[s] = Idle /\ requests[s] \notin Reading
         /\ \A e \in Endpoints : requests[s] \notin Waiting(e)
BY IdleJob DEF Ready

\* The speech of a narration, or of any text.
LEMMA SpeechStep ==
  ASSUME PaidInv, NEW s \in Slots, Ready(s), NEW key, NEW route,
         (route = "narration" /\ key \in Keys) \/ (route = "tts" /\ key = NoNarration),
         GenerateSpeech(s, key, route), UNCHANGED <<now, uploads, granted, costVars>>,
         IF route = "narration" THEN GetCachedAudio(key) /\ ~Cached(key) ELSE audio' = audio
  PROVE  PaidInv'
<1>1. PaidTypes /\ AudioInv /\ OnceInv
  BY DEF PaidInv
<1>2. CASE UNCHANGED <<issued, requests>>
  BY <1>2, QuietStep
<1>3. CASE Send(s, "tts", [pc |-> "speaking", route |-> route, key |-> key])
  <2>1. PICK new : new = [pc |-> "speaking", route |-> route, key |-> key]
    OBVIOUS
  <2>2. /\ new \in Jobs /\ new \notin Reading
        /\ new \in Waiting("tts") /\ new \notin Waiting("vision")
        /\ \A k : new \in SpeakingFor(k) <=> k = key
    BY <2>1, SpeakingJob
  <2>3. /\ requests[s] = Idle /\ requests[s] \notin Reading
        /\ \A e \in Endpoints : requests[s] \notin Waiting(e)
    BY ReadySlot
  <2>4. requests' = [requests EXCEPT ![s] = new]
    BY <1>3, <2>1 DEF Send
  <2>5. \A k : /\ Number(SpeakingFor(k))' \in Nat /\ Number(SpeakingFor(k))' <= Cardinality(Slots)
               /\ k # key => Number(SpeakingFor(k))' <= Number(SpeakingFor(k))
    BY <1>1, <2>2, <2>4, SpeakersMove
  <2>6. records' = records /\ now' = now
    BY DEF costVars
  <2>7. AudioInv' /\ OnceInv'
    <3>1. CASE route = "narration"
      BY <1>1, <2>5, <2>6, <3>1, AskKeepsAudio
    <3>2. CASE route = "tts"
      <4>1. key \notin Keys /\ audio' = audio
        BY <3>2, NoNarrationHasNoKey
      <4> QED
        BY <1>1, <2>5, <2>6, <4>1, AudioStays
    <3> QED
      BY <3>1, <3>2
  <2>8. DOMAIN audio' \subseteq Keys /\ \A k \in DOMAIN audio' : audio'[k] \in Nat
    BY <1>1, <2>6, AudioForgets DEF PaidTypes
  <2>9. "tts" \in Endpoints /\ \A e \in Endpoints : e # "tts" => new \notin Waiting(e)
    BY <2>2, Constants
  <2>10. Send(s, "tts", new)
    BY <1>3, <2>1
  <2> QED
    BY <2>2, <2>3, <2>7, <2>8, <2>9, <2>10, SendStep
<1> QED
  BY <1>2, <1>3 DEF GenerateSpeech

\* POST /voice/tts.
LEMMA TextStep ==
  ASSUME PaidInv, NEW s \in Slots, NEW plan, TextToSpeech(s, plan)
  PROVE  PaidInv'
<1>1. Ready(s) /\ UNCHANGED <<now, audio, uploads, granted, costVars>>
  BY DEF TextToSpeech
<1>2. CASE UNCHANGED <<issued, requests>>
  BY <1>1, <1>2, QuietStep
<1>3. CASE GenerateSpeech(s, NoNarration, "tts")
  BY <1>1, <1>3, SpeechStep
<1> QED
  BY <1>2, <1>3 DEF TextToSpeech

\* A call answered by the cache: it is counted as cached, and nobody waits for it.
LEMMA CachedStep ==
  ASSUME PaidInv, UNCHANGED <<now, requests, issued, audio, uploads, granted>>,
         NEW call \in Calls, call.cached, call.endpoint = "tts", call.at = now,
         RecordApiCall(call)
  PROVE  PaidInv'
<1>1. /\ PaidTypes /\ FlightInv /\ CountInv /\ OrderInv /\ AudioInv /\ OnceInv /\ WindowInv
      /\ ChargedInv
  BY DEF PaidInv
<1>2. \A X : Number(X)' = Number(X) /\ Number(X) \in Nat
  BY NumberIsNat DEF Number, Doing
<1>3. CountInv' /\ OrderInv' /\ records' \in Seq(Calls)
  BY <1>1, CallKeepsCounts
<1>4. counters' \in [Endpoints -> [total : Nat, success : Nat, failed : Nat, cached : Nat]]
  BY <1>1, CountersAfterCall
<1>5. FlightInv'
  <2> SUFFICES ASSUME NEW e \in Endpoints
               PROVE  issued'[e] + counters'[e].cached = counters'[e].total + Number(Waiting(e))'
    BY DEF FlightInv
  <2>1. /\ counters[e].cached \in Nat /\ counters[e].total \in Nat /\ issued[e] \in Nat
    BY <1>1, CountersAreNat DEF Fields
  <2>2. PICK one \in {0, 1} : one = One(e = "tts")
    BY DEF One
  <2>3. counters'[e].cached = counters[e].cached + one
    <3>1. call \in CallsOf(e, "cached") <=> e = "tts"
      BY DEF CallsOf
    <3>2. counters'[e]["cached"] = counters[e]["cached"] + one
      BY <1>1, <2>2, <3>1, CountersAfterCall DEF Fields, One
    <3> QED
      BY <3>2
  <2>4. counters'[e].total = counters[e].total + one
    <3>1. call \in CallsOf(e, "total") <=> e = "tts"
      BY DEF CallsOf
    <3>2. counters'[e]["total"] = counters[e]["total"] + one
      BY <1>1, <2>2, <3>1, CountersAfterCall DEF Fields, One
    <3> QED
      BY <3>2
  <2>5. PICK n \in Nat : n = Number(Waiting(e)) /\ n = Number(Waiting(e))'
    BY <1>2
  <2>6. issued[e] + counters[e].cached = counters[e].total + n
    BY <1>1, <2>5 DEF FlightInv
  <2> QED
    BY <2>1, <2>2, <2>3, <2>4, <2>5, <2>6
<1>6. AudioInv' /\ OnceInv'
  <2>1. \A k \in Keys : Number(SpeakingFor(k))' \in Nat
                        /\ Number(SpeakingFor(k))' <= Number(SpeakingFor(k))
    BY <1>2
  <2> QED
    BY <1>1, <2>1, OtherCallKeepsAudio
<1>7. WindowInv'
  BY <1>1, WindowStays
<1>8. ChargedInv'
  <2>1. issued["vision"] \in Nat
    BY <1>1, CountersAreNat, Constants
  <2>2. issued'["vision"] + Number(Reading)' <= issued["vision"] + Number(Reading)
    BY <1>2, <2>1
  <2> QED
    BY <1>1, <1>2, <2>1, <2>2, ChargedStays
<1>9. PaidTypes'
  BY <1>1, <1>3, <1>4 DEF PaidTypes
<1> QED
  BY <1>3, <1>5, <1>6, <1>7, <1>8, <1>9 DEF PaidInv

\* GET /voice/demo-narration: refused, answered by the cache, or spoken.
LEMMA NarrationStep ==
  ASSUME PaidInv, NEW s \in Slots, NEW case, NEW plan, GetDemoNarration(s, case, plan)
  PROVE  PaidInv'
<1>1. Ready(s) /\ UNCHANGED <<now, uploads, granted>> /\ PaidTypes
  BY DEF GetDemoNarration, PaidInv
<1>2. CASE UNCHANGED <<requests, audio, issued, costVars>>
  BY <1>1, <1>2, QuietStep
<1>3. CASE /\ case \in DOMAIN Narrations
           /\ GetCachedAudio(KeyOf(case))
           /\ IF Cached(KeyOf(case))
              THEN /\ RecordApiCall(Call("tts", TRUE, TRUE, KeyOf(case)))
                   /\ UNCHANGED <<requests, issued>>
              ELSE GenerateSpeech(s, KeyOf(case), "narration") /\ UNCHANGED costVars
  <2>1. PICK key \in Keys : key = KeyOf(case)
    BY <1>3 DEF Keys
  <2>2. CASE Cached(key)
    <3>1. audio' = audio
      BY <1>3, <2>1, <2>2 DEF GetCachedAudio, Cached
    <3>2. PICK call \in Calls :
            /\ call.cached /\ call.endpoint = "tts" /\ call.at = now /\ RecordApiCall(call)
      <4>1. RecordApiCall(Call("tts", TRUE, TRUE, key))
        BY <1>3, <2>1, <2>2
      <4>2. Call("tts", TRUE, TRUE, key) \in Calls
        BY <1>1, Constants DEF Call, Calls, PaidTypes
      <4> QED
        BY <4>1, <4>2 DEF Call
    <3>3. UNCHANGED <<requests, issued>>
      BY <1>3, <2>1, <2>2
    <3> QED
      BY <1>1, <3>1, <3>2, <3>3, CachedStep
  <2>3. CASE ~Cached(key)
    BY <1>1, <1>3, <2>1, <2>3, SpeechStep
  <2> QED
    BY <2>2, <2>3
<1> QED
  BY <1>2, <1>3 DEF GetDemoNarration

\* A slot that waited for a call is answered: all but the audio cache.
LEMMA AnswerStep ==
  ASSUME PaidInv, UNCHANGED <<now, uploads, issued, granted>>, NEW s \in Slots, Finish(s),
         requests[s] \notin Reading, NEW call \in Calls, RecordApiCall(call), ~call.cached,
         call.at = now, requests[s] \in Waiting(call.endpoint),
         \A e \in Endpoints : e # call.endpoint => requests[s] \notin Waiting(e),
         DOMAIN audio' \subseteq Keys, \A k \in DOMAIN audio' : audio'[k] \in Nat,
         AudioInv', OnceInv'
  PROVE  PaidInv'
<1>1. /\ PaidTypes /\ FlightInv /\ CountInv /\ OrderInv /\ WindowInv /\ ChargedInv
  BY DEF PaidInv
<1>2. FlightInv'
  BY <1>1, AnswerKeepsFlight
<1>3. CountInv' /\ OrderInv' /\ records' \in Seq(Calls)
  BY <1>1, CallKeepsCounts
<1>4. counters' \in [Endpoints -> [total : Nat, success : Nat, failed : Nat, cached : Nat]]
  BY <1>1, CountersAfterCall
<1>5. WindowInv'
  BY <1>1, WindowStays
<1>6. /\ requests' = [requests EXCEPT ![s] = Idle] /\ requests \in [Slots -> Jobs]
      /\ Idle \in Jobs /\ Idle \notin Reading
  BY <1>1, IdleJob DEF Finish, PaidTypes
<1>7. ChargedInv'
  <2>1. /\ Number(Reading) \in Nat /\ Number(Reading)' \in Nat
        /\ Number(Reading)' + One(requests[s] \in Reading) = Number(Reading) + One(Idle \in Reading)
    BY ONLY <1>6, s \in Slots, SlotMoves
  <2>2. One(requests[s] \in Reading) = 0 /\ One(Idle \in Reading) = 0
    BY <1>6 DEF One
  <2>3. issued["vision"] \in Nat /\ issued'["vision"] = issued["vision"]
    BY <1>1, CountersAreNat, Constants
  <2>4. issued'["vision"] + Number(Reading)' <= issued["vision"] + Number(Reading)
    BY <2>1, <2>2, <2>3
  <2> QED
    BY <1>1, <2>1, <2>3, <2>4, ChargedStays
<1>8. requests' \in [Slots -> Jobs]
  BY <1>6
<1>9. PaidTypes'
  BY <1>1, <1>3, <1>4, <1>8 DEF PaidTypes
<1> QED
  BY <1>2, <1>3, <1>5, <1>7, <1>9 DEF PaidInv

\* The answer to a call of the speech API, an error too.
LEMMA SpokenStep ==
  ASSUME PaidInv, NEW s \in Slots, NEW outcome, Spoken(s, outcome)
  PROVE  PaidInv'
<1>1. /\ PaidTypes /\ CountInv /\ AudioInv /\ OnceInv
  BY DEF PaidInv
<1>2. /\ UNCHANGED <<now, uploads, issued, granted>> /\ Finish(s)
      /\ requests' = [requests EXCEPT ![s] = Idle]
  BY DEF Spoken, Finish
<1>3. PICK r \in Jobs : r = requests[s] /\ r.pc = "speaking"
  BY <1>1 DEF PaidTypes, Spoken
<1>4. /\ (r.route = "narration" /\ r.key \in Keys) \/ (r.route = "tts" /\ r.key = NoNarration)
      /\ r \in Waiting("tts") /\ r \notin Waiting("vision") /\ r \notin Reading
      /\ \A k : r \in SpeakingFor(k) <=> k = r.key
  BY <1>3, JobShapes
<1>5. PICK call : call = Call("tts", outcome = "ok", FALSE, r.key)
  OBVIOUS
<1>6. /\ call \in Calls /\ ~call.cached /\ call.at = now /\ call.what = r.key
      /\ call.endpoint = "tts" /\ (call.success <=> outcome = "ok")
  <2>1. r.key \in Keys \cup {NoNarration} /\ now \in Nat /\ "tts" \in Endpoints
    BY <1>1, <1>4, Constants DEF PaidTypes
  <2> QED
    BY <1>5, <2>1 DEF Call, Calls
<1>7. RecordApiCall(call)
  BY <1>3, <1>5 DEF Spoken
<1>8. IF outcome = "ok" /\ r.route = "narration" THEN SetCachedAudio(r.key) ELSE audio' = audio
  BY <1>3 DEF Spoken
<1>9. \A k : /\ Number(SpeakingFor(k))' \in Nat
             /\ Number(SpeakingFor(k))' <= Number(SpeakingFor(k))
             /\ k = r.key => Number(SpeakingFor(k))' + 1 = Number(SpeakingFor(k))
  <2>1. Idle \in Jobs /\ \A k : Idle \notin SpeakingFor(k)
    BY IdleJob
  <2> QED
    BY <1>1, <1>2, <1>3, <1>4, <2>1, SpeakersMove
<1>10. AudioInv' /\ OnceInv' /\ DOMAIN audio' \subseteq Keys
       /\ \A k \in DOMAIN audio' : audio'[k] \in Nat
  <2>1. CASE outcome = "ok" /\ r.route = "narration"
    <3>1. SetCachedAudio(r.key) /\ r.key \in Keys
      BY <1>4, <1>8, <2>1
    <3>2. AudioInv' /\ OnceInv'
      BY <1>1, <1>2, <1>6, <1>7, <1>9, <3>1, SpokenKeepsAudio
    <3> QED
      BY <1>1, <3>1, <3>2 DEF SetCachedAudio, PaidTypes
  <2>2. CASE ~(outcome = "ok" /\ r.route = "narration")
    <3>1. audio' = audio
      BY <1>8, <2>2
    <3>2. call.what \notin Keys \/ ~call.success \/ call.cached
      BY <1>4, <1>6, <2>2, NoNarrationHasNoKey
    <3>3. AudioInv' /\ OnceInv'
      BY <1>1, <1>2, <1>6, <1>7, <1>9, <3>1, <3>2, OtherCallKeepsAudio
    <3> QED
      BY <1>1, <3>1, <3>3 DEF PaidTypes
  <2> QED
    BY <2>1, <2>2
<1>11. \A e \in Endpoints : e # call.endpoint => requests[s] \notin Waiting(e)
  BY <1>3, <1>4, <1>6, Constants
<1> QED
  BY <1>2, <1>3, <1>4, <1>6, <1>7, <1>10, <1>11, AnswerStep

\* The answer to a call of the vision API, an error too.
LEMMA SeenStep ==
  ASSUME PaidInv, NEW s \in Slots, NEW outcome, Seen(s, outcome)
  PROVE  PaidInv'
<1>1. /\ PaidTypes /\ CountInv /\ AudioInv /\ OnceInv
  BY DEF PaidInv
<1>2. /\ UNCHANGED <<now, audio, uploads, issued, granted>> /\ Finish(s)
      /\ requests' = [requests EXCEPT ![s] = Idle]
  BY DEF Seen, Finish
<1>3. PICK r \in Jobs : r = requests[s] /\ r.pc = "seeing"
  BY <1>1 DEF PaidTypes, Seen
<1>4. r \in Waiting("vision") /\ r \notin Waiting("tts") /\ r \notin Reading
  BY <1>3, JobShapes
<1>5. PICK call :
        call = Call("vision", outcome \notin {"http_error", "exception"}, FALSE, NoNarration)
  OBVIOUS
<1>6. /\ call \in Calls /\ ~call.cached /\ call.at = now /\ call.what = NoNarration
      /\ call.endpoint = "vision"
  <2>1. now \in Nat /\ "vision" \in Endpoints
    BY <1>1, Constants DEF PaidTypes
  <2> QED
    BY <1>5, <2>1 DEF Call, Calls
<1>7. RecordApiCall(call)
  BY <1>3, <1>5 DEF Seen
<1>8. \A k : /\ Number(SpeakingFor(k))' \in Nat
             /\ Number(SpeakingFor(k))' <= Number(SpeakingFor(k))
  <2>1. Idle \in Jobs /\ \A k : Idle \notin SpeakingFor(k)
    BY IdleJob
  <2> QED
    BY <1>1, <1>2, <2>1, SpeakersMove
<1>9. call.what \notin Keys
  BY <1>6, NoNarrationHasNoKey
<1>10. AudioInv' /\ OnceInv'
  BY <1>1, <1>2, <1>6, <1>7, <1>8, <1>9, OtherCallKeepsAudio
<1>11. \A e \in Endpoints : e # call.endpoint => requests[s] \notin Waiting(e)
  BY <1>3, <1>4, <1>6, Constants
<1>12. DOMAIN audio' \subseteq Keys /\ \A k \in DOMAIN audio' : audio'[k] \in Nat
  BY <1>1, <1>2 DEF PaidTypes
<1> QED
  BY <1>2, <1>3, <1>4, <1>6, <1>7, <1>10, <1>11, <1>12, AnswerStep

\* A request that sent no call is moved to one that sends none either.
LEMMA MoveStep ==
  ASSUME PaidTypes, FlightInv, CountInv, OrderInv, AudioInv, OnceInv,
         UNCHANGED <<now, audio, issued, costVars>>, NEW s \in Slots, NEW new \in Jobs,
         requests' = [requests EXCEPT ![s] = new],
         \A e \in Endpoints : requests[s] \notin Waiting(e) /\ new \notin Waiting(e),
         \A k : new \notin SpeakingFor(k)
  PROVE  /\ FlightInv' /\ CountInv' /\ OrderInv' /\ AudioInv' /\ OnceInv'
         /\ requests' \in [Slots -> Jobs]
<1>1. records' = records /\ counters' = counters
  BY DEF costVars
<1>2. FlightInv'
  <2>1. ASSUME NEW e \in Endpoints
        PROVE  /\ issued'[e] \in Nat /\ counters'[e].cached \in Nat /\ counters'[e].total \in Nat
               /\ issued'[e] + counters'[e].cached + counters[e].total
                    + One(requests[s] \in Waiting(e))
                    = issued[e] + counters[e].cached + counters'[e].total + One(new \in Waiting(e))
    <3>1. counters[e].cached \in Nat /\ counters[e].total \in Nat /\ issued[e] \in Nat
      BY CountersAreNat DEF Fields
    <3>2. One(requests[s] \in Waiting(e)) = 0 /\ One(new \in Waiting(e)) = 0
      BY DEF One
    <3> QED
      BY <1>1, <3>1, <3>2
  <2> QED
    BY <2>1, FlightMoves
<1>3. CountInv' /\ OrderInv'
  BY CountsStay
<1>4. \A k \in Keys : Number(SpeakingFor(k))' \in Nat
                      /\ Number(SpeakingFor(k))' <= Number(SpeakingFor(k))
  BY SpeakersMove
<1>5. AudioInv' /\ OnceInv'
  BY <1>1, <1>4, AudioStays
<1>6. requests' \in [Slots -> Jobs]
  BY DEF PaidTypes
<1> QED
  BY <1>2, <1>3, <1>5, <1>6

\* The upload of an image: refused, or charged and then refused or read.
LEMMA UploadStep ==
  ASSUME PaidInv, NEW s \in Slots, NEW c \in Clients, NEW upload \in Uploads,
         NEW plan \in {"good", "best"}, EvaluateFromImage(s, c, upload, plan)
  PROVE  PaidInv'
<1>1. /\ PaidTypes /\ FlightInv /\ CountInv /\ OrderInv /\ AudioInv /\ OnceInv /\ WindowInv
      /\ ChargedInv
  BY DEF PaidInv
<1>2. Ready(s) /\ UNCHANGED <<now, audio, issued, costVars>>
  BY DEF EvaluateFromImage
<1>3. CASE UNCHANGED <<requests, uploads, granted>>
  BY <1>2, <1>3, QuietStep
<1>4. CASE UNCHANGED <<requests, granted>> /\ uploads' = [uploads EXCEPT ![c] = InWindow(c)]
  BY <1>2, <1>4, QuietStep
<1>5. CASE /\ ~(Cardinality(InWindow(c)) >= UploadLimit)
           /\ uploads' = [uploads EXCEPT ![c] = InWindow(c) \cup {Len(granted[c]) + 1}]
           /\ granted' = [granted EXCEPT ![c] = Append(granted[c], now)]
           /\ \/ requests' = requests
              \/ requests' = [requests EXCEPT ![s] =
                   [pc |-> "reading", large |-> upload.large, plan |-> plan]]
  <2>1. Cardinality(InWindow(c)) < UploadLimit
    <3>1. DOMAIN granted[c] = 1..Len(granted[c]) /\ Len(granted[c]) \in Nat
      BY <1>1, WindowTypes
    <3>2. InWindow(c) \subseteq 1..Len(granted[c])
      BY <1>1, <3>1 DEF InWindow, WindowInv
    <3>3. Cardinality(InWindow(c)) \in Nat
      <4>1. IsFiniteSet(1..Len(granted[c]))
        BY <3>1, FS_Interval
      <4> QED
        BY <3>2, <4>1, PartIsFinite
    <3> QED
      BY <1>5, <3>3, Constants
  <2>2. /\ WindowInv' /\ uploads' \in [Clients -> SUBSET Nat] /\ granted' \in [Clients -> Seq(Nat)]
    BY <1>1, <1>2, <1>5, <2>1, WindowCharges
  <2>3. IsFiniteSet(Charged') /\ Cardinality(Charged') = Cardinality(Charged) + 1
    BY <1>1, <1>5, ChargedGrows DEF ChargedInv
  <2>4. PICK new \in Jobs :
          /\ requests' = [requests EXCEPT ![s] = new]
          /\ \A e \in Endpoints : new \notin Waiting(e)
          /\ \A k : new \notin SpeakingFor(k)
    <3>1. CASE requests' = requests
      <4>1. requests' = [requests EXCEPT ![s] = Idle]
        BY <1>1, <1>2, <3>1, ReadySlot DEF PaidTypes
      <4> QED
        BY <4>1, IdleJob
    <3>2. CASE requests' = [requests EXCEPT ![s] =
                 [pc |-> "reading", large |-> upload.large, plan |-> plan]]
      BY <3>2, ReadingJob, Constants
    <3> QED
      BY <1>5, <3>1, <3>2
  <2>5. \A e \in Endpoints : requests[s] \notin Waiting(e)
    BY <1>2, ReadySlot
  <2>6. /\ FlightInv' /\ CountInv' /\ OrderInv' /\ AudioInv' /\ OnceInv'
        /\ requests' \in [Slots -> Jobs]
    BY <1>1, <1>2, <2>4, <2>5, MoveStep
  <2>7. ChargedInv'
    <3>1. requests \in [Slots -> Jobs]
      BY <1>1 DEF PaidTypes
    <3>2. /\ Number(Reading) \in Nat /\ Number(Reading)' \in Nat
          /\ Number(Reading)' + One(requests[s] \in Reading) = Number(Reading) + One(new \in Reading)
      BY ONLY <2>4, <3>1, s \in Slots, new \in Jobs, SlotMoves
    <3>3. Number(Reading)' <= Number(Reading) + 1
      BY <3>2 DEF One
    <3>4. issued'["vision"] = issued["vision"] /\ issued["vision"] \in Nat
      BY <1>1, <1>2, CountersAreNat, Constants
    <3>5. Cardinality(Charged) \in Nat
      BY <1>1, FS_CardinalityType DEF ChargedInv
    <3>6. issued["vision"] + Number(Reading) <= Cardinality(Charged)
      BY <1>1 DEF ChargedInv
    <3>7. issued'["vision"] + Number(Reading)' <= Cardinality(Charged')
      BY <2>3, <3>2, <3>3, <3>4, <3>5, <3>6
    <3> QED
      BY <2>3, <3>7 DEF ChargedInv
  <2>8. PaidTypes'
    BY <1>1, <1>2, <2>2, <2>6 DEF PaidTypes, costVars
  <2> QED
    BY <2>2, <2>6, <2>7, <2>8 DEF PaidInv
<1> QED
  BY <1>3, <1>4, <1>5 DEF EvaluateFromImage

\* The image is read: refused, or sent to the API.
LEMMA ImageReadStep ==
  ASSUME PaidInv, NEW s \in Slots, ImageRead(s)
  PROVE  PaidInv'
<1>1. /\ PaidTypes /\ FlightInv /\ CountInv /\ OrderInv /\ AudioInv /\ OnceInv /\ WindowInv
      /\ ChargedInv
  BY DEF PaidInv
<1>2. UNCHANGED <<now, audio, uploads, granted, costVars>>
  BY DEF ImageRead
<1>3. PICK r \in Jobs : r = requests[s] /\ r.pc = "reading"
  BY <1>1 DEF PaidTypes, ImageRead
<1>4. /\ r.plan \in {"good", "best"} /\ r \in Reading
      /\ \A e \in Endpoints : r \notin Waiting(e)
      /\ \A k : r \notin SpeakingFor(k)
  BY <1>3, JobShapes, Constants
<1>5. CASE Finish(s) /\ UNCHANGED issued
  <2>1. requests' = [requests EXCEPT ![s] = Idle]
    BY <1>5 DEF Finish
  <2>2. /\ FlightInv' /\ CountInv' /\ OrderInv' /\ AudioInv' /\ OnceInv'
        /\ requests' \in [Slots -> Jobs]
    BY <1>1, <1>2, <1>3, <1>4, <1>5, <2>1, IdleJob, MoveStep
  <2>3. WindowInv'
    BY <1>1, <1>2, WindowStays
  <2>4. ChargedInv'
    <3>1. requests \in [Slots -> Jobs] /\ Idle \in Jobs
      BY <1>1, IdleJob DEF PaidTypes
    <3>2. /\ Number(Reading) \in Nat /\ Number(Reading)' \in Nat
          /\ Number(Reading)' + One(requests[s] \in Reading) = Number(Reading) + One(Idle \in Reading)
      BY ONLY <2>1, <3>1, s \in Slots, SlotMoves
    <3>3. One(Idle \in Reading) = 0
      BY IdleJob DEF One
    <3>4. Number(Reading)' <= Number(Reading)
      BY <3>2, <3>3 DEF One
    <3>5. issued'["vision"] = issued["vision"] /\ issued["vision"] \in Nat
      BY <1>1, <1>5, CountersAreNat, Constants
    <3> QED
      BY <1>1, <1>2, <3>2, <3>4, <3>5, ChargedStays
  <2>5. PaidTypes'
    BY <1>1, <1>2, <1>5, <2>2 DEF PaidTypes, costVars
  <2> QED
    BY <2>2, <2>3, <2>4, <2>5 DEF PaidInv
<1>6. CASE SendVision(s, requests[s].plan)
  <2>1. PICK new : new = [pc |-> "seeing", plan |-> r.plan]
    OBVIOUS
  <2>2. /\ new \in Jobs /\ new \notin Reading
        /\ new \notin Waiting("tts") /\ new \in Waiting("vision")
        /\ \A k : new \notin SpeakingFor(k)
    BY <1>4, <2>1, SeeingJob
  <2>3. Send(s, "vision", new) /\ requests' = [requests EXCEPT ![s] = new]
    BY <1>3, <1>6, <2>1 DEF SendVision, Send
  <2>4. \A k \in Keys : Number(SpeakingFor(k))' \in Nat
                        /\ Number(SpeakingFor(k))' <= Number(SpeakingFor(k))
    BY <1>1, <2>2, <2>3, SpeakersMove
  <2>5. AudioInv' /\ OnceInv'
    BY <1>1, <1>2, <2>4, AudioStays DEF costVars
  <2>6. /\ "vision" \in Endpoints
        /\ \A e \in Endpoints : e # "vision" => new \notin Waiting(e)
    BY <2>2, Constants
  <2>7. DOMAIN audio' \subseteq Keys /\ \A k \in DOMAIN audio' : audio'[k] \in Nat
    BY <1>1, <1>2 DEF PaidTypes
  <2> QED
    BY <1>2, <1>3, <1>4, <2>2, <2>3, <2>5, <2>6, <2>7, SendStep
<1> QED
  BY <1>5, <1>6 DEF ImageRead

-----------------------------------------------------------------------------
(* The invariant.                                                          *)

LEMMA InitPaidInv == PaidInit => PaidInv
<1> SUFFICES ASSUME PaidInit PROVE PaidInv
  OBVIOUS
<1>1. /\ now = 0 /\ requests = [s \in Slots |-> Idle] /\ audio = <<>>
      /\ uploads = [c \in Clients |-> {}] /\ issued = [e \in Endpoints |-> 0]
      /\ granted = [c \in Clients |-> <<>>]
      /\ records = <<>> /\ counters = [e \in Endpoints |-> NoCalls]
  BY DEF PaidInit, CostInit
<1>2. DOMAIN audio = {}
  BY <1>1
<1>3. PaidTypes
  <2>1. NoCalls \in [total : Nat, success : Nat, failed : Nat, cached : Nat]
    BY DEF NoCalls
  <2> QED
    BY <1>1, <1>2, <2>1, IdleJob DEF PaidTypes
<1>4. \A X : Idle \notin X => Number(X) = 0
  BY <1>1, FS_EmptySet DEF Number, Doing
<1>5. \A R : Cardinality(Hits(R)) = 0
  <2>1. \A R : Hits(R) = {}
    BY <1>1 DEF Hits
  <2> QED
    BY <2>1, FS_EmptySet
<1>6. FlightInv
  <2> SUFFICES ASSUME NEW e \in Endpoints
               PROVE  issued[e] + counters[e].cached = counters[e].total + Number(Waiting(e))
    BY DEF FlightInv
  <2>1. Number(Waiting(e)) = 0
    BY <1>4, IdleJob
  <2> QED
    BY <1>1, <2>1 DEF NoCalls
<1>7. CountInv
  <2>1. Recorded = 0 /\ Len(records) = 0
    BY <1>1, Constants DEF Recorded, NoCalls
  <2>2. \A e \in Endpoints, field \in Fields : counters[e][field] = 0
    BY <1>1 DEF NoCalls, Fields
  <2> QED
    BY <1>5, <2>1, <2>2, Constants DEF CountInv
<1>8. OrderInv
  BY <1>1 DEF OrderInv
<1>9. AudioInv
  BY <1>1, <1>2 DEF AudioInv
<1>10. OnceInv
  <2> SUFFICES ASSUME NEW k \in Keys, NEW t \in Nat
               PROVE  /\ Cardinality(Hits(PaidCallsFor(k, t))) <= Cardinality(Slots)
                      /\ now <= t + CacheTtl =>
                           Cardinality(Hits(PaidCallsFor(k, t))) + Number(SpeakingFor(k))
                             <= Cardinality(Slots)
    BY DEF OnceInv
  <2>1. Number(SpeakingFor(k)) = 0
    BY <1>4, IdleJob
  <2>2. Cardinality(Hits(PaidCallsFor(k, t))) = 0
    BY <1>5
  <2> QED
    BY <2>1, <2>2, Constants
<1>11. WindowInv
  <2> SUFFICES ASSUME NEW c \in Clients
               PROVE  /\ uploads[c] \subseteq DOMAIN granted[c]
                      /\ \A n \in DOMAIN granted[c] :
                           /\ granted[c][n] <= now
                           /\ now - granted[c][n] < UploadWindow => n \in uploads[c]
                      /\ \A t \in Nat : Cardinality(InTime(c, t)) <= UploadLimit
    BY DEF WindowInv, InTime
  <2>1. DOMAIN granted[c] = {} /\ uploads[c] = {}
    BY <1>1
  <2>2. \A t : InTime(c, t) = {}
    BY <2>1 DEF InTime
  <2> QED
    BY <2>1, <2>2, FS_EmptySet, Constants
<1>12. ChargedInv
  <2>1. Charged = {}
    BY <1>1 DEF Charged
  <2>2. Number(Reading) = 0 /\ issued["vision"] = 0
    BY <1>1, <1>4, IdleJob, Constants
  <2> QED
    BY <2>1, <2>2, FS_EmptySet DEF ChargedInv
<1> QED
  BY <1>3, <1>6, <1>7, <1>8, <1>9, <1>10, <1>11, <1>12 DEF PaidInv

LEMMA PaidStep == PaidInv /\ [PaidNext]_<<paidVars, lightVars>> => PaidInv'
<1> SUFFICES ASSUME PaidInv, [PaidNext]_<<paidVars, lightVars>> PROVE PaidInv'
  OBVIOUS
<1>1. CASE UNCHANGED paidVars
  BY <1>1, QuietStep DEF paidVars
<1>2. ASSUME NEW s \in Slots, NEW plan \in {"good", "best"},
             \/ \E case \in DOMAIN Narrations \cup {"unknown"} : GetDemoNarration(s, case, plan)
             \/ TextToSpeech(s, plan)
             \/ \E c \in Clients, upload \in Uploads : EvaluateFromImage(s, c, upload, plan)
      PROVE  PaidInv'
  BY <1>2, NarrationStep, TextStep, UploadStep
<1>3. ASSUME NEW s \in Slots,
             \/ \E outcome \in {"ok", "http_error", "exception"} : Spoken(s, outcome)
             \/ ImageRead(s)
             \/ \E outcome \in {"text", "no_slip", "other_json", "no_json", "http_error",
                                "exception"} : Seen(s, outcome)
      PROVE  PaidInv'
  BY <1>3, SpokenStep, ImageReadStep, SeenStep
<1>4. CASE Tick
  BY <1>4, QuietStep DEF Tick
<1> QED
  BY <1>1, <1>2, <1>3, <1>4 DEF PaidNext, paidVars

\* The invariant holds in every state.
THEOREM PaidInvariant == PaidSpec => []PaidInv
<1> QED
  BY InitPaidInv, PaidStep, PTL DEF PaidSpec

-----------------------------------------------------------------------------
(* The properties.                                                         *)

\* Of some of the numbers to n there is a last one.
LEMMA LastOfSome ==
  ASSUME NEW n \in Nat, NEW P, P \subseteq 1..n, P # {}
  PROVE  \E i \in P : \A j \in P : j <= i
<1> DEFINE T == {m \in Nat : n - m \in P}
<1>1. T # {}
  <2>1. PICK i \in P : TRUE
    OBVIOUS
  <2>2. i \in 1..n /\ n - i \in Nat /\ n - (n - i) = i
    BY <2>1
  <2> QED
    BY <2>1, <2>2
<1>2. PICK m \in T : \A k \in T : ~(<<k, m>> \in OpToRel(<, Nat))
  BY <1>1, NatLessThanWellFounded, WFMin
<1>3. \A k \in T : ~(k < m)
  BY <1>2 DEF OpToRel
<1>4. ASSUME NEW j \in P PROVE j <= n - m
  <2>1. j \in 1..n /\ n - j \in Nat /\ n - (n - j) = j
    OBVIOUS
  <2>2. ~(n - j < m)
    BY <1>3, <2>1
  <2>3. m \in Nat
    OBVIOUS
  <2> QED
    BY ONLY n \in Nat, <2>1, <2>2, <2>3
<1> QED
  BY <1>2, <1>4

\* What the routes report, in the words of the invariant.
LEMMA ReportsAreHits ==
  ASSUME PaidTypes, NEW e \in Endpoints
  PROVE  /\ InFlight(e) = Number(Waiting(e))
         /\ \A f \in Fields : GetSummary(e, 0)[f] = Cardinality(Hits(CallsOf(e, f)))
<1>1. \A i \in DOMAIN records : records[i] \in Calls /\ records[i].at \in Nat
  BY CallTypes
<1>2. InFlight(e) = Number(Waiting(e))
  <2>1. \A s \in Slots : requests[s] \in Jobs
    BY DEF PaidTypes
  <2>2. {s \in Slots : requests[s].pc = IF e = "tts" THEN "speaking" ELSE "seeing"}
          = Doing(Waiting(e))
    BY <2>1 DEF Doing, Waiting
  <2> QED
    BY <2>2 DEF InFlight, Number
<1>3. {i \in Of(e) : records[i].at >= 0} = Hits(CallsOf(e, "total"))
  BY <1>1 DEF Of, Hits, CallsOf
<1>4. {i \in {i \in Of(e) : records[i].at >= 0} : records[i].success} = Hits(CallsOf(e, "success"))
  BY <1>1 DEF Of, Hits, CallsOf
<1>5. {i \in {i \in Of(e) : records[i].at >= 0} : ~records[i].success} = Hits(CallsOf(e, "failed"))
  BY <1>1 DEF Of, Hits, CallsOf
<1>6. {i \in {i \in Of(e) : records[i].at >= 0} : records[i].cached} = Hits(CallsOf(e, "cached"))
  BY <1>1 DEF Of, Hits, CallsOf
<1>7. GetSummary(e, 0) =
        [total |-> Cardinality(Hits(CallsOf(e, "total"))),
         success |-> Cardinality(Hits(CallsOf(e, "success"))),
         failed |-> Cardinality(Hits(CallsOf(e, "failed"))),
         cached |-> Cardinality(Hits(CallsOf(e, "cached")))]
  BY <1>3, <1>4, <1>5, <1>6 DEF GetSummary
<1> QED
  BY <1>2, <1>7 DEF Fields

\* The first of the recent calls is the newest of its endpoint.
LEMMA NewestFirst ==
  ASSUME PaidTypes, OrderInv, NEW e \in Endpoints, NEW i \in Of(e)
  PROVE  records[i].at <= GetRecentCalls(1, e)[1].at
<1> DEFINE After(k) == {j \in Of(e) : j > k}
           newest == CHOOSE k \in Of(e) : Cardinality(After(k)) = 1 - 1
<1>1. PICK n \in Nat : n = Len(records) /\ DOMAIN records = 1..n
  BY DEF PaidTypes
<1>2. Of(e) \subseteq 1..n
  BY <1>1 DEF Of
<1>3. IsFiniteSet(Of(e))
  BY <1>2, FS_Interval, FS_Subset
<1>4. PICK last \in Of(e) : \A j \in Of(e) : j <= last
  BY <1>2, LastOfSome
<1>5. After(last) = {}
  BY <1>2, <1>4
<1>6. Cardinality(After(last)) = 1 - 1
  <2>1. Cardinality({}) = 0 /\ 1 - 1 = 0
    BY FS_EmptySet
  <2> HIDE DEF After
  <2> QED
    BY <1>5, <2>1
<1>7. newest \in Of(e) /\ Cardinality(After(newest)) = 0
  <2>1. newest \in Of(e) /\ Cardinality(After(newest)) = 1 - 1
    <3> HIDE DEF After
    <3> QED
      BY <1>4, <1>6, Zenon
  <2> HIDE DEF After, newest
  <2> QED
    BY <2>1
<1>8. IsFiniteSet(After(newest))
  BY <1>3, FS_Subset
<1>9. After(newest) = {}
  <2> HIDE DEF After, newest
  <2> QED
    BY <1>7, <1>8, FS_EmptySet
<1>10. i <= newest
  <2>1. i \in Nat /\ newest \in Nat
    BY <1>2, <1>7
  <2>2. ~(i > newest)
    BY <1>9
  <2> HIDE DEF newest
  <2> QED
    BY <2>1, <2>2
<1>11. 1 <= Cardinality(Of(e))
  BY <1>3, FS_EmptySet, FS_CardinalityType
<1>12. GetRecentCalls(1, e)[1] = records[newest]
  BY <1>11 DEF GetRecentCalls
<1>13. i \in DOMAIN records /\ newest \in DOMAIN records
  BY <1>7 DEF Of
<1> HIDE DEF newest
<1> QED
  BY <1>10, <1>12, <1>13 DEF OrderInv

\* Nothing is paid for that the tracker does not know (record_api_call on every
\* path of generate_speech and _parse_bet_slip_image, and what the metrics routes
\* make of the capped list).
THEOREM LedgerAlwaysComplete == PaidSpec => []LedgerComplete
<1>1. PaidInv => LedgerComplete
  <2> SUFFICES ASSUME PaidInv, NEW e \in Endpoints
               PROVE  /\ issued[e] + counters[e].cached = counters[e].total + InFlight(e)
                      /\ Recorded <= MaxRecords => GetSummary(e, 0) = counters[e]
                      /\ \A f \in Fields : GetSummary(e, 0)[f] <= counters[e][f]
                      /\ Recorded > MaxRecords => Len(records) = MaxRecords
                      /\ \A i \in Of(e) : records[i].at <= GetRecentCalls(1, e)[1].at
    BY DEF LedgerComplete, Fields
  <2>1. PaidTypes /\ FlightInv /\ CountInv /\ OrderInv
    BY DEF PaidInv
  <2>2. /\ InFlight(e) = Number(Waiting(e))
        /\ \A f \in Fields : GetSummary(e, 0)[f] = Cardinality(Hits(CallsOf(e, f)))
    BY <2>1, ReportsAreHits
  <2>3. issued[e] + counters[e].cached = counters[e].total + InFlight(e)
    BY <2>1, <2>2 DEF FlightInv
  <2>4. \A f \in Fields :
          /\ GetSummary(e, 0)[f] <= counters[e][f]
          /\ Recorded <= MaxRecords => GetSummary(e, 0)[f] = counters[e][f]
    BY <2>1, <2>2 DEF CountInv
  <2>5. ASSUME Recorded <= MaxRecords PROVE GetSummary(e, 0) = counters[e]
    <3>1. counters[e] \in [total : Nat, success : Nat, failed : Nat, cached : Nat]
      BY <2>1 DEF PaidTypes
    <3>2. PICK t, s, f, c : GetSummary(e, 0) = [total |-> t, success |-> s, failed |-> f, cached |-> c]
      BY DEF GetSummary
    <3>3. /\ counters[e].total = t /\ counters[e].success = s
          /\ counters[e].failed = f /\ counters[e].cached = c
      BY <2>4, <2>5, <3>2 DEF Fields
    <3> QED
      BY <3>1, <3>2, <3>3
  <2>6. \A i \in Of(e) : records[i].at <= GetRecentCalls(1, e)[1].at
    BY <2>1, NewestFirst
  <2> QED
    BY <2>1, <2>3, <2>4, <2>5, <2>6 DEF CountInv
<1> QED
  BY <1>1, PaidInvariant, PTL

\* In a time to live no narration is paid for more often than all requests at
\* once (get_cached_audio before the await of generate_speech, set_cached_audio
\* after it).
THEOREM AlwaysPaidOnce == PaidSpec => []PaidOnce
<1>1. PaidInv => PaidOnce
  <2> SUFFICES ASSUME PaidInv, NEW case \in DOMAIN Narrations, NEW t \in 0..now
               PROVE  Cardinality(PaidFor(KeyOf(case), t)) <= Cardinality(Slots)
    BY DEF PaidOnce
  <2>1. PaidTypes /\ OnceInv
    BY DEF PaidInv
  <2>2. \A i \in DOMAIN records : records[i] \in Calls
    BY <2>1, CallTypes
  <2>3. PaidFor(KeyOf(case), t) = Hits(PaidCallsFor(KeyOf(case), t))
    BY <2>2 DEF PaidFor, Hits, PaidCallsFor
  <2>4. KeyOf(case) \in Keys /\ t \in Nat
    BY <2>1 DEF Keys, PaidTypes
  <2> QED
    BY <2>1, <2>3, <2>4 DEF OnceInv
<1> QED
  BY <1>1, PaidInvariant, PTL

\* No window holds more uploads of a client than the limit, and every call of the
\* vision API was charged (_check_rate_limit before the upload is read).
THEOREM UploadsAlwaysBounded == PaidSpec => []UploadsBounded
<1>1. PaidInv => UploadsBounded
  <2> SUFFICES ASSUME PaidInv PROVE UploadsBounded
    OBVIOUS
  <2>1. PaidTypes /\ WindowInv /\ ChargedInv
    BY DEF PaidInv
  <2>2. \A t \in 0..now : t \in Nat
    BY <2>1 DEF PaidTypes
  <2>3. {s \in Slots : requests[s].pc = "reading"} = Doing(Reading)
    <3>1. \A s \in Slots : requests[s] \in Jobs
      BY <2>1 DEF PaidTypes
    <3> QED
      BY <3>1 DEF Doing, Reading
  <2> QED
    BY <2>1, <2>2, <2>3 DEF UploadsBounded, WindowInv, ChargedInv, Number
<1> QED
  BY <1>1, PaidInvariant, PTL

-----------------------------------------------------------------------------
(* The answers of the routes that keep nothing: what another plan gives.   *)

LEMMA LesserOf ==
  ASSUME NEW a \in Int, NEW b \in Int
  PROVE  Min({a, b}) = IF a <= b THEN a ELSE b
<1> DEFINE m == IF a <= b THEN a ELSE b
<1>1. m \in {a, b} /\ \A x \in {a, b} : m <= x
  OBVIOUS
<1>2. \A y \in {a, b} : (\A x \in {a, b} : y <= x) => y = m
  OBVIOUS
<1> HIDE DEF m
<1>3. (CHOOSE y \in {a, b} : \A x \in {a, b} : y <= x) = m
  BY <1>1, <1>2
<1> QED
  BY <1>3 DEF Min, m

LEMMA FirstIs ==
  ASSUME NEW S, NEW s \in Seq(S), NEW n \in Nat
  PROVE  /\ First(n, s) \in Seq(S)
         /\ Len(First(n, s)) = IF n <= Len(s) THEN n ELSE Len(s)
         /\ \A i \in 1..Len(First(n, s)) : First(n, s)[i] = s[i]
<1>1. PICK m \in Nat : m = Min({n, Len(s)}) /\ m <= Len(s) /\ m = IF n <= Len(s) THEN n ELSE Len(s)
  BY LesserOf
<1>2. First(n, s) = SubSeq(s, 1, m)
  BY <1>1 DEF First
<1> QED
  BY <1>1, <1>2

LEMMA FirstIsPrefix ==
  ASSUME NEW S, NEW s \in Seq(S), NEW m \in Nat, NEW n \in Nat, m <= n
  PROVE  IsPrefix(First(m, s), First(n, s))
<1>1. PICK a \in Seq(S), b \in Seq(S) : a = First(m, s) /\ b = First(n, s)
  BY FirstIs
<1>2. /\ Len(a) <= Len(b)
      /\ \A i \in 1..Len(a) : a[i] = b[i]
  BY <1>1, FirstIs
<1>3. SubSeq(a, 1, Len(a)) = SubSeq(b, 1, Len(a))
  BY <1>2
<1> QED
  BY <1>1, <1>2, <1>3 DEF IsPrefix

LEMMA FirstOfFirst ==
  ASSUME NEW S, NEW s \in Seq(S), NEW m \in Nat, NEW n \in Nat, m <= n
  PROVE  First(n, First(m, s)) = First(m, s)
<1>1. PICK a \in Seq(S) : a = First(m, s) /\ Len(a) <= n
  BY FirstIs
<1>2. First(n, a) = a
  <2>1. First(n, a) \in Seq(S) /\ Len(First(n, a)) = Len(a)
        /\ \A i \in 1..Len(a) : First(n, a)[i] = a[i]
    BY <1>1, FirstIs
  <2> QED
    BY <2>1
<1> QED
  BY <1>1, <1>2

LEMMA RankedIsSeq ==
  ASSUME NEW cands, IsFiniteSet(DOMAIN cands)
  PROVE  \E S : RankCandidates(cands) \in Seq(S)
<1> DEFINE some == {i \in DOMAIN cands : cands[i].delta > 0}
           Ahead(i) == Cardinality({j \in some : Before(cands, j, i)})
           at(n) == cands[CHOOSE i \in some : Ahead(i) = n - 1]
<1>1. PICK c \in Nat : c = Cardinality(some)
  BY FS_Subset, FS_CardinalityType
<1>2. RankCandidates(cands) = [n \in 1..c |-> at(n)]
  BY <1>1 DEF RankCandidates
<1> HIDE DEF at
<1>3. [n \in 1..c |-> at(n)] \in Seq({at(n) : n \in 1..c})
  OBVIOUS
<1> QED
  BY <1>2, <1>3

ReplyOf(status, code, e, suggestions, legs, explain, alerts, notes) ==
  [status |-> status, code |-> code, eval |-> e, suggestions |-> suggestions, legs |-> legs,
   explain |-> explain, alerts |-> alerts, notes |-> notes]

LEMMA ReplyFields ==
  ASSUME NEW status, NEW code, NEW e, NEW s, NEW n, NEW x, NEW a, NEW notes, NEW r,
         r = ReplyOf(status, code, e, s, n, x, a, notes)
  PROVE  /\ r.status = status /\ r.code = code /\ r.eval = e /\ r.suggestions = s
         /\ r.legs = n /\ r.explain = x /\ r.alerts = a /\ r.notes = notes
BY DEF ReplyOf

LEMMA RefusedIs ==
  ASSUME NEW status, NEW code
  PROVE  /\ Refused(status, code) = ReplyOf(status, code, None, <<>>, 0, {}, {}, <<>>)
         /\ Refused(status, code).code = code
BY DEF Refused, ReplyOf

LEMMA EvaluatedIs ==
  ASSUME NEW e, NEW s, NEW n
  PROVE  Evaluated(e, s, n) = ReplyOf(200, None, e, s, n, {}, {}, <<>>)
<1>1. PICK status : status = 200
  OBVIOUS
<1>2. PICK zero : zero = 0
  OBVIOUS
<1>3. PICK none : none = {}
  OBVIOUS
<1>4. PICK nil : nil = <<>>
  OBVIOUS
<1>5. PICK r : r = Refused(200, None)
  OBVIOUS
<1>6. r = ReplyOf(status, None, None, nil, zero, none, none, nil)
  BY <1>1, <1>2, <1>3, <1>4, <1>5, RefusedIs, Zenon
<1>7. PICK new : new = [r EXCEPT !.eval = e, !.suggestions = s, !.legs = n]
  OBVIOUS
<1>8. new = ReplyOf(status, None, e, s, n, none, none, nil)
  BY ONLY <1>6, <1>7 DEF ReplyOf
<1>9. new = Evaluated(e, s, n)
  BY <1>5, <1>7, Zenon DEF Evaluated
<1> QED
  BY <1>1, <1>3, <1>4, <1>8, <1>9, Zenon

\* What a state and a limit give; only the limit depends on the plan.
LEMMA EvaluateStateIs ==
  ASSUME NEW state, NEW body, NEW max
  PROVE  EvaluateState(state, body, max) =
           ReplyOf(200, None,
                   Core!EvaluateParlay(state, [profile |-> body.profile,
                                               bankroll |-> body.bankroll]),
                   ComputeSuggestions(state, body.candidates, max, body.profile),
                   Len(body.legs), {}, {}, <<>>)
BY EvaluatedIs DEF EvaluateState

Ranked(state, body) ==
  RankCandidates([i \in DOMAIN body.candidates |->
                    EvaluateCandidate(state, body.candidates[i], body.profile)])

LEMMA SuggestionsAre ==
  ASSUME NEW state, NEW body, IsFiniteSet(DOMAIN body.candidates)
  PROVE  /\ \E S : Ranked(state, body) \in Seq(S)
         /\ \A max : ComputeSuggestions(state, body.candidates, max, body.profile)
                       = First(max, Ranked(state, body))
<1> DEFINE cands == [i \in DOMAIN body.candidates |->
                       EvaluateCandidate(state, body.candidates[i], body.profile)]
<1>1. IsFiniteSet(DOMAIN cands)
  OBVIOUS
<1>2. Ranked(state, body) = RankCandidates(cands)
  BY DEF Ranked
<1>3. \A max : ComputeSuggestions(state, body.candidates, max, body.profile)
                 = First(max, RankCandidates(cands))
  BY DEF ComputeSuggestions
<1> HIDE DEF cands
<1> QED
  BY <1>1, <1>2, <1>3, RankedIsSeq

LEMMA PolicyIs ==
  /\ Policy("good") = [alerts |-> FALSE, suggestions |-> 0, signals |-> {"weather"},
                       demo |-> FALSE, notes |-> FALSE]
  /\ Policy("better") = [alerts |-> TRUE, suggestions |-> 5, signals |-> {"weather", "injury"},
                         demo |-> FALSE, notes |-> TRUE]
  /\ Policy("best") = [alerts |-> TRUE, suggestions |-> 10,
                       signals |-> {"weather", "injury", "trade"}, demo |-> TRUE, notes |-> TRUE]
<1>1. /\ {s \in {"injury"} : FALSE} = {} /\ {s \in {"trade"} : FALSE} = {}
      /\ {s \in {"injury"} : TRUE} = {"injury"} /\ {s \in {"trade"} : TRUE} = {"trade"}
  OBVIOUS
<1>2. Policy("good").signals = {"weather"}
  BY DEF Policy
<1>3. Policy("better").signals = {"weather", "injury"}
  BY DEF Policy
<1>4. Policy("best").signals = {"weather", "injury", "trade"}
  BY DEF Policy
<1> QED
  BY <1>2, <1>3, <1>4 DEF Policy

LEMMA PolicyGrows ==
  ASSUME NEW low \in Plans, NEW high \in Above(low)
  PROVE  /\ high \in Plans
         /\ Policy(low).suggestions \in Nat /\ Policy(high).suggestions \in Nat
         /\ Policy(low).suggestions <= Policy(high).suggestions
         /\ Policy(low).signals \subseteq Policy(high).signals
         /\ Policy(low).alerts => Policy(high).alerts
         /\ Policy(low).notes => Policy(high).notes
         /\ Policy(low).demo => Policy(high).demo
<1>1. CASE low = "good" /\ high = "better"
  BY <1>1, PolicyIs DEF Plans
<1>2. CASE high = "best"
  BY <1>2, PolicyIs DEF Plans
<1>3. (low = "good" /\ high = "better") \/ high = "best"
  BY DEF Plans, Above, ParsePlan
<1> QED
  BY <1>1, <1>2, <1>3

LEMMA SomeCode == \A code \in Codes : code # None
BY LightAssumption, Zenon

LEMMA PostIs ==
  ASSUME NEW post \in Posts \cup Views
  PROVE  /\ DOMAIN post = {"plan", "legs", "profile", "bankroll", "candidates", "max", "signals"}
         /\ post.plan \in Plans /\ post.max \in Nat
         /\ post.legs \in Seq(ClientLegs) /\ Len(post.legs) < MaxLegs
         /\ post.candidates \in Seq(ClientLegs) /\ IsFiniteSet(DOMAIN post.candidates)
         /\ post.signals \in Seq(Range(post.signals))
         /\ post.profile # None => post.profile.max_legs \in Nat
<1>1. /\ DOMAIN post = {"plan", "legs", "profile", "bankroll", "candidates", "max", "signals"}
      /\ post.plan \in {"good", "better", "best"} /\ post.max \in Nat
      /\ post.legs \in Seq(ClientLegs) /\ Len(post.legs) < MaxLegs
      /\ post.candidates \in Seq(ClientLegs)
      /\ post.signals \in Seq(Range(post.signals))
      /\ post.profile # None => post.profile.max_legs \in Nat
  BY LightAssumption, Zenon
<1>2. IsFiniteSet(DOMAIN post.candidates)
  <2>1. Len(post.candidates) \in Nat /\ DOMAIN post.candidates = 1..Len(post.candidates)
    BY <1>1
  <2>2. IsFiniteSet(1..Len(post.candidates))
    BY <2>1, FS_Interval
  <2> QED
    BY <2>1, <2>2
<1> QED
  BY <1>1, <1>2 DEF Plans

\* What an evaluation says whatever the limit, and its suggestions in order.
Verdict(body) ==
  Core!EvaluateParlay(State(body), [profile |-> body.profile, bankroll |-> body.bankroll])
Offer(body) == Ranked(State(body), body)

LEMMA EvaluateBodyIs ==
  ASSUME NEW body, NEW max, IsFiniteSet(DOMAIN body.candidates)
  PROVE  EvaluateBody(body, max) =
           ReplyOf(200, None, Verdict(body), First(max, Offer(body)), Len(body.legs), {}, {}, <<>>)
<1>1. ComputeSuggestions(State(body), body.candidates, max, body.profile) = First(max, Offer(body))
  BY SuggestionsAre DEF Offer
<1> QED
  BY <1>1, EvaluateStateIs DEF EvaluateBody, Verdict

LEMMA OfferIsSeq ==
  ASSUME NEW body, IsFiniteSet(DOMAIN body.candidates)
  PROVE  \E S : Offer(body) \in Seq(S)
BY SuggestionsAre DEF Offer

\* Nothing of a body but its plan depends on the plan.
LEMMA SameBut ==
  ASSUME NEW post \in Posts \cup Views, NEW plan
  PROVE  LET other == [post EXCEPT !.plan = plan]
         IN  /\ other.plan = plan /\ other.max = post.max /\ other.legs = post.legs
             /\ other.candidates = post.candidates /\ other.signals = post.signals
             /\ Verdict(other) = Verdict(post) /\ Offer(other) = Offer(post)
<1> DEFINE other == [post EXCEPT !.plan = plan]
<1>1. /\ other.plan = plan /\ other.max = post.max /\ other.legs = post.legs
      /\ other.candidates = post.candidates /\ other.profile = post.profile
      /\ other.bankroll = post.bankroll /\ other.signals = post.signals
  BY PostIs
<1> HIDE DEF other
<1>2. State(other) = State(post)
  BY <1>1 DEF State
<1>3. Verdict(other) = Verdict(post)
  BY <1>1, <1>2 DEF Verdict
<1>4. Offer(other) = Offer(post)
  BY <1>1, <1>2 DEF Offer, Ranked
<1>5. /\ other.plan = plan /\ other.max = post.max /\ other.legs = post.legs
      /\ other.candidates = post.candidates /\ other.signals = post.signals
      /\ Verdict(other) = Verdict(post) /\ Offer(other) = Offer(post)
  BY <1>1, <1>3, <1>4
<1> QED
  BY <1>5 DEF other

LEMMA Suggested ==
  ASSUME NEW e, NEW s, NEW n, NEW x, NEW a, NEW notes, NEW v, NEW status, NEW code, NEW r, NEW q,
         r = ReplyOf(status, code, e, s, n, x, a, notes),
         q = [r EXCEPT !.suggestions = v]
  PROVE  q = ReplyOf(status, code, e, v, n, x, a, notes)
BY DEF ReplyOf

\* An evaluation that is not refused.
LEMMA EvaluateIs ==
  ASSUME NEW post, IsFiniteSet(DOMAIN post.candidates),
         post.max \in Nat, post.plan \in Plans,
         flags.enabled, SignalsAllowed(post.signals, post.plan),
         WellTyped(post.legs), WellTyped(post.candidates)
  PROVE  \E cut \in Nat :
           /\ cut = IF post.max <= Policy(post.plan).suggestions THEN post.max
                    ELSE Policy(post.plan).suggestions
           /\ Evaluate(post) = EvaluateBody(post, cut)
<1>1. PICK limit \in Nat : limit = Policy(post.plan).suggestions
  BY PolicyIs DEF Plans
<1>2. PICK cut \in Nat : /\ cut = Min({post.max, limit}) /\ cut <= limit
                         /\ cut = IF post.max <= limit THEN post.max ELSE limit
  BY LesserOf
<1>3. First(limit, First(cut, Offer(post))) = First(cut, Offer(post))
  BY <1>2, OfferIsSeq, FirstOfFirst
<1>4. PICK r : r = EvaluateBody(post, cut)
  OBVIOUS
<1>5. r.suggestions = First(cut, Offer(post))
  BY <1>4, EvaluateBodyIs, ReplyFields
<1>6. PICK q : q = [r EXCEPT !.suggestions = First(limit, r.suggestions)]
  OBVIOUS
<1>7. q = Evaluate(post)
  BY <1>1, <1>2, <1>4, <1>6, Zenon DEF Evaluate, ApplyTierToResponse
<1>8. First(limit, r.suggestions) = r.suggestions
  BY <1>3, <1>5
<1>9. q = r
  <2>1. PICK status, code, e, s, n, x, a, notes : r = ReplyOf(status, code, e, s, n, x, a, notes)
    BY <1>4, EvaluateBodyIs
  <2>2. PICK v : v = First(limit, r.suggestions)
    OBVIOUS
  <2>3. q = [r EXCEPT !.suggestions = v]
    BY <1>6, <2>2, Zenon
  <2>4. q = ReplyOf(status, code, e, v, n, x, a, notes)
    BY ONLY <2>1, <2>3, Suggested
  <2>5. v = s
    BY <1>8, <2>1, <2>2, ReplyFields
  <2> QED
    BY <2>1, <2>4, <2>5
<1> QED
  BY <1>1, <1>2, <1>4, <1>7, <1>9

LEMMA EvaluateCode ==
  ASSUME NEW post, Evaluate(post).code = None
  PROVE  /\ flags.enabled /\ SignalsAllowed(post.signals, post.plan)
         /\ WellTyped(post.legs) /\ WellTyped(post.candidates)
<1>1. "SERVICE_DISABLED" # None /\ "SIGNAL_NOT_ALLOWED" # None /\ "VALIDATION_ERROR" # None
  BY SomeCode DEF Codes
<1> QED
  BY <1>1, RefusedIs DEF Evaluate

\* POST /evaluate: the same body on a higher plan.
LEMMA EvaluateCovers ==
  ASSUME NEW post \in Posts, NEW plan \in Above(post.plan)
  PROVE  Covers(Evaluate([post EXCEPT !.plan = plan]), Evaluate(post))
<1>1. PICK other : other = [post EXCEPT !.plan = plan]
  OBVIOUS
<1>2. /\ other.plan = plan /\ other.max = post.max /\ other.legs = post.legs
      /\ other.candidates = post.candidates /\ other.signals = post.signals
      /\ Verdict(other) = Verdict(post) /\ Offer(other) = Offer(post)
  BY <1>1, SameBut
<1>3. post.plan \in Plans /\ post.max \in Nat /\ IsFiniteSet(DOMAIN post.candidates)
  BY PostIs
<1>4. /\ plan \in Plans
      /\ Policy(post.plan).suggestions \in Nat /\ Policy(plan).suggestions \in Nat
      /\ Policy(post.plan).suggestions <= Policy(plan).suggestions
      /\ Policy(post.plan).signals \subseteq Policy(plan).signals
  BY <1>3, PolicyGrows
<1>5. SUFFICES ASSUME Evaluate(post).code = None
      PROVE  Covers(Evaluate(other), Evaluate(post))
  BY <1>1 DEF Covers
<1>6. /\ flags.enabled /\ SignalsAllowed(post.signals, post.plan)
      /\ WellTyped(post.legs) /\ WellTyped(post.candidates)
  BY <1>5, EvaluateCode
<1>7. SignalsAllowed(other.signals, other.plan)
  BY <1>2, <1>4, <1>6 DEF SignalsAllowed
<1>8. PICK m \in Nat :
        /\ m = IF post.max <= Policy(post.plan).suggestions THEN post.max
               ELSE Policy(post.plan).suggestions
        /\ Evaluate(post) = EvaluateBody(post, m)
  BY <1>3, <1>6, EvaluateIs
<1>9. PICK n \in Nat :
        /\ n = IF post.max <= Policy(plan).suggestions THEN post.max
               ELSE Policy(plan).suggestions
        /\ Evaluate(other) = EvaluateBody(other, n)
  <2>1. /\ IsFiniteSet(DOMAIN other.candidates) /\ other.max \in Nat /\ other.plan \in Plans
        /\ WellTyped(other.legs) /\ WellTyped(other.candidates)
    BY <1>2, <1>3, <1>4, <1>6
  <2>2. \E n \in Nat :
          /\ n = IF other.max <= Policy(other.plan).suggestions THEN other.max
                 ELSE Policy(other.plan).suggestions
          /\ Evaluate(other) = EvaluateBody(other, n)
    BY <1>6, <1>7, <2>1, EvaluateIs
  <2> QED
    BY <1>2, <2>2
<1>10. m <= n
  BY <1>3, <1>4, <1>8, <1>9
<1>11. IsPrefix(First(m, Offer(post)), First(n, Offer(post)))
  BY <1>3, <1>10, OfferIsSeq, FirstIsPrefix
<1>12. ASSUME NEW body \in {post, other}, NEW k \in Nat, NEW r, r = EvaluateBody(body, k)
       PROVE  /\ r.code = None /\ r.eval = Verdict(post) /\ r.suggestions = First(k, Offer(post))
              /\ r.explain = {} /\ r.alerts = {} /\ r.notes = <<>>
  <2>1. IsFiniteSet(DOMAIN body.candidates)
    BY <1>2, <1>3
  <2>2. r = ReplyOf(200, None, Verdict(body), First(k, Offer(body)), Len(body.legs), {}, {}, <<>>)
    BY <1>12, <2>1, EvaluateBodyIs
  <2>3. Verdict(body) = Verdict(post) /\ Offer(body) = Offer(post)
    BY <1>2
  <2>4. /\ r.code = None /\ r.eval = Verdict(body) /\ r.suggestions = First(k, Offer(body))
        /\ r.explain = {} /\ r.alerts = {} /\ r.notes = <<>>
    BY <2>2, ReplyFields
  <2> QED
    BY <2>3, <2>4
<1>13. PICK low, high : low = Evaluate(post) /\ high = Evaluate(other)
  OBVIOUS
<1>14. /\ low.code = None /\ high.code = None /\ low.eval = high.eval
       /\ low.suggestions = First(m, Offer(post)) /\ high.suggestions = First(n, Offer(post))
       /\ low.explain = {} /\ low.alerts = {} /\ low.notes = <<>>
       /\ high.explain = {} /\ high.alerts = {} /\ high.notes = <<>>
  BY <1>8, <1>9, <1>12, <1>13
<1>15. Covers(high, low)
  BY <1>11, <1>14 DEF Covers
<1> QED
  BY <1>13, <1>15

LEMMA CoversItself ==
  ASSUME NEW S, NEW r, r.suggestions \in Seq(S)
  PROVE  Covers(r, r)
<1>1. PICK s \in Seq(S) : s = r.suggestions
  OBVIOUS
<1>2. IsPrefix(s, s)
  <2>1. Len(s) <= Len(s)
    OBVIOUS
  <2> QED
    BY <2>1 DEF IsPrefix
<1> QED
  BY <1>1, <1>2 DEF Covers

LEMMA BodyCoversItself ==
  ASSUME NEW body, IsFiniteSet(DOMAIN body.candidates), NEW max \in Nat
  PROVE  Covers(EvaluateBody(body, max), EvaluateBody(body, max))
<1>1. PICK r : r = EvaluateBody(body, max)
  OBVIOUS
<1>2. r.suggestions = First(max, Offer(body))
  BY <1>1, EvaluateBodyIs, ReplyFields
<1>3. \E S : r.suggestions \in Seq(S)
  BY <1>2, OfferIsSeq, FirstIs
<1> QED
  BY <1>1, <1>3, CoversItself

\* What the refusals give is covered by anything.
LEMMA RefusedCovers ==
  ASSUME NEW status, NEW code \in Codes, NEW r
  PROVE  Covers(r, Refused(status, code))
BY RefusedIs, SomeCode DEF Covers

\* The text and the image route: the same text on a higher plan.
TextBody(t) ==
  [legs |-> ParseBetText(t), profile |-> None, bankroll |-> None,
   candidates |-> <<>>, signals |-> <<>>]

LEMMA ExplainIs ==
  ASSUME NEW status, NEW code, NEW e, NEW s, NEW n, NEW x, NEW a, NEW notes, NEW full,
         full = ReplyOf(status, code, e, s, n, x, a, notes), NEW plan, NEW shown,
         shown = ApplyTierToExplain(plan, GenerateSummary(e, n), GenerateAlerts(e)), NEW label,
         label = {InterpretFragility(e.metrics.final)}
  PROVE  Explain(full, plan) =
           ReplyOf(status, code, e, s, n, shown.explain \cup label, shown.alerts, notes)
<1>1. full.eval = e /\ full.legs = n
  BY ReplyFields
<1>4. PICK vx, va : vx = shown.explain \cup label /\ va = shown.alerts
  OBVIOUS
<1>5. PICK q : q = [full EXCEPT !.explain = vx, !.alerts = va]
  OBVIOUS
<1>6. q = ReplyOf(status, code, e, s, n, vx, va, notes)
  BY ONLY full = ReplyOf(status, code, e, s, n, x, a, notes), <1>5 DEF ReplyOf
<1>7. q = Explain(full, plan)
  BY <1>1, <1>4, <1>5, Zenon DEF Explain
<1> QED
  BY <1>4, <1>6, <1>7

\* Plan by plan more is explained.
LEMMA ExplainGrows ==
  ASSUME NEW low \in SentPlans, NEW high \in Above(low), NEW summary, NEW alerts
  PROVE  /\ ApplyTierToExplain(low, summary, alerts).explain
              \subseteq ApplyTierToExplain(high, summary, alerts).explain
         /\ ApplyTierToExplain(low, summary, alerts).alerts
              \subseteq ApplyTierToExplain(high, summary, alerts).alerts
<1> DEFINE shown(plan) == ApplyTierToExplain(plan, summary, alerts)
<1>1. /\ \A plan : ParsePlan(plan) = "good" => shown(plan) = [explain |-> {}, alerts |-> {}]
      /\ \A plan : ParsePlan(plan) = "better" => shown(plan) = [explain |-> summary, alerts |-> {}]
      /\ \A plan : ParsePlan(plan) \notin {"good", "better"} =>
           shown(plan) = [explain |-> summary \cup {"recommended_next_step"}, alerts |-> alerts]
  BY DEF ApplyTierToExplain
<1> HIDE DEF shown
<1>2. /\ \A plan : ParsePlan(plan) = "good" => shown(plan).explain = {} /\ shown(plan).alerts = {}
      /\ \A plan : ParsePlan(plan) = "better" =>
           shown(plan).explain = summary /\ shown(plan).alerts = {}
      /\ \A plan : ParsePlan(plan) \notin {"good", "better"} =>
           /\ shown(plan).explain = summary \cup {"recommended_next_step"}
           /\ shown(plan).alerts = alerts
  BY <1>1
<1>3. \/ ParsePlan(low) = "good"
      \/ ParsePlan(low) = "better" /\ ParsePlan(high) = "best"
      \/ ParsePlan(low) = "best" /\ ParsePlan(high) = "best"
  BY DEF SentPlans, Plans, Above, ParsePlan
<1>4. /\ shown(low).explain \subseteq shown(high).explain
      /\ shown(low).alerts \subseteq shown(high).alerts
  BY <1>2, <1>3
<1> QED
  BY <1>4 DEF shown

LEMMA TextCovers ==
  ASSUME NEW t, NEW low \in SentPlans, NEW high \in Above(low)
  PROVE  Covers(EvaluateText(t, high), EvaluateText(t, low))
<1>1. PICK body : body = TextBody(t)
  OBVIOUS
<1>2. IsFiniteSet(DOMAIN body.candidates)
  BY <1>1, FS_EmptySet DEF TextBody
<1>3. PICK full : full = EvaluateBody(body, 0)
  OBVIOUS
<1>4. PICK e, n, s, status, x, a, notes, S :
        full = ReplyOf(status, None, e, s, n, x, a, notes) /\ s \in Seq(S)
  <2>1. full = ReplyOf(200, None, Verdict(body), First(0, Offer(body)), Len(body.legs),
                       {}, {}, <<>>)
    BY <1>2, <1>3, EvaluateBodyIs
  <2>2. PICK S : First(0, Offer(body)) \in Seq(S)
    BY <1>2, OfferIsSeq, FirstIs
  <2> QED
    BY <2>1, <2>2
<1> DEFINE shown(plan) == ApplyTierToExplain(plan, GenerateSummary(e, n), GenerateAlerts(e))
           label == {InterpretFragility(e.metrics.final)}
<1>5. /\ EvaluateText(t, low) = Explain(full, low)
      /\ EvaluateText(t, high) = Explain(full, high)
  BY <1>1, <1>3, Zenon DEF EvaluateText, TextBody
<1>6. /\ shown(low).explain \subseteq shown(high).explain
      /\ shown(low).alerts \subseteq shown(high).alerts
  BY ExplainGrows
<1>7. ASSUME NEW plan, NEW r, r = Explain(full, plan)
      PROVE  /\ r.code = None /\ r.eval = e /\ r.suggestions = s /\ r.notes = notes
             /\ r.explain = shown(plan).explain \cup label /\ r.alerts = shown(plan).alerts
  <2>1. PICK sh, l : sh = shown(plan) /\ l = label
    OBVIOUS
  <2>2. /\ sh = ApplyTierToExplain(plan, GenerateSummary(e, n), GenerateAlerts(e))
        /\ l = {InterpretFragility(e.metrics.final)}
    BY <2>1
  <2>3. full = ReplyOf(status, None, e, s, n, x, a, notes)
    BY <1>4
  <2> HIDE DEF shown, label
  <2>4. Explain(full, plan) = ReplyOf(status, None, e, s, n, sh.explain \cup l, sh.alerts, notes)
    BY ONLY <2>2, <2>3, ExplainIs
  <2>5. r = ReplyOf(status, None, e, s, n, sh.explain \cup l, sh.alerts, notes)
    BY <1>7, <2>4
  <2> QED
    BY <2>1, <2>5, ReplyFields
<1> HIDE DEF shown, label
<1>8. PICK a1, a2 : a1 = EvaluateText(t, low) /\ a2 = EvaluateText(t, high)
  OBVIOUS
<1>9. /\ a1.code = None /\ a2.code = None /\ a1.eval = a2.eval
      /\ a1.suggestions = s /\ a2.suggestions = s /\ a1.notes = a2.notes
      /\ a1.explain = shown(low).explain \cup label /\ a1.alerts = shown(low).alerts
      /\ a2.explain = shown(high).explain \cup label /\ a2.alerts = shown(high).alerts
  BY <1>5, <1>7, <1>8
<1>10. IsPrefix(s, s)
  <2>1. s \in Seq(S)
    BY <1>4
  <2> QED
    BY <2>1 DEF IsPrefix
<1>11. Covers(a2, a1)
  BY <1>6, <1>9, <1>10 DEF Covers
<1> QED
  BY <1>8, <1>11

LEMMA FromTextCovers ==
  ASSUME NEW t, NEW low \in SentPlans, NEW high \in Above(low)
  PROVE  Covers(EvaluateFromText(t, high), EvaluateFromText(t, low))
<1>1. CASE flags.enabled
  BY <1>1, TextCovers DEF EvaluateFromText
<1>2. CASE ~flags.enabled
  BY <1>2, RefusedCovers DEF EvaluateFromText, Codes
<1> QED
  BY <1>1, <1>2

\* The demo routes: a plan decides whether, not what.
LEMMA DemoCandidates ==
  ASSUME NEW name \in DOMAIN DemoCases
  PROVE  IsFiniteSet(DOMAIN DemoCases[name].candidates)
<1>1. DemoCases[name].candidates \in Seq(ClientLegs)
  BY LightAssumption, Zenon
<1>2. PICK n \in Nat : DOMAIN DemoCases[name].candidates = 1..n
  BY <1>1
<1> QED
  BY <1>2, FS_Interval

LEMMA DemoAllowed ==
  ASSUME NEW low \in SentPlans, NEW high \in Above(low), IsDemoAllowed(low)
  PROVE  IsDemoAllowed(high)
<1>1. /\ Policy("good").demo = FALSE /\ Policy("better").demo = FALSE
      /\ Policy("best").demo = TRUE
  BY PolicyIs
<1>2. /\ ParsePlan(low) \in {"good", "better", "best"}
      /\ ParsePlan(low) = "best" => ParsePlan(high) = "best"
  BY DEF SentPlans, Plans, Above, ParsePlan
<1> QED
  BY <1>1, <1>2 DEF IsDemoAllowed

LEMMA DemoCovers ==
  ASSUME NEW name, NEW low \in SentPlans, NEW high \in Above(low)
  PROVE  Covers(RunDemo(name, high), RunDemo(name, low))
<1>1. CASE flags.enabled /\ IsDemoAllowed(low) /\ name \in DOMAIN DemoCases
  <2>1. IsDemoAllowed(high)
    BY <1>1, DemoAllowed
  <2>2. /\ RunDemo(name, low) = EvaluateBody(DemoCases[name], 5)
        /\ RunDemo(name, high) = EvaluateBody(DemoCases[name], 5)
    BY <1>1, <2>1, Zenon DEF RunDemo
  <2> QED
    BY <1>1, <2>2, DemoCandidates, BodyCoversItself
<1>2. CASE ~(flags.enabled /\ IsDemoAllowed(low) /\ name \in DOMAIN DemoCases)
  <2>1. CASE ~flags.enabled
    BY <2>1, RefusedCovers DEF RunDemo, Codes
  <2>2. CASE flags.enabled /\ ~IsDemoAllowed(low)
    BY <2>2, RefusedCovers DEF RunDemo, Codes
  <2>3. CASE flags.enabled /\ IsDemoAllowed(low) /\ name \notin DOMAIN DemoCases
    BY <2>3, RefusedCovers DEF RunDemo, Codes
  <2> QED
    BY <1>2, <2>1, <2>2, <2>3
<1> QED
  BY <1>1, <1>2

LEMMA DemoRequestCovers ==
  ASSUME NEW name, NEW low \in SentPlans, NEW high \in Above(low)
  PROVE  Covers(GetDemoRequest(name, high), GetDemoRequest(name, low))
<1>1. CASE IsDemoAllowed(low) /\ name \in DOMAIN DemoCases
  <2>1. IsDemoAllowed(high)
    BY <1>1, DemoAllowed
  <2>2. PICK n, r : n = Len(DemoCases[name].legs) /\ r = Refused(200, None)
    OBVIOUS
  <2>3. PICK q : q = [r EXCEPT !.legs = n]
    OBVIOUS
  <2>4. GetDemoRequest(name, low) = q /\ GetDemoRequest(name, high) = q
    BY <1>1, <2>1, <2>2, <2>3, Zenon DEF GetDemoRequest
  <2>5. q.suggestions = <<>>
    <3>1. PICK status, code, e, s, n0, x, a, notes :
            r = ReplyOf(status, code, e, s, n0, x, a, notes) /\ s = <<>>
      BY <2>2, RefusedIs
    <3>2. r = ReplyOf(status, code, e, s, n0, x, a, notes) /\ s = <<>>
      BY <3>1
    <3>3. q = ReplyOf(status, code, e, s, n, x, a, notes)
      BY ONLY <2>3, <3>2 DEF ReplyOf
    <3> QED
      BY <3>2, <3>3, ReplyFields
  <2>6. q.suggestions \in Seq({})
    BY <2>5
  <2> QED
    BY <2>4, <2>6, CoversItself
<1>2. CASE ~(IsDemoAllowed(low) /\ name \in DOMAIN DemoCases)
  <2>1. CASE ~IsDemoAllowed(low)
    BY <2>1, RefusedCovers DEF GetDemoRequest, Codes
  <2>2. CASE IsDemoAllowed(low) /\ name \notin DOMAIN DemoCases
    BY <2>2, RefusedCovers DEF GetDemoRequest, Codes
  <2> QED
    BY <1>2, <2>1, <2>2
<1> QED
  BY <1>1, <1>2

\* The view of a builder.
LEMMA ViewCovers ==
  ASSUME NEW post \in Views, NEW low \in Plans, NEW high \in Above(low), NEW previous, NEW impact
  PROVE  Covers(BuilderView(post, high, previous, impact), BuilderView(post, low, previous, impact))
<1>1. post.max \in Nat /\ IsFiniteSet(DOMAIN post.candidates)
  BY PostIs
<1>2. PICK full : full = EvaluateBody(post, post.max)
  OBVIOUS
<1>3. PICK e, n, s, status, x, a, notes, S :
        full = ReplyOf(status, None, e, s, n, x, a, notes) /\ s \in Seq(S)
  <2>1. full = ReplyOf(200, None, Verdict(post), First(post.max, Offer(post)), Len(post.legs),
                       {}, {}, <<>>)
    BY <1>1, <1>2, EvaluateBodyIs
  <2>2. PICK S : First(post.max, Offer(post)) \in Seq(S)
    BY <1>1, OfferIsSeq, FirstIs
  <2> QED
    BY <2>1, <2>2
<1>4. PICK alerts : alerts = Core!ComputeAlerts(previous, full.eval, impact)
  OBVIOUS
<1>5. PICK shown : shown = [i \in DOMAIN State(post).blocks |-> BlockNotes(State(post), i)]
  OBVIOUS
<1>6. PICK view : view = [full EXCEPT !.alerts = alerts, !.notes = shown]
  OBVIOUS
<1>7. view = ReplyOf(status, None, e, s, n, x, alerts, shown)
  BY ONLY <1>3, <1>6 DEF ReplyOf
<1>8. view = DeriveBuilderView(full, State(post), previous, impact)
  BY <1>4, <1>5, <1>6, Zenon DEF DeriveBuilderView
<1>9. /\ view.alerts = alerts /\ view.suggestions = s /\ view.notes = shown
  BY <1>7, ReplyFields
<1> DEFINE Alerts(plan) == IF Policy(plan).alerts THEN alerts ELSE {}
           Noted(plan) == IF Policy(plan).notes THEN shown ELSE [i \in DOMAIN shown |-> shown[i] \ Kinds]
<1>10. ASSUME NEW plan, NEW r, r = BuilderView(post, plan, previous, impact)
       PROVE  /\ r.code = None /\ r.eval = e /\ r.explain = x
              /\ r.suggestions = First(Policy(plan).suggestions, s)
              /\ r.alerts = Alerts(plan) /\ r.notes = Noted(plan)
  <2>1. PICK va, vs, vn : /\ va = IF Policy(plan).alerts THEN view.alerts ELSE {}
                          /\ vs = ApplyTierToResponse(plan, view.suggestions)
                          /\ vn = IF Policy(plan).notes THEN view.notes
                                  ELSE [i \in DOMAIN view.notes |-> view.notes[i] \ Kinds]
    OBVIOUS
  <2>2. PICK q : q = [view EXCEPT !.alerts = va, !.suggestions = vs, !.notes = vn]
    OBVIOUS
  <2>3. q = ReplyOf(status, None, e, vs, n, x, va, vn)
    BY ONLY <1>7, <2>2 DEF ReplyOf
  <2>4. q = ApplyTierToBuilderView(plan, view)
    BY <2>1, <2>2, Zenon DEF ApplyTierToBuilderView
  <2>5. q = r
    BY <1>2, <1>8, <1>10, <2>4 DEF BuilderView
  <2>6. va = Alerts(plan) /\ vn = Noted(plan) /\ vs = First(Policy(plan).suggestions, s)
    BY <1>9, <2>1 DEF ApplyTierToResponse
  <2>7. /\ q.code = None /\ q.eval = e /\ q.explain = x
        /\ q.suggestions = vs /\ q.alerts = va /\ q.notes = vn
    BY <2>3, ReplyFields
  <2> HIDE DEF Alerts, Noted
  <2> QED
    BY <2>5, <2>6, <2>7
<1>11. /\ Policy(low).suggestions \in Nat /\ Policy(high).suggestions \in Nat
       /\ Policy(low).suggestions <= Policy(high).suggestions
       /\ Policy(low).alerts => Policy(high).alerts
       /\ Policy(low).notes => Policy(high).notes
  BY PolicyGrows
<1>12. IsPrefix(First(Policy(low).suggestions, s), First(Policy(high).suggestions, s))
  BY <1>3, <1>11, FirstIsPrefix
<1>13. Alerts(low) \subseteq Alerts(high)
  BY <1>11
<1>14. \A i \in DOMAIN Noted(low) : Noted(low)[i] \subseteq Noted(high)[i]
  BY <1>11
<1> HIDE DEF Alerts, Noted
<1>15. PICK a1, a2 : /\ a1 = BuilderView(post, low, previous, impact)
                     /\ a2 = BuilderView(post, high, previous, impact)
  OBVIOUS
<1>16. /\ a1.code = None /\ a2.code = None /\ a1.eval = a2.eval /\ a1.explain = a2.explain
       /\ a1.suggestions = First(Policy(low).suggestions, s)
       /\ a2.suggestions = First(Policy(high).suggestions, s)
       /\ a1.alerts = Alerts(low) /\ a2.alerts = Alerts(high)
       /\ a1.notes = Noted(low) /\ a2.notes = Noted(high)
  BY <1>10, <1>15
<1>17. Covers(a2, a1)
  BY <1>12, <1>13, <1>14, <1>16 DEF Covers
<1> QED
  BY <1>15, <1>17

-----------------------------------------------------------------------------
(* Every answer that is no refusal is what its request is given.           *)

AnswerInv ==
  answer # None =>
    LET r == answer.to
        reply == answer.reply
    IN  \/ reply.code # None /\ reply.suggestions = <<>>
        \/ /\ r.route = "evaluate" /\ r.post \in Posts
           /\ r.plan = r.post.plan /\ reply = Evaluate(r.post)
        \/ r.route = "text" /\ r.plan \in SentPlans /\ reply = EvaluateFromText(r.text, r.plan)
        \/ r.route = "image" /\ r.plan \in {"good", "best"} /\ reply = EvaluateText(r.text, r.plan)
        \/ r.route = "demo" /\ r.plan \in SentPlans /\ reply = RunDemo(r.name, r.plan)
        \/ /\ r.route = "demo_request" /\ r.plan \in SentPlans
           /\ reply = GetDemoRequest(r.name, r.plan)
        \/ /\ r.route = "view" /\ r.post \in Views /\ r.plan \in Plans
           /\ reply = BuilderView(r.post, r.plan, r.previous, r.impact)

LEMMA AnswerStays ==
  ASSUME AnswerInv, UNCHANGED lightVars
  PROVE  AnswerInv'
<1>1. answer' = answer /\ flags' = flags
  BY DEF lightVars
<1> QED
  BY <1>1 DEF AnswerInv, Evaluate, EvaluateFromText, RunDemo, GetDemoRequest, IsDemoAllowed

LEMMA RefuseStep ==
  ASSUME NEW route, NEW status, NEW code \in PaidCodes, Refuse(route, status, code)
  PROVE  AnswerInv'
<1>1. answer'.reply = Refused(status, code)
  BY DEF Refuse
<1>2. answer'.reply.code = code /\ answer'.reply.suggestions = <<>>
  BY <1>1, RefusedIs, ReplyFields
<1>3. code # None
  BY PaidAssumption
<1> QED
  BY <1>2, <1>3 DEF AnswerInv

LEMMA EvaluateStep ==
  ASSUME NEW post \in Posts, PostEvaluate(post)
  PROVE  AnswerInv'
<1>1. PICK r : r = [route |-> "evaluate", post |-> post, plan |-> post.plan]
  OBVIOUS
<1>2. answer' = [to |-> r, reply |-> Evaluate(post)] /\ flags' = flags
  BY <1>1 DEF PostEvaluate, Reply
<1>3. Evaluate(post)' = Evaluate(post)
  BY <1>2 DEF Evaluate
<1>4. /\ answer'.to.route = "evaluate" /\ answer'.to.post = post /\ answer'.to.plan = post.plan
      /\ answer'.reply = Evaluate(post)'
  BY <1>1, <1>2, <1>3
<1> QED
  BY <1>4 DEF AnswerInv

LEMMA TextAnswerStep ==
  ASSUME NEW t, NEW plan \in SentPlans, PostText(t, plan)
  PROVE  AnswerInv'
<1>1. PICK r : r = [route |-> "text", text |-> t, plan |-> plan]
  OBVIOUS
<1>2. answer' = [to |-> r, reply |-> EvaluateFromText(t, plan)] /\ flags' = flags
  BY <1>1 DEF PostText, Reply
<1>3. EvaluateFromText(t, plan)' = EvaluateFromText(t, plan)
  BY <1>2 DEF EvaluateFromText
<1>4. /\ answer'.to.route = "text" /\ answer'.to.text = t /\ answer'.to.plan = plan
      /\ answer'.reply = EvaluateFromText(t, plan)'
  BY <1>1, <1>2, <1>3
<1> QED
  BY <1>4 DEF AnswerInv

LEMMA ImageAnswerStep ==
  ASSUME NEW t, NEW plan \in {"good", "best"},
         Reply([route |-> "image", text |-> t, plan |-> plan], EvaluateText(t, plan))
  PROVE  AnswerInv'
<1>1. PICK r : r = [route |-> "image", text |-> t, plan |-> plan]
  OBVIOUS
<1>2. answer' = [to |-> r, reply |-> EvaluateText(t, plan)]
  BY <1>1 DEF Reply
<1>3. /\ answer'.to.route = "image" /\ answer'.to.text = t /\ answer'.to.plan = plan
      /\ answer'.reply = EvaluateText(t, plan)
  BY <1>1, <1>2
<1> QED
  BY <1>3 DEF AnswerInv

LEMMA DemoAnswerStep ==
  ASSUME NEW name, NEW plan \in SentPlans, PostDemo(name, plan) \/ GetDemo(name, plan)
  PROVE  AnswerInv'
<1>1. flags' = flags
  BY DEF PostDemo, GetDemo, Reply
<1>2. CASE PostDemo(name, plan)
  <2>1. PICK r : r = [route |-> "demo", name |-> name, plan |-> plan]
    OBVIOUS
  <2>2. answer' = [to |-> r, reply |-> RunDemo(name, plan)]
    BY <1>2, <2>1 DEF PostDemo, Reply
  <2>3. RunDemo(name, plan)' = RunDemo(name, plan)
    BY <1>1 DEF RunDemo, IsDemoAllowed
  <2>4. /\ answer'.to.route = "demo" /\ answer'.to.name = name /\ answer'.to.plan = plan
        /\ answer'.reply = RunDemo(name, plan)'
    BY <2>1, <2>2, <2>3
  <2> QED
    BY <2>4 DEF AnswerInv
<1>3. CASE GetDemo(name, plan)
  <2>1. PICK r : r = [route |-> "demo_request", name |-> name, plan |-> plan]
    OBVIOUS
  <2>2. answer' = [to |-> r, reply |-> GetDemoRequest(name, plan)]
    BY <1>3, <2>1 DEF GetDemo, Reply
  <2>3. GetDemoRequest(name, plan)' = GetDemoRequest(name, plan)
    BY <1>1 DEF GetDemoRequest, IsDemoAllowed
  <2>4. /\ answer'.to.route = "demo_request" /\ answer'.to.name = name /\ answer'.to.plan = plan
        /\ answer'.reply = GetDemoRequest(name, plan)'
    BY <2>1, <2>2, <2>3
  <2> QED
    BY <2>4 DEF AnswerInv
<1> QED
  BY <1>2, <1>3

LEMMA ViewAnswerStep ==
  ASSUME NEW post \in Views, NEW plan \in Plans, NEW impact \in BOOLEAN,
         BuildView(post, plan, impact)
  PROVE  AnswerInv'
<1>1. PICK previous : previous = Previous
  OBVIOUS
<1>2. PICK r : r = [route |-> "view", post |-> post, plan |-> plan, impact |-> impact,
                    previous |-> previous]
  OBVIOUS
<1>3. answer' = [to |-> r, reply |-> BuilderView(post, plan, previous, impact)]
  BY <1>1, <1>2 DEF BuildView, Reply
<1>4. /\ answer'.to.route = "view" /\ answer'.to.post = post /\ answer'.to.plan = plan
      /\ answer'.to.previous = previous /\ answer'.to.impact = impact
      /\ answer'.reply = BuilderView(post, plan, previous, impact)
  BY <1>2, <1>3
<1> QED
  BY <1>4 DEF AnswerInv

LEMMA LightStep ==
  ASSUME LightNext
  PROVE  AnswerInv'
BY EvaluateStep, TextAnswerStep, DemoAnswerStep, ViewAnswerStep DEF LightNext

LEMMA SpeechAnswerStep ==
  ASSUME AnswerInv, NEW s, NEW key, NEW route, GenerateSpeech(s, key, route)
  PROVE  AnswerInv'
BY AnswerStays, RefuseStep DEF GenerateSpeech, PaidCodes

LEMMA WaitingAnswerStep ==
  ASSUME AnswerInv, PaidTypes, NEW s \in Slots,
         \/ \E outcome \in {"ok", "http_error", "exception"} : Spoken(s, outcome)
         \/ ImageRead(s)
         \/ \E outcome \in {"text", "no_slip", "other_json", "no_json", "http_error",
                            "exception"} : Seen(s, outcome)
  PROVE  AnswerInv'
<1>1. ASSUME NEW outcome \in {"ok", "http_error", "exception"}, Spoken(s, outcome)
      PROVE  AnswerInv'
  <2>1. PICK route : \/ Refuse(route, 200, "AUDIO") \/ Refuse(route, 502, "TTS_API_ERROR")
                     \/ Refuse(route, 500, "INTERNAL_ERROR")
    BY <1>1 DEF Spoken
  <2>2. {"AUDIO", "TTS_API_ERROR", "INTERNAL_ERROR"} \subseteq PaidCodes
    BY DEF PaidCodes
  <2> QED
    BY <2>1, <2>2, RefuseStep
<1>2. ASSUME ImageRead(s)
      PROVE  AnswerInv'
  <2>1. \/ UNCHANGED lightVars
        \/ Refuse("image", 413, "FILE_TOO_LARGE")
        \/ Refuse("image", 503, "IMAGE_PARSE_NOT_CONFIGURED")
    BY <1>2 DEF ImageRead
  <2> QED
    BY <2>1, AnswerStays, RefuseStep DEF PaidCodes
<1>3. ASSUME NEW outcome \in {"text", "no_slip", "other_json", "no_json", "http_error",
                              "exception"},
             Seen(s, outcome)
      PROVE  AnswerInv'
  <2>1. PICK r : r = requests[s]
    OBVIOUS
  <2>2. r.pc = "seeing" /\ r \in Jobs
    BY <1>3, <2>1 DEF Seen, PaidTypes
  <2>3. r.plan \in {"good", "best"}
    BY <2>2, JobShapes
  <2>4. CASE outcome = "text"
    <3>1. PICK t : Reply([route |-> "image", text |-> t, plan |-> r.plan],
                         EvaluateText(t, r.plan))
      BY <1>3, <2>1, <2>4 DEF Seen
    <3> QED
      BY <2>3, <3>1, ImageAnswerStep
  <2>5. CASE outcome # "text"
    <3>1. PICK status, code : Refuse("image", status, code) /\ code \in PaidCodes
      BY <1>3, <2>5 DEF Seen, PaidCodes
    <3> QED
      BY <3>1, RefuseStep
  <2> QED
    BY <2>4, <2>5
<1> QED
  BY <1>1, <1>2, <1>3

LEMMA ArrivalAnswerStep ==
  ASSUME AnswerInv, NEW s \in Slots, NEW plan \in {"good", "best"},
         \/ \E case \in DOMAIN Narrations \cup {"unknown"} : GetDemoNarration(s, case, plan)
         \/ TextToSpeech(s, plan)
         \/ \E c \in Clients, upload \in Uploads : EvaluateFromImage(s, c, upload, plan)
  PROVE  AnswerInv'
<1>1. ASSUME NEW case, GetDemoNarration(s, case, plan)
      PROVE  AnswerInv'
  <2>1. \/ \E key : GenerateSpeech(s, key, "narration")
        \/ Refuse("narration", 403, "VOICE_ACCESS_DENIED")
        \/ Refuse("narration", 404, "NOT_FOUND") \/ Refuse("narration", 200, "AUDIO")
    BY <1>1 DEF GetDemoNarration
  <2>2. {"VOICE_ACCESS_DENIED", "NOT_FOUND", "AUDIO"} \subseteq PaidCodes
    BY DEF PaidCodes
  <2> QED
    BY <2>1, <2>2, SpeechAnswerStep, RefuseStep
<1>2. ASSUME TextToSpeech(s, plan)
      PROVE  AnswerInv'
  BY <1>2, SpeechAnswerStep, RefuseStep DEF TextToSpeech, PaidCodes
<1>3. ASSUME NEW c, NEW upload, EvaluateFromImage(s, c, upload, plan)
      PROVE  AnswerInv'
  <2>1. \/ UNCHANGED lightVars
        \/ Refuse("image", 503, "FEATURE_DISABLED")
        \/ Refuse("image", 429, "RATE_LIMITED")
        \/ Refuse("image", 400, "INVALID_FILE_TYPE")
    BY <1>3 DEF EvaluateFromImage
  <2> QED
    BY <2>1, AnswerStays, RefuseStep DEF PaidCodes
<1> QED
  BY <1>1, <1>2, <1>3

LEMMA AnswerInvStep ==
  PaidTypes /\ AnswerInv /\ [PaidNext]_<<paidVars, lightVars>> => AnswerInv'
<1> SUFFICES ASSUME PaidTypes, AnswerInv, [PaidNext]_<<paidVars, lightVars>>
             PROVE  AnswerInv'
  OBVIOUS
<1>1. CASE UNCHANGED <<paidVars, lightVars>>
  BY <1>1, AnswerStays
<1>2. CASE LightNext
  BY <1>2, LightStep
<1>3. CASE Tick
  BY <1>3, AnswerStays DEF Tick
<1>4. CASE PaidNext
  BY <1>2, <1>3, <1>4, ArrivalAnswerStep, WaitingAnswerStep DEF PaidNext
<1> QED
  BY <1>1, <1>4

\* Whatever is answered is answered on every higher plan too, with the same
\* evaluation and no less of anything else (the plan tables of app/tiering.py and
\* the routes of app/routers/leading_light.py that consult them).
THEOREM UpgradeAlwaysGives == PaidSpec => []UpgradeNeverLoses
<1>1. PaidInit => AnswerInv
  BY DEF PaidInit, LightInit, AnswerInv
<1>2. PaidInv => PaidTypes
  BY DEF PaidInv
<1>3. AnswerInv => UpgradeNeverLoses
  <2> SUFFICES ASSUME AnswerInv, answer # None, NEW plan \in Above(answer.to.plan)
               PROVE  Covers(OnPlan(answer.to, plan), answer.reply)
    BY DEF UpgradeNeverLoses
  <2>1. PICK r, reply : r = answer.to /\ reply = answer.reply /\ plan \in Above(r.plan)
    OBVIOUS
  <2>2. CASE reply.code # None
    BY <2>1, <2>2 DEF Covers
  <2>3. ASSUME r.route = "evaluate", r.post \in Posts, r.plan = r.post.plan,
               reply = Evaluate(r.post)
        PROVE  Covers(OnPlan(r, plan), reply)
    BY <2>1, <2>3, EvaluateCovers DEF OnPlan
  <2>4. ASSUME r.route = "text", r.plan \in SentPlans, reply = EvaluateFromText(r.text, r.plan)
        PROVE  Covers(OnPlan(r, plan), reply)
    BY <2>1, <2>4, FromTextCovers DEF OnPlan
  <2>5. ASSUME r.route = "image", r.plan \in {"good", "best"}, reply = EvaluateText(r.text, r.plan)
        PROVE  Covers(OnPlan(r, plan), reply)
    <3>1. r.plan \in SentPlans
      BY <2>5 DEF SentPlans, Plans
    <3> QED
      BY <2>1, <2>5, <3>1, TextCovers DEF OnPlan
  <2>6. ASSUME r.route = "demo", r.plan \in SentPlans, reply = RunDemo(r.name, r.plan)
        PROVE  Covers(OnPlan(r, plan), reply)
    BY <2>1, <2>6, DemoCovers DEF OnPlan
  <2>7. ASSUME r.route = "demo_request", r.plan \in SentPlans,
               reply = GetDemoRequest(r.name, r.plan)
        PROVE  Covers(OnPlan(r, plan), reply)
    BY <2>1, <2>7, DemoRequestCovers DEF OnPlan
  <2>8. ASSUME r.route = "view", r.post \in Views, r.plan \in Plans,
               reply = BuilderView(r.post, r.plan, r.previous, r.impact)
        PROVE  Covers(OnPlan(r, plan), reply)
    BY <2>1, <2>8, ViewCovers DEF OnPlan
  <2> QED
    BY <2>1, <2>2, <2>3, <2>4, <2>5, <2>6, <2>7, <2>8 DEF AnswerInv
<1> QED
  BY <1>1, <1>2, <1>3, AnswerInvStep, PaidInvariant, PTL DEF PaidSpec

-----------------------------------------------------------------------------
(* Suggestions.  The engine LeadingLight.tla calls Core is the one          *)
(* Parlay_proofs.tla proves about, there with every leg a client can name   *)
(* as the catalogue; what is proved of it is read off as Engine.            *)

Engine == INSTANCE Parlay_proofs WITH
  LegIds <- AllLegs, Catalogue <- [leg \in AllLegs |-> leg],
  Batches <- {}, Requests <- {}, MaxBatches <- 0, MaxEdits <- 0,
  parlay <- None, batches <- 0, edits <- 0, response <- None, alerts <- {}

LEMMA SumsSame == \A f, S : Core!SumFunctionOnSet(f, S) = Engine!SumFunctionOnSet(f, S)
BY DEF Core!SumFunctionOnSet, Engine!SumFunctionOnSet, Core!FoldFunctionOnSet, Engine!FoldFunctionOnSet,
       Core!MapThenFoldSet, Engine!MapThenFoldSet
LEMMA SumSame == \A f : Core!SumFunction(f) = Engine!SumFunction(f)
BY SumsSame DEF Core!SumFunction, Engine!SumFunction
LEMMA PenaltySame == \A a, b : Core!PairPenalty(a, b) = Engine!PairPenalty(a, b)
BY DEF Core!PairPenalty, Engine!PairPenalty, Core!SamePlayerMultiProps, Engine!SamePlayerMultiProps,
  Core!VolumeDependency, Engine!VolumeDependency, Core!TdDependency, Engine!TdDependency,
  Core!ScriptDependency, Engine!ScriptDependency, Core!PaceDependency, Engine!PaceDependency,
  Core!Tagged, Engine!Tagged, Core!HasTag, Engine!HasTag, Core!ScriptTypes, Engine!ScriptTypes,
  Core!TotalTypes, Engine!TotalTypes, Core!Receiving, Engine!Receiving, Core!Volume, Engine!Volume
LEMMA CorrelationSame == \A b : Core!CorrelationPenalty(b) = Engine!CorrelationPenalty(b)
<1> TAKE b
<1> DEFINE f == [p \in Core!Pairs(Len(b)) |-> Core!PairPenalty(Core!Leg(b[p[1]]), Core!Leg(b[p[2]]))]
           g == [p \in Engine!Pairs(Len(b)) |-> Engine!PairPenalty(Engine!Leg(b[p[1]]), Engine!Leg(b[p[2]]))]
<1>1. \A n : Core!Pairs(n) = Engine!Pairs(n)
  BY DEF Core!Pairs, Engine!Pairs
<1>2. \A x : Core!Leg(x) = Engine!Leg(x)
  BY DEF Core!Leg, Engine!Leg
<1>3. f = g
  BY <1>1, <1>2, PenaltySame
<1>4. Core!CorrelationPenalty(b) = Core!SumFunction(f) /\ Engine!CorrelationPenalty(b) = Engine!SumFunction(g)
  BY DEF Core!CorrelationPenalty, Engine!CorrelationPenalty
<1> QED BY <1>3, <1>4, SumSame
LEMMA MultiplierSame == \A p : Core!CorrelationMultiplier(p) = Engine!CorrelationMultiplier(p)
BY DEF Core!CorrelationMultiplier, Engine!CorrelationMultiplier
LEMMA EffectiveSame == \A b : Core!EffectiveFragility(b) = Engine!EffectiveFragility(b)
BY SumSame DEF Core!EffectiveFragility, Engine!EffectiveFragility, Core!Leg, Engine!Leg, Core!Kinds, Engine!Kinds
LEMMA FinalSame == \A x, y : Core!FinalFragility(x, y) = Engine!FinalFragility(x, y)
BY DEF Core!FinalFragility, Engine!FinalFragility, Core!Point, Engine!Point
LEMMA MetricsSame == \A b : Core!ParlayMetrics(b) = Engine!ParlayMetrics(b)
BY CorrelationSame, MultiplierSame, EffectiveSame, FinalSame, SumSame DEF Core!ParlayMetrics, Engine!ParlayMetrics
LEMMA ApplySame == \A s, b : Core!ApplyToBlock(s, b) = Engine!ApplyToBlock(s, b)
<1>1. \A s : Core!SignalDelta(s) = Engine!SignalDelta(s)
  BY DEF Core!SignalDelta, Engine!SignalDelta, Core!WeatherDelta, Engine!WeatherDelta, Core!InjuryDelta, Engine!InjuryDelta
<1>2. \A s, a : Core!Matches(s, a) = Engine!Matches(s, a)
  BY DEF Core!Matches, Engine!Matches, Core!WeatherAffected, Engine!WeatherAffected, Core!HasTag, Engine!HasTag
<1>3. \A s, a : Core!Matching(s, a) = Engine!Matching(s, a)
  BY <1>1, <1>2 DEF Core!Matching, Engine!Matching
<1>4. \A s : Core!RoleShare(s) = Engine!RoleShare(s)
  BY DEF Core!RoleShare, Engine!RoleShare
<1>5. \A d : Core!Capped(d) = Engine!Capped(d)
  BY DEF Core!Capped, Engine!Capped
<1>6. \A s, a, k : Core!Total(s, a, k) = Engine!Total(s, a, k)
  BY <1>1, <1>3, <1>4, <1>5, SumSame DEF Core!Total, Engine!Total
<1>7. \A o, k, d : Core!Merge(o, k, d) = Engine!Merge(o, k, d)
  BY <1>5 DEF Core!Merge, Engine!Merge
<1> QED
  BY <1>3, <1>6, <1>7 DEF Core!ApplyToBlock, Engine!ApplyToBlock, Core!Leg, Engine!Leg, Core!Kinds, Engine!Kinds

LEMMA Fits == Engine!ParlayAssumption /\ Engine!CatalogueAssumption /\ Engine!RequestAssumption
<1>1. Engine!ParlayAssumption
  BY LightAssumption DEF Engine!ParlayAssumption
<1>2. Engine!RequestAssumption
  BY DEF Engine!RequestAssumption
<1>3. ASSUME NEW leg \in AllLegs
      PROVE  leg.base \in Nat /\ leg.mods \in Engine!Modifiers
  <2>1. CASE leg \in ClientLegs
    BY <2>1, LightAssumption DEF Engine!Modifiers, Engine!Kinds, Kinds
  <2>2. CASE leg \notin ClientLegs
    <3>1. PICK type \in {"player_prop", "total", "spread", "ml"}, i \in 1..5 : leg = TextLeg(type, i)
      BY <2>2 DEF AllLegs
    <3>2. leg.base \in Nat
      BY <3>1 DEF TextLeg
    <3>3. leg.mods = [kind \in Kinds |-> [applied |-> FALSE, delta |-> 0]]
      BY <3>1 DEF TextLeg
    <3> QED BY <3>2, <3>3 DEF Engine!Modifiers, Engine!Kinds, Kinds
  <2> QED BY <2>1, <2>2
<1>4. Engine!CatalogueAssumption
  BY <1>3 DEF Engine!CatalogueAssumption
<1> QED BY <1>1, <1>2, <1>4

-----------------------------------------------------------------------------
(* The legs of a request as blocks, and a leg more.                         *)

Sent(leg) == [id |-> leg, mods |-> leg.mods]
SentBlocks(legs) == [i \in DOMAIN legs |-> Sent(legs[i])]
Applied(legs, signals) == Core!AdaptAndApplySignals(SentBlocks(legs), signals)

LEMMA SentIsBlock == \A leg \in AllLegs : Sent(leg) \in Engine!Block
<1> TAKE leg \in AllLegs
<1>1. leg.mods \in Engine!Modifiers
  BY Fits DEF Engine!CatalogueAssumption
<1> QED
  BY <1>1 DEF Sent, Engine!Block

LEMMA AppliedIs ==
  ASSUME NEW legs \in Seq(AllLegs), NEW signals, Len(signals) \in Nat
  PROVE  /\ Applied(legs, signals) \in Seq(Engine!Block)
         /\ Len(Applied(legs, signals)) = Len(legs)
         /\ \A i \in 1..Len(legs) :
              Applied(legs, signals)[i] = Engine!ApplyToBlock(signals, Sent(legs[i]))
<1> DEFINE n == Len(legs)
           p == Applied(legs, signals)
<1>1. n \in Nat /\ DOMAIN legs = 1..n /\ \A i \in 1..n : legs[i] \in AllLegs
  OBVIOUS
<1>2. Len(SentBlocks(legs)) = n /\ \A i \in 1..n : SentBlocks(legs)[i] = Sent(legs[i])
  BY <1>1 DEF SentBlocks
<1>3. p = [i \in 1..n |-> Engine!ApplyToBlock(signals, Sent(legs[i]))]
  BY <1>2, ApplySame DEF Core!AdaptAndApplySignals, Applied
<1>4. \A i \in 1..n : Engine!ApplyToBlock(signals, Sent(legs[i])) \in Engine!Block
  BY <1>1, SentIsBlock, Fits, Engine!ApplyGrows
<1> HIDE DEF p, n
<1>5. p \in Seq(Engine!Block) /\ Len(p) = n
      /\ \A i \in 1..n : p[i] = Engine!ApplyToBlock(signals, Sent(legs[i]))
  BY <1>1, <1>3, <1>4
<1> QED
  BY <1>5 DEF p, n

\* A leg more is a block more, with the signals applied to it.
LEMMA AppliedAppend ==
  ASSUME NEW legs \in Seq(AllLegs), NEW leg \in AllLegs, NEW signals, Len(signals) \in Nat
  PROVE  Applied(Append(legs, leg), signals)
           = Append(Applied(legs, signals), Engine!ApplyToBlock(signals, Sent(leg)))
<1> DEFINE p == Applied(legs, signals)
           more == Append(legs, leg)
           q == Applied(more, signals)
           b == Engine!ApplyToBlock(signals, Sent(leg))
<1>1. more \in Seq(AllLegs) /\ Len(more) = Len(legs) + 1 /\ Len(legs) \in Nat
      /\ (\A i \in 1..Len(legs) : more[i] = legs[i]) /\ more[Len(legs) + 1] = leg
  OBVIOUS
<1>2. p \in Seq(Engine!Block) /\ Len(p) = Len(legs)
      /\ \A i \in 1..Len(legs) : p[i] = Engine!ApplyToBlock(signals, Sent(legs[i]))
  BY AppliedIs
<1> HIDE DEF more, p
<1>3. q \in Seq(Engine!Block) /\ Len(q) = Len(legs) + 1
      /\ \A i \in 1..Len(legs) + 1 : q[i] = Engine!ApplyToBlock(signals, Sent(more[i]))
  BY <1>1, AppliedIs
<1>4. b \in Engine!Block
  BY SentIsBlock, Fits, Engine!ApplyGrows
<1> HIDE DEF q, b
<1>5. \A i \in 1..Len(legs) + 1 : q[i] = Append(p, b)[i]
  <2> TAKE i \in 1..Len(legs) + 1
  <2>1. CASE i = Len(legs) + 1
    BY <1>1, <1>2, <1>3, <1>4, <2>1 DEF b
  <2>2. CASE i # Len(legs) + 1
    <3>1. i \in 1..Len(legs)
      BY <1>1, <2>2
    <3> QED
      BY <1>1, <1>2, <1>3, <1>4, <3>1
  <2> QED
    BY <2>1, <2>2
<1>6. q = Append(p, b)
  BY <1>1, <1>2, <1>3, <1>4, <1>5
<1> QED
  BY <1>6 DEF q, p, b, more

\* Without signals the legs are as sent.
LEMMA NothingApplied == \A b : Engine!ApplyToBlock(<<>>, b) = b
<1> TAKE b
<1>1. Engine!Matching(<<>>, Engine!Leg(b)) = {}
  BY DEF Engine!Matching
<1> QED
  BY <1>1 DEF Engine!ApplyToBlock

\* What a candidate is announced to add, and what it adds once it is a leg.
LEMMA LegAddsItsWorth ==
  ASSUME NEW legs \in Seq(AllLegs), Len(legs) < MaxLegs, NEW leg \in AllLegs,
         NEW signals, Len(signals) \in Nat,
         NEW p, p = Applied(legs, signals), NEW q, q = Applied(Append(legs, leg), signals)
  PROVE  /\ Core!ParlayMetrics(p).final \in Int
         /\ Core!ParlayMetrics(p).penalty \in Int
         /\ Core!ParlayMetrics(Append(p, Sent(leg))).final \in Int
         /\ Core!ParlayMetrics(Append(p, Sent(leg))).penalty \in Int
         /\ leg.mods["role"].delta <= 10
              => Core!ParlayMetrics(Append(p, Sent(leg))).final <= Core!ParlayMetrics(q).final
         /\ Core!ParlayMetrics(q).final \in Int
         /\ signals = <<>> => q = Append(p, Sent(leg))
<1> DEFINE b == Sent(leg)
           c == Engine!ApplyToBlock(signals, b)
           r == Append(p, b)
<1>1. p \in Seq(Engine!Block) /\ Len(p) = Len(legs) /\ Len(legs) \in Nat /\ MaxLegs \in Nat
  BY AppliedIs, LightAssumption
<1>2. /\ b \in Engine!Block /\ c \in Engine!Block /\ c.id = b.id
      /\ leg.mods["role"].delta <= 10
           => Engine!EffectiveFragility(b) <= Engine!EffectiveFragility(c)
  <2>1. b \in Engine!Block /\ b.mods = leg.mods
    BY SentIsBlock DEF Sent
  <2> HIDE DEF b
  <2> QED
    BY <2>1, Fits, Engine!ApplyGrows
<1>3. q = Append(p, c)
  BY AppliedAppend
<1>4. \A x \in Engine!Block : Engine!EffectiveFragility(x) \in Nat
  BY Fits, Engine!EffectiveNat
<1>5. signals = <<>> => c = b
  BY NothingApplied
<1> HIDE DEF b, c
<1>6. /\ r \in Seq(Engine!Block) /\ q \in Seq(Engine!Block)
      /\ Len(r) = Len(p) + 1 /\ Len(q) = Len(p) + 1 /\ Len(q) <= MaxLegs
  BY <1>1, <1>2, <1>3
<1>7. \A i \in 1..Len(p) : r[i] = p[i] /\ q[i] = p[i] /\ p[i] \in Engine!Block
  BY <1>1, <1>2, <1>3
<1>8. r[Len(p) + 1] = b /\ q[Len(p) + 1] = c
  BY <1>1, <1>2, <1>3
<1>9. ASSUME leg.mods["role"].delta <= 10
      PROVE  Engine!Embeds(r, q)
  <2>1. ASSUME NEW i \in 1..Len(r)
        PROVE  r[i].id = q[i].id /\ Engine!EffectiveFragility(r[i]) <= Engine!EffectiveFragility(q[i])
    <3>1. CASE i = Len(p) + 1
      BY <1>2, <1>8, <1>9, <3>1
    <3>2. CASE i # Len(p) + 1
      <4>1. i \in 1..Len(p)
        BY <1>1, <1>6, <3>2
      <4>2. r[i] = p[i] /\ q[i] = p[i] /\ Engine!EffectiveFragility(p[i]) \in Nat
        BY <1>4, <1>7, <4>1
      <4> QED
        BY <4>2
    <3> QED
      BY <3>1, <3>2
  <2> QED
    BY <1>1, <1>6, <2>1 DEF Engine!Embeds
<1>10. Engine!Embeds(p, r)
  <2>1. ASSUME NEW i \in 1..Len(p)
        PROVE  p[i].id = r[i].id /\ Engine!EffectiveFragility(p[i]) <= Engine!EffectiveFragility(r[i])
    <3>1. r[i] = p[i] /\ Engine!EffectiveFragility(p[i]) \in Nat
      BY <1>4, <1>7
    <3> QED
      BY <3>1
  <2> QED
    BY <1>1, <1>6, <2>1 DEF Engine!Embeds
<1>14. Engine!Embeds(q, q)
  <2>1. \A i \in 1..Len(q) : Engine!EffectiveFragility(q[i]) \in Nat
    BY <1>4, <1>6
  <2> QED
    BY <1>1, <1>6, <2>1 DEF Engine!Embeds
<1> HIDE DEF r
<1>11. /\ Engine!ParlayMetrics(r) \in Engine!Metrics /\ Engine!ParlayMetrics(q) \in Engine!Metrics
       /\ leg.mods["role"].delta <= 10
            => Engine!ParlayMetrics(r).final <= Engine!ParlayMetrics(q).final
  <2>1. Engine!ParlayMetrics(q) \in Engine!Metrics
    BY <1>6, <1>14, Fits, Engine!MetricsMonotone
  <2>2. Engine!ParlayMetrics(r) \in Engine!Metrics
    <3>1. Len(p) <= MaxLegs /\ Len(r) <= MaxLegs
      BY <1>1, <1>6
    <3> QED
      BY <1>1, <1>6, <1>10, <3>1, Fits, Engine!MetricsMonotone
  <2>3. ASSUME leg.mods["role"].delta <= 10
        PROVE  Engine!ParlayMetrics(r).final <= Engine!ParlayMetrics(q).final
    BY <1>6, <1>9, <2>3, Fits, Engine!MetricsMonotone
  <2> QED
    BY <2>1, <2>2, <2>3
<1>12. Engine!ParlayMetrics(p) \in Engine!Metrics
  BY <1>1, <1>6, <1>10, Fits, Engine!MetricsMonotone
<1>13. ASSUME NEW m \in Engine!Metrics
       PROVE  m.final \in Int /\ m.penalty \in Int
  <2>1. m.final \in 0..100 * Engine!Point /\ m.penalty \in Nat
    BY DEF Engine!Metrics
  <2>2. 100 * Engine!Point = 200000
    BY DEF Engine!Point
  <2> QED
    BY <2>1, <2>2
<1> QED
  <2>1. \A x : Core!ParlayMetrics(x) = Engine!ParlayMetrics(x)
    BY MetricsSame
  <2>2. signals = <<>> => q = r
    BY <1>3, <1>5 DEF r
  <2> QED
    BY <1>11, <1>12, <1>13, <2>1, <2>2 DEF r, b

-----------------------------------------------------------------------------
(* The ranking: a strict total order puts every candidate in its place.     *)

Valued(c) == c.delta \in Int /\ c.correlation \in Int /\ c.compatible \in BOOLEAN

\* The key of the ranking orders the candidates strictly and totally.
LEMMA BeforeOrders ==
  ASSUME NEW cands, NEW i \in Int, NEW j \in Int, NEW k \in Int,
         Valued(cands[i]), Valued(cands[j]), Valued(cands[k])
  PROVE  /\ ~Before(cands, i, i)
         /\ i # j => Before(cands, i, j) \/ Before(cands, j, i)
         /\ Before(cands, i, j) /\ Before(cands, j, k) => Before(cands, i, k)
<1> DEFINE x == cands[i].compatible
           y == cands[j].compatible
           z == cands[k].compatible
<1>1. x \in BOOLEAN /\ y \in BOOLEAN /\ z \in BOOLEAN
  BY DEF Valued
<1>2. /\ cands[i].delta \in Int /\ cands[j].delta \in Int /\ cands[k].delta \in Int
      /\ cands[i].correlation \in Int /\ cands[j].correlation \in Int
      /\ cands[k].correlation \in Int
  BY DEF Valued
<1>3. ~Before(cands, i, i)
  BY <1>1, <1>2 DEF Before
<1>4. i # j => Before(cands, i, j) \/ Before(cands, j, i)
  BY <1>1, <1>2 DEF Before
<1>5. Before(cands, i, j) /\ Before(cands, j, k) => Before(cands, i, k)
  BY <1>1, <1>2 DEF Before
<1> QED
  BY <1>3, <1>4, <1>5

\* The candidates of S ahead of one of them.
Leaders(cands, S, i) == {j \in S : Before(cands, j, i)}

LEMMA LeadersGrow ==
  ASSUME NEW cands, NEW S \in SUBSET Int, IsFiniteSet(S), \A i \in S : Valued(cands[i]),
         NEW i \in S, NEW j \in S, Before(cands, i, j)
  PROVE  Cardinality(Leaders(cands, S, i)) < Cardinality(Leaders(cands, S, j))
<1> DEFINE I == Leaders(cands, S, i)
           J == Leaders(cands, S, j)
<1>1. I \in SUBSET J /\ i \in J /\ i \notin I
  BY BeforeOrders DEF Leaders
<1>2. IsFiniteSet(J)
  BY FS_Subset DEF Leaders
<1> HIDE DEF I, J
<1>3. IsFiniteSet(I) /\ Cardinality(I) <= Cardinality(J) /\ Cardinality(I) # Cardinality(J)
  BY <1>1, <1>2, FS_Subset
<1>4. Cardinality(I) \in Nat /\ Cardinality(J) \in Nat
  BY <1>2, <1>3, FS_CardinalityType
<1> QED
  BY <1>3, <1>4 DEF I, J

\* Every place is taken by exactly one candidate.
LEMMA EveryPlaceTaken ==
  ASSUME NEW cands, NEW S \in SUBSET Int, IsFiniteSet(S), \A i \in S : Valued(cands[i])
  PROVE  /\ \A i \in S : Cardinality(Leaders(cands, S, i)) \in 0..Cardinality(S) - 1
         /\ \A i, j \in S : Cardinality(Leaders(cands, S, i)) = Cardinality(Leaders(cands, S, j))
                              => i = j
         /\ \A n \in 1..Cardinality(S) :
              \E i \in S : Cardinality(Leaders(cands, S, i)) = n - 1
<1>1. PICK c \in Nat : c = Cardinality(S)
  BY FS_CardinalityType
<1> DEFINE T == 0..c - 1
           f == [i \in S |-> Cardinality(Leaders(cands, S, i))]
<1>2. ASSUME NEW i \in S
      PROVE  Cardinality(Leaders(cands, S, i)) \in T
  <2>1. Leaders(cands, S, i) \in SUBSET (S \ {i})
    BY BeforeOrders DEF Leaders
  <2>2. IsFiniteSet(S \ {i}) /\ Cardinality(S \ {i}) = c - 1
    BY <1>1, FS_RemoveElement
  <2>3. IsFiniteSet(Leaders(cands, S, i)) /\ Cardinality(Leaders(cands, S, i)) <= c - 1
    BY <2>1, <2>2, FS_Subset
  <2>4. Cardinality(Leaders(cands, S, i)) \in Nat
    BY <2>3, FS_CardinalityType
  <2> QED
    BY <1>1, <2>3, <2>4
<1>3. ASSUME NEW i \in S, NEW j \in S,
             Cardinality(Leaders(cands, S, i)) = Cardinality(Leaders(cands, S, j))
      PROVE  i = j
  <2>1. Cardinality(Leaders(cands, S, i)) \in Int
    BY <1>1, <1>2
  <2>2. ~Before(cands, i, j) /\ ~Before(cands, j, i)
    BY <1>3, <2>1, LeadersGrow
  <2> QED
    BY <2>2, BeforeOrders
<1>4. IsFiniteSet(T) /\ Cardinality(T) = c
  <2>1. PICK d \in Int : d = c - 1
    BY <1>1
  <2>2. IsFiniteSet(0..d) /\ Cardinality(0..d) = IF 0 > d THEN 0 ELSE d - 0 + 1
    BY FS_Interval
  <2> HIDE DEF f
  <2> QED
    BY <1>1, <2>1, <2>2
<1>5. f \in Injection(S, T)
  BY <1>2, <1>3 DEF Injection, IsInjective
<1> HIDE DEF T, f
<1>6. f \in Surjection(S, T)
  BY <1>1, <1>4, <1>5, FS_Injection
<1>7. \A t \in T : \E i \in S : f[i] = t
  BY <1>6 DEF Surjection
<1>8. \A n \in 1..c : n - 1 \in T
  BY <1>1 DEF T
<1> QED
  BY <1>1, <1>2, <1>3, <1>7, <1>8 DEF T, f

\* A place of the ranking is held by a candidate that adds fragility, and those
\* that add less have the places before.
LEMMA RankingIs ==
  ASSUME NEW cands, IsFiniteSet(DOMAIN cands), DOMAIN cands \subseteq Int,
         \A i \in DOMAIN cands : Valued(cands[i]),
         NEW n \in DOMAIN RankCandidates(cands)
  PROVE  /\ n \in Nat /\ 1..n \subseteq DOMAIN RankCandidates(cands)
         /\ \E j \in DOMAIN cands :
              /\ RankCandidates(cands)[n] = cands[j] /\ cands[j].delta > 0
              /\ \A i \in DOMAIN cands :
                   0 < cands[i].delta /\ cands[i].delta < cands[j].delta
                     => \E m \in 1..n : RankCandidates(cands)[m] = cands[i]
<1> DEFINE S == {i \in DOMAIN cands : cands[i].delta > 0}
           c == Cardinality(S)
           R == RankCandidates(cands)
           Place(i) == Cardinality(Leaders(cands, S, i))
           At(m) == CHOOSE i \in S : Place(i) = m - 1
<1>1. S \in SUBSET Int /\ IsFiniteSet(S) /\ S \subseteq DOMAIN cands
  BY FS_Subset
<1>2. c \in Nat
  BY <1>1, FS_CardinalityType
<1>3. R = [m \in 1..c |-> cands[At(m)]]
  BY DEF RankCandidates, Leaders
<1>4. \A i \in S : Valued(cands[i]) /\ cands[i].delta > 0
  OBVIOUS
<1>5. \A i \in DOMAIN cands : cands[i].delta > 0 => i \in S
  OBVIOUS
<1>6. \A i \in DOMAIN cands : cands[i].delta \in Int
  BY DEF Valued
<1> HIDE DEF S
<1>7. /\ \A i \in S : Place(i) \in 0..c - 1
      /\ \A i, j \in S : Place(i) = Place(j) => i = j
      /\ \A m \in 1..c : \E i \in S : Place(i) = m - 1
  BY <1>1, <1>4, EveryPlaceTaken
<1>8. \A m \in 1..c : At(m) \in S /\ Place(At(m)) = m - 1
  BY <1>7
<1>9. \A i \in S : Place(i) + 1 \in 1..c /\ At(Place(i) + 1) = i
  <2> TAKE i \in S
  <2>1. Place(i) \in 0..c - 1
    BY <1>7
  <2>2. PICK m \in 1..c : m = Place(i) + 1
    BY <1>2, <2>1
  <2>3. At(m) \in S /\ Place(At(m)) = m - 1
    BY <1>8
  <2>4. Place(At(m)) = Place(i)
    BY <1>2, <2>1, <2>2, <2>3
  <2>5. At(m) = i
    BY <1>7, <2>3, <2>4
  <2> QED
    BY <2>2, <2>5
<1>10. DOMAIN R = 1..c /\ \A m \in 1..c : R[m] = cands[At(m)]
  BY <1>3
<1>11. n \in 1..c
  BY <1>10
<1>12. PICK j \in S : j = At(n) /\ Place(j) = n - 1
  BY <1>8, <1>11
<1>13. ASSUME NEW i \in DOMAIN cands, 0 < cands[i].delta, cands[i].delta < cands[j].delta
       PROVE  \E m \in 1..n : R[m] = cands[i]
  <2>1. i \in S /\ i \in Int /\ j \in Int
    BY <1>1, <1>5, <1>6, <1>13
  <2>2. Before(cands, i, j)
    BY <1>13 DEF Before
  <2>3. Place(i) < Place(j)
    BY <1>1, <1>4, <2>1, <2>2, LeadersGrow
  <2>4. PICK m \in 1..c : m = Place(i) + 1 /\ At(m) = i
    BY <1>9, <2>1
  <2>5. Place(i) \in 0..c - 1 /\ Place(j) \in 0..c - 1
    BY <1>7, <2>1
  <2>6. m \in 1..n
    BY <1>2, <1>11, <1>12, <2>3, <2>4, <2>5
  <2>7. R[m] = cands[i]
    BY <1>10, <2>4
  <2> QED
    BY <2>6, <2>7
<1>14. R[n] = cands[j] /\ cands[j].delta > 0 /\ j \in DOMAIN cands
  BY <1>1, <1>4, <1>10, <1>11, <1>12
<1>15. n \in Nat /\ 1..n \subseteq DOMAIN R
  BY <1>2, <1>10, <1>11
<1> HIDE DEF R
<1> QED
  BY <1>13, <1>14, <1>15 DEF R

-----------------------------------------------------------------------------
(* What is announced and what is found once the candidate is a leg.         *)

\* A leg that fits a profile brings no violation but, possibly, of the tolerance.
LEMMA CompatibleAddsNothing ==
  ASSUME NEW B, NEW old, NEW new, old.blocks \in Seq(B), new.blocks \in Seq(B),
         Len(new.blocks) = Len(old.blocks) + 1,
         \A i \in 1..Len(old.blocks) : new.blocks[i] = old.blocks[i],
         NEW profile, profile.max_legs \in Int,
         Core!DnaCompatible(Core!Leg(new.blocks[Len(new.blocks)]), Len(old.blocks), profile)
  PROVE  Core!Violations(new, profile)
           \subseteq Core!Violations(old, profile) \cup {"fragility_over_tolerance"}
<1> DEFINE n == Len(old.blocks)
<1>1. n \in Nat /\ \A i \in 1..n + 1 : i # n + 1 => i \in 1..n
  OBVIOUS
<1>2. "max_legs_exceeded" \notin Core!Violations(new, profile)
  BY <1>1 DEF Core!Violations, Core!DnaCompatible
<1>3. ASSUME "props_not_allowed" \in Core!Violations(new, profile)
      PROVE  "props_not_allowed" \in Core!Violations(old, profile)
  <2>1. /\ profile.avoid_props
        /\ \E i \in 1..n + 1 : Core!Leg(new.blocks[i]).type = "player_prop"
    BY <1>3 DEF Core!Violations
  <2>2. Core!Leg(new.blocks[n + 1]).type # "player_prop"
    BY <2>1 DEF Core!DnaCompatible
  <2>3. \E i \in 1..n : Core!Leg(old.blocks[i]).type = "player_prop"
    BY <1>1, <2>1, <2>2
  <2> QED
    BY <2>1, <2>3 DEF Core!Violations
<1>4. ASSUME "live_bets_not_allowed" \in Core!Violations(new, profile)
      PROVE  "live_bets_not_allowed" \in Core!Violations(old, profile)
  <2>1. /\ profile.avoid_live
        /\ \E i \in 1..n + 1 : Core!HasTag(Core!Leg(new.blocks[i]), {"live"})
    BY <1>4 DEF Core!Violations
  <2>2. ~Core!HasTag(Core!Leg(new.blocks[n + 1]), {"live"})
    BY <2>1 DEF Core!DnaCompatible
  <2>3. \E i \in 1..n : Core!HasTag(Core!Leg(old.blocks[i]), {"live"})
    BY <1>1, <2>1, <2>2
  <2> QED
    BY <2>1, <2>3 DEF Core!Violations
<1>5. Core!Violations(new, profile)
        \subseteq {"fragility_over_tolerance", "max_legs_exceeded", "props_not_allowed",
                   "live_bets_not_allowed"}
  BY DEF Core!Violations
<1> QED
  BY <1>2, <1>3, <1>4, <1>5

LEMMA StateIs ==
  \A body : State(body) = Core!BuildParlayState(Applied(body.legs, body.signals))
BY DEF State, Applied, SentBlocks, Sent

\* A candidate's worth and the evaluation of the request with it as a leg agree.
LEMMA WorthIsHonest ==
  ASSUME NEW post \in Posts, NEW leg \in ClientLegs,
         NEW more, more.legs = Append(post.legs, leg), more.signals = post.signals,
         more.profile = post.profile, more.bankroll = post.bankroll,
         NEW s, s = EvaluateCandidate(State(post), leg, post.profile)
  PROVE  /\ Valued(s) /\ s.leg = leg
         /\ Honest(s, post.signals, Verdict(post), Verdict(more))
<1> DEFINE p == Applied(post.legs, post.signals)
           q == Applied(more.legs, post.signals)
           r == Append(p, Sent(leg))
<1>1. /\ post.legs \in Seq(AllLegs) /\ Len(post.legs) < MaxLegs /\ leg \in AllLegs
      /\ Len(post.signals) \in Nat
      /\ post.profile # None => post.profile.max_legs \in Nat
  <2>1. post \in Posts \cup Views
    OBVIOUS
  <2>2. /\ post.legs \in Seq(ClientLegs) /\ Len(post.legs) < MaxLegs
        /\ post.signals \in Seq(Range(post.signals))
        /\ post.profile # None => post.profile.max_legs \in Nat
    BY <2>1, PostIs, Zenon
  <2>3. ClientLegs \subseteq AllLegs
    BY DEF AllLegs
  <2> QED
    BY <2>2, <2>3
<1>2. /\ Core!ParlayMetrics(p).final \in Int /\ Core!ParlayMetrics(p).penalty \in Int
      /\ Core!ParlayMetrics(r).final \in Int /\ Core!ParlayMetrics(r).penalty \in Int
      /\ leg.mods["role"].delta <= 10
           => Core!ParlayMetrics(r).final <= Core!ParlayMetrics(q).final
      /\ Core!ParlayMetrics(q).final \in Int
      /\ post.signals = <<>> => q = r
  BY <1>1, LegAddsItsWorth
<1>3. q = Append(p, Engine!ApplyToBlock(post.signals, Sent(leg)))
  BY <1>1, AppliedAppend
<1>4. /\ Engine!ApplyToBlock(post.signals, Sent(leg)) \in Engine!Block
      /\ Engine!ApplyToBlock(post.signals, Sent(leg)).id = leg
  <2>1. Sent(leg) \in Engine!Block /\ Sent(leg).id = leg
    BY <1>1, SentIsBlock DEF Sent
  <2> QED
    BY <1>1, <2>1, Fits, Engine!ApplyGrows
<1>5. p \in Seq(Engine!Block)
  BY <1>1, AppliedIs
<1>6. /\ State(post).blocks = p /\ State(post).metrics = Core!ParlayMetrics(p)
      /\ State(more).blocks = q /\ State(more).metrics = Core!ParlayMetrics(q)
      /\ Core!BuildParlayState(r).metrics = Core!ParlayMetrics(r)
      /\ Core!BuildParlayState(r).blocks = r
  BY StateIs DEF Core!BuildParlayState
<1> HIDE DEF p, q, r
<1>7. /\ s.leg = leg
      /\ s.delta = Core!ParlayMetrics(r).final - Core!ParlayMetrics(p).final
      /\ s.correlation = Core!ParlayMetrics(r).penalty - Core!ParlayMetrics(p).penalty
      /\ s.compatible = IF post.profile # None
                        THEN Core!DnaCompatible(leg, Len(p), post.profile) ELSE Len(r) <= 10
  <2>1. s = Worth(State(post), Core!BuildParlayState(r), leg, post.profile)
    BY <1>6 DEF EvaluateCandidate, Sent, r
  <2> QED
    BY <1>6, <2>1 DEF Worth
<1>8. s.compatible \in BOOLEAN
  <2>1. Core!DnaCompatible(leg, Len(p), post.profile) \in BOOLEAN
    BY DEF Core!DnaCompatible
  <2>2. (Len(r) <= 10) \in BOOLEAN
    OBVIOUS
  <2>3. CASE post.profile = None
    BY <1>7, <2>2, <2>3, Zenon
  <2>4. CASE post.profile # None
    BY <1>7, <2>1, <2>4, Zenon
  <2> QED
    BY <2>3, <2>4
<1>9. Valued(s)
  BY <1>2, <1>7, <1>8 DEF Valued
<1>10. /\ Verdict(post).metrics = Core!ParlayMetrics(p)
       /\ Verdict(more).metrics = Core!ParlayMetrics(q)
  BY <1>6 DEF Verdict, Core!EvaluateParlay
<1>11. ASSUME s.compatible
       PROVE  Verdict(more).violations
                \subseteq Verdict(post).violations \cup {"fragility_over_tolerance"}
  <2>1. CASE post.profile = None \/ post.bankroll = None
    BY <2>1 DEF Verdict, Core!EvaluateParlay
  <2>2. CASE post.profile # None /\ post.bankroll # None
    <3>1. /\ Verdict(more).violations = Core!Violations(State(more), post.profile)
          /\ Verdict(post).violations = Core!Violations(State(post), post.profile)
      BY <2>2 DEF Verdict, Core!EvaluateParlay
    <3>2. /\ q \in Seq(Engine!Block) /\ Len(q) = Len(p) + 1 /\ q[Len(q)].id = leg
          /\ \A i \in 1..Len(p) : q[i] = p[i]
      <4>1. PICK c \in Engine!Block : q = Append(p, c) /\ c.id = leg
        BY <1>3, <1>4
      <4> QED
        BY <1>5, <4>1
    <3>3. Core!Leg(q[Len(q)]) = leg
      BY <1>1, <3>2 DEF Core!Leg
    <3>4. Core!DnaCompatible(leg, Len(p), post.profile)
      BY <1>7, <1>11, <2>2
    <3>5. post.profile.max_legs \in Int
      BY <1>1, <2>2
    <3>6. Core!Violations(State(more), post.profile)
            \subseteq Core!Violations(State(post), post.profile) \cup {"fragility_over_tolerance"}
      <4>1. PICK old, new : old = State(post) /\ new = State(more)
        OBVIOUS
      <4>2. /\ old.blocks \in Seq(Engine!Block) /\ new.blocks \in Seq(Engine!Block)
            /\ Len(new.blocks) = Len(old.blocks) + 1
            /\ \A i \in 1..Len(old.blocks) : new.blocks[i] = old.blocks[i]
            /\ Core!DnaCompatible(Core!Leg(new.blocks[Len(new.blocks)]), Len(old.blocks),
                                  post.profile)
        BY <1>5, <1>6, <3>2, <3>3, <3>4, <4>1
      <4> QED
        BY <3>5, <4>1, <4>2, CompatibleAddsNothing
    <3> QED
      BY <3>1, <3>6
  <2> QED
    BY <2>1, <2>2
<1>12. s.leg.mods["role"].delta <= 10
         => Verdict(more).metrics.final - Verdict(post).metrics.final >= s.delta
  BY <1>2, <1>7, <1>10
<1>13. post.signals = <<>> => Verdict(more).metrics.final - Verdict(post).metrics.final = s.delta
  BY <1>2, <1>7, <1>10
<1> QED
  BY <1>7, <1>9, <1>11, <1>12, <1>13 DEF Honest

\* What a request was evaluated to keeps what its suggestions promise.
LEMMA EvaluationHolds ==
  ASSUME NEW post \in Posts, NEW reply, reply = Evaluate(post), reply.code = None,
         NEW s \in ToSet(reply.suggestions),
         NEW r, r.post = post, r.plan = post.plan
  PROVE  /\ Honest(s, post.signals, reply.eval, AskedAgain(r, s.leg))
         /\ \A c \in ToSet(post.candidates) \ {other.leg : other \in ToSet(reply.suggestions)} :
              EvaluateCandidate(State(post), c, post.profile).delta \notin 1..s.delta - 1
<1> DEFINE worth(leg) == EvaluateCandidate(State(post), leg, post.profile)
           cands == [i \in DOMAIN post.candidates |-> worth(post.candidates[i])]
<1>1. /\ flags.enabled /\ SignalsAllowed(post.signals, post.plan)
      /\ WellTyped(post.legs) /\ WellTyped(post.candidates)
  BY EvaluateCode
<1>2. /\ DOMAIN post = {"plan", "legs", "profile", "bankroll", "candidates", "max", "signals"}
      /\ post.plan \in Plans /\ post.max \in Nat
      /\ post.legs \in Seq(ClientLegs)
      /\ post.candidates \in Seq(ClientLegs) /\ IsFiniteSet(DOMAIN post.candidates)
  <2>1. post \in Posts \cup Views
    OBVIOUS
  <2> QED
    BY <2>1, PostIs, Zenon
<1>3. PICK cut \in Nat : reply = EvaluateBody(post, cut)
  BY <1>1, <1>2, EvaluateIs
<1>4. reply.eval = Verdict(post) /\ reply.suggestions = First(cut, Offer(post))
  BY <1>2, <1>3, EvaluateBodyIs, ReplyFields
<1>5. Offer(post) = RankCandidates(cands)
  BY DEF Offer, Ranked
<1>6. \A i \in DOMAIN post.candidates : post.candidates[i] \in ClientLegs
  BY <1>2
<1>7. DOMAIN post.candidates \subseteq Int
  BY <1>2
<1>8. ASSUME NEW leg \in ClientLegs
      PROVE  /\ Valued(worth(leg)) /\ worth(leg).leg = leg
             /\ WellTyped(<<leg>>) => Honest(worth(leg), post.signals, reply.eval, AskedAgain(r, leg))
  <2>1. PICK more : more = [post EXCEPT !.plan = post.plan, !.legs = Append(@, leg)]
    OBVIOUS
  <2>2. /\ more.plan = post.plan /\ more.max = post.max /\ more.signals = post.signals
        /\ more.candidates = post.candidates /\ more.profile = post.profile
        /\ more.bankroll = post.bankroll /\ more.legs = Append(post.legs, leg)
    BY <1>2, <2>1
  <2>3. /\ Valued(worth(leg)) /\ worth(leg).leg = leg
        /\ Honest(worth(leg), post.signals, Verdict(post), Verdict(more))
    BY <2>2, WorthIsHonest
  <2>4. ASSUME WellTyped(<<leg>>)
        PROVE  AskedAgain(r, leg) = Verdict(more)
    <3>1. AskedAgain(r, leg) = Evaluate(more).eval
      BY <2>1, Zenon DEF AskedAgain
    <3>2. leg.type \in BetTypes /\ \A i \in 1..Len(post.legs) : post.legs[i].type \in BetTypes
      BY <1>1, <1>2, <2>4 DEF WellTyped
    <3>3. WellTyped(more.legs)
      BY <1>2, <2>2, <3>2 DEF WellTyped
    <3>4. PICK k \in Nat : Evaluate(more) = EvaluateBody(more, k)
      BY <1>1, <1>2, <2>2, <3>3, EvaluateIs
    <3> QED
      BY <1>2, <2>2, <3>1, <3>4, EvaluateBodyIs, ReplyFields
  <2> QED
    BY <1>4, <2>3, <2>4
<1>9. DOMAIN cands = DOMAIN post.candidates
      /\ \A i \in DOMAIN cands : cands[i] = worth(post.candidates[i])
  OBVIOUS
<1> HIDE DEF worth, cands
<1>10. \A i \in DOMAIN cands : Valued(cands[i]) /\ cands[i].leg = post.candidates[i]
  BY <1>6, <1>8, <1>9
<1>11. PICK S : RankCandidates(cands) \in Seq(S)
  BY <1>2, <1>9, RankedIsSeq
<1>12. /\ Len(reply.suggestions) <= Len(RankCandidates(cands))
       /\ DOMAIN reply.suggestions = 1..Len(reply.suggestions)
       /\ \A n \in 1..Len(reply.suggestions) : reply.suggestions[n] = RankCandidates(cands)[n]
  BY <1>4, <1>5, <1>11, FirstIs
<1>13. PICK n \in 1..Len(reply.suggestions) : s = RankCandidates(cands)[n]
  BY <1>12 DEF ToSet
<1>14. /\ n \in DOMAIN RankCandidates(cands)
       /\ 1..n \subseteq 1..Len(reply.suggestions)
  BY <1>4, <1>5, <1>11, <1>12, FirstIs
<1>15. PICK j \in DOMAIN cands :
         /\ s = cands[j]
         /\ \A i \in DOMAIN cands :
              0 < cands[i].delta /\ cands[i].delta < cands[j].delta
                => \E m \in 1..n : RankCandidates(cands)[m] = cands[i]
  BY <1>2, <1>7, <1>9, <1>10, <1>13, <1>14, RankingIs
<1>16. Honest(s, post.signals, reply.eval, AskedAgain(r, s.leg))
  <2>1. PICK leg \in ClientLegs : leg = post.candidates[j] /\ s = worth(leg) /\ s.leg = leg
    BY <1>6, <1>9, <1>10, <1>15
  <2>2. WellTyped(<<leg>>)
    BY <1>1, <1>9, <2>1 DEF WellTyped
  <2> QED
    BY <1>8, <2>1, <2>2
<1>17. ASSUME NEW c \in ToSet(post.candidates), worth(c).delta \in 1..s.delta - 1
       PROVE  \E other \in ToSet(reply.suggestions) : other.leg = c
  <2>1. PICK i \in DOMAIN cands : c = post.candidates[i]
    BY <1>9 DEF ToSet
  <2>2. cands[i] = worth(c) /\ cands[i].delta \in Int /\ s.delta \in Int
    BY <1>9, <1>10, <1>15, <2>1 DEF Valued
  <2>3. 0 < cands[i].delta /\ cands[i].delta < cands[j].delta
    BY <1>15, <1>17, <2>2
  <2>4. PICK m \in 1..n : RankCandidates(cands)[m] = cands[i]
    BY <1>15, <2>3
  <2>5. reply.suggestions[m] = cands[i] /\ m \in DOMAIN reply.suggestions
    BY <1>12, <1>14, <2>4
  <2> QED
    BY <1>10, <2>1, <2>5 DEF ToSet
<1> QED
  BY <1>16, <1>17 DEF worth

LEMMA RefusalSuggestsNothing ==
  ASSUME NEW post \in Posts, Evaluate(post).code # None
  PROVE  Evaluate(post).suggestions = <<>>
<1>1. /\ post.plan \in Plans /\ post.max \in Nat /\ IsFiniteSet(DOMAIN post.candidates)
  <2>1. post \in Posts \cup Views
    OBVIOUS
  <2> QED
    BY <2>1, PostIs, Zenon
<1>2. CASE /\ flags.enabled /\ SignalsAllowed(post.signals, post.plan)
           /\ WellTyped(post.legs) /\ WellTyped(post.candidates)
  <2>1. PICK cut \in Nat : Evaluate(post) = EvaluateBody(post, cut)
    BY <1>1, <1>2, EvaluateIs
  <2> QED
    BY <1>1, <2>1, EvaluateBodyIs, ReplyFields
<1>3. CASE ~(/\ flags.enabled /\ SignalsAllowed(post.signals, post.plan)
             /\ WellTyped(post.legs) /\ WellTyped(post.candidates))
  <2>1. \E status, code : Evaluate(post) = Refused(status, code)
    BY <1>3 DEF Evaluate
  <2> QED
    BY <2>1, RefusedIs, ReplyFields
<1> QED
  BY <1>2, <1>3

\* Every suggestion is worth what it says, for every body a client sends, every
\* plan and every penalty table (core/suggestion_engine.py values the candidate
\* on the parlay, core/evaluation.py evaluates it once it is a leg).
THEOREM SuggestionsAlwaysHold == PaidSpec => []SuggestionsHold
<1>1. PaidInit => AnswerInv
  BY DEF PaidInit, LightInit, AnswerInv
<1>2. PaidInv => PaidTypes
  BY DEF PaidInv
<1>3. AnswerInv => SuggestionsHold
  <2> SUFFICES ASSUME AnswerInv, answer # None, answer.to.route = "evaluate",
                      NEW s \in ToSet(answer.reply.suggestions)
               PROVE  /\ Honest(s, answer.to.post.signals, answer.reply.eval,
                                AskedAgain(answer.to, s.leg))
                      /\ \A c \in ToSet(answer.to.post.candidates)
                                    \ {other.leg : other \in ToSet(answer.reply.suggestions)} :
                           EvaluateCandidate(State(answer.to.post), c,
                                             answer.to.post.profile).delta \notin 1..s.delta - 1
    BY DEF SuggestionsHold
  <2>1. PICK r, reply : r = answer.to /\ reply = answer.reply
    OBVIOUS
  <2>2. reply.suggestions # <<>>
    BY <2>1 DEF ToSet
  <2>3. r.route = "evaluate" /\ r.post \in Posts /\ r.plan = r.post.plan /\ reply = Evaluate(r.post)
    BY <2>1, <2>2 DEF AnswerInv
  <2>4. reply.code = None
    BY <2>2, <2>3, RefusalSuggestsNothing
  <2> QED
    BY <2>1, <2>3, <2>4, EvaluationHolds
<1> QED
  BY <1>1, <1>2, <1>3, AnswerInvStep, PaidInvariant, PTL DEF PaidSpec
=============================================================================
