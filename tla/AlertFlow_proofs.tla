--------------------------- MODULE AlertFlow_proofs ---------------------------
(***************************************************************************)
(* The alert service under any number of concurrent evaluations: what its  *)
(* lock protects, how old the cache may be, and which alerts are there to  *)
(* be found, for any threads, finite set of players, statuses, sample      *)
(* data, filters, capacity, lifetimes and bounds.                          *)
(***************************************************************************)
EXTENDS AlertFlow, FiniteSetTheorems, WellFoundedInduction, TLAPS

Teams == {TeamOf[p] : p \in Players}

Job == [pc : {"idle", "fetching", "fetched", "ready", "store", "save"},
        snap : Snapshot \cup {None}, names : SUBSET Players, teams : SUBSET Teams,
        alerts : Seq(AlertRecord), done : Nat, check : 0..MaxChecks, at : 0..MaxTime]

FlowTypes ==
  /\ truth \in [Players -> Statuses]
  /\ now \in 0..MaxTime /\ checks \in 0..MaxChecks
  /\ cache \in {None} \cup [snap : Snapshot, expires_at : Nat]
  /\ previous \in {None} \cup Snapshot
  /\ lock \in Threads \cup {None}
  /\ stored \in Seq(AlertRecord) /\ saved \subseteq AlertRecord
  /\ job \in [Threads -> Job]

HasSnapshot(t) == job[t].pc \in {"fetched", "ready", "store", "save"}
Checking(t)    == job[t].pc \in {"store", "save"}
Busy(t)        == job[t].pc # "idle"

\* Nothing was read in the future.
ReadBefore ==
  /\ \A t \in Threads : HasSnapshot(t) => job[t].snap \in Snapshot /\ job[t].snap.read_at <= now
  /\ cache # None => cache.snap.read_at <= now
  /\ previous # None => previous.read_at <= now

\* A fetched snapshot is recent, and a cache entry ends in time.
FreshnessInv ==
  /\ \A t \in Threads : job[t].pc = "fetched" => now - job[t].snap.read_at <= FetchMax
  /\ cache # None => cache.expires_at <= cache.snap.read_at + CacheTtl + FetchMax

\* Whoever checks has the lock, and found what the detector finds.
LockInv ==
  \A t \in Threads :
    /\ job[t].done <= Len(job[t].alerts)
    /\ Checking(t) => lock = t
    /\ Checking(t) =>
         job[t].alerts = AlertsOf(previous, job[t].snap, job[t].names, job[t].teams,
                                  job[t].check, job[t].at)

\* Evaluations are numbered.
NumbersInv ==
  /\ \A t \in Threads : Busy(t) => job[t].check \in 1..checks
  /\ \A t, u \in Threads : Busy(t) /\ Busy(u) /\ t # u => job[t].check # job[u].check
  /\ \A i \in 1..Len(stored) : stored[i].check <= checks

\* The alerts a running check has stored are the last ones of the store.
StoredFor(t) ==
  /\ Busy(t) /\ ~Checking(t) => \A i \in 1..Len(stored) : stored[i].check # job[t].check
  /\ job[t].pc = "store" =>
       /\ job[t].done <= Len(stored)
       /\ \A i \in 1..(Len(stored) - job[t].done) : stored[i].check # job[t].check
       /\ \A i \in 1..job[t].done : stored[Len(stored) - job[t].done + i] = job[t].alerts[i]
  /\ job[t].pc = "save" =>
       \A i \in 1..Len(job[t].alerts) : \E k \in 1..Len(stored) : stored[k] = job[t].alerts[i]

StoredInv == \A t \in Threads : StoredFor(t)

\* The inductive invariant.
FlowInv ==
  FlowTypes /\ ReadBefore /\ FreshnessInv /\ LockInv /\ NumbersInv /\ StoredInv /\ BatchesAdjacent

-----------------------------------------------------------------------------
(* The alerts of a check.                                                  *)

\* SetToSeq lists the elements of its set.
LEMMA ListOfSet ==
  ASSUME NEW S, IsFiniteSet(S)
  PROVE  /\ Cardinality(S) \in Nat
         /\ \A i \in 1..Cardinality(S) : SetToSeq(S)[i] \in S
         /\ \A x \in S : \E i \in 1..Cardinality(S) : SetToSeq(S)[i] = x
<1>1. Cardinality(S) \in Nat /\ ExistsBijection(1..Cardinality(S), S)
  BY FS_CardinalityType
<1>2. PICK f \in [1..Cardinality(S) -> S] : IsInjective(f)
  BY <1>1 DEF ExistsBijection, Bijection, Injection
<1>3. SetToSeq(S) \in [1..Cardinality(S) -> S] /\ IsInjective(SetToSeq(S))
  BY <1>2 DEF SetToSeq
<1>4. SetToSeq(S) \in Injection(1..Cardinality(S), S)
  BY <1>3 DEF Injection
<1>5. Cardinality(1..Cardinality(S)) = Cardinality(S)
  BY <1>1, FS_Interval
<1>6. SetToSeq(S) \in Surjection(1..Cardinality(S), S)
  BY <1>4, <1>5, FS_Injection
<1> QED
  BY <1>1, <1>3, <1>6 DEF Surjection

\* Only players are compared.
LEMMA WorsenedArePlayers ==
  ASSUME NEW prev, NEW snap, NEW names \in SUBSET Players, NEW teams
  PROVE  Worsened(prev, snap, names, teams) \subseteq Players
BY DEF Worsened, Checked

\* A check's alerts are alerts of that check.
LEMMA AlertsAreTyped ==
  ASSUME NEW prev, NEW snap \in Snapshot, NEW names \in SUBSET Players, NEW teams,
         NEW check \in 1..MaxChecks, NEW at \in 0..MaxTime
  PROVE  /\ AlertsOf(prev, snap, names, teams, check, at) \in Seq(AlertRecord)
         /\ \A i \in 1..Len(AlertsOf(prev, snap, names, teams, check, at)) :
              AlertsOf(prev, snap, names, teams, check, at)[i].check = check
<1> DEFINE W == Worsened(prev, snap, names, teams)
           Mine == {a \in AlertRecord : a.check = check}
           alert(kind, p) == [check |-> check, kind |-> kind, player |-> p,
                              value |-> IF p = None THEN None ELSE snap.status[p],
                              created_at |-> at]
           first == [i \in 1..Cardinality(W) |-> alert("player", SetToSeq(W)[i])]
           second == IF ConfidenceAlert(prev, snap) THEN <<alert("confidence", None)>> ELSE <<>>
           third == IF SourceAlert(prev, snap) THEN <<alert("source", None)>> ELSE <<>>
<1>1. W \subseteq Players /\ IsFiniteSet(W)
  BY WorsenedArePlayers, FlowAssumption, FS_Subset
<1>2. ASSUME NEW kind \in {"player", "confidence", "source"}, NEW p \in Players \cup {None}
      PROVE  alert(kind, p) \in Mine
  BY DEF AlertRecord, Snapshot
<1>3. first \in Seq(Mine)
  <2>1. Cardinality(W) \in Nat /\ \A i \in 1..Cardinality(W) : SetToSeq(W)[i] \in Players
    BY <1>1, ListOfSet
  <2>2. \A i \in 1..Cardinality(W) : alert("player", SetToSeq(W)[i]) \in Mine
    BY <1>2, <2>1
  <2>3. first \in [1..Cardinality(W) -> Mine]
    <3> HIDE DEF Mine, alert, W
    <3> QED
      BY <2>2
  <2> HIDE DEF first, Mine
  <2> QED
    BY <2>1, <2>3
<1>4. second \in Seq(Mine) /\ third \in Seq(Mine)
  <2>1. alert("confidence", None) \in Mine /\ alert("source", None) \in Mine
    BY <1>2
  <2> HIDE DEF Mine, alert
  <2> QED
    BY <2>1
<1>5. AlertsOf(prev, snap, names, teams, check, at) = first \o second \o third
  BY DEF AlertsOf
<1>6. first \o second \o third \in Seq(Mine)
  <2> HIDE DEF first, second, third, Mine
  <2> QED
    BY <1>3, <1>4
<1>7. Mine \subseteq AlertRecord /\ \A a \in Mine : a.check = check
  OBVIOUS
<1> HIDE DEF first, second, third, Mine
<1>8. \A s \in Seq(Mine) : s \in Seq(AlertRecord) /\ \A i \in 1..Len(s) : s[i].check = check
  BY <1>7
<1> QED
  BY <1>5, <1>6, <1>8

-----------------------------------------------------------------------------
(* The inductive invariant, action by action.                              *)

LEMMA InitFlowInv == FlowInit => FlowInv
<1> SUFFICES ASSUME FlowInit PROVE FlowInv
  OBVIOUS
<1>1. Idle \in Job
  BY FlowAssumption DEF Job, Idle
<1>2. FlowTypes
  BY <1>1, FlowAssumption DEF FlowInit, FlowTypes
<1>3. \A t \in Threads : job[t].pc = "idle" /\ job[t].done <= Len(job[t].alerts)
  BY DEF FlowInit, Idle
<1>4. QED
  BY <1>2, <1>3 DEF FlowInit, FlowInv, ReadBefore, FreshnessInv, LockInv, NumbersInv, StoredInv,
                    StoredFor, BatchesAdjacent, HasSnapshot, Checking, Busy

\* A job that is only changed in some fields stays a job.
LEMMA JobFields ==
  ASSUME FlowTypes, NEW t \in Threads
  PROVE  /\ job[t] \in Job
         /\ job[t].snap \in Snapshot \cup {None} /\ job[t].names \in SUBSET Players
         /\ job[t].alerts \in Seq(AlertRecord) /\ Len(job[t].alerts) \in Nat
         /\ job[t].done \in Nat /\ job[t].check \in 0..MaxChecks
         /\ job[t].at \in 0..MaxTime /\ now \in Nat /\ stored \in Seq(AlertRecord) /\ Len(stored) \in Nat
         /\ checks \in Nat /\ MaxChecks \in Nat
BY FlowAssumption DEF FlowTypes, Job

\* Time, the league and the cache are no business of a check.
LEMMA QuietKeepsInv ==
  ASSUME FlowInv,
         \/ Tick \/ ClearCache \/ ListAlerts \/ ClearAlerts
         \/ \E p \in Players, status \in Statuses : StatusChange(p, status)
  PROVE  FlowInv'
<1>1. UNCHANGED <<previous, lock, stored, saved, job, checks>>
  BY DEF Tick, ClearCache, ListAlerts, ClearAlerts, StatusChange, storeVars
<1>2. now' \in 0..MaxTime /\ now <= now' /\ (now' = now \/ Tick)
  BY FlowAssumption
     DEF Tick, ClearCache, ListAlerts, ClearAlerts, StatusChange, storeVars, FlowInv, FlowTypes
<1>3. cache' = cache \/ cache' = None
  BY DEF Tick, ClearCache, ListAlerts, ClearAlerts, StatusChange, storeVars
<1>4. truth' \in [Players -> Statuses]
  BY DEF Tick, ClearCache, ListAlerts, ClearAlerts, StatusChange, FlowInv, FlowTypes
<1>5. FlowTypes'
  BY <1>1, <1>2, <1>3, <1>4 DEF FlowInv, FlowTypes
<1>6. now \in Nat /\ now' \in Nat /\ \A x \in Snapshot : x.read_at \in Nat
  BY <1>2, FlowAssumption DEF FlowInv, FlowTypes, Snapshot
<1>7. cache' # None => cache' = cache /\ cache.snap \in Snapshot
  BY <1>3 DEF FlowInv, FlowTypes
<1>8. previous # None => previous \in Snapshot
  BY DEF FlowInv, FlowTypes
<1>9. ReadBefore'
  <2>1. ASSUME NEW t \in Threads, HasSnapshot(t)'
        PROVE  job'[t].snap \in Snapshot /\ job'[t].snap.read_at <= now'
    BY <1>1, <1>2, <1>6, <2>1 DEF FlowInv, ReadBefore, HasSnapshot
  <2>2. cache' # None => cache'.snap.read_at <= now'
    BY <1>2, <1>6, <1>7 DEF FlowInv, ReadBefore
  <2>3. previous' # None => previous'.read_at <= now'
    BY <1>1, <1>2, <1>6, <1>8 DEF FlowInv, ReadBefore
  <2> QED
    BY <2>1, <2>2, <2>3 DEF ReadBefore
<1>10. FreshnessInv'
  <2>1. ASSUME NEW t \in Threads, job'[t].pc = "fetched"
        PROVE  now' - job'[t].snap.read_at <= FetchMax
    <3>1. job[t].pc = "fetched" /\ job[t].snap \in Snapshot
      BY <1>1, <2>1 DEF FlowInv, ReadBefore, HasSnapshot
    <3>2. CASE now' = now
      BY <1>1, <2>1, <3>2 DEF FlowInv, FreshnessInv
    <3>3. CASE Tick
      BY <1>1, <1>6, <2>1, <3>1, <3>3, FlowAssumption DEF Tick
    <3> QED
      BY <1>2, <3>2, <3>3
  <2> QED
    BY <1>7, <2>1 DEF FlowInv, FreshnessInv
<1> QED
  BY <1>1, <1>5, <1>9, <1>10
     DEF FlowInv, LockInv, NumbersInv, StoredInv, StoredFor, BatchesAdjacent, Checking, Busy

\* An evaluation that starts, or goes on before its check, leaves the lock,
\* the numbers and the stored alerts in order.
LEMMA BeforeTheCheck ==
  ASSUME FlowInv, NEW t \in Threads, ~Checking(t), Busy(t)', ~Checking(t)',
         UNCHANGED <<previous, lock, stored>>, job'[t].done <= Len(job'[t].alerts),
         \A u \in Threads : u # t => job'[u] = job[u],
         \/ Busy(t) /\ job'[t].check = job[t].check /\ checks' = checks
         \/ job'[t].check = checks + 1 /\ checks' = checks + 1
  PROVE  LockInv' /\ NumbersInv' /\ StoredInv' /\ BatchesAdjacent'
<1>1. FlowTypes /\ LockInv /\ NumbersInv /\ StoredInv /\ BatchesAdjacent
  BY DEF FlowInv
<1>2. checks \in Nat /\ Len(stored) \in Nat /\ \A i \in 1..Len(stored) : stored[i].check \in Nat
  <2>1. stored \in Seq(AlertRecord) /\ checks \in Nat
    BY <1>1, JobFields DEF FlowTypes
  <2>2. \A a \in AlertRecord : a.check \in Nat
    BY FlowAssumption DEF AlertRecord
  <2> QED
    BY <2>1, <2>2
<1>3. LockInv'
  BY <1>1 DEF LockInv, Checking
<1>4. NumbersInv'
  <2>1. \A u \in Threads : Busy(u) => job[u].check \in 1..checks
    BY <1>1 DEF NumbersInv
  <2>2. \A u \in Threads : Busy(u)' => job'[u].check \in 1..checks'
    BY <1>2, <2>1 DEF Busy
  <2>3. \A u \in Threads : Busy(u)' /\ u # t => job'[u].check # job'[t].check
    BY <1>1, <1>2, <2>1 DEF NumbersInv, Busy
  <2>4. \A u, v \in Threads : Busy(u)' /\ Busy(v)' /\ u # v => job'[u].check # job'[v].check
    BY <1>1, <2>3 DEF NumbersInv, Busy
  <2>5. \A i \in 1..Len(stored') : stored'[i].check <= checks'
    BY <1>1, <1>2 DEF NumbersInv
  <2> QED
    BY <2>2, <2>4, <2>5 DEF NumbersInv
<1>5. \A i \in 1..Len(stored) : stored[i].check # job'[t].check
  BY <1>1, <1>2 DEF NumbersInv, StoredInv, StoredFor
<1>6. StoredInv'
  <2>1. StoredFor(t)'
    BY <1>5 DEF StoredFor, Checking
  <2>2. ASSUME NEW u \in Threads, u # t
        PROVE  StoredFor(u)'
    <3>1. StoredFor(u) /\ job'[u] = job[u] /\ stored' = stored
      BY <1>1, <2>2 DEF StoredInv
    <3> QED
      BY <3>1 DEF StoredFor, Busy, Checking
  <2> QED
    BY <2>1, <2>2 DEF StoredInv
<1> QED
  BY <1>1, <1>3, <1>4, <1>6 DEF BatchesAdjacent

LEMMA StartKeepsInv ==
  ASSUME FlowInv, NEW t \in Threads, NEW filter \in Filters,
         StartEvaluation(t, filter[1], filter[2])
  PROVE  FlowInv'
<1>1. FlowTypes /\ ReadBefore /\ FreshnessInv
  BY DEF FlowInv
<1>2. filter[1] \in SUBSET Players /\ filter[2] \in SUBSET Teams
  BY FlowAssumption DEF Teams
<1>3. /\ job[t].pc = "idle" /\ checks' = checks + 1
      /\ UNCHANGED <<truth, now, cache, previous, lock, stored, saved>>
  BY DEF StartEvaluation, storeVars
<1>4. job[t] \in Job /\ checks \in Nat /\ checks' \in 1..MaxChecks
  BY <1>1, JobFields, FlowAssumption DEF StartEvaluation
<1>5. PICK new : new = [Idle EXCEPT !.pc = IF CacheFresh THEN "ready" ELSE "fetching",
                            !.snap = IF CacheFresh THEN cache.snap ELSE None,
                            !.names = filter[1], !.teams = filter[2], !.check = checks']
  OBVIOUS
<1>6. /\ new.pc = IF CacheFresh THEN "ready" ELSE "fetching"
      /\ new.snap = IF CacheFresh THEN cache.snap ELSE None
      /\ new.check = checks' /\ new.done <= Len(new.alerts)
  BY <1>5 DEF Idle
<1>7. CacheFresh => cache.snap \in Snapshot /\ cache.snap.read_at <= now
  BY <1>1 DEF CacheFresh, FlowTypes, ReadBefore
<1>8. new \in Job
  <2>1. Idle \in Job
    BY FlowAssumption DEF Job, Idle
  <2>2. /\ new.pc \in {"fetching", "ready"} /\ new.snap \in Snapshot \cup {None}
        /\ checks' \in 0..MaxChecks
    BY <1>4, <1>6, <1>7
  <2>3. new = [Idle EXCEPT !.pc = new.pc, !.snap = new.snap, !.names = filter[1],
                           !.teams = filter[2], !.check = checks']
    BY <1>5, <1>6
  <2> QED
    BY <1>2, <2>1, <2>2, <2>3 DEF Job
<1>9. job' = [job EXCEPT ![t] = new]
  BY <1>5 DEF StartEvaluation
<1>10. job'[t] = new /\ \A u \in Threads : u # t => job'[u] = job[u]
  BY <1>1, <1>9 DEF FlowTypes
<1>11. FlowTypes'
  BY <1>1, <1>3, <1>4, <1>8, <1>9 DEF FlowTypes
<1>12. ReadBefore'
  BY <1>1, <1>3, <1>6, <1>7, <1>10 DEF ReadBefore, HasSnapshot
<1>13. FreshnessInv'
  BY <1>1, <1>3, <1>6, <1>10 DEF FreshnessInv
<1>14. /\ Busy(t)' /\ ~Checking(t)' /\ ~Checking(t) /\ job'[t].check = checks + 1
       /\ job'[t].done <= Len(job'[t].alerts)
  BY <1>3, <1>6, <1>10 DEF Busy, Checking
<1> QED
  BY <1>3, <1>10, <1>11, <1>12, <1>13, <1>14, BeforeTheCheck DEF FlowInv

LEMMA FetchKeepsInv ==
  ASSUME FlowInv, NEW t \in Threads, NEW source \in Sources, Fetch(t, source)
  PROVE  FlowInv'
<1>1. FlowTypes /\ ReadBefore /\ FreshnessInv /\ LockInv
  BY DEF FlowInv
<1>2. /\ job[t].pc = "fetching"
      /\ UNCHANGED <<truth, now, cache, previous, lock, stored, saved, checks>>
  BY DEF Fetch, storeVars
<1>3. PICK new : new = [source |-> source, read_at |-> now,
                        status |-> IF source \in Live THEN truth ELSE Sample]
  OBVIOUS
<1>4. now \in Nat /\ job[t] \in Job
  BY <1>1, JobFields
<1>5. new \in Snapshot /\ new.read_at = now
  BY <1>1, <1>3, <1>4, FlowAssumption DEF Snapshot, FlowTypes
<1>6. job' = [job EXCEPT ![t] = [job[t] EXCEPT !.pc = "fetched", !.snap = new]]
  BY <1>1, <1>3 DEF Fetch, FlowTypes
<1>7. [job[t] EXCEPT !.pc = "fetched", !.snap = new] \in Job
  BY <1>4, <1>5 DEF Job
<1>8. /\ job'[t].pc = "fetched" /\ job'[t].snap = new /\ job'[t].check = job[t].check
      /\ job'[t].done = job[t].done /\ job'[t].alerts = job[t].alerts
      /\ \A u \in Threads : u # t => job'[u] = job[u]
  BY <1>1, <1>4, <1>6 DEF FlowTypes, Job
<1>9. FlowTypes'
  BY <1>1, <1>2, <1>6, <1>7 DEF FlowTypes
<1>10. ReadBefore'
  BY <1>1, <1>2, <1>4, <1>5, <1>8 DEF ReadBefore, HasSnapshot
<1>11. FreshnessInv'
  BY <1>1, <1>2, <1>4, <1>5, <1>8, FlowAssumption DEF FreshnessInv
<1>12. /\ Busy(t) /\ Busy(t)' /\ ~Checking(t)' /\ ~Checking(t)
       /\ job'[t].done <= Len(job'[t].alerts)
  BY <1>1, <1>2, <1>8 DEF Busy, Checking, LockInv
<1> QED
  BY <1>2, <1>8, <1>9, <1>10, <1>11, <1>12, BeforeTheCheck DEF FlowInv

LEMMA SetCachedKeepsInv ==
  ASSUME FlowInv, NEW t \in Threads, SetCached(t)
  PROVE  FlowInv'
<1>1. FlowTypes /\ ReadBefore /\ FreshnessInv /\ LockInv
  BY DEF FlowInv
<1>2. /\ job[t].pc = "fetched"
      /\ cache' = [snap |-> job[t].snap, expires_at |-> now + CacheTtl]
      /\ UNCHANGED <<truth, now, previous, lock, stored, saved, checks>>
  BY DEF SetCached, storeVars
<1>3. job[t] \in Job /\ now \in Nat
  BY <1>1, JobFields
<1>4. /\ job[t].snap \in Snapshot /\ job[t].snap.read_at \in Nat
      /\ job[t].snap.read_at <= now /\ now - job[t].snap.read_at <= FetchMax
  BY <1>1, <1>2 DEF ReadBefore, FreshnessInv, HasSnapshot, Snapshot
<1>5. job' = [job EXCEPT ![t] = [job[t] EXCEPT !.pc = "ready"]]
  BY <1>1 DEF SetCached, FlowTypes
<1>6. [job[t] EXCEPT !.pc = "ready"] \in Job
  BY <1>3 DEF Job
<1>7. /\ job'[t].pc = "ready" /\ job'[t].snap = job[t].snap /\ job'[t].check = job[t].check
      /\ job'[t].done = job[t].done /\ job'[t].alerts = job[t].alerts
      /\ \A u \in Threads : u # t => job'[u] = job[u]
  BY <1>1, <1>3, <1>5 DEF FlowTypes, Job
<1>8. FlowTypes'
  BY <1>1, <1>2, <1>3, <1>4, <1>5, <1>6, FlowAssumption DEF FlowTypes
<1>9. ReadBefore'
  BY <1>1, <1>2, <1>4, <1>7 DEF ReadBefore, HasSnapshot
<1>10. FreshnessInv'
  <2>1. cache'.expires_at <= cache'.snap.read_at + CacheTtl + FetchMax
    BY <1>2, <1>3, <1>4, FlowAssumption
  <2>2. \A u \in Threads : job'[u].pc = "fetched" => now' - job'[u].snap.read_at <= FetchMax
    BY <1>1, <1>2, <1>7 DEF FreshnessInv
  <2> QED
    BY <2>1, <2>2 DEF FreshnessInv
<1>11. /\ Busy(t) /\ Busy(t)' /\ ~Checking(t)' /\ ~Checking(t)
       /\ job'[t].done <= Len(job'[t].alerts)
  BY <1>1, <1>2, <1>7 DEF Busy, Checking, LockInv
<1> QED
  BY <1>2, <1>7, <1>8, <1>9, <1>10, <1>11, BeforeTheCheck DEF FlowInv

\* A thread that goes through its check, alone, adding nothing to the store.
LEMMA InsideTheCheck ==
  ASSUME FlowInv, NEW t \in Threads, Checking(t)', job'[t].check = job[t].check, Busy(t),
         UNCHANGED <<cache, now, previous, stored, checks>>,
         job'[t].snap = job[t].snap, HasSnapshot(t),
         \A u \in Threads : u # t => job'[u] = job[u] /\ ~Checking(u)
  PROVE  ReadBefore' /\ FreshnessInv' /\ NumbersInv' /\ BatchesAdjacent'
<1>1. ReadBefore /\ FreshnessInv /\ NumbersInv /\ BatchesAdjacent
  BY DEF FlowInv
<1>2. ReadBefore'
  BY <1>1 DEF ReadBefore, HasSnapshot
<1>3. FreshnessInv'
  BY <1>1 DEF FreshnessInv, Checking
<1>4. NumbersInv'
  BY <1>1 DEF NumbersInv, Busy
<1> QED
  BY <1>1, <1>2, <1>3, <1>4 DEF BatchesAdjacent

LEMMA BeginCheckKeepsInv ==
  ASSUME FlowInv, NEW t \in Threads, BeginCheck(t)
  PROVE  FlowInv'
<1>1. FlowTypes /\ ReadBefore /\ LockInv /\ NumbersInv /\ StoredInv
  BY DEF FlowInv
<1>2. /\ job[t].pc = "ready" /\ lock = None /\ lock' = t
      /\ UNCHANGED <<truth, now, cache, previous, stored, saved, checks>>
  BY DEF BeginCheck, LockFree, storeVars
<1>3. \A u \in Threads : ~Checking(u)
  BY <1>1, <1>2, FlowAssumption DEF LockInv
<1>4. PICK found : found = AlertsOf(previous, job[t].snap, job[t].names, job[t].teams,
                                  job[t].check, now)
  OBVIOUS
<1>5. job[t] \in Job /\ job[t].snap \in Snapshot /\ job[t].names \in SUBSET Players
      /\ Len(stored) \in Nat /\ now \in 0..MaxTime
  BY <1>1, <1>2, JobFields DEF ReadBefore, HasSnapshot, FlowTypes
<1>6. job[t].check \in 1..MaxChecks
  <2>1. job[t].check \in 1..checks
    BY <1>1, <1>2 DEF NumbersInv, Busy
  <2>2. checks \in 0..MaxChecks /\ MaxChecks \in Nat
    BY <1>1, FlowAssumption DEF FlowTypes
  <2> QED
    BY <2>1, <2>2
<1>7. found \in Seq(AlertRecord)
  BY <1>4, <1>5, <1>6, AlertsAreTyped
<1>8. job' = [job EXCEPT ![t] = [job[t] EXCEPT !.pc = "store", !.done = 0, !.at = now,
                                               !.alerts = found]]
  BY <1>1, <1>4 DEF BeginCheck, FlowTypes
<1>9. [job[t] EXCEPT !.pc = "store", !.done = 0, !.at = now, !.alerts = found] \in Job
  BY <1>5, <1>7 DEF Job
<1>10. /\ job'[t].pc = "store" /\ job'[t].snap = job[t].snap /\ job'[t].check = job[t].check
       /\ job'[t].names = job[t].names /\ job'[t].teams = job[t].teams
       /\ job'[t].alerts = found /\ job'[t].done = 0 /\ job'[t].at = now
       /\ \A u \in Threads : u # t => job'[u] = job[u]
  BY <1>1, <1>5, <1>8 DEF FlowTypes, Job
<1>11. FlowTypes'
  BY <1>1, <1>2, <1>8, <1>9 DEF FlowTypes
<1>12. LockInv'
  <2>1. Len(found) \in Nat
    BY <1>7
  <2>2. \A u \in Threads : Checking(u)' => u = t
    BY <1>3, <1>10 DEF Checking
  <2>3. found = AlertsOf(previous', job'[t].snap, job'[t].names, job'[t].teams, job'[t].check,
                         job'[t].at)
    BY <1>2, <1>4, <1>10
  <2> QED
    BY <1>1, <1>2, <1>10, <2>1, <2>2, <2>3 DEF LockInv
<1>13. StoredInv'
  <2>1. \A i \in 1..Len(stored) : stored[i].check # job[t].check
    BY <1>1, <1>2 DEF StoredInv, StoredFor, Busy, Checking
  <2>2. ASSUME NEW u \in Threads, u # t
        PROVE  Busy(u)' => \A i \in 1..Len(stored') : stored'[i].check # job'[u].check
    BY <1>1, <1>2, <1>3, <1>10, <2>2 DEF StoredInv, StoredFor, Busy
  <2> QED
    BY <1>2, <1>3, <1>5, <1>10, <2>1, <2>2 DEF StoredInv, StoredFor, Checking
<1>14. Checking(t)' /\ Busy(t) /\ HasSnapshot(t)
  BY <1>2, <1>10 DEF Checking, Busy, HasSnapshot
<1> QED
  BY <1>2, <1>3, <1>10, <1>11, <1>12, <1>13, <1>14, InsideTheCheck DEF FlowInv

\* The lock is held by one thread at a time.
LEMMA HolderIsAlone ==
  ASSUME FlowInv, NEW t \in Threads, Checking(t)
  PROVE  /\ lock = t /\ Busy(t) /\ HasSnapshot(t)
         /\ \A u \in Threads : u # t => ~Checking(u)
BY DEF FlowInv, LockInv, Checking, Busy, HasSnapshot

LEMMA BeginPersistKeepsInv ==
  ASSUME FlowInv, NEW t \in Threads, BeginPersist(t)
  PROVE  FlowInv'
<1>1. FlowTypes /\ LockInv /\ StoredInv
  BY DEF FlowInv
<1>2. /\ job[t].pc = "store" /\ job[t].done = Len(job[t].alerts)
      /\ UNCHANGED <<truth, now, cache, previous, lock, stored, saved, checks>>
  BY DEF BeginPersist, storeVars
<1>3. Checking(t)
  BY <1>2 DEF Checking
<1>4. job[t] \in Job /\ Len(stored) \in Nat /\ Len(job[t].alerts) \in Nat
  BY <1>1, JobFields
<1>5. job' = [job EXCEPT ![t] = [job[t] EXCEPT !.pc = "save", !.done = 0]]
  BY <1>1 DEF BeginPersist, FlowTypes
<1>6. [job[t] EXCEPT !.pc = "save", !.done = 0] \in Job
  BY <1>4 DEF Job
<1>7. /\ job'[t].pc = "save" /\ job'[t].snap = job[t].snap /\ job'[t].check = job[t].check
      /\ job'[t].names = job[t].names /\ job'[t].teams = job[t].teams /\ job'[t].at = job[t].at
      /\ job'[t].alerts = job[t].alerts /\ job'[t].done = 0
      /\ \A u \in Threads : u # t => job'[u] = job[u]
  BY <1>1, <1>4, <1>5 DEF FlowTypes, Job
<1>8. FlowTypes'
  BY <1>1, <1>2, <1>5, <1>6 DEF FlowTypes
<1>9. LockInv'
  BY <1>1, <1>2, <1>3, <1>4, <1>7 DEF LockInv, Checking
<1>10. \A i \in 1..Len(job[t].alerts) : \E k \in 1..Len(stored) : stored[k] = job[t].alerts[i]
  <2>1. /\ job[t].done <= Len(stored)
        /\ \A i \in 1..job[t].done : stored[Len(stored) - job[t].done + i] = job[t].alerts[i]
    BY <1>1, <1>2 DEF StoredInv, StoredFor
  <2>2. ASSUME NEW i \in 1..Len(job[t].alerts)
        PROVE  Len(stored) - job[t].done + i \in 1..Len(stored)
    <3>1. \A n, d \in Nat : d <= n => \A k \in 1..d : n - d + k \in 1..n
      OBVIOUS
    <3> QED
      BY <1>2, <1>4, <2>1, <3>1
  <2> QED
    BY <1>2, <2>1, <2>2
<1>11. StoredInv'
  <2>1. StoredFor(t)'
    BY <1>2, <1>7, <1>10 DEF StoredFor, Checking
  <2>2. ASSUME NEW u \in Threads, u # t
        PROVE  StoredFor(u)'
    <3>1. ~Checking(u) /\ job'[u] = job[u] /\ stored' = stored
      BY <1>2, <1>3, <1>7, <2>2, HolderIsAlone
    <3>2. Busy(u) => \A i \in 1..Len(stored) : stored[i].check # job[u].check
      BY <1>1, <3>1 DEF StoredInv, StoredFor
    <3> QED
      BY <3>1, <3>2 DEF StoredFor, Busy, Checking
  <2> QED
    BY <2>1, <2>2 DEF StoredInv
<1>12. Checking(t)'
  BY <1>7 DEF Checking
<1> QED
  BY <1>2, <1>3, <1>7, <1>8, <1>9, <1>11, <1>12, HolderIsAlone, InsideTheCheck DEF FlowInv

LEMMA SaveAlertKeepsInv ==
  ASSUME FlowInv, NEW t \in Threads, SaveAlert(t)
  PROVE  FlowInv'
<1>1. FlowTypes /\ LockInv /\ StoredInv
  BY DEF FlowInv
<1>2. /\ job[t].pc = "save" /\ job[t].done < Len(job[t].alerts)
      /\ saved' = saved \cup {job[t].alerts[job[t].done + 1]}
      /\ UNCHANGED <<truth, now, cache, previous, lock, stored, checks>>
  BY DEF SaveAlert, storeVars
<1>3. Checking(t)
  BY <1>2 DEF Checking
<1>4. /\ job[t] \in Job /\ job[t].alerts \in Seq(AlertRecord)
      /\ Len(job[t].alerts) \in Nat /\ job[t].done \in Nat
  BY <1>1, JobFields
<1>5. job' = [job EXCEPT ![t] = [job[t] EXCEPT !.done = job[t].done + 1]]
  BY <1>1, <1>4 DEF SaveAlert, FlowTypes, Job
<1>6. [job[t] EXCEPT !.done = job[t].done + 1] \in Job
  BY <1>4 DEF Job
<1>7. /\ job'[t].pc = "save" /\ job'[t].snap = job[t].snap /\ job'[t].check = job[t].check
      /\ job'[t].names = job[t].names /\ job'[t].teams = job[t].teams /\ job'[t].at = job[t].at
      /\ job'[t].alerts = job[t].alerts /\ job'[t].done = job[t].done + 1
      /\ \A u \in Threads : u # t => job'[u] = job[u]
  BY <1>1, <1>2, <1>4, <1>5 DEF FlowTypes, Job
<1>8. saved' \subseteq AlertRecord
  BY <1>1, <1>2, <1>4 DEF FlowTypes
<1>9. FlowTypes'
  BY <1>1, <1>2, <1>5, <1>6, <1>8 DEF FlowTypes
<1>10. LockInv'
  BY <1>1, <1>2, <1>3, <1>4, <1>7 DEF LockInv, Checking
<1>11. StoredInv'
  BY <1>1, <1>2, <1>7 DEF StoredInv, StoredFor, Busy, Checking
<1>12. Checking(t)'
  BY <1>7 DEF Checking
<1> QED
  BY <1>2, <1>3, <1>7, <1>9, <1>10, <1>11, <1>12, HolderIsAlone, InsideTheCheck DEF FlowInv

LEMMA FinishCheckKeepsInv ==
  ASSUME FlowInv, NEW t \in Threads, FinishCheck(t)
  PROVE  FlowInv'
<1>1. FlowTypes /\ ReadBefore /\ FreshnessInv /\ LockInv /\ NumbersInv /\ StoredInv
      /\ BatchesAdjacent
  BY DEF FlowInv
<1>2. /\ job[t].pc = "save" /\ previous' = job[t].snap /\ lock' = None
      /\ job' = [job EXCEPT ![t] = Idle]
      /\ UNCHANGED <<truth, now, cache, stored, saved, checks>>
  BY DEF FinishCheck, storeVars
<1>3. Checking(t) /\ HasSnapshot(t)
  BY <1>2 DEF Checking, HasSnapshot
<1>4. job[t].snap \in Snapshot /\ job[t].snap.read_at <= now
  BY <1>1, <1>3 DEF ReadBefore
<1>5. Idle \in Job /\ Idle.pc = "idle" /\ Idle.done <= Len(Idle.alerts)
  BY FlowAssumption DEF Job, Idle
<1>6. job'[t] = Idle /\ job'[t].pc = "idle" /\ \A u \in Threads : u # t => job'[u] = job[u]
  BY <1>1, <1>2, <1>5 DEF FlowTypes
<1>7. \A u \in Threads : ~Checking(u)'
  BY <1>3, <1>6, HolderIsAlone DEF Checking
<1>8. FlowTypes'
  BY <1>1, <1>2, <1>4, <1>5 DEF FlowTypes
<1>9. ReadBefore'
  BY <1>1, <1>2, <1>4, <1>6 DEF ReadBefore, HasSnapshot
<1>10. FreshnessInv'
  BY <1>1, <1>2, <1>6 DEF FreshnessInv
<1>11. LockInv'
  BY <1>1, <1>5, <1>6, <1>7 DEF LockInv
<1>12. NumbersInv'
  BY <1>1, <1>2, <1>6 DEF NumbersInv, Busy
<1>13. StoredInv'
  BY <1>1, <1>2, <1>6 DEF StoredInv, StoredFor, Busy, Checking
<1> QED
  BY <1>1, <1>2, <1>8, <1>9, <1>10, <1>11, <1>12, <1>13 DEF FlowInv, BatchesAdjacent

LEMMA RestartKeepsInv == FlowInv /\ Restart => FlowInv'
<1> SUFFICES ASSUME FlowInv, Restart PROVE FlowInv'
  OBVIOUS
<1>1. FlowTypes
  BY DEF FlowInv
<1>2. Idle \in Job /\ Idle.pc = "idle" /\ Idle.done <= Len(Idle.alerts)
  BY FlowAssumption DEF Job, Idle
<1>3. \A t \in Threads : job'[t].pc = "idle" /\ job'[t].done <= Len(job'[t].alerts)
  BY <1>2 DEF Restart
<1>4. FlowTypes'
  BY <1>1, <1>2 DEF FlowTypes, Restart
<1>5. cache' = None /\ previous' = None /\ stored' = <<>>
  BY DEF Restart
<1> QED
  BY <1>3, <1>4, <1>5 DEF FlowInv, ReadBefore, FreshnessInv, LockInv, NumbersInv, StoredInv,
                         StoredFor, BatchesAdjacent, HasSnapshot, Checking, Busy

\* Positions among the last d of n.
LEMMA TailIndex ==
  \A n, d, m, l \in Nat : m <= n /\ m > n - d /\ d <= l =>
    m - (n - d) \in 1..d /\ m - (n - d) \in 1..l /\ n - d + (m - (n - d)) = m
OBVIOUS

LEMMA StoreAlertKeepsInv ==
  ASSUME FlowInv, NEW t \in Threads, StoreAlert(t)
  PROVE  FlowInv'
<1>1. FlowTypes /\ ReadBefore /\ LockInv /\ NumbersInv /\ StoredInv /\ BatchesAdjacent
  BY DEF FlowInv
<1>2. /\ job[t].pc = "store" /\ job[t].done < Len(job[t].alerts)
      /\ UNCHANGED <<truth, now, cache, previous, lock, saved, checks>>
  BY DEF StoreAlert
<1>3. Checking(t)
  BY <1>2 DEF Checking
<1>4. /\ job[t] \in Job /\ job[t].alerts \in Seq(AlertRecord)
      /\ Len(job[t].alerts) \in Nat /\ job[t].done \in Nat /\ Len(stored) \in Nat
      /\ stored \in Seq(AlertRecord) /\ checks \in Nat
  BY <1>1, JobFields
<1>5. PICK n, d : n \in Nat /\ d \in Nat /\ n = Len(stored) /\ d = job[t].done
  BY <1>4
<1>6. PICK a : a = job[t].alerts[d + 1]
  OBVIOUS
<1>7. stored' = Append(stored, a)
  BY <1>5, <1>6 DEF StoreAlert
<1>8. \A i \in 1..Len(job[t].alerts) : job[t].alerts[i].check = job[t].check
  <2>1. job[t].snap \in Snapshot /\ job[t].names \in SUBSET Players
    BY <1>1, <1>3, <1>4, HolderIsAlone, JobFields DEF ReadBefore
  <2>2. job[t].check \in 1..checks /\ checks \in 0..MaxChecks /\ MaxChecks \in Nat
    BY <1>1, <1>3, HolderIsAlone, FlowAssumption DEF NumbersInv, FlowTypes
  <2>3. job[t].check \in 1..MaxChecks
    BY <2>2
  <2> QED
    BY <1>1, <1>3, <1>4, <2>1, <2>3, JobFields, AlertsAreTyped DEF LockInv
<1>9. d + 1 \in 1..Len(job[t].alerts)
  BY <1>2, <1>4, <1>5
<1>10. a \in AlertRecord /\ a.check = job[t].check
  BY <1>4, <1>6, <1>8, <1>9
<1>11. /\ stored' \in Seq(AlertRecord) /\ Len(stored') = n + 1
       /\ stored'[n + 1] = a /\ \A i \in 1..n : stored'[i] = stored[i]
  BY <1>4, <1>5, <1>7, <1>10
<1>12. job' = [job EXCEPT ![t] = [job[t] EXCEPT !.done = d + 1]]
  BY <1>1, <1>4, <1>5 DEF StoreAlert, FlowTypes, Job
<1>13. [job[t] EXCEPT !.done = d + 1] \in Job
  <2>1. \A j \in Job : [j EXCEPT !.done = d + 1] \in Job
    BY <1>5 DEF Job
  <2> QED
    BY <1>4, <2>1
<1>14. /\ job'[t].pc = "store" /\ job'[t].snap = job[t].snap /\ job'[t].check = job[t].check
       /\ job'[t].names = job[t].names /\ job'[t].teams = job[t].teams /\ job'[t].at = job[t].at
       /\ job'[t].alerts = job[t].alerts /\ job'[t].done = d + 1
       /\ \A u \in Threads : u # t => job'[u] = job[u]
  BY <1>1, <1>2, <1>4, <1>12 DEF FlowTypes, Job
<1>15. /\ d <= n /\ \A i \in 1..(n - d) : stored[i].check # job[t].check
       /\ \A i \in 1..d : stored[n - d + i] = job[t].alerts[i]
  BY <1>1, <1>2, <1>5 DEF StoredInv, StoredFor
<1>16. \A u \in Threads : u # t => ~Checking(u) /\ ~Checking(u)'
  BY <1>3, <1>14, HolderIsAlone DEF Checking
<1>17. FlowTypes'
  BY <1>1, <1>2, <1>11, <1>12, <1>13 DEF FlowTypes
<1>18. ReadBefore' /\ FreshnessInv'
  BY <1>1, <1>2, <1>14 DEF FlowInv, ReadBefore, FreshnessInv, HasSnapshot
<1>19. LockInv'
  BY <1>1, <1>2, <1>3, <1>4, <1>5, <1>9, <1>14, <1>16 DEF LockInv
<1>20. \A i \in 1..(n + 1) : i \in 1..n \/ i = n + 1
  BY <1>5
<1>21. NumbersInv'
  <2>1. a.check <= checks
    BY <1>1, <1>2, <1>4, <1>10 DEF NumbersInv, Busy
  <2>2. \A i \in 1..Len(stored') : stored'[i].check <= checks'
    BY <1>1, <1>2, <1>5, <1>11, <1>20, <2>1 DEF NumbersInv
  <2> QED
    BY <1>1, <1>2, <1>14, <2>2 DEF NumbersInv, Busy
<1>22. StoredInv'
  <2>1. StoredFor(t)'
    <3>1. d + 1 <= n + 1 /\ (n + 1) - (d + 1) = n - d /\ n - d <= n
      <4>1. n \in Nat /\ d \in Nat /\ d <= n
        BY <1>5, <1>15
      <4> QED
        BY ONLY <4>1
    <3>2. \A i \in 1..(n - d) : i \in 1..n
      BY <1>5, <1>15
    <3>3. \A i \in 1..(d + 1) : stored'[n - d + i] = job[t].alerts[i]
      <4>1. \A i \in 1..d : n - d + i \in 1..n
        BY <1>5, <1>15
      <4>2. \A i \in 1..(d + 1) : i \in 1..d \/ (i = d + 1 /\ n - d + i = n + 1)
        BY <1>5
      <4> QED
        BY <1>6, <1>11, <1>15, <4>1, <4>2
    <3> QED
      BY <1>11, <1>14, <1>15, <3>1, <3>2, <3>3 DEF StoredFor, Checking
  <2>2. ASSUME NEW u \in Threads, u # t
        PROVE  StoredFor(u)'
    <3>1. Busy(u) => /\ \A i \in 1..n : stored[i].check # job[u].check
                     /\ a.check # job[u].check
      BY <1>1, <1>3, <1>5, <1>10, <1>16, <2>2, HolderIsAlone DEF StoredInv, StoredFor, NumbersInv
    <3> QED
      BY <1>11, <1>14, <1>16, <1>20, <2>2, <3>1 DEF StoredFor, Busy, Checking
  <2> QED
    BY <2>1, <2>2 DEF StoredInv
<1>23. BatchesAdjacent'
  <2> SUFFICES ASSUME NEW i \in 1..(n + 1), NEW k \in 1..(n + 1), i < k,
                      stored'[i].check = stored'[k].check, NEW j \in i..k
               PROVE  stored'[j].check = stored'[i].check
    BY <1>11 DEF BatchesAdjacent
  <2>1. CASE k \in 1..n
    <3>1. i \in 1..n /\ j \in 1..n
      BY <1>5, <2>1
    <3> QED
      BY <1>1, <1>5, <1>11, <2>1, <3>1 DEF BatchesAdjacent
  <2>2. CASE k = n + 1
    <3>1. i \in 1..n /\ stored[i].check = job[t].check
      BY <1>5, <1>10, <1>11, <2>2
    <3>2. i > n - d
      BY <1>5, <1>15, <3>1
    <3>3. \A m \in 1..n : m > n - d => stored[m].check = job[t].check
      <4> SUFFICES ASSUME NEW m \in 1..n, m > n - d
                   PROVE  stored[m].check = job[t].check
        OBVIOUS
      <4>1. d <= Len(job[t].alerts) /\ m \in Nat /\ m <= n
        BY <1>4, <1>5, <1>9
      <4>2. PICK x : x = m - (n - d)
        OBVIOUS
      <4>3. x \in 1..d /\ x \in 1..Len(job[t].alerts) /\ n - d + x = m
        <5>1. PICK l : l \in Nat /\ l = Len(job[t].alerts)
          BY <1>4
        <5>2. n \in Nat /\ d \in Nat /\ m \in Nat /\ m <= n /\ m > n - d /\ d <= l
          BY <1>5, <4>1, <5>1
        <5>3. x \in 1..d /\ x \in 1..l /\ n - d + x = m
          BY ONLY <4>2, <5>1, <5>2, TailIndex
        <5> QED
          BY <5>1, <5>3
      <4>4. stored[m] = job[t].alerts[x]
        BY <1>15, <4>3
      <4> QED
        BY <1>8, <4>3, <4>4
    <3>4. j = n + 1 \/ (j \in 1..n /\ j > n - d)
      BY <1>5, <2>2, <3>1, <3>2
    <3> QED
      BY <1>10, <1>11, <3>1, <3>3, <3>4
  <2> QED
    BY <1>20, <2>1, <2>2
<1> QED
  BY <1>17, <1>18, <1>19, <1>21, <1>22, <1>23 DEF FlowInv

LEMMA FlowStep == FlowInv /\ [FlowNext]_vars => FlowInv'
<1> SUFFICES ASSUME FlowInv, [FlowNext]_vars PROVE FlowInv'
  OBVIOUS
<1>1. CASE \/ Tick \/ ClearCache \/ ListAlerts \/ ClearAlerts
           \/ \E p \in Players, status \in Statuses : StatusChange(p, status)
  BY <1>1, QuietKeepsInv
<1>2. CASE Restart
  BY <1>2, RestartKeepsInv
<1>3. ASSUME NEW t \in Threads,
             \E filter \in Filters : StartEvaluation(t, filter[1], filter[2])
      PROVE  FlowInv'
  BY <1>3, StartKeepsInv
<1>4. ASSUME NEW t \in Threads, Steps(t)
      PROVE  FlowInv'
  BY <1>4, FetchKeepsInv, SetCachedKeepsInv, BeginCheckKeepsInv, StoreAlertKeepsInv,
     BeginPersistKeepsInv, SaveAlertKeepsInv, FinishCheckKeepsInv DEF Steps
<1>5. CASE UNCHANGED vars
  BY <1>5 DEF vars, storeVars, FlowInv, FlowTypes, ReadBefore, FreshnessInv, LockInv, NumbersInv, StoredInv,
              StoredFor, BatchesAdjacent, HasSnapshot, Checking, Busy
<1> QED
  BY <1>1, <1>2, <1>3, <1>4, <1>5 DEF FlowNext

-----------------------------------------------------------------------------
(* No trouble goes unreported for a player whom every evaluation names.    *)

\* An alert about the player was added, of this severity or worse.
Reported(p, status) == \E k \in 1..Len(stored) :
  /\ stored[k].kind = "player" /\ stored[k].player = p
  /\ stored[k].value \in Statuses /\ Severity[stored[k].value] >= Severity[status]

\* What the last check left: every player it saw in trouble has an alert.
RegularInv ==
  /\ \A t \in Threads : Busy(t) => AlwaysNamed \subseteq job[t].names
  /\ previous # None => \A p \in AlwaysNamed :
       Reportable(previous.status[p]) => Reported(p, previous.status[p])

\* Every player who worsened has an alert in the list of the check.
LEMMA WorseningIsListed ==
  ASSUME NEW prev, NEW snap \in Snapshot, NEW names \in SUBSET Players, NEW teams,
         NEW check \in 1..MaxChecks, NEW at \in 0..MaxTime,
         NEW p \in Worsened(prev, snap, names, teams)
  PROVE  \E i \in 1..Len(AlertsOf(prev, snap, names, teams, check, at)) :
           LET a == AlertsOf(prev, snap, names, teams, check, at)[i]
           IN  a.kind = "player" /\ a.player = p /\ a.value = snap.status[p]
<1> DEFINE W == Worsened(prev, snap, names, teams)
           alert(kind, q) == [check |-> check, kind |-> kind, player |-> q,
                              value |-> IF q = None THEN None ELSE snap.status[q],
                              created_at |-> at]
           first == [i \in 1..Cardinality(W) |-> alert("player", SetToSeq(W)[i])]
           second == IF ConfidenceAlert(prev, snap) THEN <<alert("confidence", None)>> ELSE <<>>
           third == IF SourceAlert(prev, snap) THEN <<alert("source", None)>> ELSE <<>>
           Produced == [check : {check}, kind : {"player", "confidence", "source"},
                   player : Players \cup {None}, value : Statuses \cup {None},
                   created_at : {at}]
<1>1. W \subseteq Players /\ IsFiniteSet(W)
  BY WorsenedArePlayers, FlowAssumption, FS_Subset
<1>2. PICK n \in Nat : n = Cardinality(W)
  BY <1>1, ListOfSet
<1>3. PICK i \in 1..n : SetToSeq(W)[i] = p
  BY <1>1, <1>2, ListOfSet
<1>4. \A j \in 1..n : SetToSeq(W)[j] \in Players
  BY <1>1, <1>2, ListOfSet
<1>5. \A kind \in {"player", "confidence", "source"} :
        \A q \in Players \cup {None} : alert(kind, q) \in Produced
  BY DEF Snapshot
<1>6. first \in Seq(Produced) /\ Len(first) = n /\ first[i] = alert("player", p)
  <2>1. first = [j \in 1..n |-> alert("player", SetToSeq(W)[j])]
    BY <1>2
  <2> HIDE DEF first, alert, Produced, W
  <2> QED
    BY <1>3, <1>4, <1>5, <2>1
<1>7. second \in Seq(Produced) /\ third \in Seq(Produced)
  <2>1. alert("confidence", None) \in Produced /\ alert("source", None) \in Produced
    BY <1>5
  <2> HIDE DEF alert, Produced
  <2> QED
    BY <2>1
<1>8. AlertsOf(prev, snap, names, teams, check, at) = first \o second \o third
  BY DEF AlertsOf
<1>9. /\ i \in 1..Len(first \o second \o third)
      /\ (first \o second \o third)[i] = alert("player", p)
  <2> HIDE DEF first, second, third, Produced, alert
  <2> QED
    BY <1>2, <1>3, <1>6, <1>7
<1>10. p # None /\ alert("player", p).kind = "player" /\ alert("player", p).player = p
       /\ alert("player", p).value = snap.status[p]
  BY <1>1, FlowAssumption
<1> HIDE DEF first, second, third, alert
<1> QED
  BY <1>8, <1>9, <1>10

\* Severities are numbers.
LEMMA SeverityIsNumber == \A status \in Statuses : Severity[status] \in Nat
BY FlowAssumption DEF Severity

\* A check that saves has alerts for the named players in trouble: those whom
\* it found worse, and the others from before.
LEMMA CheckLeavesAlerts ==
  ASSUME FlowInv, RegularInv, NEW t \in Threads, job[t].pc = "save",
         NEW p \in AlwaysNamed, Reportable(job[t].snap.status[p])
  PROVE  Reported(p, job[t].snap.status[p])
<1>1. FlowTypes /\ ReadBefore /\ LockInv /\ NumbersInv /\ StoredInv
  BY DEF FlowInv
<1>2. Checking(t) /\ Busy(t) /\ HasSnapshot(t)
  BY DEF Checking, Busy, HasSnapshot
<1>3. PICK snap \in Snapshot : snap = job[t].snap
  BY <1>1, <1>2 DEF ReadBefore
<1>4. PICK names \in SUBSET Players : names = job[t].names /\ p \in names
  BY <1>1, <1>2, JobFields DEF RegularInv
<1>5. PICK check \in 1..MaxChecks : check = job[t].check
  <2>1. job[t].check \in 1..checks /\ checks \in 0..MaxChecks /\ MaxChecks \in Nat
    BY <1>1, <1>2, FlowAssumption DEF NumbersInv, FlowTypes
  <2> QED
    BY <2>1
<1>6. PICK alerts, at : /\ at = job[t].at /\ at \in 0..MaxTime
                        /\ alerts = AlertsOf(previous, snap, names, job[t].teams, check, at)
  BY <1>1, JobFields
<1>7. job[t].alerts = alerts
  BY <1>1, <1>2, <1>3, <1>4, <1>5, <1>6 DEF LockInv
<1>9. p \in Players /\ snap.status[p] \in Statuses /\ Severity[snap.status[p]] \in Nat
  BY SeverityIsNumber DEF AlwaysNamed, Snapshot
<1>10. CASE p \in Worsened(previous, snap, names, job[t].teams)
  <2>1. PICK i \in 1..Len(alerts) :
          alerts[i].kind = "player" /\ alerts[i].player = p /\ alerts[i].value = snap.status[p]
    BY <1>6, <1>10, WorseningIsListed
  <2>2. PICK k \in 1..Len(stored) : stored[k] = alerts[i]
    BY <1>1, <1>7, <2>1 DEF StoredInv, StoredFor
  <2> QED
    BY <1>3, <1>9, <2>1, <2>2 DEF Reported
<1>11. CASE p \notin Worsened(previous, snap, names, job[t].teams)
  <2>1. Severity[snap.status[p]] > Severity["available"]
    BY <1>3, FlowAssumption DEF Reportable, Alertable
  <2>2. previous # None /\ previous \in Snapshot
    BY <1>1, <1>3, <1>4, <1>11, <2>1
       DEF Worsened, ShouldAlertPlayer, Reportable, FlowTypes
  <2>3. previous.status[p] \in Statuses /\ Severity[previous.status[p]] \in Nat
    BY <1>9, <2>2, SeverityIsNumber DEF Snapshot
  <2>4. ~(Severity[snap.status[p]] > Severity[previous.status[p]])
    BY <1>3, <1>4, <1>11, <2>2 DEF Worsened, Checked, ShouldAlertPlayer, Reportable
  <2>5. Severity[previous.status[p]] >= Severity[snap.status[p]]
    BY <1>9, <2>3, <2>4
  <2>6. Reportable(previous.status[p])
    <3>1. \A quiet \in Statuses \ Alertable : Severity[quiet] < Severity[snap.status[p]]
      BY <1>3 DEF Reportable
    <3>2. \A quiet \in Statuses \ Alertable : Severity[quiet] \in Nat
      BY SeverityIsNumber
    <3>3. \A quiet \in Statuses \ Alertable : Severity[quiet] < Severity[previous.status[p]]
      BY <1>9, <2>3, <2>5, <3>1, <3>2
    <3>4. previous.status[p] \in Alertable
      BY <2>3, <3>3
    <3> QED
      BY <3>3, <3>4 DEF Reportable
  <2>7. PICK k \in 1..Len(stored) :
          /\ stored[k].kind = "player" /\ stored[k].player = p
          /\ stored[k].value \in Statuses
          /\ Severity[stored[k].value] >= Severity[previous.status[p]]
    BY <2>2, <2>6 DEF RegularInv, Reported
  <2>8. Severity[stored[k].value] \in Nat
    BY <2>7, SeverityIsNumber
  <2>9. Severity[stored[k].value] >= Severity[snap.status[p]]
    BY <1>9, <2>3, <2>5, <2>7, <2>8
  <2> QED
    BY <1>3, <2>7, <2>9 DEF Reported
<1> QED
  BY <1>10, <1>11

LEMMA InitRegularInv == FlowInit => RegularInv
BY DEF FlowInit, RegularInv, Busy, Idle

\* The store only grows while the compared snapshot stays.
LEMMA StoreGrows ==
  ASSUME FlowTypes, stored' = stored \/ \E a : stored' = Append(stored, a),
         NEW p, NEW status, Reported(p, status)
  PROVE  Reported(p, status)'
<1>1. stored \in Seq(AlertRecord)
  BY DEF FlowTypes
<1>2. PICK k \in 1..Len(stored) :
        /\ stored[k].kind = "player" /\ stored[k].player = p
        /\ stored[k].value \in Statuses /\ Severity[stored[k].value] >= Severity[status]
  BY DEF Reported
<1>3. k \in 1..Len(stored') /\ stored'[k] = stored[k]
  BY <1>1, <1>2
<1> QED
  BY <1>2, <1>3 DEF Reported

LEMMA RegularStep == FlowInv /\ RegularInv /\ [FlowNext]_vars => RegularInv'
<1> SUFFICES ASSUME FlowInv, RegularInv, [FlowNext]_vars PROVE RegularInv'
  OBVIOUS
<1>1. FlowTypes /\ job \in [Threads -> Job]
  BY DEF FlowInv, FlowTypes
<1>2. CASE Restart
  BY <1>2 DEF Restart, RegularInv, Busy, Idle
<1>3. ASSUME NEW t \in Threads, FinishCheck(t)
      PROVE  RegularInv'
  <2>1. /\ job[t].pc = "save" /\ previous' = job[t].snap /\ stored' = stored
        /\ job' = [job EXCEPT ![t] = Idle]
    BY <1>3 DEF FinishCheck, storeVars
  <2>2. PICK snap : snap = job[t].snap
    OBVIOUS
  <2>3. \A p \in AlwaysNamed : Reportable(snap.status[p]) => Reported(p, snap.status[p])'
    BY <2>1, <2>2, CheckLeavesAlerts DEF Reported
  <2>4. \A u \in Threads : Busy(u)' => AlwaysNamed \subseteq job'[u].names
    BY <1>1, <2>1 DEF RegularInv, Busy, Idle
  <2> QED
    BY <2>1, <2>2, <2>3, <2>4 DEF RegularInv
<1>4. ASSUME previous' = previous, stored' = stored \/ \E a : stored' = Append(stored, a),
             \A u \in Threads : Busy(u)' => AlwaysNamed \subseteq job'[u].names
      PROVE  RegularInv'
  BY <1>1, <1>4, StoreGrows DEF RegularInv, Reportable
<1>5. ASSUME NEW t \in Threads,
             \E filter \in Filters : StartEvaluation(t, filter[1], filter[2])
      PROVE  RegularInv'
  <2>1. PICK filter \in Filters : StartEvaluation(t, filter[1], filter[2])
    BY <1>5
  <2>2. job'[t].names = filter[1] /\ \A u \in Threads : u # t => job'[u] = job[u]
    BY <1>1, <2>1 DEF StartEvaluation, Idle
  <2>3. \A u \in Threads : Busy(u)' => AlwaysNamed \subseteq job'[u].names
    BY <2>2 DEF RegularInv, Busy, AlwaysNamed
  <2> QED
    BY <1>4, <2>1, <2>3 DEF StartEvaluation, storeVars
<1>6. ASSUME NEW t \in Threads, Steps(t), ~FinishCheck(t)
      PROVE  RegularInv'
  <2> DEFINE Quiet == /\ previous' = previous
                      /\ stored' = stored \/ \E a : stored' = Append(stored, a)
                      /\ \A u \in Threads : u # t => job'[u] = job[u]
                      /\ Busy(t) /\ job'[t].names = job[t].names
  <2>1. job[t] \in Job
    BY <1>1
  <2>2. Quiet
    <3>1. CASE \E source \in Sources : Fetch(t, source)
      BY <1>1, <2>1, <3>1 DEF Fetch, storeVars, Busy, Job
    <3>2. CASE SetCached(t) \/ BeginPersist(t)
      BY <1>1, <2>1, <3>2 DEF SetCached, BeginPersist, storeVars, Busy, Job
    <3>3. CASE BeginCheck(t)
      <4>1. /\ job[t].pc = "ready" /\ UNCHANGED <<previous, stored>>
            /\ \E found : job' = [job EXCEPT ![t].pc = "store", ![t].done = 0, ![t].at = now,
                                             ![t].alerts = found]
        BY <3>3 DEF BeginCheck, storeVars
      <4> QED
        BY <1>1, <2>1, <4>1 DEF Busy, Job
    <3>4. CASE StoreAlert(t)
      <4>1. job[t].pc = "store" /\ previous' = previous /\ \E a : stored' = Append(stored, a)
        BY <3>4 DEF StoreAlert
      <4>2. job'[t].names = job[t].names /\ \A u \in Threads : u # t => job'[u] = job[u]
        BY <1>1, <2>1, <3>4 DEF StoreAlert, Job
      <4> QED
        BY <4>1, <4>2 DEF Busy
    <3>5. CASE SaveAlert(t)
      BY <1>1, <2>1, <3>5 DEF SaveAlert, storeVars, Busy, Job
    <3> QED
      BY <1>6, <3>1, <3>2, <3>3, <3>4, <3>5 DEF Steps
  <2>3. \A u \in Threads : Busy(u)' => AlwaysNamed \subseteq job'[u].names
    BY <2>2 DEF RegularInv, Busy
  <2> QED
    BY <1>4, <2>2, <2>3
<1>7. CASE \/ Tick \/ ClearCache \/ ListAlerts \/ ClearAlerts \/ UNCHANGED vars
           \/ \E p \in Players, status \in Statuses : StatusChange(p, status)
  <2>1. UNCHANGED <<previous, stored, job>>
    BY <1>7 DEF Tick, ClearCache, ListAlerts, ClearAlerts, StatusChange, storeVars, vars
  <2> QED
    BY <1>4, <2>1 DEF RegularInv, Busy
<1> QED
  BY <1>2, <1>3, <1>5, <1>6, <1>7 DEF FlowNext

-----------------------------------------------------------------------------
(* What the store keeps.                                                   *)

\* Every alert added is held, or was dropped by the rules of the store.
HeldInv ==
  /\ held \subseteq 1..Len(stored) /\ cleared \in 0..Len(stored)
  /\ \A i \in 1..Len(stored) : i \in held \/ Dropped(i)

LEMMA InitHeldInv == FlowInit => HeldInv
BY DEF FlowInit, HeldInv

\* What has been dropped is not held again: time passes, and ids grow.
LEMMA DroppedStays ==
  ASSUME FlowTypes, HeldInv, now' \in Nat, now <= now', cleared' = cleared,
         Len(stored') \in Nat, Len(stored') >= Len(stored),
         NEW i \in 1..Len(stored), stored'[i] = stored[i], Dropped(i)
  PROVE  Dropped(i)'
<1>1. PICK c, n, at, m : /\ c = cleared /\ n = Len(stored) /\ at = stored[i].created_at
                         /\ m = Len(stored')
  OBVIOUS
<1>2. c \in Nat /\ n \in Nat /\ at \in Nat /\ i \in Nat /\ m \in Nat /\ n <= m
  <2>1. stored \in Seq(AlertRecord) /\ n \in Nat
    BY <1>1 DEF FlowTypes
  <2>2. stored[i] \in AlertRecord
    BY <2>1
  <2>3. stored[i].created_at \in 0..MaxTime
    BY <2>2 DEF AlertRecord
  <2> QED
    BY <1>1, <2>1, <2>3, FlowAssumption DEF HeldInv
<1>3. /\ stored'[i].created_at = at /\ now \in Nat /\ now' \in Nat /\ StoreTtl \in Nat
      /\ MaxAlerts \in Nat
  BY <1>1, FlowAssumption DEF FlowTypes
<1>4. CASE now - at > StoreTtl
  <2>1. now' - at > StoreTtl
    BY <1>2, <1>3, <1>4
  <2> QED
    BY <1>3, <2>1 DEF Dropped
<1>5. CASE n - i >= MaxAlerts
  <2>1. m - i >= MaxAlerts
    BY <1>2, <1>3, <1>5
  <2> QED
    BY <1>1, <2>1 DEF Dropped
<1>6. CASE i <= c
  BY <1>1, <1>2, <1>6 DEF Dropped
<1> QED
  BY <1>1, <1>4, <1>5, <1>6 DEF Dropped

\* A full store evicts an alert that, with the one added, is no longer among the
\* MaxAlerts newest.
LEMMA EvictedIsOld ==
  ASSUME NEW n \in Nat, held \subseteq 1..n, NEW i \in Evicted
  PROVE  (n + 1) - i >= MaxAlerts
<1>1. IsFiniteSet(held) /\ IsFiniteSet(1..n)
  <2>1. IsFiniteSet(1..n)
    BY FS_Interval
  <2> QED
    BY <2>1, FS_Subset
<1>2. Cardinality(held) \in Nat /\ Cardinality(held) >= MaxAlerts /\ MaxAlerts \in Nat \ {0}
  BY <1>1, FS_CardinalityType, FlowAssumption DEF Evicted
<1>3. held # {}
  <2>1. Cardinality({}) = 0
    BY FS_EmptySet
  <2> QED
    BY <1>2, <2>1
<1>4. held \subseteq Nat
  OBVIOUS
<1>5. PICK x \in held : \A y \in held : ~ (<<y, x>> \in OpToRel(<, Nat))
  BY <1>3, <1>4, NatLessThanWellFounded, WFMin
<1>6. \A y \in held : x <= y
  <2>1. SUFFICES ASSUME NEW y \in held, y < x PROVE FALSE
    BY <1>4
  <2>2. <<y, x>> \in OpToRel(<, Nat)
    BY <1>4, <2>1 DEF OpToRel
  <2> QED
    BY <1>5, <2>2
<1>7. i \in held /\ \A k \in held : i <= k
  BY <1>2, <1>6 DEF Evicted
<1>8. held \subseteq i..n /\ i \in Int
  BY <1>4, <1>7
<1>9. IsFiniteSet(i..n) /\ Cardinality(i..n) = n - i + 1
  BY <1>7, <1>8, FS_Interval
<1>10. Cardinality(held) <= Cardinality(i..n)
  BY <1>8, <1>9, FS_Subset
<1> QED
  BY <1>2, <1>8, <1>9, <1>10

LEMMA HeldStep == FlowInv /\ HeldInv /\ [FlowNext]_vars => HeldInv'
<1> SUFFICES ASSUME FlowInv, HeldInv, [FlowNext]_vars PROVE HeldInv'
  OBVIOUS
<1>1. /\ FlowTypes /\ stored \in Seq(AlertRecord) /\ Len(stored) \in Nat
      /\ now \in Nat /\ StoreTtl \in Nat /\ MaxAlerts \in Nat
  BY FlowAssumption DEF FlowInv, FlowTypes
<1>2. ASSUME NEW t \in Threads, StoreAlert(t)
      PROVE  HeldInv'
  <2>1. PICK n \in Nat : n = Len(stored)
    BY <1>1
  <2>2. /\ stored' = Append(stored, job[t].alerts[job[t].done + 1])
        /\ held' = (held \ Evicted) \cup {Len(stored')} /\ UNCHANGED <<now, cleared>>
    BY <1>2 DEF StoreAlert
  <2>3. Len(stored') = n + 1 /\ \A i \in 1..n : stored'[i] = stored[i]
    BY <1>1, <2>1, <2>2
  <2>4. held \subseteq 1..n /\ cleared \in 0..n
    BY <2>1 DEF HeldInv
  <2>5. held' \subseteq 1..(n + 1) /\ cleared' \in 0..(n + 1)
    <3>1. 1..n \subseteq 1..(n + 1) /\ n + 1 \in 1..(n + 1)
      OBVIOUS
    <3>2. held' \subseteq held \cup {n + 1} /\ cleared' = cleared
      BY <2>2, <2>3
    <3> QED
      BY <2>4, <3>1, <3>2
  <2>6. ASSUME NEW i \in 1..n
        PROVE  i \in held' \/ Dropped(i)'
    <3>1. CASE i \in Evicted
      <4>1. (n + 1) - i >= MaxAlerts
        BY <2>4, <3>1, EvictedIsOld
      <4> QED
        BY <2>3, <4>1 DEF Dropped
    <3>2. CASE Dropped(i)
      BY <1>1, <2>1, <2>2, <2>3, <3>2, DroppedStays
    <3> QED
      BY <2>1, <2>2, <3>1, <3>2 DEF HeldInv
  <2>7. n + 1 \in held'
    BY <2>2, <2>3
  <2> QED
    BY <2>3, <2>5, <2>6, <2>7 DEF HeldInv
<1>3. CASE ListAlerts
  <2>1. held' = Listed /\ UNCHANGED <<now, stored, cleared>>
    BY <1>3 DEF ListAlerts
  <2>2. ASSUME NEW i \in 1..Len(stored), i \in held, i \notin Listed
        PROVE  Dropped(i)
    <3>1. stored[i].created_at \in Int
      <4>1. stored[i] \in AlertRecord
        BY <1>1, <2>2
      <4> QED
        BY <4>1 DEF AlertRecord
    <3> QED
      BY <1>1, <2>2, <3>1 DEF Listed, Dropped
  <2>3. \A i \in 1..Len(stored) : Dropped(i) => Dropped(i)'
    BY <2>1 DEF Dropped
  <2> QED
    BY <2>1, <2>2, <2>3 DEF HeldInv, Listed
<1>4. CASE ClearAlerts
  <2>1. held' = {} /\ cleared' = Len(stored) /\ stored' = stored
    BY <1>4 DEF ClearAlerts
  <2>2. \A i \in 1..Len(stored) : Dropped(i)'
    BY <2>1 DEF Dropped
  <2> QED
    BY <1>1, <2>1, <2>2 DEF HeldInv
<1>5. CASE Restart
  BY <1>5 DEF Restart, HeldInv
<1>6. ASSUME UNCHANGED storeVars, now' \in Nat, now <= now'
      PROVE  HeldInv'
  <2>1. stored' = stored /\ held' = held /\ cleared' = cleared
    BY <1>6 DEF storeVars
  <2>2. \A i \in 1..Len(stored) : Dropped(i) => Dropped(i)'
    BY <1>1, <1>6, <2>1, DroppedStays
  <2> QED
    BY <2>1, <2>2 DEF HeldInv
<1>7. CASE Tick
  BY <1>1, <1>6, <1>7 DEF Tick
<1>8. ASSUME UNCHANGED <<storeVars, now>>
      PROVE  HeldInv'
  BY <1>1, <1>6, <1>8
<1>9. ASSUME NEW t \in Threads, Steps(t), ~StoreAlert(t)
      PROVE  UNCHANGED <<storeVars, now>>
  BY <1>9 DEF Steps, Fetch, SetCached, BeginCheck, BeginPersist, SaveAlert, FinishCheck
<1>10. ASSUME NEW t \in Threads,
              \E filter \in Filters : StartEvaluation(t, filter[1], filter[2])
       PROVE  UNCHANGED <<storeVars, now>>
  BY <1>10 DEF StartEvaluation
<1>11. CASE \/ ClearCache \/ UNCHANGED vars
            \/ \E p \in Players, status \in Statuses : StatusChange(p, status)
  <2>1. UNCHANGED <<storeVars, now>>
    BY <1>11 DEF ClearCache, StatusChange, vars
  <2> QED
    BY <1>8, <2>1
<1> QED
  BY <1>2, <1>3, <1>4, <1>5, <1>7, <1>8, <1>9, <1>10, <1>11 DEF FlowNext

-----------------------------------------------------------------------------
(* The theorems.                                                           *)

\* The inductive invariant holds in every reachable state.
THEOREM FlowInvariant == FlowSpec => []FlowInv
BY InitFlowInv, FlowStep, PTL DEF FlowSpec

\* Every alert added is in the store, or was dropped by its rules.
THEOREM HeldInvariant == FlowSpec => []HeldInv
BY FlowInvariant, InitHeldInv, HeldStep, PTL DEF FlowSpec

\* Every variable keeps its type.
THEOREM FlowTypeCorrect == FlowSpec => []FlowTypeOK
<1>1. FlowInv /\ HeldInv => FlowTypeOK
  <2> SUFFICES ASSUME FlowInv, HeldInv PROVE FlowTypeOK
    OBVIOUS
  <2>1. FlowTypes /\ ReadBefore /\ FreshnessInv /\ LockInv /\ StoredInv
    BY DEF FlowInv
  <2>2. ASSUME NEW x \in Snapshot, x.read_at <= now
        PROVE  IsSnapshot(x)
    BY <2>1, <2>2, FlowAssumption DEF IsSnapshot, Snapshot, FlowTypes
  <2>3. cache # None => IsSnapshot(cache.snap) /\ cache.expires_at \in Nat
    BY <2>1, <2>2 DEF FlowTypes, ReadBefore
  <2>4. previous # None => IsSnapshot(previous)
    BY <2>1, <2>2 DEF FlowTypes, ReadBefore
  <2>5. ASSUME NEW t \in Threads
        PROVE  /\ job[t].pc \in {"idle", "fetching", "fetched", "ready", "store", "save"}
               /\ HasSnapshot(t) => IsSnapshot(job[t].snap)
               /\ job[t].alerts \in Seq(AlertRecord)
               /\ job[t].done \in 0..Len(job[t].alerts)
    BY <2>1, <2>2, JobFields DEF ReadBefore, LockInv, Job
  <2>6. held \subseteq 1..Len(stored) /\ cleared \in 0..Len(stored)
    BY DEF HeldInv
  <2> QED
    BY <2>1, <2>3, <2>4, <2>5, <2>6 DEF FlowTypeOK, FlowTypes, HasSnapshot
<1> QED
  BY <1>1, FlowInvariant, HeldInvariant, PTL

\* What a check found stays true while it stores and saves its alerts.
THEOREM DetectionAlwaysValid == FlowSpec => []DetectionStaysValid
<1>1. FlowInv => DetectionStaysValid
  BY DEF FlowInv, LockInv, Checking, DetectionStaysValid
<1> QED
  BY <1>1, FlowInvariant, PTL

\* Concurrent checks never interleave their alerts.
THEOREM BatchesAlwaysAdjacent == FlowSpec => []BatchesAdjacent
<1>1. FlowInv => BatchesAdjacent
  BY DEF FlowInv
<1> QED
  BY <1>1, FlowInvariant, PTL

\* A cache hit is at most the TTL and one fetch out of date.
THEOREM CacheAlwaysRecent == FlowSpec => []CacheAgeBounded
<1>1. FlowInv => CacheAgeBounded
  <2> SUFFICES ASSUME FlowInv, CacheFresh
               PROVE  now - cache.snap.read_at <= CacheTtl + FetchMax
    BY DEF CacheAgeBounded
  <2>1. /\ cache.snap.read_at \in Nat /\ cache.expires_at \in Nat /\ now \in Nat
        /\ CacheTtl \in Nat /\ FetchMax \in Nat
    BY FlowAssumption DEF CacheFresh, FlowInv, FlowTypes, Snapshot
  <2>2. now <= cache.expires_at /\ cache.expires_at <= cache.snap.read_at + CacheTtl + FetchMax
    BY DEF CacheFresh, FlowInv, FreshnessInv
  <2> QED
    BY <2>1, <2>2
<1> QED
  BY <1>1, FlowInvariant, PTL

\* What the database has of a check, the memory has in full.
THEOREM AlwaysSavedAfterStored == FlowSpec => SavedAfterStored
<1>1. FlowInv /\ [FlowNext]_vars => [SavesStoredAlerts]_vars
  <2> SUFFICES ASSUME FlowInv, FlowNext, NEW a \in saved' \ saved
               PROVE  \E t \in Threads : /\ a.check = job[t].check
                                          /\ ToSet(job[t].alerts) \subseteq ToSet(stored)
    BY DEF SavesStoredAlerts
  <2>1. PICK t \in Threads : SaveAlert(t)
    BY DEF FlowNext, Steps, StatusChange, Tick, ClearCache, ListAlerts, ClearAlerts, Restart,
           StartEvaluation, Fetch, SetCached, BeginCheck, StoreAlert, BeginPersist, FinishCheck
  <2>2. FlowTypes /\ ReadBefore /\ LockInv /\ NumbersInv /\ StoredInv /\ Checking(t)
    BY <2>1 DEF FlowInv, SaveAlert, Checking
  <2>3. /\ job[t].pc = "save" /\ job[t].done < Len(job[t].alerts)
        /\ a = job[t].alerts[job[t].done + 1]
    BY <2>1 DEF SaveAlert
  <2>4. /\ job[t].alerts \in Seq(AlertRecord) /\ Len(job[t].alerts) \in Nat
        /\ job[t].done \in Nat /\ stored \in Seq(AlertRecord)
    BY <2>2, JobFields
  <2>5. job[t].snap \in Snapshot /\ job[t].names \in SUBSET Players
    BY <2>2, HolderIsAlone, JobFields DEF ReadBefore
  <2>6. job[t].check \in 1..MaxChecks
    <3>1. job[t].check \in 1..checks /\ checks \in 0..MaxChecks /\ MaxChecks \in Nat
      BY <2>2, HolderIsAlone, FlowAssumption DEF NumbersInv, FlowTypes
    <3> QED
      BY <3>1
  <2>7. a.check = job[t].check
    <3>1. job[t].done + 1 \in 1..Len(job[t].alerts)
      BY <2>3, <2>4
    <3>2. job[t].at \in 0..MaxTime
      BY <2>2, JobFields
    <3>3. job[t].alerts = AlertsOf(previous, job[t].snap, job[t].names, job[t].teams,
                                   job[t].check, job[t].at)
      BY <2>2 DEF LockInv
    <3>4. \A i \in 1..Len(job[t].alerts) : job[t].alerts[i].check = job[t].check
      BY <2>5, <2>6, <3>2, <3>3, AlertsAreTyped
    <3> QED
      BY <2>3, <3>1, <3>4
  <2>8. ToSet(job[t].alerts) \subseteq ToSet(stored)
    <3>1. \A i \in 1..Len(job[t].alerts) : \E k \in 1..Len(stored) : stored[k] = job[t].alerts[i]
      BY <2>2, <2>3 DEF StoredInv, StoredFor
    <3>2. DOMAIN job[t].alerts = 1..Len(job[t].alerts) /\ DOMAIN stored = 1..Len(stored)
      BY <2>4
    <3> QED
      BY <3>1, <3>2 DEF ToSet
  <2> QED
    BY <2>7, <2>8
<1> QED
  BY <1>1, FlowInvariant, PTL DEF FlowSpec, SavedAfterStored

\* Whoever finishes a check finds an alert for every player in trouble whom all
\* evaluations name, unless the store has dropped it by age, by number or by a
\* clear: across races of the cache, older snapshots, sample data and restarts.
THEOREM RegularAlwaysAlerted == FlowSpec => RegularIsAlerted
<1>1. FlowInv /\ RegularInv /\ HeldInv /\ [FlowNext]_vars
        => [\A p \in AlwaysNamed : NamedIsAlerted(p)]_vars
  <2> SUFFICES ASSUME FlowInv, RegularInv, HeldInv, FlowNext,
                      NEW p \in AlwaysNamed, NEW t \in Threads,
                      job[t].pc = "save", job'[t].pc = "idle", previous' # None,
                      Reportable(job[t].snap.status[p])
               PROVE  \E i \in DOMAIN stored :
                        About(i, p, job[t].snap.status[p]) /\ (i \in Listed \/ Dropped(i))
    BY DEF NamedIsAlerted
  <2>1. Reported(p, job[t].snap.status[p]) /\ stored \in Seq(AlertRecord)
    BY CheckLeavesAlerts DEF FlowInv, FlowTypes
  <2>2. PICK i \in DOMAIN stored : About(i, p, job[t].snap.status[p])
    BY <2>1 DEF Reported, About
  <2>3. i \in held \/ Dropped(i)
    BY <2>1, <2>2 DEF HeldInv
  <2>4. i \in held => i \in Listed \/ Dropped(i)
    <3>1. stored[i].created_at \in Int
      <4>1. stored[i] \in AlertRecord
        BY <2>1, <2>2
      <4> QED
        BY <4>1 DEF AlertRecord
    <3>2. now \in Int /\ StoreTtl \in Int
      BY FlowAssumption DEF FlowInv, FlowTypes
    <3> QED
      BY <3>1, <3>2 DEF Listed, Dropped
  <2> QED
    BY <2>2, <2>3, <2>4
<1>2. FlowSpec => [](FlowInv /\ RegularInv)
  BY InitFlowInv, FlowStep, InitRegularInv, RegularStep, PTL DEF FlowSpec
<1> QED
  BY <1>1, <1>2, HeldInvariant, PTL DEF FlowSpec, RegularIsAlerted

=============================================================================
