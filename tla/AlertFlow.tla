------------------------------ MODULE AlertFlow ------------------------------
(***************************************************************************)
(* From availability data to alerts: app/pipeline.py calls get_context     *)
(* (context/service.py, a cache in front of the NBA provider) and then     *)
(* check_for_alerts (alerts/service.py), which compares the snapshot with  *)
(* the last one checked, stores an alert per worsening and persists it.    *)
(*                                                                         *)
(* The two services are built for concurrent callers: the cache has a lock *)
(* that is not held while the provider fetches, the alert service one that *)
(* covers a whole check.  Threads are the callers.  Of the in-memory store *)
(* (module AlertStore, whose ids number the alerts added) the alerts are   *)
(* kept here and which of them it still holds; its indexes are not.        *)
(***************************************************************************)
EXTENDS Integers, SequencesExt

CONSTANTS
  Threads,
  Players,
  TeamOf,      \* the team of each player
  Statuses,    \* the PlayerStatus values players take in this instance
  Sample,      \* the status of each player in the provider's sample data
  Filters,     \* pairs of player names and teams that evaluations mention
  Sources,     \* the sources the provider may report in this instance
  None,        \* Python's None
  CacheTtl,    \* cache_ttl_seconds
  StoreTtl,    \* ttl_seconds of the alert store
  MaxAlerts,   \* max_alerts of the alert store
  FetchMax,    \* bound: a fetched snapshot reaches the cache within this time
  MaxTime,     \* bound: the clock stops here
  MaxChecks    \* bound: number of evaluations

\* detector.STATUS_SEVERITY
Severity == [available |-> 0, probable |-> 1, questionable |-> 2, doubtful |-> 3,
             out |-> 4, unknown |-> 2]
Alertable == {"questionable", "doubtful", "out"}

\* What NBAAvailabilityProvider.fetch can return: the source it names and the
\* confidence_hint, in tenths, that goes with it.
Live      == {"nba-official", "espn-injuries"}
Fallbacks == {"sample-fallback", "error-fallback"}
Hint == [s \in Live \cup Fallbacks \cup {"sample-data"} |->
           CASE s = "nba-official"    ->  5
             [] s = "espn-injuries"   ->  3
             [] s = "sample-data"     ->  0
             [] s = "sample-fallback" -> -3
             [] s = "error-fallback"  -> -5]

\* NBA_AVAILABILITY_LIVE on, and off, which is the default.
Modes == {Live \cup Fallbacks, {"sample-data", "error-fallback"}}

Snapshot == [source : Sources, status : [Players -> Statuses], read_at : Nat]

ASSUME FlowAssumption ==
  /\ Statuses \subseteq DOMAIN Severity
  /\ "available" \in Statuses
  /\ Sample \in [Players -> Statuses]
  /\ Filters \subseteq (SUBSET Players) \X (SUBSET {TeamOf[p] : p \in Players})
  /\ \E mode \in Modes : Sources \subseteq mode
  /\ None \notin Threads \cup Snapshot \cup Players
  /\ IsFiniteSet(Players)
  /\ StoreTtl \in Nat /\ MaxAlerts \in Nat \ {0}
  /\ CacheTtl \in Nat /\ FetchMax \in Nat /\ MaxTime \in Nat /\ MaxChecks \in Nat

-----------------------------------------------------------------------------
(* detect_delta and generate_alerts_from_delta.                            *)

\* Whom a check compares.  A player the snapshot does not list counts as
\* available, so players come and go with their status only.
Checked(names, teams) ==
  IF names = {} /\ teams = {} THEN Players
  ELSE names \cup {p \in Players : TeamOf[p] \in teams}

ShouldAlertPlayer(from, to) == Severity[to] > Severity[from] /\ to \in Alertable

ShouldAlertConfidence(previous, current) ==
  /\ current < previous
  /\ current < -2 \/ previous - current >= 2

\* Mutant: the first snapshot is a baseline that alerts nobody.
MutBaseline(previous, snap, names, teams) ==
  IF previous = None THEN {}
  ELSE {p \in Checked(names, teams) : ShouldAlertPlayer(previous.status[p], snap.status[p])}

\* The first snapshot is compared with nobody's absence, for the named
\* players alone; a later one with the snapshot checked before it.
Worsened(previous, snap, names, teams) ==
  IF previous = None
  THEN {p \in names : ShouldAlertPlayer("available", snap.status[p])}
  ELSE {p \in Checked(names, teams) : ShouldAlertPlayer(previous.status[p], snap.status[p])}

ConfidenceAlert(previous, snap) ==
  previous # None /\ ShouldAlertConfidence(Hint[previous.source], Hint[snap.source])

\* A change of source is reported when it is unreachable or degraded.
SourceAlert(previous, snap) ==
  IF previous = None THEN snap.source \in Fallbacks
  ELSE /\ previous.source # snap.source
       /\ \/ snap.source = "error-fallback"
          \/ previous.source \in Live /\ snap.source \in Fallbacks

\* The list of alerts of one check: the players' (in some order), then the
\* confidence alert, then the source alert.
AlertsOf(previous, snap, names, teams, check, at) ==
  LET alert(kind, p) ==
        [check |-> check, kind |-> kind, player |-> p,
         value |-> IF p = None THEN None ELSE snap.status[p], created_at |-> at]
  IN  [i \in 1..Cardinality(Worsened(previous, snap, names, teams)) |->
         alert("player", SetToSeq(Worsened(previous, snap, names, teams))[i])]
      \o (IF ConfidenceAlert(previous, snap) THEN <<alert("confidence", None)>> ELSE <<>>)
      \o (IF SourceAlert(previous, snap) THEN <<alert("source", None)>> ELSE <<>>)

-----------------------------------------------------------------------------
VARIABLES
  truth,     \* the players' real status, as the live sources publish it
  now,       \* datetime.utcnow()
  cache,     \* ContextService._cache["NBA"]: None, or an entry
  previous,  \* AlertService._previous_snapshots["NBA"], or None
  lock,      \* holder of AlertService._lock, or None
  stored,    \* alerts added to the in-memory store since it was created, by id
  held,      \* ids of the alerts the store has
  cleared,   \* how many were added before the last clear_alerts
  saved,     \* rows of the alerts table
  job,       \* what each thread is doing
  checks     \* evaluations started so far

storeVars == <<stored, held, cleared>>
vars == <<truth, now, cache, previous, lock, storeVars, saved, job, checks>>

Idle == [pc |-> "idle", snap |-> None, names |-> {}, teams |-> {},
         alerts |-> <<>>, done |-> 0, check |-> 0, at |-> 0]

FlowInit ==
  /\ truth \in [Players -> {"available"}]
  /\ now = 0 /\ cache = None /\ previous = None /\ lock = None
  /\ stored = <<>> /\ held = {} /\ cleared = 0 /\ saved = {} /\ checks = 0
  /\ job = [t \in Threads |-> Idle]

\* The league reports a change of status.
StatusChange(p, status) ==
  /\ truth' = [truth EXCEPT ![p] = status]
  /\ UNCHANGED <<now, cache, previous, lock, storeVars, saved, job, checks>>

\* Time passes, but no thread sits on a fetched snapshot longer than FetchMax.
Tick ==
  /\ now < MaxTime
  /\ \A t \in Threads : job[t].pc = "fetched" => now - job[t].snap.read_at < FetchMax
  /\ now' = now + 1
  /\ UNCHANGED <<truth, cache, previous, lock, storeVars, saved, job, checks>>

\* Mutant: a cached entry never expires.
MutNeverExpires == cache # None

\* CacheEntry.is_expired
CacheFresh == cache # None /\ now <= cache.expires_at

\* _fetch_context_for_bet up to _get_cached: an evaluation that names players
\* and teams takes the cached snapshot if there is a fresh one.
StartEvaluation(t, names, teams) ==
  /\ job[t].pc = "idle" /\ checks < MaxChecks
  /\ checks' = checks + 1
  /\ job' = [job EXCEPT ![t] =
               [Idle EXCEPT !.pc = IF CacheFresh THEN "ready" ELSE "fetching",
                            !.snap = IF CacheFresh THEN cache.snap ELSE None,
                            !.names = names, !.teams = teams, !.check = checks']]
  /\ UNCHANGED <<truth, now, cache, previous, lock, storeVars, saved>>

\* provider.fetch: the live sources publish the truth, the fallbacks the sample.
Fetch(t, source) ==
  /\ job[t].pc = "fetching"
  /\ job' = [job EXCEPT
       ![t].pc = "fetched",
       ![t].snap = [source |-> source, read_at |-> now,
                    status |-> IF source \in Live THEN truth ELSE Sample]]
  /\ UNCHANGED <<truth, now, cache, previous, lock, storeVars, saved, checks>>

\* _set_cached: whoever comes last wins, whatever it fetched.
SetCached(t) ==
  /\ job[t].pc = "fetched"
  /\ cache' = [snap |-> job[t].snap, expires_at |-> now + CacheTtl]
  /\ job' = [job EXCEPT ![t].pc = "ready"]
  /\ UNCHANGED <<truth, now, previous, lock, storeVars, saved, checks>>

\* Mutant: a check does not wait for the lock.
MutNoLock(t) == t \in Threads

\* check_snapshot takes the lock and detects the changes.
LockFree(t) == lock = None
BeginCheck(t) ==
  /\ job[t].pc = "ready" /\ LockFree(t)
  /\ lock' = t
  /\ LET j == job[t]
     IN  job' = [job EXCEPT ![t].pc = "store", ![t].done = 0, ![t].at = now,
                   ![t].alerts = AlertsOf(previous, j.snap, j.names, j.teams, j.check, now)]
  /\ UNCHANGED <<truth, now, cache, previous, storeVars, saved, checks>>

\* What a full store evicts for one more.
Evicted == IF Cardinality(held) >= MaxAlerts
           THEN {CHOOSE i \in held : \A k \in held : i <= k} ELSE {}

\* One round of "for alert in alerts: self._store.add(alert)".
StoreAlert(t) ==
  /\ job[t].pc = "store" /\ job[t].done < Len(job[t].alerts)
  /\ stored' = Append(stored, job[t].alerts[job[t].done + 1])
  /\ held' = (held \ Evicted) \cup {Len(stored')}
  /\ job' = [job EXCEPT ![t].done = @ + 1]
  /\ UNCHANGED <<truth, now, cache, previous, lock, cleared, saved, checks>>

\* Mutant: persistence starts with the first alert in memory.
MutPersistEarly(t) ==
  /\ job[t].pc = "store" /\ job[t].done <= Len(job[t].alerts)
  /\ job' = [job EXCEPT ![t].pc = "save", ![t].done = 0]
  /\ UNCHANGED <<truth, now, cache, previous, lock, storeVars, saved, checks>>

\* All alerts are stored: on to _persist_alerts.
BeginPersist(t) ==
  /\ job[t].pc = "store" /\ job[t].done = Len(job[t].alerts)
  /\ job' = [job EXCEPT ![t].pc = "save", ![t].done = 0]
  /\ UNCHANGED <<truth, now, cache, previous, lock, storeVars, saved, checks>>

\* One round of _persist_alerts: the alert's row, in a transaction of its own.
SaveAlert(t) ==
  /\ job[t].pc = "save" /\ job[t].done < Len(job[t].alerts)
  /\ saved' = saved \cup {job[t].alerts[job[t].done + 1]}
  /\ job' = [job EXCEPT ![t].done = @ + 1]
  /\ UNCHANGED <<truth, now, cache, previous, lock, storeVars, checks>>

\* Mutant: the lock is not released when persisting fails.
MutKeepLock(t) ==
  /\ job[t].pc = "save"
  /\ previous' = job[t].snap
  /\ lock' = IF job[t].done < Len(job[t].alerts) THEN lock ELSE None
  /\ job' = [job EXCEPT ![t] = Idle]
  /\ UNCHANGED <<truth, now, cache, storeVars, saved, checks>>

\* The check ends when the alerts are saved, or at the first that cannot be:
\* the exception is swallowed with the rest of the loop.
FinishCheck(t) ==
  /\ job[t].pc = "save"
  /\ previous' = job[t].snap
  /\ lock' = None
  /\ job' = [job EXCEPT ![t] = Idle]
  /\ UNCHANGED <<truth, now, cache, storeVars, saved, checks>>

\* ContextService.clear_cache
ClearCache ==
  /\ cache' = None
  /\ UNCHANGED <<truth, now, previous, lock, storeVars, saved, job, checks>>

\* What a listing finds: the alerts held that are not too old.
Listed == {i \in held : now - stored[i].created_at <= StoreTtl}

\* Any listing or count drops the others from the store.
ListAlerts ==
  /\ held' = Listed
  /\ UNCHANGED <<truth, now, cache, previous, lock, stored, cleared, saved, job, checks>>

\* AlertService.clear_alerts
ClearAlerts ==
  /\ held' = {} /\ cleared' = Len(stored)
  /\ UNCHANGED <<truth, now, cache, previous, lock, stored, saved, job, checks>>

\* The process is restarted: only the database survives.
Restart ==
  /\ cache' = None /\ previous' = None /\ lock' = None
  /\ stored' = <<>> /\ held' = {} /\ cleared' = 0
  /\ job' = [t \in Threads |-> Idle]
  /\ UNCHANGED <<truth, now, saved, checks>>

Steps(t) ==
  \/ \E source \in Sources : Fetch(t, source)
  \/ SetCached(t) \/ BeginCheck(t)
  \/ StoreAlert(t) \/ BeginPersist(t) \/ SaveAlert(t) \/ FinishCheck(t)

FlowNext ==
  \/ \E p \in Players, status \in Statuses : StatusChange(p, status)
  \/ Tick \/ ClearCache \/ ListAlerts \/ ClearAlerts \/ Restart
  \/ \E t \in Threads :
       \/ \E filter \in Filters : StartEvaluation(t, filter[1], filter[2])
       \/ Steps(t)

FlowSpec == FlowInit /\ [][FlowNext]_vars

\* A thread that can take a step takes one: no caller waits on anything but the
\* provider, whose requests time out, and the lock, which the finitely many
\* other checks release.
FairSpec == FlowSpec /\ \A t \in Threads : WF_vars(Steps(t))

-----------------------------------------------------------------------------
(* Properties.                                                             *)

AlertRecord == [check : 1..MaxChecks, kind : {"player", "confidence", "source"},
                player : Players \cup {None}, value : Statuses \cup {None},
                created_at : 0..MaxTime]

\* A snapshot, as a predicate: TLC cannot enumerate Snapshot.
IsSnapshot(x) == /\ x.source \in Sources /\ x.status \in [Players -> Statuses]
                 /\ x.read_at \in 0..now

\* The type invariant.
FlowTypeOK ==
  /\ truth \in [Players -> Statuses]
  /\ now \in 0..MaxTime /\ checks \in 0..MaxChecks
  /\ cache # None => IsSnapshot(cache.snap) /\ cache.expires_at \in Nat
  /\ previous # None => IsSnapshot(previous)
  /\ lock \in Threads \cup {None}
  /\ stored \in Seq(AlertRecord) /\ saved \subseteq AlertRecord
  /\ held \subseteq 1..Len(stored) /\ cleared \in 0..Len(stored)
  /\ \A t \in Threads :
       /\ job[t].pc \in {"idle", "fetching", "fetched", "ready", "store", "save"}
       /\ job[t].pc \in {"fetched", "ready", "store", "save"} => IsSnapshot(job[t].snap)
       /\ job[t].alerts \in Seq(AlertRecord) /\ job[t].done \in 0..Len(job[t].alerts)

\* Between taking the lock and updating _previous_snapshots a check's alerts
\* stay what the detector would find now: the compared snapshot is not
\* replaced under it by another caller's.
DetectionStaysValid ==
  \A t \in Threads : job[t].pc \in {"store", "save"} =>
    job[t].alerts = AlertsOf(previous, job[t].snap, job[t].names, job[t].teams,
                             job[t].check, job[t].at)

\* The alerts of one check stand together in the store, in the order they
\* were generated: callers never interleave theirs.
BatchesAdjacent ==
  \A i, k \in 1..Len(stored) : i < k /\ stored[i].check = stored[k].check =>
    \A j \in i..k : stored[j].check = stored[i].check

\* An alert is written to the database only after all alerts of its check were
\* added in memory: a listing misses an alert the database has only when the
\* store has dropped it, or the process was restarted.
SavesStoredAlerts ==
  \A a \in saved' \ saved : \E t \in Threads :
    /\ a.check = job[t].check
    /\ ToSet(job[t].alerts) \subseteq ToSet(stored)
SavedAfterStored == [][SavesStoredAlerts]_vars

\* A cache hit is at most the TTL and one fetch out of date.
CacheAgeBounded ==
  CacheFresh => now - cache.snap.read_at <= CacheTtl + FetchMax

\* The statuses a player cannot reach unnoticed: worse than any that alerts
\* nobody.  From "unknown", which is as severe as "questionable" and is not
\* alerted, a player becomes questionable without an alert.
Reportable(status) ==
  /\ status \in Alertable
  /\ \A quiet \in Statuses \ Alertable : Severity[quiet] < Severity[status]

\* The alert is about the player and of this severity or worse.
About(i, p, status) ==
  /\ stored[i].kind = "player" /\ stored[i].player = p
  /\ Severity[stored[i].value] >= Severity[status]

\* The store keeps an alert for StoreTtl, among the MaxAlerts newest, and not
\* across a clear.
Dropped(i) ==
  \/ now - stored[i].created_at > StoreTtl
  \/ Len(stored) - i >= MaxAlerts
  \/ i <= cleared

\* Whoever finishes a check that named a player in trouble finds an alert for
\* that player, of this severity or worse, raised by this check or an earlier
\* one of this process, unless it is one the store has dropped by its rules.
\* (Who is out for longer than StoreTtl is compared with himself, so then there
\* is no alert to be found: no other is raised.)
NamedIsAlerted(p) == \A t \in Threads :
  /\ job[t].pc = "save" /\ job'[t].pc = "idle" /\ previous' # None
  /\ p \in job[t].names /\ Reportable(job[t].snap.status[p])
  => \E i \in DOMAIN stored : About(i, p, job[t].snap.status[p]) /\ (i \in Listed \/ Dropped(i))

\* So it is for every player (read "Alerts are driven by NBA availability
\* changes", app/routers/_deprecated_web_legacy.py:5955) ...
NamedWorseningAlerted == [][\A p \in Players : NamedIsAlerted(p)]_vars

\* ... and so it is for a player every evaluation names, across races of the
\* cache, older snapshots, sample data and restarts.
AlwaysNamed == {p \in Players : \A filter \in Filters : p \in filter[1]}
RegularIsAlerted == [][\A p \in AlwaysNamed : NamedIsAlerted(p)]_vars

\* Every evaluation comes to an end, whatever the database does.
EvaluationsFinish ==
  \A t \in Threads : job[t].pc # "idle" ~> job[t].pc = "idle"
=============================================================================
