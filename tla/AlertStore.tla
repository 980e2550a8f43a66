------------------------------ MODULE AlertStore ------------------------------
(***************************************************************************)
(* alerts/store.py: the in-memory alert store.  A dict of alerts, a list   *)
(* of ids in insertion order and three indexes are kept in step by hand,   *)
(* under one re-entrant lock; the store evicts the oldest alert at         *)
(* capacity and drops alerts older than the TTL when it is read.           *)
(*                                                                         *)
(* Alert ids are uuid4 values; the model numbers them in the order of      *)
(* insertion.  A Python list that ids are appended to once and removed     *)
(* from is then the set of its ids, read in increasing order.              *)
(***************************************************************************)
EXTENDS Integers, FiniteSets, SequencesExt

CONSTANTS
  Keys,       \* correlation ids, lower-cased players, upper-cased teams
  Null,       \* Python's None
  Shapes,     \* the key combinations alerts are added with
  MaxAlerts,  \* max_alerts
  Ttl,        \* ttl_seconds
  ClockEnd,   \* bound: the clock stops here
  MaxId       \* bound: number of alerts ever added

Fields == {"correlation_id", "player_name", "team"}

ASSUME StoreAssumption ==
  /\ Null \notin Keys
  /\ Shapes \subseteq [Fields -> Keys \cup {Null}]
  /\ MaxAlerts \in Nat \ {0}
  /\ Ttl \in Nat
  /\ ClockEnd \in Nat
  /\ MaxId \in Nat

Alert == [created_at : 0..ClockEnd, correlation_id : Keys \cup {Null},
          player_name : Keys \cup {Null}, team : Keys \cup {Null}]

-----------------------------------------------------------------------------
(* Mutated forms of the operators below, each a plausible slip in the code *)
(* that breaks a property.                                                 *)

\* Removal forgets the team index.
MutForgetTeam(s, ids) ==
  LET gone == ids \cap DOMAIN s.alerts
  IN  [alerts |-> [id \in DOMAIN s.alerts \ gone |-> s.alerts[id]],
       order  |-> s.order \ gone,
       index  |-> [fk \in Fields \X Keys |-> s.index[fk] \
                     {id \in gone : fk[1] # "team" /\ s.alerts[id][fk[1]] = fk[2]}]]

\* The newest id is taken for the oldest.
MutNewest(ids) == CHOOSE id \in ids : \A other \in ids : id >= other

\* Reading does not drop what has expired.
MutNoCleanup(s, t) == s

-----------------------------------------------------------------------------
(* The store as a value: what the methods of AlertStore do to it.          *)

EmptyStore ==
  [alerts |-> [id \in {} |-> Null], order |-> {},
   index |-> [fk \in Fields \X Keys |-> {}]]

\* The default of Alert.created_at.
Stamp(t) == t

IsExpired(a, t) == t - a.created_at > Ttl

\* _remove, for each of ids in turn: an id that is not stored is skipped,
\* and each index loses the ids of the alerts filed under its key.
RemoveAlerts(s, ids) ==
  LET gone == ids \cap DOMAIN s.alerts
  IN  [alerts |-> [id \in DOMAIN s.alerts \ gone |-> s.alerts[id]],
       order  |-> s.order \ gone,
       index  |-> [fk \in Fields \X Keys |->
                     s.index[fk] \ {id \in gone : s.alerts[id][fk[1]] = fk[2]}]]

\* The head of the list _order.
Oldest(ids) == CHOOSE id \in ids : \A other \in ids : id <= other

EvictOldest(s) == IF s.order = {} THEN s ELSE RemoveAlerts(s, {Oldest(s.order)})

Full(s) == Cardinality(DOMAIN s.alerts) >= MaxAlerts

\* add.  Its loop "while len(_alerts) >= _max_alerts" runs at most once:
\* CapacityRespected says it starts with at most MaxAlerts alerts, and
\* EvictionMakesRoom that one eviction then ends it.
Insert(s, id, a) ==
  LET room == IF Full(s) THEN EvictOldest(s) ELSE s
  IN  [alerts |-> [i \in DOMAIN room.alerts \cup {id} |->
                     IF i = id THEN a ELSE room.alerts[i]],
       order  |-> room.order \cup {id},
       index  |-> [fk \in Fields \X Keys |->
                     IF a[fk[1]] = fk[2] THEN room.index[fk] \cup {id}
                                         ELSE room.index[fk]]]

CleanupExpired(s, t) ==
  RemoveAlerts(s, {id \in DOMAIN s.alerts : IsExpired(s.alerts[id], t)})

\* The place of id in the list of ids.
PlaceOf(ids, id) == Cardinality({other \in ids : other <= id})

\* A set of ids as the Python list it stands for.
InOrder(ids) == [place \in 1..Cardinality(ids) |->
                   CHOOSE id \in ids : PlaceOf(ids, id) = place]

\* The list of the stored alerts among ids, in list order.
Listed(s, ids) == InOrder(ids \cap DOMAIN s.alerts)

-----------------------------------------------------------------------------
VARIABLES
  store,    \* the AlertStore
  nextId,   \* the number the next alert's uuid gets
  clock,    \* datetime.utcnow()
  listing   \* the last listing handed to a caller

storeVars == <<store, nextId, clock, listing>>

NoReply == [asked |-> Null, ids |-> <<>>]

StoreInit ==
  /\ store = EmptyStore
  /\ nextId = 1
  /\ clock = 0
  /\ listing = NoReply

ClockTick ==
  /\ clock < ClockEnd
  /\ clock' = clock + 1
  /\ UNCHANGED <<store, nextId, listing>>

\* add, of an alert created just before.
Add(a) ==
  /\ nextId <= MaxId
  /\ store' = Insert(store, nextId, a)
  /\ nextId' = nextId + 1
  /\ UNCHANGED <<clock, listing>>

\* get: looks one alert up and drops it, alone, if it has expired.
Get(id) ==
  /\ store' = IF /\ id \in DOMAIN store.alerts
                 /\ IsExpired(store.alerts[id], clock)
              THEN RemoveAlerts(store, {id}) ELSE store
  /\ UNCHANGED <<nextId, clock, listing>>

\* get_by_correlation, get_by_player and get_by_team.
GetBy(field, key) ==
  /\ store' = CleanupExpired(store, clock)
  /\ listing' = [asked |-> <<field, key>>,
                 ids |-> Listed(store', store'.index[<<field, key>>])]
  /\ UNCHANGED <<nextId, clock>>

\* AlertService.get_alerts with a filter: the listing cut to limit entries.
GetAlerts(field, key, limit) ==
  /\ store' = CleanupExpired(store, clock)
  /\ listing' = LET all == Listed(store', store'.index[<<field, key>>])
                IN  [asked |-> <<field, key, limit>>,
                     ids |-> SubSeq(all, 1, IF Len(all) < limit THEN Len(all) ELSE limit)]
  /\ UNCHANGED <<nextId, clock>>

\* get_recent: the last limit entries of _order, newest first.
GetRecent(limit) ==
  /\ store' = CleanupExpired(store, clock)
  /\ listing' = LET all  == InOrder(store'.order)
                    from == IF Len(all) > limit THEN Len(all) - limit + 1 ELSE 1
                    last == {all[place] : place \in from..Len(all)}
                IN  [asked |-> <<"recent", limit>>, ids |-> Reverse(Listed(store', last))]
  /\ UNCHANGED <<nextId, clock>>

Clear ==
  /\ store' = EmptyStore
  /\ UNCHANGED <<nextId, clock, listing>>

StoreNext ==
  \/ ClockTick
  \/ \E shape \in Shapes :
       Add([created_at |-> Stamp(clock), correlation_id |-> shape["correlation_id"],
            player_name |-> shape["player_name"], team |-> shape["team"]])
  \/ \E id \in 1..MaxId : Get(id)
  \/ \E field \in Fields, key \in Keys : GetBy(field, key)
  \/ \E field \in Fields, key \in Keys, limit \in 1..MaxAlerts : GetAlerts(field, key, limit)
  \/ \E limit \in 1..MaxAlerts : GetRecent(limit)
  \/ Clear

StoreSpec == StoreInit /\ [][StoreNext]_storeVars

-----------------------------------------------------------------------------
(* Properties.                                                             *)

\* The type invariant of the store.
StoreTypeOK ==
  /\ store = [alerts |-> store.alerts, order |-> store.order, index |-> store.index]
  /\ DOMAIN store.alerts \subseteq 1..MaxId
  /\ \A id \in DOMAIN store.alerts : store.alerts[id] \in Alert
  /\ store.order \subseteq 1..MaxId
  /\ store.index \in [Fields \X Keys -> SUBSET (1..MaxId)]
  /\ nextId \in 1..(MaxId + 1)
  /\ clock \in 0..ClockEnd

\* The dict, the order list and the three indexes of AlertStore agree: the
\* list holds the stored ids and an index exactly the alerts filed under its
\* key, whatever mix of evictions, expiries and clears came before.
IndexesAgree ==
  /\ store.order = DOMAIN store.alerts
  /\ \A fk \in Fields \X Keys :
       store.index[fk] = {id \in DOMAIN store.alerts : store.alerts[id][fk[1]] = fk[2]}

\* The store never holds more than max_alerts alerts.
CapacityRespected == Cardinality(DOMAIN store.alerts) <= MaxAlerts

\* The eviction loop of add ends: at capacity the head of _order is a stored
\* alert, so evicting it makes room.  A stale head would make the loop spin
\* for ever with the lock held.
EvictionMakesRoom == ~Full(IF Full(store) THEN EvictOldest(store) ELSE store)

\* List order is time order, so the alert that _evict_oldest takes from the
\* head of _order really is the oldest one.
OrderIsChronological ==
  \A i, j \in DOMAIN store.alerts :
    i < j => store.alerts[i].created_at <= store.alerts[j].created_at

\* A step loses an unexpired alert only by clearing the whole store or by an
\* add at capacity, which loses one, and none of the survivors is older.
Lost == DOMAIN store.alerts \ DOMAIN store'.alerts
KeepsLiveAlerts ==
  \A id \in Lost : ~IsExpired(store.alerts[id], clock) =>
    \/ store' = EmptyStore
    \/ /\ Full(store) /\ nextId' # nextId /\ Lost = {id}
       /\ \A kept \in DOMAIN store'.alerts :
            store'.alerts[kept].created_at >= store.alerts[id].created_at
LiveAlertsKept == [][KeepsLiveAlerts]_storeVars

\* A listing holds only unexpired alerts filed under the key asked for, all of
\* them when no limit is given and as many as the limit allows otherwise; the
\* recent listing is newest first and leaves out only older alerts than it shows.
\* get_alerts promises that order for every listing: see NewestFirst.
Matching(key) ==
  {id \in DOMAIN store.alerts :
     /\ ~IsExpired(store.alerts[id], clock)
     /\ key[1] \in Fields => store.alerts[id][key[1]] = key[2]}
LimitOf(key) == IF key[1] = "recent" THEN key[2]
                ELSE IF Len(key) = 3 THEN key[3] ELSE MaxAlerts
ListingsExact ==
  [][listing' # listing =>
       LET key   == listing'.asked
           shown == ToSet(listing'.ids)
           all   == Cardinality(Matching(key))
       IN  /\ shown \subseteq Matching(key)
           /\ Len(listing'.ids) = IF all < LimitOf(key) THEN all ELSE LimitOf(key)
           /\ key[1] = "recent" =>
                /\ \A p, q \in DOMAIN listing'.ids : p < q => listing'.ids[p] > listing'.ids[q]
                /\ \A id \in Matching(key) \ shown : \A other \in shown : other > id]_storeVars

\* "List of alerts, newest first" (AlertService.get_alerts, alerts/service.py:162),
\* filtered or not: what is shown is in that order, and what the limit cuts off
\* is older.
NewestFirst ==
  [][listing' # listing /\ (Len(listing'.asked) = 3 \/ listing'.asked[1] = "recent") =>
       LET shown == listing'.ids
       IN  /\ \A p, q \in DOMAIN shown : p < q => shown[p] > shown[q]
           /\ \A id \in Matching(listing'.asked) \ ToSet(shown) :
                \A other \in ToSet(shown) : other > id]_storeVars
=============================================================================
