--------------------------- MODULE AlertStore_proofs ---------------------------
(***************************************************************************)
(* Proofs about AlertStore, for every set of keys, every capacity and TTL  *)
(* and every bound.  The inductive invariant is StoreInv: the type, the    *)
(* agreement of the dict with the list and the indexes, the capacity, and  *)
(* what links the ids to the clock.                                        *)
(***************************************************************************)
EXTENDS AlertStore, FiniteSetTheorems, SequenceTheorems, WellFoundedInduction, TLAPS

\* Ids are handed out in increasing order, never twice.
IdsAreFresh == \A id \in DOMAIN store.alerts : id < nextId

\* No alert was created in the future.
NotFromTheFuture == \A id \in DOMAIN store.alerts : store.alerts[id].created_at <= clock

\* The inductive invariant.
StoreInv ==
  /\ StoreTypeOK
  /\ IndexesAgree
  /\ CapacityRespected
  /\ IdsAreFresh
  /\ NotFromTheFuture
  /\ OrderIsChronological

\* The part of the invariant that speaks of the store alone, of any store s.
GoodStore(s) ==
  /\ s = [alerts |-> s.alerts, order |-> s.order, index |-> s.index]
  /\ DOMAIN s.alerts \subseteq 1..MaxId
  /\ \A id \in DOMAIN s.alerts : s.alerts[id] \in Alert
  /\ s.order = DOMAIN s.alerts
  /\ s.index = [fk \in Fields \X Keys |->
                  {id \in DOMAIN s.alerts : s.alerts[id][fk[1]] = fk[2]}]

-----------------------------------------------------------------------------

\* A set of ids is finite, and has a least element unless it is empty.
LEMMA OldestIsLeast ==
  ASSUME NEW ids, ids \subseteq 1..MaxId, ids # {}
  PROVE  /\ IsFiniteSet(ids)
         /\ Oldest(ids) \in ids
         /\ \A other \in ids : Oldest(ids) <= other
<1>1. MaxId \in Nat
  BY StoreAssumption
<1>2. IsFiniteSet(1..MaxId)
  BY <1>1, FS_Interval
<1>3. IsFiniteSet(ids)
  BY <1>2, FS_Subset
<1>4. ids \subseteq Nat
  BY <1>1
<1>5. PICK x \in ids : \A y \in ids : ~ (<<y, x>> \in OpToRel(<, Nat))
  BY <1>4, NatLessThanWellFounded, WFMin
<1>6. \A y \in ids : x <= y
  <2>1. SUFFICES ASSUME NEW y \in ids, y < x PROVE FALSE
    BY <1>4
  <2>2. <<y, x>> \in OpToRel(<, Nat)
    BY <1>4, <2>1 DEF OpToRel
  <2> QED
    BY <1>5, <2>2
<1> QED
  BY <1>3, <1>6 DEF Oldest

\* Removing alerts keeps the dict, the list and the indexes in step, removes
\* the alerts it is asked to and leaves the others as they are.
LEMMA RemoveKeepsStoreGood ==
  ASSUME NEW s, GoodStore(s), NEW ids
  PROVE  LET r == RemoveAlerts(s, ids)
         IN  /\ GoodStore(r)
             /\ DOMAIN r.alerts = DOMAIN s.alerts \ ids
             /\ \A id \in DOMAIN r.alerts : r.alerts[id] = s.alerts[id]
<1> DEFINE gone == ids \cap DOMAIN s.alerts
           r == RemoveAlerts(s, ids)
<1>1. /\ r.alerts = [id \in DOMAIN s.alerts \ gone |-> s.alerts[id]]
      /\ r.order = s.order \ gone
      /\ r.index = [fk \in Fields \X Keys |->
                      s.index[fk] \ {id \in gone : s.alerts[id][fk[1]] = fk[2]}]
      /\ r = [alerts |-> r.alerts, order |-> r.order, index |-> r.index]
  BY DEF RemoveAlerts
<1>2. DOMAIN r.alerts = DOMAIN s.alerts \ ids
  BY <1>1
<1>3. \A id \in DOMAIN r.alerts : r.alerts[id] = s.alerts[id]
  BY <1>1
<1>4. r.index = [fk \in Fields \X Keys |->
                   {id \in DOMAIN r.alerts : r.alerts[id][fk[1]] = fk[2]}]
  <2>1. ASSUME NEW fk \in Fields \X Keys
        PROVE  r.index[fk] = {id \in DOMAIN r.alerts : r.alerts[id][fk[1]] = fk[2]}
    <3>1. s.index[fk] = {id \in DOMAIN s.alerts : s.alerts[id][fk[1]] = fk[2]}
      BY DEF GoodStore
    <3>2. r.index[fk] = s.index[fk] \ {id \in gone : s.alerts[id][fk[1]] = fk[2]}
      BY <1>1
    <3> QED
      BY <3>1, <3>2, <1>2, <1>3
  <2> QED
    BY <2>1, <1>1
<1>5. /\ r.order = DOMAIN r.alerts
      /\ DOMAIN r.alerts \subseteq 1..MaxId
      /\ \A id \in DOMAIN r.alerts : r.alerts[id] \in Alert
  BY <1>1, <1>2, <1>3 DEF GoodStore
<1> HIDE DEF r
<1>6. GoodStore(r)
  BY <1>1, <1>4, <1>5 DEF GoodStore
<1> QED
  BY <1>2, <1>3, <1>6 DEF r

\* The ids of a good store are finitely many.
LEMMA GoodStoreFinite ==
  ASSUME NEW s, GoodStore(s)
  PROVE  IsFiniteSet(DOMAIN s.alerts) /\ Cardinality(DOMAIN s.alerts) \in Nat
<1>1. IsFiniteSet(1..MaxId)
  BY StoreAssumption, FS_Interval
<1>2. DOMAIN s.alerts \in SUBSET (1..MaxId)
  BY DEF GoodStore
<1>3. IsFiniteSet(DOMAIN s.alerts)
  BY <1>1, <1>2, FS_Subset
<1> QED
  BY <1>3, FS_CardinalityType

\* The eviction of add makes room in a store within its capacity: one round
\* of the loop is enough.
LEMMA EvictionFrees ==
  ASSUME NEW s, GoodStore(s), Cardinality(DOMAIN s.alerts) <= MaxAlerts
  PROVE  LET r == IF Full(s) THEN EvictOldest(s) ELSE s
         IN  /\ GoodStore(r)
             /\ Cardinality(DOMAIN r.alerts) < MaxAlerts
             /\ DOMAIN r.alerts \subseteq DOMAIN s.alerts
             /\ \A id \in DOMAIN r.alerts : r.alerts[id] = s.alerts[id]
             /\ \A id \in DOMAIN s.alerts \ DOMAIN r.alerts :
                  Full(s) /\ id = Oldest(DOMAIN s.alerts)
<1>1. MaxAlerts \in Nat /\ MaxAlerts > 0
  BY StoreAssumption
<1>2. Cardinality(DOMAIN s.alerts) \in Nat /\ IsFiniteSet(DOMAIN s.alerts)
  BY GoodStoreFinite
<1>3. CASE ~Full(s)
  BY <1>1, <1>2, <1>3 DEF Full
<1>4. CASE Full(s)
  <2>1. Cardinality(DOMAIN s.alerts) = MaxAlerts
    BY <1>1, <1>2, <1>4 DEF Full
  <2>2. DOMAIN s.alerts # {}
    BY <2>1, <1>1, FS_EmptySet
  <2>3. s.order = DOMAIN s.alerts /\ DOMAIN s.alerts \subseteq 1..MaxId
    BY DEF GoodStore
  <2> DEFINE old == Oldest(DOMAIN s.alerts)
             r == RemoveAlerts(s, {old})
  <2>4. old \in DOMAIN s.alerts
    BY <2>2, <2>3, OldestIsLeast
  <2>5. EvictOldest(s) = r
    BY <2>2, <2>3 DEF EvictOldest
  <2>6. /\ GoodStore(r)
        /\ DOMAIN r.alerts = DOMAIN s.alerts \ {old}
        /\ \A id \in DOMAIN r.alerts : r.alerts[id] = s.alerts[id]
    BY RemoveKeepsStoreGood
  <2>7. Cardinality(DOMAIN s.alerts \ {old}) = Cardinality(DOMAIN s.alerts) - 1
    BY <1>2, <2>4, FS_RemoveElement
  <2> QED
    BY <1>1, <1>4, <2>1, <2>5, <2>6, <2>7
<1> QED
  BY <1>3, <1>4

\* add files the new alert under its keys and keeps the capacity.
LEMMA InsertKeepsStoreGood ==
  ASSUME NEW s, GoodStore(s), Cardinality(DOMAIN s.alerts) <= MaxAlerts,
         NEW id \in 1..MaxId, id \notin DOMAIN s.alerts, NEW a \in Alert
  PROVE  LET r == Insert(s, id, a)
         IN  /\ GoodStore(r)
             /\ Cardinality(DOMAIN r.alerts) <= MaxAlerts
             /\ id \in DOMAIN r.alerts /\ r.alerts[id] = a
             /\ DOMAIN r.alerts \subseteq DOMAIN s.alerts \cup {id}
             /\ \A i \in DOMAIN r.alerts \ {id} : r.alerts[i] = s.alerts[i]
             /\ \A i \in DOMAIN s.alerts \ DOMAIN r.alerts :
                  Full(s) /\ i = Oldest(DOMAIN s.alerts)
<1> DEFINE room == IF Full(s) THEN EvictOldest(s) ELSE s
           r == Insert(s, id, a)
<1>1. /\ GoodStore(room)
      /\ Cardinality(DOMAIN room.alerts) < MaxAlerts
      /\ DOMAIN room.alerts \subseteq DOMAIN s.alerts
      /\ \A i \in DOMAIN room.alerts : room.alerts[i] = s.alerts[i]
      /\ \A i \in DOMAIN s.alerts \ DOMAIN room.alerts :
           Full(s) /\ i = Oldest(DOMAIN s.alerts)
  BY EvictionFrees
<1>2. /\ r.alerts = [i \in DOMAIN room.alerts \cup {id} |->
                       IF i = id THEN a ELSE room.alerts[i]]
      /\ r.order = room.order \cup {id}
      /\ r.index = [fk \in Fields \X Keys |->
                      IF a[fk[1]] = fk[2] THEN room.index[fk] \cup {id}
                                          ELSE room.index[fk]]
      /\ r = [alerts |-> r.alerts, order |-> r.order, index |-> r.index]
  BY DEF Insert
<1> HIDE DEF room, r
<1>3. DOMAIN r.alerts = DOMAIN room.alerts \cup {id} /\ r.alerts[id] = a
  BY <1>2
<1>4. \A i \in DOMAIN room.alerts : i # id /\ r.alerts[i] = room.alerts[i]
  BY <1>1, <1>2
<1>5. r.index = [fk \in Fields \X Keys |->
                   {i \in DOMAIN r.alerts : r.alerts[i][fk[1]] = fk[2]}]
  <2>1. ASSUME NEW fk \in Fields \X Keys
        PROVE  r.index[fk] = {i \in DOMAIN r.alerts : r.alerts[i][fk[1]] = fk[2]}
    <3>1. room.index[fk] = {i \in DOMAIN room.alerts : room.alerts[i][fk[1]] = fk[2]}
      BY <1>1 DEF GoodStore
    <3>2. r.index[fk] = IF a[fk[1]] = fk[2] THEN room.index[fk] \cup {id}
                                            ELSE room.index[fk]
      BY <1>2
    <3> QED
      BY <3>1, <3>2, <1>3, <1>4
  <2> QED
    BY <2>1, <1>2
<1>6. /\ r.order = DOMAIN r.alerts
      /\ DOMAIN r.alerts \subseteq 1..MaxId
      /\ \A i \in DOMAIN r.alerts : r.alerts[i] \in Alert
  BY <1>1, <1>2, <1>3, <1>4 DEF GoodStore
<1>7. GoodStore(r)
  BY <1>2, <1>5, <1>6 DEF GoodStore
<1>8. Cardinality(DOMAIN r.alerts) <= MaxAlerts
  <2>1. IsFiniteSet(DOMAIN room.alerts) /\ Cardinality(DOMAIN room.alerts) \in Nat
    BY <1>1, GoodStoreFinite
  <2>2. id \notin DOMAIN room.alerts
    BY <1>4
  <2>3. Cardinality(DOMAIN room.alerts \cup {id}) = Cardinality(DOMAIN room.alerts) + 1
    BY <2>1, <2>2, FS_AddElement
  <2> QED
    BY <2>1, <2>3, <1>1, <1>3, StoreAssumption
<1> QED
  BY <1>1, <1>3, <1>4, <1>7, <1>8 DEF r

-----------------------------------------------------------------------------

\* The invariant says that the store is good, and more of the ids.
LEMMA InvStore == StoreInv <=> /\ GoodStore(store)
                               /\ nextId \in 1..(MaxId + 1) /\ clock \in 0..ClockEnd
                               /\ CapacityRespected /\ IdsAreFresh
                               /\ NotFromTheFuture /\ OrderIsChronological
<1>1. ASSUME StoreInv PROVE GoodStore(store)
  BY <1>1 DEF StoreInv, StoreTypeOK, IndexesAgree, GoodStore
<1>2. ASSUME GoodStore(store)
      PROVE  store.index \in [Fields \X Keys -> SUBSET (1..MaxId)] /\ IndexesAgree
  BY <1>2 DEF GoodStore, IndexesAgree
<1> QED
  BY <1>1, <1>2 DEF StoreInv, StoreTypeOK, GoodStore

\* An empty store satisfies everything the invariant says of a store.
LEMMA EmptyStoreGood ==
  /\ GoodStore(EmptyStore)
  /\ DOMAIN EmptyStore.alerts = {}
  /\ Cardinality(DOMAIN EmptyStore.alerts) <= MaxAlerts
<1>1. DOMAIN EmptyStore.alerts = {}
  BY DEF EmptyStore
<1>2. GoodStore(EmptyStore)
  BY DEF EmptyStore, GoodStore
<1> QED
  BY <1>1, <1>2, FS_EmptySet, StoreAssumption

\* The initial store satisfies the invariant.
LEMMA InitStoreInv == StoreInit => StoreInv
<1> SUFFICES ASSUME StoreInit PROVE StoreInv
  OBVIOUS
<1>1. /\ GoodStore(store) /\ DOMAIN store.alerts = {} /\ CapacityRespected
  BY EmptyStoreGood DEF StoreInit, CapacityRespected
<1>2. IdsAreFresh /\ NotFromTheFuture /\ OrderIsChronological
  BY <1>1 DEF IdsAreFresh, NotFromTheFuture, OrderIsChronological
<1>3. nextId \in 1..(MaxId + 1) /\ clock \in 0..ClockEnd
  BY StoreAssumption DEF StoreInit
<1> QED
  BY <1>1, <1>2, <1>3, InvStore

\* A step that only drops alerts keeps the invariant.
LEMMA DropKeepsInv ==
  ASSUME StoreInv, NEW ids, store' = RemoveAlerts(store, ids), UNCHANGED <<nextId, clock>>
  PROVE  StoreInv'
<1>1. GoodStore(store) /\ nextId \in 1..(MaxId + 1) /\ clock \in 0..ClockEnd
  BY InvStore
<1>2. /\ GoodStore(store')
      /\ DOMAIN store'.alerts = DOMAIN store.alerts \ ids
      /\ \A id \in DOMAIN store'.alerts : store'.alerts[id] = store.alerts[id]
  BY <1>1, RemoveKeepsStoreGood
<1>3. CapacityRespected'
  <2>1. IsFiniteSet(DOMAIN store.alerts) /\ Cardinality(DOMAIN store.alerts) \in Nat
    BY <1>1, GoodStoreFinite
  <2>2. /\ Cardinality(DOMAIN store'.alerts) \in Nat
        /\ Cardinality(DOMAIN store'.alerts) <= Cardinality(DOMAIN store.alerts)
    BY <1>2, <2>1, FS_Subset, FS_CardinalityType
  <2> QED
    BY <2>1, <2>2, StoreAssumption DEF StoreInv, CapacityRespected
<1>4. IdsAreFresh' /\ NotFromTheFuture' /\ OrderIsChronological'
  BY <1>2 DEF StoreInv, IdsAreFresh, NotFromTheFuture, OrderIsChronological
<1>5. nextId' \in 1..(MaxId + 1) /\ clock' \in 0..ClockEnd
  BY <1>1
<1> QED
  BY <1>2, <1>3, <1>4, <1>5, InvStore DEF GoodStore, CapacityRespected, IdsAreFresh,
     NotFromTheFuture, OrderIsChronological, StoreInv, StoreTypeOK, IndexesAgree

\* An add keeps the invariant.
LEMMA AddKeepsInv ==
  ASSUME StoreInv, NEW shape \in Shapes, NEW a,
         a = [created_at |-> Stamp(clock), correlation_id |-> shape["correlation_id"],
              player_name |-> shape["player_name"], team |-> shape["team"]],
         Add(a)
  PROVE  StoreInv'
<1>1. /\ GoodStore(store) /\ nextId \in 1..(MaxId + 1) /\ clock \in 0..ClockEnd
      /\ CapacityRespected /\ IdsAreFresh /\ NotFromTheFuture /\ OrderIsChronological
  BY InvStore
<1>2. /\ nextId \in 1..MaxId /\ nextId' = nextId + 1 /\ clock' = clock
      /\ store' = Insert(store, nextId, a)
  BY <1>1, StoreAssumption DEF Add
<1>3. a \in Alert
  <2>1. shape \in [Fields -> Keys \cup {Null}]
    BY StoreAssumption
  <2> QED
    BY <2>1, <1>1 DEF Alert, Fields, Stamp
<1>4. nextId \notin DOMAIN store.alerts
  BY <1>1, <1>2 DEF IdsAreFresh
<1>5. /\ GoodStore(store')
      /\ Cardinality(DOMAIN store'.alerts) <= MaxAlerts
      /\ nextId \in DOMAIN store'.alerts /\ store'.alerts[nextId] = a
      /\ DOMAIN store'.alerts \subseteq DOMAIN store.alerts \cup {nextId}
      /\ \A i \in DOMAIN store'.alerts \ {nextId} : store'.alerts[i] = store.alerts[i]
  BY <1>1, <1>2, <1>3, <1>4, InsertKeepsStoreGood DEF CapacityRespected
<1>6. a.created_at = clock
  BY DEF Stamp
<1>7. DOMAIN store.alerts \subseteq Nat /\ nextId \in Nat
  BY <1>1, <1>2 DEF GoodStore
<1>8. IdsAreFresh'
  BY <1>1, <1>2, <1>5, <1>7 DEF IdsAreFresh
<1>9. NotFromTheFuture'
  BY <1>1, <1>2, <1>5, <1>6, StoreAssumption DEF NotFromTheFuture
<1>10. OrderIsChronological'
  <2>1. SUFFICES ASSUME NEW i \in DOMAIN store'.alerts, NEW j \in DOMAIN store'.alerts,
                        i < j
                 PROVE  store'.alerts[i].created_at <= store'.alerts[j].created_at
    BY DEF OrderIsChronological
  <2>2. i # nextId
    BY <2>1, <1>1, <1>5, <1>7 DEF IdsAreFresh
  <2>3. CASE j = nextId
    BY <2>2, <2>3, <1>1, <1>5, <1>6 DEF NotFromTheFuture
  <2>4. CASE j # nextId
    BY <2>1, <2>2, <2>4, <1>1, <1>5 DEF OrderIsChronological
  <2> QED
    BY <2>3, <2>4
<1>11. nextId' \in 1..(MaxId + 1) /\ clock' \in 0..ClockEnd
  BY <1>1, <1>2, StoreAssumption
<1> QED
  BY <1>5, <1>8, <1>9, <1>10, <1>11, InvStore DEF GoodStore, CapacityRespected,
     StoreInv, StoreTypeOK, IndexesAgree

\* A step that changes at most the clock keeps the invariant.
LEMMA ClockKeepsInv ==
  ASSUME StoreInv, UNCHANGED <<store, nextId>>, clock' \in 0..ClockEnd, NotFromTheFuture'
  PROVE  StoreInv'
BY DEF StoreInv, StoreTypeOK, IndexesAgree, CapacityRespected, IdsAreFresh,
       OrderIsChronological

\* Every step keeps the invariant.
LEMMA NextStoreInv == StoreInv /\ [StoreNext]_storeVars => StoreInv'
<1> SUFFICES ASSUME StoreInv, [StoreNext]_storeVars PROVE StoreInv'
  OBVIOUS
<1>1. CASE ClockTick
  <2>1. store' = store /\ nextId' = nextId /\ clock' \in 0..ClockEnd /\ clock' = clock + 1
    BY <1>1, StoreAssumption DEF ClockTick, StoreInv, StoreTypeOK
  <2>2. \A id \in DOMAIN store.alerts : store.alerts[id].created_at \in Nat
    BY DEF Alert, StoreInv, StoreTypeOK
  <2>3. clock \in Nat
    BY StoreAssumption DEF StoreInv, StoreTypeOK
  <2> QED
    BY <2>1, <2>2, <2>3, ClockKeepsInv DEF StoreInv, NotFromTheFuture
<1>2. ASSUME NEW shape \in Shapes,
             Add([created_at |-> Stamp(clock), correlation_id |-> shape["correlation_id"],
                  player_name |-> shape["player_name"], team |-> shape["team"]])
      PROVE  StoreInv'
  BY <1>2, AddKeepsInv
<1>3. ASSUME NEW id \in 1..MaxId, Get(id) PROVE StoreInv'
  <2>1. CASE store' = store
    BY <2>1, <1>3, ClockKeepsInv DEF Get, StoreInv, StoreTypeOK, NotFromTheFuture
  <2>2. CASE store' = RemoveAlerts(store, {id})
    BY <2>2, <1>3, DropKeepsInv DEF Get
  <2> QED
    BY <2>1, <2>2, <1>3 DEF Get
<1>4. ASSUME NEW field \in Fields, NEW key \in Keys, GetBy(field, key) PROVE StoreInv'
  BY <1>4, DropKeepsInv DEF GetBy, CleanupExpired
<1>5. ASSUME NEW limit \in 1..MaxAlerts,
             \/ GetRecent(limit)
             \/ \E field \in Fields, key \in Keys : GetAlerts(field, key, limit)
      PROVE  StoreInv'
  BY <1>5, DropKeepsInv DEF GetRecent, GetAlerts, CleanupExpired
<1>6. CASE Clear
  <2>1. store' = EmptyStore /\ nextId' = nextId /\ clock' = clock
    BY <1>6 DEF Clear
  <2>2. GoodStore(store') /\ DOMAIN store'.alerts = {} /\ CapacityRespected'
    BY <2>1, EmptyStoreGood DEF CapacityRespected
  <2>3. IdsAreFresh' /\ NotFromTheFuture' /\ OrderIsChronological'
    BY <2>2 DEF IdsAreFresh, NotFromTheFuture, OrderIsChronological
  <2>4. nextId' \in 1..(MaxId + 1) /\ clock' \in 0..ClockEnd
    BY <2>1 DEF StoreInv, StoreTypeOK
  <2> QED
    BY <2>2, <2>3, <2>4 DEF GoodStore, StoreInv, StoreTypeOK, IndexesAgree
<1>7. CASE UNCHANGED storeVars
  BY <1>7, ClockKeepsInv DEF storeVars, StoreInv, StoreTypeOK, NotFromTheFuture
<1> QED
  BY <1>1, <1>2, <1>3, <1>4, <1>5, <1>6, <1>7 DEF StoreNext

-----------------------------------------------------------------------------

\* The inductive invariant holds in every behaviour of the store.
THEOREM StoreInvariant == StoreSpec => []StoreInv
BY InitStoreInv, NextStoreInv, PTL DEF StoreSpec

\* The store's type invariant, for every capacity, TTL and set of keys.
THEOREM StoreTypeCorrect == StoreSpec => []StoreTypeOK
<1>1. StoreInv => StoreTypeOK
  BY DEF StoreInv
<1> QED
  BY <1>1, StoreInvariant, PTL

\* The dict, the order list and the indexes of AlertStore always agree.
THEOREM IndexesAlwaysAgree == StoreSpec => []IndexesAgree
<1>1. StoreInv => IndexesAgree
  BY DEF StoreInv
<1> QED
  BY <1>1, StoreInvariant, PTL

\* The store never exceeds max_alerts.
THEOREM CapacityAlwaysRespected == StoreSpec => []CapacityRespected
<1>1. StoreInv => CapacityRespected
  BY DEF StoreInv
<1> QED
  BY <1>1, StoreInvariant, PTL

\* The eviction loop of add always ends: its head is never stale.
THEOREM EvictionAlwaysMakesRoom == StoreSpec => []EvictionMakesRoom
<1>1. StoreInv => EvictionMakesRoom
  <2>1. SUFFICES ASSUME StoreInv PROVE EvictionMakesRoom
    OBVIOUS
  <2>2. GoodStore(store) /\ Cardinality(DOMAIN store.alerts) <= MaxAlerts
    BY <2>1, InvStore DEF CapacityRespected
  <2> DEFINE r == IF Full(store) THEN EvictOldest(store) ELSE store
  <2>3. GoodStore(r) /\ Cardinality(DOMAIN r.alerts) < MaxAlerts
    BY <2>2, EvictionFrees
  <2>4. Cardinality(DOMAIN r.alerts) \in Nat
    BY <2>3, GoodStoreFinite
  <2> HIDE DEF r
  <2>5. ~Full(r)
    BY <2>3, <2>4, StoreAssumption DEF Full
  <2> QED
    BY <2>5 DEF EvictionMakesRoom, r
<1> QED
  BY <1>1, StoreInvariant, PTL

\* A live alert is lost only to a clear or, one at a time and oldest first,
\* to an add at capacity.
THEOREM LiveAlertsAlwaysKept == StoreSpec => LiveAlertsKept
<1>1. ASSUME StoreInv, [StoreNext]_storeVars, NEW id \in Lost,
             ~IsExpired(store.alerts[id], clock)
      PROVE  \/ store' = EmptyStore
             \/ /\ Full(store) /\ nextId' # nextId /\ Lost = {id}
                /\ \A kept \in DOMAIN store'.alerts :
                     store'.alerts[kept].created_at >= store.alerts[id].created_at
  <2>1. /\ GoodStore(store) /\ nextId \in 1..(MaxId + 1) /\ clock \in 0..ClockEnd
        /\ CapacityRespected /\ IdsAreFresh /\ NotFromTheFuture /\ OrderIsChronological
    BY <1>1, InvStore
  <2>2. id \in DOMAIN store.alerts /\ id \notin DOMAIN store'.alerts
    BY <1>1 DEF Lost
  <2>3. ASSUME NEW ids, store' = RemoveAlerts(store, ids),
               \A i \in ids \cap DOMAIN store.alerts : IsExpired(store.alerts[i], clock)
        PROVE  FALSE
    <3>1. DOMAIN store'.alerts = DOMAIN store.alerts \ ids
      BY <2>1, <2>3, RemoveKeepsStoreGood
    <3> QED
      BY <3>1, <2>2, <2>3, <1>1
  <2>4. ~(store' = CleanupExpired(store, clock))
    BY <2>3 DEF CleanupExpired
  <2>5. CASE store' = store
    BY <2>2, <2>5
  <2>6. ASSUME NEW shape \in Shapes, NEW a,
               a = [created_at |-> Stamp(clock), correlation_id |-> shape["correlation_id"],
                    player_name |-> shape["player_name"], team |-> shape["team"]],
               Add(a)
        PROVE  /\ Full(store) /\ nextId' # nextId /\ Lost = {id}
               /\ \A kept \in DOMAIN store'.alerts :
                    store'.alerts[kept].created_at >= store.alerts[id].created_at
    <3>1. /\ nextId \in 1..MaxId /\ nextId' = nextId + 1
          /\ store' = Insert(store, nextId, a)
      BY <2>1, <2>6, StoreAssumption DEF Add
    <3>2. shape \in [Fields -> Keys \cup {Null}]
      BY StoreAssumption
    <3>3. a \in Alert /\ a.created_at = clock
      BY <3>2, <2>1, <2>6 DEF Alert, Fields, Stamp
    <3>4. nextId \notin DOMAIN store.alerts
      BY <2>1, <3>1 DEF IdsAreFresh
    <3>5. /\ store'.alerts[nextId] = a
          /\ DOMAIN store'.alerts \subseteq DOMAIN store.alerts \cup {nextId}
          /\ \A i \in DOMAIN store'.alerts \ {nextId} : store'.alerts[i] = store.alerts[i]
          /\ \A i \in DOMAIN store.alerts \ DOMAIN store'.alerts :
               Full(store) /\ i = Oldest(DOMAIN store.alerts)
      BY <2>1, <3>1, <3>3, <3>4, InsertKeepsStoreGood DEF CapacityRespected
    <3>6. Full(store) /\ id = Oldest(DOMAIN store.alerts) /\ Lost = {id}
      BY <3>5, <2>2 DEF Lost
    <3>7. DOMAIN store.alerts \subseteq 1..MaxId /\ nextId' # nextId
      BY <2>1, <3>1 DEF GoodStore
    <3>8. \A other \in DOMAIN store.alerts : id <= other
      BY <3>6, <3>7, <2>2, OldestIsLeast
    <3>9. store.alerts[id].created_at <= clock
      BY <2>1, <2>2 DEF NotFromTheFuture
    <3>10. ASSUME NEW kept \in DOMAIN store'.alerts
           PROVE  store'.alerts[kept].created_at >= store.alerts[id].created_at
      <4>1. CASE kept = nextId
        BY <4>1, <3>3, <3>5, <3>9, <2>1, <2>2 DEF GoodStore, Alert
      <4>2. CASE kept # nextId
        <5>1. kept \in DOMAIN store.alerts /\ store'.alerts[kept] = store.alerts[kept]
          BY <4>2, <3>5
        <5>2. id < kept
          BY <5>1, <3>7, <3>8, <2>2
        <5>3. store.alerts[id].created_at <= store.alerts[kept].created_at
          BY <5>1, <5>2, <2>1, <2>2 DEF OrderIsChronological
        <5>4. store.alerts[id].created_at \in Nat /\ store.alerts[kept].created_at \in Nat
          BY <5>1, <2>1, <2>2, StoreAssumption DEF GoodStore, Alert
        <5> QED
          BY <5>1, <5>3, <5>4
      <4> QED
        BY <4>1, <4>2
    <3> QED
      BY <3>6, <3>7, <3>10
  <2>7. CASE ClockTick
    BY <2>5, <2>7 DEF ClockTick
  <2>8. ASSUME NEW i \in 1..MaxId, Get(i) PROVE FALSE
    <3>1. store' # store
      BY <2>2
    <3>2. store' = RemoveAlerts(store, {i}) /\ IsExpired(store.alerts[i], clock)
      BY <2>8, <3>1 DEF Get
    <3> QED
      BY <3>2, <2>3
  <2>9. ASSUME NEW field \in Fields, NEW key \in Keys, GetBy(field, key) PROVE FALSE
    BY <2>9, <2>4 DEF GetBy
  <2>10. ASSUME NEW limit \in 1..MaxAlerts,
                \/ GetRecent(limit)
                \/ \E field \in Fields, key \in Keys : GetAlerts(field, key, limit)
         PROVE  FALSE
    BY <2>10, <2>4 DEF GetRecent, GetAlerts
  <2>11. CASE Clear
    BY <2>11 DEF Clear
  <2>12. CASE UNCHANGED storeVars
    BY <2>5, <2>12 DEF storeVars
  <2> QED
    BY <2>6, <2>7, <2>8, <2>9, <2>10, <2>11, <2>12, <1>1 DEF StoreNext
<1>2. StoreInv /\ [StoreNext]_storeVars => KeepsLiveAlerts
  BY <1>1 DEF KeepsLiveAlerts
<1> QED
  BY <1>2, StoreInvariant, PTL DEF StoreSpec, LiveAlertsKept

\* The alert at the head of the list is always the oldest by creation time.
THEOREM OrderAlwaysChronological == StoreSpec => []OrderIsChronological
<1>1. StoreInv => OrderIsChronological
  BY DEF StoreInv
<1> QED
  BY <1>1, StoreInvariant, PTL

-----------------------------------------------------------------------------

\* A list in order holds every id once, the smaller before the greater.
LEMMA InOrderLists ==
  ASSUME NEW ids, ids \subseteq 1..MaxId
  PROVE  LET s == InOrder(ids)
         IN  /\ IsFiniteSet(ids) /\ Cardinality(ids) \in Nat
             /\ s \in Seq(ids) /\ Len(s) = Cardinality(ids)
             /\ \A id \in ids : \E p \in 1..Len(s) : s[p] = id
             /\ \A p, q \in 1..Len(s) : p < q => s[p] < s[q]
<1>1. MaxId \in Nat
  BY StoreAssumption
<1>2. IsFiniteSet(1..MaxId)
  BY <1>1, FS_Interval
<1>3. IsFiniteSet(ids)
  BY <1>2, FS_Subset
<1>4. PICK c \in Nat : c = Cardinality(ids)
  BY <1>3, FS_CardinalityType
<1>5. ids \subseteq Int
  BY <1>1
<1> DEFINE Upto(id) == {other \in ids : other <= id}
<1>6. ASSUME NEW id \in ids
      PROVE  /\ IsFiniteSet(Upto(id)) /\ Cardinality(Upto(id)) = PlaceOf(ids, id)
             /\ PlaceOf(ids, id) \in 1..c
  <2>1. Upto(id) \in SUBSET ids /\ id \in Upto(id)
    BY <1>5
  <2>2. Cardinality(Upto(id)) = PlaceOf(ids, id)
    BY DEF PlaceOf
  <2> HIDE DEF Upto
  <2>3. IsFiniteSet(Upto(id)) /\ Cardinality(Upto(id)) <= c
    BY <1>3, <1>4, <2>1, FS_Subset
  <2>4. Cardinality(Upto(id)) \in Nat
    BY <2>3, FS_CardinalityType
  <2>5. Cardinality(Upto(id)) # 0
    BY <2>1, <2>3, FS_EmptySet
  <2> QED
    BY <2>2, <2>3, <2>4, <2>5
<1>7. ASSUME NEW x \in ids, NEW y \in ids, x < y
      PROVE  PlaceOf(ids, x) < PlaceOf(ids, y)
  <2>1. Upto(x) \in SUBSET Upto(y) /\ y \in Upto(y) /\ y \notin Upto(x)
    <3>1. x \in Int /\ y \in Int /\ x < y
      BY <1>5, <1>7
    <3>2. ASSUME NEW other \in ids, other <= x
          PROVE  other <= y
      BY <1>5, <3>1, <3>2
    <3>3. y <= y /\ ~(y <= x)
      BY ONLY <3>1
    <3> QED
      BY <3>2, <3>3
  <2> HIDE DEF Upto
  <2>2. Cardinality(Upto(x)) <= Cardinality(Upto(y)) /\ Cardinality(Upto(x)) # Cardinality(Upto(y))
    BY <1>6, <2>1, FS_Subset
  <2> QED
    BY <1>6, <2>2
<1> HIDE DEF Upto
<1> DEFINE f == [id \in ids |-> PlaceOf(ids, id)]
<1>8. ASSUME NEW x \in ids, NEW y \in ids, PlaceOf(ids, x) = PlaceOf(ids, y)
      PROVE  x = y
  <2>1. x \in Int /\ y \in Int
    BY <1>5
  <2>2. PlaceOf(ids, x) \in Int /\ PlaceOf(ids, y) \in Int
    BY <1>6
  <2>3. ~(x < y) /\ ~(y < x)
    BY <1>7, <1>8, <2>2
  <2> QED
    BY <2>1, <2>3
<1>9. f \in Injection(ids, 1..c)
  BY <1>6, <1>8 DEF Injection, IsInjective
<1>10. IsFiniteSet(1..c) /\ Cardinality(1..c) = c
  BY FS_Interval
<1> HIDE DEF f
<1>11. f \in Surjection(ids, 1..c)
  BY <1>3, <1>4, <1>9, <1>10, FS_Injection
<1>12. ASSUME NEW p \in 1..c
       PROVE  \E id \in ids : PlaceOf(ids, id) = p
  BY <1>11 DEF Surjection, f
<1> DEFINE s == InOrder(ids)
<1>13. /\ s = [p \in 1..c |-> CHOOSE id \in ids : PlaceOf(ids, id) = p]
       /\ DOMAIN s = 1..c
  BY <1>4 DEF InOrder
<1>14. ASSUME NEW p \in 1..c
       PROVE  s[p] \in ids /\ PlaceOf(ids, s[p]) = p
  BY <1>12, <1>13
<1>15. s = [p \in 1..c |-> s[p]]
  BY <1>13
<1> HIDE DEF s
<1>16. s \in [1..c -> ids]
  BY ONLY <1>14, <1>15
<1>17. s \in Seq(ids) /\ Len(s) = c
  BY ONLY <1>16, c \in Nat
<1>18. ASSUME NEW id \in ids
       PROVE  \E p \in 1..c : s[p] = id
  BY <1>6, <1>8, <1>14
<1>19. ASSUME NEW p \in 1..c, NEW q \in 1..c, p < q
       PROVE  s[p] < s[q]
  <2>1. s[p] \in ids /\ s[q] \in ids /\ PlaceOf(ids, s[p]) = p /\ PlaceOf(ids, s[q]) = q
    BY <1>14
  <2>2. p \in Int /\ q \in Int /\ p < q
    BY <1>19
  <2>3. ~(s[q] < s[p])
    <3>1. SUFFICES ASSUME s[q] < s[p] PROVE FALSE
      OBVIOUS
    <3>2. PlaceOf(ids, s[q]) < PlaceOf(ids, s[p])
      BY <1>7, <2>1, <3>1
    <3> QED
      BY ONLY <2>1, <2>2, <3>2
  <2>4. s[p] # s[q]
    BY ONLY <2>1, <2>2
  <2>5. s[p] \in Int /\ s[q] \in Int
    BY <1>5, <2>1
  <2> QED
    BY ONLY <2>3, <2>4, <2>5
<1> QED
  BY <1>3, <1>4, <1>17, <1>18, <1>19 DEF s

\* The last places of a list in order are as many ids, and the greatest ones.
LEMMA LastOfList ==
  ASSUME NEW ids, ids \subseteq 1..MaxId, NEW from \in Nat \ {0},
         from <= Cardinality(ids) + 1
  PROVE  LET s == InOrder(ids)
             last == {s[p] : p \in from..Len(s)}
         IN  /\ last \subseteq ids
             /\ Cardinality(last) = Cardinality(ids) - from + 1
             /\ \A id \in ids \ last, other \in last : other > id
<1> DEFINE s == InOrder(ids)
<1>1. PICK c \in Nat : c = Cardinality(ids)
  BY InOrderLists
<1>2. /\ s \in Seq(ids) /\ Len(s) = c
      /\ \A id \in ids : \E p \in 1..c : s[p] = id
      /\ \A p, q \in 1..c : p < q => s[p] < s[q]
  BY <1>1, InOrderLists
<1>3. ids \subseteq Int
  BY StoreAssumption
<1> HIDE DEF s
<1> DEFINE last == {s[p] : p \in from..c}
           g == [p \in from..c |-> s[p]]
<1>4. \A p \in 1..c : s[p] \in ids
  BY <1>2
<1>5. from..c \subseteq 1..c
  OBVIOUS
<1>6. last \subseteq ids
  BY <1>4, <1>5
<1>7. ASSUME NEW p \in from..c, NEW q \in from..c, s[p] = s[q]
      PROVE  p = q
  <2>1. p \in 1..c /\ q \in 1..c /\ s[p] \in Int
    BY <1>3, <1>4, <1>5
  <2>2. ~(p < q) /\ ~(q < p)
    BY <1>2, <1>7, <2>1
  <2> QED
    BY ONLY <2>1, <2>2, c \in Nat
<1>8. g \in Bijection(from..c, last)
  <2>1. g \in Injection(from..c, last)
    BY <1>7 DEF Injection, IsInjective
  <2>2. g \in Surjection(from..c, last)
    BY DEF Surjection
  <2> QED
    BY <2>1, <2>2 DEF Bijection
<1>9. IsFiniteSet(from..c) /\ Cardinality(from..c) = c - from + 1
  <2>1. IsFiniteSet(from..c) /\ Cardinality(from..c) = IF from > c THEN 0 ELSE c - from + 1
    BY FS_Interval
  <2> QED
    BY <1>1, <2>1
<1> HIDE DEF g, last
<1>10. Cardinality(last) = c - from + 1
  <2>1. ExistsBijection(from..c, last)
    BY <1>8 DEF ExistsBijection
  <2> QED
    BY <1>9, <2>1, FS_Bijection
<1>11. ASSUME NEW id \in ids \ last, NEW other \in last
       PROVE  other > id
  <2>1. PICK p \in 1..c : s[p] = id
    BY <1>2
  <2>2. PICK q \in from..c : s[q] = other
    BY DEF last
  <2>3. p < from
    BY <2>1 DEF last
  <2>4. p < q /\ q \in 1..c
    BY <2>3, <1>5
  <2>5. s[p] < s[q]
    BY <1>2, <2>4
  <2>6. id \in Int /\ other \in Int
    BY <1>3, <1>6
  <2> QED
    BY ONLY <2>1, <2>2, <2>5, <2>6
<1> QED
  BY <1>1, <1>2, <1>6, <1>10, <1>11 DEF s, last

\* A cleanup leaves the alerts that have not expired, all of them.
LEMMA CleanupLeavesLive ==
  ASSUME NEW s, GoodStore(s), NEW t
  PROVE  LET r == CleanupExpired(s, t)
         IN  /\ GoodStore(r)
             /\ DOMAIN r.alerts = {id \in DOMAIN s.alerts : ~IsExpired(s.alerts[id], t)}
             /\ \A id \in DOMAIN r.alerts : r.alerts[id] = s.alerts[id]
             /\ \A field \in Fields, key \in Keys :
                  r.index[<<field, key>>] =
                    {id \in DOMAIN s.alerts : /\ ~IsExpired(s.alerts[id], t)
                                              /\ s.alerts[id][field] = key}
<1> DEFINE dead == {id \in DOMAIN s.alerts : IsExpired(s.alerts[id], t)}
           r == CleanupExpired(s, t)
<1>1. r = RemoveAlerts(s, dead)
  BY DEF CleanupExpired
<1>2. /\ GoodStore(r)
      /\ DOMAIN r.alerts = DOMAIN s.alerts \ dead
      /\ \A id \in DOMAIN r.alerts : r.alerts[id] = s.alerts[id]
  BY <1>1, RemoveKeepsStoreGood
<1>3. DOMAIN r.alerts = {id \in DOMAIN s.alerts : ~IsExpired(s.alerts[id], t)}
  BY <1>2
<1> HIDE DEF r
<1>4. ASSUME NEW field \in Fields, NEW key \in Keys
      PROVE  r.index[<<field, key>>] =
               {id \in DOMAIN s.alerts : /\ ~IsExpired(s.alerts[id], t)
                                         /\ s.alerts[id][field] = key}
  <2>1. r.index[<<field, key>>] = {id \in DOMAIN r.alerts : r.alerts[id][field] = key}
    BY <1>2 DEF GoodStore
  <2> QED
    BY <1>2, <1>3, <2>1
<1> QED
  BY <1>2, <1>3, <1>4 DEF r

\* A filtered listing holds the alerts of an index, from the oldest on.
LEMMA FilteredListingExact ==
  ASSUME NEW ids, ids \subseteq 1..MaxId, NEW limit \in Nat
  PROVE  LET n == IF Cardinality(ids) < limit THEN Cardinality(ids) ELSE limit
             s == SubSeq(InOrder(ids), 1, n)
         IN  ToSet(s) \subseteq ids /\ Len(s) = n
<1> DEFINE n == IF Cardinality(ids) < limit THEN Cardinality(ids) ELSE limit
           s == SubSeq(InOrder(ids), 1, n)
<1>1. PICK c \in Nat : c = Cardinality(ids)
  BY InOrderLists
<1>2. InOrder(ids) \in Seq(ids) /\ Len(InOrder(ids)) = c
  BY <1>1, InOrderLists
<1>3. n \in 0..c
  BY <1>1
<1>4. \A p \in 1..n : InOrder(ids)[p] \in ids
  BY <1>2, <1>3
<1>5. s \in Seq(ids) /\ Len(s) = n
  BY <1>3, <1>4, SubSeqProperties
<1>6. DOMAIN s = 1..n /\ \A p \in 1..n : s[p] \in ids
  BY <1>5
<1> QED
  BY <1>5, <1>6 DEF ToSet

\* Every listing holds the live alerts filed under the key asked for, as many
\* as the limit allows, and the recent listing the newest ones.
THEOREM ListingsAlwaysExact == StoreSpec => ListingsExact
<1> DEFINE Exact == LET key   == listing'.asked
                        shown == ToSet(listing'.ids)
                        all   == Cardinality(Matching(key))
                    IN  /\ shown \subseteq Matching(key)
                        /\ Len(listing'.ids) = IF all < LimitOf(key) THEN all ELSE LimitOf(key)
                        /\ key[1] = "recent" =>
                             /\ \A p, q \in DOMAIN listing'.ids :
                                  p < q => listing'.ids[p] > listing'.ids[q]
                             /\ \A id \in Matching(key) \ shown : \A other \in shown : other > id
<1>1. StoreInv => GoodStore(store) /\ Cardinality(DOMAIN store.alerts) <= MaxAlerts
  BY InvStore DEF CapacityRespected
<1>2. ASSUME StoreInv, NEW field \in Fields, NEW key \in Keys,
             store' = CleanupExpired(store, clock), NEW asked,
             asked = <<field, key>> \/ \E limit : asked = <<field, key, limit>>
      PROVE  /\ Matching(asked) \subseteq 1..MaxId
             /\ Listed(store', store'.index[<<field, key>>]) = InOrder(Matching(asked))
             /\ Cardinality(Matching(asked)) \in Nat
             /\ Cardinality(Matching(asked)) <= MaxAlerts
             /\ asked[1] # "recent"
  <2>1. asked[1] = field /\ asked[2] = key /\ asked[1] # "recent"
    BY <1>2 DEF Fields
  <2>2. Matching(asked) = {id \in DOMAIN store.alerts : /\ ~IsExpired(store.alerts[id], clock)
                                                        /\ store.alerts[id][field] = key}
    BY <2>1 DEF Matching
  <2>3. /\ store'.index[<<field, key>>] = Matching(asked)
        /\ Matching(asked) \subseteq DOMAIN store'.alerts
    BY <1>1, <1>2, <2>2, CleanupLeavesLive
  <2>4. Listed(store', Matching(asked)) = InOrder(Matching(asked))
    <3>1. Matching(asked) \cap DOMAIN store'.alerts = Matching(asked)
      BY <2>3
    <3> QED
      BY <3>1 DEF Listed
  <2>5. /\ IsFiniteSet(DOMAIN store.alerts) /\ Cardinality(DOMAIN store.alerts) \in Nat
        /\ Cardinality(DOMAIN store.alerts) <= MaxAlerts
    BY <1>1, <1>2, GoodStoreFinite
  <2>6. Matching(asked) \in SUBSET (DOMAIN store.alerts)
    BY <2>2
  <2>7. /\ IsFiniteSet(Matching(asked))
        /\ Cardinality(Matching(asked)) <= Cardinality(DOMAIN store.alerts)
    BY <2>5, <2>6, FS_Subset
  <2>8. Cardinality(Matching(asked)) \in Nat
    BY <2>7, FS_CardinalityType
  <2>9. Matching(asked) \subseteq 1..MaxId
    BY <1>1, <1>2, <2>6 DEF GoodStore
  <2>10. Cardinality(Matching(asked)) <= MaxAlerts
    BY <2>5, <2>7, <2>8, StoreAssumption
  <2> QED
    BY <2>1, <2>3, <2>4, <2>8, <2>9, <2>10
<1>3. ASSUME StoreInv, NEW field \in Fields, NEW key \in Keys, GetBy(field, key)
      PROVE  Exact
  <2> DEFINE asked == <<field, key>>
  <2>1. store' = CleanupExpired(store, clock) /\ listing'.asked = asked
    BY <1>3 DEF GetBy
  <2>2. /\ Matching(asked) \subseteq 1..MaxId
        /\ Listed(store', store'.index[<<field, key>>]) = InOrder(Matching(asked))
        /\ Cardinality(Matching(asked)) \in Nat
        /\ Cardinality(Matching(asked)) <= MaxAlerts
        /\ asked[1] # "recent"
    BY <1>2, <1>3, <2>1
  <2>3. listing'.ids = InOrder(Matching(asked))
    BY <1>3, <2>2 DEF GetBy
  <2>4. LimitOf(asked) = MaxAlerts
    BY <2>2 DEF LimitOf
  <2>5. /\ InOrder(Matching(asked)) \in Seq(Matching(asked))
        /\ Len(InOrder(Matching(asked))) = Cardinality(Matching(asked))
    BY <2>2, InOrderLists
  <2>6. ToSet(InOrder(Matching(asked))) \subseteq Matching(asked)
    BY <2>5 DEF ToSet
  <2>7. \/ Cardinality(Matching(asked)) < MaxAlerts
        \/ Cardinality(Matching(asked)) = MaxAlerts
    BY <2>2, StoreAssumption
  <2> HIDE DEF asked
  <2> QED
    BY <2>1, <2>2, <2>3, <2>4, <2>5, <2>6, <2>7
<1>4. ASSUME StoreInv, NEW field \in Fields, NEW key \in Keys, NEW limit \in 1..MaxAlerts,
             GetAlerts(field, key, limit)
      PROVE  Exact
  <2> DEFINE asked == <<field, key, limit>>
             all == InOrder(Matching(asked))
             n == IF Cardinality(Matching(asked)) < limit
                  THEN Cardinality(Matching(asked)) ELSE limit
  <2>1. store' = CleanupExpired(store, clock) /\ listing'.asked = asked
    BY <1>4 DEF GetAlerts
  <2>2. /\ Matching(asked) \subseteq 1..MaxId
        /\ Listed(store', store'.index[<<field, key>>]) = all
        /\ Cardinality(Matching(asked)) \in Nat
        /\ asked[1] # "recent"
    BY <1>2, <1>4, <2>1
  <2>3. Len(all) = Cardinality(Matching(asked))
    BY <2>2, InOrderLists
  <2>4. listing'.ids = SubSeq(all, 1, n)
    BY <1>4, <2>2, <2>3 DEF GetAlerts
  <2>5. LimitOf(asked) = limit /\ limit \in Nat
    BY <2>2, StoreAssumption DEF LimitOf
  <2>6. ToSet(SubSeq(all, 1, n)) \subseteq Matching(asked) /\ Len(SubSeq(all, 1, n)) = n
    <3>1. PICK ids : ids = Matching(asked)
      OBVIOUS
    <3>2. ids \subseteq 1..MaxId
      BY <2>2, <3>1
    <3> HIDE DEF asked
    <3> QED
      BY <2>5, <3>1, <3>2, FilteredListingExact
  <2> HIDE DEF asked
  <2> QED
    BY <2>1, <2>2, <2>4, <2>5, <2>6
<1>5. ASSUME StoreInv, NEW limit \in 1..MaxAlerts, GetRecent(limit)
      PROVE  Exact
  <2> DEFINE asked == <<"recent", limit>>
             live == Matching(asked)
             all  == InOrder(live)
             from == IF Len(all) > limit THEN Len(all) - limit + 1 ELSE 1
             last == {all[place] : place \in from..Len(all)}
  <2>1. store' = CleanupExpired(store, clock) /\ listing'.asked = asked
    BY <1>5 DEF GetRecent
  <2>2. live = {id \in DOMAIN store.alerts : ~IsExpired(store.alerts[id], clock)}
    BY DEF Matching, Fields
  <2>3. store'.order = live /\ DOMAIN store'.alerts = live /\ live \subseteq 1..MaxId
    <3> HIDE DEF live
    <3>1. GoodStore(store') /\ DOMAIN store'.alerts = live
      BY <1>1, <1>5, <2>1, <2>2, CleanupLeavesLive
    <3> QED
      BY <3>1 DEF GoodStore
  <2>4. limit \in Nat \ {0} /\ LimitOf(asked) = limit
    BY StoreAssumption DEF LimitOf
  <2>5. PICK c \in Nat : c = Cardinality(live)
    BY <2>3, InOrderLists
  <2>6. Len(all) = c
    BY <2>3, <2>5, InOrderLists
  <2>7. from \in Nat \ {0} /\ from <= c + 1 /\ c - from + 1 = IF c < limit THEN c ELSE limit
    <3>1. from = IF c > limit THEN c - limit + 1 ELSE 1
      BY <2>6
    <3>2. limit \in Nat /\ limit > 0
      BY <2>4
    <3> HIDE DEF from
    <3> QED
      BY ONLY <3>1, <3>2, c \in Nat
  <2>8. listing'.ids = Reverse(Listed(store', last))
    BY <1>5, <2>3 DEF GetRecent
  <2> HIDE DEF asked, live, from
  <2>9. /\ last \subseteq live
        /\ Cardinality(last) = c - from + 1
        /\ \A id \in live \ last, other \in last : other > id
    BY <2>3, <2>5, <2>7, LastOfList
  <2> HIDE DEF last, all
  <2>10. last \cap DOMAIN store'.alerts = last /\ last \subseteq 1..MaxId
    BY <2>3, <2>9
  <2>11. PICK shown : shown = InOrder(last)
    OBVIOUS
  <2>12. listing'.ids = Reverse(shown)
    BY <2>8, <2>10, <2>11 DEF Listed
  <2>13. PICK k \in Nat : k = Cardinality(last)
    BY <2>10, InOrderLists
  <2>14. /\ shown \in Seq(last) /\ Len(shown) = k
         /\ \A id \in last : \E p \in 1..k : shown[p] = id
         /\ \A p, q \in 1..k : p < q => shown[p] < shown[q]
    BY <2>10, <2>11, <2>13, InOrderLists
  <2>15. listing'.ids = [p \in 1..k |-> shown[(k - p) + 1]]
    BY <2>12, <2>14 DEF Reverse
  <2>16. ToSet(listing'.ids) = last /\ Len(listing'.ids) = k
    <3>1. \A p \in 1..k : (k - p) + 1 \in 1..k /\ (k - ((k - p) + 1)) + 1 = p
      OBVIOUS
    <3>2. \A p \in 1..k : shown[p] \in last
      BY <2>14
    <3>3. \A id \in last : \E p \in 1..k : shown[(k - p) + 1] = id
      BY <2>14, <3>1
    <3>4. ToSet(listing'.ids) = {shown[(k - p) + 1] : p \in 1..k}
      BY <2>15 DEF ToSet
    <3>5. Len(listing'.ids) = k
      BY <2>15
    <3> QED
      BY <3>1, <3>2, <3>3, <3>4, <3>5
  <2>18. \A p, q \in DOMAIN listing'.ids : p < q => listing'.ids[p] > listing'.ids[q]
    <3> SUFFICES ASSUME NEW p \in 1..k, NEW q \in 1..k, p < q
                 PROVE  listing'.ids[p] > listing'.ids[q]
      BY <2>15
    <3>1. PICK i, j \in 1..k : i = (k - p) + 1 /\ j = (k - q) + 1 /\ j < i
      <4>1. (k - p) + 1 \in 1..k /\ (k - q) + 1 \in 1..k /\ (k - q) + 1 < (k - p) + 1
        BY ONLY k \in Nat, p \in 1..k, q \in 1..k, p < q
      <4> QED
        BY <4>1
    <3>2. shown[j] < shown[i]
      BY <2>14, <3>1
    <3>3. shown[i] \in Int /\ shown[j] \in Int
      <4>1. last \subseteq Int
        BY <2>10, StoreAssumption
      <4>2. shown[i] \in last /\ shown[j] \in last
        BY <2>14
      <4> QED
        BY <4>1, <4>2
    <3>4. listing'.ids[p] = shown[i] /\ listing'.ids[q] = shown[j]
      BY <2>15, <3>1
    <3> QED
      BY ONLY <3>2, <3>3, <3>4
  <2>17. Len(listing'.ids) = IF Cardinality(live) < limit THEN Cardinality(live) ELSE limit
    BY <2>5, <2>7, <2>9, <2>13, <2>16
  <2> QED
    BY <2>1, <2>4, <2>9, <2>16, <2>17, <2>18 DEF live
<1> HIDE DEF Exact
<1>6. StoreInv /\ [StoreNext]_storeVars => (listing' # listing => Exact)
  <2>1. SUFFICES ASSUME StoreInv, [StoreNext]_storeVars, listing' # listing PROVE Exact
    OBVIOUS
  <2>2. \/ \E field \in Fields, key \in Keys : GetBy(field, key)
        \/ \E field \in Fields, key \in Keys, limit \in 1..MaxAlerts : GetAlerts(field, key, limit)
        \/ \E limit \in 1..MaxAlerts : GetRecent(limit)
    BY <2>1 DEF StoreNext, ClockTick, Add, Get, Clear, storeVars
  <2> QED
    BY <2>1, <2>2, <1>3, <1>4, <1>5
<1> USE DEF Exact
<1> QED
  BY <1>6, StoreInvariant, PTL DEF StoreSpec, ListingsExact
=============================================================================
