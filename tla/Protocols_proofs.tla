--------------------------- MODULE Protocols_proofs ---------------------------
(***************************************************************************)
(* Proofs about module Protocols, for any ids, refresh requests, feeds,    *)
(* ages and bound on the clock: a refresh that waited never puts older     *)
(* data, or a protocol that is gone, into the tracker.                     *)
(***************************************************************************)
EXTENDS Protocols, TLAPS

\* Nothing that is stored was read in the future.
NothingFromTheFuture == \A id \in DOMAIN tracked :
  /\ tracked[id].current_odds # None => tracked[id].current_odds.at <= now
  /\ tracked[id].current_score # None => tracked[id].current_score.at <= now

\* The inductive invariant.
ProtocolsInv == ProtocolsTypeOK /\ NothingFromTheFuture

TrackedOK(table, time) == \A id \in DOMAIN table :
  /\ table[id] \in TrackedProtocol
  /\ table[id].current_odds # None => table[id].current_odds.at <= time
  /\ table[id].current_score # None => table[id].current_score.at <= time

-----------------------------------------------------------------------------
(* What the providers answer, and what is made of it.                      *)

LEMMA OddsTyped ==
  ASSUME ProtocolsTypeOK
  PROVE  OddsNow \in OddsResponse /\ OddsNow # None /\ OddsNow.at = now
<1>1. feed \in Feed /\ now \in Nat
  BY ProtocolsAssumption DEF ProtocolsTypeOK
<1>2. OddsNow \in OddsResponse /\ OddsNow.at = now
  BY <1>1 DEF OddsNow, OddsResponse, Feed
<1>3. QED  BY <1>2, ProtocolsAssumption

LEMMA ScoreTyped ==
  ASSUME ProtocolsTypeOK
  PROVE  ScoreNow \in ScoreResponse /\ ScoreNow # None /\ ScoreNow.at = now
<1>1. feed \in Feed /\ now \in Nat
  BY ProtocolsAssumption DEF ProtocolsTypeOK
<1>2. ScoreNow \in ScoreResponse /\ ScoreNow.at = now
  BY <1>1 DEF ScoreNow, ScoreResponse, Feed
<1>3. QED  BY <1>2, ProtocolsAssumption

LEMMA SuggestionTyped ==
  ASSUME NEW type \in {"spread", "total", "score"}, NEW a \in Int, NEW b \in Int
  PROVE  <<Suggestion(type, a, b)>> \in Seq(DNASuggestion)
<1>1. Suggestion(type, a, b) \in DNASuggestion
  BY DEF Suggestion, DNASuggestion
<1>2. QED  BY <1>1

LEMMA OddsSuggestionsTyped ==
  ASSUME NEW old \in OddsResponse \cup {None}, NEW new \in OddsResponse
  PROVE  AnalyzeOddsChange(old, new) \in Seq(DNASuggestion)
<1>1. CASE old = None
  BY <1>1 DEF AnalyzeOddsChange
<1>2. CASE old # None
  <2>1. old \in OddsResponse
    BY <1>2
  <2> DEFINE spread == IF Moved(old.spread, new.spread, SpreadThreshold)
                       THEN <<Suggestion("spread", old.spread, new.spread)>> ELSE <<>>
             total  == IF Moved(old.total, new.total, TotalThreshold)
                       THEN <<Suggestion("total", old.total, new.total)>> ELSE <<>>
  <2>2. spread \in Seq(DNASuggestion)
    <3>1. CASE Moved(old.spread, new.spread, SpreadThreshold)
      <4>1. old.spread \in Int /\ new.spread \in Int
        BY <2>1, <3>1 DEF Moved, OddsResponse
      <4>2. QED  BY <3>1, <4>1, SuggestionTyped
    <3>2. CASE ~Moved(old.spread, new.spread, SpreadThreshold)
      BY <3>2
    <3>3. QED  BY <3>1, <3>2
  <2>3. total \in Seq(DNASuggestion)
    <3>1. CASE Moved(old.total, new.total, TotalThreshold)
      <4>1. old.total \in Int /\ new.total \in Int
        BY <2>1, <3>1 DEF Moved, OddsResponse
      <4>2. QED  BY <3>1, <4>1, SuggestionTyped
    <3>2. CASE ~Moved(old.total, new.total, TotalThreshold)
      BY <3>2
    <3>3. QED  BY <3>1, <3>2
  <2>4. AnalyzeOddsChange(old, new) = spread \o total
    BY <1>2 DEF AnalyzeOddsChange
  <2> HIDE DEF spread, total
  <2>5. QED  BY <2>2, <2>3, <2>4
<1>3. QED  BY <1>1, <1>2

LEMMA ScoreSuggestionsTyped ==
  ASSUME NEW old \in ScoreResponse \cup {None}, NEW new \in ScoreResponse
  PROVE  AnalyzeScoreChange(old, new) \in Seq(DNASuggestion)
<1>1. CASE /\ old # None /\ new.score # None /\ old.score # None
           /\ new.score - old.score >= ScoreSpike
  <2>1. old.score \in Int /\ new.score \in Int
    BY <1>1 DEF ScoreResponse
  <2>2. AnalyzeScoreChange(old, new) = <<Suggestion("score", old.score, new.score)>>
    BY <1>1 DEF AnalyzeScoreChange
  <2>3. QED  BY <2>1, <2>2, SuggestionTyped
<1>2. CASE ~(/\ old # None /\ new.score # None /\ old.score # None
             /\ new.score - old.score >= ScoreSpike)
  BY <1>2 DEF AnalyzeScoreChange
<1>3. QED  BY <1>1, <1>2

\* Adding well-formed suggestions to a protocol's list.
LEMMA SuggestTyped ==
  ASSUME suggestions \in [Ids -> Seq(DNASuggestion)], NEW id \in Ids,
         NEW list \in Seq(DNASuggestion), Suggest(id, list)
  PROVE  suggestions' \in [Ids -> Seq(DNASuggestion)]
<1>1. suggestions[id] \o list \in Seq(DNASuggestion)
  OBVIOUS
<1>2. suggestions' = [suggestions EXCEPT ![id] = suggestions[id] \o list]
  BY DEF Suggest
<1>3. QED  BY <1>1, <1>2

-----------------------------------------------------------------------------
(* What each operation does to the tracker.                                *)

LEMMA InvParts ==
  ASSUME ProtocolsInv
  PROVE  TrackedOK(tracked, now) /\ now \in Nat
BY ProtocolsAssumption DEF ProtocolsInv, ProtocolsTypeOK, NothingFromTheFuture, TrackedOK

LEMMA SameTracker ==
  ASSUME ProtocolsInv, tracked' = tracked
  PROVE  GoesOn(tracked, tracked', used)
<1>1. \A id \in DOMAIN tracked :
        /\ tracked[id].current_odds # None => tracked[id].current_odds.at \in Nat
        /\ tracked[id].current_score # None => tracked[id].current_score.at \in Nat
  BY InvParts DEF TrackedOK, TrackedProtocol, OddsResponse, ScoreResponse
<1>2. QED  BY <1>1 DEF GoesOn

LEMMA FewerTracked ==
  ASSUME ProtocolsInv, NEW ids, tracked' = Without(ids)
  PROVE  /\ TrackedOK(tracked', now) /\ GoesOn(tracked, tracked', used)
         /\ DOMAIN tracked' \subseteq DOMAIN tracked
<1>1. \A id \in DOMAIN tracked :
        /\ tracked[id].current_odds # None => tracked[id].current_odds.at \in Nat
        /\ tracked[id].current_score # None => tracked[id].current_score.at \in Nat
  BY InvParts DEF TrackedOK, TrackedProtocol, OddsResponse, ScoreResponse
<1>2. QED  BY <1>1, InvParts DEF Without, TrackedOK, GoesOn

LEMMA OddsStored ==
  ASSUME ProtocolsInv, NEW id, UpdateOdds(id, OddsNow)
  PROVE  /\ TrackedOK(tracked', now) /\ GoesOn(tracked, tracked', used)
         /\ DOMAIN tracked' = DOMAIN tracked
<1>1. CASE id \notin DOMAIN tracked
  <2>1. tracked' = tracked
    BY <1>1 DEF UpdateOdds
  <2>2. QED  BY <2>1, SameTracker, InvParts
<1>2. CASE id \in DOMAIN tracked
  <2> DEFINE old == tracked[id]
  <2>1. tracked' = [tracked EXCEPT ![id] =
          [tracked[id] EXCEPT !.current_odds = OddsNow, !.last_updated = now]]
    BY <1>2 DEF UpdateOdds
  <2>2. old \in TrackedProtocol /\ now \in Nat
    BY <1>2, InvParts DEF TrackedOK
  <2>3. OddsNow \in OddsResponse /\ OddsNow # None /\ OddsNow.at = now
    BY OddsTyped DEF ProtocolsInv
  <2>4. /\ tracked'[id] \in TrackedProtocol
        /\ tracked'[id].current_odds = OddsNow
        /\ tracked'[id].current_score = old.current_score
        /\ tracked'[id].created_at = old.created_at
    <3> DEFINE new == [old EXCEPT !.current_odds = OddsNow, !.last_updated = now]
               O == OddsResponse \cup {None}
               S == ScoreResponse \cup {None}
    <3>1. tracked'[id] = new
      BY <1>2, <2>1
    <3>2. old \in [created_at : Nat, last_updated : Nat, watches_odds : BOOLEAN,
                   current_odds : O, current_score : S]
      BY <2>2 DEF TrackedProtocol
    <3>3. OddsNow \in O /\ now \in Nat
      BY <2>2, <2>3
    <3> HIDE DEF old, O, S
    <3>4. new \in [created_at : Nat, last_updated : Nat, watches_odds : BOOLEAN,
                   current_odds : O, current_score : S]
      BY <3>2, <3>3
    <3>5. DOMAIN old = {"created_at", "last_updated", "watches_odds",
                        "current_odds", "current_score"}
      BY <3>2
    <3>6. /\ new.current_odds = OddsNow /\ new.current_score = old.current_score
          /\ new.created_at = old.created_at
      BY <3>5
    <3>7. new \in TrackedProtocol
      BY <3>4 DEF TrackedProtocol, O, S
    <3> HIDE DEF new
    <3>8. QED  BY <3>1, <3>6, <3>7
  <2>5. DOMAIN tracked' = DOMAIN tracked /\ \A x \in DOMAIN tracked : x # id => tracked'[x] = tracked[x]
    BY <2>1
  <2>6. TrackedOK(tracked', now)
    BY <1>2, <2>2, <2>3, <2>4, <2>5, InvParts DEF TrackedOK
  <2>7. \A x \in DOMAIN tracked :
          /\ tracked[x].current_odds # None =>
               tracked[x].current_odds.at \in Nat /\ tracked[x].current_odds.at <= now
          /\ tracked[x].current_score # None => tracked[x].current_score.at \in Nat
    BY InvParts DEF TrackedOK, TrackedProtocol, OddsResponse, ScoreResponse
  <2>8. GoesOn(tracked, tracked', used)
    BY <2>2, <2>3, <2>4, <2>5, <2>7 DEF GoesOn
  <2>9. QED  BY <2>5, <2>6, <2>8
<1>3. QED  BY <1>1, <1>2

LEMMA ScoreStored ==
  ASSUME ProtocolsInv, NEW id, tracked' = UpdateScore(id, ScoreNow)
  PROVE  /\ TrackedOK(tracked', now) /\ GoesOn(tracked, tracked', used)
         /\ DOMAIN tracked' = DOMAIN tracked
<1>1. CASE id \notin DOMAIN tracked
  <2>1. tracked' = tracked
    BY <1>1 DEF UpdateScore
  <2>2. QED  BY <2>1, SameTracker, InvParts
<1>2. CASE id \in DOMAIN tracked
  <2> DEFINE old == tracked[id]
  <2>1. tracked' = [tracked EXCEPT ![id] =
          [tracked[id] EXCEPT !.current_score = ScoreNow, !.last_updated = now]]
    BY <1>2 DEF UpdateScore
  <2>2. old \in TrackedProtocol /\ now \in Nat
    BY <1>2, InvParts DEF TrackedOK
  <2>3. ScoreNow \in ScoreResponse /\ ScoreNow # None /\ ScoreNow.at = now
    BY ScoreTyped DEF ProtocolsInv
  <2>4. /\ tracked'[id] \in TrackedProtocol
        /\ tracked'[id].current_score = ScoreNow
        /\ tracked'[id].current_odds = old.current_odds
        /\ tracked'[id].created_at = old.created_at
    <3> DEFINE new == [old EXCEPT !.current_score = ScoreNow, !.last_updated = now]
               O == OddsResponse \cup {None}
               S == ScoreResponse \cup {None}
    <3>1. tracked'[id] = new
      BY <1>2, <2>1
    <3>2. old \in [created_at : Nat, last_updated : Nat, watches_odds : BOOLEAN,
                   current_odds : O, current_score : S]
      BY <2>2 DEF TrackedProtocol
    <3>3. ScoreNow \in S /\ now \in Nat
      BY <2>2, <2>3
    <3> HIDE DEF old, O, S
    <3>4. new \in [created_at : Nat, last_updated : Nat, watches_odds : BOOLEAN,
                   current_odds : O, current_score : S]
      BY <3>2, <3>3
    <3>5. DOMAIN old = {"created_at", "last_updated", "watches_odds",
                        "current_odds", "current_score"}
      BY <3>2
    <3>6. /\ new.current_score = ScoreNow /\ new.current_odds = old.current_odds
          /\ new.created_at = old.created_at
      BY <3>5
    <3>7. new \in TrackedProtocol
      BY <3>4 DEF TrackedProtocol, O, S
    <3> HIDE DEF new
    <3>8. QED  BY <3>1, <3>6, <3>7
  <2>5. DOMAIN tracked' = DOMAIN tracked /\ \A x \in DOMAIN tracked : x # id => tracked'[x] = tracked[x]
    BY <2>1
  <2>6. TrackedOK(tracked', now)
    BY <1>2, <2>2, <2>3, <2>4, <2>5, InvParts DEF TrackedOK
  <2>7. \A x \in DOMAIN tracked :
          /\ tracked[x].current_score # None =>
               tracked[x].current_score.at \in Nat /\ tracked[x].current_score.at <= now
          /\ tracked[x].current_odds # None => tracked[x].current_odds.at \in Nat
    BY InvParts DEF TrackedOK, TrackedProtocol, OddsResponse, ScoreResponse
  <2>8. GoesOn(tracked, tracked', used)
    BY <2>2, <2>3, <2>4, <2>5, <2>7 DEF GoesOn
  <2>9. QED  BY <2>5, <2>6, <2>8
<1>3. QED  BY <1>1, <1>2

\* The inductive invariant of the next state, part by part.
LEMMA InvNext ==
  ASSUME DOMAIN tracked' \subseteq used', used' \subseteq Ids, TrackedOK(tracked', now'),
         suggestions' \in [Ids -> Seq(DNASuggestion)], feed' \in Feeds, now' \in 0..MaxTime,
         job' \in [Refreshers -> Refresh],
         \A r \in Refreshers : job'[r].pc # "idle" => job'[r].id \in used'
  PROVE  ProtocolsInv'
BY DEF ProtocolsInv, ProtocolsTypeOK, NothingFromTheFuture, TrackedOK

LEMMA ProtocolsInitInv ==
  ASSUME ProtocolsInit
  PROVE  ProtocolsInv
<1>1. <<>> \in Seq(DNASuggestion)
  OBVIOUS
<1>2. DOMAIN tracked = {}
  BY DEF ProtocolsInit
<1>3. Idle(None) \in Refresh /\ Idle(None).pc = "idle"
  BY DEF Idle, Refresh
<1>4. job \in [Refreshers -> Refresh] /\ \A r \in Refreshers : job[r].pc = "idle"
  BY <1>3 DEF ProtocolsInit
<1>5. QED
  BY <1>1, <1>2, <1>4, ProtocolsAssumption
  DEF ProtocolsInit, ProtocolsInv, ProtocolsTypeOK, NothingFromTheFuture

\* The steps that leave the clock and the requests alone, and store nothing.
LEMMA TrackerShrinks ==
  ASSUME ProtocolsInv, NEW ids, tracked' = Without(ids),
         UNCHANGED <<suggestions, job, feed, now, used>>
  PROVE  ProtocolsInv' /\ GoesOn(tracked, tracked', used)
<1>1. /\ TrackedOK(tracked', now) /\ GoesOn(tracked, tracked', used)
      /\ DOMAIN tracked' \subseteq DOMAIN tracked
  BY FewerTracked
<1>2. QED  BY <1>1, InvNext DEF ProtocolsInv, ProtocolsTypeOK

\* Suggestions do not touch the tracker.
LEMMA Acknowledged ==
  ASSUME ProtocolsInv, NEW id \in Ids, NEW i \in 1..Len(suggestions[id]),
         AcknowledgeSuggestion(id, i)
  PROVE  ProtocolsInv' /\ GoesOn(tracked, tracked', used)
<1> DEFINE list == suggestions[id]
<1>1. suggestions \in [Ids -> Seq(DNASuggestion)] /\ list \in Seq(DNASuggestion)
  BY DEF ProtocolsInv, ProtocolsTypeOK
<1>2. [list EXCEPT ![i].acknowledged = TRUE] \in Seq(DNASuggestion)
  <2> DEFINE seen == [list[i] EXCEPT !.acknowledged = TRUE]
  <2>1. list[i] \in DNASuggestion /\ i \in 1..Len(list)
    BY <1>1
  <2>2. seen \in DNASuggestion
    BY <2>1 DEF DNASuggestion
  <2>3. [list EXCEPT ![i].acknowledged = TRUE] = [list EXCEPT ![i] = seen]
    OBVIOUS
  <2> HIDE DEF list, seen
  <2>4. [list EXCEPT ![i] = seen] \in Seq(DNASuggestion)
    BY <1>1, <2>1, <2>2
  <2>5. QED  BY <2>3, <2>4
<1>3. suggestions' = [suggestions EXCEPT ![id] = [list EXCEPT ![i].acknowledged = TRUE]]
  BY DEF AcknowledgeSuggestion
<1>4. suggestions' \in [Ids -> Seq(DNASuggestion)]
  BY <1>1, <1>2, <1>3
<1>5. /\ UNCHANGED <<tracked, job, feed, now, used>>
  BY DEF AcknowledgeSuggestion
<1>6. TrackedOK(tracked', now')
  BY <1>5, InvParts
<1>7. QED
  BY <1>4, <1>5, <1>6, InvNext, SameTracker DEF ProtocolsInv, ProtocolsTypeOK

\* A new protocol has no data, and its id was never drawn.
LEMMA Created ==
  ASSUME ProtocolsInv, NEW id \in Ids, NEW watches \in BOOLEAN, CreateProtocol(id, watches)
  PROVE  ProtocolsInv' /\ GoesOn(tracked, tracked', used)
<1> DEFINE fresh == [created_at |-> now, last_updated |-> now, watches_odds |-> watches,
                     current_odds |-> None, current_score |-> None]
<1>1. /\ id \notin used /\ used' = used \cup {id}
      /\ UNCHANGED <<suggestions, job, feed, now>>
      /\ DOMAIN tracked' = DOMAIN tracked \cup {id}
      /\ \A i \in DOMAIN tracked : tracked'[i] = tracked[i]
      /\ id \notin DOMAIN tracked => tracked'[id] = fresh
  BY DEF CreateProtocol
<1>2. id \notin DOMAIN tracked
  BY <1>1 DEF ProtocolsInv, ProtocolsTypeOK
<1>3. /\ fresh \in TrackedProtocol /\ fresh.current_odds = None /\ fresh.current_score = None
  BY InvParts DEF TrackedProtocol
<1> HIDE DEF fresh
<1>4. TrackedOK(tracked', now')
  BY <1>1, <1>2, <1>3, InvParts DEF TrackedOK
<1>5. GoesOn(tracked, tracked', used)
  <2>1. \A i \in DOMAIN tracked :
          /\ tracked[i].current_odds # None => tracked[i].current_odds.at \in Nat
          /\ tracked[i].current_score # None => tracked[i].current_score.at \in Nat
    BY InvParts DEF TrackedOK, TrackedProtocol, OddsResponse, ScoreResponse
  <2>2. QED  BY <1>1, <1>2, <2>1 DEF GoesOn
<1>6. ProtocolsInv'
  BY <1>1, <1>4, InvNext DEF ProtocolsInv, ProtocolsTypeOK
<1>7. QED  BY <1>5, <1>6

-----------------------------------------------------------------------------
(* The refresh requests.                                                   *)

\* A request that moves on keeps what it found.
LEMMA RequestMoves ==
  ASSUME ProtocolsInv, NEW r \in Refreshers, job[r].pc # "idle",
         job' = [job EXCEPT ![r].pc = "score"], used' = used
  PROVE  /\ job' \in [Refreshers -> Refresh]
         /\ \A q \in Refreshers : job'[q].pc # "idle" => job'[q].id \in used'
<1> DEFINE on == [job[r] EXCEPT !.pc = "score"]
           I == Ids \cup {None}
           O == OddsResponse \cup {None}
           S == ScoreResponse \cup {None}
           A == [status : {200, 500}, protocol : TrackedProtocol \cup {None}] \cup {None}
<1>1. /\ job \in [Refreshers -> Refresh]
      /\ \A q \in Refreshers : job[q].pc # "idle" => job[q].id \in used
  BY DEF ProtocolsInv, ProtocolsTypeOK
<1>2. job[r] \in [pc : {"idle", "odds", "score"}, id : I, old_odds : O, old_score : S,
                  alone : BOOLEAN, answer : A]
  BY <1>1 DEF Refresh
<1> HIDE DEF I, O, S, A
<1>3. /\ on \in [pc : {"idle", "odds", "score"}, id : I, old_odds : O, old_score : S,
                 alone : BOOLEAN, answer : A]
      /\ on.id = job[r].id
  BY <1>2
<1>4. on \in Refresh
  BY <1>3 DEF Refresh, I, O, S, A
<1>5. job' = [job EXCEPT ![r] = on]
  OBVIOUS
<1> HIDE DEF on
<1>6. QED  BY <1>1, <1>3, <1>4, <1>5

\* One that is answered forgets it.
LEMMA RequestEnds ==
  ASSUME ProtocolsInv, NEW r \in Refreshers, NEW id, NEW table,
         \A x \in DOMAIN table : table[x] \in TrackedProtocol,
         job' = [job EXCEPT ![r] = Idle(Answer(id, table))], used' = used
  PROVE  /\ job' \in [Refreshers -> Refresh]
         /\ \A q \in Refreshers : job'[q].pc # "idle" => job'[q].id \in used'
<1> DEFINE done == Idle(Answer(id, table))
<1>1. /\ job \in [Refreshers -> Refresh]
      /\ \A q \in Refreshers : job[q].pc # "idle" => job[q].id \in used
  BY DEF ProtocolsInv, ProtocolsTypeOK
<1>2. Answer(id, table) \in [status : {200, 500}, protocol : TrackedProtocol \cup {None}]
  BY DEF Answer
<1>3. done \in Refresh /\ done.pc = "idle"
  BY <1>2 DEF Idle, Refresh
<1>4. job' = [job EXCEPT ![r] = done]
  OBVIOUS
<1> HIDE DEF done
<1>5. QED  BY <1>1, <1>3, <1>4

LEMMA Started ==
  ASSUME ProtocolsInv, NEW r \in Refreshers, NEW id \in Ids, StartRefresh(r, id)
  PROVE  ProtocolsInv' /\ GoesOn(tracked, tracked', used)
<1> DEFINE begun == [pc |-> IF tracked[id].watches_odds THEN "odds" ELSE "score", id |-> id,
                     old_odds |-> tracked[id].current_odds,
                     old_score |-> tracked[id].current_score,
                     alone |-> Refreshing(id) = {}, answer |-> None]
<1>1. /\ job \in [Refreshers -> Refresh]
      /\ \A q \in Refreshers : job[q].pc # "idle" => job[q].id \in used
  BY DEF ProtocolsInv, ProtocolsTypeOK
<1>2. id \in DOMAIN tracked /\ UNCHANGED <<tracked, suggestions, feed, now, used>>
  BY DEF StartRefresh
<1>3. begun \in Refresh /\ begun.id \in used
  <2>1. tracked[id] \in TrackedProtocol /\ id \in used
    BY <1>2 DEF ProtocolsInv, ProtocolsTypeOK
  <2>2. /\ tracked[id].current_odds \in OddsResponse \cup {None}
        /\ tracked[id].current_score \in ScoreResponse \cup {None}
    BY <2>1 DEF TrackedProtocol
  <2>3. (Refreshing(id) = {}) \in BOOLEAN
    OBVIOUS
  <2>4. QED  BY <2>1, <2>2, <2>3 DEF Refresh
<1>4. job' = [q \in Refreshers |->
                IF q = r THEN begun
                ELSE IF q \in Refreshing(id) THEN [job[q] EXCEPT !.alone = FALSE] ELSE job[q]]
  BY DEF StartRefresh
<1>5. \A q \in Refreshers :
        /\ [job[q] EXCEPT !.alone = FALSE] \in Refresh
        /\ [job[q] EXCEPT !.alone = FALSE].pc = job[q].pc
        /\ [job[q] EXCEPT !.alone = FALSE].id = job[q].id
  <2> TAKE q \in Refreshers
  <2> DEFINE joined == [job[q] EXCEPT !.alone = FALSE]
             I == Ids \cup {None}
             O == OddsResponse \cup {None}
             S == ScoreResponse \cup {None}
             A == [status : {200, 500}, protocol : TrackedProtocol \cup {None}] \cup {None}
  <2>1. job[q] \in [pc : {"idle", "odds", "score"}, id : I, old_odds : O, old_score : S,
                    alone : BOOLEAN, answer : A]
    BY <1>1 DEF Refresh
  <2> HIDE DEF I, O, S, A
  <2>2. /\ joined \in [pc : {"idle", "odds", "score"}, id : I, old_odds : O, old_score : S,
                       alone : BOOLEAN, answer : A]
        /\ joined.id = job[q].id /\ joined.pc = job[q].pc
    BY <2>1
  <2>3. joined \in Refresh
    BY <2>2 DEF Refresh, I, O, S, A
  <2>4. QED  BY <2>2, <2>3
<1>6. /\ job' \in [Refreshers -> Refresh]
      /\ \A q \in Refreshers : job'[q].pc # "idle" => job'[q].id \in used
  <2> HIDE DEF begun
  <2>1. QED  BY <1>1, <1>3, <1>4, <1>5
<1>7. TrackedOK(tracked', now')
  BY <1>2, InvParts
<1>8. QED
  BY <1>2, <1>6, <1>7, InvNext, SameTracker DEF ProtocolsInv, ProtocolsTypeOK

\* What the requests wait for: its arrival is stored, its failure is not.
LEMMA Resumed ==
  ASSUME ProtocolsInv, NEW r \in Refreshers, Resume(r)
  PROVE  ProtocolsInv' /\ GoesOn(tracked, tracked', used)
<1> DEFINE id == job[r].id
<1>1. /\ suggestions \in [Ids -> Seq(DNASuggestion)] /\ feed \in Feeds /\ now \in 0..MaxTime
      /\ job[r] \in Refresh /\ (job[r].pc # "idle" => id \in Ids)
      /\ DOMAIN tracked \subseteq used /\ used \subseteq Ids
      /\ \A x \in DOMAIN tracked : tracked[x] \in TrackedProtocol
  BY DEF ProtocolsInv, ProtocolsTypeOK
<1>2. /\ job[r].old_odds \in OddsResponse \cup {None}
      /\ job[r].old_score \in ScoreResponse \cup {None}
  BY <1>1 DEF Refresh
<1>3. job[r].pc # "idle"
  BY DEF Resume, OddsArrive, OddsFail, ScoreArrives, ScoreFails
<1>4. UNCHANGED <<feed, now, used>>
  BY DEF Resume, OddsArrive, OddsFail, ScoreArrives, ScoreFails
<1>5. /\ TrackedOK(tracked', now) /\ GoesOn(tracked, tracked', used)
      /\ DOMAIN tracked' = DOMAIN tracked
  <2>1. CASE OddsArrive(r)
    BY <2>1, OddsStored DEF OddsArrive
  <2>2. CASE OddsFail(r) \/ ScoreFails(r)
    BY <2>2, SameTracker, InvParts DEF OddsFail, ScoreFails
  <2>3. CASE ScoreArrives(r)
    BY <2>3, ScoreStored DEF ScoreArrives
  <2>4. QED  BY <2>1, <2>2, <2>3 DEF Resume
<1>6. suggestions' \in [Ids -> Seq(DNASuggestion)]
  <2>1. CASE OddsArrive(r)
    <3>1. AnalyzeOddsChange(job[r].old_odds, OddsNow) \in Seq(DNASuggestion)
      BY <1>2, OddsTyped, OddsSuggestionsTyped DEF ProtocolsInv
    <3>2. Suggest(id, AnalyzeOddsChange(job[r].old_odds, OddsNow))
      BY <2>1 DEF OddsArrive
    <3>3. QED  BY <1>1, <1>3, <3>1, <3>2, SuggestTyped
  <2>2. CASE OddsFail(r) \/ ScoreFails(r)
    BY <1>1, <2>2 DEF OddsFail, ScoreFails
  <2>3. CASE ScoreArrives(r)
    <3>1. AnalyzeScoreChange(job[r].old_score, ScoreNow) \in Seq(DNASuggestion)
      BY <1>2, ScoreTyped, ScoreSuggestionsTyped DEF ProtocolsInv
    <3>2. Suggest(id, AnalyzeScoreChange(job[r].old_score, ScoreNow))
      BY <2>3 DEF ScoreArrives
    <3>3. QED  BY <1>1, <1>3, <3>1, <3>2, SuggestTyped
  <2>4. QED  BY <2>1, <2>2, <2>3 DEF Resume
<1>7. /\ job' \in [Refreshers -> Refresh]
      /\ \A q \in Refreshers : job'[q].pc # "idle" => job'[q].id \in used'
  <2>1. CASE OddsArrive(r) \/ OddsFail(r)
    <3>1. job' = [job EXCEPT ![r].pc = "score"]
      BY <2>1 DEF OddsArrive, OddsFail
    <3>2. QED  BY <1>3, <1>4, <3>1, RequestMoves
  <2>2. CASE ScoreArrives(r) \/ ScoreFails(r)
    <3>1. \A x \in DOMAIN tracked' : tracked'[x] \in TrackedProtocol
      BY <1>5 DEF TrackedOK
    <3>2. job' = [job EXCEPT ![r] = Idle(Answer(id, tracked'))]
      BY <2>2 DEF ScoreArrives, ScoreFails
    <3>3. QED  BY <1>4, <3>1, <3>2, RequestEnds
  <2>3. QED  BY <2>1, <2>2 DEF Resume
<1>8. QED
  BY <1>1, <1>4, <1>5, <1>6, <1>7, InvNext

-----------------------------------------------------------------------------
(* The theorems.                                                           *)

LEMMA ProtocolsStep ==
  ASSUME ProtocolsInv, [ProtocolsNext]_vars
  PROVE  ProtocolsInv' /\ GoesOn(tracked, tracked', used)
<1>1. CASE Tick
  <2>1. TrackedOK(tracked, now) /\ now \in Nat /\ tracked' = tracked /\ now' = now + 1
    BY <1>1, InvParts DEF Tick
  <2>2. TrackedOK(tracked', now')
    BY <2>1 DEF TrackedOK, TrackedProtocol, OddsResponse, ScoreResponse
  <2>3. now' \in 0..MaxTime
    BY <1>1, ProtocolsAssumption DEF Tick, ProtocolsInv, ProtocolsTypeOK
  <2>4. ProtocolsInv'
    BY <1>1, <2>2, <2>3, InvNext DEF Tick, ProtocolsInv, ProtocolsTypeOK
  <2>5. QED  BY <2>1, <2>4, SameTracker
<1>2. ASSUME NEW id \in Ids,
             \/ \E watches \in BOOLEAN : CreateProtocol(id, watches)
             \/ DeleteProtocol(id)
             \/ \E i \in 1..Len(suggestions[id]) : AcknowledgeSuggestion(id, i)
             \/ \E r \in Refreshers : StartRefresh(r, id)
      PROVE  ProtocolsInv' /\ GoesOn(tracked, tracked', used)
  <2>1. CASE \E watches \in BOOLEAN : CreateProtocol(id, watches)
    BY <2>1, Created
  <2>2. CASE DeleteProtocol(id)
    BY <2>2, TrackerShrinks DEF DeleteProtocol
  <2>3. CASE \E i \in 1..Len(suggestions[id]) : AcknowledgeSuggestion(id, i)
    BY <2>3, Acknowledged
  <2>4. CASE \E r \in Refreshers : StartRefresh(r, id)
    BY <2>4, Started
  <2>5. QED  BY <1>2, <2>1, <2>2, <2>3, <2>4
<1>3. CASE \E max_age \in Ages : ExpireOldProtocols(max_age)
  BY <1>3, TrackerShrinks DEF ExpireOldProtocols
<1>4. CASE \E r \in Refreshers : Resume(r)
  BY <1>4, Resumed
<1>5. CASE UNCHANGED vars
  <2>1. tracked' = tracked /\ TrackedOK(tracked', now')
    BY <1>5, InvParts DEF vars
  <2>2. ProtocolsInv'
    BY <1>5, <2>1, InvNext DEF vars, ProtocolsInv, ProtocolsTypeOK
  <2>3. QED  BY <2>1, <2>2, SameTracker
<1>6. QED
  BY <1>1, <1>2, <1>3, <1>4, <1>5 DEF ProtocolsNext

\* The dictionaries and the requests are well formed in every reachable state,
\* and nothing stored was read later than now.
THEOREM ProtocolsTypeCorrect == ProtocolsSpec => []ProtocolsInv
<1>1. ProtocolsInit => ProtocolsInv
  BY ProtocolsInitInv
<1>2. ProtocolsInv /\ [ProtocolsNext]_vars => ProtocolsInv'
  BY ProtocolsStep
<1>3. QED  BY <1>1, <1>2, PTL DEF ProtocolsSpec

\* Whatever refreshes overlap with whatever requests, no update puts older odds
\* or an older score in the place of newer ones, and a protocol deleted or
\* expired while a refresh waited does not come back.
THEOREM DataNeverGoesBackHolds == ProtocolsSpec => DataNeverGoesBack
<1>1. ProtocolsInv /\ [ProtocolsNext]_vars => [GoesOn(tracked, tracked', used)]_vars
  BY ProtocolsStep
<1>2. QED  BY <1>1, ProtocolsTypeCorrect, PTL DEF ProtocolsSpec, DataNeverGoesBack

-----------------------------------------------------------------------------
(* A refresh nobody overlaps compares with what is stored.                 *)

Waiting(r) == job[r].pc # "idle"

\* As long as a refresh is alone with its protocol, what it found when it
\* started is what is stored, but for the odds it has stored itself.
AloneInv == \A r \in Refreshers : Waiting(r) /\ job[r].alone =>
  /\ \A q \in Refreshers \ {r} : Waiting(q) => job[q].id # job[r].id
  /\ job[r].id \in DOMAIN tracked =>
       /\ job[r].pc = "odds" => job[r].old_odds = tracked[job[r].id].current_odds
       /\ job[r].old_score = tracked[job[r].id].current_score

\* Nobody waits for a protocol whose data a step without refreshes touches.
LEMMA OthersKeepAlone ==
  ASSUME ProtocolsInv, AloneInv, job' = job,
         \A id \in DOMAIN tracked' : id \in used => id \in DOMAIN tracked /\ tracked'[id] = tracked[id]
  PROVE  AloneInv'
<1>1. \A r \in Refreshers : Waiting(r) => job[r].id \in used
  BY DEF ProtocolsInv, ProtocolsTypeOK, Waiting
<1>2. QED  BY <1>1 DEF AloneInv, Waiting

LEMMA StartKeepsAlone ==
  ASSUME ProtocolsInv, AloneInv, NEW r \in Refreshers, NEW id \in Ids, StartRefresh(r, id)
  PROVE  AloneInv'
<1>1. job \in [Refreshers -> Refresh]
  BY DEF ProtocolsInv, ProtocolsTypeOK
<1>2. /\ job[r].pc = "idle" /\ id \in DOMAIN tracked /\ tracked' = tracked
      /\ job'[r].id = id /\ job'[r].alone = (Refreshing(id) = {})
      /\ job'[r].old_odds = tracked[id].current_odds
      /\ job'[r].old_score = tracked[id].current_score
  BY DEF StartRefresh
<1>3. ASSUME NEW q \in Refreshers \ {r}
      PROVE  /\ job'[q].pc = job[q].pc /\ job'[q].id = job[q].id
             /\ job'[q].old_odds = job[q].old_odds /\ job'[q].old_score = job[q].old_score
             /\ job'[q].alone => job[q].alone /\ ~(job[q].pc # "idle" /\ job[q].id = id)
  <2>1. job'[q] = IF q \in Refreshing(id) THEN [job[q] EXCEPT !.alone = FALSE] ELSE job[q]
    BY DEF StartRefresh
  <2>2. DOMAIN job[q] = {"pc", "id", "old_odds", "old_score", "alone", "answer"}
    BY <1>1 DEF Refresh
  <2>3. QED  BY <2>1, <2>2 DEF Refreshing
<1>4. ASSUME NEW p \in Refreshers, Waiting(p)', job'[p].alone
      PROVE  /\ \A q \in Refreshers \ {p} : Waiting(q)' => job'[q].id # job'[p].id
             /\ job'[p].id \in DOMAIN tracked' =>
                  /\ job'[p].pc = "odds" => job'[p].old_odds = tracked'[job'[p].id].current_odds
                  /\ job'[p].old_score = tracked'[job'[p].id].current_score
  <2>1. CASE p = r
    BY <1>2, <1>3, <1>4, <2>1 DEF Waiting, Refreshing
  <2>2. CASE p # r
    BY <1>2, <1>3, <1>4, <2>2 DEF Waiting, AloneInv
  <2>3. QED  BY <2>1, <2>2
<1>5. QED  BY <1>4 DEF AloneInv

\* What the arrival of odds or of a score does to the tracker's row.
LEMMA OddsRow ==
  ASSUME ProtocolsInv, NEW id \in DOMAIN tracked, UpdateOdds(id, OddsNow)
  PROVE  tracked'[id].current_score = tracked[id].current_score
<1>1. tracked' = [tracked EXCEPT ![id] =
        [tracked[id] EXCEPT !.current_odds = OddsNow, !.last_updated = now]]
  BY DEF UpdateOdds
<1>2. DOMAIN tracked[id] = {"created_at", "last_updated", "watches_odds",
                            "current_odds", "current_score"}
  BY DEF ProtocolsInv, ProtocolsTypeOK, TrackedProtocol
<1>3. QED  BY <1>1, <1>2

LEMMA ScoreRow ==
  ASSUME ProtocolsInv, NEW id \in DOMAIN tracked, tracked' = UpdateScore(id, ScoreNow)
  PROVE  /\ tracked'[id].current_odds = tracked[id].current_odds
         /\ tracked'[id].current_score = ScoreNow
<1>1. tracked' = [tracked EXCEPT ![id] =
        [tracked[id] EXCEPT !.current_score = ScoreNow, !.last_updated = now]]
  BY DEF UpdateScore
<1>2. DOMAIN tracked[id] = {"created_at", "last_updated", "watches_odds",
                            "current_odds", "current_score"}
  BY DEF ProtocolsInv, ProtocolsTypeOK, TrackedProtocol
<1>3. QED  BY <1>1, <1>2

\* A refresh that resumes changes its own request and its own protocol.
LEMMA ResumeFrame ==
  ASSUME ProtocolsInv, NEW r \in Refreshers, Resume(r)
  PROVE  /\ Waiting(r) /\ DOMAIN tracked' = DOMAIN tracked
         /\ \A q \in Refreshers \ {r} : job'[q] = job[q]
         /\ \A x \in DOMAIN tracked : x # job[r].id => tracked'[x] = tracked[x]
<1>1. job \in [Refreshers -> Refresh]
  BY DEF ProtocolsInv, ProtocolsTypeOK
<1>2. CASE OddsArrive(r)
  BY <1>1, <1>2 DEF OddsArrive, UpdateOdds, Waiting
<1>3. CASE OddsFail(r)
  BY <1>1, <1>3 DEF OddsFail, Waiting
<1>4. CASE ScoreArrives(r)
  BY <1>1, <1>4 DEF ScoreArrives, UpdateScore, Waiting
<1>5. CASE ScoreFails(r)
  BY <1>1, <1>5 DEF ScoreFails, Waiting
<1>6. QED  BY <1>2, <1>3, <1>4, <1>5 DEF Resume

\* A request that moves on to the score keeps what it found.
LEMMA MovedOn ==
  ASSUME ProtocolsInv, NEW r \in Refreshers, job' = [job EXCEPT ![r].pc = "score"]
  PROVE  /\ job'[r].pc = "score" /\ job'[r].id = job[r].id /\ job'[r].alone = job[r].alone
         /\ job'[r].old_score = job[r].old_score
<1>1. job[r] \in Refresh /\ DOMAIN job = Refreshers
  BY DEF ProtocolsInv, ProtocolsTypeOK
<1>2. DOMAIN job[r] = {"pc", "id", "old_odds", "old_score", "alone", "answer"}
  BY <1>1 DEF Refresh
<1>3. QED  BY <1>1, <1>2

LEMMA ResumeKeepsAlone ==
  ASSUME ProtocolsInv, AloneInv, NEW r \in Refreshers, Resume(r)
  PROVE  AloneInv'
<1>1. /\ Waiting(r) /\ DOMAIN tracked' = DOMAIN tracked
      /\ \A q \in Refreshers \ {r} : job'[q] = job[q]
      /\ \A x \in DOMAIN tracked : x # job[r].id => tracked'[x] = tracked[x]
  BY ResumeFrame
<1>2. Waiting(r)' =>
        /\ job'[r].pc = "score" /\ job'[r].id = job[r].id /\ job'[r].alone = job[r].alone
        /\ job'[r].old_score = job[r].old_score
        /\ job[r].id \in DOMAIN tracked =>
             tracked'[job[r].id].current_score = tracked[job[r].id].current_score
  <2>1. CASE OddsArrive(r)
    BY <2>1, MovedOn, OddsRow DEF OddsArrive
  <2>2. CASE OddsFail(r)
    BY <2>2, MovedOn DEF OddsFail
  <2>3. CASE ScoreArrives(r) \/ ScoreFails(r)
    <3>1. job'[r].pc = "idle"
      BY <2>3 DEF ScoreArrives, ScoreFails, Idle, ProtocolsInv, ProtocolsTypeOK
    <3>2. QED  BY <3>1 DEF Waiting
  <2>4. QED  BY <2>1, <2>2, <2>3 DEF Resume
<1>3. ASSUME NEW p \in Refreshers, Waiting(p)', job'[p].alone
      PROVE  /\ \A q \in Refreshers \ {p} : Waiting(q)' => job'[q].id # job'[p].id
             /\ job'[p].id \in DOMAIN tracked' =>
                  /\ job'[p].pc = "odds" => job'[p].old_odds = tracked'[job'[p].id].current_odds
                  /\ job'[p].old_score = tracked'[job'[p].id].current_score
  <2>1. CASE p = r
    BY <1>1, <1>2, <1>3, <2>1 DEF Waiting, AloneInv
  <2>2. CASE p # r
    <3>1. Waiting(p) /\ job[p].alone /\ job'[p] = job[p] /\ job[r].id # job[p].id
      BY <1>1, <1>3, <2>2 DEF Waiting, AloneInv
    <3>2. QED  BY <1>1, <1>2, <3>1 DEF Waiting, AloneInv
  <2>3. QED  BY <2>1, <2>2
<1>4. QED  BY <1>3 DEF AloneInv

LEMMA AloneStep ==
  ASSUME ProtocolsInv, AloneInv, [ProtocolsNext]_vars
  PROVE  AloneInv'
<1>1. CASE Tick
  BY <1>1, OthersKeepAlone DEF Tick
<1>2. ASSUME NEW id \in Ids, NEW watches \in BOOLEAN, CreateProtocol(id, watches)
      PROVE  AloneInv'
  BY <1>2, OthersKeepAlone DEF CreateProtocol
<1>3. CASE \E id \in Ids : DeleteProtocol(id)
  BY <1>3, OthersKeepAlone DEF DeleteProtocol, Without
<1>4. CASE \E id \in Ids : \E i \in 1..Len(suggestions[id]) : AcknowledgeSuggestion(id, i)
  BY <1>4, OthersKeepAlone DEF AcknowledgeSuggestion
<1>5. CASE \E max_age \in Ages : ExpireOldProtocols(max_age)
  BY <1>5, OthersKeepAlone DEF ExpireOldProtocols, Without
<1>6. CASE UNCHANGED vars
  BY <1>6, OthersKeepAlone DEF vars
<1>7. QED
  BY <1>1, <1>2, <1>3, <1>4, <1>5, <1>6, StartKeepsAlone, ResumeKeepsAlone DEF ProtocolsNext

-----------------------------------------------------------------------------
(* So a move is reported.                                                  *)

\* Suggestions appended in this step are found behind those there were.
LEMMA AppendedIsReported ==
  ASSUME ProtocolsInv, NEW id \in Ids, NEW list \in Seq(DNASuggestion), Suggest(id, list),
         NEW k \in 1..Len(list), NEW type, NEW from, NEW to, list[k] = Suggestion(type, from, to)
  PROVE  Reported(id, type, from, to)
<1> DEFINE old == suggestions[id]
<1>1. old \in Seq(DNASuggestion) /\ suggestions'[id] = old \o list
  BY DEF Suggest, ProtocolsInv, ProtocolsTypeOK
<1>2. /\ Len(old) + k \in 1..Len(suggestions'[id]) /\ Len(old) + k > Len(old)
      /\ suggestions'[id][Len(old) + k] = list[k]
  <2> HIDE DEF old
  <2> QED  BY <1>1
<1>3. QED  BY <1>2 DEF Reported

LEMMA OddsChangeListed ==
  ASSUME NEW old \in OddsResponse, NEW new \in OddsResponse
  PROVE  LET list == AnalyzeOddsChange(old, new)
         IN  /\ Moved(old.spread, new.spread, SpreadThreshold) =>
                  \E k \in 1..Len(list) : list[k] = Suggestion("spread", old.spread, new.spread)
             /\ Moved(old.total, new.total, TotalThreshold) =>
                  \E k \in 1..Len(list) : list[k] = Suggestion("total", old.total, new.total)
<1> DEFINE spread == Suggestion("spread", old.spread, new.spread)
           total == Suggestion("total", old.total, new.total)
           first == IF Moved(old.spread, new.spread, SpreadThreshold) THEN <<spread>> ELSE <<>>
           second == IF Moved(old.total, new.total, TotalThreshold) THEN <<total>> ELSE <<>>
<1>1. AnalyzeOddsChange(old, new) = first \o second
  BY ProtocolsAssumption DEF AnalyzeOddsChange
<1> HIDE DEF spread, total
<1>2. Moved(old.spread, new.spread, SpreadThreshold) =>
        1 \in 1..Len(first \o second) /\ (first \o second)[1] = spread
  OBVIOUS
<1>3. Moved(old.total, new.total, TotalThreshold) =>
        Len(first \o second) \in 1..Len(first \o second)
        /\ (first \o second)[Len(first \o second)] = total
  OBVIOUS
<1>4. QED  BY <1>1, <1>2, <1>3 DEF spread, total

\* What does not move is not reported, and need not be.
LEMMA StillIsNotMoved ==
  ASSUME NEW a \in Int \cup {None}
  PROVE  ~Moved(a, a, SpreadThreshold) /\ ~Moved(a, a, TotalThreshold)
BY DEF Moved, Distance, SpreadThreshold, TotalThreshold

\* A refresh nobody overlapped reports what it moves.
LEMMA LoneRefreshReports ==
  ASSUME ProtocolsInv, AloneInv, NEW r \in Refreshers, Resume(r), job[r].alone,
         job[r].id \in DOMAIN tracked
  PROVE  MoveReported(r)
<1> DEFINE id == job[r].id
           old == tracked[id]
<1>1. /\ Waiting(r) /\ id \in Ids /\ old \in TrackedProtocol
      /\ job[r].pc = "odds" => job[r].old_odds = old.current_odds
      /\ job[r].old_score = old.current_score
  BY ResumeFrame DEF AloneInv, Waiting, ProtocolsInv, ProtocolsTypeOK
<1>2. /\ old.current_odds \in OddsResponse \cup {None}
      /\ old.current_score \in ScoreResponse \cup {None}
  BY <1>1 DEF TrackedProtocol
<1>3. old.current_odds # None =>
        /\ ~Moved(old.current_odds.spread, old.current_odds.spread, SpreadThreshold)
        /\ ~Moved(old.current_odds.total, old.current_odds.total, TotalThreshold)
  <2>1. old.current_odds # None =>
          old.current_odds.spread \in Int \cup {None} /\ old.current_odds.total \in Int \cup {None}
    BY <1>2 DEF OddsResponse
  <2>2. QED  BY <2>1, StillIsNotMoved
<1>4. CASE OddsArrive(r)
  <2> DEFINE list == AnalyzeOddsChange(old.current_odds, OddsNow)
  <2>1. /\ UpdateOdds(id, OddsNow) /\ Suggest(id, list)
    BY <1>1, <1>4 DEF OddsArrive
  <2>2. /\ tracked'[id].current_score = old.current_score
        /\ tracked'[id].current_odds = OddsNow
    <3>1. tracked' = [tracked EXCEPT ![id] =
            [tracked[id] EXCEPT !.current_odds = OddsNow, !.last_updated = now]]
      BY <2>1 DEF UpdateOdds
    <3>2. DOMAIN old = {"created_at", "last_updated", "watches_odds",
                        "current_odds", "current_score"}
      BY <1>1 DEF TrackedProtocol
    <3>3. QED  BY <3>1, <3>2
  <2>3. list \in Seq(DNASuggestion) /\ OddsNow \in OddsResponse
    BY <1>2, OddsTyped, OddsSuggestionsTyped DEF ProtocolsInv
  <2>4. ASSUME old.current_odds # None
        PROVE  /\ Moved(old.current_odds.spread, OddsNow.spread, SpreadThreshold)
                    => Reported(id, "spread", old.current_odds.spread, OddsNow.spread)
               /\ Moved(old.current_odds.total, OddsNow.total, TotalThreshold)
                    => Reported(id, "total", old.current_odds.total, OddsNow.total)
    <3>1. old.current_odds \in OddsResponse
      BY <1>2, <2>4
    <3>2. /\ Moved(old.current_odds.spread, OddsNow.spread, SpreadThreshold) =>
               \E k \in 1..Len(list) :
                 list[k] = Suggestion("spread", old.current_odds.spread, OddsNow.spread)
          /\ Moved(old.current_odds.total, OddsNow.total, TotalThreshold) =>
               \E k \in 1..Len(list) :
                 list[k] = Suggestion("total", old.current_odds.total, OddsNow.total)
      BY <2>3, <3>1, OddsChangeListed
    <3> HIDE DEF list, id, old
    <3>3. QED  BY <1>1, <2>1, <2>3, <3>2, AppendedIsReported
  <2>5. QED  BY <2>2, <2>4 DEF MoveReported
<1>5. CASE OddsFail(r) \/ ScoreFails(r)
  <2>1. tracked' = tracked
    BY <1>5 DEF OddsFail, ScoreFails
  <2>2. QED  BY <1>3, <2>1 DEF MoveReported
<1>6. CASE ScoreArrives(r)
  <2> DEFINE list == AnalyzeScoreChange(old.current_score, ScoreNow)
  <2>1. Suggest(id, list) /\ tracked' = UpdateScore(id, ScoreNow)
    BY <1>1, <1>6 DEF ScoreArrives
  <2>2. tracked'[id].current_odds = old.current_odds /\ tracked'[id].current_score = ScoreNow
    BY <2>1, ScoreRow
  <2>3. list \in Seq(DNASuggestion)
    BY <1>2, ScoreTyped, ScoreSuggestionsTyped DEF ProtocolsInv
  <2>4. ASSUME old.current_score # None, old.current_score.score # None, ScoreNow.score # None,
               ScoreNow.score - old.current_score.score >= ScoreSpike
        PROVE  Reported(id, "score", old.current_score.score, ScoreNow.score)
    <3>1. list = <<Suggestion("score", old.current_score.score, ScoreNow.score)>>
      BY <2>4 DEF AnalyzeScoreChange
    <3>2. 1 \in 1..Len(list)
          /\ list[1] = Suggestion("score", old.current_score.score, ScoreNow.score)
      BY <3>1
    <3> HIDE DEF list, id, old
    <3>3. QED  BY <1>1, <2>1, <2>3, <3>2, AppendedIsReported
  <2>5. QED  BY <1>3, <2>2, <2>4 DEF MoveReported
<1>7. QED  BY <1>4, <1>5, <1>6 DEF Resume

\* Only what a refresh waits for moves it.
LEMMA OnlyResumeMoves ==
  ASSUME ProtocolsInv, [ProtocolsNext]_vars, NEW r \in Refreshers, Waiting(r),
         job'[r].pc # job[r].pc
  PROVE  Resume(r)
<1>1. job' # job
  OBVIOUS
<1>2. ASSUME NEW q \in Refreshers, NEW id \in Ids, StartRefresh(q, id) PROVE FALSE
  <2>1. q # r /\ job[r] \in Refresh
    BY <1>2 DEF StartRefresh, Waiting, ProtocolsInv, ProtocolsTypeOK
  <2>2. job'[r] = IF r \in Refreshing(id) THEN [job[r] EXCEPT !.alone = FALSE] ELSE job[r]
    BY <1>2, <2>1 DEF StartRefresh
  <2>3. DOMAIN job[r] = {"pc", "id", "old_odds", "old_score", "alone", "answer"}
    BY <2>1 DEF Refresh
  <2>4. QED  BY <2>2, <2>3
<1>3. ASSUME NEW q \in Refreshers, Resume(q) PROVE Resume(r)
  BY <1>3, ResumeFrame
<1>4. QED
  BY <1>1, <1>2, <1>3
  DEF ProtocolsNext, vars, Tick, CreateProtocol, DeleteProtocol, AcknowledgeSuggestion,
      ExpireOldProtocols

\* Whatever else goes on, the stored odds and score of a protocol never move
\* by a threshold under a refresh nobody overlapped without a new suggestion
\* that tells from where to where.
THEOREM MovesAlwaysReported == ProtocolsSpec => MovesReported
<1>1. ProtocolsInit => AloneInv
  BY DEF ProtocolsInit, AloneInv, Waiting, Idle
<1>2. ProtocolsInv /\ AloneInv /\ [ProtocolsNext]_vars => AloneInv'
  BY AloneStep
<1>3. ProtocolsInv /\ AloneInv /\ [ProtocolsNext]_vars =>
        [\A r \in Refreshers :
           /\ job[r].pc # "idle" /\ job[r].alone /\ job'[r].pc # job[r].pc
           /\ job[r].id \in DOMAIN tracked \cap DOMAIN tracked'
           => MoveReported(r)]_vars
  BY OnlyResumeMoves, LoneRefreshReports DEF Waiting
<1>4. QED
  BY <1>1, <1>2, <1>3, ProtocolsTypeCorrect, PTL DEF ProtocolsSpec, MovesReported
=============================================================================
