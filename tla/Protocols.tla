------------------------------ MODULE Protocols ------------------------------
(***************************************************************************)
(* Tracked protocols (app/services/protocol_tracker.py) and the            *)
(* suggestions made about them (app/services/suggestion_engine.py), behind *)
(* the routes of app/routers/protocols.py.                                 *)
(*                                                                         *)
(* All routes run on one event loop, so a route is one step, but for       *)
(* refresh_protocol: it awaits the odds provider and then the score        *)
(* provider, and any other request may run at either await.  What a        *)
(* provider answers is read when its await ends (app/providers/mock.py     *)
(* sleeps first and looks the game up afterwards).                         *)
(***************************************************************************)
EXTENDS Integers, Sequences, FiniteSets

CONSTANTS
  Ids,        \* protocol ids: uuids, never drawn twice
  Refreshers, \* refresh requests in flight
  Feeds,      \* what the providers may publish about the game
  None,       \* Python's None
  MaxTime,    \* bound: the clock stops here
  Ages        \* the max_age_hours of cleanup requests

\* A provider raises for a game it does not know; get_score also for one whose
\* quarter or period is a text ("Q3"), which ScoreResponse refuses.  Otherwise
\* it has a spread and a total, in half points, a score (home plus
\* away), or lacks any of them.
Feed == [spread : Int \cup {None}, total : Int \cup {None}, score : Nat \cup {None},
         odds_fail : BOOLEAN, score_fail : BOOLEAN]

\* OddsResponse and ScoreResponse, with the time the provider read them.
OddsResponse  == [at : Nat, spread : Int \cup {None}, total : Int \cup {None}]
ScoreResponse == [at : Nat, score : Nat \cup {None}]

ASSUME ProtocolsAssumption ==
  /\ Feeds \subseteq Feed /\ Feeds # {}
  /\ None \notin Int \cup OddsResponse \cup ScoreResponse
  /\ MaxTime \in Nat /\ Ages \subseteq Nat

VARIABLES
  tracked,     \* ProtocolTracker._protocols
  suggestions, \* SuggestionEngine._suggestions; an id without a list has <<>>
  job,         \* the refresh requests
  feed,        \* what the providers publish now
  now,         \* datetime.utcnow()
  used         \* the ids drawn so far

vars == <<tracked, suggestions, job, feed, now, used>>

\* markets_watched matters by whether it has "spread" or "total".
TrackedProtocol ==
  [created_at : Nat, last_updated : Nat, watches_odds : BOOLEAN,
   current_odds : OddsResponse \cup {None}, current_score : ScoreResponse \cup {None}]

DNASuggestion ==
  [type : {"spread", "total", "score"}, from : Int, to : Int, acknowledged : BOOLEAN]

\* A refresh request; id and what it found are None before it starts.
Refresh ==
  [pc : {"idle", "odds", "score"}, id : Ids \cup {None},
   old_odds : OddsResponse \cup {None}, old_score : ScoreResponse \cup {None},
   alone : BOOLEAN,
   answer : [status : {200, 500}, protocol : TrackedProtocol \cup {None}] \cup {None}]

\* A request that is not running; answer is what the last one returned.
Idle(answer) == [pc |-> "idle", id |-> None, old_odds |-> None, old_score |-> None,
                 alone |-> TRUE, answer |-> answer]

ProtocolsInit ==
  /\ tracked = <<>>
  /\ suggestions = [id \in Ids |-> <<>>]
  /\ job = [r \in Refreshers |-> Idle(None)]
  /\ feed \in Feeds
  /\ now = 0 /\ used = {}

-----------------------------------------------------------------------------
(* suggestion_engine.py                                                    *)

SpreadThreshold == 2    \* SUGGESTION_RULES, in half points
TotalThreshold  == 4
ScoreSpike      == 10

Suggestion(type, from, to) ==
  [type |-> type, from |-> from, to |-> to, acknowledged |-> FALSE]

Distance(a, b) == IF a > b THEN a - b ELSE b - a
Moved(a, b, threshold) == a # None /\ b # None /\ Distance(a, b) >= threshold

\* The suggestions analyze_odds_change makes: none without previous odds.
AnalyzeOddsChange(old, new) ==
  IF old = None THEN <<>>
  ELSE (IF Moved(old.spread, new.spread, SpreadThreshold)
        THEN <<Suggestion("spread", old.spread, new.spread)>> ELSE <<>>)
       \o (IF Moved(old.total, new.total, TotalThreshold)
           THEN <<Suggestion("total", old.total, new.total)>> ELSE <<>>)

\* analyze_score_change: a rise of the total, never a correction downwards.
AnalyzeScoreChange(old, new) ==
  IF old # None /\ new.score # None
  THEN IF old.score # None /\ new.score - old.score >= ScoreSpike
       THEN <<Suggestion("score", old.score, new.score)>> ELSE <<>>
  ELSE <<>>

\* Suggestions are kept by protocol id, whether or not it is tracked any more.
Suggest(id, list) == suggestions' = [suggestions EXCEPT ![id] = @ \o list]

\* POST /suggestions/{suggestion_id}/acknowledge
AcknowledgeSuggestion(id, i) ==
  /\ i \in 1..Len(suggestions[id])
  /\ suggestions' = [suggestions EXCEPT ![id][i].acknowledged = TRUE]
  /\ UNCHANGED <<tracked, job, feed, now, used>>

-----------------------------------------------------------------------------
(* protocol_tracker.py                                                     *)

\* The protocols expire_old_protocols(max_age) removes.
Expired(max_age) == {id \in DOMAIN tracked : tracked[id].created_at <= now - max_age}

Without(ids) == [id \in DOMAIN tracked \ ids |-> tracked[id]]

CreateProtocol(id, watches_odds) ==
  /\ id \notin used
  /\ used' = used \cup {id}
  /\ tracked' = [i \in DOMAIN tracked \cup {id} |->
       IF i \in DOMAIN tracked THEN tracked[i]
       ELSE [created_at |-> now, last_updated |-> now, watches_odds |-> watches_odds,
             current_odds |-> None, current_score |-> None]]
  /\ UNCHANGED <<suggestions, job, feed, now>>

\* The suggestions of a deleted protocol stay behind.
DeleteProtocol(id) ==
  /\ id \in DOMAIN tracked
  /\ tracked' = Without({id})
  /\ UNCHANGED <<suggestions, job, feed, now, used>>

\* POST /cleanup
ExpireOldProtocols(max_age) ==
  /\ Expired(max_age) # {}
  /\ tracked' = Without(Expired(max_age))
  /\ UNCHANGED <<suggestions, job, feed, now, used>>

\* update_odds and update_score do nothing for a protocol that is gone.
UpdateOdds(id, odds) ==
  tracked' = IF id \notin DOMAIN tracked THEN tracked
             ELSE [tracked EXCEPT ![id].current_odds = odds, ![id].last_updated = now]
UpdateScore(id, score) ==
  IF id \notin DOMAIN tracked THEN tracked
  ELSE [tracked EXCEPT ![id].current_score = score, ![id].last_updated = now]

-----------------------------------------------------------------------------
(* routers/protocols.py: refresh_protocol                                  *)

\* get_odds, as of the end of its await: the markets the game has.
OddsNow == [at |-> now, spread |-> feed.spread, total |-> feed.total]
\* get_score: an upcoming game has no score yet.
ScoreNow == [at |-> now, score |-> feed.score]

Refreshing(id) == {r \in Refreshers : job[r].pc # "idle" /\ job[r].id = id}

\* Up to the first await.  alone is history: no other refresh of the
\* protocol has overlapped this one so far.
StartRefresh(r, id) ==
  /\ job[r].pc = "idle" /\ id \in DOMAIN tracked
  /\ job' = [q \in Refreshers |->
       IF q = r
       THEN [pc |-> IF tracked[id].watches_odds THEN "odds" ELSE "score", id |-> id,
             old_odds |-> tracked[id].current_odds, old_score |-> tracked[id].current_score,
             alone |-> Refreshing(id) = {}, answer |-> None]
       ELSE IF q \in Refreshing(id) THEN [job[q] EXCEPT !.alone = FALSE] ELSE job[q]]
  /\ UNCHANGED <<tracked, suggestions, feed, now, used>>

\* Mutant: the odds to compare with are read after the update.
MutCompareAfter(r) ==
  LET id   == job[r].id
      odds == OddsNow
  IN  /\ job[r].pc = "odds" /\ ~feed.odds_fail
      /\ UpdateOdds(id, odds)
      /\ Suggest(id, AnalyzeOddsChange(odds, odds))
      /\ job' = [job EXCEPT ![r].pc = "score"]
      /\ UNCHANGED <<feed, now, used>>

\* Mutant: a protocol that is gone is put back by the update.
MutResurrect(r) ==
  LET id   == job[r].id
      odds == OddsNow
  IN  /\ job[r].pc = "odds" /\ ~feed.odds_fail
      /\ tracked' = [i \in DOMAIN tracked \cup {id} |->
           IF i # id THEN tracked[i]
           ELSE [created_at |-> now, last_updated |-> now, watches_odds |-> TRUE,
                 current_odds |-> odds, current_score |-> None]]
      /\ Suggest(id, AnalyzeOddsChange(job[r].old_odds, odds))
      /\ job' = [job EXCEPT ![r].pc = "score"]
      /\ UNCHANGED <<feed, now, used>>

\* get_odds returns: stored, compared with the odds before the await, and on
\* to get_score.
OddsArrive(r) ==
  LET id   == job[r].id
      odds == OddsNow
  IN  /\ job[r].pc = "odds" /\ ~feed.odds_fail
      /\ UpdateOdds(id, odds)
      /\ Suggest(id, AnalyzeOddsChange(job[r].old_odds, odds))
      /\ job' = [job EXCEPT ![r].pc = "score"]
      /\ UNCHANGED <<feed, now, used>>

\* get_odds raises: logged, and on to get_score.
OddsFail(r) ==
  /\ job[r].pc = "odds" /\ feed.odds_fail
  /\ job' = [job EXCEPT ![r].pc = "score"]
  /\ UNCHANGED <<tracked, suggestions, feed, now, used>>

\* The protocol read again at the end: None fails on its first attribute.
Answer(id, table) ==
  IF id \in DOMAIN table THEN [status |-> 200, protocol |-> table[id]]
  ELSE [status |-> 500, protocol |-> None]

\* get_score returns; the answer follows without another await.
ScoreArrives(r) ==
  LET id    == job[r].id
      score == ScoreNow
  IN  /\ job[r].pc = "score" /\ ~feed.score_fail
      /\ tracked' = UpdateScore(id, score)
      /\ Suggest(id, AnalyzeScoreChange(job[r].old_score, score))
      /\ job' = [job EXCEPT ![r] = Idle(Answer(id, tracked'))]
      /\ UNCHANGED <<feed, now, used>>

\* Mutant: a failing score provider fails the request, which is never freed.
MutScoreRaises(r) ==
  /\ job[r].pc = "score" /\ feed.score_fail
  /\ UNCHANGED vars

\* get_score raises: logged, and the protocol is answered as it is.
ScoreFails(r) ==
  /\ job[r].pc = "score" /\ feed.score_fail
  /\ job' = [job EXCEPT ![r] = Idle(Answer(job[r].id, tracked))]
  /\ UNCHANGED <<tracked, suggestions, feed, now, used>>

-----------------------------------------------------------------------------
\* Time passes and the game goes on.
Tick ==
  /\ now < MaxTime
  /\ now' = now + 1
  /\ feed' \in Feeds
  /\ UNCHANGED <<tracked, suggestions, job, used>>

Resume(r) == OddsArrive(r) \/ OddsFail(r) \/ ScoreArrives(r) \/ ScoreFails(r)

ProtocolsNext ==
  \/ Tick
  \/ \E id \in Ids :
       \/ \E watches \in BOOLEAN : CreateProtocol(id, watches)
       \/ DeleteProtocol(id)
       \/ \E i \in 1..Len(suggestions[id]) : AcknowledgeSuggestion(id, i)
       \/ \E r \in Refreshers : StartRefresh(r, id)
  \/ \E max_age \in Ages : ExpireOldProtocols(max_age)
  \/ \E r \in Refreshers : Resume(r)

ProtocolsSpec == ProtocolsInit /\ [][ProtocolsNext]_vars

\* The event loop resumes every request whose await is over.
Resumption == \A r \in Refreshers : WF_vars(Resume(r))

FairProtocolsSpec == ProtocolsSpec /\ Resumption

-----------------------------------------------------------------------------
(* Properties.                                                             *)

\* The two dictionaries are well formed; a request keeps what it found.
ProtocolsTypeOK ==
  /\ DOMAIN tracked \subseteq used /\ used \subseteq Ids
  /\ \A id \in DOMAIN tracked : tracked[id] \in TrackedProtocol
  /\ suggestions \in [Ids -> Seq(DNASuggestion)]
  /\ feed \in Feeds /\ now \in 0..MaxTime
  /\ job \in [Refreshers -> Refresh]
  /\ \A r \in Refreshers : job[r].pc # "idle" => job[r].id \in used

\* Odds and score of a tracked protocol are never replaced by older ones,
\* however many refreshes overlap, and a protocol that was deleted or expired
\* never comes back through a refresh that was waiting.
GoesOn(old, new, drawn) ==
  /\ \A id \in (DOMAIN old) \cap (DOMAIN new) :
       /\ old[id].current_odds # None =>
            new[id].current_odds # None /\ new[id].current_odds.at >= old[id].current_odds.at
       /\ old[id].current_score # None =>
            new[id].current_score # None /\ new[id].current_score.at >= old[id].current_score.at
       /\ new[id].created_at = old[id].created_at
  /\ (DOMAIN new) \cap drawn \subseteq DOMAIN old
DataNeverGoesBack == [][GoesOn(tracked, tracked', used)]_vars

\* This step makes a suggestion that tells from where to where.
Reported(id, type, from, to) ==
  \E i \in 1..Len(suggestions'[id]) :
    /\ i > Len(suggestions[id])
    /\ suggestions'[id][i] = Suggestion(type, from, to)

\* What a step owes the watchers of the protocol r refreshes.
MoveReported(r) ==
  LET id == job[r].id old == tracked[id] new == tracked'[id] IN
  /\ old.current_odds # None =>
       /\ Moved(old.current_odds.spread, new.current_odds.spread, SpreadThreshold)
            => Reported(id, "spread", old.current_odds.spread, new.current_odds.spread)
       /\ Moved(old.current_odds.total, new.current_odds.total, TotalThreshold)
            => Reported(id, "total", old.current_odds.total, new.current_odds.total)
  /\ /\ old.current_score # None /\ new.current_score # old.current_score
     /\ old.current_score.score # None /\ new.current_score.score # None
     /\ new.current_score.score - old.current_score.score >= ScoreSpike
     => Reported(id, "score", old.current_score.score, new.current_score.score)

\* What the watcher relies on: when the stored odds or score move by the
\* threshold during a refresh nobody else overlapped, a suggestion that is
\* not yet dismissed tells from where to where.
MovesReported ==
  [][\A r \in Refreshers :
       /\ job[r].pc # "idle" /\ job[r].alone /\ job'[r].pc # job[r].pc
       /\ job[r].id \in DOMAIN tracked \cap DOMAIN tracked'
       => MoveReported(r)]_vars

\* Every refresh is answered whatever the providers do, and with 500 only when
\* the protocol was deleted or expired while the request waited.
RefreshesAnswered ==
  \A r \in Refreshers, id \in Ids :
    job[r].pc # "idle" /\ job[r].id = id
      ~> \/ job[r].pc = "idle" /\ job[r].answer # None /\ job[r].answer.status = 200
         \/ id \notin DOMAIN tracked
=============================================================================
