--------------------------------- MODULE Slip ---------------------------------
(***************************************************************************)
(* What is read in a slip: the entities recognised in its text, its legs   *)
(* as blocks of the engine (app/pipeline.py), the structure the client is  *)
(* shown (app/structure_snapshot.py) and how it and the signal changed     *)
(* since the previous evaluation (app/delta_engine.py).                    *)
(*                                                                         *)
(* A text is a sequence of phrases, the parts its delimiters leave, and a  *)
(* phrase is known by what the keyword tables find in it.                  *)
(***************************************************************************)
EXTENDS Integers, SequencesExt

CONSTANTS
  Phrase, \* name -> [nbaTeams, nflTeams, nbaPlayers, nflPlayers, markets,
          \* sports, prop, total, signed, large, known: what is recognised in
          \* it; nbaKeys, nflKeys: the teams of the keys it contains anywhere,
          \* in the order of the tables; availability: the players the context
          \* is asked about; chars: its length]
  NoSnapshot,
  NoLegId     \* what a builder's leg carries for an id

BetTypes == {"ml", "spread", "total", "player_prop"}

-----------------------------------------------------------------------------
(* recognize_entities                                                      *)

Found(text, field(_)) == UNION {field(Phrase[text[i]]) : i \in DOMAIN text}

SportOrder == <<"nba", "nfl", "mlb", "nhl", "soccer", "mma">>

Among(s, set) == {i \in DOMAIN s : s[i] \in set}
FirstAmong(s, set) == s[Min(Among(s, set))]

\* A sport named in the text comes first; otherwise the evidence decides, a tie
\* for the NBA.
SportGuess(text, markets) ==
  LET named == Found(text, LAMBDA p : p.sports)
      Evidence(teams(_), players(_), kinds) ==
        Cardinality(Found(text, teams)) + Cardinality(Found(text, players))
          + Cardinality(markets \cap kinds)
      nba == Evidence(LAMBDA p : p.nbaTeams, LAMBDA p : p.nbaPlayers,
                      {"points", "rebounds", "assists", "threes", "steals", "blocks"})
      nfl == Evidence(LAMBDA p : p.nflTeams, LAMBDA p : p.nflPlayers, {"td", "yardage"})
  IN  IF named # {} THEN FirstAmong(SportOrder, named)
      ELSE IF nba > 0 /\ nba >= nfl THEN "nba"
      ELSE IF nfl > 0 THEN "nfl"
      ELSE IF markets \cap {"hr", "strikeouts", "hits", "rbi"} # {} THEN "mlb"
      ELSE "unknown"

RecognizeEntities(text) ==
  LET markets == Found(text, LAMBDA p : p.markets)
                   \cup {m \in {"spread"} : \E i \in DOMAIN text : Phrase[text[i]].signed}
  IN  [teams   |-> Found(text, LAMBDA p : p.nbaTeams) \cup Found(text, LAMBDA p : p.nflTeams),
       players |-> Found(text, LAMBDA p : p.nbaPlayers) \cup Found(text, LAMBDA p : p.nflPlayers),
       markets |-> markets,
       sport   |-> SportGuess(text, markets)]

-----------------------------------------------------------------------------
(* The blocks of a text: one per phrase, the ones after the sixth dropped. *)

DetectLegMarket(p) ==
  CASE p.prop -> "player_prop"
    [] ~p.prop /\ p.total -> "total"
    [] ~p.prop /\ ~p.total /\ p.signed -> "spread"
    [] OTHER -> "ml"

\* In hundredths of a point.
BaseFragility(type) ==
  CASE type = "player_prop" -> 20 [] type = "total" -> 12 [] type = "spread" -> 10
    [] type = "ml" -> 8

OwnGame == <<"game_1", "game_2", "game_3", "game_4", "game_5", "game_6">>

\* The team of the first NBA key in the leg, if it was recognised; failing
\* that, of any NFL key the leg contains, inside a word too.
GameOf(p, i, teams) ==
  IF Among(p.nbaKeys, teams) # {} THEN FirstAmong(p.nbaKeys, teams)
  ELSE IF p.nflKeys # <<>> THEN p.nflKeys[1]
  ELSE OwnGame[i]

ParseBetText(text) ==
  LET entities == RecognizeEntities(text)
  IN  [i \in 1..(IF Len(text) > 6 THEN 6 ELSE Len(text)) |->
         [type  |-> DetectLegMarket(Phrase[text[i]]),
          game  |-> GameOf(Phrase[text[i]], i, entities.teams),
          words |-> text[i],
          sport |-> entities.sport]]

Legs(blocks, Test(_)) == {i \in DOMAIN blocks : Test(blocks[i])}
Props(blocks)  == Legs(blocks, LAMBDA b : b.type = "player_prop")
Totals(blocks) == Legs(blocks, LAMBDA b : b.type = "total")
Spreads(blocks) == Legs(blocks, LAMBDA b : b.type = "spread")

\* The games of several legs.
InGame(blocks, game) == Legs(blocks, LAMBDA b : b.game = game)
SameGames(blocks) ==
  {g \in {blocks[i].game : i \in DOMAIN blocks} : Cardinality(InGame(blocks, g)) > 1}
MaxSameGame(blocks) ==
  Max({0} \cup {Cardinality(InGame(blocks, g)) : g \in SameGames(blocks)})

\* The best of the markets, one more for a game of several legs and for four
\* legs; with no market at all it is the one of a spread.
VolatilityFlag(markets, legs, sameGame) ==
  LET Market(m) == CASE m = "total" -> 2 [] m = "spread" -> 1 [] m = "ml" -> 0 [] OTHER -> 3
      base == IF markets = {} THEN 1 ELSE Max({Market(m) : m \in markets})
      score == base + (IF sameGame >= 2 THEN 1 ELSE 0) + (IF legs >= 4 THEN 1 ELSE 0)
  IN  CASE score = 0 -> "low" [] score = 1 -> "medium" [] score = 2 -> "med-high"
        [] OTHER -> "high"

-----------------------------------------------------------------------------
(* generate_structure_snapshot: canonical legs are the markets a builder   *)
(* sent, "unknown" or "" where it gave none.  They carry no id.            *)

NamesMarkets(canonical) == \E i \in DOMAIN canonical : canonical[i] \notin {"", "unknown"}

SameGameFlag(blocks) ==
  \/ SameGames(blocks) # {}
  \/ \E i \in DOMAIN blocks : blocks[i].type \in {"ml", "spread"}
     /\ Props(blocks) # {}

StructureSnapshot(blocks, canonical) ==
  LET types == IF NamesMarkets(canonical) THEN canonical
               ELSE [i \in DOMAIN blocks |-> blocks[i].type]
      ids == IF NamesMarkets(canonical) THEN [i \in DOMAIN canonical |-> NoLegId] ELSE blocks
      Count(kinds) == Cardinality({i \in DOMAIN types : types[i] \in kinds})
      props  == Count({"player_prop"})
      totals == Count({"total", "team_total"})
  IN  [leg_count |-> Len(types), leg_ids |-> ids, leg_types |-> types,
       props |-> props, totals |-> totals,
       flags |-> {f \in {"same_game"} : Len(blocks) >= 2 /\ SameGameFlag(blocks)},
       sources |-> {s \in {"player_prop"} : props > 0} \cup {s \in {"totals"} : totals > 0}]

-----------------------------------------------------------------------------
(* delta_engine.py                                                         *)

CountChanges(old, new) ==
  {c \in {"leg_removed"} : new.leg_count < old.leg_count}
    \cup {c \in {"leg_added"} : new.leg_count > old.leg_count}

\* The changes detected: a leg replaced only when the count stayed.
SnapshotChanges(old, new) ==
  CountChanges(old, new)
    \cup {c \in {"leg_replaced"} : /\ ~(ToSet(old.leg_ids) \subseteq ToSet(new.leg_ids))
                                   /\ CountChanges(old, new) = {}}
    \cup {c \in {"correlation_added"} : ~(new.flags \subseteq old.flags)}
    \cup {c \in {"correlation_removed"} : ~(old.flags \subseteq new.flags)}
    \cup {c \in {"volatility_added"} : ~(new.sources \subseteq old.sources)}
    \cup {c \in {"volatility_removed"} : ~(old.sources \subseteq new.sources)}

\* Nothing on a first evaluation.
SnapshotDelta(previous, current) ==
  IF previous = NoSnapshot THEN {}
  ELSE SnapshotChanges(previous.structure, current.structure)

SignalOrder == [red |-> 0, yellow |-> 1, green |-> 2, blue |-> 3]

\* Signals first, then scores more than margin apart.
SignalTrend(old, new, margin) ==
  IF SignalOrder[new.signal] > SignalOrder[old.signal] THEN "improved"
  ELSE IF SignalOrder[new.signal] < SignalOrder[old.signal] THEN "softened"
  ELSE IF old.score - new.score > margin THEN "improved"
  ELSE IF old.score - new.score < -margin THEN "softened"
  ELSE "unchanged"

ConfidenceTrend(previous, current, margin) ==
  IF previous = NoSnapshot THEN "none" ELSE SignalTrend(previous, current, margin)
=============================================================================
