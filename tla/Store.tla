------------------------------- MODULE Store -------------------------------
(***************************************************************************)
(* The SQLite database of the bot and the statements of                    *)
(* internal/db/queries.go.  Every operator of the second half is ONE call  *)
(* of that file: a single autocommitted statement, or a transaction that   *)
(* commits as a whole.  A call whose foreign keys do not hold at commit is *)
(* an error that changes nothing; its condition is the operator named      *)
(* ...Accepted, and the handlers choose between the call and its failure.  *)
(*                                                                         *)
(* Data is abstracted to what the properties tell apart:                   *)
(*   - players and games are identifiers; AUTOINCREMENT never gives an id  *)
(*     out twice, so an id that was used is never used again;              *)
(*   - the bot owns one channel, so channel_id is left out;                *)
(*   - a rating is the sequence of the games whose Elo update it includes: *)
(*     rating.ComputeUpdates turns a rating `before' into one rating       *)
(*     `after' for one game, and FinishGameWithWinners stores that value   *)
(*     as it is, so a lost update or an update applied twice shows.        *)
(***************************************************************************)
EXTENDS Integers, FiniteSets, Sequences, FiniteSetsExt

CONSTANTS PlayerId,      \* players.id values
          GameId,        \* games.id values
          Points,        \* points a typed entry may have (0..999 in game.go)
          WinThreshold,  \* game.winThreshold
          MaxEntries,    \* bound: score entries ever inserted
          InitPlayers,   \* rows of players when the bot starts
          NoPlayer       \* NULL in games.winner_player_id

ASSUME StoreAssumption ==
  /\ Points \subseteq Nat
  /\ WinThreshold \in Nat \ {0}
  /\ MaxEntries \in Nat
  /\ InitPlayers \subseteq PlayerId
  /\ NoPlayer \notin PlayerId

VARIABLES
  players,      \* ids of the rows of players
  usedPlayers,  \* ids players has ever had (its AUTOINCREMENT mark)
  status,       \* games: no row yet, finished_at IS NULL, finished, row deleted
  members,      \* game_players, by game
  entries,      \* rows of score_entries
  entrySeq,     \* score_entries' AUTOINCREMENT mark
  winners,      \* game_winners, by game
  primary,      \* games.winner_player_id
  history,      \* rows of rating_history
  historySeq,   \* rating_history's AUTOINCREMENT mark, one id per transaction
  rating,       \* players.rating, as the games it includes
  lastPlayers   \* chat_last_players of the channel

gameVars   == <<status, members, winners, primary>>
entryVars  == <<entries, entrySeq>>
eloVars    == <<history, historySeq, rating>>
playerVars == <<players, usedPlayers>>
storeVars  == <<players, usedPlayers, status, members, entries, entrySeq,
                winners, primary, history, historySeq, rating, lastPlayers>>

Status == {"absent", "unfinished", "finished", "discarded"}

Entry == [id : Nat, game : GameId, player : PlayerId, points : Points]

Rating == Seq(GameId)

HistoryRow == [id : Nat, game : GameId, player : PlayerId,
               before : Rating, after : Rating]

StoreTypeOK ==
  /\ players \subseteq usedPlayers
  /\ usedPlayers \subseteq PlayerId
  /\ status \in [GameId -> Status]
  /\ members \in [GameId -> SUBSET PlayerId]
  /\ entries \subseteq Entry
  /\ entrySeq \in Nat
  /\ winners \in [GameId -> SUBSET PlayerId]
  /\ primary \in [GameId -> PlayerId \cup {NoPlayer}]
  /\ history \subseteq HistoryRow
  /\ historySeq \in Nat
  /\ rating \in [PlayerId -> Rating]
  /\ lastPlayers \subseteq PlayerId

\* A database that holds players and no game.
StoreInit ==
  /\ players = InitPlayers
  /\ usedPlayers = InitPlayers
  /\ status = [g \in GameId |-> "absent"]
  /\ members = [g \in GameId |-> {}]
  /\ entries = {}
  /\ entrySeq = 0
  /\ winners = [g \in GameId |-> {}]
  /\ primary = [g \in GameId |-> NoPlayer]
  /\ history = {}
  /\ historySeq = 0
  /\ rating = [p \in PlayerId |-> <<>>]
  /\ lastPlayers = {}

-----------------------------------------------------------------------------
(* Queries *)

UnfinishedGames == {g \in GameId : status[g] = "unfinished"}

GameRow(g) == status[g] \in {"unfinished", "finished"}

\* GetGamePlayers joins game_players with players.
GamePlayers(g) == members[g] \cap players

\* GetGameScores: a player without entries reads as 0 from the Go map.
GameScore(g, p) ==
  MapThenSumSet(LAMBDA e : e.points,
                {e \in entries : e.game = g /\ e.player = p})

\* maxScore over the players who were read: 0 when there are none.
MaxScore(g, who) == Max({GameScore(g, p) : p \in who} \cup {0})

\* Slip: everyone who reached the threshold wins.
ScoresReaching(g, who, target) ==
  {p \in who : GameScore(g, p) >= WinThreshold}

\* winnerIDs: everyone tied at the target score.
ScoresAt(g, who, target) == {p \in who : GameScore(g, p) = target}

IsPlayerInUnfinishedGame(p) == \E g \in UnfinishedGames : p \in members[g]

-----------------------------------------------------------------------------
(* Statements.  The operators whose comment starts with "Slip:" are not    *)
(* the code: each is a mistake the operator after it could have held, used *)
(* to see that the properties would notice.                                *)

\* Slip: INTEGER PRIMARY KEY without AUTOINCREMENT would reuse ids.
InsertPlayerReusingIds(p) ==
  /\ p \notin players
  /\ players' = players \cup {p}
  /\ UNCHANGED <<usedPlayers, gameVars, entryVars, eloVars, lastPlayers>>

\* The id is new; "get" of an existing name changes nothing and is no step.
CreateOrGetPlayer(p) ==
  /\ p \notin usedPlayers
  /\ players' = players \cup {p}
  /\ usedPlayers' = usedPlayers \cup {p}
  /\ UNCHANGED <<gameVars, entryVars, eloVars, lastPlayers>>

CreateGame(g) ==
  /\ status[g] = "absent"
  /\ status' = [status EXCEPT ![g] = "unfinished"]
  /\ UNCHANGED <<playerVars, members, winners, primary, entryVars, eloVars,
                 lastPlayers>>

\* INSERT OR IGNORE ignores a duplicate row, never a foreign-key violation.
AddPlayerAccepted(g, p) == GameRow(g) /\ p \in players

AddPlayerToGame(g, p) ==
  /\ members' = [members EXCEPT ![g] = @ \cup {p}]
  /\ UNCHANGED <<playerVars, status, winners, primary, entryVars, eloVars,
                 lastPlayers>>

\* Slip: a connection without PRAGMA foreign_keys accepts every row.
AddScoreUnchecked(g, p) == status[g] # "absent"

AddScoreAccepted(g, p) == GameRow(g) /\ p \in players

AddScoreEntry(g, p, pts) ==
  /\ entrySeq < MaxEntries
  /\ entrySeq' = entrySeq + 1
  /\ entries' = entries \cup
       {[id |-> entrySeq + 1, game |-> g, player |-> p, points |-> pts]}
  /\ UNCHANGED <<playerVars, gameVars, eloVars, lastPlayers>>

\* The WHERE clause names the entry and its game, and nothing about the game.
DeleteScoreEntryByID(g, id) ==
  /\ entries' = {e \in entries : ~(e.id = id /\ e.game = g)}
  /\ UNCHANGED <<playerVars, gameVars, entrySeq, eloVars, lastPlayers>>

\* Slip: UPDATE games without "finished_at IS NULL".
FinishAppliesToAnyRow(g) == GameRow(g)

\* UPDATE games ... AND finished_at IS NULL affects a row.
FinishApplies(g) == status[g] = "unfinished"

FinishAccepted(g, who) == FinishApplies(g) => who \subseteq players

\* ComputeUpdates leaves the rating of a lone player as it was.
RatingAfter(g, who, r) == IF Cardinality(who) < 2 THEN r ELSE Append(r, g)

\* Slip: rating_after computed again from the current rating.
TrailRowsRecomputed(g, who, before) ==
  {[id |-> historySeq + 1, game |-> g, player |-> p,
    before |-> before[p], after |-> RatingAfter(g, who, rating[p])]
   : p \in who}

\* Slip: a trail for the players whose rating is not the starting one only.
TrailRowsOfRated(g, who, before) ==
  {[id |-> historySeq + 1, game |-> g, player |-> p,
    before |-> before[p], after |-> RatingAfter(g, who, before[p])]
   : p \in {q \in who : before[q] # <<>>}}

\* Slip: rating_before selected after the UPDATE of players.rating.
TrailRowsAfterUpdate(g, who, before) ==
  {[id |-> historySeq + 1, game |-> g, player |-> p,
    before |-> RatingAfter(g, who, before[p]),
    after |-> RatingAfter(g, who, before[p])]
   : p \in who}

\* One rating_history row per Elo delta.
TrailRows(g, who, before) ==
  {[id |-> historySeq + 1, game |-> g, player |-> p,
    before |-> before[p], after |-> RatingAfter(g, who, before[p])]
   : p \in who}

\* Nothing is written when the guard affects no row.
FinishGameWithWinners(g, who, wins, before) ==
  IF FinishApplies(g)
  THEN /\ status' = [status EXCEPT ![g] = "finished"]
       /\ \E w \in wins : primary' = [primary EXCEPT ![g] = w]
       /\ winners' = [winners EXCEPT ![g] = wins]
       /\ historySeq' = historySeq + 1
       /\ history' = history \cup TrailRows(g, who, before)
       /\ rating' = [p \in PlayerId |->
            IF p \in who THEN RatingAfter(g, who, before[p]) ELSE rating[p]]
       /\ UNCHANGED <<playerVars, members, entryVars, lastPlayers>>
  ELSE UNCHANGED storeVars

\* Slip: no look at finished_at before the deletes.
DiscardAppliesToAnyRow(g) == GameRow(g)

\* The row still exists and finished_at is NULL.
DiscardApplies(g) == status[g] = "unfinished"

DiscardGame(g) ==
  IF DiscardApplies(g)
  THEN /\ status' = [status EXCEPT ![g] = "discarded"]
       /\ entries' = {e \in entries : e.game # g}
       /\ members' = [members EXCEPT ![g] = {}]
       /\ winners' = [winners EXCEPT ![g] = {}]
       /\ UNCHANGED <<playerVars, primary, entrySeq, eloVars, lastPlayers>>
  ELSE UNCHANGED storeVars

\* Slip: games.winner_player_id left as it is.
KeepPrimary(p) == primary

\* UPDATE games SET winner_player_id = NULL WHERE winner_player_id = p
ForgetPrimary(p) ==
  [g \in GameId |-> IF primary[g] = p THEN NoPlayer ELSE primary[g]]

HardDeletePlayer(p) ==
  /\ players' = players \ {p}
  /\ entries' = {e \in entries : e.player # p}
  /\ members' = [g \in GameId |-> members[g] \ {p}]
  /\ winners' = [g \in GameId |-> winners[g] \ {p}]
  /\ primary' = ForgetPrimary(p)
  /\ history' = {h \in history : h.player # p}
  /\ rating' = [rating EXCEPT ![p] = <<>>]
  /\ lastPlayers' = lastPlayers \ {p}
  /\ UNCHANGED <<usedPlayers, status, entrySeq, historySeq>>

SaveLastPlayersAccepted(who) == who \subseteq players

SaveLastPlayers(who) ==
  /\ lastPlayers' = who
  /\ UNCHANGED <<playerVars, gameVars, entryVars, eloVars>>

=============================================================================
