-------------------------------- MODULE Bot --------------------------------
(***************************************************************************)
(* The bot: the screens of internal/game, internal/newgame and             *)
(* internal/players over one database, with every interleaving of the      *)
(* database calls of the requests in flight, and failure at every call.    *)
(* With one slot the owner does one thing at a time; with two, taps are    *)
(* doubled, or overlap because Mattermost delivers them concurrently.      *)
(***************************************************************************)
EXTENDS GameScreen, NewGameScreen, PlayersScreen

Init == StoreInit /\ RequestInit

Next ==
  \/ GameNext
  \/ NewGameNext
  \/ PlayersNext
  \/ \E r \in Slot : Fail(r)

Spec == Init /\ [][Next]_vars

TypeOK == StoreTypeOK /\ RequestTypeOK

-----------------------------------------------------------------------------
(* What holds however requests interleave and wherever they fail.          *)

\* Every row refers to rows that exist: a deleted player and a discarded game
\* leave nothing behind, although links, scores, winners and rating rows are
\* written by handlers that looked at the player and the game some calls
\* earlier (HardDeletePlayer, DiscardGame, the foreign keys of db.Open).
ReferentialIntegrity ==
  /\ \A g \in GameId :
       /\ members[g] \cup winners[g] \subseteq players
       /\ primary[g] \in players \cup {NoPlayer}
       /\ ~GameRow(g) => /\ members[g] \cup winners[g] = {}
                         /\ primary[g] = NoPlayer
  /\ \A row \in entries \cup history :
       GameRow(row.game) /\ row.player \in players
  /\ lastPlayers \subseteq players

\* Two taps on "Yes, End", or a tap repeated at any later time, never apply a
\* game's Elo update twice, neither to a rating nor to the trail
\* (FinishGameWithWinners: "It is idempotent").
EloAppliedOnce ==
  /\ \A p \in PlayerId : \A i, j \in DOMAIN rating[p] :
       rating[p][i] = rating[p][j] => i = j
  /\ \A h, k \in history :
       h.game = k.game /\ h.player = k.player => h = k

\* A player's current rating is the one his latest rating_history row ends
\* in, and the starting rating if he has no row: the two writes of one
\* transaction stay together (004_elo_rating.sql, FinishGameWithWinners).
RatingIsLatestInTrail ==
  \A p \in players :
    LET mine == {h \in history : h.player = p}
    IN  IF mine = {} THEN rating[p] = <<>>
        ELSE \A h \in mine :
               (\A k \in mine : k.id <= h.id) => rating[p] = h.after

\* Winners and rating rows belong to finished games only, every winner was
\* rated in the game he won, and the primary winner is one of the winners.
ResultOnlyWhenFinished ==
  /\ \A g \in GameId :
       /\ winners[g] # {} => status[g] = "finished"
       /\ primary[g] \in winners[g] \cup {NoPlayer}
       /\ \A w \in winners[g] :
            \E h \in history : h.game = g /\ h.player = w
  /\ \A h \in history : status[h.game] = "finished"

\* Whoever has won a game, or has a rating row in it, is linked to it: the
\* statistics find wins through the links, yet endConfirm writes both from the
\* players it read two calls earlier, one of whom may have been deleted since.
\* The foreign keys refuse the row of a player who is gone; they would take that
\* of another who has been given his id (AUTOINCREMENT, 001_initial.sql).
ResultsNameMembers ==
  \A g \in GameId :
    winners[g] \cup {h.player : h \in {k \in history : k.game = g}} \subseteq members[g]

\* An ended game never comes back and never ends another way, whatever stale
\* or repeated button is tapped; and while a player exists, what was recorded
\* about him for a finished game stays as it was recorded.
EndedIsFinal ==
  [][\A g \in GameId :
       /\ status[g] \in {"finished", "discarded"} => status'[g] = status[g]
       /\ status[g] = "finished" =>
            /\ winners'[g] = winners[g] \cap players'
            /\ {h \in history' : h.game = g} =
                 {h \in history : h.game = g /\ h.player \in players'}]_vars

\* Who was rated in which game.
RatedIn == {<<h.game, h.player>> : h \in history}

Book == INSTANCE Ledger WITH
  Person <- PlayerId,
  Game   <- GameId,
  people <- players,
  book   <- status,
  result <- winners,
  sheet  <- RatedIn

\* The bot keeps the books of module Ledger: whatever overlaps and fails, what
\* a reader of the tables sees of people, games, winners and rating rows could
\* have been written by one careful hand (FinishGameWithWinners, DiscardGame
\* and HardDeletePlayer are transactions; the handlers around them are not).
ImplementsLedger == Book!Spec

-----------------------------------------------------------------------------
(* What holds while the owner does one thing at a time (one slot).  Two    *)
(* overlapping requests break each of these.                               *)

TopScorers(g) ==
  {p \in members[g] : \A q \in members[g] : GameScore(g, q) <= GameScore(g, p)}

Ends(g, how) == status[g] = "unfinished" /\ status'[g] = how

\* A channel has at most one unfinished game: startGame refuses while there
\* is one ("You have an unfinished game - load or end it first.").
OneUnfinishedGame == Cardinality(UnfinishedGames) <= 1

\* A game that finishes is won by exactly the players tied at its highest
\* score, and that score has reached the threshold (endConfirm).
WinnersAreTopScorers ==
  [][\A g \in GameId : Ends(g, "finished") =>
       /\ winners'[g] = TopScorers(g)
       /\ MaxScore(g, members[g]) >= WinThreshold]_vars

\* A game is only discarded while nobody has reached the threshold.
DiscardOnlyBelowThreshold ==
  [][\A g \in GameId : Ends(g, "discarded") =>
       MaxScore(g, members[g]) < WinThreshold]_vars

\* When a game finishes every participant gets a rating row ("eloDeltas must
\* include every participant").
EveryParticipantRated ==
  [][\A g \in GameId : Ends(g, "finished") =>
       \A p \in members[g] : \E h \in history' : h.game = g /\ h.player = p]_vars

\* An Elo update starts from the rating the player has at that moment, so the
\* update of another game he played is never overwritten (the deltas are
\* computed in endConfirm and stored by FinishGameWithWinners).
NoEloUpdateLost ==
  [][\A h \in history' \ history : h.before = rating[h.player]]_vars

\* A player leaves a game only with the game: nobody is deleted out of an
\* unfinished one (deleteConfirm's guard).
PlayersStayInGame ==
  [][\A g \in GameId : status'[g] = "unfinished" =>
       members[g] \subseteq members'[g]]_vars

\* Nothing is scored in a game that is over (Dialog's guard).
ScoresOnlyWhileUnfinished ==
  [][\A e \in entries' \ entries : status[e.game] = "unfinished"]_vars

=============================================================================
