--------------------------- MODULE NewGameScreen ---------------------------
(***************************************************************************)
(* internal/newgame/newgame.go: adding a player and starting a game.  The  *)
(* setup screen and the picker of known players only carry a roster from   *)
(* button to button, and a stale button may carry players who have been    *)
(* deleted since: a roster is any set of ids that players has ever had.    *)
(* Its order is the order the buttons were tapped in, hence any.           *)
(***************************************************************************)
EXTENDS Requests

\* Dialog: a name that is new to the database.
AddPlayer(r, p) ==
  /\ At(r, "idle")
  /\ CreateOrGetPlayer(p)
  /\ UNCHANGED req

\* Slip: the number of players is checked, the running game is not.
StartGameUnguarded(r, roster) ==
  /\ At(r, "idle")
  /\ Cardinality(roster) >= 2
  /\ req' = [req EXCEPT ![r] = [Idle EXCEPT !.pc = "start_create",
                                            !.who = roster, !.todo = roster]]
  /\ UNCHANGED storeVars

\* startGame: the two guards ...
StartGame(r, roster) ==
  /\ At(r, "idle")
  /\ Cardinality(roster) >= 2
  /\ UnfinishedGames = {}
  /\ req' = [req EXCEPT ![r] = [Idle EXCEPT !.pc = "start_create",
                                            !.who = roster, !.todo = roster]]
  /\ UNCHANGED storeVars

\* ... the game row ...
CreateStartedGame(r) ==
  /\ At(r, "start_create")
  /\ \E g \in GameId :
       /\ CreateGame(g)
       /\ req' = [req EXCEPT ![r].pc = "start_add", ![r].game = g]

\* ... one link per player of the roster ...
LinkPlayer(r) ==
  /\ At(r, "start_add")
  /\ \E p \in req[r].todo :
       IF AddPlayerAccepted(req[r].game, p)
       THEN /\ AddPlayerToGame(req[r].game, p)
            /\ req' = [req EXCEPT
                 ![r].todo = @ \ {p},
                 ![r].pc = IF req[r].todo = {p} THEN "start_remember" ELSE @]
       ELSE UNCHANGED storeVars /\ Return(r)

\* ... and, when the board has been posted, the channel's last players.
RememberStart(r) ==
  /\ At(r, "start_remember")
  /\ IF SaveLastPlayersAccepted(req[r].who)
     THEN SaveLastPlayers(req[r].who)
     ELSE UNCHANGED storeVars
  /\ Return(r)

NewGameNext ==
  \E r \in Slot :
    \/ \E p \in PlayerId : AddPlayer(r, p)
    \/ \E roster \in SUBSET usedPlayers : StartGame(r, roster)
    \/ CreateStartedGame(r)
    \/ LinkPlayer(r)
    \/ RememberStart(r)

=============================================================================
