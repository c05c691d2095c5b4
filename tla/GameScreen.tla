----------------------------- MODULE GameScreen -----------------------------
(***************************************************************************)
(* The handlers of internal/game/game.go that change the database: the     *)
(* score dialog, Delete Entry and End Game.  The prompts before them, and  *)
(* every re-render after them, only read (posts are modelled in Boards).   *)
(***************************************************************************)
EXTENDS Requests

\* Slip: the dialog trusts its button.
SubmitScoreUnguarded(r, g, p) ==
  /\ At(r, "idle")
  /\ p \in members[g]
  /\ req' = [req EXCEPT ![r] = [Idle EXCEPT !.pc = "score_member",
                                            !.game = g, !.player = p]]
  /\ UNCHANGED storeVars

\* Dialog: the game must still be unfinished ...
SubmitScore(r, g, p) ==
  /\ At(r, "idle")
  /\ status[g] = "unfinished"
  /\ p \in members[g]
  /\ req' = [req EXCEPT ![r] = [Idle EXCEPT !.pc = "score_member",
                                            !.game = g, !.player = p]]
  /\ UNCHANGED storeVars

\* ... and the player still one of its members.
CheckScoreMember(r) ==
  /\ At(r, "score_member")
  /\ IF req[r].player \in GamePlayers(req[r].game)
     THEN Goto(r, "score_insert")
     ELSE Return(r)
  /\ UNCHANGED storeVars

InsertScore(r) ==
  /\ At(r, "score_insert")
  /\ \E pts \in Points :
       IF AddScoreAccepted(req[r].game, req[r].player)
       THEN AddScoreEntry(req[r].game, req[r].player, pts)
       ELSE UNCHANGED storeVars
  /\ Return(r)

\* ActEditConfirm: the button names one entry, whatever became of its game.
ConfirmEdit(r, e) ==
  /\ At(r, "idle")
  /\ DeleteScoreEntryByID(e.game, e.id)
  /\ UNCHANGED req

\* endConfirm, first read: the players and their ratings.
ConfirmEnd(r, g) ==
  /\ At(r, "idle")
  /\ status[g] # "absent"
  /\ req' = [req EXCEPT ![r] =
       [Idle EXCEPT !.pc = "end_scores",
                    !.game = g,
                    !.who = GamePlayers(g),
                    !.before = [p \in PlayerId |->
                      IF p \in GamePlayers(g) THEN rating[p] ELSE <<>>]]]
  /\ UNCHANGED storeVars

\* Slip: max <= winThreshold.
BelowThresholdOrAt(max) == max <= WinThreshold

BelowThreshold(max) == max < WinThreshold

\* Second read: the scores decide between discarding and finishing.
ReadEndScores(r) ==
  /\ At(r, "end_scores")
  /\ LET max == MaxScore(req[r].game, req[r].who)
     IN  IF BelowThreshold(max)
         THEN Goto(r, "end_discard")
         ELSE req' = [req EXCEPT
                ![r].pc = "end_finish",
                ![r].wins = ScoresAt(req[r].game, req[r].who, max)]
  /\ UNCHANGED storeVars

DiscardEnd(r) ==
  /\ At(r, "end_discard")
  /\ DiscardGame(req[r].game)
  /\ Return(r)

\* A replay finds the game ended, renders the persisted result and returns.
FinishEnd(r) ==
  /\ At(r, "end_finish")
  /\ IF FinishAccepted(req[r].game, req[r].who)
     THEN /\ FinishGameWithWinners(req[r].game, req[r].who, req[r].wins,
                                   req[r].before)
          /\ IF FinishApplies(req[r].game)
             THEN Goto(r, "end_remember")
             ELSE Return(r)
     ELSE Return(r) /\ UNCHANGED storeVars

RememberEnd(r) ==
  /\ At(r, "end_remember")
  /\ IF SaveLastPlayersAccepted(req[r].who)
     THEN SaveLastPlayers(req[r].who)
     ELSE UNCHANGED storeVars
  /\ Return(r)

GameNext ==
  \E r \in Slot :
    \/ \E e \in entries : ConfirmEdit(r, e)
    \/ \E g \in GameId : ConfirmEnd(r, g)
    \/ \E g \in GameId, p \in PlayerId : SubmitScore(r, g, p)
    \/ CheckScoreMember(r)
    \/ InsertScore(r)
    \/ ReadEndScores(r)
    \/ DiscardEnd(r)
    \/ FinishEnd(r)
    \/ RememberEnd(r)

=============================================================================
