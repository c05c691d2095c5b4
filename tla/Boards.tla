------------------------------- MODULE Boards -------------------------------
(***************************************************************************)
(* The posts of the channel.  A game is driven from the buttons of its     *)
(* root post, whose screen (board, Edit Last prompt, End Game prompt) the  *)
(* bot replaces in place: with the response to a tap, or, after a dialog,  *)
(* by updating the post the dialog was opened from.  /flip7 scoreboard and *)
(* Load Game replace the post itself.                                      *)
(*                                                                         *)
(* Of the database the module keeps which games are over, games.post_id,   *)
(* how often a game's scores have changed, which is what a board can be    *)
(* behind with, and whether its top score has reached the threshold.  A    *)
(* button can be tapped while its post shows it; with two slots also a     *)
(* second time, before the response to the first is there.                 *)
(***************************************************************************)
EXTENDS Integers, FiniteSets

CONSTANTS Slot,         \* requests the server can have in flight
          MaxGameId,    \* bound: games.id
          PostId,       \* posts Mattermost can create
          NoPost,       \* NULL in games.post_id
          MaxVersion,   \* bound: changes of one game's scores
          MaxFailures   \* bound: calls that fail

ASSUME BoardsAssumption ==
  /\ MaxGameId \in Nat /\ MaxVersion \in Nat /\ MaxFailures \in Nat
  /\ NoPost \notin PostId

VARIABLES
  status,     \* games: no row yet, unfinished, finished, row deleted
  version,    \* changes of a game's scores so far
  reached,    \* games whose top score has reached the threshold
  postOf,     \* games.post_id
  screen,     \* what a post shows
  dialogs,    \* score dialogs open in some window
  announced,  \* thread replies that announced the end of a game
  lateAt,     \* history: the last score whose dialog had lost its post
  failures,   \* calls that failed so far
  req         \* requests in flight, by slot

vars == <<status, version, reached, postOf, screen, dialogs, announced, lateAt,
          failures, req>>

scoreVars == <<version, reached, lateAt>>

postVars == <<postOf, screen, dialogs, announced>>

GameId == 1 .. MaxGameId

NoGame == 0

Live == {"board", "edit", "end"}

Ending == {"finished", "discarded"}

\* What a post shows: nothing yet, nothing any more, controls of a game, or the
\* end of one (the win screen, the stub of a discarded game), without controls.
Screen == [kind : Live \cup Ending \cup {"none", "deleted"},
           game : GameId \cup {NoGame},
           version : 0 .. MaxVersion]

Blank(kind)    == [kind |-> kind, game |-> NoGame, version |-> 0]
Plain(k, g)    == [kind |-> k, game |-> g, version |-> 0]
RenderRoot(g)  == [kind |-> "board", game |-> g, version |-> version[g]]

PC == {"idle", "render", "respond", "end", "announce", "insert", "create",
       "delete", "read", "post", "save"}

Request == [pc : PC, game : GameId \cup {NoGame}, post : PostId \cup {NoPost},
            show : Screen]

Idle == [pc |-> "idle", game |-> NoGame, post |-> NoPost, show |-> Blank("none")]

\* What shows controls or the end of a game names the game.
Names(s) == s.kind \in Live \cup Ending => s.game \in GameId

TypeOK ==
  /\ status \in [GameId -> {"absent", "unfinished"} \cup Ending]
  /\ version \in [GameId -> 0 .. MaxVersion]
  /\ lateAt \in [GameId -> 0 .. MaxVersion]
  /\ reached \subseteq GameId
  /\ postOf \in [GameId -> PostId \cup {NoPost}]
  /\ screen \in [PostId -> Screen]
  /\ dialogs \subseteq [game : GameId, post : PostId]
  /\ announced \in [GameId -> Nat]
  /\ failures \in 0 .. MaxFailures
  /\ req \in [Slot -> Request]
  /\ \A p \in PostId : Names(screen[p])
  /\ \A r \in Slot :
       /\ Names(req[r].show)
       /\ req[r].pc \notin {"idle", "create"} => req[r].game \in GameId
       /\ req[r].pc \in {"render", "respond", "end", "announce", "insert", "save"}
            => req[r].post \in PostId
       /\ req[r].pc = "end" => req[r].show.kind \in Ending

Init ==
  /\ status = [g \in GameId |-> "absent"]
  /\ version = [g \in GameId |-> 0]
  /\ reached = {}
  /\ lateAt = [g \in GameId |-> 0]
  /\ postOf = [g \in GameId |-> NoPost]
  /\ screen = [p \in PostId |-> Blank("none")]
  /\ dialogs = {}
  /\ announced = [g \in GameId |-> 0]
  /\ failures = 0
  /\ req = [r \in Slot |-> Idle]

UnfinishedGames == {g \in GameId : status[g] = "unfinished"}

At(r, pc) == req[r].pc = pc

Goto(r, pc) == req' = [req EXCEPT ![r].pc = pc]

Begin(r, pc, g, p, show) ==
  req' = [req EXCEPT ![r] = [pc |-> pc, game |-> g, post |-> p, show |-> show]]

Return(r) == req' = [req EXCEPT ![r] = Idle]

\* A post that is gone stays gone (isNotFound in mm/poster.go).
Show(p, s) ==
  screen' = [screen EXCEPT ![p] = IF @.kind = "deleted" THEN @ ELSE s]

\* Requests that are about to make the same call.
About(pcs) == {r \in Slot : req[r].pc \in pcs}

\* Bound: the scores of g can change once more.
ChangesLeft(g) == version[g] < MaxVersion

-----------------------------------------------------------------------------
(* Taps on a root post *)

Tap(r, p, kinds) == At(r, "idle") /\ screen[p].kind \in kinds

\* editLast; with no entry it is an ephemeral and nothing changes.
EditLast(r, p) ==
  /\ Tap(r, p, {"board"})
  /\ Begin(r, "respond", screen[p].game, p, Plain("edit", screen[p].game))
  /\ UNCHANGED <<status, scoreVars, postVars, failures>>

\* The entry is deleted, or was already.
ConfirmEdit(r, p) ==
  /\ Tap(r, p, {"edit"})
  /\ LET g == screen[p].game
     IN  /\ Begin(r, "render", g, p, Idle.show)
         /\ \/ UNCHANGED <<version, reached>>
            \/ /\ version[g] > 0 /\ ChangesLeft(g)
               /\ status[g] # "discarded"
               /\ version' = [version EXCEPT ![g] = @ + 1]
               /\ reached' \in {reached, reached \ {g}}
  /\ UNCHANGED <<status, lateAt, postVars, failures>>

\* ActEditCancel and ActGameEndCancel.
Cancel(r, p) ==
  /\ Tap(r, p, {"edit", "end"})
  /\ Begin(r, "render", screen[p].game, p, Idle.show)
  /\ UNCHANGED <<status, scoreVars, postVars, failures>>

\* renderActive, and the end of a score dialog: loadState, then the new screen.
Render(r) ==
  /\ At(r, "render")
  /\ Begin(r, "respond", req[r].game, req[r].post, RenderRoot(req[r].game))
  /\ UNCHANGED <<status, scoreVars, postVars, failures>>

EndPrompt(r, p) ==
  /\ Tap(r, p, {"board"})
  /\ Begin(r, "respond", screen[p].game, p, Plain("end", screen[p].game))
  /\ UNCHANGED <<status, scoreVars, postVars, failures>>

\* endConfirm: the scores decide; a game that is gone has neither players nor
\* scores, and is below the threshold.
ConfirmEnd(r, p) ==
  /\ Tap(r, p, {"end"})
  /\ LET g == screen[p].game
         over == IF g \in reached THEN "finished" ELSE "discarded"
     IN  Begin(r, "end", g, p, Plain(over, g))
  /\ UNCHANGED <<status, scoreVars, postVars, failures>>

\* Slip: the reply is posted whether or not this tap ended the game.
EndAndAlwaysAnnounce(r) ==
  /\ At(r, "end")
  /\ LET g == req[r].game
     IN  /\ Goto(r, "announce")
         /\ status' = [status EXCEPT ![g] = IF @ = "unfinished"
                                             THEN req[r].show.kind ELSE @]
  /\ reached' = {g \in reached : status'[g] # "discarded"}
  /\ UNCHANGED <<version, lateAt, postVars, failures>>

\* Slip: a replay is answered with the win screen.
EndWithReplayWon(r) ==
  /\ At(r, "end")
  /\ LET g == req[r].game
     IN  IF status[g] = "unfinished"
         THEN status' = [status EXCEPT ![g] = req[r].show.kind] /\ Goto(r, "announce")
         ELSE /\ Begin(r, "respond", g, req[r].post, Plain("finished", g))
              /\ UNCHANGED status
  /\ reached' = {g \in reached : status'[g] # "discarded"}
  /\ UNCHANGED <<version, lateAt, postVars, failures>>

\* DiscardGame or FinishGameWithWinners: true for the tap that ended the game,
\* which alone announces it; a replay only renders.
End(r) ==
  /\ At(r, "end")
  /\ LET g == req[r].game
     IN  IF status[g] = "unfinished"
         THEN status' = [status EXCEPT ![g] = req[r].show.kind] /\ Goto(r, "announce")
         ELSE Goto(r, "respond") /\ UNCHANGED status
  /\ reached' = {g \in reached : status'[g] # "discarded"}
  /\ UNCHANGED <<version, lateAt, postVars, failures>>

\* reply is best-effort: it may fail without failing the request.
Announce(r) ==
  /\ At(r, "announce")
  /\ Goto(r, "respond")
  /\ \/ announced' = [announced EXCEPT ![req[r].game] = @ + 1]
     \/ UNCHANGED announced
  /\ UNCHANGED <<status, scoreVars, postOf, screen, dialogs, failures>>

\* Slip: a win screen or stub that keeps the board's buttons.
RespondKeepingButtons(r) ==
  /\ At(r, "respond")
  /\ Show(req[r].post, IF req[r].show.kind \in Live THEN req[r].show
                       ELSE screen[req[r].post])
  /\ Return(r)
  /\ UNCHANGED <<status, scoreVars, postOf, dialogs, announced, failures>>

\* Mattermost applies the response, or UpdateAttachment, to the post.
Respond(r) ==
  /\ At(r, "respond")
  /\ Show(req[r].post, req[r].show)
  /\ Return(r)
  /\ UNCHANGED <<status, scoreVars, postOf, dialogs, announced, failures>>

-----------------------------------------------------------------------------
(* The score dialog *)

\* The dialog remembers the post it was opened from.
OpenScoreDialog(r, p) ==
  /\ Tap(r, p, {"board"})
  /\ dialogs' = dialogs \cup {[game |-> screen[p].game, post |-> p]}
  /\ UNCHANGED <<status, scoreVars, postOf, screen, announced, failures, req>>

\* Slip: the dialog trusts its button.
SubmitScoreUnguarded(r, d) ==
  /\ At(r, "idle")
  /\ ChangesLeft(d.game)
  /\ dialogs' = dialogs \ {d}
  /\ Begin(r, "insert", d.game, d.post, Idle.show)
  /\ UNCHANGED <<status, scoreVars, postOf, screen, announced, failures>>

\* For a game that is over the dialog shows an error and nothing changes.
SubmitScore(r, d) ==
  /\ At(r, "idle")
  /\ status[d.game] = "unfinished"
  /\ ChangesLeft(d.game)
  /\ dialogs' = dialogs \ {d}
  /\ Begin(r, "insert", d.game, d.post, Idle.show)
  /\ UNCHANGED <<status, scoreVars, postOf, screen, announced, failures>>

Scored(g, post) ==
  /\ version' = [version EXCEPT ![g] = @ + 1]
  /\ reached' \in {reached, reached \cup {g}}
  /\ lateAt' = [lateAt EXCEPT ![g] = IF post = postOf[g] THEN @ ELSE version[g] + 1]

\* Slip: the board is built from the scores read before the insert.
InsertScoreLate(r) ==
  /\ At(r, "insert")
  /\ ChangesLeft(req[r].game)
  /\ LET g == req[r].game
     IN  IF status[g] = "discarded"
         THEN Return(r) /\ UNCHANGED scoreVars
         ELSE /\ Scored(g, req[r].post)
              /\ Begin(r, "respond", g, req[r].post, RenderRoot(g))
  /\ UNCHANGED <<status, postVars, failures>>

\* A game that has been discarded since refuses the row.
InsertScore(r) ==
  /\ At(r, "insert")
  /\ ChangesLeft(req[r].game)
  /\ LET g == req[r].game
     IN  IF status[g] = "discarded"
         THEN Return(r) /\ UNCHANGED scoreVars
         ELSE Scored(g, req[r].post) /\ Goto(r, "render")
  /\ UNCHANGED <<status, postVars, failures>>

\* HardDeletePlayer takes a player of a finished game out of it, with his
\* entries; the top score may be below the threshold then.
DeletePlayer(g) ==
  /\ status[g] = "finished" /\ ChangesLeft(g)
  /\ version' = [version EXCEPT ![g] = @ + 1]
  /\ reached' \in {reached, reached \ {g}}
  /\ UNCHANGED <<status, lateAt, postVars, failures, req>>

-----------------------------------------------------------------------------
(* New root posts *)

Unused == {p \in PostId : screen[p].kind = "none"}

\* Bound: a post is left for everyone who is about to create one.
PostsLeft ==
  Cardinality(Unused) > Cardinality(About({"create", "delete", "read", "post"}))

\* Bound: so is a game id.
GamesLeft ==
  Cardinality({g \in GameId : status[g] = "absent"}) > Cardinality(About({"create"}))

\* RepostScoreboard takes the newest unfinished game; without one it only says
\* "No active game."
Repost(r) ==
  /\ At(r, "idle")
  /\ IF UnfinishedGames = {}
     THEN UNCHANGED req
     ELSE /\ PostsLeft
          /\ \E g \in UnfinishedGames :
               /\ \A h \in UnfinishedGames : h <= g
               /\ Begin(r, "delete", g, postOf[g], Idle.show)
  /\ UNCHANGED <<status, scoreVars, postVars, failures>>

\* loadGame: the game must still be unfinished.
LoadGame(r, g) ==
  /\ At(r, "idle")
  /\ status[g] = "unfinished"
  /\ PostsLeft
  /\ Begin(r, "delete", g, postOf[g], Idle.show)
  /\ UNCHANGED <<status, scoreVars, postVars, failures>>

\* Slip: the old post is left standing.
DeleteNothing(r) ==
  /\ At(r, "delete")
  /\ Goto(r, "read")
  /\ UNCHANGED <<status, scoreVars, postVars, failures>>

\* Best effort: an error of DeletePost is dropped.
DeleteOldPost(r) ==
  /\ At(r, "delete")
  /\ Goto(r, "read")
  /\ IF req[r].post = NoPost
     THEN UNCHANGED <<screen, failures>>
     ELSE \/ /\ Show(req[r].post, Blank("deleted"))
             /\ UNCHANGED failures
          \/ /\ failures < MaxFailures
             /\ failures' = failures + 1
             /\ UNCHANGED screen
  /\ UNCHANGED <<status, scoreVars, postOf, dialogs, announced>>

\* startGame, and the game it creates.
StartGame(r) ==
  /\ At(r, "idle")
  /\ UnfinishedGames = {}
  /\ PostsLeft /\ GamesLeft
  /\ Begin(r, "create", NoGame, NoPost, Idle.show)
  /\ UNCHANGED <<status, scoreVars, postVars, failures>>

\* The board of a new game is built without reading its scores.
CreateGame(r) ==
  /\ At(r, "create")
  /\ \E g \in GameId :
       /\ status[g] = "absent"
       /\ \A h \in GameId : h < g => status[h] # "absent"
       /\ status' = [status EXCEPT ![g] = "unfinished"]
       /\ Begin(r, "post", g, NoPost, Plain("board", g))
  /\ UNCHANGED <<scoreVars, postVars, failures>>

\* loadState for the new root post of a game that goes on.
ReadBoard(r) ==
  /\ At(r, "read")
  /\ Begin(r, "post", req[r].game, req[r].post, RenderRoot(req[r].game))
  /\ UNCHANGED <<status, scoreVars, postVars, failures>>

\* Slip: the id that Mattermost gave the post is not kept.
PostAttachmentWithoutId(r) ==
  /\ At(r, "post")
  /\ \E p \in Unused :
       /\ screen' = [screen EXCEPT ![p] = req[r].show]
       /\ Begin(r, "save", req[r].game, NoPost, Idle.show)
  /\ UNCHANGED <<status, scoreVars, postOf, dialogs, announced, failures>>

PostAttachment(r) ==
  /\ At(r, "post")
  /\ \E p \in Unused :
       /\ screen' = [screen EXCEPT ![p] = req[r].show]
       /\ Begin(r, "save", req[r].game, p, Idle.show)
  /\ UNCHANGED <<status, scoreVars, postOf, dialogs, announced, failures>>

\* Slip: post_id is only written while it is NULL.
SaveFirstPostId(r) ==
  /\ At(r, "save")
  /\ postOf' = [postOf EXCEPT ![req[r].game] = IF @ = NoPost THEN req[r].post ELSE @]
  /\ Return(r)
  /\ UNCHANGED <<status, scoreVars, screen, dialogs, announced, failures>>

UpdateGamePostID(r) ==
  /\ At(r, "save")
  /\ postOf' = [postOf EXCEPT ![req[r].game] =
       IF status[req[r].game] = "discarded" THEN @ ELSE req[r].post]
  /\ Return(r)
  /\ UNCHANGED <<status, scoreVars, screen, dialogs, announced, failures>>

\* A request that stops between two calls.
Fail(r) ==
  /\ ~At(r, "idle")
  /\ failures < MaxFailures
  /\ failures' = failures + 1
  /\ Return(r)
  /\ UNCHANGED <<status, scoreVars, postVars>>

Next ==
  \/ \E g \in GameId : DeletePlayer(g)
  \/ \E r \in Slot :
       \/ \E p \in PostId : \/ EditLast(r, p) \/ ConfirmEdit(r, p)
                            \/ EndPrompt(r, p) \/ ConfirmEnd(r, p)
                            \/ Cancel(r, p) \/ OpenScoreDialog(r, p)
       \/ \E d \in dialogs : SubmitScore(r, d)
       \/ \E g \in GameId : LoadGame(r, g)
       \/ Repost(r) \/ StartGame(r)
       \/ End(r) \/ Announce(r) \/ Render(r) \/ Respond(r) \/ InsertScore(r)
       \/ DeleteOldPost(r) \/ CreateGame(r) \/ ReadBoard(r)
       \/ PostAttachment(r) \/ UpdateGamePostID(r) \/ Fail(r)

Spec == Init /\ [][Next]_vars

-----------------------------------------------------------------------------
(* Properties *)

Quiet == \A r \in Slot : At(r, "idle")

Controls(g) == {p \in PostId : screen[p].kind \in Live /\ screen[p].game = g}

Over(g) == status[g] \in Ending

\* The end of a game is announced at most once and only when it has ended,
\* however often, however concurrently it is confirmed and whatever fails
\* ("do NOT re-post the announcement", endConfirm).
AnnouncedOnce ==
  \A g \in GameId : announced[g] <= 1 /\ (announced[g] = 1 => Over(g))

\* While the owner does one thing at a time, a game is driven from one post
\* ("so only one live board drives the game"); a failed call leaves at most one
\* more behind: the old post that was not deleted, or the new one whose id was
\* not saved.
OneLiveBoard ==
  Quiet => \A g \in UnfinishedGames : Cardinality(Controls(g)) <= 1 + failures

\* ... a game that is over shows no controls ("the same benign ended stub with
\* no controls"), except on a post a failed call left behind ...
EndedGamesShowNoControls ==
  Quiet => \A g \in GameId : Over(g) => Cardinality(Controls(g)) <= failures

\* ... and while nothing has failed games.post_id is the post that drives the
\* game, so the next repost or resume replaces that one (UpdateGamePostID).
PostIdDrivesTheGame ==
  Quiet /\ failures = 0 => \A g \in UnfinishedGames : Controls(g) = {postOf[g]}

\* endConfirm is meant to answer a repeated tap as it answered the first ("Both
\* paths are idempotent against a replayed/double-tapped confirm button"): a post
\* that shows the end of a game shows how it ended.
StubsTellTheTruth ==
  \A p \in PostId : screen[p].kind \in Ending => status[screen[p].game] = screen[p].kind

\* What the channel says of an end is how the game ended, also where the tap was
\* repeated, with one exception: a confirm that is repeated after a failed call
\* says "discarded" of a stored result whose top score has fallen below the
\* threshold since (endConfirm decides from the scores of the moment).
EndsAreTold ==
  \A p \in PostId : screen[p].kind \in Ending =>
    LET g == screen[p].game
    IN  \/ status[g] = screen[p].kind
        \/ /\ screen[p].kind = "discarded" /\ status[g] = "finished"
           /\ g \notin reached /\ failures > 0

\* The scores a result was computed from change in two ways only: with a player
\* who is deleted, and, once a call has failed, by an Edit Last prompt on a post
\* it left behind (DeleteScoreEntryByID does not ask whether the game goes on,
\* the score dialog does).
ScoresFrozenWhenOver ==
  [][\A g \in GameId : Over(g) /\ version'[g] # version[g] =>
       \/ DeletePlayer(g)
       \/ failures > 0 /\ \E r \in Slot, p \in PostId :
            screen[p].game = g /\ ConfirmEdit(r, p)]_vars

\* While nothing has failed, the board that drives a game shows its present
\* scores, except those typed since into a dialog that was opened from a post
\* replaced in the meantime: Dialog updates the post the dialog came from, and
\* the board of the game stays behind by just those scores.
LiveBoardIsCurrent ==
  Quiet /\ failures = 0 =>
    \A g \in UnfinishedGames :
      LET s == screen[postOf[g]]
      IN  s.kind = "board" => s.version = version[g] \/ s.version < lateAt[g]

=============================================================================
