-------------------------- MODULE BotSerialProofs --------------------------
(***************************************************************************)
(* What the guards of the screens achieve while the owner does one thing   *)
(* at a time, for any number of players, games and points: whatever fails  *)
(* half-way and whichever old button is tapped.  What a handler has read   *)
(* still holds when it writes, because nobody writes in between; Fresh     *)
(* says so for each step, and every theorem here follows from it.          *)
(***************************************************************************)
EXTENDS ScoreProofs

\* There is one slot at most.
OneAtATime == \A r, q \in Slot : r = q

OneGame == \A g, h \in UnfinishedGames : g = h

Ending == {"end_scores", "end_discard", "end_finish"}

\* A request that is about to make its next call.
Fresh(r) ==
  /\ At(r, "start_create") => UnfinishedGames = {}
  /\ req[r].pc \in {"score_member", "score_insert"}
       => status[req[r].game] = "unfinished"
  /\ At(r, "delete_player") => ~IsPlayerInUnfinishedGame(req[r].player)
  /\ req[r].pc \in Ending =>
       /\ req[r].who = members[req[r].game]
       /\ \A p \in req[r].who : req[r].before[p] = rating[p]
  /\ At(r, "end_discard") => MaxScore(req[r].game, req[r].who) < WinThreshold
  /\ At(r, "end_finish") =>
       LET max == MaxScore(req[r].game, req[r].who)
       IN  /\ ~(max < WinThreshold)
           /\ req[r].wins = ScoresAt(req[r].game, req[r].who, max)

SerialInv == Integrity /\ OneGame /\ \A r \in Slot : Fresh(r)

-----------------------------------------------------------------------------
LEMMA SameScores ==
  ASSUME UNCHANGED entries, NEW CONSTANT g, NEW CONSTANT who
  PROVE  /\ MaxScore(g, who)' = MaxScore(g, who)
         /\ ScoresAt(g, who, MaxScore(g, who))' = ScoresAt(g, who, MaxScore(g, who))
<1>1. ASSUME NEW CONSTANT p PROVE GameScore(g, p)' = GameScore(g, p)
  BY SMT DEF GameScore, MapThenSumSet, MapThenFoldSet
<1> QED
  BY <1>1 DEF MaxScore, ScoresAt

\* A handler that has returned has nothing to keep fresh.
LEMMA IdleIsFresh ==
  ASSUME RequestTypeOK, OneAtATime, NEW r \in Slot, Return(r)
  PROVE  \A q \in Slot : Fresh(q)'
<1>1. ASSUME NEW q \in Slot PROVE req'[q].pc = "idle"
  BY <1>1 DEF RequestTypeOK, OneAtATime, Return, Idle
<1> QED
  BY <1>1 DEF Fresh, At, Ending

LEMMA FreshGame ==
  ASSUME SerialInv, OneAtATime, NEW r \in Slot,
         \/ \E e \in entries : ConfirmEdit(r, e)
         \/ \E g \in GameId : ConfirmEnd(r, g)
         \/ \E g \in GameId, p \in PlayerId : SubmitScore(r, g, p)
         \/ CheckScoreMember(r)
         \/ InsertScore(r)
         \/ ReadEndScores(r)
         \/ DiscardEnd(r)
         \/ FinishEnd(r)
         \/ RememberEnd(r)
  PROVE  \A q \in Slot : Fresh(q)'
<1> USE DEF At, Ending
<1>0. RequestTypeOK /\ StoreTypeOK /\ req \in [Slot -> Request] /\ Fresh(r)
  BY DEF SerialInv, Integrity, TypeOK, RequestTypeOK
<1> SUFFICES Fresh(r)'
  BY DEF OneAtATime
<1>1. ASSUME NEW e \in entries, ConfirmEdit(r, e) PROVE Fresh(r)'
  BY <1>1 DEF ConfirmEdit, Fresh
<1>2. ASSUME NEW g \in GameId, ConfirmEnd(r, g) PROVE Fresh(r)'
  <2>1. GamePlayers(g) = members[g]
    BY DEF GamePlayers, SerialInv, Integrity, ReferentialIntegrity
  <2>2. /\ req'[r].pc = "end_scores" /\ req'[r].game = g
        /\ req'[r].who = GamePlayers(g)
        /\ req'[r].before = [p \in PlayerId |->
                               IF p \in GamePlayers(g) THEN rating[p] ELSE <<>>]
        /\ UNCHANGED <<members, rating>>
    BY <1>0, <1>2 DEF ConfirmEnd, Idle, storeVars
  <2> QED
    BY <1>0, <2>1, <2>2 DEF Fresh, StoreTypeOK
<1>3. ASSUME NEW g \in GameId, NEW p \in PlayerId, SubmitScore(r, g, p)
      PROVE  Fresh(r)'
  BY <1>0, <1>3 DEF SubmitScore, Idle, Fresh, storeVars
<1>4. CASE CheckScoreMember(r)
  <2>1. CASE Return(r)
    BY <1>0, <2>1, IdleIsFresh
  <2>2. CASE Goto(r, "score_insert")
    BY <1>0, <1>4, <2>2 DEF CheckScoreMember, Goto, Fresh, storeVars
  <2> QED
    BY <1>4, <2>1, <2>2 DEF CheckScoreMember
<1>5. CASE ReadEndScores(r)
  <2>1. UNCHANGED <<members, rating, entries>>
    BY <1>5 DEF ReadEndScores, storeVars
  <2>2. /\ req[r].pc = "end_scores"
        /\ req'[r].game = req[r].game /\ req'[r].who = req[r].who
        /\ req'[r].before = req[r].before
        /\ req'[r].pc \in {"end_discard", "end_finish"}
        /\ req'[r].pc = "end_discard" =>
             MaxScore(req[r].game, req[r].who) < WinThreshold
        /\ req'[r].pc = "end_finish" =>
             /\ ~(MaxScore(req[r].game, req[r].who) < WinThreshold)
             /\ req'[r].wins = ScoresAt(req[r].game, req[r].who,
                                       MaxScore(req[r].game, req[r].who))
    BY <1>0, <1>5 DEF ReadEndScores, Goto, BelowThreshold, Request
  <2>3. PICK g, who : g = req[r].game /\ who = req[r].who
    OBVIOUS
  <2>4. /\ MaxScore(g, who)' = MaxScore(g, who)
        /\ ScoresAt(g, who, MaxScore(g, who))' = ScoresAt(g, who, MaxScore(g, who))
    BY <2>1, SameScores
  <2>5. /\ req'[r].pc = "end_discard" => MaxScore(g, who)' < WinThreshold
        /\ req'[r].pc = "end_finish" =>
             /\ ~(MaxScore(g, who)' < WinThreshold)
             /\ req'[r].wins = ScoresAt(g, who, MaxScore(g, who))'
    BY <2>2, <2>3, <2>4
  <2> QED
    BY <1>0, <2>1, <2>2, <2>3, <2>5 DEF Fresh
<1>6. CASE FinishEnd(r)
  <2>1. CASE Return(r)
    BY <1>0, <2>1, IdleIsFresh
  <2>2. CASE Goto(r, "end_remember")
    BY <1>0, <2>2 DEF Goto, Fresh
  <2> QED
    BY <1>6, <2>1, <2>2 DEF FinishEnd
<1>7. CASE InsertScore(r) \/ DiscardEnd(r) \/ RememberEnd(r)
  BY <1>0, <1>7, IdleIsFresh DEF InsertScore, DiscardEnd, RememberEnd
<1> QED
  BY <1>1, <1>2, <1>3, <1>4, <1>5, <1>6, <1>7

LEMMA FreshNewGame ==
  ASSUME SerialInv, OneAtATime, NEW r \in Slot,
         \/ \E p \in PlayerId : AddPlayer(r, p)
         \/ \E roster \in SUBSET usedPlayers : StartGame(r, roster)
         \/ CreateStartedGame(r)
         \/ LinkPlayer(r)
         \/ RememberStart(r)
  PROVE  \A q \in Slot : Fresh(q)'
<1> USE DEF At, Ending
<1>0. RequestTypeOK /\ StoreTypeOK /\ req \in [Slot -> Request] /\ Fresh(r)
  BY DEF SerialInv, Integrity, TypeOK, RequestTypeOK
<1> SUFFICES Fresh(r)'
  BY DEF OneAtATime
<1>1. ASSUME NEW p \in PlayerId, AddPlayer(r, p) PROVE Fresh(r)'
  BY <1>1 DEF AddPlayer, Fresh
<1>2. ASSUME NEW roster \in SUBSET usedPlayers, StartGame(r, roster)
      PROVE  Fresh(r)'
  <2>1. req'[r].pc = "start_create" /\ UnfinishedGames' = {}
    BY <1>0, <1>2 DEF StartGame, Idle, storeVars, UnfinishedGames
  <2> QED
    BY <2>1 DEF Fresh
<1>3. CASE CreateStartedGame(r)
  <2>1. PICK g \in GameId :
          req' = [req EXCEPT ![r].pc = "start_add", ![r].game = g]
    BY <1>3 DEF CreateStartedGame
  <2>2. req'[r].pc = "start_add"
    BY <1>0, <2>1 DEF Request
  <2> QED
    BY <2>2 DEF Fresh
<1>4. CASE LinkPlayer(r)
  <2>1. CASE Return(r)
    BY <1>0, <2>1, IdleIsFresh
  <2>2. CASE ~Return(r)
    <3>1. PICK p \in req[r].todo :
            \E pc \in {"start_add", "start_remember"} :
              req' = [req EXCEPT ![r].todo = @ \ {p}, ![r].pc = pc]
      BY <1>4, <2>2 DEF LinkPlayer
    <3>2. req'[r].pc \in {"start_add", "start_remember"}
      BY <1>0, <3>1 DEF Request
    <3> QED
      BY <3>2 DEF Fresh
  <2> QED
    BY <2>1, <2>2
<1>5. CASE RememberStart(r)
  BY <1>0, <1>5, IdleIsFresh DEF RememberStart
<1> QED
  BY <1>1, <1>2, <1>3, <1>4, <1>5

LEMMA FreshPlayers ==
  ASSUME SerialInv, OneAtATime, NEW r \in Slot,
         \/ \E p \in PlayerId : ConfirmDelete(r, p)
         \/ DeletePlayer(r)
         \/ Fail(r)
  PROVE  \A q \in Slot : Fresh(q)'
<1> USE DEF At, Ending
<1>0. RequestTypeOK /\ req \in [Slot -> Request]
  BY DEF SerialInv, Integrity, TypeOK, RequestTypeOK
<1>1. ASSUME NEW p \in PlayerId, ConfirmDelete(r, p) PROVE Fresh(r)'
  <2>1. /\ req'[r].pc = "delete_player" /\ req'[r].player = p
        /\ ~IsPlayerInUnfinishedGame(p)
        /\ UNCHANGED <<status, members>>
    BY <1>0, <1>1 DEF ConfirmDelete, Idle, storeVars
  <2> QED
    BY <2>1 DEF Fresh, IsPlayerInUnfinishedGame, UnfinishedGames
<1> QED
  BY <1>0, <1>1, IdleIsFresh DEF DeletePlayer, Fail, OneAtATime

-----------------------------------------------------------------------------
(* The five steps that matter, and all the others. *)

\* No game appears or ends, no score and no rating row is added, and nobody
\* leaves an unfinished game.
Harmless ==
  /\ \A g \in GameId :
       /\ status'[g] = status[g]
       /\ members[g] \subseteq members'[g]
  /\ entries' \subseteq entries
  /\ history' \subseteq history

LEMMA FiveSteps ==
  ASSUME TypeOK, [Next]_vars
  PROVE  \/ Harmless
         \/ \E r \in Slot : \/ CreateStartedGame(r) \/ InsertScore(r)
                            \/ FinishEnd(r) \/ DiscardEnd(r) \/ DeletePlayer(r)
<1>1. ASSUME UNCHANGED storeVars PROVE Harmless
  BY <1>1 DEF storeVars, Harmless
<1>2. ASSUME NEW r \in Slot, NEW e \in entries, ConfirmEdit(r, e) PROVE Harmless
  BY <1>2 DEF ConfirmEdit, DeleteScoreEntryByID, gameVars, eloVars, Harmless
<1>3. ASSUME NEW r \in Slot, RememberEnd(r) \/ RememberStart(r) PROVE Harmless
  <2>1. ASSUME NEW who, SaveLastPlayers(who) PROVE Harmless
    BY <2>1 DEF SaveLastPlayers, gameVars, entryVars, eloVars, Harmless
  <2> QED
    BY <1>1, <1>3, <2>1 DEF RememberEnd, RememberStart
<1>4. ASSUME NEW r \in Slot, NEW p \in PlayerId, AddPlayer(r, p) PROVE Harmless
  BY <1>4 DEF AddPlayer, CreateOrGetPlayer, gameVars, entryVars, eloVars, Harmless
<1>5. ASSUME NEW r \in Slot, LinkPlayer(r) PROVE Harmless
  <2>1. ASSUME NEW g, NEW p, AddPlayerToGame(g, p) PROVE Harmless
    BY <2>1 DEF AddPlayerToGame, entryVars, eloVars, Harmless, TypeOK, StoreTypeOK
  <2> QED
    BY <1>1, <1>5, <2>1 DEF LinkPlayer
<1> QED
  BY <1>1, <1>2, <1>3, <1>4, <1>5
  DEF Next, GameNext, NewGameNext, PlayersNext, ConfirmEnd, SubmitScore,
      CheckScoreMember, ReadEndScores, StartGame, ConfirmDelete, Fail, vars

LEMMA NextSerial ==
  ASSUME SerialInv, OneAtATime, [Next]_vars
  PROVE  SerialInv'
<1>0. TypeOK /\ Integrity'
  BY NextIntegrity DEF SerialInv, Integrity
<1>1. \A q \in Slot : Fresh(q)'
  <2>1. CASE UNCHANGED vars
    <3>1. UNCHANGED <<status, members, entries, rating, req>>
      BY <2>1 DEF vars, storeVars
    <3>2. ASSUME NEW q \in Slot PROVE Fresh(q)'
      <4>1. PICK g, who : g = req[q].game /\ who = req[q].who
        OBVIOUS
      <4>2. /\ MaxScore(g, who)' = MaxScore(g, who)
            /\ ScoresAt(g, who, MaxScore(g, who))'
                 = ScoresAt(g, who, MaxScore(g, who))
        BY <3>1, SameScores
      <4>3. Fresh(q)
        BY DEF SerialInv
      <4>4. /\ At(q, "end_discard") => MaxScore(g, who)' < WinThreshold
            /\ At(q, "end_finish") =>
                 /\ ~(MaxScore(g, who)' < WinThreshold)
                 /\ req[q].wins = ScoresAt(g, who, MaxScore(g, who))'
        BY <4>1, <4>2, <4>3 DEF Fresh
      <4> QED
        BY <3>1, <4>1, <4>3, <4>4 DEF Fresh, At, UnfinishedGames,
          IsPlayerInUnfinishedGame
    <3> QED
      BY <3>2
  <2> QED
    BY <2>1, FreshGame, FreshNewGame, FreshPlayers
    DEF Next, GameNext, NewGameNext, PlayersNext
<1>2. OneGame'
  <2>1. CASE UnfinishedGames' \subseteq UnfinishedGames
    BY <2>1 DEF SerialInv, OneGame
  <2>2. ASSUME NEW r \in Slot, CreateStartedGame(r) PROVE OneGame'
    <3>1. UnfinishedGames = {}
      BY <2>2 DEF SerialInv, Fresh, CreateStartedGame
    <3>2. PICK g \in GameId : CreateGame(g)
      BY <2>2 DEF CreateStartedGame
    <3>3. UnfinishedGames' \subseteq UnfinishedGames \cup {g}
      BY <1>0, <3>2 DEF CreateGame, UnfinishedGames, TypeOK, StoreTypeOK
    <3> QED
      BY <3>1, <3>3 DEF OneGame
  <2>3. CASE Harmless
    BY <2>1, <2>3 DEF Harmless, UnfinishedGames
  <2>4. ASSUME NEW r \in Slot,
               InsertScore(r) \/ FinishEnd(r) \/ DiscardEnd(r) \/ DeletePlayer(r)
        PROVE  UnfinishedGames' \subseteq UnfinishedGames
    BY <1>0, <2>4 DEF InsertScore, FinishEnd, DiscardEnd, DeletePlayer,
      AddScoreEntry, FinishGameWithWinners, DiscardGame, HardDeletePlayer,
      gameVars, storeVars, UnfinishedGames, TypeOK, StoreTypeOK
  <2> QED
    BY <1>0, <2>1, <2>2, <2>3, <2>4, FiveSteps
<1> QED
  BY <1>0, <1>1, <1>2 DEF SerialInv

LEMMA SerialInvariant ==
  ASSUME OneAtATime
  PROVE  Spec => []SerialInv
<1>1. Init => SerialInv
  <2> SUFFICES ASSUME Init PROVE SerialInv
    OBVIOUS
  <2>1. OneGame
    BY DEF Init, StoreInit, OneGame, UnfinishedGames
  <2>2. \A r \in Slot : req[r].pc = "idle"
    BY DEF Init, RequestInit, Idle
  <2> QED
    BY <2>1, <2>2, InitIntegrity DEF SerialInv, Fresh, At, Ending
<1>2. SerialInv /\ [Next]_vars => SerialInv'
  BY NextSerial
<1> QED
  BY <1>1, <1>2, PTL DEF Spec

-----------------------------------------------------------------------------
(* Theorems: each property needs a look at the step that could break it. *)

\* A channel has at most one unfinished game (the guard of startGame).
THEOREM OneGameAtATime ==
  ASSUME OneAtATime
  PROVE  Spec => []OneUnfinishedGame
<1>1. SerialInv => OneUnfinishedGame
  <2> SUFFICES ASSUME OneGame PROVE Cardinality(UnfinishedGames) <= 1
    BY DEF SerialInv, OneUnfinishedGame
  <2>1. CASE UnfinishedGames = {}
    BY <2>1, FS_EmptySet
  <2>2. ASSUME NEW g \in UnfinishedGames
        PROVE  Cardinality(UnfinishedGames) <= 1
    <3>1. UnfinishedGames = {g}
      BY DEF OneGame
    <3> QED
      BY <3>1, FS_Singleton
  <2> QED
    BY <2>1, <2>2
<1> QED
  BY <1>1, SerialInvariant, PTL

\* Nobody is deleted out of an unfinished game (deleteConfirm's guard).
THEOREM NobodyLeavesAGame ==
  ASSUME OneAtATime
  PROVE  Spec => PlayersStayInGame
<1> DEFINE Stay == \A g \in GameId : status'[g] = "unfinished" =>
                     members[g] \subseteq members'[g]
<1>1. ASSUME SerialInv, [Next]_vars PROVE Stay
  <2>0. TypeOK
    BY <1>1 DEF SerialInv, Integrity
  <2>1. ASSUME NEW r \in Slot, DeletePlayer(r) PROVE Stay
    <3>1. ~IsPlayerInUnfinishedGame(req[r].player)
      BY <1>1, <2>1 DEF SerialInv, Fresh, DeletePlayer
    <3> QED
      BY <2>1, <3>1 DEF DeletePlayer, HardDeletePlayer, UnfinishedGames,
        IsPlayerInUnfinishedGame
  <2>2. ASSUME NEW r \in Slot, DiscardEnd(r) PROVE Stay
    BY <2>0, <2>2 DEF DiscardEnd, DiscardGame, storeVars, TypeOK, StoreTypeOK
  <2>3. ASSUME NEW r \in Slot,
               CreateStartedGame(r) \/ InsertScore(r) \/ FinishEnd(r)
        PROVE  members' = members
    BY <2>3 DEF CreateStartedGame, CreateGame, InsertScore, AddScoreEntry,
      FinishEnd, FinishGameWithWinners, gameVars, storeVars
  <2> QED
    BY <1>1, <2>0, <2>1, <2>2, <2>3, FiveSteps DEF Harmless
<1>2. SerialInv /\ [Next]_vars => [Stay]_vars
  BY <1>1
<1> QED
  BY <1>2, SerialInvariant, PTL DEF Spec, PlayersStayInGame

\* Nothing is scored in a game that is over (the guard of the score dialog).
THEOREM NothingScoredAfterwards ==
  ASSUME OneAtATime
  PROVE  Spec => ScoresOnlyWhileUnfinished
<1> DEFINE Open == \A e \in entries' \ entries : status[e.game] = "unfinished"
<1>1. ASSUME SerialInv, [Next]_vars PROVE Open
  <2>0. TypeOK
    BY <1>1 DEF SerialInv, Integrity
  <2>1. ASSUME NEW r \in Slot, InsertScore(r) PROVE Open
    <3>1. status[req[r].game] = "unfinished"
      BY <1>1, <2>1 DEF SerialInv, Fresh, InsertScore, At
    <3> QED
      BY <2>1, <3>1 DEF InsertScore, AddScoreEntry, storeVars
  <2>2. ASSUME NEW r \in Slot,
               CreateStartedGame(r) \/ FinishEnd(r) \/ DiscardEnd(r)
                 \/ DeletePlayer(r)
        PROVE  entries' \subseteq entries
    BY <2>2 DEF CreateStartedGame, CreateGame, FinishEnd, DiscardEnd,
      DeletePlayer, FinishGameWithWinners, DiscardGame, HardDeletePlayer,
      entryVars, storeVars
  <2> QED
    BY <1>1, <2>0, <2>1, <2>2, FiveSteps DEF Harmless
<1>2. SerialInv /\ [Next]_vars => [Open]_vars
  BY <1>1
<1> QED
  BY <1>2, SerialInvariant, PTL DEF Spec, ScoresOnlyWhileUnfinished

\* What an update is computed from is what the players have when it is stored:
\* the update of another game is not lost (endConfirm, FinishGameWithWinners).
THEOREM NoUpdateIsLost ==
  ASSUME OneAtATime
  PROVE  Spec => NoEloUpdateLost
<1> DEFINE Current == \A h \in history' \ history : h.before = rating[h.player]
<1>1. ASSUME SerialInv, [Next]_vars PROVE Current
  <2>0. TypeOK
    BY <1>1 DEF SerialInv, Integrity
  <2>1. ASSUME NEW r \in Slot, FinishEnd(r) PROVE Current
    <3>1. \A p \in req[r].who : req[r].before[p] = rating[p]
      BY <1>1, <2>1 DEF SerialInv, Fresh, FinishEnd, At, Ending
    <3>2. \/ history' = history
          \/ history' = history \cup
               TrailRows(req[r].game, req[r].who, req[r].before)
      BY <2>1 DEF FinishEnd, FinishGameWithWinners, storeVars
    <3> QED
      BY <3>1, <3>2, TrailRowsFacts
  <2>2. ASSUME NEW r \in Slot,
               CreateStartedGame(r) \/ InsertScore(r) \/ DiscardEnd(r)
                 \/ DeletePlayer(r)
        PROVE  history' \subseteq history
    BY <2>2 DEF CreateStartedGame, CreateGame, InsertScore, AddScoreEntry,
      DiscardEnd, DeletePlayer, DiscardGame, HardDeletePlayer, eloVars,
      storeVars
  <2> QED
    BY <1>1, <2>0, <2>1, <2>2, FiveSteps DEF Harmless
<1>2. SerialInv /\ [Next]_vars => [Current]_vars
  BY <1>1
<1> QED
  BY <1>2, SerialInvariant, PTL DEF Spec, NoEloUpdateLost

\* When a game ends, it is FinishEnd or DiscardEnd that ends it.
LEMMA WhoEnds ==
  ASSUME TypeOK, [Next]_vars, NEW g \in GameId, NEW how, Ends(g, how),
         how \in {"finished", "discarded"}
  PROVE  \E r \in Slot :
           /\ req[r].game = g
           /\ how = "finished" => FinishEnd(r) /\ FinishApplies(g)
           /\ how = "discarded" => DiscardEnd(r)
<1>1. status[g] = "unfinished" /\ status'[g] = how
  BY DEF Ends
<1>2. ~Harmless
  BY <1>1 DEF Harmless
<1>3. ASSUME NEW r \in Slot,
             CreateStartedGame(r) \/ InsertScore(r) \/ DeletePlayer(r)
      PROVE  FALSE
  BY <1>1, <1>3 DEF CreateStartedGame, CreateGame, InsertScore, AddScoreEntry,
    DeletePlayer, HardDeletePlayer, gameVars, storeVars, TypeOK, StoreTypeOK
<1>4. ASSUME NEW r \in Slot, FinishEnd(r)
      PROVE  req[r].game = g /\ how = "finished" /\ FinishApplies(g)
  BY <1>1, <1>4 DEF FinishEnd, FinishGameWithWinners, FinishApplies, storeVars,
    TypeOK, StoreTypeOK
<1>5. ASSUME NEW r \in Slot, DiscardEnd(r)
      PROVE  req[r].game = g /\ how = "discarded"
  BY <1>1, <1>5 DEF DiscardEnd, DiscardGame, storeVars, TypeOK, StoreTypeOK
<1> QED
  BY <1>2, <1>3, <1>4, <1>5, FiveSteps

\* Every participant of a game that finishes gets his rating row.
THEOREM EverybodyIsRated ==
  ASSUME OneAtATime
  PROVE  Spec => EveryParticipantRated
<1> DEFINE Rated == \A g \in GameId : Ends(g, "finished") =>
                      \A p \in members[g] :
                        \E h \in history' : h.game = g /\ h.player = p
<1>1. ASSUME SerialInv, [Next]_vars PROVE Rated
  <2> SUFFICES ASSUME NEW g \in GameId, Ends(g, "finished"),
                      NEW p \in members[g]
               PROVE  \E h \in history' : h.game = g /\ h.player = p
    OBVIOUS
  <2>1. TypeOK
    BY <1>1 DEF SerialInv, Integrity
  <2>2. PICK r \in Slot : req[r].game = g /\ FinishEnd(r) /\ FinishApplies(g)
    BY <1>1, <2>1, WhoEnds
  <2>3. req[r].who = members[g]
    BY <1>1, <2>2 DEF SerialInv, Fresh, FinishEnd, At, Ending
  <2>4. history' = history \cup TrailRows(g, req[r].who, req[r].before)
        \/ status' = status
    BY <2>2 DEF FinishEnd, FinishGameWithWinners, storeVars
  <2>5. status' # status
    BY DEF Ends
  <2> QED
    BY <2>3, <2>4, <2>5, TrailRowsFacts
<1>2. SerialInv /\ [Next]_vars => [Rated]_vars
  BY <1>1
<1> QED
  BY <1>2, SerialInvariant, PTL DEF Spec, EveryParticipantRated

\* A game is only discarded while nobody has reached the threshold.
THEOREM DiscardsAreBelowThreshold ==
  ASSUME OneAtATime
  PROVE  Spec => DiscardOnlyBelowThreshold
<1> DEFINE Below == \A g \in GameId : Ends(g, "discarded") =>
                      MaxScore(g, members[g]) < WinThreshold
<1>1. ASSUME SerialInv, [Next]_vars PROVE Below
  <2> SUFFICES ASSUME NEW g \in GameId, Ends(g, "discarded")
               PROVE  MaxScore(g, members[g]) < WinThreshold
    OBVIOUS
  <2>1. TypeOK
    BY <1>1 DEF SerialInv, Integrity
  <2>2. PICK r \in Slot : req[r].game = g /\ DiscardEnd(r)
    BY <1>1, <2>1, WhoEnds
  <2> QED
    BY <1>1, <2>2 DEF SerialInv, Fresh, DiscardEnd, At, Ending
<1>2. SerialInv /\ [Next]_vars => [Below]_vars
  BY <1>1
<1> QED
  BY <1>2, SerialInvariant, PTL DEF Spec, DiscardOnlyBelowThreshold

\* Whoever wins a game has its highest score, whoever has it wins, and it has
\* reached the threshold (endConfirm, winnerIDs).
THEOREM WinnersAreTheTopScorers ==
  ASSUME OneAtATime, IsFiniteSet(InitPlayers)
  PROVE  Spec => WinnersAreTopScorers
<1> DEFINE Top == \A g \in GameId : Ends(g, "finished") =>
                    /\ winners'[g] = TopScorers(g)
                    /\ MaxScore(g, members[g]) >= WinThreshold
<1>1. ASSUME SerialInv, StatsInv, PlayersAreFinite, [Next]_vars PROVE Top
  <2> SUFFICES ASSUME NEW g \in GameId, Ends(g, "finished")
               PROVE  /\ winners'[g] = TopScorers(g)
                      /\ MaxScore(g, members[g]) >= WinThreshold
    OBVIOUS
  <2>0. TypeOK /\ ReferentialIntegrity /\ StoreTypeOK /\ IsFiniteSet(entries)
    BY <1>1 DEF SerialInv, Integrity, TypeOK, StatsInv, BooksAreFinite
  <2>1. PICK r \in Slot : req[r].game = g /\ FinishEnd(r) /\ FinishApplies(g)
    BY <1>1, <2>0, WhoEnds
  <2> DEFINE who == members[g]
             max == MaxScore(g, who)
             scores == {GameScore(g, p) : p \in who} \cup {0}
  <2>2. ~(max < WinThreshold) /\ req[r].wins = ScoresAt(g, who, max)
    BY <1>1, <2>1 DEF SerialInv, Fresh, FinishEnd, At, Ending
  <2>3. winners'[g] = ScoresAt(g, who, max)
    <3>1. FinishAccepted(g, req[r].who)
      BY <2>1 DEF FinishEnd, Ends, storeVars
    <3>2. winners' = [winners EXCEPT ![g] = req[r].wins]
      BY <2>1, <3>1 DEF FinishEnd, FinishGameWithWinners
    <3> QED
      BY <2>0, <2>2, <3>2 DEF StoreTypeOK
  <2>4. /\ IsFiniteSet(scores)
        /\ scores \subseteq Nat /\ scores # {}
    <3>1. IsFiniteSet(who)
      BY <1>1, <2>0, MembersAreFinite
    <3> HIDE DEF who
    <3> QED
      BY <2>0, <3>1, ScoresAreFinite
  <2>5. max \in scores /\ \A y \in scores : max >= y
    <3>1. max = Max(scores)
      BY DEF MaxScore
    <3> HIDE DEF max, scores
    <3> QED
      BY <2>4, <3>1, MaxIsLargest
  <2>6. max >= WinThreshold /\ max # 0
    <3> HIDE DEF max, scores
    <3> QED
      BY <2>2, <2>4, <2>5, StoreAssumption
  <2>7. \E p \in who : GameScore(g, p) = max
    <3> HIDE DEF max
    <3> QED
      BY <2>5, <2>6
  <2>8. \A p \in who : GameScore(g, p) \in Nat /\ GameScore(g, p) <= max
    <3>1. \A p \in who : GameScore(g, p) \in scores
      OBVIOUS
    <3> HIDE DEF max, scores
    <3> QED
      BY <2>4, <2>5, <3>1
  <2>9. ScoresAt(g, who, max) = TopScorers(g)
    <3> HIDE DEF max
    <3> QED
      BY <2>7, <2>8 DEF ScoresAt, TopScorers
  <2> QED
    BY <2>3, <2>6, <2>9
<1>2. SerialInv /\ StatsInv /\ PlayersAreFinite /\ [Next]_vars => [Top]_vars
  BY <1>1
<1> QED
  BY <1>2, SerialInvariant, StatsInvariant, FinitePlayersInvariant, PTL
  DEF Spec, WinnersAreTopScorers

=============================================================================
