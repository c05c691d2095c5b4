----------------------------- MODULE BotProofs -----------------------------
(***************************************************************************)
(* Machine-checked proofs about Bot, for any sets of players, games and    *)
(* slots, any points and any threshold: its types; its safety invariants,  *)
(* for any number of overlapping requests and whatever fails; and that it  *)
(* implements the book of Ledger.  Integrity is the inductive invariant    *)
(* about rows and results; Accounting, further down, adds what the ratings *)
(* need.                                                                   *)
(***************************************************************************)
EXTENDS Bot, SequenceTheorems, TLAPS

(* Type correctness *)

LEMMA RatingAfterType ==
  ASSUME NEW g \in GameId, NEW who, NEW s \in Rating
  PROVE  RatingAfter(g, who, s) \in Rating
  BY AppendProperties DEF RatingAfter, Rating

LEMMA IdleType == Idle \in Request
  BY DEF Idle, Request, PC, Rating

LEMMA InitTypeOK == Init => TypeOK
  BY IdleType, StoreAssumption
  DEF Init, StoreInit, RequestInit, TypeOK, StoreTypeOK, RequestTypeOK,
      Status, Rating, Idle, NamesGame, NamesPlayer

LEMMA UnchangedTypeOK == TypeOK /\ UNCHANGED vars => TypeOK'
  BY DEF TypeOK, StoreTypeOK, RequestTypeOK, vars, storeVars
(* Each statement of the database keeps the types of its tables. *)

LEMMA CreatePlayerType ==
  ASSUME StoreTypeOK, NEW p \in PlayerId, CreateOrGetPlayer(p)
  PROVE  StoreTypeOK'
  BY DEF StoreTypeOK, CreateOrGetPlayer, gameVars, entryVars, eloVars

LEMMA CreateGameType ==
  ASSUME StoreTypeOK, NEW g \in GameId, CreateGame(g)
  PROVE  StoreTypeOK'
  BY DEF StoreTypeOK, CreateGame, playerVars, entryVars, eloVars, Status

LEMMA AddPlayerType ==
  ASSUME StoreTypeOK, NEW g \in GameId, NEW p \in PlayerId,
         AddPlayerToGame(g, p)
  PROVE  StoreTypeOK'
  BY DEF StoreTypeOK, AddPlayerToGame, playerVars, entryVars, eloVars

LEMMA AddScoreType ==
  ASSUME StoreTypeOK, NEW g \in GameId, NEW p \in PlayerId,
         NEW pts \in Points, AddScoreEntry(g, p, pts)
  PROVE  StoreTypeOK'
  BY DEF StoreTypeOK, AddScoreEntry, Entry, playerVars, gameVars, eloVars

LEMMA DeleteScoreType ==
  ASSUME StoreTypeOK, NEW g, NEW id, DeleteScoreEntryByID(g, id)
  PROVE  StoreTypeOK'
  BY DEF StoreTypeOK, DeleteScoreEntryByID, playerVars, gameVars, eloVars

LEMMA TrailRowsType ==
  ASSUME historySeq \in Nat, NEW g \in GameId, NEW who \in SUBSET PlayerId,
         NEW before \in [PlayerId -> Rating]
  PROVE  TrailRows(g, who, before) \subseteq HistoryRow
  BY RatingAfterType DEF TrailRows, HistoryRow

LEMMA FinishType ==
  ASSUME StoreTypeOK, NEW g \in GameId, NEW who \in SUBSET PlayerId,
         NEW wins \in SUBSET PlayerId,
         NEW before \in [PlayerId -> Rating],
         FinishGameWithWinners(g, who, wins, before)
  PROVE  StoreTypeOK'
<1>1. CASE FinishApplies(g)
  <2> USE <1>1 DEF FinishGameWithWinners
  <2>1. status' \in [GameId -> Status] /\ winners' \in [GameId -> SUBSET PlayerId]
    BY DEF StoreTypeOK, Status
  <2>2. primary' \in [GameId -> PlayerId \cup {NoPlayer}]
    BY DEF StoreTypeOK
  <2>3. historySeq' \in Nat /\ history' \subseteq HistoryRow
    BY TrailRowsType DEF StoreTypeOK
  <2>4. rating' \in [PlayerId -> Rating]
    BY RatingAfterType DEF StoreTypeOK
  <2> QED
    BY <2>1, <2>2, <2>3, <2>4 DEF StoreTypeOK, playerVars, entryVars
<1>2. CASE ~FinishApplies(g)
  BY <1>2 DEF FinishGameWithWinners, StoreTypeOK, storeVars
<1> QED
  BY <1>1, <1>2

LEMMA DiscardType ==
  ASSUME StoreTypeOK, NEW g \in GameId, DiscardGame(g)
  PROVE  StoreTypeOK'
  BY DEF StoreTypeOK, DiscardGame, Status, playerVars, eloVars, storeVars

LEMMA DeletePlayerType ==
  ASSUME StoreTypeOK, NEW p \in PlayerId, HardDeletePlayer(p)
  PROVE  StoreTypeOK'
  BY DEF StoreTypeOK, HardDeletePlayer, ForgetPrimary, Rating

LEMMA SaveLastType ==
  ASSUME StoreTypeOK, NEW who \in SUBSET PlayerId, SaveLastPlayers(who)
  PROVE  StoreTypeOK'
  BY DEF StoreTypeOK, SaveLastPlayers, playerVars, gameVars, entryVars, eloVars

LEMMA UnchangedStoreType ==
  ASSUME StoreTypeOK, UNCHANGED storeVars
  PROVE  StoreTypeOK'
  BY DEF StoreTypeOK, storeVars
(* Each handler step keeps the types of the tables and of its own locals. *)

LEMMA ReturnType ==
  ASSUME RequestTypeOK, NEW r \in Slot, Return(r)
  PROVE  RequestTypeOK'
  BY IdleType DEF RequestTypeOK, Return, Idle, NamesGame, NamesPlayer

\* A handler that stays with the objects it named goes on to another step.
LEMMA GotoType ==
  ASSUME RequestTypeOK, NEW r \in Slot, NEW pc \in PC, Goto(r, pc),
         pc \in NamesGame => req[r].pc \in NamesGame,
         pc \in NamesPlayer => req[r].pc \in NamesPlayer
  PROVE  RequestTypeOK'
  BY DEF RequestTypeOK, Goto, Request

LEMMA GameTypeOK == TypeOK /\ GameNext => TypeOK'
<1> SUFFICES ASSUME TypeOK, NEW r \in Slot,
                    \/ \E e \in entries : ConfirmEdit(r, e)
                    \/ \E g \in GameId : ConfirmEnd(r, g)
                    \/ \E g \in GameId, p \in PlayerId : SubmitScore(r, g, p)
                    \/ CheckScoreMember(r)
                    \/ InsertScore(r)
                    \/ ReadEndScores(r)
                    \/ DiscardEnd(r)
                    \/ FinishEnd(r)
                    \/ RememberEnd(r)
             PROVE  TypeOK'
  BY DEF GameNext
<1> USE DEF TypeOK, At
<1>0. /\ req[r] \in Request
      /\ req[r].pc \in NamesGame => req[r].game \in GameId
      /\ req[r].pc \in NamesPlayer => req[r].player \in PlayerId
      /\ req[r].who \in SUBSET PlayerId /\ req[r].wins \in SUBSET PlayerId
      /\ req[r].before \in [PlayerId -> Rating]
  BY DEF RequestTypeOK, Request
<1>1. ASSUME NEW e \in entries, ConfirmEdit(r, e) PROVE TypeOK'
  BY <1>1, DeleteScoreType DEF ConfirmEdit, RequestTypeOK
<1>2. ASSUME NEW g \in GameId, ConfirmEnd(r, g) PROVE TypeOK'
  <2>1. [p \in PlayerId |-> IF p \in GamePlayers(g) THEN rating[p] ELSE <<>>]
          \in [PlayerId -> Rating]
    BY DEF StoreTypeOK, Rating
  <2>2. GamePlayers(g) \in SUBSET PlayerId
    BY DEF StoreTypeOK, GamePlayers
  <2>3. RequestTypeOK'
    BY <1>2, <2>1, <2>2, IdleType
    DEF ConfirmEnd, RequestTypeOK, Request, Idle, PC, NamesPlayer
  <2> QED
    BY <1>2, <2>3, UnchangedStoreType DEF ConfirmEnd
<1>3. ASSUME NEW g \in GameId, NEW p \in PlayerId, SubmitScore(r, g, p)
      PROVE  TypeOK'
  <2>1. RequestTypeOK'
    BY <1>3, IdleType DEF SubmitScore, RequestTypeOK, Request, Idle, PC
  <2> QED
    BY <1>3, <2>1, UnchangedStoreType DEF SubmitScore
<1>4. CASE CheckScoreMember(r)
  BY <1>4, GotoType, ReturnType, UnchangedStoreType
  DEF CheckScoreMember, PC, NamesGame, NamesPlayer
<1>5. CASE InsertScore(r)
  <2>1. RequestTypeOK'
    BY <1>5, ReturnType DEF InsertScore
  <2>2. PICK pts \in Points :
          IF AddScoreAccepted(req[r].game, req[r].player)
          THEN AddScoreEntry(req[r].game, req[r].player, pts)
          ELSE UNCHANGED storeVars
    BY <1>5 DEF InsertScore
  <2>3. req[r].game \in GameId /\ req[r].player \in PlayerId
    BY <1>5, <1>0 DEF InsertScore, PC, NamesGame, NamesPlayer
  <2> QED
    BY <2>1, <2>2, <2>3, AddScoreType, UnchangedStoreType
<1>6. CASE ReadEndScores(r)
  <2>1. ScoresAt(req[r].game, req[r].who, MaxScore(req[r].game, req[r].who))
          \in SUBSET PlayerId
    BY <1>0 DEF ScoresAt
  <2>2. RequestTypeOK'
    BY <1>6, <1>0, <2>1
    DEF ReadEndScores, Goto, RequestTypeOK, Request, PC, NamesGame, NamesPlayer
  <2> QED
    BY <1>6, <2>2, UnchangedStoreType DEF ReadEndScores
<1>7. CASE DiscardEnd(r)
  <2>1. req[r].game \in GameId
    BY <1>7, <1>0 DEF DiscardEnd, PC, NamesGame
  <2> QED
    BY <1>7, <2>1, DiscardType, ReturnType DEF DiscardEnd
<1>8. CASE FinishEnd(r)
  <2>1. req[r].game \in GameId
    BY <1>8, <1>0 DEF FinishEnd, PC, NamesGame
  <2>2. RequestTypeOK'
    BY <1>8, ReturnType, GotoType DEF FinishEnd, PC, NamesGame, NamesPlayer
  <2>3. StoreTypeOK'
    BY <1>8, <1>0, <2>1, FinishType, UnchangedStoreType DEF FinishEnd
  <2> QED
    BY <2>2, <2>3
<1>9. CASE RememberEnd(r)
  BY <1>9, <1>0, ReturnType, SaveLastType, UnchangedStoreType DEF RememberEnd
<1> QED
  BY <1>1, <1>2, <1>3, <1>4, <1>5, <1>6, <1>7, <1>8, <1>9

LEMMA NewGameTypeOK == TypeOK /\ NewGameNext => TypeOK'
<1> SUFFICES ASSUME TypeOK, NEW r \in Slot,
                    \/ \E p \in PlayerId : AddPlayer(r, p)
                    \/ \E roster \in SUBSET usedPlayers : StartGame(r, roster)
                    \/ CreateStartedGame(r)
                    \/ LinkPlayer(r)
                    \/ RememberStart(r)
             PROVE  TypeOK'
  BY DEF NewGameNext
<1> USE DEF TypeOK, At
<1>0. /\ req[r] \in Request
      /\ req[r].pc \in NamesGame => req[r].game \in GameId
      /\ req[r].who \in SUBSET PlayerId /\ req[r].todo \in SUBSET PlayerId
  BY DEF RequestTypeOK, Request
<1>1. ASSUME NEW p \in PlayerId, AddPlayer(r, p) PROVE TypeOK'
  BY <1>1, CreatePlayerType DEF AddPlayer, RequestTypeOK
<1>2. ASSUME NEW roster \in SUBSET usedPlayers, StartGame(r, roster)
      PROVE  TypeOK'
  <2>1. roster \in SUBSET PlayerId
    BY DEF StoreTypeOK
  <2>2. RequestTypeOK'
    BY <1>2, <2>1, IdleType
    DEF StartGame, RequestTypeOK, Request, Idle, PC, NamesGame, NamesPlayer
  <2> QED
    BY <1>2, <2>2, UnchangedStoreType DEF StartGame
<1>3. CASE CreateStartedGame(r)
  <2>1. PICK g \in GameId :
          /\ CreateGame(g)
          /\ req' = [req EXCEPT ![r].pc = "start_add", ![r].game = g]
    BY <1>3 DEF CreateStartedGame
  <2>2. RequestTypeOK'
    BY <2>1, <1>0 DEF RequestTypeOK, Request, PC, NamesPlayer
  <2> QED
    BY <2>1, <2>2, CreateGameType
<1>4. CASE LinkPlayer(r)
  <2>1. PICK p \in req[r].todo :
          IF AddPlayerAccepted(req[r].game, p)
          THEN /\ AddPlayerToGame(req[r].game, p)
               /\ req' = [req EXCEPT
                    ![r].todo = @ \ {p},
                    ![r].pc = IF req[r].todo = {p} THEN "start_remember" ELSE @]
          ELSE UNCHANGED storeVars /\ Return(r)
    BY <1>4 DEF LinkPlayer
  <2>2. req[r].game \in GameId /\ p \in PlayerId
    BY <1>4, <1>0 DEF LinkPlayer, PC, NamesGame
  <2>3. CASE AddPlayerAccepted(req[r].game, p)
    <3> DEFINE pc == IF req[r].todo = {p} THEN "start_remember" ELSE "start_add"
    <3>1. req' = [req EXCEPT ![r] =
                   [req[r] EXCEPT !.todo = req[r].todo \ {p}, !.pc = pc]]
      BY <1>4, <2>1, <2>3 DEF LinkPlayer, RequestTypeOK, Request
    <3>2. /\ pc \in PC /\ pc \in NamesGame /\ pc \notin NamesPlayer
          /\ req[r].todo \ {p} \in SUBSET PlayerId
      BY <1>0 DEF PC, NamesGame, NamesPlayer
    <3> HIDE DEF pc
    <3>3. [req[r] EXCEPT !.todo = req[r].todo \ {p}, !.pc = pc] \in Request
      BY <1>0, <3>2 DEF Request
    <3>4. RequestTypeOK'
      BY <2>2, <3>1, <3>2, <3>3 DEF RequestTypeOK, Request
    <3> QED
      BY <2>1, <2>2, <2>3, <3>4, AddPlayerType
  <2>4. CASE ~AddPlayerAccepted(req[r].game, p)
    BY <2>1, <2>4, ReturnType, UnchangedStoreType
  <2> QED
    BY <2>3, <2>4
<1>5. CASE RememberStart(r)
  BY <1>5, <1>0, ReturnType, SaveLastType, UnchangedStoreType DEF RememberStart
<1> QED
  BY <1>1, <1>2, <1>3, <1>4, <1>5

LEMMA PlayersTypeOK == TypeOK /\ PlayersNext => TypeOK'
<1> SUFFICES ASSUME TypeOK, NEW r \in Slot,
                    \/ \E p \in PlayerId : ConfirmDelete(r, p)
                    \/ DeletePlayer(r)
             PROVE  TypeOK'
  BY DEF PlayersNext
<1> USE DEF TypeOK, At
<1>1. ASSUME NEW p \in PlayerId, ConfirmDelete(r, p) PROVE TypeOK'
  <2>1. RequestTypeOK'
    BY <1>1, IdleType
    DEF ConfirmDelete, RequestTypeOK, Request, Idle, PC, NamesGame
  <2> QED
    BY <1>1, <2>1, UnchangedStoreType DEF ConfirmDelete
<1>2. CASE DeletePlayer(r)
  <2>1. req[r].player \in PlayerId
    BY <1>2 DEF DeletePlayer, RequestTypeOK, NamesPlayer
  <2> QED
    BY <1>2, <2>1, DeletePlayerType, ReturnType DEF DeletePlayer
<1> QED
  BY <1>1, <1>2

LEMMA NextTypeOK == TypeOK /\ [Next]_vars => TypeOK'
<1>1. ASSUME TypeOK, NEW r \in Slot, Fail(r) PROVE TypeOK'
  BY <1>1, ReturnType, UnchangedStoreType DEF Fail, TypeOK
<1> QED
  BY <1>1, GameTypeOK, NewGameTypeOK, PlayersTypeOK, UnchangedTypeOK DEF Next

\* Every table and every local of a handler keeps its type, and a handler that
\* has reached a statement about a game or a player has one in its locals.
THEOREM TypeCorrect == Spec => []TypeOK
<1>1. Init => TypeOK
  BY InitTypeOK
<1>2. TypeOK /\ [Next]_vars => TypeOK'
  BY NextTypeOK
<1> QED
  BY <1>1, <1>2, PTL DEF Spec

-----------------------------------------------------------------------------
(* Safety for any number of slots *)

\* endConfirm picks the winners among the players it has read.
WinnersWereRead == \A r \in Slot : req[r].wins \subseteq req[r].who

Integrity ==
  TypeOK /\ ReferentialIntegrity /\ ResultOnlyWhenFinished /\ WinnersWereRead

-----------------------------------------------------------------------------
(* Rows and results: one lemma per statement, under the condition its call *)
(* is accepted.                                                            *)

RowsOK == StoreTypeOK /\ ReferentialIntegrity /\ ResultOnlyWhenFinished

LEMMA UnchangedRows ==
  ASSUME RowsOK, UNCHANGED storeVars
  PROVE  RowsOK'
  BY UnchangedStoreType
  DEF RowsOK, ReferentialIntegrity, ResultOnlyWhenFinished, GameRow, storeVars

LEMMA CreatePlayerRows ==
  ASSUME RowsOK, NEW p \in PlayerId, CreateOrGetPlayer(p)
  PROVE  RowsOK'
  BY CreatePlayerType
  DEF RowsOK, ReferentialIntegrity, ResultOnlyWhenFinished, GameRow,
      CreateOrGetPlayer, gameVars, entryVars, eloVars

LEMMA CreateGameRows ==
  ASSUME RowsOK, NEW g \in GameId, CreateGame(g)
  PROVE  RowsOK'
<1>1. ReferentialIntegrity'
  BY DEF RowsOK, StoreTypeOK, ReferentialIntegrity, GameRow, CreateGame,
         playerVars, entryVars, eloVars
<1>2. ResultOnlyWhenFinished'
  BY DEF RowsOK, StoreTypeOK, ResultOnlyWhenFinished, CreateGame, eloVars,
         HistoryRow
<1> QED
  BY <1>1, <1>2, CreateGameType DEF RowsOK

LEMMA AddPlayerRows ==
  ASSUME RowsOK, NEW g \in GameId, NEW p \in PlayerId,
         AddPlayerAccepted(g, p), AddPlayerToGame(g, p)
  PROVE  RowsOK'
  BY AddPlayerType
  DEF RowsOK, StoreTypeOK, ReferentialIntegrity, ResultOnlyWhenFinished,
      GameRow, AddPlayerAccepted, AddPlayerToGame, playerVars, entryVars, eloVars

LEMMA AddScoreRows ==
  ASSUME RowsOK, NEW g \in GameId, NEW p \in PlayerId, NEW pts \in Points,
         AddScoreAccepted(g, p), AddScoreEntry(g, p, pts)
  PROVE  RowsOK'
  BY AddScoreType
  DEF RowsOK, ReferentialIntegrity, ResultOnlyWhenFinished, GameRow,
      AddScoreAccepted, AddScoreEntry, playerVars, gameVars, eloVars

LEMMA DeleteScoreRows ==
  ASSUME RowsOK, NEW g, NEW id, DeleteScoreEntryByID(g, id)
  PROVE  RowsOK'
  BY DeleteScoreType
  DEF RowsOK, ReferentialIntegrity, ResultOnlyWhenFinished, GameRow,
      DeleteScoreEntryByID, playerVars, gameVars, eloVars

LEMMA TrailRowsFacts ==
  ASSUME NEW g, NEW who, NEW before
  PROVE  /\ \A h \in TrailRows(g, who, before) :
              /\ h.game = g /\ h.player \in who /\ h.id = historySeq + 1
              /\ h.before = before[h.player]
              /\ h.after = RatingAfter(g, who, before[h.player])
         /\ \A p \in who : \E h \in TrailRows(g, who, before) :
              h.game = g /\ h.player = p
<1> DEFINE row(p) == [id |-> historySeq + 1, game |-> g, player |-> p,
                      before |-> before[p],
                      after |-> RatingAfter(g, who, before[p])]
<1>1. TrailRows(g, who, before) = {row(p) : p \in who}
  BY DEF TrailRows
<1>2. \A p : /\ row(p).game = g /\ row(p).player = p
             /\ row(p).id = historySeq + 1 /\ row(p).before = before[p]
             /\ row(p).after = RatingAfter(g, who, before[p])
  OBVIOUS
<1> HIDE DEF row
<1> QED
  BY <1>1, <1>2

LEMMA FinishRows ==
  ASSUME RowsOK, NEW g \in GameId, NEW who \in SUBSET PlayerId,
         NEW wins \in SUBSET who, NEW before \in [PlayerId -> Rating],
         FinishAccepted(g, who), FinishGameWithWinners(g, who, wins, before)
  PROVE  RowsOK'
<1>0. StoreTypeOK'
  BY FinishType DEF RowsOK
<1>1. CASE FinishApplies(g)
  <2> USE <1>1 DEF RowsOK, StoreTypeOK, FinishGameWithWinners
  <2>0. who \subseteq players
    BY DEF FinishAccepted
  <2>1. PICK w \in wins : primary' = [primary EXCEPT ![g] = w]
    OBVIOUS
  <2>2. /\ status' = [status EXCEPT ![g] = "finished"]
        /\ winners' = [winners EXCEPT ![g] = wins]
        /\ history' = history \cup TrailRows(g, who, before)
        /\ UNCHANGED <<players, members, entries, lastPlayers>>
    BY DEF playerVars, entryVars
  <2>3. ReferentialIntegrity'
    <3>1. \A x \in GameId :
            /\ members'[x] \cup winners'[x] \subseteq players'
            /\ primary'[x] \in players' \cup {NoPlayer}
      BY <2>0, <2>1, <2>2 DEF ReferentialIntegrity
    <3>2. \A x \in GameId : ~GameRow(x)' =>
            /\ members'[x] \cup winners'[x] = {}
            /\ primary'[x] = NoPlayer
      BY <2>1, <2>2 DEF ReferentialIntegrity, GameRow
    <3>3. \A row \in entries' \cup history' :
            GameRow(row.game)' /\ row.player \in players'
      BY <2>0, <2>2, TrailRowsFacts
      DEF ReferentialIntegrity, GameRow, Entry, HistoryRow
    <3> QED
      BY <3>1, <3>2, <3>3, <2>2 DEF ReferentialIntegrity
  <2>4. ResultOnlyWhenFinished'
    <3>1. \A x \in GameId :
            /\ winners'[x] # {} => status'[x] = "finished"
            /\ primary'[x] \in winners'[x] \cup {NoPlayer}
      BY <2>1, <2>2 DEF ResultOnlyWhenFinished
    <3>2. \A x \in GameId : \A q \in winners'[x] :
            \E h \in history' : h.game = x /\ h.player = q
      BY <2>2, TrailRowsFacts DEF ResultOnlyWhenFinished
    <3>3. \A h \in history' : status'[h.game] = "finished"
      BY <2>2, TrailRowsFacts DEF ResultOnlyWhenFinished, HistoryRow
    <3> QED
      BY <3>1, <3>2, <3>3 DEF ResultOnlyWhenFinished
  <2> QED
    BY <1>0, <2>3, <2>4 DEF RowsOK
<1>2. CASE ~FinishApplies(g)
  BY <1>2, UnchangedRows DEF FinishGameWithWinners
<1> QED
  BY <1>1, <1>2

LEMMA DiscardRows ==
  ASSUME RowsOK, NEW g \in GameId, DiscardGame(g)
  PROVE  RowsOK'
<1>1. CASE DiscardApplies(g)
  <2> USE <1>1 DEF RowsOK, StoreTypeOK, DiscardGame, DiscardApplies
  <2>1. /\ status' = [status EXCEPT ![g] = "discarded"]
        /\ entries' = {e \in entries : e.game # g}
        /\ members' = [members EXCEPT ![g] = {}]
        /\ winners' = [winners EXCEPT ![g] = {}]
        /\ UNCHANGED <<players, primary, history, lastPlayers>>
    BY DEF playerVars, eloVars
  <2>2. primary[g] = NoPlayer /\ \A h \in history : h.game # g
    BY DEF ResultOnlyWhenFinished
  <2>3. ReferentialIntegrity'
    BY <2>1, <2>2 DEF ReferentialIntegrity, GameRow, Entry, HistoryRow
  <2>4. ResultOnlyWhenFinished'
    BY <2>1, <2>2 DEF ResultOnlyWhenFinished, HistoryRow
  <2> QED
    BY <2>3, <2>4, DiscardType DEF RowsOK
<1>2. CASE ~DiscardApplies(g)
  BY <1>2, UnchangedRows DEF DiscardGame
<1> QED
  BY <1>1, <1>2

LEMMA DeletePlayerRows ==
  ASSUME RowsOK, NEW p \in PlayerId, HardDeletePlayer(p)
  PROVE  RowsOK'
<1> USE DEF RowsOK, StoreTypeOK, HardDeletePlayer, ForgetPrimary
<1>1. ReferentialIntegrity'
  BY StoreAssumption DEF ReferentialIntegrity, GameRow
<1>2. ResultOnlyWhenFinished'
  BY StoreAssumption DEF ResultOnlyWhenFinished
<1> QED
  BY <1>1, <1>2, DeletePlayerType DEF RowsOK

LEMMA SaveLastRows ==
  ASSUME RowsOK, NEW who \in SUBSET PlayerId,
         SaveLastPlayersAccepted(who), SaveLastPlayers(who)
  PROVE  RowsOK'
  BY SaveLastType
  DEF RowsOK, ReferentialIntegrity, ResultOnlyWhenFinished, GameRow,
      SaveLastPlayersAccepted, SaveLastPlayers, playerVars, gameVars,
      entryVars, eloVars
-----------------------------------------------------------------------------
(* Handler steps *)

\* What every step finds in the locals of a busy slot.
LEMMA Locals ==
  ASSUME RequestTypeOK, NEW r \in Slot
  PROVE  /\ req[r].pc \in NamesGame => req[r].game \in GameId
         /\ req[r].pc \in NamesPlayer => req[r].player \in PlayerId
         /\ req[r].who \in SUBSET PlayerId
         /\ req[r].todo \in SUBSET PlayerId
         /\ req[r].wins \in SUBSET PlayerId
         /\ req[r].before \in [PlayerId -> Rating]
  BY DEF RequestTypeOK, Request

\* One accepted statement of the database, with what its caller has in hand.
Statement ==
  \/ UNCHANGED storeVars
  \/ \E p \in PlayerId : CreateOrGetPlayer(p)
  \/ \E g \in GameId : CreateGame(g)
  \/ \E g \in GameId, p \in PlayerId :
       AddPlayerAccepted(g, p) /\ AddPlayerToGame(g, p)
  \/ \E g \in GameId, p \in PlayerId, pts \in Points :
       AddScoreAccepted(g, p) /\ AddScoreEntry(g, p, pts)
  \/ \E e \in entries : DeleteScoreEntryByID(e.game, e.id)
  \/ \E r \in Slot :
       /\ At(r, "end_finish") /\ req[r].game \in GameId
       /\ FinishAccepted(req[r].game, req[r].who)
       /\ FinishGameWithWinners(req[r].game, req[r].who, req[r].wins,
                                req[r].before)
  \/ \E g \in GameId : DiscardGame(g)
  \/ \E p \in PlayerId : HardDeletePlayer(p)
  \/ \E who \in SUBSET PlayerId :
       SaveLastPlayersAccepted(who) /\ SaveLastPlayers(who)

\* Every step of the bot is one accepted statement, or leaves the database be.
LEMMA OneStatement ==
  ASSUME TypeOK, [Next]_vars
  PROVE  Statement
<1> USE DEF TypeOK, At, Statement
<1>1. CASE GameNext
  <2> SUFFICES ASSUME NEW r \in Slot,
                      \/ \E e \in entries : ConfirmEdit(r, e)
                      \/ \E g \in GameId : ConfirmEnd(r, g)
                      \/ \E g \in GameId, p \in PlayerId : SubmitScore(r, g, p)
                      \/ CheckScoreMember(r)
                      \/ InsertScore(r)
                      \/ ReadEndScores(r)
                      \/ DiscardEnd(r)
                      \/ FinishEnd(r)
                      \/ RememberEnd(r)
               PROVE  Statement
    BY <1>1 DEF GameNext
  <2>1. CASE \E e \in entries : ConfirmEdit(r, e)
    BY <2>1 DEF ConfirmEdit
  <2>2. CASE \/ \E g \in GameId : ConfirmEnd(r, g)
             \/ \E g \in GameId, p \in PlayerId : SubmitScore(r, g, p)
             \/ CheckScoreMember(r) \/ ReadEndScores(r)
    BY <2>2
    DEF ConfirmEnd, SubmitScore, CheckScoreMember, ReadEndScores
  <2>3. CASE InsertScore(r)
    BY <2>3, Locals
    DEF InsertScore, NamesGame, NamesPlayer, PC
  <2>4. CASE DiscardEnd(r)
    BY <2>4, Locals DEF DiscardEnd, NamesGame, PC
  <2>5. CASE FinishEnd(r)
    <3>1. req[r].game \in GameId
      BY <2>5, Locals DEF FinishEnd, NamesGame, PC
    <3> QED
      BY <2>5, <3>1 DEF FinishEnd, Statement
  <2>6. CASE RememberEnd(r)
    BY <2>6, Locals DEF RememberEnd
  <2> QED
    BY <2>1, <2>2, <2>3, <2>4, <2>5, <2>6
<1>2. CASE NewGameNext
  <2> SUFFICES ASSUME NEW r \in Slot,
                      \/ \E p \in PlayerId : AddPlayer(r, p)
                      \/ \E roster \in SUBSET usedPlayers : StartGame(r, roster)
                      \/ CreateStartedGame(r)
                      \/ LinkPlayer(r)
                      \/ RememberStart(r)
               PROVE  Statement
    BY <1>2 DEF NewGameNext
  <2>1. CASE \E p \in PlayerId : AddPlayer(r, p)
    BY <2>1 DEF AddPlayer
  <2>2. CASE \E roster \in SUBSET usedPlayers : StartGame(r, roster)
    BY <2>2 DEF StartGame
  <2>3. CASE CreateStartedGame(r)
    BY <2>3 DEF CreateStartedGame
  <2>4. CASE LinkPlayer(r)
    BY <2>4, Locals
    DEF LinkPlayer, NamesGame, PC
  <2>5. CASE RememberStart(r)
    BY <2>5, Locals DEF RememberStart
  <2> QED
    BY <2>1, <2>2, <2>3, <2>4, <2>5
<1>3. CASE PlayersNext
  <2>1. ASSUME NEW r \in Slot, NEW p \in PlayerId, ConfirmDelete(r, p)
        PROVE  Statement
    BY <2>1 DEF ConfirmDelete
  <2>2. ASSUME NEW r \in Slot, DeletePlayer(r) PROVE Statement
    BY <2>2, Locals DEF DeletePlayer, NamesPlayer
  <2> QED
    BY <1>3, <2>1, <2>2 DEF PlayersNext
<1>4. CASE (\E r \in Slot : Fail(r)) \/ UNCHANGED vars
  BY <1>4 DEF Fail, vars
<1> QED
  BY <1>1, <1>2, <1>3, <1>4 DEF Next

LEMMA RowsNext ==
  ASSUME TypeOK, RowsOK, WinnersWereRead, [Next]_vars
  PROVE  RowsOK'
<1>1. Statement
  BY OneStatement
<1>2. ASSUME NEW r \in Slot, req[r].game \in GameId,
             FinishAccepted(req[r].game, req[r].who),
             FinishGameWithWinners(req[r].game, req[r].who, req[r].wins,
                                   req[r].before)
      PROVE  RowsOK'
  <2>1. /\ req[r].who \in SUBSET PlayerId
        /\ req[r].wins \in SUBSET req[r].who
        /\ req[r].before \in [PlayerId -> Rating]
    BY Locals DEF TypeOK, WinnersWereRead
  <2> QED
    BY <1>2, <2>1, FinishRows
<1> QED
  BY <1>1, <1>2, UnchangedRows, CreatePlayerRows, CreateGameRows,
     AddPlayerRows, AddScoreRows, DeleteScoreRows, DiscardRows,
     DeletePlayerRows, SaveLastRows DEF Statement

LEMMA WinnersWereReadNext ==
  ASSUME TypeOK, WinnersWereRead, [Next]_vars
  PROVE  WinnersWereRead'
<1> USE DEF TypeOK, RequestTypeOK, WinnersWereRead, Request
<1>1. ASSUME NEW r \in Slot, Return(r) PROVE WinnersWereRead'
  BY <1>1 DEF Return, Idle
<1>2. ASSUME NEW r \in Slot, NEW pc, Goto(r, pc) PROVE WinnersWereRead'
  BY <1>2 DEF Goto
<1>3. CASE GameNext
  <2>1. ASSUME NEW r \in Slot, NEW e \in entries, ConfirmEdit(r, e)
        PROVE  WinnersWereRead'
    BY <2>1 DEF ConfirmEdit
  <2>2. ASSUME NEW r \in Slot, NEW g \in GameId, ConfirmEnd(r, g)
        PROVE  WinnersWereRead'
    BY <2>2 DEF ConfirmEnd, Idle
  <2>3. ASSUME NEW r \in Slot, NEW g \in GameId, NEW p \in PlayerId,
               SubmitScore(r, g, p)
        PROVE  WinnersWereRead'
    BY <2>3 DEF SubmitScore, Idle
  <2>4. ASSUME NEW r \in Slot, ReadEndScores(r) PROVE WinnersWereRead'
    BY <1>2, <2>4 DEF ReadEndScores, ScoresAt
  <2> QED
    BY <1>1, <1>2, <1>3, <2>1, <2>2, <2>3, <2>4
    DEF GameNext, CheckScoreMember, InsertScore, DiscardEnd, FinishEnd,
        RememberEnd
<1>4. CASE NewGameNext
  <2>1. ASSUME NEW r \in Slot, NEW roster, StartGame(r, roster)
        PROVE  WinnersWereRead'
    BY <2>1 DEF StartGame, Idle
  <2>2. ASSUME NEW r \in Slot, CreateStartedGame(r) PROVE WinnersWereRead'
    BY <2>2 DEF CreateStartedGame
  <2>3. ASSUME NEW r \in Slot, LinkPlayer(r) PROVE WinnersWereRead'
    BY <1>1, <2>3 DEF LinkPlayer
  <2> QED
    BY <1>1, <1>4, <2>1, <2>2, <2>3 DEF NewGameNext, AddPlayer, RememberStart
<1>5. CASE PlayersNext
  BY <1>1, <1>5 DEF PlayersNext, ConfirmDelete, DeletePlayer, Idle
<1>6. CASE (\E r \in Slot : Fail(r)) \/ UNCHANGED vars
  BY <1>1, <1>6 DEF Fail, vars
<1> QED
  BY <1>3, <1>4, <1>5, <1>6 DEF Next

LEMMA InitIntegrity == Init => Integrity
<1> SUFFICES ASSUME Init PROVE Integrity
  OBVIOUS
<1>1. ReferentialIntegrity /\ ResultOnlyWhenFinished
  BY DEF Init, StoreInit, ReferentialIntegrity, ResultOnlyWhenFinished, GameRow
<1>2. WinnersWereRead
  BY DEF Init, RequestInit, Idle, WinnersWereRead
<1> QED
  BY <1>1, <1>2, InitTypeOK DEF Integrity

LEMMA NextIntegrity == Integrity /\ [Next]_vars => Integrity'
  BY NextTypeOK, RowsNext, WinnersWereReadNext DEF Integrity, RowsOK, TypeOK

THEOREM IntegrityInvariant == Spec => []Integrity
  BY InitIntegrity, NextIntegrity, PTL DEF Spec

\* However handlers interleave and fail, no row of any table refers to a player
\* or a game that is gone.
THEOREM ReferencesHold == Spec => []ReferentialIntegrity
  BY IntegrityInvariant, PTL DEF Integrity

\* Winners and rating rows are only ever there for finished games, and agree.
THEOREM ResultsHold == Spec => []ResultOnlyWhenFinished
  BY IntegrityInvariant, PTL DEF Integrity
-----------------------------------------------------------------------------
(* Ended games *)

FinalStep ==
  \A g \in GameId :
    /\ status[g] \in {"finished", "discarded"} => status'[g] = status[g]
    /\ status[g] = "finished" =>
         /\ winners'[g] = winners[g] \cap players'
         /\ {h \in history' : h.game = g} =
              {h \in history : h.game = g /\ h.player \in players'}

\* A statement that adds players at most and leaves the results be.
LEMMA FinalFrame ==
  ASSUME RowsOK, players \subseteq players', UNCHANGED <<winners, history>>,
         \A g \in GameId :
           status[g] \in {"finished", "discarded"} => status'[g] = status[g]
  PROVE  FinalStep
  BY DEF FinalStep, RowsOK, ReferentialIntegrity

LEMMA FinalFinish ==
  ASSUME RowsOK, NEW g \in GameId, NEW who, NEW wins, NEW before,
         FinishGameWithWinners(g, who, wins, before)
  PROVE  FinalStep
<1>1. CASE FinishApplies(g)
  <2>1. /\ status' = [status EXCEPT ![g] = "finished"]
        /\ winners' = [winners EXCEPT ![g] = wins]
        /\ history' = history \cup TrailRows(g, who, before)
        /\ players' = players
    BY <1>1 DEF FinishGameWithWinners, playerVars
  <2>2. SUFFICES ASSUME NEW x \in GameId,
                        status[x] \in {"finished", "discarded"}
                 PROVE  /\ status'[x] = status[x]
                        /\ winners'[x] = winners[x]
                        /\ {h \in history' : h.game = x} =
                             {h \in history : h.game = x}
    BY <2>1 DEF FinalStep, RowsOK, ReferentialIntegrity
  <2>3. x # g
    BY <1>1, <2>2 DEF FinishApplies
  <2> QED
    BY <2>1, <2>2, <2>3, TrailRowsFacts DEF RowsOK, StoreTypeOK
<1>2. CASE ~FinishApplies(g)
  BY <1>2, FinalFrame DEF FinishGameWithWinners, storeVars
<1> QED
  BY <1>1, <1>2

LEMMA FinalDiscard ==
  ASSUME RowsOK, NEW g \in GameId, DiscardGame(g)
  PROVE  FinalStep
<1>1. CASE DiscardApplies(g)
  BY <1>1 DEF DiscardGame, DiscardApplies, FinalStep, RowsOK, StoreTypeOK,
              ReferentialIntegrity, playerVars, eloVars
<1>2. CASE ~DiscardApplies(g)
  BY <1>2, FinalFrame DEF DiscardGame, storeVars
<1> QED
  BY <1>1, <1>2

LEMMA FinalDelete ==
  ASSUME RowsOK, NEW p \in PlayerId, HardDeletePlayer(p)
  PROVE  FinalStep
  BY DEF HardDeletePlayer, FinalStep, RowsOK, StoreTypeOK, ReferentialIntegrity

LEMMA NextFinal ==
  ASSUME Integrity, [Next]_vars
  PROVE  FinalStep
<1> USE DEF Integrity
<1>1. Statement /\ RowsOK
  BY OneStatement DEF RowsOK, TypeOK
<1>2. CASE \/ UNCHANGED storeVars
           \/ \E p \in PlayerId : CreateOrGetPlayer(p)
           \/ \E g \in GameId, p \in PlayerId :
                AddPlayerAccepted(g, p) /\ AddPlayerToGame(g, p)
           \/ \E g \in GameId, p \in PlayerId, pts \in Points :
                AddScoreAccepted(g, p) /\ AddScoreEntry(g, p, pts)
           \/ \E e \in entries : DeleteScoreEntryByID(e.game, e.id)
           \/ \E who \in SUBSET PlayerId :
                SaveLastPlayersAccepted(who) /\ SaveLastPlayers(who)
  BY <1>1, <1>2, FinalFrame
  DEF CreateOrGetPlayer, AddPlayerToGame, AddScoreEntry, DeleteScoreEntryByID,
      SaveLastPlayers, storeVars, playerVars, gameVars, entryVars, eloVars
<1>3. ASSUME NEW g \in GameId, CreateGame(g) PROVE FinalStep
  BY <1>1, <1>3, FinalFrame
  DEF CreateGame, playerVars, eloVars, RowsOK, StoreTypeOK
<1> QED
  BY <1>1, <1>2, <1>3, FinalFinish, FinalDiscard, FinalDelete DEF Statement

\* No interleaving, repeated tap or failure brings an ended game back, ends it
\* another way or changes what was recorded for a player who still exists.
THEOREM EndedGamesAreFinal == Spec => EndedIsFinal
<1>1. Integrity /\ [Next]_vars => [FinalStep]_vars
  BY NextFinal
<1> QED
  BY <1>1, IntegrityInvariant, PTL DEF Spec, EndedIsFinal, FinalStep

-----------------------------------------------------------------------------
(***************************************************************************)
(* Bot implements Ledger, for any number of overlapping requests: every    *)
(* step of a handler is a step of the book or changes nothing in it.       *)
(***************************************************************************)

BookVars == <<players, status, winners, RatedIn>>

BookStep == Book!Next \/ UNCHANGED BookVars

(***************************************************************************)
(* One lemma per statement that touches the book.                          *)
(***************************************************************************)

LEMMA JoinStep ==
  ASSUME NEW p \in PlayerId, RowsOK, CreateOrGetPlayer(p)
  PROVE  BookStep
<1>1. p \notin players
  BY DEF CreateOrGetPlayer, RowsOK, StoreTypeOK
<1>2. Book!Join(p)
  BY <1>1 DEF CreateOrGetPlayer, Book!Join, gameVars, eloVars, RatedIn
<1> QED
  BY <1>2 DEF BookStep, Book!Next

LEMMA OpenStep ==
  ASSUME NEW g \in GameId, CreateGame(g)
  PROVE  BookStep
<1>1. Book!Open(g)
  BY DEF CreateGame, Book!Open, playerVars, eloVars, RatedIn
<1> QED
  BY <1>1 DEF BookStep, Book!Next

LEMMA DropStep ==
  ASSUME NEW g \in GameId, RowsOK, DiscardGame(g)
  PROVE  BookStep
<1>1. CASE DiscardApplies(g)
  <2>1. winners[g] = {} /\ winners \in [GameId -> SUBSET PlayerId]
    BY <1>1 DEF DiscardApplies, RowsOK, ResultOnlyWhenFinished, StoreTypeOK
  <2>2. winners' = [winners EXCEPT ![g] = {}]
    BY <1>1 DEF DiscardGame
  <2>3. winners' = winners
    BY <2>1, <2>2
  <2>4. Book!Drop(g)
    BY <1>1, <2>3
    DEF DiscardGame, DiscardApplies, Book!Drop, playerVars, eloVars, RatedIn
  <2> QED
    BY <2>4 DEF BookStep, Book!Next
<1>2. CASE ~DiscardApplies(g)
  BY <1>2 DEF DiscardGame, storeVars, BookStep, BookVars, RatedIn
<1> QED
  BY <1>1, <1>2

LEMMA LeaveStep ==
  ASSUME NEW p \in PlayerId, RowsOK, HardDeletePlayer(p)
  PROVE  BookStep
<1>1. RatedIn' = {row \in RatedIn : row[2] # p}
  BY DEF HardDeletePlayer, RatedIn
<1>2. Book!Leave(p)
  BY <1>1 DEF HardDeletePlayer, Book!Leave
<1> QED
  BY <1>2 DEF BookStep, Book!Next

LEMMA CloseStep ==
  ASSUME NEW g \in GameId, NEW who \in SUBSET PlayerId, NEW wins \in SUBSET who,
         NEW before \in [PlayerId -> Rating], RowsOK,
         FinishAccepted(g, who), FinishGameWithWinners(g, who, wins, before)
  PROVE  BookStep
<1>1. CASE FinishApplies(g)
  <2>1. history' = history \cup TrailRows(g, who, before)
    BY <1>1 DEF FinishGameWithWinners
  <2>2. RatedIn' = RatedIn \cup {<<g, p>> : p \in who}
    <3>1. {<<h.game, h.player>> : h \in TrailRows(g, who, before)}
            = {<<g, p>> : p \in who}
      BY TrailRowsFacts
    <3> QED
      BY <2>1, <3>1 DEF RatedIn
  <2>3. wins # {} /\ who \in SUBSET players
    BY <1>1 DEF FinishGameWithWinners, FinishAccepted
  <2>4. Book!Close(g, wins, who)
    BY <1>1, <2>2, <2>3
    DEF FinishGameWithWinners, FinishApplies, Book!Close, playerVars
  <2> QED
    BY <2>3, <2>4 DEF BookStep, Book!Next
<1>2. CASE ~FinishApplies(g)
  BY <1>2 DEF FinishGameWithWinners, storeVars, BookStep, BookVars, RatedIn
<1> QED
  BY <1>1, <1>2

LEMMA NextBook == Integrity /\ [Next]_vars => BookStep
<1> SUFFICES ASSUME Integrity, [Next]_vars PROVE BookStep
  OBVIOUS
<1>1. Statement /\ RowsOK
  BY OneStatement DEF Integrity, RowsOK, TypeOK
<1>2. CASE \/ UNCHANGED storeVars
           \/ \E g \in GameId, p \in PlayerId :
                AddPlayerAccepted(g, p) /\ AddPlayerToGame(g, p)
           \/ \E g \in GameId, p \in PlayerId, pts \in Points :
                AddScoreAccepted(g, p) /\ AddScoreEntry(g, p, pts)
           \/ \E e \in entries : DeleteScoreEntryByID(e.game, e.id)
           \/ \E who \in SUBSET PlayerId :
                SaveLastPlayersAccepted(who) /\ SaveLastPlayers(who)
  BY <1>2
  DEF AddPlayerToGame, AddScoreEntry, DeleteScoreEntryByID, SaveLastPlayers,
      storeVars, playerVars, gameVars, entryVars, eloVars, BookStep, BookVars,
      RatedIn
<1>3. ASSUME NEW r \in Slot, req[r].game \in GameId,
             FinishAccepted(req[r].game, req[r].who),
             FinishGameWithWinners(req[r].game, req[r].who, req[r].wins,
                                   req[r].before)
      PROVE  BookStep
  <2>1. /\ req[r].who \in SUBSET PlayerId
        /\ req[r].wins \in SUBSET req[r].who
        /\ req[r].before \in [PlayerId -> Rating]
    BY Locals DEF Integrity, TypeOK, WinnersWereRead
  <2> QED
    BY <1>1, <1>3, <2>1, CloseStep
<1> QED
  BY <1>1, <1>2, <1>3, JoinStep, OpenStep, DropStep, LeaveStep DEF Statement

\* Whatever overlaps, is repeated or fails, the tables are a game book as
\* module Ledger defines it: a game closes once, in one stroke, with winners
\* who were rated in it and existed, and nothing is rewritten afterwards.
THEOREM BotImplementsLedger == Spec => ImplementsLedger
<1>1. Init => Book!Init
  BY StoreAssumption DEF Init, StoreInit, Book!Init, RatedIn
<1>2. Integrity /\ [Next]_vars => [Book!Next]_BookVars
  BY NextBook DEF BookStep
<1>3. BookVars = Book!ledgerVars
  BY DEF BookVars, Book!ledgerVars
<1> QED
  BY <1>1, <1>2, <1>3, IntegrityInvariant, PTL
  DEF Spec, ImplementsLedger, Book!Spec, Book!ledgerVars, BookVars

(***************************************************************************)
(* Elo updates under any interleaving: each is applied at most once, and   *)
(* the current rating is where the trail ends.  Accounting is the          *)
(* inductive invariant: while a game is unfinished neither a stored rating *)
(* nor one a handler still holds can include it, and only one              *)
(* FinishGameWithWinners ever finds it unfinished.                         *)
(***************************************************************************)

\* A sequence of finished games without repetition: what a rating, or a rating
\* a handler has read, looks like.
ProperRating(s) ==
  /\ \A i \in DOMAIN s : status[s[i]] = "finished"
  /\ \A i, j \in DOMAIN s : s[i] = s[j] => i = j

RatingsAreProper ==
  /\ \A p \in PlayerId : ProperRating(rating[p])
  /\ \A r \in Slot, p \in PlayerId : ProperRating(req[r].before[p])

\* The trail's ids are below its mark, and a player without a row is unrated.
TrailIsOrdered ==
  /\ \A h \in history : h.id <= historySeq
  /\ \A p \in PlayerId \ players : rating[p] = <<>>

Accounting ==
  Integrity /\ RatingsAreProper /\ TrailIsOrdered
  /\ EloAppliedOnce /\ RatingIsLatestInTrail

\* The part of Accounting that speaks of the tables only.
AccountsOK ==
  /\ \A p \in PlayerId : ProperRating(rating[p])
  /\ TrailIsOrdered
  /\ EloAppliedOnce
  /\ RatingIsLatestInTrail

\* A proper rating stays proper while finished games stay finished.
LEMMA ProperStays ==
  ASSUME RowsOK, FinalStep, NEW s \in Rating, ProperRating(s)
  PROVE  ProperRating(s)'
<1>1. \A i \in DOMAIN s : s[i] \in GameId
  BY DEF Rating
<1> QED
  BY <1>1 DEF ProperRating, FinalStep

\* The game that is finishing is not in the rating it is appended to.
LEMMA ProperAfter ==
  ASSUME RowsOK, NEW g \in GameId, FinishApplies(g),
         status' = [status EXCEPT ![g] = "finished"],
         NEW who, NEW s \in Rating, ProperRating(s)
  PROVE  ProperRating(RatingAfter(g, who, s))'
<1>1. \A i \in DOMAIN s : s[i] \in GameId /\ s[i] # g
  BY DEF Rating, ProperRating, FinishApplies
<1>2. ProperRating(s)'
  BY <1>1 DEF ProperRating, RowsOK, StoreTypeOK
<1>3. CASE Cardinality(who) < 2
  BY <1>2, <1>3 DEF RatingAfter
<1>4. CASE ~(Cardinality(who) < 2)
  <2> DEFINE t == Append(s, g)
  <2>1. /\ DOMAIN t = 1 .. Len(s) + 1 /\ DOMAIN s = 1 .. Len(s)
        /\ Len(s) \in Nat
        /\ \A i \in 1 .. Len(s) : t[i] = s[i]
        /\ t[Len(s) + 1] = g
    BY DEF Rating
  <2>2. status'[g] = "finished"
    BY DEF RowsOK, StoreTypeOK
  <2>3. RatingAfter(g, who, s) = t
    BY <1>4 DEF RatingAfter
  <2> HIDE DEF t
  <2>4. \A i \in DOMAIN t : i \in DOMAIN s \/ i = Len(s) + 1
    BY <2>1
  <2>5. \A i \in DOMAIN t : status'[t[i]] = "finished"
    BY <1>2, <2>1, <2>2, <2>4 DEF ProperRating
  <2>6. \A i, j \in DOMAIN t : t[i] = t[j] => i = j
    BY <1>1, <1>2, <2>1, <2>4 DEF ProperRating
  <2> QED
    BY <2>3, <2>5, <2>6 DEF ProperRating
<1> QED
  BY <1>3, <1>4

\* A statement that leaves the ratings and the trail be.
LEMMA AccountsFrame ==
  ASSUME RowsOK, AccountsOK, FinalStep, UNCHANGED <<eloVars, players>>
  PROVE  AccountsOK'
<1>1. ASSUME NEW p \in PlayerId PROVE ProperRating(rating[p])'
  <2>1. rating[p] \in Rating /\ rating'[p] = rating[p] /\ ProperRating(rating[p])
    BY DEF RowsOK, StoreTypeOK, eloVars, AccountsOK
  <2>2. PICK s \in Rating : s = rating[p] /\ s = rating'[p]
    BY <2>1
  <2>3. ProperRating(s)'
    BY <2>1, <2>2, ProperStays
  <2> QED
    BY <2>2, <2>3 DEF ProperRating
<1>2. TrailIsOrdered' /\ EloAppliedOnce' /\ RatingIsLatestInTrail'
  BY DEF AccountsOK, TrailIsOrdered, EloAppliedOnce, RatingIsLatestInTrail,
         eloVars
<1> QED
  BY <1>1, <1>2 DEF AccountsOK

\* A new player has the starting rating and no trail.
LEMMA AccountsCreate ==
  ASSUME RowsOK, AccountsOK, FinalStep, NEW p \in PlayerId,
         CreateOrGetPlayer(p)
  PROVE  AccountsOK'
<1>1. /\ players' = players \cup {p} /\ UNCHANGED <<history, historySeq, rating>>
      /\ p \notin players
      /\ \A h \in history : h.player # p
  BY DEF CreateOrGetPlayer, eloVars, RowsOK, StoreTypeOK, ReferentialIntegrity
<1>2. ASSUME NEW q \in PlayerId PROVE ProperRating(rating[q])'
  <2>1. PICK s \in Rating : s = rating[q] /\ s = rating'[q] /\ ProperRating(s)
    BY <1>1 DEF RowsOK, StoreTypeOK, AccountsOK
  <2> QED
    BY <2>1, ProperStays DEF ProperRating
<1>3. TrailIsOrdered' /\ EloAppliedOnce'
  BY <1>1 DEF AccountsOK, TrailIsOrdered, EloAppliedOnce
<1>4. RatingIsLatestInTrail'
  BY <1>1 DEF AccountsOK, TrailIsOrdered, RatingIsLatestInTrail
<1> QED
  BY <1>2, <1>3, <1>4 DEF AccountsOK

\* A deleted player takes his trail and his rating with him.
LEMMA AccountsDelete ==
  ASSUME RowsOK, AccountsOK, FinalStep, NEW p \in PlayerId,
         HardDeletePlayer(p)
  PROVE  AccountsOK'
<1>1. /\ players' = players \ {p}
      /\ history' = {h \in history : h.player # p}
      /\ rating' = [rating EXCEPT ![p] = <<>>]
      /\ historySeq' = historySeq
  BY DEF HardDeletePlayer
<1>2. ASSUME NEW q \in PlayerId PROVE ProperRating(rating[q])'
  <2>1. CASE q = p
    BY <1>1, <2>1 DEF ProperRating, RowsOK, StoreTypeOK
  <2>2. CASE q # p
    <3>1. PICK s \in Rating : s = rating[q] /\ s = rating'[q] /\ ProperRating(s)
      BY <1>1, <2>2 DEF RowsOK, StoreTypeOK, AccountsOK
    <3> QED
      BY <3>1, ProperStays DEF ProperRating
  <2> QED
    BY <2>1, <2>2
<1>3. TrailIsOrdered'
  BY <1>1 DEF AccountsOK, TrailIsOrdered, RowsOK, StoreTypeOK
<1>4. EloAppliedOnce'
  BY <1>1, <1>2 DEF AccountsOK, EloAppliedOnce, ProperRating
<1>5. RatingIsLatestInTrail'
  <2> SUFFICES ASSUME NEW q \in players', q # p
               PROVE  LET mine == {h \in history' : h.player = q}
                      IN  IF mine = {} THEN rating'[q] = <<>>
                          ELSE \A h \in mine :
                            (\A k \in mine : k.id <= h.id) => rating'[q] = h.after
    BY <1>1 DEF RatingIsLatestInTrail
  <2>1. {h \in history' : h.player = q} = {h \in history : h.player = q}
    BY <1>1
  <2>2. q \in players /\ rating'[q] = rating[q]
    BY <1>1 DEF RowsOK, StoreTypeOK
  <2> QED
    BY <2>1, <2>2 DEF AccountsOK, RatingIsLatestInTrail
<1> QED
  BY <1>2, <1>3, <1>4, <1>5 DEF AccountsOK

\* The one transaction that writes ratings, from ratings read at any earlier
\* moment.
LEMMA AccountsFinish ==
  ASSUME RowsOK, AccountsOK, FinalStep, NEW g \in GameId,
         NEW who \in SUBSET PlayerId, NEW wins,
         NEW before \in [PlayerId -> Rating],
         \A p \in PlayerId : ProperRating(before[p]),
         FinishAccepted(g, who), FinishGameWithWinners(g, who, wins, before)
  PROVE  AccountsOK'
<1>1. CASE FinishApplies(g)
  <2>1. /\ status' = [status EXCEPT ![g] = "finished"]
        /\ historySeq' = historySeq + 1
        /\ history' = history \cup TrailRows(g, who, before)
        /\ rating' = [p \in PlayerId |->
             IF p \in who THEN RatingAfter(g, who, before[p]) ELSE rating[p]]
        /\ players' = players
    BY <1>1 DEF FinishGameWithWinners, playerVars
  <2>2. who \subseteq players
    BY <1>1 DEF FinishAccepted
  <2>3. \A h \in history : h.game # g /\ h.id \in Nat /\ h.id <= historySeq
    BY <1>1 DEF RowsOK, StoreTypeOK, ResultOnlyWhenFinished, FinishApplies,
                HistoryRow, AccountsOK, TrailIsOrdered
  <2>4. historySeq \in Nat
    BY DEF RowsOK, StoreTypeOK
  <2>5. ASSUME NEW p \in PlayerId PROVE ProperRating(rating[p])'
    <3>1. CASE p \in who
      <4>1. PICK s \in Rating : s = before[p] /\ ProperRating(s)
        OBVIOUS
      <4>2. ProperRating(RatingAfter(g, who, s))'
        BY <1>1, <2>1, <4>1, ProperAfter
      <4>3. rating'[p] = RatingAfter(g, who, s)
        BY <2>1, <3>1, <4>1
      <4> QED
        BY <4>2, <4>3 DEF ProperRating, RatingAfter
    <3>2. CASE p \notin who
      <4>1. PICK s \in Rating : s = rating[p] /\ s = rating'[p] /\ ProperRating(s)
        BY <2>1, <3>2 DEF RowsOK, StoreTypeOK, AccountsOK
      <4> QED
        BY <4>1, ProperStays DEF ProperRating
    <3> QED
      BY <3>1, <3>2
  <2>6. TrailIsOrdered'
    <3>1. \A h \in history' : h.id <= historySeq'
      BY <2>1, <2>3, <2>4, TrailRowsFacts
    <3>2. \A p \in PlayerId \ players' : rating'[p] = <<>>
      BY <2>1, <2>2 DEF AccountsOK, TrailIsOrdered
    <3> QED
      BY <3>1, <3>2 DEF TrailIsOrdered
  <2>7. EloAppliedOnce'
    <3>1. \A h, k \in TrailRows(g, who, before) : h.player = k.player => h = k
      BY DEF TrailRows
    <3>2. \A h, k \in history' :
            h.game = k.game /\ h.player = k.player => h = k
      BY <2>1, <2>3, <3>1, TrailRowsFacts DEF AccountsOK, EloAppliedOnce
    <3> QED
      BY <2>5, <3>2 DEF EloAppliedOnce, ProperRating
  <2>8. RatingIsLatestInTrail'
    <3> SUFFICES ASSUME NEW p \in players
                 PROVE  LET mine == {h \in history' : h.player = p}
                        IN  IF mine = {} THEN rating'[p] = <<>>
                            ELSE \A h \in mine :
                              (\A k \in mine : k.id <= h.id) => rating'[p] = h.after
      BY <2>1 DEF RatingIsLatestInTrail
    <3>0. p \in PlayerId
      BY DEF RowsOK, StoreTypeOK
    <3>1. CASE p \in who
      <4>1. PICK new \in TrailRows(g, who, before) :
              new.game = g /\ new.player = p
        BY <3>1, TrailRowsFacts
      <4>2. new.id = historySeq + 1 /\ new \in history'
        BY <2>1, TrailRowsFacts
      <4>3. ASSUME NEW h \in history', h.player = p, new.id <= h.id
            PROVE  rating'[p] = h.after
        <5>1. h \in TrailRows(g, who, before)
          BY <2>1, <2>3, <2>4, <4>2, <4>3
        <5> QED
          BY <2>1, <3>0, <3>1, <4>3, <5>1, TrailRowsFacts
      <4> QED
        BY <4>1, <4>2, <4>3
    <3>2. CASE p \notin who
      <4>1. {h \in history' : h.player = p} = {h \in history : h.player = p}
        BY <2>1, <3>2, TrailRowsFacts
      <4>2. rating'[p] = rating[p]
        BY <2>1, <3>0, <3>2
      <4> QED
        BY <4>1, <4>2 DEF AccountsOK, RatingIsLatestInTrail
    <3> QED
      BY <3>1, <3>2
  <2> QED
    BY <2>5, <2>6, <2>7, <2>8 DEF AccountsOK
<1>2. CASE ~FinishApplies(g)
  BY <1>2, AccountsFrame DEF FinishGameWithWinners, storeVars, eloVars
<1> QED
  BY <1>1, <1>2

-----------------------------------------------------------------------------
(* Handler steps *)

\* What a handler holds as a rating it has just read, holds still or never had.
BeforeWasRead ==
  \A r \in Slot, p \in PlayerId :
    req'[r].before[p] \in {<<>>, req[r].before[p], rating[p]}

LEMMA BeforeSource ==
  ASSUME TypeOK, [Next]_vars
  PROVE  BeforeWasRead
<1> USE DEF TypeOK, RequestTypeOK, Request
<1>1. ASSUME NEW r \in Slot, Return(r) PROVE BeforeWasRead
  BY <1>1 DEF Return, Idle, BeforeWasRead
<1>2. ASSUME NEW r \in Slot, NEW pc, Goto(r, pc) PROVE BeforeWasRead
  BY <1>2 DEF Goto, BeforeWasRead
<1>3. ASSUME UNCHANGED req PROVE BeforeWasRead
  BY <1>3 DEF BeforeWasRead
<1>4. ASSUME NEW r \in Slot, NEW g \in GameId, ConfirmEnd(r, g) PROVE BeforeWasRead
  BY <1>4 DEF ConfirmEnd, Idle, BeforeWasRead
<1>5. ASSUME NEW r \in Slot, NEW g \in GameId, NEW p \in PlayerId,
             SubmitScore(r, g, p)
      PROVE  BeforeWasRead
  BY <1>5 DEF SubmitScore, Idle, BeforeWasRead
<1>6. ASSUME NEW r \in Slot, ReadEndScores(r) PROVE BeforeWasRead
  <2>1. CASE Goto(r, "end_discard")
    BY <1>2, <2>1
  <2>2. CASE ~Goto(r, "end_discard")
    BY <1>6, <2>2 DEF ReadEndScores, BeforeWasRead
  <2> QED
    BY <2>1, <2>2
<1>7. ASSUME NEW r \in Slot, NEW roster, StartGame(r, roster) PROVE BeforeWasRead
  BY <1>7 DEF StartGame, Idle, BeforeWasRead
<1>8. ASSUME NEW r \in Slot, CreateStartedGame(r) PROVE BeforeWasRead
  BY <1>8 DEF CreateStartedGame, BeforeWasRead
<1>9. ASSUME NEW r \in Slot, LinkPlayer(r) PROVE BeforeWasRead
  <2>1. CASE Return(r)
    BY <1>1, <2>1
  <2>2. CASE ~Return(r)
    BY <1>9, <2>2 DEF LinkPlayer, BeforeWasRead
  <2> QED
    BY <2>1, <2>2
<1>10. ASSUME NEW r \in Slot, NEW p \in PlayerId, ConfirmDelete(r, p)
       PROVE  BeforeWasRead
  BY <1>10 DEF ConfirmDelete, Idle, BeforeWasRead
<1>11. CASE GameNext
  BY <1>1, <1>2, <1>3, <1>4, <1>5, <1>6, <1>11
  DEF GameNext, ConfirmEdit, CheckScoreMember, InsertScore, DiscardEnd,
      FinishEnd, RememberEnd
<1>12. CASE NewGameNext
  BY <1>1, <1>3, <1>7, <1>8, <1>9, <1>12
  DEF NewGameNext, AddPlayer, RememberStart
<1>13. CASE PlayersNext
  BY <1>1, <1>10, <1>13 DEF PlayersNext, DeletePlayer
<1>14. CASE (\E r \in Slot : Fail(r)) \/ UNCHANGED vars
  BY <1>1, <1>3, <1>14 DEF Fail, vars
<1> QED
  BY <1>11, <1>12, <1>13, <1>14 DEF Next

LEMMA RatingsNext ==
  ASSUME Accounting, FinalStep, [Next]_vars
  PROVE  (\A r \in Slot, p \in PlayerId : ProperRating(req[r].before[p]))'
<1> SUFFICES ASSUME NEW r \in Slot, NEW p \in PlayerId
             PROVE  ProperRating(req[r].before[p])'
  OBVIOUS
<1>1. /\ TypeOK /\ RowsOK
      /\ ProperRating(rating[p]) /\ ProperRating(req[r].before[p])
      /\ rating[p] \in Rating /\ req[r].before[p] \in Rating
  BY Locals
  DEF Accounting, Integrity, RatingsAreProper, RowsOK, TypeOK, StoreTypeOK
<1>2. <<>> \in Rating /\ ProperRating(<<>>)
  BY DEF Rating, ProperRating
<1>3. PICK s \in {<<>>, req[r].before[p], rating[p]} : s = req'[r].before[p]
  BY <1>1, BeforeSource DEF BeforeWasRead
<1>4. s \in Rating /\ ProperRating(s)
  BY <1>1, <1>2, <1>3
<1>5. ProperRating(s)'
  BY <1>1, <1>4, ProperStays
<1> QED
  BY <1>3, <1>5 DEF ProperRating

LEMMA AccountsNext ==
  ASSUME Accounting, FinalStep, [Next]_vars
  PROVE  AccountsOK'
<1>1. /\ TypeOK /\ RowsOK /\ AccountsOK /\ WinnersWereRead
      /\ \A r \in Slot, p \in PlayerId : ProperRating(req[r].before[p])
  BY DEF Accounting, Integrity, RatingsAreProper, AccountsOK, RowsOK, TypeOK
<1>2. Statement
  BY <1>1, OneStatement
<1>3. ASSUME NEW r \in Slot, req[r].game \in GameId,
             FinishAccepted(req[r].game, req[r].who),
             FinishGameWithWinners(req[r].game, req[r].who, req[r].wins,
                                   req[r].before)
      PROVE  AccountsOK'
  <2>1. req[r].who \in SUBSET PlayerId /\ req[r].before \in [PlayerId -> Rating]
    BY <1>1, Locals DEF TypeOK
  <2> QED
    BY <1>1, <1>3, <2>1, AccountsFinish
<1>4. ASSUME NEW p \in PlayerId, CreateOrGetPlayer(p) PROVE AccountsOK'
  BY <1>1, <1>4, AccountsCreate
<1>5. ASSUME NEW p \in PlayerId, HardDeletePlayer(p) PROVE AccountsOK'
  BY <1>1, <1>5, AccountsDelete
<1>6. ASSUME UNCHANGED <<eloVars, players>> PROVE AccountsOK'
  BY <1>1, <1>6, AccountsFrame
<1>7. CASE \/ UNCHANGED storeVars
           \/ \E g \in GameId : CreateGame(g)
           \/ \E g \in GameId, p \in PlayerId :
                AddPlayerAccepted(g, p) /\ AddPlayerToGame(g, p)
           \/ \E g \in GameId, p \in PlayerId, pts \in Points :
                AddScoreAccepted(g, p) /\ AddScoreEntry(g, p, pts)
           \/ \E e \in entries : DeleteScoreEntryByID(e.game, e.id)
           \/ \E g \in GameId : DiscardGame(g)
           \/ \E who \in SUBSET PlayerId :
                SaveLastPlayersAccepted(who) /\ SaveLastPlayers(who)
  <2>1. UNCHANGED <<eloVars, players>>
    BY <1>7
    DEF CreateGame, AddPlayerToGame, AddScoreEntry, DeleteScoreEntryByID,
        DiscardGame, SaveLastPlayers, storeVars, playerVars, gameVars,
        entryVars, eloVars
  <2> QED
    BY <1>6, <2>1
<1> QED
  BY <1>2, <1>3, <1>4, <1>5, <1>7 DEF Statement

LEMMA InitAccounting == Init => Accounting
<1> SUFFICES ASSUME Init PROVE Accounting
  OBVIOUS
<1>1. RatingsAreProper
  BY DEF Init, StoreInit, RequestInit, Idle, RatingsAreProper, ProperRating
<1>2. TrailIsOrdered /\ EloAppliedOnce /\ RatingIsLatestInTrail
  BY StoreAssumption
  DEF Init, StoreInit, TrailIsOrdered, EloAppliedOnce, RatingIsLatestInTrail
<1> QED
  BY <1>1, <1>2, InitIntegrity DEF Accounting

\* The inductive invariant of the ratings.
THEOREM AccountingInvariant == Spec => []Accounting
<1>1. Accounting /\ Integrity' /\ [Next]_vars => Accounting'
  <2> SUFFICES ASSUME Accounting, Integrity', [Next]_vars PROVE Accounting'
    OBVIOUS
  <2>1. FinalStep
    BY NextFinal DEF Accounting
  <2>2. AccountsOK'
    BY <2>1, AccountsNext
  <2>3. (\A r \in Slot, p \in PlayerId : ProperRating(req[r].before[p]))'
    BY <2>1, RatingsNext
  <2> QED
    BY <2>2, <2>3 DEF Accounting, AccountsOK, RatingsAreProper
<1> QED
  BY <1>1, InitAccounting, IntegrityInvariant, PTL DEF Spec

\* However often and however concurrently a game is ended, its Elo update is
\* in each rating and in the trail at most once.
THEOREM EloIsAppliedOnce == Spec => []EloAppliedOnce
<1>1. Accounting => EloAppliedOnce
  BY DEF Accounting
<1> QED
  BY <1>1, AccountingInvariant, PTL

\* Current rating and trail never part, even when an update was computed from
\* a rating that another game has changed since.
THEOREM RatingEndsTheTrail == Spec => []RatingIsLatestInTrail
<1>1. Accounting => RatingIsLatestInTrail
  BY DEF Accounting
<1> QED
  BY <1>1, AccountingInvariant, PTL

=============================================================================
