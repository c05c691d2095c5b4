---------------------------- MODULE BoardsProofs ----------------------------
(***************************************************************************)
(* Proofs about Boards, for any number of games, posts, changes of scores  *)
(* and failures.  First for any number of slots: its types, and that the   *)
(* end of a game is announced at most once.  Then what the channel shows   *)
(* while the owner does one thing at a time: a call that fails leaves at   *)
(* most one post behind, and without one the post that games.post_id names *)
(* is the only one that drives its game.                                   *)
(***************************************************************************)
EXTENDS Boards, TLAPS, FiniteSetTheorems

LEMMA BlankType == \A k \in {"none", "deleted"} :
                     Blank(k) \in Screen /\ Names(Blank(k))
  BY BoardsAssumption DEF Blank, Screen, Names, Live, Ending, NoGame

LEMMA PlainType ==
  ASSUME NEW k \in Live \cup Ending, NEW g \in GameId
  PROVE  Plain(k, g) \in Screen /\ Names(Plain(k, g))
  BY BoardsAssumption DEF Plain, Screen, Names

LEMMA BoardType ==
  ASSUME TypeOK, NEW g \in GameId
  PROVE  RenderRoot(g) \in Screen /\ Names(RenderRoot(g))
  BY DEF RenderRoot, Screen, Names, TypeOK, Live

LEMMA IdleType == Idle \in Request /\ Names(Idle.show)
  BY BlankType DEF Idle, Request, PC, NoGame

(***************************************************************************)
(* How a step may move a request.                                          *)
(***************************************************************************)
RequestsTyped ==
  /\ req \in [Slot -> Request]
  /\ \A r \in Slot :
       /\ Names(req[r].show)
       /\ req[r].pc \notin {"idle", "create"} => req[r].game \in GameId
       /\ req[r].pc \in {"render", "respond", "end", "announce", "insert", "save"}
            => req[r].post \in PostId
       /\ req[r].pc = "end" => req[r].show.kind \in Ending

LEMMA ReturnType ==
  ASSUME TypeOK, NEW r \in Slot, Return(r)
  PROVE  RequestsTyped'
  BY IdleType DEF TypeOK, Return, Idle, RequestsTyped

LEMMA BeginType ==
  ASSUME TypeOK, NEW r \in Slot, NEW pc \in PC, NEW g \in GameId \cup {NoGame},
         NEW p \in PostId \cup {NoPost}, NEW s \in Screen, Names(s),
         Begin(r, pc, g, p, s),
         pc \notin {"idle", "create"} => g \in GameId,
         pc \in {"render", "respond", "end", "announce", "insert", "save"}
           => p \in PostId,
         pc = "end" => s.kind \in Ending
  PROVE  RequestsTyped'
  BY DEF TypeOK, Begin, Request, RequestsTyped

LEMMA GotoType ==
  ASSUME TypeOK, NEW r \in Slot, NEW pc \in PC \ {"end"}, Goto(r, pc),
         req[r].pc \notin {"idle", "create"},
         pc \in {"render", "respond", "announce", "insert", "save"}
           => req[r].post \in PostId
  PROVE  RequestsTyped'
  BY DEF TypeOK, Goto, Request, RequestsTyped

LEMMA SameRequestsType ==
  ASSUME TypeOK, UNCHANGED req
  PROVE  RequestsTyped'
  BY DEF TypeOK, RequestsTyped

LEMMA ShowType ==
  ASSUME TypeOK, NEW p \in PostId, NEW s \in Screen, Names(s), Show(p, s)
  PROVE  screen' \in [PostId -> Screen] /\ \A q \in PostId : Names(screen'[q])
  BY DEF TypeOK, Show

(***************************************************************************)
(* One step per action.                                                    *)
(***************************************************************************)
LEMMA InitTypeOK == Init => TypeOK
  BY BlankType, IdleType, BoardsAssumption
  DEF Init, TypeOK, Idle, Blank, Names, Live, Ending

LEMMA TapTypeOK ==
  ASSUME TypeOK, NEW r \in Slot, NEW p \in PostId,
         \/ EditLast(r, p) \/ ConfirmEdit(r, p) \/ EndPrompt(r, p)
         \/ ConfirmEnd(r, p) \/ Cancel(r, p) \/ OpenScoreDialog(r, p)
  PROVE  TypeOK'
<1> USE DEF Tap
<1>0. screen[p].kind \in Live => screen[p].game \in GameId
  BY DEF TypeOK, Names
<1>1. CASE EditLast(r, p)
  <2>1. RequestsTyped'
    BY <1>0, <1>1, PlainType, BeginType DEF EditLast, PC, Live
  <2> QED
    BY <1>1, <2>1 DEF EditLast, TypeOK, RequestsTyped, scoreVars, postVars
<1>2. CASE ConfirmEdit(r, p)
  <2>1. RequestsTyped'
    BY <1>0, <1>2, IdleType, BeginType DEF ConfirmEdit, PC, Live, Idle, Request
  <2>2. version' \in [GameId -> 0 .. MaxVersion] /\ reached' \subseteq GameId
    BY <1>2, BoardsAssumption DEF ConfirmEdit, ChangesLeft, TypeOK
  <2> QED
    BY <1>2, <2>1, <2>2 DEF ConfirmEdit, TypeOK, RequestsTyped, postVars
<1>3. CASE EndPrompt(r, p)
  <2>1. RequestsTyped'
    BY <1>0, <1>3, PlainType, BeginType DEF EndPrompt, PC, Live
  <2> QED
    BY <1>3, <2>1 DEF EndPrompt, TypeOK, RequestsTyped, scoreVars, postVars
<1>4. CASE ConfirmEnd(r, p)
  <2> DEFINE over == IF screen[p].game \in reached THEN "finished" ELSE "discarded"
  <2>1. screen[p].game \in GameId /\ over \in Ending
    BY <1>0, <1>4 DEF ConfirmEnd, Live, Ending
  <2>2. /\ Begin(r, "end", screen[p].game, p, Plain(over, screen[p].game))
        /\ UNCHANGED <<status, scoreVars, postVars, failures>>
    BY <1>4 DEF ConfirmEnd
  <2>3. Plain(over, screen[p].game).kind = over
    BY DEF Plain
  <2> HIDE DEF over
  <2>4. RequestsTyped'
    BY <2>1, <2>2, <2>3, PlainType, BeginType DEF PC
  <2> QED
    BY <2>2, <2>4 DEF TypeOK, RequestsTyped, scoreVars, postVars
<1>5. CASE Cancel(r, p)
  <2>1. RequestsTyped'
    BY <1>0, <1>5, IdleType, BeginType DEF Cancel, PC, Live, Idle, Request
  <2> QED
    BY <1>5, <2>1 DEF Cancel, TypeOK, RequestsTyped, scoreVars, postVars
<1>6. CASE OpenScoreDialog(r, p)
  BY <1>0, <1>6 DEF OpenScoreDialog, TypeOK, scoreVars, Live
<1> QED
  BY <1>1, <1>2, <1>3, <1>4, <1>5, <1>6

LEMMA ScoreTypeOK ==
  ASSUME TypeOK, NEW r \in Slot,
         InsertScore(r) \/ \E d \in dialogs : SubmitScore(r, d)
  PROVE  TypeOK'
<1>1. ASSUME NEW d \in dialogs, SubmitScore(r, d) PROVE TypeOK'
  <2>1. d.game \in GameId /\ d.post \in PostId
    BY DEF TypeOK
  <2>2. RequestsTyped'
    BY <1>1, <2>1, IdleType, BeginType DEF SubmitScore, PC, Idle, Request
  <2> QED
    BY <1>1, <2>2 DEF SubmitScore, TypeOK, RequestsTyped, scoreVars
<1>2. CASE InsertScore(r)
  <2>0. req[r].game \in GameId /\ req[r].post \in PostId
    BY <1>2 DEF InsertScore, At, TypeOK
  <2>1. RequestsTyped'
    BY <1>2, <2>0, ReturnType, GotoType DEF InsertScore, At, PC
  <2>2. /\ version' \in [GameId -> 0 .. MaxVersion]
        /\ lateAt' \in [GameId -> 0 .. MaxVersion]
        /\ reached' \subseteq GameId
    BY <1>2, <2>0, BoardsAssumption
    DEF InsertScore, ChangesLeft, Scored, scoreVars, TypeOK
  <2> QED
    BY <1>2, <2>1, <2>2 DEF InsertScore, TypeOK, RequestsTyped, postVars
<1> QED
  BY <1>1, <1>2

LEMMA AnswerTypeOK ==
  ASSUME TypeOK, NEW r \in Slot,
         End(r) \/ Announce(r) \/ Render(r) \/ Respond(r) \/ Fail(r)
  PROVE  TypeOK'
<1>1. CASE End(r)
  <2>0. /\ req[r].game \in GameId /\ req[r].post \in PostId
        /\ req[r].show.kind \in Ending
    BY <1>1 DEF End, At, TypeOK
  <2>1. RequestsTyped'
    BY <1>1, <2>0, GotoType DEF End, At, PC
  <2>2. /\ status' \in [GameId -> {"absent", "unfinished"} \cup Ending]
        /\ reached' \subseteq GameId
    BY <1>1, <2>0 DEF End, TypeOK
  <2> QED
    BY <1>1, <2>1, <2>2 DEF End, TypeOK, RequestsTyped, postVars
<1>2. CASE Announce(r)
  <2>1. RequestsTyped'
    BY <1>2, GotoType DEF Announce, At, PC, TypeOK
  <2>2. announced' \in [GameId -> Nat]
    BY <1>2 DEF Announce, At, TypeOK
  <2> QED
    BY <1>2, <2>1, <2>2 DEF Announce, TypeOK, RequestsTyped, scoreVars
<1>3. CASE Render(r)
  <2>0. req[r].game \in GameId /\ req[r].post \in PostId
    BY <1>3 DEF Render, At, TypeOK
  <2>1. RequestsTyped'
    BY <1>3, <2>0, BoardType, BeginType DEF Render, PC
  <2> QED
    BY <1>3, <2>1 DEF Render, TypeOK, RequestsTyped, scoreVars, postVars
<1>4. CASE Respond(r)
  <2>0. req[r].post \in PostId /\ req[r].show \in Screen /\ Names(req[r].show)
    BY <1>4 DEF Respond, At, TypeOK, Request
  <2>1. RequestsTyped'
    BY <1>4, ReturnType DEF Respond
  <2>2. screen' \in [PostId -> Screen] /\ \A q \in PostId : Names(screen'[q])
    BY <1>4, <2>0, ShowType DEF Respond
  <2> QED
    BY <1>4, <2>1, <2>2 DEF Respond, TypeOK, RequestsTyped, scoreVars
<1>5. CASE Fail(r)
  <2>1. RequestsTyped'
    BY <1>5, ReturnType DEF Fail
  <2>2. failures' \in 0 .. MaxFailures
    BY <1>5, BoardsAssumption DEF Fail, TypeOK
  <2> QED
    BY <1>5, <2>1, <2>2 DEF Fail, TypeOK, RequestsTyped, scoreVars, postVars
<1> QED
  BY <1>1, <1>2, <1>3, <1>4, <1>5

LEMMA RootPostTypeOK ==
  ASSUME TypeOK, NEW r \in Slot,
         \/ Repost(r) \/ (\E g \in GameId : LoadGame(r, g)) \/ StartGame(r)
         \/ DeleteOldPost(r) \/ CreateGame(r) \/ ReadBoard(r)
         \/ PostAttachment(r) \/ UpdateGamePostID(r)
  PROVE  TypeOK'
<1>1. CASE Repost(r)
  <2>1. RequestsTyped'
    BY <1>1, IdleType, BeginType, SameRequestsType
    DEF Repost, UnfinishedGames, PC, TypeOK, Idle, Request
  <2> QED
    BY <1>1, <2>1 DEF Repost, TypeOK, RequestsTyped, scoreVars, postVars
<1>2. ASSUME NEW g \in GameId, LoadGame(r, g) PROVE TypeOK'
  <2>1. RequestsTyped'
    BY <1>2, IdleType, BeginType DEF LoadGame, PC, TypeOK, Idle, Request
  <2> QED
    BY <1>2, <2>1 DEF LoadGame, TypeOK, RequestsTyped, scoreVars, postVars
<1>3. CASE StartGame(r)
  <2>1. RequestsTyped'
    BY <1>3, IdleType, BeginType DEF StartGame, PC, Idle, Request
  <2> QED
    BY <1>3, <2>1 DEF StartGame, TypeOK, RequestsTyped, scoreVars, postVars
<1>4. CASE DeleteOldPost(r)
  <2>0. req[r].post \in PostId \cup {NoPost}
    BY DEF TypeOK, Request
  <2>1. RequestsTyped'
    BY <1>4, GotoType DEF DeleteOldPost, At, PC
  <2>2. /\ screen' \in [PostId -> Screen]
        /\ \A q \in PostId : Names(screen'[q])
        /\ failures' \in 0 .. MaxFailures
    <3>1. CASE UNCHANGED screen
      BY <1>4, <3>1, BoardsAssumption DEF DeleteOldPost, TypeOK
    <3>2. CASE /\ req[r].post \in PostId
               /\ Show(req[r].post, Blank("deleted"))
               /\ UNCHANGED failures
      BY <3>2, BlankType, ShowType DEF TypeOK
    <3> QED
      BY <1>4, <2>0, <3>1, <3>2 DEF DeleteOldPost
  <2> QED
    BY <1>4, <2>1, <2>2 DEF DeleteOldPost, TypeOK, RequestsTyped, scoreVars
<1>5. CASE CreateGame(r)
  <2>1. PICK g \in GameId : /\ status' = [status EXCEPT ![g] = "unfinished"]
                            /\ Begin(r, "post", g, NoPost, Plain("board", g))
    BY <1>5 DEF CreateGame
  <2>2. RequestsTyped'
    BY <2>1, PlainType, BeginType DEF PC, Live
  <2> QED
    BY <1>5, <2>1, <2>2
    DEF CreateGame, TypeOK, RequestsTyped, scoreVars, postVars
<1>6. CASE ReadBoard(r)
  <2>0. req[r].game \in GameId /\ req[r].post \in PostId \cup {NoPost}
    BY <1>6 DEF ReadBoard, At, TypeOK, Request
  <2>1. RequestsTyped'
    BY <1>6, <2>0, BoardType, BeginType DEF ReadBoard, PC
  <2> QED
    BY <1>6, <2>1 DEF ReadBoard, TypeOK, RequestsTyped, scoreVars, postVars
<1>7. CASE PostAttachment(r)
  <2>0. req[r].game \in GameId /\ req[r].show \in Screen /\ Names(req[r].show)
    BY <1>7 DEF PostAttachment, At, TypeOK, Request
  <2>1. PICK p \in PostId : /\ screen' = [screen EXCEPT ![p] = req[r].show]
                            /\ Begin(r, "save", req[r].game, p, Idle.show)
    BY <1>7 DEF PostAttachment, Unused
  <2>2. RequestsTyped'
    BY <2>0, <2>1, IdleType, BeginType DEF PC, Idle, Request
  <2>3. screen' \in [PostId -> Screen] /\ \A q \in PostId : Names(screen'[q])
    BY <2>0, <2>1 DEF TypeOK
  <2> QED
    BY <1>7, <2>2, <2>3 DEF PostAttachment, TypeOK, RequestsTyped, scoreVars
<1>8. CASE UpdateGamePostID(r)
  <2>0. req[r].game \in GameId /\ req[r].post \in PostId
    BY <1>8 DEF UpdateGamePostID, At, TypeOK
  <2>1. RequestsTyped'
    BY <1>8, ReturnType DEF UpdateGamePostID
  <2>2. postOf' \in [GameId -> PostId \cup {NoPost}]
    BY <1>8, <2>0 DEF UpdateGamePostID, TypeOK
  <2> QED
    BY <1>8, <2>1, <2>2 DEF UpdateGamePostID, TypeOK, RequestsTyped, scoreVars
<1> QED
  BY <1>1, <1>2, <1>3, <1>4, <1>5, <1>6, <1>7, <1>8

LEMMA NextTypeOK == TypeOK /\ [Next]_vars => TypeOK'
<1> SUFFICES ASSUME TypeOK, [Next]_vars PROVE TypeOK'
  OBVIOUS
<1>1. ASSUME NEW g \in GameId, DeletePlayer(g) PROVE TypeOK'
  <2>1. version' \in [GameId -> 0 .. MaxVersion] /\ reached' \subseteq GameId
    BY <1>1, BoardsAssumption DEF DeletePlayer, ChangesLeft, TypeOK
  <2> QED
    BY <1>1, <2>1 DEF DeletePlayer, TypeOK, postVars
<1>2. CASE UNCHANGED vars
  BY <1>2 DEF vars, TypeOK
<1> QED
  BY <1>1, <1>2, TapTypeOK, ScoreTypeOK, AnswerTypeOK, RootPostTypeOK DEF Next

\* Posts, dialogs and the locals of every request keep their types; a screen
\* with controls always names the game they drive.
THEOREM TypeCorrect == Spec => []TypeOK
  BY InitTypeOK, NextTypeOK, PTL DEF Spec

(***************************************************************************)
(* One announcement.  The request that is about to announce the end of a   *)
(* game is the only one of that game, its game has ended, and nobody has   *)
(* announced it: the call that ended the game let it pass, no other.       *)
(***************************************************************************)
Announcer ==
  /\ \A r \in Slot : At(r, "announce") =>
       Over(req[r].game) /\ announced[req[r].game] = 0
  /\ \A r, q \in Slot :
       At(r, "announce") /\ At(q, "announce") /\ req[r].game = req[q].game
         => r = q

EndInv == TypeOK /\ AnnouncedOnce /\ Announcer

\* A step that ends no game, announces nothing and moves no request to the
\* announcement.
LEMMA NobodyNew ==
  ASSUME EndInv, TypeOK', UNCHANGED announced,
         \A g \in GameId : Over(g) => status'[g] = status[g],
         \A q \in Slot : req'[q].pc = "announce" => req'[q] = req[q]
  PROVE  EndInv'
<1>1. AnnouncedOnce'
  BY DEF EndInv, AnnouncedOnce, Over
<1>2. Announcer'
  BY DEF EndInv, Announcer, At, Over, TypeOK
<1> QED
  BY <1>1, <1>2 DEF EndInv

LEMMA NextEndInv == EndInv /\ [Next]_vars => EndInv'
<1> SUFFICES ASSUME EndInv, [Next]_vars PROVE EndInv'
  OBVIOUS
<1> USE DEF At
<1>0. TypeOK /\ TypeOK' /\ req \in [Slot -> Request]
      /\ status \in [GameId -> {"absent", "unfinished"} \cup Ending]
  BY NextTypeOK DEF EndInv, TypeOK
<1>1. ASSUME NEW r \in Slot, End(r) PROVE EndInv'
  <2> DEFINE g == req[r].game
  <2>0. g \in GameId /\ req[r].show.kind \in Ending
    BY <1>0, <1>1 DEF End, TypeOK
  <2>1. CASE status[g] # "unfinished"
    <3>1. status' = status /\ Goto(r, "respond") /\ announced' = announced
      BY <1>1, <2>1 DEF End, postVars
    <3> QED
      BY <1>0, <3>1, NobodyNew DEF Goto
  <2>2. CASE status[g] = "unfinished"
    <3>1. /\ status' = [status EXCEPT ![g] = req[r].show.kind]
          /\ Goto(r, "announce") /\ announced' = announced
      BY <1>1, <2>2 DEF End, postVars
    <3>2. ~Over(g) /\ status'[g] \in Ending /\ announced[g] = 0
      <4>1. ~Over(g)
        BY <2>2 DEF Over, Ending
      <4>2. status'[g] \in Ending
        BY <1>0, <2>0, <3>1
      <4>3. announced[g] \in Nat /\ announced[g] <= 1 /\ announced[g] # 1
        BY <1>0, <2>0, <4>1 DEF EndInv, AnnouncedOnce, TypeOK
      <4> QED
        BY <4>1, <4>2, <4>3
    <3>3. \A h \in GameId : Over(h) => Over(h)'
      BY <1>0, <2>0, <3>1 DEF Over
    <3>4. \A q \in Slot \ {r} :
            /\ req'[q] = req[q]
            /\ req[q].pc = "announce" => req[q].game \in GameId \ {g}
      <4>1. \A q \in Slot \ {r} : req'[q] = req[q]
        BY <1>0, <3>1 DEF Goto
      <4>2. \A q \in Slot : req[q].pc = "announce" =>
              req[q].game \in GameId /\ req[q].game # g
        BY <1>0, <3>2 DEF TypeOK, EndInv, Announcer
      <4> QED
        BY <4>1, <4>2
    <3>5. req'[r].game = g
      BY <1>0, <3>1 DEF Goto
    <3>6. AnnouncedOnce'
      BY <3>1, <3>3 DEF EndInv, AnnouncedOnce
    <3>7. Announcer'
      BY <3>1, <3>2, <3>3, <3>4, <3>5, <2>0 DEF EndInv, Announcer, Over
    <3> QED
      BY <1>0, <3>6, <3>7 DEF EndInv
  <2> QED
    BY <2>1, <2>2
<1>2. ASSUME NEW r \in Slot, Announce(r) PROVE EndInv'
  <2> DEFINE g == req[r].game
  <2>0. /\ g \in GameId /\ announced[g] = 0 /\ Over(g)
        /\ announced \in [GameId -> Nat]
    BY <1>0, <1>2 DEF Announce, TypeOK, EndInv, Announcer
  <2>1. /\ status' = status /\ Goto(r, "respond")
        /\ \/ announced' = [announced EXCEPT ![g] = @ + 1]
           \/ announced' = announced
    BY <1>2 DEF Announce
  <2>2. AnnouncedOnce'
    BY <2>0, <2>1 DEF EndInv, AnnouncedOnce, Over
  <2>3. \A q \in Slot : req'[q].pc = "announce" =>
          /\ q # r /\ req'[q] = req[q]
          /\ req[q].game \in GameId \ {g}
    BY <1>0, <1>2, <2>1 DEF Goto, Announce, EndInv, Announcer, TypeOK
  <2>4. Announcer'
    BY <2>0, <2>1, <2>3 DEF EndInv, Announcer, Over
  <2> QED
    BY <1>0, <2>2, <2>4 DEF EndInv
<1>3. ASSUME NEW r \in Slot,
             \/ \E p \in PostId : \/ EditLast(r, p) \/ ConfirmEdit(r, p)
                                  \/ EndPrompt(r, p) \/ ConfirmEnd(r, p)
                                  \/ Cancel(r, p) \/ OpenScoreDialog(r, p)
             \/ \E d \in dialogs : SubmitScore(r, d)
             \/ \E g \in GameId : LoadGame(r, g)
             \/ Repost(r) \/ StartGame(r) \/ Render(r) \/ ReadBoard(r)
      PROVE  EndInv'
  <2>1. UNCHANGED <<status, announced>>
    BY <1>3 DEF EditLast, ConfirmEdit, EndPrompt, ConfirmEnd, Cancel,
      OpenScoreDialog, SubmitScore, LoadGame, Repost, StartGame, Render,
      ReadBoard, postVars
  <2>2. \/ req' = req
        \/ \E pc, h, p, s : pc # "announce" /\ Begin(r, pc, h, p, s)
    BY <1>3 DEF EditLast, ConfirmEdit, EndPrompt, ConfirmEnd, Cancel,
      OpenScoreDialog, SubmitScore, LoadGame, Repost, StartGame, Render,
      ReadBoard, PC
  <2>3. \A q \in Slot : req'[q].pc = "announce" => req'[q] = req[q]
    BY <1>0, <2>2 DEF Begin
  <2> QED
    BY <1>0, <2>1, <2>3, NobodyNew
<1>4. ASSUME NEW r \in Slot,
             \/ InsertScore(r) \/ DeleteOldPost(r) \/ Respond(r)
             \/ PostAttachment(r) \/ UpdateGamePostID(r) \/ Fail(r)
      PROVE  EndInv'
  <2>1. UNCHANGED <<status, announced>>
    BY <1>4 DEF InsertScore, DeleteOldPost, Respond, PostAttachment,
      UpdateGamePostID, Fail, postVars
  <2>2. \/ Return(r) \/ Goto(r, "render") \/ Goto(r, "read")
        \/ \E h, p, s : Begin(r, "save", h, p, s)
    BY <1>4 DEF InsertScore, DeleteOldPost, Respond, PostAttachment,
      UpdateGamePostID, Fail
  <2>3. \A q \in Slot : req'[q].pc = "announce" => req'[q] = req[q]
    <3>1. CASE Return(r)
      BY <1>0, <3>1 DEF Return, Idle
    <3>2. CASE Goto(r, "render") \/ Goto(r, "read")
      BY <1>0, <3>2 DEF Goto, Request
    <3>3. CASE \E h, p, s : Begin(r, "save", h, p, s)
      BY <1>0, <3>3 DEF Begin
    <3> QED
      BY <2>2, <3>1, <3>2, <3>3
  <2> QED
    BY <1>0, <2>1, <2>3, NobodyNew
<1>5. ASSUME NEW r \in Slot, CreateGame(r) PROVE EndInv'
  <2>1. PICK g \in GameId : /\ status[g] = "absent"
                            /\ status' = [status EXCEPT ![g] = "unfinished"]
                            /\ Begin(r, "post", g, NoPost, Plain("board", g))
    BY <1>5 DEF CreateGame
  <2>2. announced' = announced
    BY <1>5 DEF CreateGame, postVars
  <2>3. \A h \in GameId : Over(h) => status'[h] = status[h]
    BY <1>0, <2>1 DEF Over, Ending
  <2>4. \A q \in Slot : req'[q].pc = "announce" => req'[q] = req[q]
    BY <1>0, <2>1 DEF Begin
  <2> QED
    BY <1>0, <2>2, <2>3, <2>4, NobodyNew
<1>6. ASSUME NEW g \in GameId, DeletePlayer(g) PROVE EndInv'
  BY <1>0, <1>6, NobodyNew DEF DeletePlayer, postVars
<1>7. CASE UNCHANGED vars
  BY <1>0, <1>7, NobodyNew DEF vars
<1> QED
  BY <1>1, <1>2, <1>3, <1>4, <1>5, <1>6, <1>7 DEF Next

\* However many confirms of an end overlap or are repeated, and whatever fails,
\* its announcement is posted at most once, and never for a game that goes on.
THEOREM EndsAreAnnouncedOnce == Spec => []AnnouncedOnce
<1>1. Init => EndInv
  BY InitTypeOK DEF Init, EndInv, AnnouncedOnce, Announcer, At, Idle
<1>2. EndInv => AnnouncedOnce
  BY DEF EndInv
<1> QED
  BY <1>1, <1>2, NextEndInv, PTL DEF Spec

-----------------------------------------------------------------------------
(***************************************************************************)
(* One thing at a time.                                                    *)
(***************************************************************************)

(***************************************************************************)
(* What holds for any number of slots: a post stays with its game until it *)
(* is deleted, an end is shown of games that have ended, and nothing that  *)
(* is shown, or about to be, is ahead of the scores.                       *)
(***************************************************************************)
Belongs(p, g) ==
  \/ screen[p].kind = "deleted"
  \/ screen[p].kind \in Live \cup Ending /\ screen[p].game = g

\* The requests that are about to show the end of a game they found ended, or
\* ended themselves.
ShowsEnd(q) ==
  q.pc \in {"announce", "respond"} /\ q.show.kind \in Ending

NotAhead(s) == s.kind = "board" => s.version <= version[s.game]

PostedPost(p) ==
  /\ screen[p].kind \in Live => status[screen[p].game] # "absent"
  /\ screen[p].kind \in Ending => Over(screen[p].game)
  /\ NotAhead(screen[p])

PostedGame(g) ==
  /\ postOf[g] # NoPost => Belongs(postOf[g], g)
  /\ lateAt[g] <= version[g]
  /\ status[g] = "absent" => postOf[g] = NoPost /\ version[g] = 0

\* The steps of a handler that holds the post it came from, or is to replace.
HoldsPost == {"render", "respond", "end", "announce", "insert", "save", "delete"}

PostedRequest(q) ==
  /\ q.pc \in HoldsPost /\ q.post # NoPost => Belongs(q.post, q.game)
  /\ q.pc \in {"respond", "end", "announce"} =>
       q.show.game = q.game /\ q.show.kind \in Live \cup Ending
  /\ q.pc = "announce" => q.show.kind \in Ending
  /\ ShowsEnd(q) => Over(q.game)
  /\ q.pc \notin {"idle", "create"} => status[q.game] # "absent"
  /\ q.pc = "post" => q.show.kind = "board" /\ q.show.game = q.game
  /\ NotAhead(q.show)

Posted ==
  /\ TypeOK
  /\ \A p \in PostId : PostedPost(p)
  /\ \A g \in GameId : PostedGame(g)
  /\ \A d \in dialogs : Belongs(d.post, d.game)
  /\ \A r \in Slot : PostedRequest(req[r])

\* What every step keeps.
Kept ==
  /\ \A g \in GameId : /\ Over(g) => status'[g] = status[g]
                       /\ status[g] # "absent" => status'[g] # "absent"
                       /\ version[g] <= version'[g]
  /\ \A p \in PostId : \A g \in GameId : Belongs(p, g) => Belongs(p, g)'

Tapping(r) ==
  \/ \E p \in PostId : \/ EditLast(r, p) \/ ConfirmEdit(r, p)
                       \/ EndPrompt(r, p) \/ ConfirmEnd(r, p)
                       \/ Cancel(r, p) \/ OpenScoreDialog(r, p)
  \/ \E d \in dialogs : SubmitScore(r, d)
  \/ \E g \in GameId : LoadGame(r, g)
  \/ Repost(r) \/ StartGame(r)

LEMMA SameScreens ==
  ASSUME UNCHANGED screen, NEW p, NEW g
  PROVE  Belongs(p, g)' = Belongs(p, g)
  BY DEF Belongs

LEMMA NextKept == Posted /\ [Next]_vars => Kept
<1> SUFFICES ASSUME Posted, [Next]_vars PROVE Kept
  OBVIOUS
<1>0. /\ TypeOK /\ req \in [Slot -> Request] /\ screen \in [PostId -> Screen]
      /\ version \in [GameId -> 0 .. MaxVersion]
      /\ status \in [GameId -> {"absent", "unfinished"} \cup Ending]
      /\ \A r \in Slot : PostedRequest(req[r])
      /\ MaxVersion \in Nat
  BY BoardsAssumption DEF Posted, TypeOK
<1>1. CASE UNCHANGED <<status, version, screen>>
  BY <1>0, <1>1, SameScreens DEF Kept
<1>2. ASSUME NEW r \in Slot, Tapping(r) PROVE Kept
  <2>1. UNCHANGED <<status, screen>>
    BY <1>2 DEF Tapping, EditLast, ConfirmEdit, EndPrompt, ConfirmEnd, Cancel,
      OpenScoreDialog, SubmitScore, LoadGame, Repost, StartGame, postVars
  <2>2. \/ version' = version
        \/ \E g \in GameId : version' = [version EXCEPT ![g] = @ + 1]
    <3>1. ASSUME NEW p \in PostId, ConfirmEdit(r, p)
          PROVE  \/ version' = version
                 \/ version' = [version EXCEPT ![screen[p].game] = @ + 1]
      BY <3>1 DEF ConfirmEdit
    <3>2. ASSUME NEW p \in PostId, ConfirmEdit(r, p)
          PROVE  screen[p].game \in GameId
      BY <1>0, <3>2 DEF ConfirmEdit, Tap, TypeOK, Names, Live
    <3> QED
      BY <1>2, <3>1, <3>2 DEF Tapping, EditLast, EndPrompt, ConfirmEnd, Cancel,
        OpenScoreDialog, SubmitScore, LoadGame, Repost, StartGame, scoreVars
  <2> QED
    BY <1>0, <2>1, <2>2, SameScreens DEF Kept
<1>3. ASSUME NEW r \in Slot, End(r) PROVE Kept
  <2>1. /\ UNCHANGED <<version, screen>>
        /\ req[r].game \in GameId /\ req[r].show.kind \in Ending
        /\ \/ status' = status
           \/ /\ status[req[r].game] = "unfinished"
              /\ status' = [status EXCEPT ![req[r].game] = req[r].show.kind]
    BY <1>0, <1>3 DEF End, At, TypeOK, postVars
  <2> QED
    BY <1>0, <2>1, SameScreens DEF Kept, Over, Ending
<1>4. ASSUME NEW r \in Slot, Respond(r) PROVE Kept
  <2>1. /\ UNCHANGED <<status, version>> /\ req[r].post \in PostId
        /\ req[r].show.game = req[r].game /\ req[r].game \in GameId
        /\ req[r].show.kind \in Live \cup Ending
        /\ Belongs(req[r].post, req[r].game)
        /\ Show(req[r].post, req[r].show)
    BY <1>0, <1>4, BoardsAssumption
    DEF Respond, At, TypeOK, PostedRequest, HoldsPost, scoreVars
  <2> QED
    BY <1>0, <2>1 DEF Kept, Belongs, Show, Live, Ending
<1>5. ASSUME NEW r \in Slot, InsertScore(r) PROVE Kept
  <2>1. /\ UNCHANGED <<status, screen>> /\ req[r].game \in GameId
        /\ \/ version' = version
           \/ version' = [version EXCEPT ![req[r].game] = @ + 1]
    BY <1>0, <1>5 DEF InsertScore, At, Scored, TypeOK, scoreVars, postVars
  <2> QED
    BY <1>0, <2>1, SameScreens DEF Kept
<1>6. ASSUME NEW r \in Slot, DeleteOldPost(r) PROVE Kept
  <2>1. /\ UNCHANGED <<status, version>>
        /\ \/ screen' = screen
           \/ req[r].post \in PostId /\ Show(req[r].post, Blank("deleted"))
    BY <1>0, <1>6 DEF DeleteOldPost, scoreVars, Request
  <2> QED
    BY <1>0, <2>1, SameScreens DEF Kept, Belongs, Show, Blank
<1>7. ASSUME NEW r \in Slot, CreateGame(r) PROVE Kept
  <2>1. /\ UNCHANGED <<version, screen>>
        /\ \E g \in GameId : /\ status[g] = "absent"
                             /\ status' = [status EXCEPT ![g] = "unfinished"]
    BY <1>7 DEF CreateGame, scoreVars, postVars
  <2> QED
    BY <1>0, <2>1, SameScreens DEF Kept, Over, Ending
<1>8. ASSUME NEW r \in Slot, PostAttachment(r) PROVE Kept
  <2>1. /\ UNCHANGED <<status, version>>
        /\ \E p \in Unused : screen' = [screen EXCEPT ![p] = req[r].show]
    BY <1>8 DEF PostAttachment, scoreVars
  <2> QED
    BY <1>0, <2>1 DEF Kept, Belongs, Unused, Live, Ending
<1>9. ASSUME NEW r \in Slot,
             \/ Announce(r) \/ Render(r) \/ ReadBoard(r) \/ UpdateGamePostID(r)
             \/ Fail(r)
      PROVE  Kept
  BY <1>1, <1>9
  DEF Announce, Render, ReadBoard, UpdateGamePostID, Fail, scoreVars, postVars
<1>10. ASSUME NEW g \in GameId, DeletePlayer(g) PROVE Kept
  <2>1. /\ UNCHANGED <<status, screen>>
        /\ version' = [version EXCEPT ![g] = @ + 1]
    BY <1>10 DEF DeletePlayer, postVars
  <2> QED
    BY <1>0, <2>1, SameScreens DEF Kept
<1>11. CASE UNCHANGED vars
  BY <1>1, <1>11 DEF vars, scoreVars
<1> QED
  BY <1>2, <1>3, <1>4, <1>5, <1>6, <1>7, <1>8, <1>9, <1>10, <1>11
  DEF Next, Tapping

LEMMA NotAheadStays ==
  ASSUME TypeOK, TypeOK', Kept, NEW s \in Screen, Names(s), NotAhead(s)
  PROVE  s.kind = "board" => s.version <= version'[s.game]
<1> SUFFICES ASSUME s.kind = "board" PROVE s.version <= version'[s.game]
  OBVIOUS
<1>1. /\ s.game \in GameId /\ s.version \in Int /\ s.version <= version[s.game]
      /\ version[s.game] <= version'[s.game]
  BY BoardsAssumption DEF Names, Live, Screen, NotAhead, Kept
<1>2. version[s.game] \in Int /\ version'[s.game] \in Int
  BY <1>1, BoardsAssumption DEF TypeOK
<1> QED
  BY <1>1, <1>2

LEMMA OldPosts ==
  ASSUME Posted, TypeOK', Kept, NEW p \in PostId, screen'[p] = screen[p]
  PROVE  PostedPost(p)'
<1>1. screen[p] \in Screen /\ Names(screen[p]) /\ PostedPost(p)
  BY DEF Posted, TypeOK
<1>2. screen[p].kind = "board" => screen[p].version <= version'[screen[p].game]
  BY <1>1, NotAheadStays DEF Posted, PostedPost
<1> QED
  BY <1>1, <1>2
  DEF PostedPost, Kept, Over, Names, NotAhead

LEMMA PostsNext ==
  ASSUME Posted, TypeOK', Kept, [Next]_vars
  PROVE  \A p \in PostId : PostedPost(p)'
<1> SUFFICES ASSUME NEW p \in PostId, screen'[p] # screen[p]
             PROVE  PostedPost(p)'
  BY OldPosts
<1>0. /\ TypeOK /\ req \in [Slot -> Request] /\ screen \in [PostId -> Screen]
      /\ \A r \in Slot : PostedRequest(req[r]) /\ Names(req[r].show)
  BY DEF Posted, TypeOK
<1>1. CASE \E r \in Slot : Respond(r)
  <2>1. PICK r \in Slot : Respond(r)
    BY <1>1
  <2>2. screen'[p] = req[r].show /\ status' = status /\ version' = version
    BY <1>0, <2>1 DEF Respond, Show, scoreVars
  <2>3. ShowsEnd(req[r]) \/ req[r].show.kind \notin Ending
    BY <2>1 DEF Respond, At, ShowsEnd
  <2> QED
    BY <1>0, <2>1, <2>2, <2>3
    DEF Respond, At, PostedPost, PostedRequest, NotAhead, Over
<1>2. CASE \E r \in Slot : PostAttachment(r)
  <2>1. PICK r \in Slot : PostAttachment(r)
    BY <1>2
  <2>2. screen'[p] = req[r].show /\ status' = status /\ version' = version
    BY <1>0, <2>1 DEF PostAttachment, scoreVars, Unused
  <2> QED
    BY <1>0, <2>1, <2>2
    DEF PostAttachment, At, PostedPost, PostedRequest, NotAhead, Ending, Live
<1>3. CASE \E r \in Slot : DeleteOldPost(r)
  <2>1. screen'[p] = Blank("deleted")
    BY <1>0, <1>3 DEF DeleteOldPost, Show
  <2> QED
    BY <2>1 DEF PostedPost, NotAhead, Blank, Ending, Live
<1>4. CASE ~\E r \in Slot : Respond(r) \/ PostAttachment(r) \/ DeleteOldPost(r)
  <2>1. UNCHANGED screen
    BY <1>4
    DEF Next, EditLast, ConfirmEdit, EndPrompt, ConfirmEnd, Cancel,
        OpenScoreDialog, SubmitScore, LoadGame, Repost, StartGame, End,
        Announce, Render, InsertScore, CreateGame, ReadBoard,
        UpdateGamePostID, Fail, DeletePlayer, vars, postVars
  <2> QED
    BY <2>1
<1> QED
  BY <1>1, <1>2, <1>3, <1>4

\* A game that has no row yet gets no scores.
LEMMA UnbornNext ==
  ASSUME Posted, Kept, [Next]_vars, NEW g \in GameId, status'[g] = "absent"
  PROVE  status[g] = "absent" /\ version'[g] = version[g]
<1>0. /\ TypeOK /\ req \in [Slot -> Request] /\ status[g] = "absent"
      /\ version \in [GameId -> 0 .. MaxVersion]
      /\ \A r \in Slot : PostedRequest(req[r])
      /\ \A p \in PostId : PostedPost(p)
  BY DEF Posted, TypeOK, Kept
<1>1. ASSUME NEW r \in Slot, InsertScore(r) PROVE version'[g] = version[g]
  <2>1. req[r].game # g
    BY <1>0, <1>1 DEF InsertScore, At, PostedRequest
  <2> QED
    BY <1>0, <1>1, <2>1 DEF InsertScore, Scored, scoreVars
<1>2. ASSUME NEW r \in Slot, NEW p \in PostId, ConfirmEdit(r, p)
      PROVE  version'[g] = version[g]
  <2>1. screen[p].game # g
    BY <1>0, <1>2 DEF ConfirmEdit, Tap, PostedPost, Live
  <2> QED
    BY <1>0, <1>2, <2>1 DEF ConfirmEdit
<1>3. ASSUME NEW h \in GameId, DeletePlayer(h) PROVE version'[g] = version[g]
  BY <1>0, <1>3 DEF DeletePlayer
<1>4. \/ version' = version
      \/ \E h \in GameId : DeletePlayer(h)
      \/ \E r \in Slot : InsertScore(r) \/ \E p \in PostId : ConfirmEdit(r, p)
  BY DEF Next, EditLast, EndPrompt, ConfirmEnd, Cancel, OpenScoreDialog,
    SubmitScore, LoadGame, Repost, StartGame, End, Announce, Render, Respond,
    CreateGame, ReadBoard, DeleteOldPost, PostAttachment, UpdateGamePostID,
    Fail, vars, scoreVars
<1> QED
  BY <1>0, <1>1, <1>2, <1>3, <1>4

LEMMA GamesNext ==
  ASSUME Posted, TypeOK', Kept, [Next]_vars
  PROVE  \A g \in GameId : PostedGame(g)'
<1> SUFFICES ASSUME NEW g \in GameId PROVE PostedGame(g)'
  OBVIOUS
<1>0. /\ TypeOK /\ req \in [Slot -> Request] /\ PostedGame(g)
      /\ version \in [GameId -> Int] /\ version' \in [GameId -> Int]
      /\ lateAt \in [GameId -> Int]
      /\ \A r \in Slot : PostedRequest(req[r])
  BY BoardsAssumption DEF Posted, TypeOK
<1>1. postOf' # postOf => \E r \in Slot : UpdateGamePostID(r)
  BY DEF Next, EditLast, ConfirmEdit, EndPrompt, ConfirmEnd, Cancel,
        OpenScoreDialog, SubmitScore, LoadGame, Repost, StartGame, End,
        Announce, Render, Respond, InsertScore, CreateGame, ReadBoard,
        DeleteOldPost, PostAttachment, Fail, DeletePlayer, vars, postVars
<1>2. CASE \E r \in Slot : UpdateGamePostID(r)
  <2>1. PICK r \in Slot : UpdateGamePostID(r)
    BY <1>2
  <2>2. /\ UNCHANGED <<status, version, lateAt, screen>>
        /\ \/ postOf'[g] = postOf[g]
           \/ /\ g = req[r].game /\ postOf'[g] = req[r].post
              /\ req[r].pc = "save" /\ req[r].post \in PostId
    BY <1>0, <2>1 DEF UpdateGamePostID, At, scoreVars, TypeOK
  <2>3. CASE postOf'[g] = postOf[g]
    BY <1>0, <2>2, <2>3 DEF PostedGame, Belongs
  <2>4. CASE postOf'[g] # postOf[g]
    <3>1. Belongs(req[r].post, g)
      BY <1>0, <2>2, <2>4, BoardsAssumption DEF PostedRequest, HoldsPost
    <3>2. status[g] # "absent"
      BY <1>0, <2>2, <2>4 DEF PostedRequest
    <3> QED
      BY <1>0, <2>2, <2>4, <3>1, <3>2 DEF PostedGame, Belongs
  <2> QED
    BY <2>3, <2>4
<1>3. CASE UNCHANGED postOf
  <2>1. postOf'[g] # NoPost => Belongs(postOf[g], g)'
    BY <1>0, <1>3 DEF PostedGame, Kept, TypeOK
  <2>2. lateAt'[g] <= version'[g]
    <3>1. CASE lateAt' = lateAt
      BY <1>0, <3>1 DEF PostedGame, Kept
    <3>2. CASE \E r \in Slot : InsertScore(r)
      <4>1. PICK r \in Slot : InsertScore(r)
        BY <3>2
      <4>2. CASE UNCHANGED scoreVars
        BY <1>0, <4>2 DEF scoreVars, PostedGame
      <4>3. CASE Scored(req[r].game, req[r].post)
        BY <1>0, <4>3 DEF Scored, PostedGame
      <4> QED
        BY <4>1, <4>2, <4>3 DEF InsertScore
    <3>3. lateAt' = lateAt \/ \E r \in Slot : InsertScore(r)
      BY DEF Next, EditLast, ConfirmEdit, EndPrompt, ConfirmEnd, Cancel,
        OpenScoreDialog, SubmitScore, LoadGame, Repost, StartGame, End,
        Announce, Render, Respond, CreateGame, ReadBoard, DeleteOldPost,
        PostAttachment, UpdateGamePostID, Fail, DeletePlayer, vars, scoreVars
    <3> QED
      BY <3>1, <3>2, <3>3
  <2>3. status'[g] = "absent" => status[g] = "absent" /\ version'[g] = version[g]
    BY UnbornNext
  <2> QED
    BY <1>0, <1>3, <2>1, <2>2, <2>3 DEF PostedGame, Kept
<1> QED
  BY <1>1, <1>2, <1>3

LEMMA DialogsNext ==
  ASSUME Posted, TypeOK', Kept, [Next]_vars
  PROVE  \A d \in dialogs' : Belongs(d.post, d.game)'
<1>0. TypeOK /\ \A d \in dialogs : Belongs(d.post, d.game)
  BY DEF Posted
<1>1. \A d \in dialogs : Belongs(d.post, d.game)'
  BY <1>0 DEF Kept, TypeOK
<1>2. CASE \E r \in Slot : \E p \in PostId : OpenScoreDialog(r, p)
  <2>1. PICK r \in Slot : \E p \in PostId : OpenScoreDialog(r, p)
    BY <1>2
  <2>2. PICK p \in PostId : OpenScoreDialog(r, p)
    BY <2>1
  <2>3. /\ dialogs' = dialogs \cup {[game |-> screen[p].game, post |-> p]}
        /\ screen' = screen /\ screen[p].kind = "board"
    BY <2>2 DEF OpenScoreDialog, Tap
  <2> QED
    BY <1>1, <2>3 DEF Belongs, Live
<1>3. dialogs' \subseteq dialogs \/ \E r \in Slot : \E p \in PostId : OpenScoreDialog(r, p)
  BY DEF Next, EditLast, ConfirmEdit, EndPrompt, ConfirmEnd, Cancel,
        SubmitScore, LoadGame, Repost, StartGame, End,
        Announce, Render, Respond, InsertScore, CreateGame, ReadBoard,
        DeleteOldPost, PostAttachment, UpdateGamePostID, Fail, DeletePlayer,
        vars, postVars
<1> QED
  BY <1>1, <1>2, <1>3

LEMMA OthersStay ==
  ASSUME Posted, TypeOK', Kept, NEW q \in Slot, req'[q] = req[q]
  PROVE  PostedRequest(req[q])'
<1> DEFINE x == req[q]
<1>0. /\ x \in Request /\ Names(x.show) /\ PostedRequest(x)
      /\ x.pc \notin {"idle", "create"} => x.game \in GameId
  BY DEF Posted, TypeOK
<1>1. x.show.kind = "board" => x.show.version <= version'[x.show.game]
  BY <1>0, NotAheadStays DEF Posted, PostedRequest, Request
<1>2. x.pc \in HoldsPost /\ x.post # NoPost => Belongs(x.post, x.game)'
  BY <1>0 DEF PostedRequest, HoldsPost, Kept, Request
<1>3. ShowsEnd(x) => Over(x.game)'
  BY <1>0 DEF PostedRequest, ShowsEnd, Kept, Over
<1>4. x.pc \notin {"idle", "create"} => status'[x.game] # "absent"
  BY <1>0 DEF PostedRequest, Kept
<1> QED
  BY <1>0, <1>1, <1>2, <1>3, <1>4 DEF PostedRequest, ShowsEnd, NotAhead

LEMMA IdlePosted ==
  ASSUME NEW q \in Slot, req'[q] = Idle
  PROVE  PostedRequest(req[q])'
  BY DEF PostedRequest, Idle, HoldsPost, ShowsEnd, NotAhead, Blank

\* A request at a post that belongs to its game, with nothing to show yet.
LEMMA BlankPosted ==
  ASSUME NEW r \in Slot, NEW pc \in {"render", "insert"}, NEW g \in GameId,
         NEW p \in PostId, Belongs(p, g)', status'[g] # "absent",
         req'[r].pc = pc, req'[r].game = g,
         req'[r].post = p, req'[r].show.kind = "none"
  PROVE  PostedRequest(req[r])'
  BY DEF PostedRequest, HoldsPost, ShowsEnd, NotAhead, Ending

LEMMA TapPosted ==
  ASSUME Posted, TypeOK', Kept, NEW r \in Slot, Tapping(r)
  PROVE  PostedRequest(req[r])'
<1>0. /\ TypeOK /\ req \in [Slot -> Request] /\ screen \in [PostId -> Screen]
      /\ \A p \in PostId : screen[p].kind \in Live => screen[p].game \in GameId
      /\ UNCHANGED screen
  BY DEF Posted, TypeOK, Names, Tapping, EditLast, ConfirmEdit, EndPrompt,
    ConfirmEnd, Cancel, OpenScoreDialog, SubmitScore, LoadGame, Repost,
    StartGame, postVars
<1>1. ASSUME NEW p \in PostId, screen[p].kind \in Live
      PROVE  Belongs(p, screen[p].game)' /\ status'[screen[p].game] # "absent"
  BY <1>0, <1>1 DEF Belongs, Posted, PostedPost, Kept
<1>2. ASSUME NEW p \in PostId, EditLast(r, p) \/ EndPrompt(r, p)
      PROVE  PostedRequest(req[r])'
  <2>1. PICK k \in {"edit", "end"} :
          screen[p].kind = "board" /\ Begin(r, "respond", screen[p].game, p, Plain(k, screen[p].game))
    BY <1>2 DEF EditLast, EndPrompt, Tap
  <2>2. req'[r] = [pc |-> "respond", game |-> screen[p].game, post |-> p,
                   show |-> Plain(k, screen[p].game)]
    BY <1>0, <2>1 DEF Begin
  <2>3. Belongs(p, screen[p].game)' /\ status'[screen[p].game] # "absent"
    BY <1>1, <2>1 DEF Live
  <2> QED
    BY <1>0, <2>2, <2>3 DEF PostedRequest, ShowsEnd, NotAhead, Plain, Live, Ending
<1>3. ASSUME NEW p \in PostId, ConfirmEdit(r, p) \/ Cancel(r, p)
      PROVE  PostedRequest(req[r])'
  <2>1. screen[p].kind \in Live /\ Begin(r, "render", screen[p].game, p, Idle.show)
    BY <1>3 DEF ConfirmEdit, Cancel, Tap, Live
  <2>2. req'[r] = [pc |-> "render", game |-> screen[p].game, post |-> p,
                   show |-> Idle.show]
    BY <1>0, <2>1 DEF Begin
  <2> QED
    BY <1>0, <1>1, <2>1, <2>2, BlankPosted DEF Idle, Blank
<1>4. ASSUME NEW p \in PostId, ConfirmEnd(r, p) PROVE PostedRequest(req[r])'
  <2>1. PICK k \in Ending :
          screen[p].kind = "end" /\ Begin(r, "end", screen[p].game, p, Plain(k, screen[p].game))
    BY <1>4 DEF ConfirmEnd, Tap, Ending
  <2>2. req'[r] = [pc |-> "end", game |-> screen[p].game, post |-> p,
                   show |-> Plain(k, screen[p].game)]
    BY <1>0, <2>1 DEF Begin
  <2>3. Belongs(p, screen[p].game)' /\ status'[screen[p].game] # "absent"
    BY <1>1, <2>1 DEF Live
  <2> QED
    BY <1>0, <2>2, <2>3 DEF PostedRequest, ShowsEnd, NotAhead, Plain, Live, Ending
<1>5. ASSUME NEW p \in PostId, OpenScoreDialog(r, p) PROVE PostedRequest(req[r])'
  BY <1>5, OthersStay DEF OpenScoreDialog
<1>6. ASSUME NEW d \in dialogs, SubmitScore(r, d) PROVE PostedRequest(req[r])'
  <2>1. req'[r] = [pc |-> "insert", game |-> d.game, post |-> d.post,
                   show |-> Idle.show]
    BY <1>0, <1>6 DEF SubmitScore, Begin
  <2>2. /\ d.game \in GameId /\ d.post \in PostId /\ Belongs(d.post, d.game)'
        /\ status'[d.game] # "absent"
    BY <1>0, <1>6 DEF Posted, TypeOK, Belongs, SubmitScore
  <2> QED
    BY <2>1, <2>2, BlankPosted DEF Idle, Blank
<1>7. ASSUME NEW g \in GameId, status[g] = "unfinished",
             Begin(r, "delete", g, postOf[g], Idle.show)
      PROVE  PostedRequest(req[r])'
  <2>1. req'[r] = [pc |-> "delete", game |-> g, post |-> postOf[g],
                   show |-> Idle.show]
    BY <1>0, <1>7 DEF Begin
  <2>2. postOf[g] # NoPost =>
          \A p \in PostId : p = postOf[g] => Belongs(p, g)'
    BY <1>0 DEF Posted, PostedGame, Belongs
  <2>3. status'[g] # "absent" /\ postOf[g] \in PostId \cup {NoPost}
    BY <1>0, <1>7 DEF Kept, TypeOK
  <2> QED
    BY <2>1, <2>2, <2>3
    DEF PostedRequest, HoldsPost, Belongs, ShowsEnd, NotAhead, Idle, Blank, Ending
<1>8. CASE StartGame(r)
  BY <1>0, <1>8
  DEF StartGame, Begin, PostedRequest, HoldsPost, ShowsEnd, NotAhead, Idle, Blank
<1>9. CASE Repost(r)
  BY <1>7, <1>9, OthersStay DEF Repost, UnfinishedGames
<1>10. ASSUME NEW g \in GameId, LoadGame(r, g) PROVE PostedRequest(req[r])'
  BY <1>7, <1>10 DEF LoadGame
<1> QED
  BY <1>2, <1>3, <1>4, <1>5, <1>6, <1>8, <1>9, <1>10 DEF Tapping

LEMMA HandlerPosted ==
  ASSUME Posted, TypeOK', Kept, NEW r \in Slot,
         \/ End(r) \/ Announce(r) \/ Render(r) \/ InsertScore(r)
         \/ DeleteOldPost(r) \/ CreateGame(r) \/ ReadBoard(r) \/ PostAttachment(r)
  PROVE  PostedRequest(req[r])'
<1>0. /\ TypeOK /\ req \in [Slot -> Request] /\ screen \in [PostId -> Screen]
      /\ req[r] \in Request /\ PostedRequest(req[r])
      /\ req[r].pc \notin {"idle", "create"} => req[r].game \in GameId
      /\ version \in [GameId -> Int] /\ version' \in [GameId -> Int]
  BY BoardsAssumption DEF Posted, TypeOK
<1> PICK g, p : g = req[r].game /\ p = req[r].post
  OBVIOUS
<1>alive. req[r].pc \notin {"idle", "create"} =>
        status[g] # "absent" /\ status'[g] # "absent"
  BY <1>0 DEF PostedRequest, Kept
<1>1. ASSUME req[r].pc \in {"render", "respond", "end", "announce", "insert", "save"}
      PROVE  p \in PostId /\ g \in GameId /\ Belongs(p, g) /\ Belongs(p, g)'
  <2>1. p \in PostId /\ g \in GameId
    BY <1>1, <1>0 DEF TypeOK
  <2>2. Belongs(p, g)
    BY <1>0, <1>1, <2>1, BoardsAssumption DEF PostedRequest, HoldsPost
  <2> QED
    BY <2>1, <2>2 DEF Kept
<1>2. CASE End(r)
  <2>1. /\ req[r].pc = "end" /\ req[r].show.kind \in Ending
        /\ req[r].show.game = g
    BY <1>0, <1>2 DEF End, At, TypeOK, PostedRequest
  <2>2. PICK pc \in {"announce", "respond"} : Goto(r, pc)
    BY <1>2 DEF End
  <2>3. req'[r] = [req[r] EXCEPT !.pc = pc]
    BY <1>0, <2>2 DEF Goto
  <2>4. Over(g)'
    BY <1>0, <1>1, <1>alive, <1>2, <2>1 DEF End, Over, TypeOK
  <2>5. /\ req'[r].pc = pc /\ req'[r].post = p
        /\ req'[r].game = g /\ req'[r].show = req[r].show
    BY <1>0, <2>3 DEF Request
  <2> QED
    BY <1>1, <1>alive, <2>1, <2>4, <2>5 DEF PostedRequest, ShowsEnd, NotAhead, Ending
<1>3. CASE Announce(r)
  <2>1. /\ req[r].pc = "announce" /\ Goto(r, "respond")
        /\ UNCHANGED <<status, screen>>
    BY <1>3 DEF Announce, At
  <2>2. /\ req'[r].pc = "respond" /\ req'[r].post = p
        /\ req'[r].game = g /\ req'[r].show = req[r].show
    BY <1>0, <2>1 DEF Goto, Request
  <2> QED
    BY <1>0, <1>1, <1>alive, <2>1, <2>2 DEF PostedRequest, ShowsEnd, NotAhead, Ending, Over
<1>4. CASE Render(r)
  <2>1. /\ req[r].pc = "render" /\ UNCHANGED version
        /\ req'[r] = [pc |-> "respond", game |-> g, post |-> p,
                      show |-> RenderRoot(g)]
    BY <1>0, <1>4 DEF Render, At, Begin, scoreVars
  <2> QED
    BY <1>0, <1>1, <1>alive, <2>1
    DEF PostedRequest, ShowsEnd, NotAhead, Ending, Live, RenderRoot
<1>5. CASE InsertScore(r)
  <2>1. CASE Return(r)
    BY <1>0, <2>1, IdlePosted DEF Return
  <2>2. CASE Goto(r, "render")
    <3>1. /\ req[r].pc = "insert" /\ req'[r].pc = "render"
          /\ req'[r].post = p
          /\ req'[r].game = g /\ req'[r].show = req[r].show
      BY <1>0, <1>5, <2>2 DEF InsertScore, At, Goto, Request
    <3>2. NotAhead(req[r].show)'
      BY <1>0, <3>1, NotAheadStays
      DEF Posted, TypeOK, Request, PostedRequest, NotAhead
    <3> QED
      BY <1>1, <1>alive, <3>1, <3>2 DEF PostedRequest, ShowsEnd, NotAhead
  <2> QED
    BY <1>5, <2>1, <2>2 DEF InsertScore
<1>6. CASE DeleteOldPost(r)
  <2>1. /\ req[r].pc = "delete" /\ req'[r].pc = "read"
        /\ req'[r].game = g /\ req'[r].show = req[r].show
        /\ UNCHANGED <<status, version>>
    BY <1>0, <1>6 DEF DeleteOldPost, At, Goto, Request, scoreVars
  <2> QED
    BY <1>0, <1>alive, <2>1 DEF PostedRequest, HoldsPost, ShowsEnd, NotAhead
<1>7. CASE CreateGame(r)
  <2>1. PICK h \in GameId : /\ status' = [status EXCEPT ![h] = "unfinished"]
                            /\ Begin(r, "post", h, NoPost, Plain("board", h))
    BY <1>7 DEF CreateGame
  <2>2. req'[r] = [pc |-> "post", game |-> h, post |-> NoPost,
                   show |-> Plain("board", h)]
    BY <1>0, <2>1 DEF Begin
  <2>3. 0 <= version'[h]
    BY BoardsAssumption DEF TypeOK
  <2> QED
    BY <1>0, <2>1, <2>2, <2>3
    DEF PostedRequest, HoldsPost, ShowsEnd, NotAhead, Plain, TypeOK
<1>8. CASE ReadBoard(r)
  <2>1. /\ req[r].pc = "read" /\ UNCHANGED <<status, version>>
        /\ req'[r] = [pc |-> "post", game |-> g, post |-> p,
                      show |-> RenderRoot(g)]
    BY <1>0, <1>8 DEF ReadBoard, At, Begin, scoreVars
  <2> QED
    BY <1>0, <1>alive, <2>1 DEF PostedRequest, HoldsPost, ShowsEnd, NotAhead, RenderRoot
<1>9. CASE PostAttachment(r)
  <2>1. /\ req[r].pc = "post" /\ UNCHANGED <<status, version>>
        /\ req[r].show.kind = "board" /\ req[r].show.game = g
        /\ status[g] # "absent"
    BY <1>0, <1>9 DEF PostAttachment, At, scoreVars, PostedRequest
  <2>2. PICK m \in PostId : /\ screen' = [screen EXCEPT ![m] = req[r].show]
                            /\ Begin(r, "save", g, m, Idle.show)
    BY <1>9 DEF PostAttachment, Unused
  <2>3. Belongs(m, g)'
    BY <1>0, <2>1, <2>2 DEF Belongs, Live
  <2> QED
    BY <1>0, <1>alive, <2>1, <2>2, <2>3
    DEF Begin, PostedRequest, ShowsEnd, NotAhead, Idle, Blank
<1> QED
  BY <1>2, <1>3, <1>4, <1>5, <1>6, <1>7, <1>8, <1>9

LEMMA RequestsNext ==
  ASSUME Posted, TypeOK', Kept, [Next]_vars
  PROVE  \A q \in Slot : PostedRequest(req[q])'
<1>0. req \in [Slot -> Request]
  BY DEF Posted, TypeOK
<1>1. ASSUME NEW r \in Slot,
             \/ Tapping(r) \/ End(r) \/ Announce(r) \/ Render(r) \/ InsertScore(r)
             \/ DeleteOldPost(r) \/ CreateGame(r) \/ ReadBoard(r)
             \/ PostAttachment(r)
      PROVE  \A q \in Slot : PostedRequest(req[q])'
  <2>1. \A q \in Slot \ {r} : req'[q] = req[q]
    BY <1>0, <1>1
    DEF Tapping, EditLast, ConfirmEdit, EndPrompt, ConfirmEnd, Cancel,
        OpenScoreDialog, SubmitScore, LoadGame, Repost, StartGame, End,
        Announce, Render, InsertScore, DeleteOldPost, CreateGame, ReadBoard,
        PostAttachment, Begin, Goto, Return
  <2>2. PostedRequest(req[r])'
    BY <1>1, TapPosted, HandlerPosted
  <2> QED
    BY <2>1, <2>2, OthersStay
<1>2. ASSUME NEW r \in Slot, Return(r)
      PROVE  \A q \in Slot : PostedRequest(req[q])'
  BY <1>0, <1>2, OthersStay, IdlePosted DEF Return
<1>3. ASSUME UNCHANGED req PROVE \A q \in Slot : PostedRequest(req[q])'
  BY <1>3, OthersStay
<1> QED
  BY <1>1, <1>2, <1>3
  DEF Next, Tapping, Respond, UpdateGamePostID, Fail, DeletePlayer, vars

LEMMA NextPosted == Posted /\ [Next]_vars => Posted'
  BY NextTypeOK, NextKept, PostsNext, GamesNext, DialogsNext, RequestsNext
  DEF Posted

LEMMA InitPosted == Init => Posted
<1> SUFFICES ASSUME Init PROVE Posted
  OBVIOUS
<1>1. TypeOK
  BY InitTypeOK
<1>2. \A p \in PostId : PostedPost(p)
  BY DEF Init, PostedPost, NotAhead, Blank, Live, Ending
<1>3. \A g \in GameId : PostedGame(g)
  BY DEF Init, PostedGame
<1>4. \A r \in Slot : PostedRequest(req[r])
  BY DEF Init, PostedRequest, NotAhead, Blank, Idle, HoldsPost, ShowsEnd
<1> QED
  BY <1>1, <1>2, <1>3, <1>4 DEF Init, Posted

(***************************************************************************)
(* One request at a time: what a request has read is still so when it uses *)
(* it, and the post it came from still shows what was tapped.  A post can  *)
(* be gone only under a dialog, which no post closes.                      *)
(***************************************************************************)
OneAtATime == \E s : Slot = {s}

Gone(p) == screen[p].kind = "deleted"

Fresh(q) ==
  /\ q.pc \in {"insert", "delete", "read", "post", "save"} =>
       status[q.game] = "unfinished"
  /\ q.pc = "delete" => q.post = postOf[q.game]
  /\ q.pc = "post" => q.show = RenderRoot(q.game)
  /\ q.pc = "respond" /\ q.show.kind = "board" /\ status[q.game] = "unfinished" =>
       q.show = RenderRoot(q.game)
  /\ q.pc = "save" => screen[q.post] = RenderRoot(q.game)
  /\ q.pc \in {"render", "insert", "respond", "end", "announce"} =>
       \/ q.post \in Controls(q.game)
       \/ Gone(q.post) /\ q.pc # "end" /\ ~ShowsEnd(q)

LEMMA FreshTap ==
  ASSUME Posted, NEW r \in Slot, Tapping(r), At(r, "idle")
  PROVE  Fresh(req[r])'
<1>0. /\ TypeOK /\ req \in [Slot -> Request] /\ screen \in [PostId -> Screen]
      /\ UNCHANGED <<screen, status, postOf>>
  BY DEF Posted, TypeOK, Tapping, EditLast, ConfirmEdit, EndPrompt,
    ConfirmEnd, Cancel, OpenScoreDialog, SubmitScore, LoadGame, Repost,
    StartGame, postVars
<1>1. ASSUME NEW p \in PostId, NEW pc \in {"render", "respond"}, NEW s,
             screen[p].kind \in Live, s.kind \notin Ending \cup {"board"},
             Begin(r, pc, screen[p].game, p, s)
      PROVE  Fresh(req[r])'
  <2>1. req'[r] = [pc |-> pc, game |-> screen[p].game, post |-> p, show |-> s]
    BY <1>0, <1>1 DEF Begin
  <2>2. p \in Controls(screen[p].game)'
    BY <1>0, <1>1 DEF Controls
  <2> QED
    BY <1>0, <1>1, <2>1, <2>2 DEF Fresh, ShowsEnd
<1>2. ASSUME NEW p \in PostId,
             \/ EditLast(r, p) \/ EndPrompt(r, p) \/ ConfirmEdit(r, p) \/ Cancel(r, p)
      PROVE  Fresh(req[r])'
  <2>1. PICK pc \in {"render", "respond"}, s \in {Idle.show} \cup {Plain(k, screen[p].game) : k \in {"edit", "end"}} :
          screen[p].kind \in Live /\ Begin(r, pc, screen[p].game, p, s)
    BY <1>2 DEF EditLast, EndPrompt, ConfirmEdit, Cancel, Tap, Live
  <2>2. s.kind \in {"none", "edit", "end"}
    BY DEF Idle, Blank, Plain
  <2> QED
    BY <1>1, <2>1, <2>2 DEF Ending
<1>3. ASSUME NEW p \in PostId, ConfirmEnd(r, p) PROVE Fresh(req[r])'
  <2>1. PICK k \in Ending :
          screen[p].kind = "end" /\ Begin(r, "end", screen[p].game, p, Plain(k, screen[p].game))
    BY <1>3 DEF ConfirmEnd, Tap, Ending
  <2>2. req'[r] = [pc |-> "end", game |-> screen[p].game, post |-> p,
                   show |-> Plain(k, screen[p].game)]
    BY <1>0, <2>1 DEF Begin
  <2>3. p \in Controls(screen[p].game)'
    BY <1>0, <2>1 DEF Controls, Live
  <2> QED
    BY <1>0, <2>2, <2>3 DEF Fresh, ShowsEnd
<1>4. ASSUME NEW p \in PostId, OpenScoreDialog(r, p) PROVE Fresh(req[r])'
  BY <1>4 DEF OpenScoreDialog, Fresh, At
<1>5. ASSUME NEW d \in dialogs, SubmitScore(r, d) PROVE Fresh(req[r])'
  <2>1. req'[r] = [pc |-> "insert", game |-> d.game, post |-> d.post,
                   show |-> Idle.show]
    BY <1>0, <1>5 DEF SubmitScore, Begin
  <2>2. /\ d.game \in GameId /\ d.post \in PostId /\ status[d.game] = "unfinished"
        /\ Belongs(d.post, d.game)
    BY <1>0, <1>5 DEF Posted, TypeOK, SubmitScore
  <2>3. screen[d.post].kind \in Ending => status[d.game] \in Ending
    BY <2>2 DEF Posted, PostedPost, Belongs, Over, Live, Ending
  <2>4. d.post \in Controls(d.game)' \/ Gone(d.post)'
    BY <1>0, <2>2, <2>3 DEF Controls, Gone, Belongs, Ending
  <2> QED
    BY <1>0, <2>1, <2>2, <2>4 DEF Fresh, ShowsEnd, Controls, Gone
<1>6. ASSUME NEW g \in GameId, status[g] = "unfinished",
             Begin(r, "delete", g, postOf[g], Idle.show)
      PROVE  Fresh(req[r])'
  <2>1. req'[r] = [pc |-> "delete", game |-> g, post |-> postOf[g],
                   show |-> Idle.show]
    BY <1>0, <1>6 DEF Begin
  <2> QED
    BY <1>0, <1>6, <2>1 DEF Fresh, ShowsEnd
<1>7. CASE StartGame(r)
  BY <1>0, <1>7 DEF StartGame, Begin, Fresh, ShowsEnd
<1>8. CASE Repost(r)
  BY <1>6, <1>8 DEF Repost, UnfinishedGames, Fresh, At
<1>9. ASSUME NEW g \in GameId, LoadGame(r, g) PROVE Fresh(req[r])'
  BY <1>6, <1>9 DEF LoadGame
<1> QED
  BY <1>2, <1>3, <1>4, <1>5, <1>7, <1>8, <1>9 DEF Tapping

LEMMA IdleFresh ==
  ASSUME NEW r \in Slot, req'[r] = Idle
  PROVE  Fresh(req[r])'
  BY DEF Fresh, Idle, ShowsEnd

LEMMA FreshHandler ==
  ASSUME Posted, NEW r \in Slot, Fresh(req[r]),
         \/ End(r) \/ Announce(r) \/ Render(r) \/ Respond(r) \/ InsertScore(r)
         \/ DeleteOldPost(r) \/ CreateGame(r) \/ ReadBoard(r)
         \/ PostAttachment(r) \/ UpdateGamePostID(r) \/ Fail(r)
  PROVE  Fresh(req[r])'
<1>0. /\ TypeOK /\ req \in [Slot -> Request] /\ screen \in [PostId -> Screen]
      /\ status \in [GameId -> {"absent", "unfinished"} \cup Ending]
      /\ req[r] \in Request /\ PostedRequest(req[r])
      /\ req[r].pc \notin {"idle", "create"} => req[r].game \in GameId
  BY DEF Posted, TypeOK
<1> PICK g, p, s : g = req[r].game /\ p = req[r].post /\ s = req[r].show
  OBVIOUS
<1>1. CASE End(r)
  <2>1. /\ req[r].pc = "end" /\ p \in Controls(g) /\ UNCHANGED screen
        /\ s.kind \in Ending
    BY <1>0, <1>1 DEF End, At, Fresh, postVars, TypeOK
  <2>2. PICK pc \in {"announce", "respond"} : Goto(r, pc)
    BY <1>1 DEF End
  <2>3. /\ req'[r].pc = pc /\ req'[r].post = p
        /\ req'[r].game = g /\ req'[r].show = s
    BY <1>0, <2>2 DEF Goto, Request
  <2>4. p \in Controls(g)'
    BY <2>1 DEF Controls
  <2> QED
    BY <2>1, <2>3, <2>4 DEF Fresh, Ending
<1>2. CASE Announce(r)
  <2>1. /\ req[r].pc = "announce" /\ Goto(r, "respond") /\ UNCHANGED screen
        /\ s.kind \in Ending /\ ShowsEnd(req[r])
    BY <1>0, <1>2 DEF Announce, At, PostedRequest, ShowsEnd
  <2>2. /\ req'[r].pc = "respond" /\ req'[r].post = p
        /\ req'[r].game = g /\ req'[r].show = s
    BY <1>0, <2>1 DEF Goto, Request
  <2>3. p \in Controls(g) /\ p \in Controls(g)'
    BY <2>1 DEF Controls, Fresh
  <2> QED
    BY <2>1, <2>2, <2>3 DEF Fresh, Ending
<1>3. CASE Render(r)
  <2>1. /\ req[r].pc = "render" /\ UNCHANGED <<screen, version>>
        /\ req'[r] = [pc |-> "respond", game |-> g, post |-> p,
                      show |-> RenderRoot(g)]
    BY <1>0, <1>3 DEF Render, At, Begin, scoreVars, postVars
  <2>2. /\ p \in Controls(g) \/ Gone(p)
        /\ Controls(g)' = Controls(g) /\ Gone(p)' = Gone(p)
        /\ RenderRoot(g)' = RenderRoot(g)
    BY <2>1 DEF Fresh, Controls, Gone, RenderRoot
  <2>3. RenderRoot(g).kind = "board"
    BY DEF RenderRoot
  <2> QED
    BY <2>1, <2>2, <2>3 DEF Fresh, ShowsEnd, Ending
<1>4. CASE InsertScore(r)
  <2>1. CASE Return(r)
    BY <1>0, <2>1, IdleFresh DEF Return
  <2>2. CASE Goto(r, "render")
    <3>1. /\ req[r].pc = "insert" /\ req'[r].pc = "render" /\ UNCHANGED screen
          /\ req'[r].post = p /\ req'[r].game = g
      BY <1>0, <1>4, <2>2 DEF InsertScore, At, Goto, Request, postVars
    <3>2. /\ p \in Controls(g) \/ Gone(p)
          /\ Controls(g)' = Controls(g) /\ Gone(p)' = Gone(p)
      BY <3>1 DEF Fresh, Controls, Gone
    <3> QED
      BY <3>1, <3>2 DEF Fresh, ShowsEnd
  <2> QED
    BY <1>4, <2>1, <2>2 DEF InsertScore
<1>5. CASE DeleteOldPost(r)
  <2>1. /\ req[r].pc = "delete" /\ req'[r].pc = "read"
        /\ req'[r].game = g /\ UNCHANGED status
    BY <1>0, <1>5 DEF DeleteOldPost, At, Goto, Request
  <2> QED
    BY <2>1 DEF Fresh, ShowsEnd
<1>6. CASE CreateGame(r)
  <2>1. PICK h \in GameId : /\ status[h] = "absent" /\ UNCHANGED version
                            /\ status' = [status EXCEPT ![h] = "unfinished"]
                            /\ Begin(r, "post", h, NoPost, Plain("board", h))
    BY <1>6 DEF CreateGame, scoreVars
  <2>2. req'[r] = [pc |-> "post", game |-> h, post |-> NoPost,
                   show |-> Plain("board", h)]
    BY <1>0, <2>1 DEF Begin
  <2>3. Plain("board", h) = RenderRoot(h)'
    BY <2>1 DEF Posted, PostedGame, Plain, RenderRoot
  <2> QED
    BY <1>0, <2>1, <2>2, <2>3 DEF Fresh, ShowsEnd
<1>7. CASE ReadBoard(r)
  <2>1. /\ req[r].pc = "read" /\ UNCHANGED <<status, version>>
        /\ req'[r] = [pc |-> "post", game |-> g, post |-> p, show |-> RenderRoot(g)]
    BY <1>0, <1>7 DEF ReadBoard, At, Begin, scoreVars
  <2>2. RenderRoot(g)' = RenderRoot(g)
    BY <2>1 DEF RenderRoot
  <2> QED
    BY <2>1, <2>2 DEF Fresh, ShowsEnd
<1>8. CASE PostAttachment(r)
  <2>1. /\ req[r].pc = "post" /\ UNCHANGED <<status, version>>
        /\ s = RenderRoot(g) /\ status[g] = "unfinished"
    BY <1>0, <1>8 DEF PostAttachment, At, scoreVars, Fresh
  <2>2. PICK m \in PostId : /\ screen' = [screen EXCEPT ![m] = s]
                            /\ Begin(r, "save", g, m, Idle.show)
    BY <1>8 DEF PostAttachment, Unused
  <2>3. /\ req'[r] = [pc |-> "save", game |-> g, post |-> m, show |-> Idle.show]
        /\ screen'[m] = RenderRoot(g) /\ RenderRoot(g)' = RenderRoot(g)
    BY <1>0, <2>1, <2>2 DEF Begin, RenderRoot
  <2> QED
    BY <2>1, <2>3 DEF Fresh, ShowsEnd
<1>9. CASE Respond(r) \/ UpdateGamePostID(r) \/ Fail(r)
  BY <1>0, <1>9, IdleFresh DEF Respond, UpdateGamePostID, Fail, Return
<1> QED
  BY <1>1, <1>2, <1>3, <1>4, <1>5, <1>6, <1>7, <1>8, <1>9

(***************************************************************************)
(* Every game has at most one post that drives it: the one games.post_id   *)
(* names; while it is replaced the new one, once it is posted; and for a   *)
(* game that is over the one that is about to lose its controls.  Posts    *)
(* with controls that do not drive their game are strays, and each of them *)
(* has cost a failed call.                                                 *)
(***************************************************************************)
Driver(q, g) ==
  IF status[g] = "unfinished"
  THEN IF q.game = g /\ q.pc \in {"read", "post", "save"}
       THEN {p \in {q.post} : q.pc = "save"}
       ELSE {postOf[g]}
  ELSE {p \in {q.post} : q.game = g /\ ShowsEnd(q)}

Strays(q, g) == Controls(g) \ Driver(q, g)

Counted(q, g) ==
  /\ IsFiniteSet(Strays(q, g)) /\ Cardinality(Strays(q, g)) <= failures
  /\ failures = 0 /\ status[g] = "unfinished" => Driver(q, g) \subseteq Controls(g)

LEMMA NoMoreStrays ==
  ASSUME TypeOK, TypeOK', NEW r \in Slot, NEW g \in GameId, Counted(req[r], g),
         failures' = failures, Strays(req[r], g)' \subseteq Strays(req[r], g),
         failures = 0 /\ status'[g] = "unfinished" =>
           Driver(req[r], g)' \subseteq Controls(g)'
  PROVE  Counted(req[r], g)'
<1> PICK S, T : S = Strays(req[r], g) /\ T = Strays(req[r], g)'
  OBVIOUS
<1>1. IsFiniteSet(S) /\ Cardinality(S) <= failures /\ T \in SUBSET S
  BY DEF Counted
<1>2. /\ IsFiniteSet(T) /\ Cardinality(T) <= Cardinality(S)
      /\ Cardinality(S) \in Int /\ Cardinality(T) \in Int /\ failures \in Int
  BY <1>1, FS_Subset, FS_CardinalityType, BoardsAssumption DEF TypeOK
<1> QED
  BY <1>1, <1>2 DEF Counted

LEMMA AddedOne ==
  ASSUME NEW S, NEW x, IsFiniteSet(S)
  PROVE  /\ IsFiniteSet(S \cup {x}) /\ Cardinality(S) \in Int
         /\ Cardinality(S \cup {x}) <= Cardinality(S) + 1
<1>1. Cardinality(S) \in Int
  BY FS_CardinalityType
<1>2. /\ IsFiniteSet(S \cup {x})
      /\ \/ Cardinality(S \cup {x}) = Cardinality(S)
         \/ Cardinality(S \cup {x}) = Cardinality(S) + 1
  <2>1. CASE x \in S
    BY <2>1, FS_AddElement, Zenon
  <2>2. CASE x \notin S
    BY <2>2, FS_AddElement, Zenon
  <2> QED
    BY <2>1, <2>2
<1> QED
  BY <1>1, <1>2

LEMMA OneMoreStray ==
  ASSUME TypeOK, TypeOK', NEW r \in Slot, NEW g \in GameId, Counted(req[r], g),
         failures' = failures + 1,
         NEW p, Strays(req[r], g)' \subseteq Strays(req[r], g) \cup {p}
  PROVE  Counted(req[r], g)'
<1> PICK S, T, U :
      /\ S = Strays(req[r], g) /\ T = Strays(req[r], g)' /\ U = S \cup {p}
  OBVIOUS
<1>1. IsFiniteSet(S) /\ Cardinality(S) <= failures /\ T \in SUBSET U
  BY DEF Counted
<1>2. /\ IsFiniteSet(U) /\ Cardinality(S) \in Int
      /\ Cardinality(U) <= Cardinality(S) + 1
  BY <1>1, AddedOne
<1>3. IsFiniteSet(T) /\ Cardinality(T) <= Cardinality(U)
  BY <1>1, <1>2, FS_Subset
<1>4. Cardinality(T) \in Int /\ Cardinality(U) \in Int /\ failures \in Nat
  BY <1>2, <1>3, FS_CardinalityType, BoardsAssumption DEF TypeOK
<1>5. Cardinality(T) <= failures' /\ failures' # 0
  BY <1>1, <1>2, <1>3, <1>4
<1> QED
  BY <1>3, <1>5 DEF Counted

\* A stray changes places with a post that was none.
LEMMA StraySwapped ==
  ASSUME TypeOK, TypeOK', NEW r \in Slot, NEW g \in GameId, Counted(req[r], g),
         failures' = failures, NEW p \in Strays(req[r], g), NEW q,
         Strays(req[r], g)' \subseteq (Strays(req[r], g) \ {p}) \cup {q},
         status'[g] # "unfinished"
  PROVE  Counted(req[r], g)'
<1> PICK S, T, U :
      /\ S = Strays(req[r], g) /\ T = Strays(req[r], g)' /\ U = S \ {p}
  OBVIOUS
<1>1. IsFiniteSet(S) /\ Cardinality(S) <= failures /\ T \in SUBSET (U \cup {q})
  BY DEF Counted
<1>2. /\ IsFiniteSet(U) /\ Cardinality(U) = Cardinality(S) - 1
      /\ Cardinality(S) \in Int
  BY <1>1, FS_RemoveElement, FS_CardinalityType
<1>3. /\ IsFiniteSet(U \cup {q}) /\ Cardinality(U \cup {q}) <= Cardinality(U) + 1
  BY <1>2, AddedOne
<1>4. IsFiniteSet(T) /\ Cardinality(T) <= Cardinality(U \cup {q})
  BY <1>1, <1>3, FS_Subset
<1>5. /\ Cardinality(T) \in Int /\ Cardinality(U \cup {q}) \in Int
      /\ failures \in Int
  BY <1>3, <1>4, FS_CardinalityType, BoardsAssumption DEF TypeOK
<1>6. Cardinality(T) <= failures'
  BY <1>1, <1>2, <1>3, <1>4, <1>5
<1> QED
  BY <1>4, <1>6 DEF Counted

\* A request that neither puts up a new post nor takes the controls off one.
Neutral(q) == q.pc \notin {"read", "post", "save"} /\ ~ShowsEnd(q)

LEMMA SameStrays ==
  ASSUME TypeOK, TypeOK', NEW r \in Slot, NEW g \in GameId, Counted(req[r], g),
         UNCHANGED <<screen, status, postOf, failures>>,
         Driver(req[r], g)' = Driver(req[r], g)
  PROVE  Counted(req[r], g)'
<1>1. Controls(g)' = Controls(g)
  BY DEF Controls
<1> QED
  BY <1>1, NoMoreStrays DEF Strays, Counted

LEMMA NeutralStep ==
  ASSUME TypeOK, TypeOK', NEW r \in Slot, NEW g \in GameId, Counted(req[r], g),
         UNCHANGED <<screen, status, postOf, failures>>,
         Neutral(req[r]), Neutral(req'[r])
  PROVE  Counted(req[r], g)'
<1>1. Driver(req[r], g)' = Driver(req[r], g)
  BY DEF Neutral, Driver, ShowsEnd
<1> QED
  BY <1>1, SameStrays

LEMMA TapNeutral ==
  ASSUME TypeOK, NEW r \in Slot, Tapping(r), At(r, "idle")
  PROVE  /\ UNCHANGED <<screen, status, postOf, failures>>
         /\ Neutral(req[r]) /\ Neutral(req'[r])
<1>0. req \in [Slot -> Request] /\ UNCHANGED <<screen, status, postOf, failures>>
  BY DEF TypeOK, Tapping, EditLast, ConfirmEdit, EndPrompt,
    ConfirmEnd, Cancel, OpenScoreDialog, SubmitScore, LoadGame, Repost,
    StartGame, postVars
<1>1. \/ req' = req
      \/ \E pc \in {"render", "end", "insert", "delete", "create"} :
           \E h, p, s : Begin(r, pc, h, p, s)
      \/ \E k \in {"edit", "end"} :
           \E h, p : Begin(r, "respond", h, p, Plain(k, h))
  BY DEF Tapping, EditLast, ConfirmEdit, EndPrompt, ConfirmEnd, Cancel,
    OpenScoreDialog, SubmitScore, LoadGame, Repost, StartGame
<1> QED
  BY <1>0, <1>1 DEF At, Neutral, ShowsEnd, Begin, Plain, Ending

LEMMA TapCounted ==
  ASSUME Posted, TypeOK', NEW r \in Slot, Tapping(r), At(r, "idle"),
         NEW g \in GameId, Counted(req[r], g)
  PROVE  Counted(req[r], g)'
  BY TapNeutral, NeutralStep DEF Posted

LEMMA AnswerCounted ==
  ASSUME Posted, TypeOK', NEW r \in Slot, Fresh(req[r]),
         NEW g \in GameId, Counted(req[r], g),
         \/ Announce(r) \/ Render(r) \/ InsertScore(r) \/ ReadBoard(r)
         \/ Respond(r) \/ UpdateGamePostID(r) \/ Fail(r)
  PROVE  Counted(req[r], g)'
<1>0. /\ TypeOK /\ req \in [Slot -> Request] /\ screen \in [PostId -> Screen]
      /\ req[r] \in Request /\ PostedRequest(req[r])
      /\ req[r].pc \notin {"idle", "create"} => req[r].game \in GameId
  BY DEF Posted, TypeOK
<1> PICK h, p, s : h = req[r].game /\ p = req[r].post /\ s = req[r].show
  OBVIOUS
<1>1. CASE Announce(r)
  <2>1. /\ req[r].pc = "announce" /\ s.kind \in Ending /\ Goto(r, "respond")
        /\ UNCHANGED <<screen, status, postOf, failures>>
    BY <1>0, <1>1 DEF Announce, At, PostedRequest
  <2>2. req'[r].pc = "respond" /\ req'[r].post = p /\ req'[r].game = h /\ req'[r].show = s
    BY <1>0, <2>1 DEF Goto, Request
  <2>3. Driver(req[r], g)' = Driver(req[r], g)
    BY <2>1, <2>2 DEF Driver, ShowsEnd
  <2> QED
    BY <1>0, <2>1, <2>3, SameStrays
<1>2. CASE Render(r) \/ InsertScore(r)
  <2>1. /\ req[r].pc \in {"render", "insert"}
        /\ UNCHANGED <<screen, status, postOf, failures>>
        /\ \/ req'[r] = Idle \/ req'[r].pc = "render"
           \/ req'[r].pc = "respond" /\ req'[r].show = RenderRoot(h)
    BY <1>0, <1>2
    DEF Render, InsertScore, At, Begin, Goto, Return, postVars, Request
  <2>2. Neutral(req[r]) /\ Neutral(req'[r])
    BY <2>1 DEF Neutral, ShowsEnd, Idle, RenderRoot, Ending
  <2> QED
    BY <1>0, <2>1, <2>2, NeutralStep
<1>3. CASE ReadBoard(r)
  <2>1. /\ req[r].pc = "read" /\ req'[r].pc = "post" /\ req'[r].game = h
        /\ UNCHANGED <<screen, status, postOf, failures>>
    BY <1>0, <1>3 DEF ReadBoard, At, Begin, postVars
  <2>2. Driver(req[r], g)' = Driver(req[r], g)
    BY <2>1 DEF Driver, ShowsEnd
  <2> QED
    BY <1>0, <2>1, <2>2, SameStrays
<1>4. CASE Respond(r)
  <2>1. /\ req[r].pc = "respond" /\ req'[r] = Idle /\ p \in PostId /\ h \in GameId
        /\ s.game = h /\ s.kind \in Live \cup Ending
        /\ UNCHANGED <<status, postOf, failures>>
        /\ screen'[p] = IF screen[p].kind = "deleted" THEN screen[p] ELSE s
        /\ \A m \in PostId \ {p} : screen'[m] = screen[m]
    BY <1>0, <1>4 DEF Respond, At, Return, Show, PostedRequest, TypeOK
  <2>2. p \in Controls(h) \/ (Gone(p) /\ s.kind \in Live)
    BY <2>1 DEF Fresh, ShowsEnd
  <2>3. CASE s.kind \in Live
    <3>1. Controls(g)' = Controls(g)
      BY <2>1, <2>2, <2>3 DEF Controls, Gone
    <3>2. Driver(req[r], g)' = Driver(req[r], g)
      BY <2>1, <2>3 DEF Driver, ShowsEnd, Idle, Live, Ending
    <3> QED
      BY <1>0, <2>1, <3>1, <3>2, NoMoreStrays DEF Strays, Counted
  <2>4. CASE s.kind \notin Live
    <3>1. ShowsEnd(req[r]) /\ status[h] \in Ending /\ p \in Controls(h)
      BY <1>0, <2>1, <2>2, <2>4 DEF ShowsEnd, PostedRequest, Over
    <3>2. Controls(g)' = Controls(g) \ {p}
      BY <2>1, <2>4, <3>1 DEF Controls, Live, Ending
    <3>3. CASE g = h
      <4>1. Driver(req[r], g) = {p} /\ status'[g] # "unfinished"
        BY <2>1, <3>1, <3>3 DEF Driver, Ending
      <4> QED
        BY <1>0, <2>1, <3>2, <4>1, NoMoreStrays DEF Strays
    <3>4. CASE g # h
      <4>1. Controls(g)' = Controls(g)
        BY <3>1, <3>2, <3>4 DEF Controls
      <4>2. Driver(req[r], g)' = Driver(req[r], g)
        BY <2>1, <3>4 DEF Driver, ShowsEnd, Idle
      <4> QED
        BY <1>0, <2>1, <4>1, <4>2, NoMoreStrays DEF Strays, Counted
    <3> QED
      BY <3>3, <3>4
  <2> QED
    BY <2>3, <2>4
<1>5. CASE UpdateGamePostID(r)
  <2>1. /\ req[r].pc = "save" /\ req'[r] = Idle /\ h \in GameId
        /\ status[h] = "unfinished"
        /\ UNCHANGED <<screen, status, failures>>
        /\ postOf' = [postOf EXCEPT ![h] = p] /\ postOf \in [GameId -> PostId \cup {NoPost}]
    BY <1>0, <1>5 DEF UpdateGamePostID, At, Return, Fresh, TypeOK
  <2>2. Driver(req[r], g)' = Driver(req[r], g)
    BY <2>1 DEF Driver, ShowsEnd, Idle
  <2>3. Controls(g)' = Controls(g)
    BY <2>1 DEF Controls
  <2> QED
    BY <1>0, <2>1, <2>2, <2>3, NoMoreStrays DEF Strays, Counted
<1>6. CASE Fail(r)
  <2>1. /\ req'[r] = Idle /\ failures' = failures + 1
        /\ UNCHANGED <<screen, status, postOf>>
    BY <1>0, <1>6 DEF Fail, Return, postVars
  <2>2. Controls(g)' = Controls(g)
    BY <2>1 DEF Controls
  <2>3. Strays(req[r], g)' \subseteq Strays(req[r], g) \cup {p}
    BY <2>1, <2>2 DEF Strays, Driver, ShowsEnd, Idle
  <2> QED
    BY <1>0, <2>1, <2>3, OneMoreStray
<1> QED
  BY <1>1, <1>2, <1>3, <1>4, <1>5, <1>6

LEMMA EndCounted ==
  ASSUME Posted, TypeOK', NEW r \in Slot, Fresh(req[r]), End(r),
         NEW g \in GameId, Counted(req[r], g)
  PROVE  Counted(req[r], g)'
<1> PICK h, p, s : h = req[r].game /\ p = req[r].post /\ s = req[r].show
  OBVIOUS
<1>1. /\ TypeOK /\ req[r].pc = "end" /\ p \in Controls(h) /\ h \in GameId
      /\ status \in [GameId -> {"absent", "unfinished"} \cup Ending]
      /\ s.kind \in Ending /\ UNCHANGED <<screen, postOf, failures>>
  BY DEF Posted, TypeOK, End, At, Fresh, postVars
<1>2. /\ \E pc \in {"announce", "respond"} : req' = [req EXCEPT ![r].pc = pc]
      /\ status' = [status EXCEPT ![h] = IF @ = "unfinished" THEN s.kind ELSE @]
  BY <1>1 DEF End, Goto
<1>3. /\ ShowsEnd(req'[r]) /\ req'[r].game = h /\ req'[r].post = p
      /\ req[r] \in Request
  BY <1>1, <1>2 DEF ShowsEnd, TypeOK, Request
<1>4. Controls(g)' = Controls(g)
  BY <1>1 DEF Controls
<1>5. CASE g # h
  <2>1. Driver(req[r], g)' = Driver(req[r], g) /\ status'[g] = status[g]
    BY <1>1, <1>2, <1>3, <1>5 DEF Driver
  <2> QED
    BY <1>1, <1>4, <2>1, NoMoreStrays DEF Strays, Counted
<1>6. CASE g = h
  <2>1. status'[h] # "unfinished"
    BY <1>1, <1>2 DEF Ending
  <2>2. Driver(req[r], h)' = {p}
    BY <1>3, <2>1 DEF Driver
  <2>3. PICK D : D = Driver(req[r], h) /\ (D = {} \/ D = {postOf[h]})
    BY <1>1 DEF Driver, ShowsEnd
  <2>4. CASE p \in D \/ D = {}
    BY <1>1, <1>4, <1>6, <2>1, <2>2, <2>3, <2>4, NoMoreStrays DEF Strays
  <2>5. CASE p \notin D /\ D = {postOf[h]}
    <3>1. /\ p \in Strays(req[r], h)
          /\ Strays(req[r], h)' \subseteq (Strays(req[r], h) \ {p}) \cup {postOf[h]}
      BY <1>1, <1>4, <1>6, <2>2, <2>3, <2>5 DEF Strays
    <3> QED
      BY <1>1, <1>6, <2>1, <3>1, StraySwapped
  <2> QED
    BY <2>3, <2>4, <2>5
<1> QED
  BY <1>5, <1>6

LEMMA PostCounted ==
  ASSUME Posted, TypeOK', NEW r \in Slot, Fresh(req[r]),
         DeleteOldPost(r) \/ PostAttachment(r),
         NEW g \in GameId, Counted(req[r], g)
  PROVE  Counted(req[r], g)'
<1>0. /\ TypeOK /\ req \in [Slot -> Request] /\ screen \in [PostId -> Screen]
      /\ req[r] \in Request /\ PostedRequest(req[r])
      /\ req[r].pc \notin {"idle", "create"} => req[r].game \in GameId
  BY DEF Posted, TypeOK
<1> PICK h, p, s : h = req[r].game /\ p = req[r].post /\ s = req[r].show
  OBVIOUS
<1>1. CASE DeleteOldPost(r)
  <2>1. /\ req[r].pc = "delete" /\ req'[r].pc = "read" /\ req'[r].game = h
        /\ UNCHANGED <<status, postOf>> /\ h \in GameId
        /\ p = postOf[h] /\ status[h] = "unfinished"
    BY <1>0, <1>1 DEF DeleteOldPost, At, Goto, Request, Fresh
  <2>2. Driver(req[r], h) = {p} /\ Driver(req[r], h)' = {}
    BY <2>1 DEF Driver
  <2>3. g # h => Driver(req[r], g)' = Driver(req[r], g)
    BY <2>1 DEF Driver, ShowsEnd
  <2>4. CASE /\ screen' = screen /\ failures' = failures + 1
    <3>1. Controls(g)' = Controls(g)
      BY <2>4 DEF Controls
    <3>2. Strays(req[r], g)' \subseteq Strays(req[r], g) \cup {p}
      BY <2>2, <2>3, <3>1 DEF Strays
    <3> QED
      BY <1>0, <2>4, <3>2, OneMoreStray
  <2>5. CASE /\ failures' = failures
             /\ \/ p = NoPost /\ screen' = screen
                \/ p \in PostId /\ Show(p, Blank("deleted"))
    <3>1. p \in PostId =>
            screen[p].kind = "deleted" \/ screen[p].game = h
      BY <1>0, <2>1, BoardsAssumption DEF PostedRequest, HoldsPost, Belongs
    <3>2. Controls(g)' = IF g = h THEN Controls(g) \ {p} ELSE Controls(g)
      BY <1>0, <2>5, <3>1, BoardsAssumption DEF Controls, Show, Blank, Live
    <3>3. CASE g = h
      <4>1. Strays(req[r], g)' = Strays(req[r], g) /\ Driver(req[r], g)' = {}
        BY <2>2, <3>2, <3>3 DEF Strays
      <4> QED
        BY <1>0, <2>5, <4>1, NoMoreStrays
    <3>4. CASE g # h
      BY <1>0, <2>1, <2>3, <2>5, <3>2, <3>4, NoMoreStrays DEF Strays, Counted
    <3> QED
      BY <3>3, <3>4
  <2> QED
    BY <1>0, <1>1, <2>4, <2>5 DEF DeleteOldPost, Request
<1>2. CASE PostAttachment(r)
  <2>1. /\ req[r].pc = "post" /\ s.kind = "board" /\ s.game = h
        /\ UNCHANGED <<status, postOf, failures>> /\ h \in GameId
        /\ status[h] = "unfinished"
    BY <1>0, <1>2 DEF PostAttachment, At, Fresh, PostedRequest
  <2>2. PICK m \in Unused : /\ screen' = [screen EXCEPT ![m] = s]
                            /\ Begin(r, "save", h, m, Idle.show)
    BY <1>2 DEF PostAttachment
  <2>3. req'[r].pc = "save" /\ req'[r].game = h /\ req'[r].post = m
    BY <1>0, <2>2 DEF Begin
  <2>4. /\ m \in PostId /\ m \notin Controls(g)
        /\ Controls(g)' = IF g = h THEN Controls(g) \cup {m} ELSE Controls(g)
    BY <1>0, <2>1, <2>2 DEF Controls, Unused, Live
  <2>5. CASE g = h
    <3>1. Driver(req[r], g) = {} /\ Driver(req[r], g)' = {m}
      BY <2>1, <2>3, <2>5 DEF Driver
    <3> QED
      BY <1>0, <2>1, <2>4, <2>5, <3>1, NoMoreStrays DEF Strays
  <2>6. CASE g # h
    <3>1. Driver(req[r], g)' = Driver(req[r], g)
      BY <2>1, <2>3, <2>6 DEF Driver, ShowsEnd
    <3> QED
      BY <1>0, <2>1, <2>4, <2>6, <3>1, NoMoreStrays DEF Strays, Counted
  <2> QED
    BY <2>5, <2>6
<1> QED
  BY <1>1, <1>2

LEMMA CreateCounted ==
  ASSUME Posted, TypeOK', NEW r \in Slot, CreateGame(r),
         NEW g \in GameId, Counted(req[r], g)
  PROVE  Counted(req[r], g)'
<1>0. /\ TypeOK /\ req \in [Slot -> Request] /\ \A p \in PostId : PostedPost(p)
      /\ status \in [GameId -> {"absent", "unfinished"} \cup Ending]
      /\ req[r].pc = "create" /\ UNCHANGED <<screen, postOf, failures>>
  BY DEF Posted, TypeOK, CreateGame, At, postVars
<1>1. PICK h \in GameId : /\ status[h] = "absent"
                          /\ status' = [status EXCEPT ![h] = "unfinished"]
                          /\ Begin(r, "post", h, NoPost, Plain("board", h))
  BY DEF CreateGame
<1>2. req'[r].pc = "post" /\ req'[r].game = h
  BY <1>0, <1>1 DEF Begin
<1>3. Controls(g)' = Controls(g)
  BY <1>0 DEF Controls
<1>4. CASE g = h
  <2>1. Controls(g) = {}
    BY <1>0, <1>1, <1>4 DEF Controls, PostedPost
  <2>2. Driver(req[r], g)' = {}
    BY <1>0, <1>1, <1>2, <1>4 DEF Driver
  <2> QED
    BY <1>0, <1>3, <2>1, <2>2, NoMoreStrays DEF Strays
<1>5. CASE g # h
  <2>1. Driver(req[r], g)' = Driver(req[r], g) /\ status'[g] = status[g]
    BY <1>0, <1>1, <1>2, <1>5 DEF Driver, ShowsEnd
  <2> QED
    BY <1>0, <1>3, <2>1, NoMoreStrays DEF Strays, Counted
<1> QED
  BY <1>4, <1>5

LEMMA NoStrays ==
  ASSUME NEW q, NEW g, Counted(q, g), failures = 0
  PROVE  Controls(g) \subseteq Driver(q, g)
<1> PICK S : S = Strays(q, g)
  OBVIOUS
<1>1. IsFiniteSet(S) /\ Cardinality(S) <= 0 /\ Cardinality(S) \in Nat
  BY FS_CardinalityType DEF Counted
<1>2. Cardinality(S) = 0
  BY <1>1
<1>3. S = {}
  BY <1>1, <1>2, FS_EmptySet
<1> QED
  BY <1>3 DEF Strays

LEMMA CountedNext ==
  ASSUME Posted, TypeOK', NEW r \in Slot, Slot = {r}, Fresh(req[r]),
         [Next]_vars, NEW g \in GameId, Counted(req[r], g)
  PROVE  Counted(req[r], g)'
<1>1. ASSUME NEW h \in GameId, DeletePlayer(h) PROVE Counted(req[r], g)'
  BY <1>1, SameStrays DEF DeletePlayer, Driver, postVars, Posted
<1>2. CASE UNCHANGED vars
  BY <1>2, SameStrays DEF vars, Driver, Posted
<1>3. CASE Tapping(r)
  BY <1>3, TapCounted
  DEF Tapping, EditLast, ConfirmEdit, EndPrompt, ConfirmEnd, Cancel,
      OpenScoreDialog, SubmitScore, LoadGame, Repost, StartGame, Tap
<1> QED
  BY <1>1, <1>2, <1>3, AnswerCounted, EndCounted, PostCounted, CreateCounted
  DEF Next, Tapping

LEMMA FreshNext ==
  ASSUME Posted, NEW r \in Slot, Slot = {r}, Fresh(req[r]), [Next]_vars
  PROVE  Fresh(req[r])'
<1>1. ASSUME NEW g \in GameId, DeletePlayer(g) PROVE Fresh(req[r])'
  <2>1. /\ UNCHANGED <<status, screen, postOf, req>> /\ status[g] = "finished"
        /\ \A h \in GameId \ {g} : version'[h] = version[h]
    BY <1>1 DEF DeletePlayer, postVars, Posted, TypeOK
  <2>2. /\ Controls(req[r].game)' = Controls(req[r].game)
        /\ Gone(req[r].post)' = Gone(req[r].post)
    BY <2>1 DEF Controls, Gone
  <2>3. ASSUME NEW h \in GameId, status[h] = "unfinished"
        PROVE  RenderRoot(h)' = RenderRoot(h)
    BY <2>1, <2>3 DEF RenderRoot
  <2>4. req[r].pc \notin {"idle", "create"} => req[r].game \in GameId
    BY DEF Posted, TypeOK
  <2> QED
    BY <2>1, <2>2, <2>3, <2>4 DEF Fresh, ShowsEnd
<1>2. CASE UNCHANGED vars
  BY <1>2 DEF vars, Fresh, RenderRoot, Controls, Gone
<1>3. CASE Tapping(r)
  BY <1>3, FreshTap
  DEF Tapping, EditLast, ConfirmEdit, EndPrompt, ConfirmEnd, Cancel,
      OpenScoreDialog, SubmitScore, LoadGame, Repost, StartGame, Tap
<1> QED
  BY <1>1, <1>2, <1>3, FreshHandler DEF Next, Tapping

(***************************************************************************)
(* The end a post shows, or is about to, is the one that is stored, unless *)
(* a confirm has been repeated after a failed call and its game has lost   *)
(* the top score its result was computed from.  The scores of a discarded  *)
(* game never reach the threshold, so no win screen is shown of one, and a *)
(* game that has ended gets no new scores, so what was said of it stays as *)
(* true as it was.                                                         *)
(***************************************************************************)
Told(s) ==
  \/ status[s.game] = s.kind
  \/ /\ s.kind = "discarded" /\ status[s.game] = "finished"
     /\ s.game \notin reached /\ failures > 0

\* What endConfirm decided from the scores is still so when it ends the game.
Decided(q) ==
  q.pc = "end" => IF q.show.kind = "finished" THEN status[q.game] # "discarded"
                                              ELSE q.game \notin reached

Truthful(q) ==
  /\ \A g \in reached : status[g] # "discarded"
  /\ Decided(q)
  /\ \A p \in PostId : screen[p].kind \in Ending => Told(screen[p])
  /\ ShowsEnd(q) => Told(q.show)

LEMMA FailuresGrow == TypeOK /\ [Next]_vars => failures <= failures'
<1> SUFFICES ASSUME TypeOK, [Next]_vars PROVE failures <= failures'
  OBVIOUS
<1>1. failures \in Nat
  BY BoardsAssumption DEF TypeOK
<1>2. failures' = failures \/ failures' = failures + 1
  BY DEF Next, EditLast, ConfirmEdit, EndPrompt, ConfirmEnd, Cancel,
      OpenScoreDialog, SubmitScore, LoadGame, Repost, StartGame, End,
      Announce, Render, Respond, InsertScore, CreateGame, ReadBoard,
      DeleteOldPost, PostAttachment, UpdateGamePostID, Fail, DeletePlayer, vars
<1> QED
  BY <1>1, <1>2

\* Only a game that goes on comes to reach the threshold.
LEMMA ReachedNext ==
  ASSUME Posted, Kept, NEW r \in Slot, Slot = {r}, Fresh(req[r]), [Next]_vars,
         \A g \in reached : status[g] # "discarded"
  PROVE  /\ \A g \in reached' \ reached : status[g] = "unfinished"
         /\ \A g \in reached' : status'[g] # "discarded"
<1>0. /\ reached \subseteq GameId /\ req[r].pc # "idle" => req[r].game \in GameId \cup {NoGame}
      /\ status \in [GameId -> {"absent", "unfinished"} \cup Ending]
  BY DEF Posted, TypeOK, Request
<1>1. CASE InsertScore(r)
  <2>1. /\ UNCHANGED status /\ status[req[r].game] = "unfinished"
        /\ reached' \subseteq reached \cup {req[r].game}
    BY <1>1 DEF InsertScore, At, Fresh, Scored, scoreVars
  <2> QED
    BY <2>1
<1>2. CASE End(r)
  <2>1. reached' = {g \in reached : status'[g] # "discarded"}
    BY <1>2 DEF End
  <2> QED
    BY <2>1
<1>3. CASE CreateGame(r)
  <2>1. /\ reached' = reached
        /\ \E h \in GameId : status' = [status EXCEPT ![h] = "unfinished"]
    BY <1>3 DEF CreateGame, scoreVars
  <2> QED
    BY <1>0, <2>1
<1>4. CASE ~(InsertScore(r) \/ End(r) \/ CreateGame(r))
  <2>1. UNCHANGED status /\ reached' \subseteq reached
    BY <1>4
    DEF Next, EditLast, ConfirmEdit, EndPrompt, ConfirmEnd, Cancel,
        OpenScoreDialog, SubmitScore, LoadGame, Repost, StartGame,
        Announce, Render, Respond, ReadBoard, DeleteOldPost, PostAttachment,
        UpdateGamePostID, Fail, DeletePlayer, vars, scoreVars
  <2> QED
    BY <2>1
<1> QED
  BY <1>1, <1>2, <1>3, <1>4

\* What was true to say of an end stays true.
LEMMA ToldStays ==
  ASSUME Kept, failures \in Nat, failures' \in Nat, failures <= failures',
         \A g \in reached' \ reached : status[g] = "unfinished",
         NEW s, s.game \in GameId, s.kind \in Ending, Told(s)
  PROVE  Told(s)'
<1>1. status[s.game] \in Ending /\ status'[s.game] = status[s.game]
  BY DEF Told, Kept, Over, Ending
<1>2. s.game \in reached' => s.game \in reached
  BY <1>1 DEF Ending
<1> QED
  BY <1>1, <1>2 DEF Told

LEMMA DecidedNext ==
  ASSUME Posted, Kept, NEW r \in Slot, Slot = {r}, [Next]_vars, Decided(req[r]),
         \A g \in reached : status[g] # "discarded"
  PROVE  Decided(req[r])'
<1>0. TypeOK /\ req \in [Slot -> Request] /\ req[r] \in Request
  BY DEF Posted, TypeOK
<1>1. ASSUME NEW p \in PostId, ConfirmEnd(r, p) PROVE Decided(req[r])'
  <2>1. PICK g, k : /\ g = screen[p].game
                    /\ k = IF g \in reached THEN "finished" ELSE "discarded"
                    /\ Begin(r, "end", g, p, Plain(k, g))
    BY <1>1 DEF ConfirmEnd
  <2>2. req'[r].game = g /\ req'[r].show.kind = k
    BY <1>0, <2>1 DEF Begin, Plain
  <2>3. UNCHANGED <<status, reached>>
    BY <1>1 DEF ConfirmEnd, scoreVars
  <2> QED
    BY <2>1, <2>2, <2>3 DEF Decided
<1>2. CASE UNCHANGED <<status, req>> /\ reached' \subseteq reached
  BY <1>2 DEF Decided
<1>3. CASE req'[r].pc # "end"
  BY <1>3 DEF Decided
<1>4. ASSUME \A p \in PostId : ~ConfirmEnd(r, p), Tapping(r)
      PROVE  req'[r].pc # "end"
  <2>1. \/ req' = req /\ At(r, "idle")
        \/ \E pc \in {"render", "respond", "insert", "delete", "create"} :
             \E h, p, x : Begin(r, pc, h, p, x)
    BY <1>4 DEF Tapping, EditLast, ConfirmEdit, EndPrompt, Cancel, Tap,
      OpenScoreDialog, SubmitScore, LoadGame, Repost, StartGame
  <2> QED
    BY <1>0, <2>1 DEF At, Begin
<1>5. CASE \/ End(r) \/ Announce(r) \/ Render(r) \/ Respond(r) \/ InsertScore(r)
           \/ DeleteOldPost(r) \/ CreateGame(r) \/ ReadBoard(r)
           \/ PostAttachment(r) \/ UpdateGamePostID(r) \/ Fail(r)
  <2>1. \/ \E pc \in {"announce", "respond", "render", "read"} : Goto(r, pc)
        \/ \E pc \in {"respond", "post", "save"} : \E h, p, x : Begin(r, pc, h, p, x)
        \/ Return(r)
    BY <1>5 DEF End, Announce, Render, Respond, InsertScore, DeleteOldPost,
      CreateGame, ReadBoard, PostAttachment, UpdateGamePostID, Fail
  <2> QED
    BY <1>0, <1>3, <2>1 DEF Goto, Begin, Return, Idle, Request
<1>6. ASSUME NEW g \in GameId, DeletePlayer(g) PROVE Decided(req[r])'
  BY <1>2, <1>6 DEF DeletePlayer
<1>7. CASE UNCHANGED vars
  BY <1>2, <1>7 DEF vars, scoreVars
<1> QED
  BY <1>1, <1>3, <1>4, <1>5, <1>6, <1>7 DEF Next, Tapping

LEMMA TruthNext ==
  ASSUME Posted, TypeOK', Kept, NEW r \in Slot, Slot = {r}, Fresh(req[r]),
         [Next]_vars, \A g \in GameId : Counted(req[r], g), Truthful(req[r])
  PROVE  Truthful(req[r])'
<1>0. /\ TypeOK /\ req \in [Slot -> Request] /\ screen \in [PostId -> Screen]
      /\ status \in [GameId -> {"absent", "unfinished"} \cup Ending]
      /\ req[r] \in Request /\ PostedRequest(req[r])
      /\ failures \in Nat /\ failures' \in Nat
      /\ \A p \in PostId : PostedPost(p) /\ Names(screen[p])
      /\ req[r].pc \notin {"idle", "create"} => req[r].game \in GameId
  BY BoardsAssumption DEF Posted, TypeOK
<1> PICK h, m, s : h = req[r].game /\ m = req[r].post /\ s = req[r].show
  OBVIOUS
<1>1. /\ \A g \in reached' \ reached : status[g] = "unfinished"
      /\ \A g \in reached' : status'[g] # "discarded"
      /\ Decided(req[r])' /\ failures <= failures'
  BY <1>0, ReachedNext, DecidedNext, FailuresGrow DEF Truthful
<1>2. ASSUME NEW x, x.game \in GameId, x.kind \in Ending, Told(x) PROVE Told(x)'
  BY <1>0, <1>1, <1>2, ToldStays
<1>3. ASSUME NEW p \in PostId, screen'[p] = screen[p], screen[p].kind \in Ending
      PROVE  Told(screen[p])'
  <2>1. PICK x : x = screen[p]
    OBVIOUS
  <2>2. x.game \in GameId /\ x.kind \in Ending /\ Told(x)
    BY <1>0, <1>3, <2>1 DEF Names, Truthful
  <2>3. Told(x)' /\ x = screen'[p]
    BY <1>2, <1>3, <2>1, <2>2
  <2> QED
    BY <2>3 DEF Told
<1>4. CASE End(r)
  <2>1. /\ req[r].pc = "end" /\ h \in GameId /\ s.kind \in Ending /\ s.game = h
        /\ UNCHANGED <<screen, failures>>
        /\ reached' = {g \in reached : status'[g] # "discarded"}
        /\ status[h] # "absent"
    BY <1>0, <1>4 DEF End, At, TypeOK, postVars, PostedRequest
  <2>2. req'[r].show = s
    BY <1>0, <1>4 DEF End, Goto, Request
  <2>3. Told(s)'
    <3>1. CASE status[h] = "unfinished"
      <4>1. status'[h] = s.kind
        BY <1>0, <1>4, <2>1, <3>1 DEF End
      <4> QED
        BY <2>1, <4>1 DEF Told
    <3>2. CASE status[h] # "unfinished"
      <4>1. status' = status /\ status[h] \in Ending
        BY <1>0, <1>4, <2>1, <3>2 DEF End
      <4>2. failures # 0
        BY <2>1, <3>2, NoStrays DEF Driver, ShowsEnd, Fresh
      <4>3. IF s.kind = "finished" THEN status[h] # "discarded" ELSE h \notin reached
        BY <2>1 DEF Truthful, Decided
      <4> QED
        BY <1>0, <2>1, <4>1, <4>2, <4>3 DEF Told, Ending
    <3> QED
      BY <3>1, <3>2
  <2>4. Told(req[r].show)'
    BY <2>2, <2>3 DEF Told
  <2> QED
    BY <1>1, <1>3, <2>1, <2>4 DEF Truthful
<1>5. CASE Respond(r)
  <2>1. /\ ~ShowsEnd(req'[r])
        /\ \A p \in PostId : screen'[p] \in {screen[p], s}
        /\ s.kind \in Ending => ShowsEnd(req[r]) /\ s.game = h /\ h \in GameId
    BY <1>0, <1>5
    DEF Respond, Return, Idle, Show, At, ShowsEnd, PostedRequest
  <2>2. s.kind \in Ending => Told(s)'
    BY <1>2, <2>1 DEF Truthful
  <2>3. ASSUME NEW p \in PostId, screen'[p] = s, s.kind \in Ending
        PROVE  Told(screen[p])'
    BY <2>2, <2>3 DEF Told
  <2> QED
    BY <1>1, <1>3, <2>1, <2>3 DEF Truthful
<1>6. CASE PostAttachment(r)
  <2>1. /\ ~ShowsEnd(req'[r]) /\ s.kind = "board"
        /\ \A p \in PostId : screen'[p] \in {screen[p], s}
    BY <1>0, <1>6 DEF PostAttachment, Begin, At, ShowsEnd, PostedRequest
  <2> QED
    BY <1>1, <1>3, <2>1 DEF Truthful, Ending
<1>7. CASE DeleteOldPost(r)
  <2>1. /\ ~ShowsEnd(req'[r])
        /\ \A p \in PostId : screen'[p] \in {screen[p], Blank("deleted")}
    BY <1>0, <1>7 DEF DeleteOldPost, Goto, Show, ShowsEnd, Request
  <2> QED
    BY <1>1, <1>3, <2>1 DEF Truthful, Ending, Blank
<1>8. CASE Announce(r)
  <2>1. /\ UNCHANGED screen /\ ShowsEnd(req[r]) /\ s.kind \in Ending
        /\ s.game = h /\ h \in GameId /\ req'[r].show = s
    BY <1>0, <1>8 DEF Announce, At, Goto, Request, ShowsEnd, PostedRequest
  <2>2. Told(s)'
    BY <1>2, <2>1 DEF Truthful
  <2>3. Told(req[r].show)'
    BY <2>1, <2>2 DEF Told
  <2> QED
    BY <1>1, <1>3, <2>1, <2>3 DEF Truthful
<1>9. CASE \/ Tapping(r) \/ Render(r) \/ InsertScore(r) \/ CreateGame(r)
           \/ ReadBoard(r) \/ UpdateGamePostID(r) \/ Fail(r)
  <2>1. UNCHANGED screen /\ ~ShowsEnd(req'[r])
    <3>1. Tapping(r) => UNCHANGED screen /\ Neutral(req'[r])
      BY <1>0, TapNeutral
      DEF Tapping, EditLast, ConfirmEdit, EndPrompt, ConfirmEnd, Cancel,
          OpenScoreDialog, SubmitScore, LoadGame, Repost, StartGame, Tap
    <3>2. CASE \/ Render(r) \/ InsertScore(r) \/ CreateGame(r) \/ ReadBoard(r)
               \/ UpdateGamePostID(r) \/ Fail(r)
      BY <1>0, <3>2
      DEF Render, InsertScore, CreateGame, ReadBoard, UpdateGamePostID, Fail,
          Begin, Goto, Return, Idle, RenderRoot, Request, ShowsEnd, Ending,
          postVars
    <3> QED
      BY <1>9, <3>1, <3>2 DEF Neutral
  <2> QED
    BY <1>1, <1>3, <2>1 DEF Truthful
<1>10. CASE UNCHANGED <<screen, req>>
  <2>1. ShowsEnd(req[r]) => Told(req[r].show)'
    <3>1. ASSUME ShowsEnd(req[r]) PROVE Told(s)'
      <4>1. s.kind \in Ending /\ s.game \in GameId /\ Told(s)
        BY <1>0, <3>1 DEF ShowsEnd, PostedRequest, Truthful
      <4> QED
        BY <1>2, <4>1
    <3> QED
      BY <1>10, <3>1 DEF Told
  <2> QED
    BY <1>1, <1>3, <1>10, <2>1 DEF Truthful
<1> QED
  BY <1>4, <1>5, <1>6, <1>7, <1>8, <1>9, <1>10
  DEF Next, Tapping, DeletePlayer, vars, postVars

(***************************************************************************)
(* While no call has failed the board games.post_id names shows the scores *)
(* of its game, or is about to, unless the last of them were typed into a  *)
(* dialog whose post had been replaced.                                    *)
(***************************************************************************)
Awaits(q, g) ==
  /\ q.game = g /\ q.post = postOf[g]
  /\ q.pc = "render" \/ (q.pc = "respond" /\ q.show.kind = "board")

Current(q, g) ==
  failures = 0 /\ status[g] = "unfinished" /\ postOf[g] \in PostId =>
    LET s == screen[postOf[g]]
    IN  s.kind = "board" =>
          s.version = version[g] \/ s.version < lateAt[g] \/ Awaits(q, g)

\* A step that changes none of what a board is measured against.
LEMMA SameBoards ==
  ASSUME NEW r \in Slot, NEW g \in GameId, Current(req[r], g),
         failures' = 0 => failures = 0,
         status'[g] = "unfinished" => status[g] = "unfinished",
         postOf'[g] = postOf[g], version'[g] = version[g], lateAt'[g] = lateAt[g],
         postOf[g] \in PostId =>
           \/ screen'[postOf[g]] = screen[postOf[g]]
           \/ screen'[postOf[g]].kind # "board",
         Awaits(req[r], g) => Awaits(req[r], g)'
  PROVE  Current(req[r], g)'
  BY DEF Current

LEMMA TapCurrent ==
  ASSUME Posted, NEW r \in Slot, Tapping(r), At(r, "idle"),
         NEW g \in GameId, Counted(req[r], g), Current(req[r], g)
  PROVE  Current(req[r], g)'
<1>0. /\ TypeOK /\ UNCHANGED <<screen, status, postOf, failures, lateAt>>
      /\ ~Awaits(req[r], g)
  BY TapNeutral
  DEF Posted, At, Awaits, Tapping, EditLast, ConfirmEdit, EndPrompt, ConfirmEnd,
      Cancel, OpenScoreDialog, SubmitScore, LoadGame, Repost, StartGame,
      scoreVars
<1>1. CASE version'[g] = version[g]
  BY <1>0, <1>1, SameBoards
<1>2. CASE version'[g] # version[g]
  <2>1. PICK p \in PostId : ConfirmEdit(r, p)
    BY <1>2 DEF Tapping, EditLast, EndPrompt, ConfirmEnd, Cancel,
      OpenScoreDialog, SubmitScore, LoadGame, Repost, StartGame, scoreVars
  <2>2. screen[p].kind = "edit" /\ screen[p].game = g
    BY <1>0, <1>2, <2>1 DEF ConfirmEdit, Tap, TypeOK
  <2>3. CASE failures = 0 /\ status[g] = "unfinished"
    <3>1. Driver(req[r], g) = {postOf[g]} /\ p \in Controls(g)
      BY <2>2, <2>3 DEF Driver, At, Controls, Live
    <3>2. p = postOf[g]
      BY <2>3, <3>1, NoStrays
    <3> QED
      BY <1>0, <2>2, <3>2 DEF Current
  <2> QED
    BY <1>0, <2>3 DEF Current
<1> QED
  BY <1>1, <1>2

LEMMA CurrentNext ==
  ASSUME Posted, TypeOK', NEW r \in Slot, Slot = {r}, Fresh(req[r]), [Next]_vars,
         NEW g \in GameId, Counted(req[r], g), Current(req[r], g)
  PROVE  Current(req[r], g)'
<1>0. /\ TypeOK /\ req \in [Slot -> Request] /\ screen \in [PostId -> Screen]
      /\ status \in [GameId -> {"absent", "unfinished"} \cup Ending]
      /\ postOf \in [GameId -> PostId \cup {NoPost}]
      /\ version \in [GameId -> Int] /\ lateAt \in [GameId -> Int]
      /\ req[r] \in Request /\ PostedRequest(req[r]) /\ failures \in Nat
      /\ \A p \in PostId : PostedPost(p) /\ screen[p].version \in Int
      /\ PostedGame(g)
      /\ req[r].pc \notin {"idle", "create"} => req[r].game \in GameId
  BY BoardsAssumption DEF Posted, TypeOK, Screen
<1> PICK h, m, s : h = req[r].game /\ m = req[r].post /\ s = req[r].show
  OBVIOUS
<1>1. CASE Render(r)
  <2>1. /\ UNCHANGED <<screen, status, postOf, version, lateAt, failures>>
        /\ req'[r] = [pc |-> "respond", game |-> h, post |-> m,
                      show |-> RenderRoot(h)]
    BY <1>0, <1>1 DEF Render, Begin, scoreVars, postVars
  <2>2. Awaits(req[r], g) => Awaits(req[r], g)'
    BY <2>1 DEF Awaits, RenderRoot
  <2> QED
    BY <2>1, <2>2, SameBoards
<1>2. CASE Respond(r)
  <2>1. /\ req[r].pc = "respond" /\ m \in PostId /\ h \in GameId
        /\ UNCHANGED <<status, postOf, version, lateAt, failures>>
        /\ screen'[m] = IF screen[m].kind = "deleted" THEN screen[m] ELSE s
        /\ \A p \in PostId \ {m} : screen'[p] = screen[p]
    BY <1>0, <1>2 DEF Respond, At, Show, TypeOK, scoreVars
  <2>2. CASE postOf[g] # m \/ Gone(m)
    BY <2>1, <2>2, SameBoards DEF Awaits, Gone, Current
  <2>3. CASE postOf[g] = m /\ ~Gone(m)
    <3>1. screen[m].game = h /\ screen[m].game = g
      BY <1>0, <2>1, <2>3, BoardsAssumption
      DEF Fresh, Gone, Controls, PostedGame, Belongs
    <3>2. s.kind = "board" /\ status[h] = "unfinished" => s = RenderRoot(h)
      BY <2>1 DEF Fresh
    <3>3. screen'[postOf'[g]] = s
      BY <2>1, <2>3 DEF Gone
    <3> QED
      BY <2>1, <3>1, <3>2, <3>3 DEF Current, RenderRoot
  <2> QED
    BY <2>2, <2>3
<1>3. CASE InsertScore(r)
  <2>1. /\ req[r].pc = "insert" /\ h \in GameId /\ status[h] = "unfinished"
        /\ UNCHANGED <<screen, status, postOf, failures>>
        /\ Scored(h, m) /\ Goto(r, "render")
    BY <1>0, <1>3 DEF InsertScore, At, Fresh, postVars
  <2>2. CASE g # h
    BY <1>0, <2>1, <2>2, SameBoards DEF Scored, Awaits
  <2>3. CASE g = h
    <3>1. CASE m = postOf[g]
      <4>1. req'[r].pc = "render" /\ req'[r].game = g /\ req'[r].post = m
        BY <1>0, <2>1, <2>3 DEF Goto, Request
      <4> QED
        BY <2>1, <3>1, <4>1 DEF Current, Awaits
    <3>2. CASE m # postOf[g]
      <4>1. lateAt'[g] = version[g] + 1
        BY <1>0, <2>1, <2>3, <3>2 DEF Scored
      <4>2. ASSUME postOf[g] \in PostId, screen[postOf[g]].kind = "board"
            PROVE  screen[postOf[g]].version <= version[g]
        BY <1>0, <4>2, BoardsAssumption
        DEF PostedGame, PostedPost, Belongs, NotAhead
      <4> QED
        BY <1>0, <2>1, <4>1, <4>2 DEF Current
    <3> QED
      BY <3>1, <3>2
  <2> QED
    BY <2>2, <2>3
<1>4. CASE DeleteOldPost(r)
  <2>1. /\ req[r].pc = "delete"
        /\ UNCHANGED <<status, postOf, version, lateAt>>
        /\ failures' = 0 => failures = 0
        /\ \A p \in PostId : screen'[p] = screen[p] \/ screen'[p].kind # "board"
    BY <1>0, <1>4 DEF DeleteOldPost, At, Show, Blank, scoreVars
  <2> QED
    BY <2>1, SameBoards DEF Awaits
<1>5. CASE PostAttachment(r)
  <2>1. /\ req[r].pc = "post"
        /\ UNCHANGED <<status, postOf, version, lateAt, failures>>
        /\ \E p \in Unused : screen' = [screen EXCEPT ![p] = s]
    BY <1>0, <1>5 DEF PostAttachment, At, scoreVars
  <2>2. postOf[g] \in PostId => postOf[g] \notin Unused
    BY <1>0, BoardsAssumption DEF PostedGame, Belongs, Unused, Live, Ending
  <2>3. postOf[g] \in PostId => screen'[postOf[g]] = screen[postOf[g]]
    BY <1>0, <2>1, <2>2 DEF Unused
  <2> QED
    BY <2>1, <2>3, SameBoards DEF Awaits
<1>6. CASE UpdateGamePostID(r)
  <2>1. /\ req[r].pc = "save" /\ h \in GameId /\ status[h] = "unfinished"
        /\ UNCHANGED <<screen, status, version, lateAt, failures>>
        /\ postOf' = [postOf EXCEPT ![h] = m] /\ screen[m] = RenderRoot(h)
    BY <1>0, <1>6 DEF UpdateGamePostID, At, Fresh, scoreVars
  <2>2. CASE g # h
    BY <1>0, <2>1, <2>2, SameBoards DEF Awaits
  <2>3. CASE g = h
    BY <1>0, <2>1, <2>3 DEF Current, RenderRoot
  <2> QED
    BY <2>2, <2>3
<1>7. CASE CreateGame(r)
  <2>1. PICK n \in GameId : /\ status[n] = "absent"
                            /\ status' = [status EXCEPT ![n] = "unfinished"]
    BY <1>7 DEF CreateGame
  <2>2. /\ UNCHANGED <<screen, postOf, version, lateAt, failures>>
        /\ req[r].pc = "create"
    BY <1>7 DEF CreateGame, At, scoreVars, postVars
  <2>3. CASE g = n
    BY <1>0, <2>1, <2>2, <2>3, BoardsAssumption DEF PostedGame, Current
  <2>4. CASE g # n
    BY <1>0, <2>1, <2>2, <2>4, SameBoards DEF Awaits
  <2> QED
    BY <2>3, <2>4
<1>8. CASE End(r)
  <2>1. /\ UNCHANGED <<screen, postOf, version, lateAt, failures>>
        /\ req[r].pc = "end" /\ s.kind \in Ending
        /\ status'[g] = "unfinished" => status[g] = "unfinished"
    BY <1>0, <1>8 DEF End, At, TypeOK, postVars, Ending
  <2> QED
    BY <2>1, SameBoards DEF Awaits
<1>9. CASE Announce(r) \/ ReadBoard(r) \/ Fail(r)
  <2>1. /\ UNCHANGED <<screen, status, postOf, version, lateAt>>
        /\ req[r].pc \in {"announce", "read"} \/ failures' = failures + 1
        /\ failures' = 0 => failures = 0
    BY <1>0, <1>9 DEF Announce, ReadBoard, Fail, At, scoreVars, postVars
  <2>2. CASE failures' = failures + 1
    BY <1>0, <2>2 DEF Current
  <2>3. CASE req[r].pc \in {"announce", "read"}
    BY <2>1, <2>3, SameBoards DEF Awaits
  <2> QED
    BY <2>1, <2>2, <2>3
<1>10. CASE UNCHANGED <<screen, status, postOf, version, lateAt, failures, req>>
  BY <1>10, SameBoards DEF Awaits
<1>12. ASSUME NEW n \in GameId, DeletePlayer(n) PROVE Current(req[r], g)'
  <2>1. /\ UNCHANGED <<screen, status, postOf, lateAt, failures, req>>
        /\ status[n] = "finished" /\ (g # n => version'[g] = version[g])
    BY <1>0, <1>12 DEF DeletePlayer, postVars
  <2>2. CASE g = n
    BY <2>1, <2>2 DEF Current
  <2>3. CASE g # n
    BY <2>1, <2>3, SameBoards DEF Awaits
  <2> QED
    BY <2>2, <2>3
<1>11. CASE Tapping(r)
  BY <1>11, TapCurrent
  DEF Tapping, EditLast, ConfirmEdit, EndPrompt, ConfirmEnd, Cancel,
      OpenScoreDialog, SubmitScore, LoadGame, Repost, StartGame, Tap
<1> QED
  BY <1>1, <1>2, <1>3, <1>4, <1>5, <1>6, <1>7, <1>8, <1>9, <1>10, <1>11, <1>12
  DEF Next, Tapping, vars, scoreVars, postVars

(***************************************************************************)
(* The invariant of the serial server, and what follows from it.           *)
(***************************************************************************)
SerialInv ==
  /\ Posted
  /\ \A r \in Slot :
       /\ Fresh(req[r]) /\ Truthful(req[r])
       /\ \A g \in GameId : Counted(req[r], g) /\ Current(req[r], g)

LEMMA InitSerial == Init => SerialInv
<1> SUFFICES ASSUME Init PROVE SerialInv
  OBVIOUS
<1>1. ASSUME NEW r \in Slot, NEW g \in GameId
      PROVE  Counted(req[r], g) /\ Current(req[r], g)
  <2>1. Controls(g) = {} /\ status[g] # "unfinished" /\ failures = 0
    BY DEF Init, Controls, Blank, Live
  <2>2. Strays(req[r], g) = {}
    BY <2>1 DEF Strays
  <2> QED
    BY <2>1, <2>2, FS_EmptySet DEF Counted, Current
<1>2. ASSUME NEW r \in Slot PROVE Fresh(req[r]) /\ Truthful(req[r])
  BY DEF Init, Fresh, Truthful, Decided, Told, ShowsEnd, Idle, Blank, Ending
<1> QED
  BY <1>1, <1>2, InitPosted DEF SerialInv

LEMMA NextSerial == OneAtATime /\ SerialInv /\ [Next]_vars => SerialInv'
<1> SUFFICES ASSUME OneAtATime, SerialInv, [Next]_vars PROVE SerialInv'
  OBVIOUS
<1> PICK r \in Slot : Slot = {r}
  BY DEF OneAtATime
<1>1. Posted' /\ TypeOK' /\ Kept
  BY NextPosted, NextKept DEF SerialInv, Posted
<1>2. Fresh(req[r])' /\ Truthful(req[r])'
  BY <1>1, FreshNext, TruthNext DEF SerialInv
<1>3. \A g \in GameId : Counted(req[r], g)' /\ Current(req[r], g)'
  BY <1>1, CountedNext, CurrentNext DEF SerialInv
<1> QED
  BY <1>1, <1>2, <1>3 DEF SerialInv

LEMMA Serial == ASSUME OneAtATime PROVE Spec => []SerialInv
  BY InitSerial, NextSerial, PTL DEF Spec

\* Between two requests a game is driven from the post that games.post_id
\* names; one that is over is driven from none.
LEMMA QuietDriver ==
  ASSUME SerialInv, OneAtATime, Quiet, NEW g \in GameId
  PROVE  /\ IsFiniteSet(Controls(g)) /\ failures \in Nat
         /\ Cardinality(Controls(g)) <= 1 + failures
         /\ Over(g) => Cardinality(Controls(g)) <= failures
         /\ failures = 0 /\ status[g] = "unfinished" => Controls(g) = {postOf[g]}
<1> PICK r \in Slot : Slot = {r}
  BY DEF OneAtATime
<1>1. Counted(req[r], g) /\ req[r].pc = "idle" /\ failures \in Nat
  BY BoardsAssumption DEF SerialInv, Quiet, At, Posted, TypeOK
<1>2. Driver(req[r], g) = IF status[g] = "unfinished" THEN {postOf[g]} ELSE {}
  BY <1>1 DEF Driver, ShowsEnd
<1> PICK S, C : S = Strays(req[r], g) /\ C = Controls(g)
  OBVIOUS
<1>3. IsFiniteSet(S) /\ Cardinality(S) <= failures
  BY <1>1 DEF Counted
<1>4. /\ IsFiniteSet(S \cup {postOf[g]}) /\ Cardinality(S) \in Int
      /\ Cardinality(S \cup {postOf[g]}) <= Cardinality(S) + 1
  BY <1>3, AddedOne
<1>5. C \in SUBSET (S \cup {postOf[g]})
  BY <1>2 DEF Strays
<1>6. /\ IsFiniteSet(C) /\ Cardinality(C) <= Cardinality(S \cup {postOf[g]})
  BY <1>4, <1>5, FS_Subset
<1>7. Cardinality(C) \in Int /\ Cardinality(S \cup {postOf[g]}) \in Int
  BY <1>4, <1>6, FS_CardinalityType
<1>8. Cardinality(C) <= 1 + failures
  BY <1>1, <1>3, <1>4, <1>6, <1>7
<1>9. Over(g) => C = S
  BY <1>2 DEF Over, Ending, Strays
<1>10. failures = 0 /\ status[g] = "unfinished" => C = {postOf[g]}
  BY <1>1, <1>2, NoStrays DEF Counted
<1> QED
  BY <1>1, <1>3, <1>6, <1>8, <1>9, <1>10

\* One request at a time, a game that goes on has at most one post with its
\* controls more than calls have failed, for any number of games and posts.
THEOREM GamesHaveOneBoard == ASSUME OneAtATime PROVE Spec => []OneLiveBoard
<1>1. SerialInv => OneLiveBoard
  BY QuietDriver DEF OneLiveBoard, UnfinishedGames
<1> QED
  BY <1>1, Serial, PTL

\* ... a game that is over has no more of them than calls have failed ...
THEOREM EndedGamesLoseTheirControls ==
  ASSUME OneAtATime PROVE Spec => []EndedGamesShowNoControls
<1>1. SerialInv => EndedGamesShowNoControls
  BY QuietDriver DEF EndedGamesShowNoControls
<1> QED
  BY <1>1, Serial, PTL

\* ... and without a failed call games.post_id names the one post.
THEOREM PostIdNamesTheBoard ==
  ASSUME OneAtATime PROVE Spec => []PostIdDrivesTheGame
<1>1. SerialInv => PostIdDrivesTheGame
  BY QuietDriver DEF PostIdDrivesTheGame, UnfinishedGames
<1> QED
  BY <1>1, Serial, PTL

\* A win screen or a stub says how its game has ended, however often the end is
\* confirmed and whatever fails, unless a confirm is repeated after a failure
\* and the top score has fallen below the threshold in between.
THEOREM EndsAreToldAsStored == ASSUME OneAtATime PROVE Spec => []EndsAreTold
<1>1. SerialInv => EndsAreTold
  <2> SUFFICES ASSUME SerialInv, NEW p \in PostId, screen[p].kind \in Ending
               PROVE  Told(screen[p])
    BY DEF EndsAreTold, Told
  <2> QED
    BY DEF OneAtATime, SerialInv, Truthful
<1> QED
  BY <1>1, Serial, PTL

\* The board a game is driven from shows its scores, except those typed into a
\* dialog that has lost its post.
THEOREM BoardsShowTheirScores ==
  ASSUME OneAtATime PROVE Spec => []LiveBoardIsCurrent
<1>1. SerialInv => LiveBoardIsCurrent
  <2> SUFFICES ASSUME SerialInv, Quiet, failures = 0, NEW g \in GameId,
                      status[g] = "unfinished", screen[postOf[g]].kind = "board"
               PROVE  \/ screen[postOf[g]].version = version[g]
                      \/ screen[postOf[g]].version < lateAt[g]
    BY DEF LiveBoardIsCurrent, UnfinishedGames
  <2>1. postOf[g] \in PostId
    BY QuietDriver DEF Controls
  <2> QED
    BY <2>1 DEF OneAtATime, SerialInv, Current, Awaits, Quiet, At
<1> QED
  BY <1>1, Serial, PTL

\* The scores of a game that is over change with a player who is deleted, and by
\* a prompt that was left on a post when a call failed, and not otherwise: no
\* other post offers to change them, and the dialog asks first.
THEOREM EndedGamesKeepTheirScores ==
  ASSUME OneAtATime PROVE Spec => ScoresFrozenWhenOver
<1>1. SerialInv /\ [Next]_vars =>
        [\A g \in GameId : Over(g) /\ version'[g] # version[g] =>
           \/ DeletePlayer(g)
           \/ failures > 0 /\ \E r \in Slot, p \in PostId :
                screen[p].game = g /\ ConfirmEdit(r, p)]_vars
  <2> SUFFICES ASSUME SerialInv, Next, NEW g \in GameId, Over(g),
                      version'[g] # version[g], ~DeletePlayer(g)
               PROVE  failures > 0 /\ \E r \in Slot, p \in PostId :
                        screen[p].game = g /\ ConfirmEdit(r, p)
    OBVIOUS
  <2> PICK r \in Slot : Slot = {r}
    BY DEF OneAtATime
  <2>0. /\ TypeOK /\ version \in [GameId -> Int] /\ Fresh(req[r]) /\ failures \in Nat
        /\ req[r].pc \notin {"idle", "create"} => req[r].game \in GameId
    BY BoardsAssumption DEF SerialInv, Posted, TypeOK
  <2>1. \/ InsertScore(r) \/ \E p \in PostId : ConfirmEdit(r, p)
        \/ \E h \in GameId : DeletePlayer(h)
    BY DEF Next, EditLast, EndPrompt, ConfirmEnd, Cancel, OpenScoreDialog,
      SubmitScore, LoadGame, Repost, StartGame, End, Announce, Render, Respond,
      CreateGame, ReadBoard, DeleteOldPost, PostAttachment, UpdateGamePostID,
      Fail, scoreVars
  <2>2. CASE InsertScore(r)
    <3>1. status[req[r].game] = "unfinished" /\ req[r].game \in GameId
      BY <2>0, <2>2 DEF InsertScore, At, Fresh
    <3>2. req[r].game = g
      BY <2>0, <2>2, <3>1 DEF InsertScore, Scored
    <3> QED
      BY <3>1, <3>2 DEF Over, Ending
  <2>3. ASSUME NEW p \in PostId, ConfirmEdit(r, p)
        PROVE  failures > 0 /\ screen[p].game = g
    <3>1. /\ screen[p].kind = "edit" /\ screen[p].game = g /\ req[r].pc = "idle"
      BY <2>0, <2>3 DEF ConfirmEdit, Tap, At
    <3>2. Counted(req[r], g) /\ Driver(req[r], g) = {}
      BY <3>1 DEF SerialInv, Driver, ShowsEnd, Over, Ending
    <3>3. failures # 0
      BY <3>1, <3>2, NoStrays DEF Controls, Live
    <3> QED
      BY <2>0, <3>1, <3>3
  <2>4. ASSUME NEW h \in GameId, DeletePlayer(h) PROVE FALSE
    BY <2>0, <2>4 DEF DeletePlayer
  <2> QED
    BY <2>1, <2>2, <2>3, <2>4
<1> QED
  BY <1>1, Serial, PTL DEF Spec, ScoresFrozenWhenOver

=============================================================================
