---------------------------- MODULE ScoreProofs ----------------------------
(***************************************************************************)
(* Scores and statistics, for any number of overlapping requests.  A score *)
(* is a fold over the entries that count; folds and maxima are brought     *)
(* down to cardinalities of finite sets, where least counterexamples take  *)
(* the place of induction.  Then the joins of statsSelect are counted row  *)
(* by row over what Bot can have written.                                  *)
(***************************************************************************)
EXTENDS BotProofs, Stats, FiniteSetTheorems, WellFoundedInduction

-----------------------------------------------------------------------------

(* Sums and maxima over finite sets *)

\* A finite set with a property some subset has: a least such subset.
LEMMA LeastSubset ==
  ASSUME NEW T, IsFiniteSet(T), NEW Bad \in SUBSET (SUBSET T), Bad # {}
  PROVE  \E s \in Bad : \A x \in s : s \ {x} \notin Bad
<1>1. Bad \subseteq FiniteSubsetsOf(T)
  BY FS_FiniteSubsetsOfFinite
<1>2. IsWellFoundedOn(StrictSubsetOrdering(T), FiniteSubsetsOf(T))
  BY FS_StrictSubsetOrderingWellFounded
<1>3. PICK s \in Bad : \A t \in Bad : <<t, s>> \notin StrictSubsetOrdering(T)
  BY <1>1, <1>2, WFMin
<1>4. ASSUME NEW x \in s, s \ {x} \in Bad PROVE FALSE
  <2>1. <<s \ {x}, s>> \in StrictSubsetOrdering(T)
    BY <1>4 DEF StrictSubsetOrdering
  <2> QED
    BY <1>3, <1>4, <2>1
<1> QED
  BY <1>3, <1>4

\* The sum of w over s, counted unit by unit.
Units(w, s) == {u \in s \X Nat : u[2] < w[u[1]]}

Sum(w, s) == Cardinality(Units(w, s))

LEMMA UnitsOfOne ==
  ASSUME NEW T, NEW w \in [T -> Nat], NEW x \in T
  PROVE  IsFiniteSet(Units(w, {x})) /\ Cardinality(Units(w, {x})) = w[x]
<1>1. CASE w[x] = 0
  <2>1. Units(w, {x}) = {}
    BY <1>1 DEF Units
  <2> QED
    BY <1>1, <2>1, FS_EmptySet
<1>2. CASE w[x] # 0
  <2>1. Units(w, {x}) = {x} \X (0..(w[x] - 1))
    BY DEF Units
  <2>2. /\ IsFiniteSet(0..(w[x] - 1))
        /\ Cardinality(0..(w[x] - 1)) = w[x]
    <3>1. w[x] - 1 \in Int /\ ~(0 > w[x] - 1)
      BY <1>2
    <3>2. /\ IsFiniteSet(0..(w[x] - 1))
          /\ Cardinality(0..(w[x] - 1)) = IF 0 > w[x] - 1 THEN 0
                                          ELSE (w[x] - 1) - 0 + 1
      BY <3>1, FS_Interval
    <3> QED
      BY <3>1, <3>2
  <2>3. IsFiniteSet({x}) /\ Cardinality({x}) = 1
    BY FS_Singleton
  <2>4. /\ IsFiniteSet({x} \X (0..(w[x] - 1)))
        /\ Cardinality({x} \X (0..(w[x] - 1))) = 1 * w[x]
    BY <2>2, <2>3, FS_Product
  <2>5. 1 * w[x] = w[x]
    OBVIOUS
  <2> QED
    BY <2>1, <2>4, <2>5
<1> QED
  BY <1>1, <1>2

LEMMA UnitsFinite ==
  ASSUME NEW T, IsFiniteSet(T), NEW w \in [T -> Nat]
  PROVE  \A s \in SUBSET T : IsFiniteSet(Units(w, s))
<1> DEFINE Bad == {s \in SUBSET T : ~IsFiniteSet(Units(w, s))}
<1> SUFFICES ASSUME Bad # {} PROVE FALSE
  OBVIOUS
<1>1. PICK s \in Bad : \A x \in s : s \ {x} \notin Bad
  <2> HIDE DEF Bad
  <2>1. Bad \in SUBSET (SUBSET T)
    BY DEF Bad
  <2> QED
    BY <2>1, LeastSubset
<1>2. CASE s = {}
  <2>1. Units(w, {}) = {}
    BY DEF Units
  <2> QED
    BY <1>2, <2>1, FS_EmptySet
<1>3. ASSUME NEW x \in s PROVE FALSE
  <2>1. IsFiniteSet(Units(w, s \ {x})) /\ IsFiniteSet(Units(w, {x}))
    BY <1>1, UnitsOfOne
  <2>2. Units(w, s) = Units(w, s \ {x}) \cup Units(w, {x})
    BY DEF Units
  <2> QED
    BY <2>1, <2>2, FS_Union
<1> QED
  BY <1>2, <1>3

LEMMA SumType ==
  ASSUME NEW T, IsFiniteSet(T), NEW w \in [T -> Nat], NEW s \in SUBSET T
  PROVE  Sum(w, s) \in Nat
BY UnitsFinite, FS_CardinalityType DEF Sum

LEMMA SumOfNone ==
  ASSUME NEW w
  PROVE  Sum(w, {}) = 0
<1>1. Units(w, {}) = {}
  BY DEF Units
<1> QED
  BY <1>1, FS_EmptySet DEF Sum

\* Disjoint sets add up.
LEMMA SumOfUnion ==
  ASSUME NEW T, IsFiniteSet(T), NEW w \in [T -> Nat],
         NEW s \in SUBSET T, NEW t \in SUBSET T, s \cap t = {}
  PROVE  Sum(w, s \cup t) = Sum(w, s) + Sum(w, t)
<1>1. IsFiniteSet(Units(w, s)) /\ IsFiniteSet(Units(w, t))
  BY UnitsFinite
<1>2. /\ Units(w, s \cup t) = Units(w, s) \cup Units(w, t)
      /\ Units(w, s) \cap Units(w, t) = {}
  BY DEF Units
<1>3. Cardinality(Units(w, s) \cup Units(w, t)) =
        Cardinality(Units(w, s)) + Cardinality(Units(w, t))
          - Cardinality(Units(w, s) \cap Units(w, t))
  BY <1>1, FS_Union
<1>4. Cardinality(Units(w, s)) \in Nat /\ Cardinality(Units(w, t)) \in Nat
  BY <1>1, FS_CardinalityType
<1>5. Cardinality(Units(w, s) \cap Units(w, t)) = 0
  BY <1>2, FS_EmptySet
<1>6. Cardinality(Units(w, s \cup t)) =
        Cardinality(Units(w, s) \cup Units(w, t))
  BY <1>2
<1>7. Cardinality(Units(w, s \cup t)) =
        Cardinality(Units(w, s)) + Cardinality(Units(w, t))
  BY ONLY <1>3, <1>4, <1>5, <1>6
<1> QED
  BY <1>7 DEF Sum

LEMMA SumOfOneMore ==
  ASSUME NEW T, IsFiniteSet(T), NEW w \in [T -> Nat],
         NEW s \in SUBSET T, NEW x \in s
  PROVE  Sum(w, s) = w[x] + Sum(w, s \ {x})
<1>1. Sum(w, {x}) = w[x]
  BY UnitsOfOne DEF Sum
<1>2. {x} \cup (s \ {x}) = s /\ {x} \cap (s \ {x}) = {}
  OBVIOUS
<1>3. Sum(w, {x} \cup (s \ {x})) = Sum(w, {x}) + Sum(w, s \ {x})
  BY <1>2, SumOfUnion
<1> QED
  BY <1>1, <1>2, <1>3

\* What a fold that adds up defines.
Adds(f, w, T) ==
  f = [s \in SUBSET T |->
         IF s = {} THEN 0
         ELSE w[CHOOSE x \in s : TRUE] + f[s \ {CHOOSE x \in s : TRUE}]]

LEMMA AddsIsSum ==
  ASSUME NEW T, IsFiniteSet(T), NEW w \in [T -> Nat]
  PROVE  /\ \E f : Adds(f, w, T)
         /\ \A f : Adds(f, w, T) => f[T] = Sum(w, T)
<1>1. Adds([s \in SUBSET T |-> Sum(w, s)], w, T)
  <2> DEFINE f == [s \in SUBSET T |-> Sum(w, s)]
             g == [s \in SUBSET T |->
                    IF s = {} THEN 0
                    ELSE w[CHOOSE x \in s : TRUE]
                           + f[s \ {CHOOSE x \in s : TRUE}]]
  <2>1. ASSUME NEW s \in SUBSET T PROVE f[s] = g[s]
    <3>1. CASE s = {}
      BY <3>1, SumOfNone
    <3>2. CASE s # {}
      <4> DEFINE x == CHOOSE x \in s : TRUE
      <4>1. x \in s
        BY <3>2
      <4> HIDE DEF x
      <4>2. Sum(w, s) = w[x] + Sum(w, s \ {x})
        BY <4>1, SumOfOneMore
      <4>3. s \ {x} \in SUBSET T
        OBVIOUS
      <4>4. g[s] = w[x] + f[s \ {x}]
        BY <3>2 DEF x
      <4> QED
        BY <4>2, <4>3, <4>4
    <3> QED
      BY <3>1, <3>2
  <2>2. f = g
    BY <2>1
  <2> QED
    BY <2>2 DEF Adds
<1>2. ASSUME NEW f, Adds(f, w, T) PROVE f[T] = Sum(w, T)
  <2> DEFINE Bad == {s \in SUBSET T : f[s] # Sum(w, s)}
  <2> SUFFICES ASSUME Bad # {} PROVE FALSE
    OBVIOUS
  <2>1. PICK s \in Bad : \A x \in s : s \ {x} \notin Bad
    <3> HIDE DEF Bad
    <3>1. Bad \in SUBSET (SUBSET T)
      BY DEF Bad
    <3> QED
      BY <3>1, LeastSubset
  <2>2. s # {}
    BY <1>2, SumOfNone DEF Adds
  <2> DEFINE x == CHOOSE x \in s : TRUE
  <2>3. x \in s
    BY <2>2
  <2>4. f[s] = w[x] + f[s \ {x}]
    BY <1>2, <2>2 DEF Adds
  <2> HIDE DEF x
  <2>5. f[s \ {x}] = Sum(w, s \ {x})
    BY <2>1, <2>3
  <2>6. Sum(w, s) = w[x] + Sum(w, s \ {x})
    BY <2>3, SumOfOneMore
  <2> QED
    BY <2>4, <2>5, <2>6
<1> QED
  BY <1>1, <1>2

\* GameScore is the sum of the points of the entries that count.
PointsOf == [e \in entries |-> e.points]

EntriesOf(g, p) == {e \in entries : e.game = g /\ e.player = p}

LEMMA ScoreIsSum ==
  ASSUME StoreTypeOK, IsFiniteSet(entries), NEW g, NEW p
  PROVE  /\ GameScore(g, p) = Sum(PointsOf, EntriesOf(g, p))
         /\ GameScore(g, p) \in Nat
<1> DEFINE T == EntriesOf(g, p)
           w == [e \in T |-> e.points]
           F(f) == f = [s \in SUBSET T |->
                     IF s = {} THEN 0
                     ELSE (CHOOSE x \in s : TRUE).points
                            + f[s \ {CHOOSE x \in s : TRUE}]]
           fold == CHOOSE f : F(f)
<1>1. PointsOf \in [entries -> Nat] /\ w \in [T -> Nat]
  BY StoreAssumption DEF StoreTypeOK, Entry, PointsOf, EntriesOf
<1>2. T \subseteq entries /\ IsFiniteSet(T)
  BY FS_Subset DEF EntriesOf
<1>3. GameScore(g, p) = fold[T]
  BY DEF GameScore, MapThenSumSet, MapThenFoldSet, EntriesOf
<1>4. ASSUME NEW f PROVE F(f) <=> Adds(f, w, T)
  <2>1. ASSUME NEW s \in SUBSET T, s # {}
        PROVE  w[CHOOSE x \in s : TRUE] = (CHOOSE x \in s : TRUE).points
    <3>1. (CHOOSE x \in s : TRUE) \in T
      BY <2>1
    <3> QED
      BY <3>1
  <2> QED
    BY <2>1 DEF Adds
<1>5. \E f : Adds(f, w, T)
  BY <1>1, <1>2, AddsIsSum
<1>6. F(fold)
  <2>1. \E f : F(f)
    <3>1. PICK f : Adds(f, w, T)
      BY <1>5
    <3> HIDE DEF F, w, T
    <3> QED
      BY <3>1, <1>4
  <2> HIDE DEF F
  <2> QED
    BY <2>1
<1>7. fold[T] = Sum(w, T)
  <2>1. Adds(fold, w, T)
    BY <1>4, <1>6
  <2> HIDE DEF fold, w, T
  <2> QED
    BY <2>1, <1>1, <1>2, AddsIsSum
<1>8. Units(w, T) = Units(PointsOf, T)
  BY <1>2 DEF Units, PointsOf
<1>9. Sum(PointsOf, T) \in Nat
  <2> HIDE DEF T
  <2> QED
    BY <1>1, <1>2, SumType
<1> QED
  BY <1>3, <1>7, <1>8, <1>9 DEF Sum

\* A finite set of numbers has a largest one.
LEMMA MaxIsLargest ==
  ASSUME NEW S \in SUBSET Nat, IsFiniteSet(S), S # {}
  PROVE  Max(S) \in S /\ \A y \in S : Max(S) >= y
<1> DEFINE HasMax(s) == \E x \in s : \A y \in s : x >= y
           Bad == {s \in SUBSET S : s # {} /\ ~HasMax(s)}
<1>1. Bad = {}
  <2> SUFFICES ASSUME Bad # {} PROVE FALSE
    OBVIOUS
  <2>1. PICK s \in Bad : \A x \in s : s \ {x} \notin Bad
    <3> HIDE DEF Bad
    <3>1. Bad \in SUBSET (SUBSET S)
      BY DEF Bad
    <3> QED
      BY <3>1, LeastSubset
  <2>2. PICK x \in s : TRUE
    OBVIOUS
  <2>3. s \ {x} = {} \/ HasMax(s \ {x})
    BY <2>1, <2>2
  <2>4. CASE s \ {x} = {}
    <3>1. \A y \in s : y = x
      BY <2>4
    <3> QED
      BY <3>1, <2>2
  <2>5. CASE HasMax(s \ {x})
    <3>1. PICK m \in s \ {x} : \A y \in s \ {x} : m >= y
      BY <2>5
    <3>2. \/ \A y \in s : m >= y
          \/ \A y \in s : x >= y
      BY <3>1
    <3> QED
      BY <3>1, <3>2
  <2> QED
    BY <2>3, <2>4, <2>5
<1>2. HasMax(S)
  BY <1>1
<1> QED
  BY <1>2 DEF Max

\* The scores of a finite set of players.
LEMMA ScoresAreFinite ==
  ASSUME StoreTypeOK, IsFiniteSet(entries), NEW g, NEW who, IsFiniteSet(who)
  PROVE  LET scores == {GameScore(g, p) : p \in who} \cup {0}
         IN  /\ IsFiniteSet(scores)
             /\ scores \subseteq Nat
             /\ scores # {}
<1> DEFINE f == [p \in who |-> GameScore(g, p)]
           image == {GameScore(g, p) : p \in who}
<1>1. f \in Surjection(who, image)
  BY DEF Surjection
<1>2. IsFiniteSet(image)
  <2> HIDE DEF f, image
  <2> QED
    BY <1>1, FS_Surjection
<1>3. IsFiniteSet(image \cup {0})
  <2> HIDE DEF image
  <2> QED
    BY <1>2, FS_AddElement
<1> QED
  BY <1>3, ScoreIsSum

-----------------------------------------------------------------------------
(* What the statistics rest on, for any number of slots *)

\* Whoever ends a game has read its players; of these, only a deleted one has
\* left the game since, and his id is never given out again.
EndersReadMembers ==
  \A r \in Slot : req[r].pc \in {"end_scores", "end_discard", "end_finish"} =>
    /\ status[req[r].game] # "absent"
    /\ req[r].who \subseteq usedPlayers
    /\ status[req[r].game] = "unfinished" =>
         req[r].who \cap players \subseteq members[req[r].game]

OpenedGames == {g \in GameId : status[g] # "absent"}

BooksAreFinite == IsFiniteSet(entries) /\ IsFiniteSet(OpenedGames)

StatsInv == Integrity /\ EndersReadMembers /\ ResultsNameMembers /\ BooksAreFinite

LEMMA FiniteNext ==
  ASSUME TypeOK, BooksAreFinite, [Next]_vars
  PROVE  BooksAreFinite'
<1>1. Statement
  BY OneStatement
<1>2. \/ entries' \subseteq entries
      \/ \E e : entries' = entries \cup {e}
  BY <1>1 DEF Statement, storeVars, entryVars, CreateOrGetPlayer, CreateGame,
    AddPlayerToGame, AddScoreEntry, DeleteScoreEntryByID, DiscardGame,
    FinishGameWithWinners, HardDeletePlayer, SaveLastPlayers
<1>3. \E g : OpenedGames' \subseteq OpenedGames \cup {g}
  BY <1>1 DEF Statement, storeVars, gameVars, CreateOrGetPlayer, CreateGame,
    AddPlayerToGame, AddScoreEntry, DeleteScoreEntryByID, DiscardGame,
    FinishGameWithWinners, FinishApplies, DiscardApplies, HardDeletePlayer,
    SaveLastPlayers, OpenedGames, TypeOK, StoreTypeOK
<1>4. IsFiniteSet(entries')
  BY <1>2, FS_AddElement, FS_Subset DEF BooksAreFinite
<1>5. IsFiniteSet(OpenedGames')
  BY <1>3, FS_AddElement, FS_Subset DEF BooksAreFinite
<1> QED
  BY <1>4, <1>5 DEF BooksAreFinite

\* What no statement does to the games that have been opened.
LEMMA OpenedFrame ==
  ASSUME TypeOK, [Next]_vars
  PROVE  /\ usedPlayers \subseteq usedPlayers'
         /\ players' \cap usedPlayers \subseteq players
         /\ \A g \in OpenedGames :
              /\ status'[g] # "absent"
              /\ status'[g] = "unfinished" =>
                   /\ status[g] = "unfinished"
                   /\ members[g] \cap players' \subseteq members'[g]
  BY OneStatement
  DEF Statement, storeVars, gameVars, playerVars, CreateOrGetPlayer, CreateGame,
    AddPlayerToGame, AddScoreEntry, DeleteScoreEntryByID, DiscardGame,
    FinishGameWithWinners, FinishApplies, DiscardApplies, HardDeletePlayer,
    SaveLastPlayers, OpenedGames, TypeOK, StoreTypeOK

\* A slot that is ending a game was ending it before, or has just read it.
LEMMA EndersSource ==
  ASSUME TypeOK, [Next]_vars, NEW r \in Slot,
         req'[r].pc \in {"end_scores", "end_discard", "end_finish"}
  PROVE  \/ /\ req[r].pc \in {"end_scores", "end_discard", "end_finish"}
            /\ req'[r].game = req[r].game /\ req'[r].who = req[r].who
         \/ /\ req'[r].game \in OpenedGames
            /\ req'[r].who = GamePlayers(req'[r].game)
            /\ UNCHANGED storeVars
<1> USE DEF TypeOK, RequestTypeOK, Request
<1> DEFINE Same == /\ req[r].pc \in {"end_scores", "end_discard", "end_finish"}
                   /\ req'[r].game = req[r].game /\ req'[r].who = req[r].who
           Read == /\ req'[r].game \in OpenedGames
                   /\ req'[r].who = GamePlayers(req'[r].game)
                   /\ UNCHANGED storeVars
<1>0. ASSUME NEW q \in Slot, Return(q) PROVE Same
  BY <1>0 DEF Return, Idle
<1>1. ASSUME NEW q \in Slot, NEW pc \in {"score_insert", "end_remember"},
             Goto(q, pc)
      PROVE  Same
  BY <1>1 DEF Goto
<1>2. ASSUME NEW q \in Slot, NEW g \in GameId, ConfirmEnd(q, g)
      PROVE  Same \/ Read
  <2>1. CASE q = r
    BY <1>2, <2>1 DEF ConfirmEnd, OpenedGames
  <2>2. CASE q # r
    BY <1>2, <2>2 DEF ConfirmEnd
  <2> QED
    BY <2>1, <2>2
<1>3. ASSUME NEW q \in Slot, ReadEndScores(q) PROVE Same
  BY <1>3 DEF ReadEndScores, Goto, At
<1>4. CASE GameNext
  <2>1. ASSUME NEW q \in Slot, NEW e \in entries, ConfirmEdit(q, e) PROVE Same
    BY <2>1 DEF ConfirmEdit
  <2>2. ASSUME NEW q \in Slot, NEW g \in GameId, NEW p \in PlayerId,
               SubmitScore(q, g, p)
        PROVE  Same
    BY <2>2 DEF SubmitScore, Idle
  <2> QED
    BY <1>0, <1>1, <1>2, <1>3, <1>4, <2>1, <2>2
    DEF GameNext, CheckScoreMember, InsertScore, DiscardEnd, FinishEnd,
        RememberEnd
<1>5. CASE NewGameNext
  <2>1. ASSUME NEW q \in Slot, NEW roster, StartGame(q, roster) PROVE Same
    BY <2>1 DEF StartGame, Idle
  <2>2. ASSUME NEW q \in Slot, CreateStartedGame(q) PROVE Same
    BY <2>2 DEF CreateStartedGame
  <2>3. ASSUME NEW q \in Slot, LinkPlayer(q) PROVE Same
    BY <1>0, <2>3 DEF LinkPlayer, At
  <2> QED
    BY <1>0, <1>5, <2>1, <2>2, <2>3 DEF NewGameNext, AddPlayer, RememberStart
<1>6. CASE PlayersNext
  <2>1. ASSUME NEW q \in Slot, NEW p, ConfirmDelete(q, p) PROVE Same
    BY <2>1 DEF ConfirmDelete, Idle
  <2> QED
    BY <1>0, <1>6, <2>1 DEF PlayersNext, DeletePlayer
<1>7. CASE (\E q \in Slot : Fail(q)) \/ UNCHANGED vars
  BY <1>0, <1>7 DEF Fail, vars
<1> QED
  BY <1>2, <1>4, <1>5, <1>6, <1>7 DEF Next

LEMMA EndersNext ==
  ASSUME TypeOK, TypeOK', EndersReadMembers, [Next]_vars
  PROVE  EndersReadMembers'
<1> SUFFICES ASSUME NEW r \in Slot,
                    req'[r].pc \in {"end_scores", "end_discard", "end_finish"}
             PROVE  /\ status'[req'[r].game] # "absent"
                    /\ req'[r].who \subseteq usedPlayers'
                    /\ status'[req'[r].game] = "unfinished" =>
                         req'[r].who \cap players' \subseteq members'[req'[r].game]
  BY DEF EndersReadMembers
<1>0. req'[r].game \in GameId
  BY DEF TypeOK, RequestTypeOK, NamesGame, PC
<1>1. CASE /\ req[r].pc \in {"end_scores", "end_discard", "end_finish"}
           /\ req'[r].game = req[r].game /\ req'[r].who = req[r].who
  <2>1. /\ req[r].game \in OpenedGames
        /\ req[r].who \subseteq usedPlayers
        /\ status[req[r].game] = "unfinished" =>
             req[r].who \cap players \subseteq members[req[r].game]
    BY <1>0, <1>1 DEF EndersReadMembers, OpenedGames
  <2> QED
    BY <1>1, <2>1, OpenedFrame
<1>2. CASE /\ req'[r].game \in OpenedGames
           /\ req'[r].who = GamePlayers(req'[r].game)
           /\ UNCHANGED storeVars
  BY <1>2 DEF OpenedGames, GamePlayers, storeVars, TypeOK, StoreTypeOK
<1> QED
  BY <1>1, <1>2, EndersSource

LEMMA ResultsNext ==
  ASSUME StatsInv, [Next]_vars
  PROVE  ResultsNameMembers'
<1>0. /\ TypeOK /\ Statement /\ ResultsNameMembers
      /\ winners \in [GameId -> SUBSET PlayerId] /\ members \in [GameId -> SUBSET PlayerId]
  BY OneStatement DEF StatsInv, Integrity, TypeOK, StoreTypeOK
<1>1. ASSUME NEW r \in Slot, At(r, "end_finish"), req[r].game \in GameId,
             FinishAccepted(req[r].game, req[r].who),
             FinishGameWithWinners(req[r].game, req[r].who, req[r].wins,
                                   req[r].before)
      PROVE  ResultsNameMembers'
  <2> DEFINE g == req[r].game
  <2>1. CASE FinishApplies(g)
    <3>1. req[r].who \subseteq members[g] /\ req[r].wins \subseteq members[g]
      BY <1>1, <2>1 DEF StatsInv, Integrity, WinnersWereRead, At,
        EndersReadMembers, FinishApplies, FinishAccepted
    <3>2. /\ winners' = [winners EXCEPT ![g] = req[r].wins]
          /\ members' = members
          /\ history' = history \cup TrailRows(g, req[r].who, req[r].before)
      BY <1>1, <2>1 DEF FinishGameWithWinners
    <3>3. \A h \in history' : h \in history \/ (h.game = g /\ h.player \in members[g])
      BY <3>1, <3>2 DEF TrailRows
    <3> QED
      BY <1>0, <3>1, <3>2, <3>3 DEF ResultsNameMembers
  <2>2. CASE ~FinishApplies(g)
    BY <1>0, <1>1, <2>2 DEF FinishGameWithWinners, storeVars, ResultsNameMembers
  <2> QED
    BY <2>1, <2>2
<1>2. ASSUME NEW p \in PlayerId, HardDeletePlayer(p) PROVE ResultsNameMembers'
  <2>1. /\ \A g \in GameId : /\ members'[g] = members[g] \ {p}
                             /\ winners'[g] = winners[g] \ {p}
        /\ history' = {h \in history : h.player # p}
    BY <1>2 DEF HardDeletePlayer
  <2> QED
    BY <1>0, <2>1 DEF ResultsNameMembers
<1>3. ASSUME NEW g \in GameId, DiscardGame(g) PROVE ResultsNameMembers'
  <2>1. CASE DiscardApplies(g)
    <3>1. \A h \in history : h.game # g
      BY <2>1 DEF StatsInv, Integrity, ResultOnlyWhenFinished, DiscardApplies
    <3>2. /\ members' = [members EXCEPT ![g] = {}]
          /\ winners' = [winners EXCEPT ![g] = {}] /\ history' = history
      BY <1>3, <2>1 DEF DiscardGame, eloVars
    <3> QED
      BY <1>0, <3>1, <3>2 DEF ResultsNameMembers
  <2>2. CASE ~DiscardApplies(g)
    BY <1>0, <1>3, <2>2 DEF DiscardGame, storeVars, ResultsNameMembers
  <2> QED
    BY <2>1, <2>2
<1>4. ASSUME NEW g \in GameId, NEW p \in PlayerId, AddPlayerToGame(g, p)
      PROVE  ResultsNameMembers'
  BY <1>0, <1>4 DEF AddPlayerToGame, eloVars, ResultsNameMembers
<1> QED
  BY <1>0, <1>1, <1>2, <1>3, <1>4 DEF Statement, storeVars, gameVars, eloVars,
    CreateOrGetPlayer, CreateGame, AddScoreEntry, DeleteScoreEntryByID,
    SaveLastPlayers, ResultsNameMembers

LEMMA StatsInvariant == Spec => []StatsInv
<1>1. Init => StatsInv
  <2> SUFFICES ASSUME Init PROVE StatsInv
    OBVIOUS
  <2>1. ResultsNameMembers /\ entries = {} /\ OpenedGames = {}
    BY DEF Init, StoreInit, ResultsNameMembers, OpenedGames
  <2>2. EndersReadMembers
    BY DEF Init, RequestInit, Idle, EndersReadMembers
  <2> QED
    BY <2>1, <2>2, InitIntegrity, FS_EmptySet DEF StatsInv, BooksAreFinite
<1>2. StatsInv /\ [Next]_vars => StatsInv'
  <2> SUFFICES ASSUME StatsInv, [Next]_vars PROVE StatsInv'
    OBVIOUS
  <2>1. Integrity'
    BY NextIntegrity DEF StatsInv
  <2> QED
    BY <2>1, FiniteNext, EndersNext, ResultsNext DEF StatsInv, Integrity
<1> QED
  BY <1>1, <1>2, PTL DEF Spec

\* However requests interleave and fail, nobody has won or been rated in a game
\* he is not linked to: the players an end has read are gone or still members.
THEOREM ResultsAreOfMembers == Spec => []ResultsNameMembers
  BY StatsInvariant, PTL DEF StatsInv

-----------------------------------------------------------------------------
(* The statistics of one player *)

\* The rows of the join: a game he is linked to is there, with its win, its
\* entries and its total only if it is finished.
LEMMA RowsOfAGame ==
  ASSUME StatsInv, NEW p \in players
  PROVE  /\ \A row \in StatsRows(p) :
              /\ row = [gp |-> row.gp, win |-> row.win, entry |-> row.entry,
                        sub |-> row.sub]
              /\ row.gp \in {g \in GameId : p \in members[g]} \cup {Null}
              /\ row.win # Null =>
                   row.win \in FinishedGamesOf(p) /\ p \in winners[row.win]
              /\ row.entry # Null =>
                   /\ row.entry \in entries /\ row.entry.player = p
                   /\ row.entry.game \in FinishedGamesOf(p)
                   /\ row.gp = row.entry.game
                   /\ row.win = IF p \in winners[row.gp] THEN row.gp ELSE Null
                   /\ row.sub = [player |-> p, total |-> GameScore(row.gp, p)]
              /\ row.sub # Null =>
                   /\ row.gp \in FinishedGamesOf(p)
                   /\ row.sub = [player |-> p, total |-> GameScore(row.gp, p)]
         /\ \A g \in GameId : p \in members[g] =>
              \E row \in StatsRows(p) : row.gp = g
         /\ \A g \in FinishedGamesOf(p) : p \in winners[g] =>
              \E row \in StatsRows(p) : row.win = g
         /\ \A e \in entries : e.player = p /\ e.game \in FinishedGamesOf(p) =>
              \E row \in StatsRows(p) :
                 row.entry = e
                 /\ row.sub = [player |-> p, total |-> GameScore(e.game, p)]
<1> DEFINE linked == {g \in GameId : p \in members[g]}
           Game(gp) == IF gp # Null /\ status[gp] = "finished" THEN gp ELSE Null
           Joined(gp) == {[gp |-> gp, win |-> w, entry |-> e, sub |-> t]
                          : w \in WinJoin(Game(gp), p),
                            e \in EntryJoin(Game(gp), p),
                            t \in TotalJoin(Game(gp), p)}
<1>0. /\ TypeOK /\ ResultsNameMembers /\ entries \subseteq Entry
      /\ Null \notin GameId
  BY NullAssumption DEF StatsInv, Integrity, TypeOK, StoreTypeOK
<1>1. StatsRows(p) = UNION {Joined(gp) : gp \in Outer(linked)}
  BY DEF StatsRows
<1>2. Outer(linked) \subseteq linked \cup {Null} /\ linked \subseteq Outer(linked)
  BY DEF Outer
<1>3. \A gp \in linked \cup {Null} :
        Game(gp) = IF gp \in FinishedGamesOf(p) THEN gp ELSE Null
  BY <1>0 DEF FinishedGamesOf
<1>4. ASSUME NEW gp \in FinishedGamesOf(p)
      PROVE  /\ WinJoin(gp, p) = {IF p \in winners[gp] THEN gp ELSE Null}
             /\ EntryJoin(gp, p) = IF EntriesOf(gp, p) = {} THEN {Null}
                                   ELSE EntriesOf(gp, p)
             /\ TotalJoin(gp, p) =
                  IF EntriesOf(gp, p) = {} THEN {Null}
                  ELSE {[player |-> p, total |-> GameScore(gp, p)]}
  <2>1. gp # Null
    BY <1>0 DEF FinishedGamesOf
  <2> QED
    BY <2>1 DEF WinJoin, EntryJoin, TotalJoin, Outer, EntriesOf
<1>5. /\ WinJoin(Null, p) = {Null}
      /\ EntryJoin(Null, p) = {Null}
      /\ TotalJoin(Null, p) = {Null}
  <2>1. \A e \in entries : e.game # Null
    BY <1>0 DEF Entry
  <2> QED
    BY <2>1 DEF WinJoin, EntryJoin, TotalJoin, Outer
<1>6. ASSUME NEW row \in StatsRows(p)
      PROVE  /\ row = [gp |-> row.gp, win |-> row.win, entry |-> row.entry,
                       sub |-> row.sub]
             /\ row.gp \in linked \cup {Null}
             /\ row.win # Null =>
                  row.win \in FinishedGamesOf(p) /\ p \in winners[row.win]
             /\ row.entry # Null =>
                  /\ row.entry \in entries /\ row.entry.player = p
                  /\ row.entry.game \in FinishedGamesOf(p)
                  /\ row.gp = row.entry.game
                  /\ row.win = IF p \in winners[row.gp] THEN row.gp ELSE Null
                  /\ row.sub = [player |-> p, total |-> GameScore(row.gp, p)]
             /\ row.sub # Null =>
                  /\ row.gp \in FinishedGamesOf(p)
                  /\ row.sub = [player |-> p, total |-> GameScore(row.gp, p)]
  <2>1. PICK gp \in linked \cup {Null} : row \in Joined(gp)
    <3> HIDE DEF Joined, linked
    <3> QED
      BY <1>1, <1>2
  <2>2. PICK w \in WinJoin(Game(gp), p), e \in EntryJoin(Game(gp), p),
             t \in TotalJoin(Game(gp), p) :
          row = [gp |-> gp, win |-> w, entry |-> e, sub |-> t]
    BY <2>1
  <2>3. row.gp = gp /\ row.win = w /\ row.entry = e /\ row.sub = t
    BY <2>2
  <2>4. CASE gp \in FinishedGamesOf(p)
    <3>1. Game(gp) = gp
      BY <1>3, <2>4
    <3> HIDE DEF Game
    <3> QED
      BY <1>4, <2>2, <2>3, <2>4, <3>1 DEF EntriesOf
  <2>5. CASE gp \notin FinishedGamesOf(p)
    <3>1. Game(gp) = Null
      BY <1>3, <2>5
    <3> HIDE DEF Game
    <3> QED
      BY <1>5, <2>1, <2>2, <2>3, <3>1
  <2> QED
    BY <2>4, <2>5
<1>7. ASSUME NEW gp \in linked, NEW w \in WinJoin(Game(gp), p),
             NEW e \in EntryJoin(Game(gp), p), NEW t \in TotalJoin(Game(gp), p)
      PROVE  [gp |-> gp, win |-> w, entry |-> e, sub |-> t] \in StatsRows(p)
  <2>1. [gp |-> gp, win |-> w, entry |-> e, sub |-> t] \in Joined(gp)
    OBVIOUS
  <2> HIDE DEF Joined, linked
  <2> QED
    BY <1>1, <1>2, <2>1
<1>8. ASSUME NEW g \in linked PROVE \E row \in StatsRows(p) : row.gp = g
  <2>1. PICK w \in WinJoin(Game(g), p), e \in EntryJoin(Game(g), p),
             t \in TotalJoin(Game(g), p) : TRUE
    BY DEF WinJoin, EntryJoin, TotalJoin, Outer
  <2> HIDE DEF Game
  <2> QED
    BY <1>7
<1>9. ASSUME NEW g \in FinishedGamesOf(p)
      PROVE  g \in linked /\ Game(g) = g
  BY <1>3 DEF FinishedGamesOf
<1>10. ASSUME NEW g \in FinishedGamesOf(p), p \in winners[g]
       PROVE  \E row \in StatsRows(p) : row.win = g
  <2>1. PICK e \in EntryJoin(g, p), t \in TotalJoin(g, p) : TRUE
    BY DEF EntryJoin, TotalJoin, Outer
  <2>2. g \in WinJoin(g, p)
    BY <1>4, <1>10
  <2>3. [gp |-> g, win |-> g, entry |-> e, sub |-> t] \in StatsRows(p)
    BY <1>7, <1>9, <2>2
  <2> QED
    BY <2>3
<1>11. ASSUME NEW e \in entries, e.player = p, e.game \in FinishedGamesOf(p)
       PROVE  \E row \in StatsRows(p) :
                 row.entry = e
                 /\ row.sub = [player |-> p, total |-> GameScore(e.game, p)]
  <2> DEFINE t == [player |-> p, total |-> GameScore(e.game, p)]
  <2>1. PICK w \in WinJoin(e.game, p) : TRUE
    BY <1>4, <1>11
  <2>2. e \in EntriesOf(e.game, p)
    BY <1>11 DEF EntriesOf
  <2>3. e \in EntryJoin(e.game, p) /\ t \in TotalJoin(e.game, p)
    BY <1>4, <1>11, <2>2
  <2>4. [gp |-> e.game, win |-> w, entry |-> e, sub |-> t] \in StatsRows(p)
    BY <1>7, <1>9, <1>11, <2>3
  <2> QED
    BY <2>4
<1> QED
  <2> HIDE DEF linked
  <2>1. \A g \in GameId : p \in members[g] => g \in linked
    BY DEF linked
  <2>2. linked = {g \in GameId : p \in members[g]}
    BY DEF linked
  <2> QED
    BY <1>6, <1>8, <1>10, <1>11, <2>1, <2>2

\* The points of a player, added up by game.
LEMMA SumByGame ==
  ASSUME StoreTypeOK, IsFiniteSet(entries), NEW p, NEW G, IsFiniteSet(G)
  PROVE  Sum(PointsOf, {e \in entries : e.player = p /\ e.game \in G})
           = Sum([g \in G |-> GameScore(g, p)], G)
<1> DEFINE w == [g \in G |-> GameScore(g, p)]
           In(s) == {e \in entries : e.player = p /\ e.game \in s}
           Bad == {s \in SUBSET G : Sum(PointsOf, In(s)) # Sum(w, s)}
<1>0. PointsOf \in [entries -> Nat] /\ w \in [G -> Nat]
  BY ScoreIsSum, StoreAssumption DEF StoreTypeOK, Entry, PointsOf
<1> SUFFICES ASSUME Bad # {} PROVE FALSE
  OBVIOUS
<1>1. PICK s \in Bad : \A x \in s : s \ {x} \notin Bad
  <2> HIDE DEF Bad
  <2>1. Bad \in SUBSET (SUBSET G)
    BY DEF Bad
  <2> QED
    BY <2>1, LeastSubset
<1>2. CASE s = {}
  <2>1. In({}) = {}
    OBVIOUS
  <2>2. Sum(PointsOf, In(s)) = 0 /\ Sum(w, s) = 0
    <3> HIDE DEF w, In
    <3> QED
      BY <1>2, <2>1, SumOfNone
  <2> QED
    BY <2>2
<1>3. ASSUME NEW g \in s PROVE FALSE
  <2>1. Sum(PointsOf, In(s \ {g})) = Sum(w, s \ {g})
    BY <1>1
  <2>2. /\ In(s) = In(s \ {g}) \cup EntriesOf(g, p)
        /\ In(s \ {g}) \cap EntriesOf(g, p) = {}
    BY DEF EntriesOf
  <2>3. In(s \ {g}) \in SUBSET entries /\ EntriesOf(g, p) \in SUBSET entries
    BY DEF EntriesOf
  <2>4. w[g] = Sum(PointsOf, EntriesOf(g, p))
    BY ScoreIsSum
  <2>5. /\ Sum(PointsOf, In(s)) # Sum(w, s)
        /\ s \in SUBSET G
    OBVIOUS
  <2> HIDE DEF w, In, Bad
  <2>6. Sum(PointsOf, In(s)) =
          Sum(PointsOf, In(s \ {g})) + Sum(PointsOf, EntriesOf(g, p))
    BY <1>0, <2>2, <2>3, SumOfUnion
  <2>7. Sum(w, s) = w[g] + Sum(w, s \ {g})
    BY <1>0, <2>5, SumOfOneMore
  <2>8. w[g] \in Nat /\ Sum(w, s \ {g}) \in Nat
    BY <1>0, <2>5, SumType
  <2> QED
    BY ONLY <2>1, <2>4, <2>5, <2>6, <2>7, <2>8
<1> QED
  BY <1>2, <1>3

\* The sum over the games as the property writes it.
LEMMA GamesAddUp ==
  ASSUME StoreTypeOK, IsFiniteSet(entries), NEW p, NEW G, IsFiniteSet(G)
  PROVE  MapThenSumSet(LAMBDA g : GameScore(g, p), G)
           = Sum([g \in G |-> GameScore(g, p)], G)
<1> DEFINE w == [g \in G |-> GameScore(g, p)]
           F(f) == f = [s \in SUBSET G |->
                     IF s = {} THEN 0
                     ELSE GameScore(CHOOSE x \in s : TRUE, p)
                            + f[s \ {CHOOSE x \in s : TRUE}]]
           fold == CHOOSE f : F(f)
<1>1. w \in [G -> Nat]
  BY ScoreIsSum
<1>2. MapThenSumSet(LAMBDA g : GameScore(g, p), G) = fold[G]
  BY DEF MapThenSumSet, MapThenFoldSet
<1>3. ASSUME NEW f PROVE F(f) <=> Adds(f, w, G)
  <2>1. ASSUME NEW s \in SUBSET G, s # {}
        PROVE  w[CHOOSE x \in s : TRUE] = GameScore(CHOOSE x \in s : TRUE, p)
    <3>1. (CHOOSE x \in s : TRUE) \in G
      BY <2>1
    <3> QED
      BY <3>1
  <2> QED
    BY <2>1 DEF Adds
<1>4. Adds(fold, w, G)
  <2>1. PICK f : Adds(f, w, G)
    <3> HIDE DEF w
    <3> QED
      BY <1>1, AddsIsSum
  <2>2. F(f)
    <3> HIDE DEF F, w
    <3> QED
      BY <1>3, <2>1
  <2>3. F(fold)
    <3> HIDE DEF F
    <3> QED
      BY <2>2
  <2> HIDE DEF F, fold, w
  <2> QED
    BY <1>3, <2>3
<1> HIDE DEF fold, w
<1>5. fold[G] = Sum(w, G)
  BY <1>1, <1>4, AddsIsSum
<1> QED
  BY <1>2, <1>5 DEF w

\* However the joins repeat rows, each entry of a finished game adds its points
\* to the total once.
LEMMA TotalIsSum ==
  ASSUME StatsInv, NEW p \in players
  PROVE  PlayerStats(p).total =
           Sum(PointsOf, {e \in entries : e.player = p
                                          /\ e.game \in FinishedGamesOf(p)})
<1> DEFINE E == {e \in entries : e.player = p /\ e.game \in FinishedGamesOf(p)}
           R == {row \in StatsRows(p) : row.entry # Null}
           w == [row \in R |-> row.entry.points]
           F(f) == f = [s \in SUBSET R |->
                     IF s = {} THEN 0
                     ELSE (CHOOSE x \in s : TRUE).entry.points
                            + f[s \ {CHOOSE x \in s : TRUE}]]
           fold == CHOOSE f : F(f)
           b == [row \in R |-> row.entry]
<1>1. /\ \A row \in R : row.entry \in E
      /\ \A row, other \in R : row.entry = other.entry => row = other
      /\ \A e \in E : e # Null /\ \E row \in StatsRows(p) : row.entry = e
  <2>0. \A e \in E : e # Null
    BY DEF StatsInv, Integrity, TypeOK, StoreTypeOK, Entry, Null
  <2>1. ASSUME NEW row \in R
        PROVE  /\ row.entry \in E
               /\ row = [gp    |-> row.entry.game,
                         win   |-> IF p \in winners[row.entry.game]
                                   THEN row.entry.game ELSE Null,
                         entry |-> row.entry,
                         sub   |-> [player |-> p,
                                    total |-> GameScore(row.entry.game, p)]]
    <3>1. row \in StatsRows(p) /\ row.entry # Null
      OBVIOUS
    <3>2. /\ row = [gp |-> row.gp, win |-> row.win, entry |-> row.entry,
                    sub |-> row.sub]
          /\ row.entry \in entries /\ row.entry.player = p
          /\ row.entry.game \in FinishedGamesOf(p)
          /\ row.gp = row.entry.game
          /\ row.win = IF p \in winners[row.gp] THEN row.gp ELSE Null
          /\ row.sub = [player |-> p, total |-> GameScore(row.gp, p)]
      <4> HIDE DEF R, E, w, b, F, fold
      <4> QED
        BY <3>1, RowsOfAGame
    <3> QED
      BY <3>2
  <2>2. ASSUME NEW row \in R, NEW other \in R, row.entry = other.entry
        PROVE  row = other
    BY <2>1, <2>2
  <2>3. \A e \in E : \E row \in StatsRows(p) : row.entry = e
    <3>1. ASSUME NEW e \in entries, e.player = p, e.game \in FinishedGamesOf(p)
          PROVE  \E row \in StatsRows(p) : row.entry = e
      <4>1. \A x \in entries :
              x.player = p /\ x.game \in FinishedGamesOf(p) =>
                \E row \in StatsRows(p) :
                   row.entry = x
                   /\ row.sub = [player |-> p, total |-> GameScore(x.game, p)]
        BY RowsOfAGame, Zenon
      <4> HIDE DEF R, E, w, b, F, fold
      <4> QED
        BY <3>1, <4>1
    <3> QED
      BY <3>1
  <2> QED
    BY <2>0, <2>1, <2>2, <2>3
<1>2. b \in Bijection(R, E)
  BY <1>1 DEF Bijection, Injection, Surjection, IsInjective
<1>3. IsFiniteSet(E) /\ E \subseteq entries
  BY FS_Subset DEF StatsInv, BooksAreFinite
<1>4. IsFiniteSet(R)
  <2> HIDE DEF b, R, E
  <2> QED
    BY <1>2, <1>3, FS_Injection DEF Bijection
<1>5. PointsOf \in [entries -> Nat] /\ w \in [R -> Nat]
  <2>1. \A e \in entries : e.points \in Nat
    BY StoreAssumption DEF StatsInv, Integrity, TypeOK, StoreTypeOK, Entry
  <2>2. \A row \in R : row.entry \in entries
    BY <1>1
  <2> HIDE DEF R
  <2> QED
    BY <2>1, <2>2 DEF PointsOf
<1>6. PlayerStats(p).total = fold[R]
  BY DEF PlayerStats, MapThenSumSet, MapThenFoldSet
<1>7. ASSUME NEW f PROVE F(f) <=> Adds(f, w, R)
  <2>1. ASSUME NEW s \in SUBSET R, s # {}
        PROVE  w[CHOOSE x \in s : TRUE] = (CHOOSE x \in s : TRUE).entry.points
    <3>1. (CHOOSE x \in s : TRUE) \in R
      BY <2>1
    <3> HIDE DEF R
    <3> QED
      BY <3>1
  <2> HIDE DEF R
  <2> QED
    BY <2>1 DEF Adds
<1>8. Adds(fold, w, R)
  <2>1. PICK f : Adds(f, w, R)
    <3> HIDE DEF w, R
    <3> QED
      BY <1>4, <1>5, AddsIsSum
  <2>2. F(f)
    <3> HIDE DEF F, w, R
    <3> QED
      BY <1>7, <2>1
  <2>3. F(fold)
    <3> HIDE DEF F
    <3> QED
      BY <2>2
  <2> HIDE DEF F, fold, w, R
  <2> QED
    BY <1>7, <2>3
<1>9. fold[R] = Sum(w, R)
  <2> HIDE DEF fold, w, R
  <2> QED
    BY <1>4, <1>5, <1>8, AddsIsSum
<1>10. Sum(w, R) = Sum(PointsOf, E)
  <2> DEFINE c == [u \in Units(w, R) |-> <<b[u[1]], u[2]>>]
  <2>1. \A row \in R : b[row] = row.entry /\ w[row] = PointsOf[row.entry]
    BY <1>1, <1>3 DEF PointsOf
  <2>2. /\ \A row \in R : b[row] \in E /\ w[row] = PointsOf[b[row]]
        /\ \A row, other \in R : b[row] = b[other] => row = other
        /\ \A e \in E : \E row \in R : b[row] = e
    BY <1>1, <2>1
  <2> HIDE DEF b, w, R, E
  <2>3. c \in Injection(Units(w, R), Units(PointsOf, E))
    <3>1. c \in [Units(w, R) -> Units(PointsOf, E)]
      BY <2>2 DEF Units
    <3>2. ASSUME NEW u \in Units(w, R), NEW v \in Units(w, R), c[u] = c[v]
          PROVE  u = v
      BY <2>2, <3>2 DEF Units
    <3> QED
      BY <3>1, <3>2 DEF Injection, IsInjective
  <2>4. ASSUME NEW v \in Units(PointsOf, E)
        PROVE  \E u \in Units(w, R) : c[u] = v
    <3>1. PICK row \in R : b[row] = v[1]
      BY <2>2 DEF Units
    <3>2. <<row, v[2]>> \in Units(w, R)
      BY <2>2, <3>1 DEF Units
    <3>3. c[<<row, v[2]>>] = v
      BY <3>1, <3>2 DEF Units
    <3> QED
      BY <3>2, <3>3
  <2>5. c \in Bijection(Units(w, R), Units(PointsOf, E))
    BY <2>3, <2>4 DEF Bijection, Injection, Surjection
  <2>6. IsFiniteSet(Units(w, R))
    BY <1>4, <1>5, UnitsFinite
  <2> QED
    BY <2>5, <2>6, FS_Bijection DEF ExistsBijection, Sum
<1> QED
  BY <1>6, <1>9, <1>10

LEMMA HighestIsBest ==
  ASSUME StatsInv, NEW p \in players
  PROVE  PlayerStats(p).highest =
           Max({GameScore(g, p) : g \in FinishedGamesOf(p)} \cup {0})
<1> DEFINE subs == {row \in StatsRows(p) : row.sub # Null}
           best == {GameScore(g, p) : g \in FinishedGamesOf(p)}
<1>1. ASSUME NEW row \in subs PROVE row.sub.total \in best
  <2>1. row \in StatsRows(p) /\ row.sub # Null
    OBVIOUS
  <2>2. /\ row.gp \in FinishedGamesOf(p)
        /\ row.sub = [player |-> p, total |-> GameScore(row.gp, p)]
    BY <2>1, RowsOfAGame
  <2> QED
    BY <2>2
<1>2. ASSUME NEW g \in FinishedGamesOf(p)
      PROVE  \/ GameScore(g, p) = 0
             \/ \E row \in subs : row.sub.total = GameScore(g, p)
  <2>1. CASE EntriesOf(g, p) = {}
    <3>1. GameScore(g, p) = Sum(PointsOf, {})
      BY <2>1, ScoreIsSum DEF StatsInv, Integrity, TypeOK, BooksAreFinite
    <3> QED
      BY <3>1, SumOfNone
  <2>2. ASSUME NEW e \in EntriesOf(g, p)
        PROVE  \E row \in subs : row.sub.total = GameScore(g, p)
    <3>1. e \in entries /\ e.player = p /\ e.game = g
      BY DEF EntriesOf
    <3>2. \A x \in entries :
            x.player = p /\ x.game \in FinishedGamesOf(p) =>
              \E row \in StatsRows(p) :
                 row.entry = x
                 /\ row.sub = [player |-> p, total |-> GameScore(x.game, p)]
      BY RowsOfAGame, Zenon
    <3>3. PICK row \in StatsRows(p) :
            row.sub = [player |-> p, total |-> GameScore(g, p)]
      BY <3>1, <3>2
    <3>4. row.sub # Null /\ row.sub.total = GameScore(g, p)
      BY <3>3 DEF Null
    <3> QED
      BY <3>4
  <2> QED
    BY <2>1, <2>2
<1>3. {row.sub.total : row \in subs} \cup {0} = best \cup {0}
  BY <1>1, <1>2
<1>4. PlayerStats(p).highest = Max({row.sub.total : row \in subs} \cup {0})
  BY DEF PlayerStats
<1> QED
  BY <1>3, <1>4

LEMMA WinsAndLosses ==
  ASSUME StatsInv, NEW p \in players
  PROVE  /\ PlayerStats(p).wins = Cardinality({g \in GameId : p \in winners[g]})
         /\ PlayerStats(p).losses >= 0
<1> DEFINE won == {g \in GameId : p \in winners[g]}
           linked == {g \in GameId : p \in members[g]}
           wins == NotNull({row.win : row \in StatsRows(p)})
           games == NotNull({row.gp : row \in StatsRows(p)})
<1>1. ASSUME NEW g \in won PROVE g \in linked /\ g \in FinishedGamesOf(p)
  BY DEF StatsInv, Integrity, ResultOnlyWhenFinished, ResultsNameMembers,
    FinishedGamesOf
<1>2. /\ \A row \in StatsRows(p) :
           /\ row.gp \in {g \in GameId : p \in members[g]} \cup {Null}
           /\ row.win # Null =>
                row.win \in FinishedGamesOf(p) /\ p \in winners[row.win]
      /\ \A g \in GameId : p \in members[g] =>
           \E row \in StatsRows(p) : row.gp = g
      /\ \A g \in FinishedGamesOf(p) : p \in winners[g] =>
           \E row \in StatsRows(p) : row.win = g
  BY RowsOfAGame, Zenon
<1>3. wins = won
  BY <1>1, <1>2, NullAssumption DEF NotNull, FinishedGamesOf
<1>4. games = linked
  BY <1>2, NullAssumption DEF NotNull
<1>5. won \subseteq linked /\ linked \subseteq OpenedGames
  BY <1>1 DEF StatsInv, Integrity, ReferentialIntegrity, GameRow, OpenedGames
<1>6. IsFiniteSet(linked)
  <2> HIDE DEF linked
  <2> QED
    BY <1>5, FS_Subset DEF StatsInv, BooksAreFinite
<1>7. /\ IsFiniteSet(won)
      /\ Cardinality(won) <= Cardinality(linked)
  <2> HIDE DEF linked, won
  <2> QED
    BY <1>5, <1>6, FS_Subset
<1>8. Cardinality(won) \in Nat /\ Cardinality(linked) \in Nat
  <2> HIDE DEF linked, won
  <2> QED
    BY <1>6, <1>7, FS_CardinalityType
<1>9. /\ PlayerStats(p).wins = Cardinality(wins)
      /\ PlayerStats(p).losses = Cardinality(games) - Cardinality(wins)
  BY DEF PlayerStats
<1> HIDE DEF wins, games, linked
<1> QED
  BY <1>3, <1>4, <1>7, <1>8, <1>9

\* Every point of every finished game is counted once, the best game is the
\* best, a win is a recorded win, and nobody wins more than he played: whatever
\* the six joins of statsSelect repeat, whoever was deleted, and however many
\* requests overlapped.
THEOREM StatsAreRight == Spec => []StatsCountOnce
<1>1. StatsInv => StatsCountOnce
  <2> SUFFICES ASSUME StatsInv, NEW p \in players
               PROVE  LET s      == PlayerStats(p)
                          played == FinishedGamesOf(p)
                      IN  /\ s.total = MapThenSumSet(LAMBDA g : GameScore(g, p),
                                                     played)
                          /\ s.highest =
                               Max({GameScore(g, p) : g \in played} \cup {0})
                          /\ s.wins = Cardinality({g \in GameId : p \in winners[g]})
                          /\ s.losses >= 0
    BY DEF StatsCountOnce
  <2>1. StoreTypeOK /\ IsFiniteSet(entries)
    BY DEF StatsInv, Integrity, TypeOK, BooksAreFinite
  <2>2. IsFiniteSet(FinishedGamesOf(p))
    <3>1. FinishedGamesOf(p) \subseteq OpenedGames
      BY DEF FinishedGamesOf, OpenedGames
    <3> QED
      BY <3>1, FS_Subset DEF StatsInv, BooksAreFinite
  <2>3. PlayerStats(p).total =
          MapThenSumSet(LAMBDA g : GameScore(g, p), FinishedGamesOf(p))
    <3> DEFINE G == FinishedGamesOf(p)
               w == [g \in G |-> GameScore(g, p)]
               mine == {e \in entries : e.player = p /\ e.game \in G}
    <3>1. PlayerStats(p).total = Sum(PointsOf, mine)
      BY TotalIsSum
    <3>2. Sum(PointsOf, mine) = Sum(w, G)
      <4> HIDE DEF G
      <4> QED
        BY <2>1, <2>2, SumByGame DEF G
    <3>3. MapThenSumSet(LAMBDA g : GameScore(g, p), G) = Sum(w, G)
      <4> HIDE DEF G
      <4> QED
        BY <2>1, <2>2, GamesAddUp DEF G
    <3> QED
      BY <3>1, <3>2, <3>3
  <2> QED
    BY <2>3, HighestIsBest, WinsAndLosses
<1> QED
  BY <1>1, StatsInvariant, PTL

\* A database starts with finitely many players and gains one at a time.
PlayersAreFinite == IsFiniteSet(usedPlayers)

LEMMA FinitePlayersInvariant ==
  ASSUME IsFiniteSet(InitPlayers)
  PROVE  Spec => []PlayersAreFinite
<1>1. Init => PlayersAreFinite
  BY DEF Init, StoreInit, PlayersAreFinite
<1>2. ASSUME TypeOK, PlayersAreFinite, [Next]_vars PROVE PlayersAreFinite'
  <2>1. usedPlayers' = usedPlayers \/ \E p : usedPlayers' = usedPlayers \cup {p}
    BY <1>2, OneStatement DEF Statement, storeVars, playerVars,
      CreateOrGetPlayer, CreateGame, AddPlayerToGame, AddScoreEntry,
      DeleteScoreEntryByID, DiscardGame, FinishGameWithWinners,
      HardDeletePlayer, SaveLastPlayers
  <2> QED
    BY <1>2, <2>1, FS_AddElement DEF PlayersAreFinite
<1> QED
  BY <1>1, <1>2, TypeCorrect, PTL DEF Spec

LEMMA MembersAreFinite ==
  ASSUME TypeOK, ReferentialIntegrity, PlayersAreFinite, NEW g \in GameId
  PROVE  IsFiniteSet(members[g])
<1>1. members[g] \subseteq usedPlayers
  BY DEF TypeOK, StoreTypeOK, ReferentialIntegrity
<1> QED
  BY <1>1, FS_Subset DEF PlayersAreFinite

=============================================================================
