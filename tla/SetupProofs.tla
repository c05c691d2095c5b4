---------------------------- MODULE SetupProofs ----------------------------
(***************************************************************************)
(* Machine-checked proofs about Setup, for any sets of players, names,     *)
(* posts and clients, however many taps and dialogs overlap.               *)
(***************************************************************************)
EXTENDS Setup, TLAPS

(* Rosters: what the operations of the screens make of a bag of players. *)

LEMMA SetRoster ==
  ASSUME NEW who \in SUBSET PlayerId
  PROVE  /\ SetToBag(who) \in Roster
         /\ BagToSet(SetToBag(who)) = who
         /\ \A p \in who : SetToBag(who)[p] = 1
<1>1. SetToBag(who) \in [who -> {1, 2}] /\ \A p \in who : SetToBag(who)[p] = 1
  BY DEF SetToBag
<1> QED
  BY <1>1 DEF Roster, BagToSet

LEMMA NoRoster == EmptyBag \in Roster /\ BagToSet(EmptyBag) = {}
  BY SetRoster DEF EmptyBag

LEMMA RosterShape ==
  ASSUME NEW roster \in Roster
  PROVE  /\ BagToSet(roster) \in SUBSET PlayerId
         /\ roster \in [BagToSet(roster) -> {1, 2}]
  BY DEF Roster, BagToSet

LEMMA AddToRoster ==
  ASSUME NEW roster \in Roster, NEW p \in PlayerId, ~BagIn(p, roster)
  PROVE  /\ BagAdd(roster, p) \in Roster
         /\ BagToSet(BagAdd(roster, p)) = BagToSet(roster) \cup {p}
         /\ BagAdd(roster, p)[p] = 1
         /\ \A q \in BagToSet(roster) : BagAdd(roster, p)[q] = roster[q]
<1> DEFINE who == DOMAIN roster
           more == BagAdd(roster, p)
<1>1. who \in SUBSET PlayerId /\ roster \in [who -> {1, 2}] /\ p \notin who
  BY RosterShape DEF BagToSet, BagIn
<1>2. more = [e \in who \cup {p} |-> IF e = p THEN 1 ELSE roster[e]]
  BY <1>1 DEF BagAdd
<1>3. /\ more \in [who \cup {p} -> {1, 2}]
      /\ more[p] = 1
      /\ \A q \in who : more[q] = roster[q]
  BY <1>1, <1>2
<1>4. more \in Roster
  BY <1>1, <1>3 DEF Roster
<1> QED
  BY <1>3, <1>4 DEF BagToSet

LEMMA RemoveFromRoster ==
  ASSUME NEW roster \in Roster, NEW p
  PROVE  /\ BagRemoveAll(roster, p) \in Roster
         /\ BagToSet(BagRemoveAll(roster, p)) = BagToSet(roster) \ {p}
         /\ \A q \in BagToSet(roster) \ {p} :
              BagRemoveAll(roster, p)[q] = roster[q]
<1> DEFINE who == DOMAIN roster
           rest == BagRemoveAll(roster, p)
<1>1. who \in SUBSET PlayerId /\ roster \in [who -> {1, 2}]
  BY RosterShape DEF BagToSet
<1>2. rest = [e \in who \ {p} |-> roster[e]]
  BY DEF BagRemoveAll
<1>3. rest \in [who \ {p} -> {1, 2}] /\ \A q \in who \ {p} : rest[q] = roster[q]
  BY <1>1, <1>2
<1>4. rest \in Roster
  BY <1>1, <1>3 DEF Roster
<1> QED
  BY <1>3, <1>4 DEF BagToSet

-----------------------------------------------------------------------------
(* What a step of a handler does to the request: it ends, it stays where   *)
(* it is, it goes on to its next call, or it knows what its post is to     *)
(* show.  Every proof below is about these four.                           *)

\* A screen the handlers can ask for, of players there are.
Shown(show) == show \in AnyScreen /\ NamesPlayer(show) /\ show.offers \subseteq Rows

\* The roster an answer to q may show, when it is about player p.
NextRoster(q, p, show) ==
  \/ show.kind \notin WithRoster /\ show.roster = EmptyBag
  \/ show.roster = q.roster
  \/ q.pc = "entry" /\ \E who \in SUBSET Rows : show.roster = SetToBag(who)
  \/ show.roster = BagRemoveAll(q.roster, p)
  \/ /\ p \in PlayerId /\ ~BagIn(p, q.roster)
     /\ show.roster = BagAdd(q.roster, p)
     /\ q.pc \in {"known_add", "add_dialog"}

Same(q, r) == r.post = q.post /\ r.roster = q.roster /\ r.alone = q.alone

GoesOn(q, r) ==
  /\ Same(q, r) /\ r.player = q.player /\ r.show = q.show
  /\ r.pc \in {"add_dialog", "rename_dialog", "rename", "list"}
  /\ r.pc \in AboutPlayer => q.pc \in AboutPlayer
  /\ r.pc = "rename" => r.typed \in Name

Replies(q, r) ==
  /\ Same(q, r) /\ r.pc = "answer"
  /\ r.player # q.player => q.pc = "add_dialog"
  /\ Shown(r.show)
  /\ NextRoster(q, r.player, r.show)

HandlerStep(c) ==
  /\ req[c].pc \notin {"idle", "answer"}
  /\ screen' = screen
  /\ req' \in [Client -> Request]
  /\ \A d \in Client \ {c} : req'[d] = req[d]
  /\ \/ req'[c] = Idle
     \/ req'[c] = req[c]
     \/ GoesOn(req[c], req'[c])
     \/ Replies(req[c], req'[c])

LEMMA IdleType == Idle \in Request /\ NamesPlayer(Idle.show)
  BY NoRoster DEF Idle, Request, PC, Started, Screen, AnyScreen, NamesPlayer

LEMMA ReturnStep ==
  ASSUME TypeOK, NEW c \in Client, Return(c), screen' = screen,
         req[c].pc \notin {"idle", "answer"}
  PROVE  HandlerStep(c)
  BY IdleType DEF TypeOK, Return, HandlerStep

LEMMA ReplyStep ==
  ASSUME TypeOK, NEW c \in Client, NEW show, Reply(c, show), screen' = screen,
         req[c].pc \notin {"idle", "answer"},
         Shown(show), NextRoster(req[c], req[c].player, show)
  PROVE  HandlerStep(c)
<1>1. req \in [Client -> Request] /\ req[c] \in Request
  BY DEF TypeOK
<1>2. req' = [req EXCEPT ![c] = [req[c] EXCEPT !.pc = "answer", !.show = show]]
  BY <1>1 DEF Reply
<1>3. [req[c] EXCEPT !.pc = "answer", !.show = show] \in Request
  BY <1>1 DEF Request, PC, Shown
<1>4. Replies(req[c], req'[c])
  BY <1>1, <1>2 DEF Replies, Same, Request
<1> QED
  BY <1>1, <1>2, <1>3, <1>4 DEF HandlerStep

LEMMA GotoStep ==
  ASSUME TypeOK, NEW c \in Client, screen' = screen,
         req[c].pc \notin {"idle", "answer"},
         NEW pc \in {"add_dialog", "rename_dialog", "list"},
         pc \in AboutPlayer => req[c].pc \in AboutPlayer,
         req' = [req EXCEPT ![c].pc = pc]
  PROVE  HandlerStep(c)
<1>1. req \in [Client -> Request] /\ req[c] \in Request
  BY DEF TypeOK
<1>2. req' = [req EXCEPT ![c] = [req[c] EXCEPT !.pc = pc]]
  BY <1>1
<1>3. [req[c] EXCEPT !.pc = pc] \in Request
  BY <1>1 DEF Request, PC
<1>4. GoesOn(req[c], req'[c])
  BY <1>1, <1>2 DEF GoesOn, Same, Request
<1> QED
  BY <1>1, <1>2, <1>3, <1>4 DEF HandlerStep

LEMMA PlainScreens ==
  /\ Shown(Menu) /\ Menu.roster = EmptyBag /\ Menu.kind \notin WithRoster
  /\ Shown(Started) /\ Started.roster = EmptyBag /\ Started.kind \notin WithRoster
  BY NoRoster
  DEF Shown, Menu, Started, Screen, AnyScreen, NamesPlayer, WithRoster

LEMMA ListScreen ==
  ASSUME NEW offers \in SUBSET Rows
  PROVE  /\ Shown(ListOf(offers)) /\ ListOf(offers).roster = EmptyBag
         /\ ListOf(offers).kind \notin WithRoster
  BY NoRoster
  DEF Shown, ListOf, Screen, AnyScreen, NamesPlayer, WithRoster, Rows

LEMMA PromptScreen ==
  ASSUME NEW p \in PlayerId
  PROVE  /\ Shown(DeletePromptOf(p)) /\ DeletePromptOf(p).roster = EmptyBag
         /\ DeletePromptOf(p).kind \notin WithRoster
  BY NoRoster
  DEF Shown, DeletePromptOf, Screen, AnyScreen, NamesPlayer, WithRoster

LEMMA SetupScreen ==
  ASSUME NEW roster \in Roster
  PROVE  Shown(SetupOf(roster)) /\ SetupOf(roster).roster = roster
  BY DEF Shown, SetupOf, Screen, AnyScreen, NamesPlayer

LEMMA PickerScreen ==
  ASSUME NEW roster \in Roster
  PROVE  /\ Shown(PickerOf(roster, Available(roster)))
         /\ PickerOf(roster, Available(roster)).roster = roster
  BY DEF Shown, PickerOf, Screen, AnyScreen, NamesPlayer, Available, Players, Rows

LEMMA NewGameStep ==
  ASSUME TypeOK, NEW c \in Client,
         \/ RenderMenu(c) \/ Entry(c) \/ RenderSetup(c) \/ RemovePlayer(c)
         \/ ShowKnown(c) \/ KnownAdd(c) \/ StartGame(c) \/ OpenAddPlayer(c)
  PROVE  HandlerStep(c)
<1> DEFINE q == req[c]
<1>0. q \in Request /\ q.roster \in Roster
  BY DEF TypeOK, Request
<1>1. CASE RenderMenu(c)
  BY <1>1, PlainScreens, ReplyStep DEF RenderMenu, NextRoster
<1>2. CASE Entry(c)
  <2>1. PICK remembered \in {last, {}} :
          Reply(c, SetupOf(SetToBag(remembered \cap Players)))
    BY <1>2 DEF Entry
  <2> DEFINE who == remembered \cap Players
  <2>2. who \in SUBSET Rows /\ who \in SUBSET PlayerId
    BY DEF Players, Rows
  <2> HIDE DEF who
  <2>3. SetToBag(who) \in Roster
    BY <2>2, SetRoster
  <2>4. NextRoster(q, q.player, SetupOf(SetToBag(who)))
    BY <1>2, <2>2, <2>3, SetupScreen DEF Entry, NextRoster
  <2>5. Reply(c, SetupOf(SetToBag(who)))
    BY <2>1 DEF who
  <2> QED
    BY <1>2, <2>3, <2>4, <2>5, SetupScreen, ReplyStep DEF Entry
<1>3. CASE RenderSetup(c)
  BY <1>0, <1>3, SetupScreen, ReplyStep DEF RenderSetup, NextRoster
<1>4. CASE RemovePlayer(c)
  <2>1. BagRemoveAll(q.roster, q.player) \in Roster
    BY <1>0, RemoveFromRoster
  <2> QED
    BY <1>4, <2>1, SetupScreen, ReplyStep DEF RemovePlayer, NextRoster
<1>5. CASE ShowKnown(c)
  BY <1>0, <1>5, PickerScreen, ReplyStep, ReturnStep DEF ShowKnown, NextRoster
<1>6. CASE KnownAdd(c)
  <2> DEFINE updated == IF BagIn(q.player, q.roster) THEN q.roster
                        ELSE BagAdd(q.roster, q.player)
             show == IF Available(updated) = {} THEN SetupOf(updated)
                     ELSE PickerOf(updated, Available(updated))
  <2>1. q.player \in PlayerId /\ q.pc = "known_add"
    BY <1>6 DEF KnownAdd, TypeOK, AboutPlayer
  <2>2. updated \in Roster
    BY <1>0, <2>1, AddToRoster
  <2>3. Reply(c, show) /\ screen' = screen
    BY <1>6 DEF KnownAdd
  <2>4. Shown(show) /\ show.roster = updated
    <3> HIDE DEF updated
    <3> QED
      BY <2>2, SetupScreen, PickerScreen
  <2>5. NextRoster(q, q.player, show)
    <3> HIDE DEF show
    <3> QED
      BY <2>1, <2>4 DEF NextRoster
  <2> HIDE DEF show
  <2> QED
    BY <2>1, <2>3, <2>4, <2>5, ReplyStep
<1>7. CASE StartGame(c)
  BY <1>7, PlainScreens, ReplyStep, ReturnStep DEF StartGame, NextRoster
<1>8. CASE OpenAddPlayer(c)
  BY <1>8, GotoStep DEF OpenAddPlayer, AboutPlayer
<1> QED
  BY <1>1, <1>2, <1>3, <1>4, <1>5, <1>6, <1>7, <1>8

LEMMA DialogStep ==
  ASSUME TypeOK, NEW c \in Client, NEW n \in Name, SubmitPlayer(c, n)
  PROVE  HandlerStep(c)
<1> DEFINE q == req[c]
<1>1. /\ req \in [Client -> Request] /\ q \in Request /\ q.roster \in Roster
      /\ q.pc = "add_dialog"
      /\ screen' = screen
  BY DEF TypeOK, Request, SubmitPlayer
<1>2. PICK p \in PlayerId :
        req' = IF BagIn(p, q.roster) THEN req
               ELSE [req EXCEPT ![c].pc = "answer", ![c].player = p,
                                ![c].show = SetupOf(BagAdd(q.roster, p))]
  BY DEF SubmitPlayer
<1>3. CASE BagIn(p, q.roster)
  BY <1>1, <1>2, <1>3 DEF HandlerStep
<1>4. CASE ~BagIn(p, q.roster)
  <2> DEFINE show == SetupOf(BagAdd(q.roster, p))
             r == [q EXCEPT !.pc = "answer", !.player = p, !.show = show]
  <2>1. Shown(show) /\ show.roster = BagAdd(q.roster, p)
    BY <1>1, <1>4, AddToRoster, SetupScreen
  <2>2. req' = [req EXCEPT ![c].pc = "answer", ![c].player = p, ![c].show = show]
    BY <1>2, <1>4
  <2>3. NextRoster(q, p, show)
    BY <1>1, <1>4, <2>1 DEF NextRoster
  <2> HIDE DEF show
  <2>4. req' = [req EXCEPT ![c] = r] /\ r \in Request
    BY <1>1, <2>1, <2>2 DEF Request, PC, Shown
  <2>5. Replies(q, r)
    BY <1>1, <2>1, <2>3 DEF Replies, Same, Request
  <2> HIDE DEF r
  <2> QED
    BY <1>1, <2>4, <2>5 DEF HandlerStep
<1> QED
  BY <1>3, <1>4

LEMMA PlayersStep ==
  ASSUME TypeOK, NEW c \in Client,
         \/ RenderList(c) \/ OpenRename(c) \/ \E n \in Name : SubmitRename(c, n)
         \/ RenamePlayer(c) \/ DeletePrompt(c) \/ DeleteConfirm(c)
  PROVE  HandlerStep(c)
<1> DEFINE q == req[c]
<1>0. req \in [Client -> Request] /\ q \in Request
  BY DEF TypeOK
<1>1. CASE RenderList(c)
  BY <1>1, ListScreen, ReplyStep DEF RenderList, Players, NextRoster
<1>2. CASE OpenRename(c)
  BY <1>2, GotoStep DEF OpenRename, AboutPlayer
<1>3. ASSUME NEW n \in Name, SubmitRename(c, n) PROVE HandlerStep(c)
  <2> DEFINE r == [q EXCEPT !.pc = "rename", !.typed = n]
  <2>1. /\ req' = [req EXCEPT ![c] = r] /\ r \in Request
        /\ q.pc = "rename_dialog" /\ screen' = screen
    BY <1>0, <1>3 DEF SubmitRename, Request, PC
  <2>2. GoesOn(q, r)
    BY <1>0, <1>3, <2>1 DEF SubmitRename, GoesOn, Same, Request, AboutPlayer
  <2> HIDE DEF r
  <2> QED
    BY <1>0, <2>1, <2>2 DEF HandlerStep
<1>4. CASE RenamePlayer(c)
  BY <1>4, ReturnStep, GotoStep DEF RenamePlayer, AboutPlayer
<1>5. CASE DeletePrompt(c)
  <2>1. CASE q.player \in Players
    <3>1. q.player \in PlayerId
      BY <2>1 DEF Players, Rows
    <3> QED
      BY <1>5, <2>1, <3>1, PromptScreen, ReplyStep DEF DeletePrompt, NextRoster
  <2> QED
    BY <1>5, <2>1, GotoStep DEF DeletePrompt, AboutPlayer
<1>6. CASE DeleteConfirm(c)
  BY <1>6, ReturnStep, GotoStep DEF DeleteConfirm, AboutPlayer
<1> QED
  BY <1>1, <1>2, <1>3, <1>4, <1>5, <1>6

LEMMA EveryHandlerStep ==
  ASSUME TypeOK, NEW c \in Client, Handle(c)
  PROVE  HandlerStep(c)
  BY NewGameStep, DialogStep, PlayersStep DEF Handle

-----------------------------------------------------------------------------
(* Types, and the UNIQUE index. *)

TablesOK ==
  /\ name \in [PlayerId -> Name \cup {NoName}]
  /\ used \subseteq PlayerId
  /\ hidden \subseteq Rows /\ Rows \subseteq used
  /\ Unique(name)
  /\ last \subseteq Rows

RequestTyped(q) ==
  /\ NamesPlayer(q.show)
  /\ q.pc # "idle" => q.post \in Post
  /\ q.pc \in AboutPlayer => q.player \in PlayerId
  /\ q.pc = "rename" => q.typed \in Name

\* What a step of a handler does to the tables: an id is never taken back.
TablesStep == TablesOK' /\ used \subseteq used'

LEMMA SubmitTables ==
  ASSUME TypeOK, NEW c \in Client, NEW n \in Name, SubmitPlayer(c, n)
  PROVE  /\ TablesStep
         /\ req'[c] = req[c] \/ req'[c].player \in used'
<1>0. /\ TablesOK /\ req \in [Client -> Request] /\ req[c] \in Request
  BY DEF TypeOK, TablesOK
<1>1. PICK p \in PlayerId :
        /\ CreateOrGetPlayer(n, p)
        /\ req' = IF BagIn(p, req[c].roster) THEN req
                  ELSE [req EXCEPT ![c].pc = "answer", ![c].player = p,
                          ![c].show = SetupOf(BagAdd(req[c].roster, p))]
        /\ last' = last
  BY DEF SubmitPlayer
<1>2. req'[c] = req[c] \/ req'[c].player = p
  BY <1>0, <1>1 DEF Request
<1>3. CASE \E q \in Rows : name[q] = n
  <2>1. /\ name[p] = n /\ name' = name /\ used' = used /\ hidden' = hidden \ {p}
    BY <1>1, <1>3 DEF CreateOrGetPlayer
  <2>2. p \in Rows
    BY <2>1, SetupAssumption DEF Rows
  <2> QED
    BY <1>0, <1>1, <1>2, <2>1, <2>2 DEF TablesStep, TablesOK, Rows, Unique
<1>4. CASE ~\E q \in Rows : name[q] = n
  <2>1. /\ p \in PlayerId \ used /\ name' = [name EXCEPT ![p] = n]
        /\ used' = used \cup {p} /\ hidden' = hidden \ {p}
    BY <1>1, <1>4 DEF CreateOrGetPlayer
  <2>2. Rows' = Rows \cup {p}
    BY <1>0, <2>1, SetupAssumption DEF Rows, TablesOK
  <2>3. \A q \in PlayerId : name[q] # n
    BY <1>4, SetupAssumption DEF Rows
  <2>4. Unique(name)'
    BY <1>0, <2>1, <2>3 DEF TablesOK, Unique
  <2> QED
    BY <1>0, <1>1, <1>2, <2>1, <2>2, <2>4 DEF TablesStep, TablesOK
<1> QED
  BY <1>3, <1>4

LEMMA HandleTables ==
  ASSUME TypeOK, NEW c \in Client, Handle(c)
  PROVE  TablesStep
<1>0. TablesOK
  BY DEF TypeOK, TablesOK
<1>1. CASE UNCHANGED tables
  BY <1>0, <1>1 DEF tables, TablesStep, TablesOK, Rows, Unique
<1>2. ASSUME NEW n \in Name, SubmitPlayer(c, n) PROVE TablesStep
  BY <1>2, SubmitTables
<1>3. CASE StartGame(c)
  <2>1. UNCHANGED <<name, used, hidden>> /\ last' \in {last} \cup SUBSET Rows
    BY <1>3 DEF StartGame
  <2> QED
    BY <1>0, <2>1 DEF TablesStep, TablesOK, Rows, Unique
<1>4. CASE RenamePlayer(c)
  <2> DEFINE p == req[c].player
             n == req[c].typed
  <2>0. p \in PlayerId /\ n \in Name
    BY <1>4 DEF RenamePlayer, TypeOK, AboutPlayer
  <2>1. UNCHANGED <<hidden, used, last>>
    BY <1>4 DEF RenamePlayer
  <2>2. CASE name' = name
    BY <1>0, <2>1, <2>2 DEF TablesStep, TablesOK, Rows, Unique
  <2>3. CASE name' # name
    <3>1. /\ p \in Rows /\ name' = [name EXCEPT ![p] = n]
          /\ \A q \in Rows \ {p} : name[q] # n
      BY <1>4, <2>3 DEF RenamePlayer
    <3>2. Rows' = Rows
      BY <1>0, <2>0, <3>1, SetupAssumption DEF Rows, TablesOK
    <3>3. Unique(name)'
      BY <1>0, <2>0, <3>1, SetupAssumption DEF Unique, TablesOK, Rows
    <3> QED
      BY <1>0, <2>0, <2>1, <3>1, <3>2, <3>3 DEF TablesStep, TablesOK
  <2> QED
    BY <2>2, <2>3
<1>5. CASE DeleteConfirm(c)
  <2> DEFINE p == req[c].player
  <2>0. p \in PlayerId
    BY <1>5 DEF DeleteConfirm, TypeOK, AboutPlayer
  <2>1. CASE UNCHANGED <<name, hidden, used, last>>
    BY <1>0, <2>1 DEF TablesStep, TablesOK, Rows, Unique
  <2>2. CASE /\ name' = [name EXCEPT ![p] = NoName] /\ used' = used
             /\ hidden' = hidden \ {p} /\ last' = last \ {p}
    <3>1. Rows' = Rows \ {p}
      BY <1>0, <2>0, <2>2 DEF Rows, TablesOK
    <3>2. Unique(name)'
      BY <1>0, <2>0, <2>2 DEF Unique, TablesOK
    <3> QED
      BY <1>0, <2>2, <3>1, <3>2 DEF TablesStep, TablesOK
  <2> QED
    BY <1>5, <2>1, <2>2 DEF DeleteConfirm
<1>6. CASE \/ RenderMenu(c) \/ Entry(c) \/ RenderSetup(c) \/ RemovePlayer(c)
           \/ ShowKnown(c) \/ KnownAdd(c) \/ OpenAddPlayer(c) \/ RenderList(c)
           \/ OpenRename(c) \/ (\E n \in Name : SubmitRename(c, n))
           \/ DeletePrompt(c)
  BY <1>1, <1>6
  DEF RenderMenu, Entry, RenderSetup, RemovePlayer, ShowKnown, KnownAdd,
      OpenAddPlayer, RenderList, OpenRename, SubmitRename, DeletePrompt
<1> QED
  BY <1>2, <1>3, <1>4, <1>5, <1>6 DEF Handle

\* The request a tap starts.
Tapped(c, s, button) ==
  [Idle EXCEPT !.pc     = button[1],
               !.post   = s,
               !.roster = screen[s].roster,
               !.player = button[2],
               !.alone  = \A o \in Client \ {c} : req[o].pc = "idle"]

LEMMA ButtonFacts ==
  ASSUME NEW s \in AnyScreen, NamesPlayer(s), NEW button \in Buttons(s)
  PROVE  /\ button[1] \in PC \ {"idle", "answer", "rename"}
         /\ button[2] \in PlayerId \cup {NoPlayer}
         /\ button[1] \in AboutPlayer => button[2] \in PlayerId
         /\ button[1] = "entry" => s.kind = "menu"
         /\ button[1] = "known_add" => button[2] \in s.offers
<1> DEFINE start == IF BagCardinality(s.roster) >= 2 THEN {"start"} ELSE {}
<1>0. /\ s.roster \in Roster /\ s.offers \subseteq PlayerId
      /\ s.kind = "prompt" => s.player \in PlayerId
      /\ BagToSet(s.roster) \subseteq PlayerId
      /\ s.kind \in {"menu", "stub", "setup", "picker", "list", "prompt"}
  BY RosterShape DEF AnyScreen, NamesPlayer
<1>1. start \subseteq {"start"}
  OBVIOUS
<1> HIDE DEF start
<1>2. CASE s.kind = "menu"
  BY <1>0, <1>2 DEF Buttons, Plain, PC, AboutPlayer
<1>3. CASE s.kind = "setup"
  <2>1. button \in ({"remove"} \X BagToSet(s.roster))
                   \cup Plain({"open_add", "known", "menu"} \cup start)
    BY <1>3 DEF Buttons, start
  <2> QED
    BY <1>0, <1>1, <2>1 DEF Plain, PC, AboutPlayer
<1>4. CASE s.kind = "picker"
  <2>1. button \in ({"known_add"} \X s.offers) \cup Plain({"setup"} \cup start)
    BY <1>4 DEF Buttons, start
  <2> QED
    BY <1>0, <1>1, <2>1 DEF Plain, PC, AboutPlayer
<1>5. CASE s.kind = "list"
  BY <1>0, <1>5 DEF Buttons, Plain, PC, AboutPlayer
<1>6. CASE s.kind = "prompt"
  BY <1>0, <1>6 DEF Buttons, Plain, PC, AboutPlayer
<1>7. CASE s.kind = "stub"
  BY <1>7 DEF Buttons
<1> QED
  BY <1>0, <1>2, <1>3, <1>4, <1>5, <1>6, <1>7

\* What a tap does: the request starts, and nobody was alone but it.
TapStep(c, s) ==
  /\ req[c].pc = "idle"
  /\ UNCHANGED <<tables, screen>>
  /\ req' \in [Client -> Request]
  /\ \A d \in Client \ {c} : req'[d] = [req[d] EXCEPT !.alone = FALSE]
  /\ RequestTyped(req'[c])
  /\ req'[c].post = s /\ req'[c].roster = screen[s].roster
  /\ req'[c].show = Started
  /\ req'[c].pc \notin {"idle", "answer", "rename"}
  /\ req'[c].pc = "entry" => screen[s].kind = "menu"
  /\ req'[c].pc = "known_add" => req'[c].player \in screen[s].offers
  /\ req'[c].alone = (\A o \in Client \ {c} : req[o].pc = "idle")

LEMMA EveryTapStep ==
  ASSUME TypeOK, NEW c \in Client, NEW s \in Post, Tap(c, s)
  PROVE  TapStep(c, s)
<1>0. /\ screen[s] \in AnyScreen /\ NamesPlayer(screen[s])
      /\ screen[s].roster \in Roster /\ req \in [Client -> Request]
  BY DEF TypeOK, AnyScreen
<1>1. PICK button \in Buttons(screen[s]) :
        req' = [d \in Client |-> IF d = c THEN Tapped(c, s, button)
                                ELSE [req[d] EXCEPT !.alone = FALSE]]
  BY DEF Tap, Tapped
<1> DEFINE q == Tapped(c, s, button)
<1>2. /\ q.pc = button[1] /\ q.post = s /\ q.roster = screen[s].roster
      /\ q.player = button[2] /\ q.typed = NoName /\ q.show = Started
      /\ q.alone = (\A o \in Client \ {c} : req[o].pc = "idle")
      /\ q \in Request
  BY <1>0, ButtonFacts, IdleType DEF Tapped, Idle, Request
<1>3. RequestTyped(q)
  BY <1>0, <1>2, ButtonFacts, PlainScreens DEF RequestTyped, Shown
<1>4. \A d \in Client : [req[d] EXCEPT !.alone = FALSE] \in Request
  BY <1>0 DEF Request
<1>5. /\ req[c].pc = "idle" /\ UNCHANGED <<tables, screen>>
      /\ req' = [d \in Client |-> IF d = c THEN q
                                ELSE [req[d] EXCEPT !.alone = FALSE]]
  BY <1>1 DEF Tap
<1> HIDE DEF q
<1>6. /\ req' \in [Client -> Request] /\ req'[c] = q
      /\ \A d \in Client \ {c} : req'[d] = [req[d] EXCEPT !.alone = FALSE]
  BY <1>2, <1>4, <1>5
<1>7. /\ q.pc \notin {"idle", "answer", "rename"}
      /\ q.pc = "entry" => screen[s].kind = "menu"
      /\ q.pc = "known_add" => q.player \in screen[s].offers
  BY <1>0, <1>2, ButtonFacts
<1> QED
  BY <1>2, <1>3, <1>5, <1>6, <1>7, Zenon DEF TapStep

LEMMA HandlerTypes ==
  ASSUME TypeOK, NEW c \in Client, HandlerStep(c)
  PROVE  \A d \in Client : RequestTyped(req'[d])
<1>1. \A d \in Client : RequestTyped(req[d])
  BY DEF TypeOK, RequestTyped
<1>2. RequestTyped(Idle)
  BY IdleType DEF RequestTyped, Idle, AboutPlayer
<1>3. ASSUME GoesOn(req[c], req'[c]) PROVE RequestTyped(req'[c])
  BY <1>1, <1>3 DEF GoesOn, Same, RequestTyped, HandlerStep
<1>4. ASSUME Replies(req[c], req'[c]) PROVE RequestTyped(req'[c])
  BY <1>1, <1>4 DEF Replies, Same, Shown, RequestTyped, HandlerStep, AboutPlayer
<1> QED
  BY <1>1, <1>2, <1>3, <1>4 DEF HandlerStep

LEMMA NextTypeOK == TypeOK /\ [Next]_vars => TypeOK'
<1> SUFFICES ASSUME TypeOK, [Next]_vars PROVE TypeOK'
  OBVIOUS
<1>0. /\ TablesOK /\ req \in [Client -> Request] /\ screen \in [Post -> AnyScreen]
      /\ \A d \in Client : RequestTyped(req[d])
      /\ \A s \in Post : NamesPlayer(screen[s])
  BY DEF TypeOK, TablesOK, RequestTyped
<1>1. ASSUME /\ TablesOK' /\ req' \in [Client -> Request]
             /\ screen' \in [Post -> AnyScreen]
             /\ \A d \in Client : RequestTyped(req'[d])
             /\ \A s \in Post : NamesPlayer(screen'[s])
      PROVE  TypeOK'
  BY <1>1 DEF TypeOK, TablesOK, RequestTyped
<1>2. ASSUME UNCHANGED tables PROVE TablesOK'
  BY <1>0, <1>2 DEF tables, TablesOK, Rows, Unique
<1>3. ASSUME NEW s \in Post, Slash(s) PROVE TypeOK'
  BY <1>0, <1>1, <1>2, <1>3, PlainScreens DEF Slash, Shown
<1>4. ASSUME NEW c \in Client, NEW s \in Post, Tap(c, s) PROVE TypeOK'
  <2>1. TapStep(c, s)
    BY <1>4, EveryTapStep
  <2>2. \A d \in Client : RequestTyped(req'[d])
    BY <1>0, <2>1 DEF TapStep, RequestTyped, Request
  <2> QED
    BY <1>0, <1>1, <1>2, <2>1, <2>2 DEF TapStep
<1>5. ASSUME NEW c \in Client, Handle(c) PROVE TypeOK'
  <2>1. HandlerStep(c) /\ TablesStep
    BY <1>5, EveryHandlerStep, HandleTables
  <2> QED
    BY <1>0, <1>1, <2>1, HandlerTypes DEF HandlerStep, TablesStep
<1>6. ASSUME NEW c \in Client, Return(c) PROVE /\ req' \in [Client -> Request]
                                            /\ \A d \in Client : RequestTyped(req'[d])
  BY <1>0, <1>6, IdleType DEF Return, RequestTyped, Idle, AboutPlayer
<1>7. ASSUME NEW c \in Client, Answer(c) PROVE TypeOK'
  <2>1. /\ req[c].post \in Post /\ req[c].show \in AnyScreen
        /\ NamesPlayer(req[c].show)
    BY <1>0, <1>7 DEF Answer, RequestTyped, Request
  <2> QED
    BY <1>0, <1>1, <1>2, <1>6, <1>7, <2>1 DEF Answer
<1>8. ASSUME NEW c \in Client, Fail(c) PROVE TypeOK'
  BY <1>0, <1>1, <1>2, <1>6, <1>8 DEF Fail
<1>9. CASE UNCHANGED vars
  BY <1>0, <1>1, <1>2, <1>9 DEF vars
<1> QED
  BY <1>3, <1>4, <1>5, <1>7, <1>8, <1>9 DEF Next

LEMMA InitTypeOK == Init => TypeOK
<1> SUFFICES ASSUME Init PROVE TypeOK
  OBVIOUS
<1>1. Started \in AnyScreen /\ NamesPlayer(Started)
  BY PlainScreens DEF Shown
<1>2. Rows \subseteq PlayerId /\ used = Rows /\ hidden = Rows /\ last \subseteq Rows
  BY DEF Init, Rows
<1> QED
  BY <1>1, <1>2, IdleType DEF Init, TypeOK, Idle, AboutPlayer

\* Buttons, dialogs and answers carry rosters of players, and a handler about one
\* player has one; names stay unique, through renames and soft deletes undone.
THEOREM TypeCorrect == Spec => []TypeOK
  BY InitTypeOK, NextTypeOK, PTL DEF Spec

(***************************************************************************)
(* Rosters.  A roster on a post, in a request or a dialog, or on its way,  *)
(* is the bag of a set of ids that have been given out.  What can be added *)
(* to it has been given out too: the offers of a picker, which may be old, *)
(* and the id CreateOrGetPlayer returns.                                   *)
(***************************************************************************)
Good(roster, ids) ==
  roster = SetToBag(BagToSet(roster)) /\ BagToSet(roster) \subseteq ids

GoodScreen(s, ids) == Good(s.roster, ids) /\ s.offers \subseteq ids

GoodRequest(q, ids) ==
  /\ Good(q.roster, ids) /\ GoodScreen(q.show, ids)
  /\ q.pc = "known_add" => q.player \in ids

RostersInv ==
  /\ TypeOK
  /\ \A s \in Post : GoodScreen(screen[s], used)
  /\ \A c \in Client : GoodRequest(req[c], used)

LEMMA GoodStays ==
  ASSUME NEW ids, NEW more, ids \subseteq more
  PROVE  /\ \A s : GoodScreen(s, ids) => GoodScreen(s, more)
         /\ \A q : GoodRequest(q, ids) => GoodRequest(q, more)
  BY DEF Good, GoodScreen, GoodRequest

LEMMA BagOfASet ==
  ASSUME NEW roster \in Roster
  PROVE  roster = SetToBag(BagToSet(roster))
           <=> \A p \in BagToSet(roster) : roster[p] = 1
<1>1. roster = [p \in BagToSet(roster) |-> roster[p]]
  BY RosterShape
<1> QED
  BY <1>1 DEF SetToBag

LEMMA GoodNextRoster ==
  ASSUME NEW ids, NEW q \in Request, Good(q.roster, ids),
         NEW p, NEW show \in AnyScreen, NextRoster(q, p, show),
         Rows \subseteq ids,
         q.pc \in {"known_add", "add_dialog"} => p \in ids
  PROVE  Good(show.roster, ids)
<1>0. q.roster \in Roster /\ show.roster \in Roster
  BY DEF Request, AnyScreen
<1>1. \A x \in BagToSet(q.roster) : q.roster[x] = 1 /\ x \in ids
  BY <1>0, BagOfASet DEF Good
<1>2. ASSUME \A x \in BagToSet(show.roster) : show.roster[x] = 1 /\ x \in ids
      PROVE  Good(show.roster, ids)
  BY <1>0, <1>2, BagOfASet DEF Good
<1>3. CASE show.roster = EmptyBag
  BY <1>2, <1>3, NoRoster
<1>4. CASE show.roster = q.roster
  BY <1>1, <1>2, <1>4
<1>5. ASSUME NEW who \in SUBSET Rows, show.roster = SetToBag(who)
      PROVE  Good(show.roster, ids)
  <2>1. who \in SUBSET PlayerId /\ who \subseteq ids
    BY DEF Rows
  <2> QED
    BY <1>2, <1>5, <2>1, SetRoster
<1>6. CASE show.roster = BagRemoveAll(q.roster, p)
  BY <1>0, <1>1, <1>2, <1>6, RemoveFromRoster
<1>7. CASE /\ p \in PlayerId /\ ~BagIn(p, q.roster)
           /\ show.roster = BagAdd(q.roster, p) /\ p \in ids
  BY <1>0, <1>1, <1>2, <1>7, AddToRoster
<1> QED
  BY <1>3, <1>4, <1>5, <1>6, <1>7 DEF NextRoster

\* Who is added to a roster has been given out by then.
LEMMA AddedIsUsed ==
  ASSUME RostersInv, NEW c \in Client, Handle(c), HandlerStep(c),
         Replies(req[c], req'[c]), used \subseteq used',
         req[c].pc \in {"known_add", "add_dialog"}
  PROVE  req'[c].player \in used'
<1>1. CASE req[c].pc = "known_add"
  BY <1>1 DEF Replies, RostersInv, GoodRequest
<1>2. CASE req[c].pc = "add_dialog"
  <2>1. PICK n \in Name : SubmitPlayer(c, n)
    BY <1>2
    DEF Handle, RenderMenu, Entry, RenderSetup, RemovePlayer, ShowKnown,
        KnownAdd, StartGame, OpenAddPlayer, RenderList, OpenRename,
        SubmitRename, RenamePlayer, DeletePrompt, DeleteConfirm
  <2>2. req'[c] # req[c]
    BY <1>2 DEF Replies
  <2> QED
    BY <2>1, <2>2, SubmitTables DEF RostersInv
<1> QED
  BY <1>1, <1>2

LEMMA GoodIdle == GoodRequest(Idle, used) /\ GoodScreen(Started, used)
<1>1. Good(EmptyBag, used)
  BY NoRoster DEF Good, EmptyBag
<1> QED
  BY <1>1 DEF GoodRequest, GoodScreen, Idle, Started, Screen

LEMMA NextRosters == RostersInv /\ [Next]_vars => RostersInv'
<1> SUFFICES ASSUME RostersInv, [Next]_vars PROVE RostersInv'
  OBVIOUS
<1>0. /\ TypeOK /\ TypeOK' /\ req \in [Client -> Request]
      /\ screen \in [Post -> AnyScreen]
      /\ \A s \in Post : GoodScreen(screen[s], used)
      /\ \A c \in Client : GoodRequest(req[c], used)
  BY NextTypeOK DEF RostersInv, TypeOK
<1>1. ASSUME NEW s \in Post, Slash(s) PROVE RostersInv'
  <2>1. used' = used /\ req' = req /\ screen' = [screen EXCEPT ![s] = Menu]
    BY <1>1 DEF Slash, tables
  <2>2. GoodScreen(Menu, used)
    BY GoodIdle, PlainScreens DEF GoodScreen, Menu, Started, Screen
  <2> QED
    BY <1>0, <2>1, <2>2 DEF RostersInv
<1>2. ASSUME NEW c \in Client, NEW s \in Post, Tap(c, s) PROVE RostersInv'
  <2>1. TapStep(c, s) /\ used' = used /\ screen' = screen
    BY <1>0, <1>2, EveryTapStep DEF Tap, tables
  <2>2. GoodRequest(req'[c], used)
    BY <1>0, <2>1, GoodIdle DEF TapStep, GoodRequest, GoodScreen
  <2>3. \A d \in Client \ {c} : GoodRequest(req'[d], used)
    BY <1>0, <2>1 DEF TapStep, GoodRequest, Request
  <2> QED
    BY <1>0, <2>1, <2>2, <2>3 DEF RostersInv
<1>3. ASSUME NEW c \in Client, Handle(c) PROVE RostersInv'
  <2>1. HandlerStep(c) /\ used \subseteq used' /\ Rows \subseteq used'
    BY <1>0, <1>3, EveryHandlerStep, HandleTables DEF TablesStep, TypeOK
  <2>2. GoodRequest(req'[c], used')
    <3>1. CASE req'[c] = Idle \/ req'[c] = req[c]
      BY <1>0, <2>1, <3>1, GoodIdle, GoodStays
    <3>2. CASE GoesOn(req[c], req'[c])
      BY <1>0, <2>1, <3>2, GoodStays DEF GoesOn, Same, GoodRequest
    <3>3. CASE Replies(req[c], req'[c])
      <4>1. GoodRequest(req[c], used')
        BY <1>0, <2>1, GoodStays
      <4>2. Good(req'[c].show.roster, used')
        BY <1>0, <1>3, <2>1, <3>3, <4>1, AddedIsUsed, GoodNextRoster
        DEF Replies, Shown, GoodRequest
      <4> QED
        BY <2>1, <3>3, <4>1, <4>2 DEF Replies, Same, Shown, GoodRequest, GoodScreen
    <3> QED
      BY <2>1, <3>1, <3>2, <3>3 DEF HandlerStep
  <2>3. \A s \in Post : GoodScreen(screen'[s], used')
    BY <1>0, <2>1, GoodStays DEF HandlerStep
  <2>4. \A d \in Client \ {c} : GoodRequest(req'[d], used')
    BY <1>0, <2>1, GoodStays DEF HandlerStep
  <2> QED
    BY <1>0, <2>2, <2>3, <2>4 DEF RostersInv
<1>4. ASSUME NEW c \in Client, Return(c), UNCHANGED used,
             \A s \in Post : GoodScreen(screen'[s], used)
      PROVE  RostersInv'
  BY <1>0, <1>4, GoodIdle DEF Return, RostersInv
<1>5. ASSUME NEW c \in Client, Answer(c) PROVE RostersInv'
  BY <1>0, <1>4, <1>5 DEF Answer, tables, GoodRequest
<1>6. ASSUME NEW c \in Client, Fail(c) PROVE RostersInv'
  BY <1>0, <1>4, <1>6 DEF Fail, tables
<1>7. CASE UNCHANGED vars
  BY <1>0, <1>7 DEF vars, tables, RostersInv
<1> QED
  BY <1>1, <1>2, <1>3, <1>5, <1>6, <1>7 DEF Next

LEMMA RostersInvariant == Spec => []RostersInv
<1>1. Init => RostersInv
  BY InitTypeOK, GoodIdle DEF Init, RostersInv
<1> QED
  BY <1>1, NextRosters, PTL DEF Spec

\* A roster never lists a player twice, although it is carried by buttons and
\* dialogs of any age and each adds to the roster it carries.
THEOREM RostersHoldNobodyTwice == Spec => []RostersAreSets
<1>1. RostersInv => RostersAreSets
  BY DEF RostersInv, RostersAreSets, Rosters, GoodScreen, GoodRequest, Good
<1> QED
  BY <1>1, RostersInvariant, PTL

\* Whoever a roster lists has existed, however old the screen it comes from.
THEOREM RostersNameNoStranger == Spec => []RostersHoldUsedPlayers
<1>1. RostersInv => RostersHoldUsedPlayers
  BY DEF RostersInv, RostersHoldUsedPlayers, Rosters, GoodScreen, GoodRequest,
         Good
<1> QED
  BY <1>1, RostersInvariant, PTL

(***************************************************************************)
(* One tap at a time.  A request during which nothing else was under way   *)
(* still agrees with the post it came from: nobody has answered to it.     *)
(***************************************************************************)
Undisturbed(c) ==
  LET q == req[c]
      s == screen[q.post]
  IN  /\ \A d \in Client \ {c} : req[d].pc = "idle"
      /\ q.roster = s.roster
      /\ q.pc = "entry" => s.kind = "menu"
      /\ q.pc = "answer" /\ s.kind \in WithRoster /\ q.show.kind \in WithRoster
           => \A p \in PlayerId \ {q.player} :
                Copies(p, s.roster) = Copies(p, q.show.roster)

AloneInv ==
  TypeOK /\ \A c \in Client : req[c].alone /\ req[c].pc # "idle" => Undisturbed(c)

\* An answer about one player differs from the roster it was asked for by that
\* player alone.
LEMMA OneChanges ==
  ASSUME NEW q \in Request, NEW r, Replies(q, r), q.pc # "entry",
         r.show.kind \in WithRoster,
         NEW p \in PlayerId \ {r.player}
  PROVE  Copies(p, q.roster) = Copies(p, r.show.roster)
<1>0. q.roster \in Roster
  BY DEF Request
<1>1. CASE r.show.roster = q.roster
  BY <1>1
<1>2. CASE r.show.roster = BagRemoveAll(q.roster, r.player)
  BY <1>0, <1>2, RemoveFromRoster DEF Copies, BagIn
<1>3. CASE /\ r.player \in PlayerId /\ ~BagIn(r.player, q.roster)
           /\ r.show.roster = BagAdd(q.roster, r.player)
  BY <1>0, <1>3, AddToRoster DEF Copies, BagIn
<1> QED
  BY <1>1, <1>2, <1>3 DEF Replies, NextRoster

LEMMA NextAlone == AloneInv /\ [Next]_vars => AloneInv'
<1> SUFFICES ASSUME AloneInv, [Next]_vars PROVE AloneInv'
  OBVIOUS
<1>0. /\ TypeOK /\ TypeOK' /\ req \in [Client -> Request]
      /\ screen \in [Post -> AnyScreen]
      /\ \A c \in Client : req[c].pc # "idle" => req[c].post \in Post
      /\ \A c \in Client : req[c].alone /\ req[c].pc # "idle" => Undisturbed(c)
  BY NextTypeOK DEF AloneInv, TypeOK
\* Whoever is about to act leaves nobody else alone.
<1>1. ASSUME NEW c \in Client, NEW d \in Client \ {c}, req[c].pc # "idle"
      PROVE  req[d].pc = "idle" \/ ~req[d].alone
  BY <1>0, <1>1 DEF Undisturbed
<1>2. ASSUME NEW s \in Post, Slash(s) PROVE AloneInv'
  BY <1>0, <1>2 DEF Slash, tables, AloneInv, Undisturbed, Rows
<1>3. ASSUME NEW c \in Client, NEW s \in Post, Tap(c, s) PROVE AloneInv'
  <2>1. TapStep(c, s) /\ screen' = screen
    BY <1>0, <1>3, EveryTapStep DEF Tap
  <2>2. \A d \in Client \ {c} : ~req'[d].alone
    BY <1>0, <2>1 DEF TapStep, Request
  <2>3. ASSUME req'[c].alone PROVE Undisturbed(c)'
    <3>1. \A d \in Client \ {c} : req[d].pc = "idle"
      BY <2>1, <2>3 DEF TapStep
    <3>2. \A d \in Client \ {c} : req'[d].pc = "idle"
      BY <1>0, <2>1, <3>1 DEF TapStep, Request
    <3> QED
      BY <2>1, <3>2 DEF TapStep, Undisturbed
  <2> QED
    BY <1>0, <2>2, <2>3 DEF AloneInv
<1>4. ASSUME NEW c \in Client, Handle(c) PROVE AloneInv'
  <2>1. HandlerStep(c) /\ screen' = screen /\ req[c].pc # "idle"
    BY <1>0, <1>4, EveryHandlerStep DEF HandlerStep
  <2>2. \A d \in Client \ {c} : req'[d] = req[d]
    BY <2>1 DEF HandlerStep
  <2>3. \A d \in Client \ {c} : ~(req'[d].alone /\ req'[d].pc # "idle")
    BY <1>1, <2>1, <2>2
  <2>4. ASSUME req'[c].alone, req'[c].pc # "idle" PROVE Undisturbed(c)'
    <3>1. CASE req'[c] = Idle
      BY <2>4, <3>1 DEF Idle
    <3>2. CASE req'[c] = req[c]
      <4>1. Undisturbed(c)
        BY <1>0, <2>4, <3>2
      <4> QED
        BY <2>1, <2>2, <3>2, <4>1 DEF Undisturbed
    <3>3. CASE GoesOn(req[c], req'[c])
      <4>1. Undisturbed(c)
        BY <1>0, <2>1, <2>4, <3>3 DEF GoesOn, Same
      <4> QED
        BY <2>1, <2>2, <3>3, <4>1 DEF GoesOn, Same, Undisturbed
    <3>4. CASE Replies(req[c], req'[c])
      <4>1. Undisturbed(c) /\ req[c] \in Request
        BY <1>0, <2>1, <2>4, <3>4 DEF Replies, Same
      <4>2. CASE req[c].pc = "entry"
        BY <2>1, <2>2, <3>4, <4>1, <4>2 DEF Replies, Same, Undisturbed, WithRoster
      <4>3. CASE req[c].pc # "entry"
        <5>1. req'[c].show.kind \in WithRoster =>
                \A p \in PlayerId \ {req'[c].player} :
                  Copies(p, req[c].roster) = Copies(p, req'[c].show.roster)
          BY <3>4, <4>1, <4>3, OneChanges
        <5> QED
          BY <2>1, <2>2, <3>4, <4>1, <5>1 DEF Replies, Same, Undisturbed
      <4> QED
        BY <4>2, <4>3
    <3> QED
      BY <2>1, <3>1, <3>2, <3>3, <3>4 DEF HandlerStep
  <2> QED
    BY <1>0, <2>3, <2>4 DEF AloneInv
<1>5. ASSUME NEW c \in Client, Return(c), req[c].pc # "idle" PROVE AloneInv'
  <2>1. req'[c] = Idle /\ \A d \in Client \ {c} : req'[d] = req[d]
    BY <1>0, <1>5 DEF Return
  <2> QED
    BY <1>0, <1>1, <1>5, <2>1 DEF AloneInv, Idle
<1>6. ASSUME NEW c \in Client, Answer(c) \/ Fail(c) PROVE AloneInv'
  BY <1>5, <1>6 DEF Answer, Fail
<1>7. CASE UNCHANGED vars
  BY <1>0, <1>7 DEF vars, tables, AloneInv, Undisturbed, Rows
<1> QED
  BY <1>2, <1>3, <1>4, <1>6, <1>7 DEF Next

LEMMA AloneInvariant == Spec => []AloneInv
<1>1. Init => AloneInv
  BY InitTypeOK DEF Init, AloneInv, Idle
<1> QED
  BY <1>1, NextAlone, PTL DEF Spec

\* With nothing else under way, what a post's roster becomes differs from what
\* it was by the player the tap, or the dialog, was about.
THEOREM TapsChangeOnePlayer == Spec => OneTapOnePlayer
<1> DEFINE One == \A c \in Client : req[c].alone /\ Answer(c) => TapChangesOne(c)
<1>1. AloneInv /\ [Next]_vars => [One]_vars
  <2> SUFFICES ASSUME AloneInv, NEW c \in Client, req[c].alone, Answer(c)
               PROVE  TapChangesOne(c)
    OBVIOUS
  <2>1. /\ Undisturbed(c) /\ req[c].pc = "answer"
        /\ req[c].post \in Post /\ screen \in [Post -> AnyScreen]
        /\ screen' = [screen EXCEPT ![req[c].post] = req[c].show]
    BY DEF AloneInv, Answer, TypeOK
  <2>2. screen'[req[c].post] = req[c].show
    BY <2>1
  <2> QED
    BY <2>1, <2>2 DEF Undisturbed, TapChangesOne
<1> QED
  BY <1>1, AloneInvariant, PTL DEF Spec, OneTapOnePlayer

(***************************************************************************)
(* Ids.  Only three steps write players.name, and each about one row.      *)
(***************************************************************************)
LEMMA NamesStay ==
  ASSUME [Next]_vars,
         \A c \in Client : /\ ~RenamePlayer(c) /\ ~DeleteConfirm(c)
                           /\ \A n \in Name : ~SubmitPlayer(c, n)
  PROVE  name' = name
  BY DEF Next, Slash, Tap, Answer, Fail, Handle, RenderMenu, Entry, RenderSetup,
         RemovePlayer, ShowKnown, KnownAdd, StartGame, OpenAddPlayer, RenderList,
         OpenRename, SubmitRename, DeletePrompt, tables, vars

\* Whatever renames, rosters and new names arrive late, an id never comes to
\* stand for anybody else, and the id of a deleted player for nobody.
THEOREM IdsStandForOnePlayer == Spec => IdsKeepTheirPlayer
<1> DEFINE Kept(p) == \/ name'[p] \in {name[p], NoName}
                      \/ /\ p \in Rows
                         /\ \E c \in Client : /\ req[c].pc = "rename"
                                             /\ req[c].player = p
                                             /\ req[c].typed = name'[p]
<1>1. ASSUME TypeOK, [Next]_vars, NEW p \in used PROVE Kept(p)
  <2>0. p \in PlayerId /\ name \in [PlayerId -> Name \cup {NoName}]
    BY <1>1 DEF TypeOK
  <2>1. ASSUME NEW c \in Client, NEW n \in Name, SubmitPlayer(c, n)
        PROVE  Kept(p)
    <3>1. PICK q \in PlayerId : CreateOrGetPlayer(n, q)
      BY <2>1 DEF SubmitPlayer
    <3>2. name' = name \/ (q \notin used /\ name' = [name EXCEPT ![q] = n])
      BY <3>1 DEF CreateOrGetPlayer
    <3> QED
      BY <1>1, <2>0, <3>2
  <2>2. ASSUME NEW c \in Client, RenamePlayer(c) PROVE Kept(p)
    <3> DEFINE q == req[c].player
    <3>1. \/ name' = name
          \/ q \in Rows /\ name' = [name EXCEPT ![q] = req[c].typed]
      BY <2>2 DEF RenamePlayer
    <3>2. req[c].pc = "rename"
      BY <2>2 DEF RenamePlayer
    <3> QED
      BY <2>0, <3>1, <3>2
  <2>3. ASSUME NEW c \in Client, DeleteConfirm(c) PROVE Kept(p)
    <3>1. name' = name \/ name' = [name EXCEPT ![req[c].player] = NoName]
      BY <2>3 DEF DeleteConfirm
    <3> QED
      BY <2>0, <3>1
  <2> QED
    BY <1>1, <2>1, <2>2, <2>3, NamesStay
<1>2. TypeOK /\ [Next]_vars => [\A p \in used : Kept(p)]_vars
  BY <1>1
<1> QED
  BY <1>2, TypeCorrect, PTL DEF Spec, IdsKeepTheirPlayer

=============================================================================
