------------------------------- MODULE Setup -------------------------------
(***************************************************************************)
(* The screens that keep no state of their own: the main menu, the new-    *)
(* game setup with its picker of known players, and the players list with  *)
(* its rename dialog (internal/newgame, internal/players, internal/menu).  *)
(* Everything they know travels in their buttons and dialogs: a button     *)
(* carries the roster its post showed when it was rendered, a dialog the   *)
(* roster and the post it was opened from, and an answer replaces what the *)
(* post shows by what the handler computed, however late it arrives.       *)
(*                                                                         *)
(* A roster is a Go slice.  Its order is only how the names are listed, so *)
(* it is a bag here: what matters is who is in it, and how often.  The     *)
(* games themselves are in Bot; starting one is a single step here.        *)
(***************************************************************************)
EXTENDS Integers, FiniteSets, Bags, BagsExt

CONSTANTS PlayerId,   \* ids AUTOINCREMENT can give out
          Name,       \* trimmed names that pass validateName
          Post,       \* posts in the channel
          Client,     \* taps and dialogs the owner can have under way
          NoPlayer, NoName, NoPost

ASSUME SetupAssumption == /\ NoPlayer \notin PlayerId
                          /\ NoName \notin Name
                          /\ NoPost \notin Post

VARIABLES
  name,     \* players.name, NoName where there is no row
  hidden,   \* players.is_deleted: rows the former bot deleted softly
  used,     \* the AUTOINCREMENT mark: ids that have been given out
  last,     \* chat_last_players of the channel
  screen,   \* what each post shows
  req       \* the handlers under way and the dialogs open

tables == <<name, hidden, used, last>>

vars == <<tables, screen, req>>

Rows == {p \in PlayerId : name[p] # NoName}

Players == Rows \ hidden      \* GetAllActivePlayers

Roster == UNION {[who -> {1, 2}] : who \in SUBSET PlayerId}

Screen(kind, roster, offers, player) ==
  [kind |-> kind, roster |-> roster, offers |-> offers, player |-> player]

Menu == Screen("menu", EmptyBag, {}, NoPlayer)
Started == Screen("stub", EmptyBag, {}, NoPlayer)       \* no buttons left
SetupOf(roster) == Screen("setup", roster, {}, NoPlayer)
PickerOf(roster, offers) == Screen("picker", roster, offers, NoPlayer)
ListOf(offers) == Screen("list", EmptyBag, offers, NoPlayer)
DeletePromptOf(p) == Screen("prompt", EmptyBag, {}, p)

AnyScreen == [kind   : {"menu", "stub", "setup", "picker", "list", "prompt"},
              roster : Roster,
              offers : SUBSET PlayerId,
              player : PlayerId \cup {NoPlayer}]

\* The buttons of a screen: the action each asks for and the player it names.
Plain(actions) == actions \X {NoPlayer}

Buttons(s) ==
  LET start == IF BagCardinality(s.roster) >= 2 THEN {"start"} ELSE {}
  IN  CASE s.kind = "menu"   -> Plain({"entry", "list"})
        [] s.kind = "setup"  -> ({"remove"} \X BagToSet(s.roster))
                                \cup Plain({"open_add", "known", "menu"} \cup start)
        [] s.kind = "picker" -> ({"known_add"} \X s.offers)
                                \cup Plain({"setup"} \cup start)
        [] s.kind = "list"   -> ({"open_rename", "delete_prompt"} \X s.offers)
                                \cup Plain({"menu"})
        [] s.kind = "prompt" -> {<<"delete", s.player>>} \cup Plain({"list"})
        [] s.kind = "stub"   -> {}

PC == {"idle", "entry", "list", "remove", "open_add", "known", "menu", "start",
       "known_add", "setup", "open_rename", "delete_prompt", "delete",
       "add_dialog", "rename_dialog", "rename", "answer"}

Request == [pc     : PC,
            post   : Post \cup {NoPost},
            roster : Roster,
            player : PlayerId \cup {NoPlayer},
            typed  : Name \cup {NoName},
            show   : AnyScreen,       \* the answer on its way
            alone  : BOOLEAN]         \* nothing else was under way meanwhile

Idle == [pc     |-> "idle",
         post   |-> NoPost,
         roster |-> EmptyBag,
         player |-> NoPlayer,
         typed  |-> NoName,
         show   |-> Started,
         alone  |-> FALSE]

\* The steps of a handler that is about one player, and the screen that is.
AboutPlayer == {"remove", "known_add", "open_rename", "delete_prompt", "delete",
                "rename_dialog", "rename"}

NamesPlayer(s) == s.kind = "prompt" => s.player \in PlayerId

\* UNIQUE (players.name).
Unique(f) == \A p, q \in PlayerId : f[p] = f[q] /\ f[p] # NoName => p = q

\* A new database, or a migrated one with players the former bot deleted
\* softly.  Its other players are like those the dialog adds.
Init ==
  /\ name \in {f \in [PlayerId -> Name \cup {NoName}] : Unique(f)}
  /\ hidden = Rows
  /\ used = Rows
  /\ last \in SUBSET Rows
  /\ screen = [s \in Post |-> Started]
  /\ req = [c \in Client |-> Idle]

-----------------------------------------------------------------------------
\* /flip7 posts a fresh menu.  A post without buttons, which nothing refers
\* to any more, stands for the next one posted.
Slash(s) ==
  /\ screen[s] = Started
  /\ \A c \in Client : req[c].post # s
  /\ screen' = [screen EXCEPT ![s] = Menu]
  /\ UNCHANGED <<tables, req>>

\* A tap: the request carries what its button carried.
Tap(c, s) ==
  /\ req[c].pc = "idle"
  /\ \E button \in Buttons(screen[s]) :
       req' = [d \in Client |->
         IF d = c
         THEN [Idle EXCEPT !.pc     = button[1],
                           !.post   = s,
                           !.roster = screen[s].roster,
                           !.player = button[2],
                           !.alone  = \A o \in Client \ {c} : req[o].pc = "idle"]
         ELSE [req[d] EXCEPT !.alone = FALSE]]
  /\ UNCHANGED <<tables, screen>>

\* The handler has computed what its post is to show next.
Reply(c, show) ==
  req' = [req EXCEPT ![c].pc = "answer", ![c].show = show]

\* A reply visible to the owner alone, or an error: the post stays.
Return(c) == req' = [req EXCEPT ![c] = Idle]

\* The answer, or UpdateAttachment for a dialog, reaches the post.
Answer(c) ==
  /\ req[c].pc = "answer"
  /\ screen' = [screen EXCEPT ![req[c].post] = req[c].show]
  /\ Return(c)
  /\ UNCHANGED tables

\* A call fails, the 15 s are over, or a dialog is closed or expires.
Fail(c) ==
  /\ req[c].pc # "idle"
  /\ Return(c)
  /\ UNCHANGED <<tables, screen>>

-----------------------------------------------------------------------------
(* internal/newgame/newgame.go *)

RenderMenu(c) ==
  /\ req[c].pc = "menu"
  /\ Reply(c, Menu)
  /\ UNCHANGED <<tables, screen>>

\* entry: the last players who still exist; none if they cannot be read.
Entry(c) ==
  /\ req[c].pc = "entry"
  /\ \E remembered \in {last, {}} :
       Reply(c, SetupOf(SetToBag(remembered \cap Players)))
  /\ UNCHANGED <<tables, screen>>

RenderSetup(c) ==
  /\ req[c].pc = "setup"
  /\ Reply(c, SetupOf(req[c].roster))
  /\ UNCHANGED <<tables, screen>>

RemovePlayer(c) ==
  /\ req[c].pc = "remove"
  /\ Reply(c, SetupOf(BagRemoveAll(req[c].roster, req[c].player)))
  /\ UNCHANGED <<tables, screen>>

Available(roster) == {p \in Players : ~BagIn(p, roster)}

ShowKnown(c) ==
  /\ req[c].pc = "known"
  /\ IF Available(req[c].roster) = {}
     THEN Return(c)
     ELSE Reply(c, PickerOf(req[c].roster, Available(req[c].roster)))
  /\ UNCHANGED <<tables, screen>>

\* The picked player may have been deleted since the picker was rendered.
KnownAdd(c) ==
  /\ req[c].pc = "known_add"
  /\ LET updated == IF BagIn(req[c].player, req[c].roster)
                    THEN req[c].roster
                    ELSE BagAdd(req[c].roster, req[c].player)
     IN  Reply(c, IF Available(updated) = {}
                  THEN SetupOf(updated)
                  ELSE PickerOf(updated, Available(updated)))
  /\ UNCHANGED <<tables, screen>>

\* Slip: the dialog carries its post and not the roster.
OpenAddPlayerUnsealed(c) ==
  /\ req[c].pc = "open_add"
  /\ req' = [req EXCEPT ![c].pc = "add_dialog", ![c].roster = EmptyBag]
  /\ UNCHANGED <<tables, screen>>

OpenAddPlayer(c) ==
  /\ req[c].pc = "open_add"
  /\ req' = [req EXCEPT ![c].pc = "add_dialog"]
  /\ UNCHANGED <<tables, screen>>

\* Slip: the row is read, and the transaction rolled back.
CreateOrGetPlayerUncommitted(n, p) ==
  /\ IF \E q \in Rows : name[q] = n
     THEN name[p] = n
     ELSE p \in PlayerId \ used
  /\ UNCHANGED <<name, hidden, used>>

\* Slip: the id of a deleted player is given out again.
CreateOrGetPlayerReusingIds(n, p) ==
  /\ IF \E q \in Rows : name[q] = n
     THEN name[p] = n /\ UNCHANGED name
     ELSE p \notin Rows /\ name' = [name EXCEPT ![p] = n]
  /\ hidden' = hidden \ {p}
  /\ UNCHANGED used

\* CreateOrGetPlayer returns p for the name n and undoes a soft delete, in one
\* transaction.
CreateOrGetPlayer(n, p) ==
  /\ IF \E q \in Rows : name[q] = n
     THEN name[p] = n /\ UNCHANGED <<name, used>>
     ELSE /\ p \in PlayerId \ used
          /\ name' = [name EXCEPT ![p] = n]
          /\ used' = used \cup {p}
  /\ hidden' = hidden \ {p}

\* Slip: a player who is in the roster already is added once more.
SubmitPlayerUnchecked(c, n) ==
  /\ req[c].pc = "add_dialog"
  /\ \E p \in PlayerId :
       /\ CreateOrGetPlayer(n, p)
       /\ req' = [req EXCEPT ![c].pc = "answer",
                             ![c].player = p,
                             ![c].show = SetupOf(BagAdd(req[c].roster, p))]
  /\ UNCHANGED <<last, screen>>

\* Dialog: "already added" leaves the dialog open.
SubmitPlayer(c, n) ==
  /\ req[c].pc = "add_dialog"
  /\ \E p \in PlayerId :
       /\ CreateOrGetPlayer(n, p)
       /\ req' = IF BagIn(p, req[c].roster)
                 THEN req
                 ELSE [req EXCEPT ![c].pc = "answer",
                                  ![c].player = p,
                                  ![c].show = SetupOf(BagAdd(req[c].roster, p))]
  /\ UNCHANGED <<last, screen>>

\* startGame: refused while a game runs (Bot), and by the foreign keys when
\* the roster holds a deleted player.
StartGame(c) ==
  /\ req[c].pc = "start"
  /\ \/ Return(c) /\ UNCHANGED last
     \/ /\ BagToSet(req[c].roster) \subseteq Rows
        /\ last' = BagToSet(req[c].roster)
        /\ Reply(c, Started)
  /\ UNCHANGED <<name, hidden, used, screen>>

-----------------------------------------------------------------------------
(* internal/players/players.go *)

RenderList(c) ==
  /\ req[c].pc = "list"
  /\ Reply(c, ListOf(Players))
  /\ UNCHANGED <<tables, screen>>

OpenRename(c) ==
  /\ req[c].pc = "open_rename"
  /\ req' = [req EXCEPT ![c].pc = "rename_dialog"]
  /\ UNCHANGED <<tables, screen>>

NameExists(n, p) == \E q \in Rows \ {p} : name[q] = n

\* Dialog: a name that is taken leaves the dialog open.
SubmitRename(c, n) ==
  /\ req[c].pc = "rename_dialog"
  /\ ~NameExists(n, req[c].player)
  /\ req' = [req EXCEPT ![c].pc = "rename", ![c].typed = n]
  /\ UNCHANGED <<tables, screen>>

\* Slip: an upsert, which brings a row deleted meanwhile back.
RenamePlayerUpsert(c) ==
  /\ req[c].pc = "rename"
  /\ LET p == req[c].player
         n == req[c].typed
     IN  IF \E q \in Rows \ {p} : name[q] = n
         THEN Return(c) /\ UNCHANGED name
         ELSE /\ name' = [name EXCEPT ![p] = n]
              /\ req' = [req EXCEPT ![c].pc = "list"]
  /\ UNCHANGED <<hidden, used, last, screen>>

\* RenamePlayer: UNIQUE refuses a name taken meanwhile; a player deleted
\* meanwhile has no row to update.
RenamePlayer(c) ==
  /\ req[c].pc = "rename"
  /\ LET p == req[c].player
         n == req[c].typed
     IN  IF p \in Rows /\ \E q \in Rows \ {p} : name[q] = n
         THEN Return(c) /\ UNCHANGED name
         ELSE /\ name' = IF p \in Rows THEN [name EXCEPT ![p] = n] ELSE name
              /\ req' = [req EXCEPT ![c].pc = "list"]
  /\ UNCHANGED <<hidden, used, last, screen>>

DeletePrompt(c) ==
  /\ req[c].pc = "delete_prompt"
  /\ IF req[c].player \in Players
     THEN Reply(c, DeletePromptOf(req[c].player))
     ELSE req' = [req EXCEPT ![c].pc = "list"]
  /\ UNCHANGED <<tables, screen>>

\* deleteConfirm: refused for a player in the running game (Bot).
DeleteConfirm(c) ==
  /\ req[c].pc = "delete"
  /\ \/ Return(c) /\ UNCHANGED <<name, hidden, last>>
     \/ /\ name' = [name EXCEPT ![req[c].player] = NoName]
        /\ hidden' = hidden \ {req[c].player}
        /\ last' = last \ {req[c].player}
        /\ req' = [req EXCEPT ![c].pc = "list"]
  /\ UNCHANGED <<used, screen>>

-----------------------------------------------------------------------------
Handle(c) ==
  \/ RenderMenu(c) \/ Entry(c) \/ RenderSetup(c) \/ RemovePlayer(c)
  \/ ShowKnown(c) \/ KnownAdd(c) \/ StartGame(c)
  \/ OpenAddPlayer(c) \/ \E n \in Name : SubmitPlayer(c, n)
  \/ RenderList(c) \/ OpenRename(c) \/ \E n \in Name : SubmitRename(c, n)
  \/ RenamePlayer(c) \/ DeletePrompt(c) \/ DeleteConfirm(c)

Next ==
  \/ \E s \in Post : Slash(s)
  \/ \E c \in Client :
       \/ \E s \in Post : Tap(c, s)
       \/ Handle(c)
       \/ Answer(c)
       \/ Fail(c)

Spec == Init /\ [][Next]_vars

-----------------------------------------------------------------------------
(* Properties *)

TypeOK ==
  /\ name \in [PlayerId -> Name \cup {NoName}]
  /\ used \subseteq PlayerId
  /\ hidden \subseteq Rows /\ Rows \subseteq used
  /\ Unique(name)
  /\ last \subseteq Rows
  /\ screen \in [Post -> AnyScreen]
  /\ req \in [Client -> Request]
  /\ \A s \in Post : NamesPlayer(screen[s])
  /\ \A c \in Client :
       /\ NamesPlayer(req[c].show)
       /\ req[c].pc # "idle" => req[c].post \in Post
       /\ req[c].pc \in AboutPlayer => req[c].player \in PlayerId
       /\ req[c].pc = "rename" => req[c].typed \in Name

\* The rosters on a post, in a request or a dialog, and in an answer.
Rosters == {screen[s].roster : s \in Post}
             \cup {req[c].roster : c \in Client}
             \cup {req[c].show.roster : c \in Client}

\* No roster holds a player twice, whatever was tapped from however old a
\* screen: it is the bag of a set, so the two-player guard of startGame, which
\* counts the slice, counts players, and remove, which drops every occurrence,
\* drops one.
RostersAreSets ==
  \A roster \in Rosters : roster = SetToBag(BagToSet(roster))

\* A roster names only ids that players has given out, be it to a player who
\* has been deleted since: what the model of a start takes a roster to be.
RostersHoldUsedPlayers ==
  \A roster \in Rosters : BagToSet(roster) \subseteq used

\* While the owner waits for each answer, and for his dialog, before the next
\* tap, a tap on a roster adds or removes the one player it is about; the
\* dialog, which carries a roster of its own, does not bring an older back.
WithRoster == {"setup", "picker"}

Copies(p, roster) == IF BagIn(p, roster) THEN roster[p] ELSE 0

TapChangesOne(c) ==
  LET before == screen[req[c].post]
      after  == screen'[req[c].post]
  IN  before.kind \in WithRoster /\ after.kind \in WithRoster =>
        \A p \in PlayerId \ {req[c].player} :
          Copies(p, before.roster) = Copies(p, after.roster)

OneTapOnePlayer ==
  [][\A c \in Client : req[c].alone /\ Answer(c) => TapChangesOne(c)]_vars

\* Buttons, rosters and dialogs name a player by his id, however old they are,
\* so an id never comes to stand for anybody else: a deleted player stays
\* deleted whatever rename, roster or new name arrives afterwards, and another
\* changes his name only by a rename that was asked for him.
IdsKeepTheirPlayer ==
  [][\A p \in used :
       \/ name'[p] \in {name[p], NoName}
       \/ /\ p \in Rows
          /\ \E c \in Client : /\ req[c].pc = "rename"
                              /\ req[c].player = p
                              /\ req[c].typed = name'[p]]_vars

=============================================================================
