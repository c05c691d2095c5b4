------------------------------ MODULE Startup ------------------------------
(***************************************************************************)
(* From the start of the process to the first request: main.run opens the  *)
(* database, db.Migrate brings its schema up to date, the rows of the      *)
(* former Telegram bot are claimed for the owner's channel, and the server *)
(* listens.  The process may die at any call; Docker starts it again       *)
(* ("restart: unless-stopped").  Every statement outside a transaction     *)
(* commits by itself, so each is a step.                                   *)
(*                                                                         *)
(* A migration file is its number; `created' says whose changes the schema *)
(* has, `recorded' which ones schema_migrations lists.  Of the rows, the   *)
(* module keeps what 005 rebuilds: games and chat_last_players.            *)
(***************************************************************************)
EXTENDS Integers, FiniteSets

CONSTANTS PlayerId,
          Chat,            \* Telegram chats of the former bot
          Blank, Owner,    \* channel_id '' and the owner's channel
          NoRow,
          MaxGameId,       \* bound: games.id
          LegacyVersions,  \* versions the former bot may have left behind
          LegacyDangling,  \* whether it may have left a broken reference
          CrashAt,         \* steps the process may die at
          MaxCrashes       \* bound: deaths

Files == 1 .. 5

SqlxMaxVersion == 4

Channel == Chat \cup {Blank, Owner}

GameNum == 1 .. MaxGameId

PC == {"down", "read", "seed", "apply", "check", "backfill", "serving"}

ASSUME StartupAssumption ==
  /\ MaxGameId \in Nat
  /\ LegacyVersions \subseteq 0 .. SqlxMaxVersion
  /\ LegacyDangling \subseteq BOOLEAN
  /\ CrashAt \subseteq PC \ {"down"}
  /\ MaxCrashes \in Nat
  /\ NoRow \notin Channel
  /\ Blank # Owner
  /\ Chat \cap {Blank, Owner} = {}

VARIABLES
  sqlx,      \* rows of _sqlx_migrations
  created,   \* files whose changes the schema has
  recorded,  \* rows of schema_migrations
  channel,   \* games: the channel (or chat) of each row
  posted,    \* games whose post_id is set
  gameMark,  \* sqlite_sequence of games
  everUsed,  \* history: ids games has ever had
  lastRows,  \* chat_last_players
  dangling,  \* some row refers to a row that does not exist
  pc,        \* the next call of run
  todo,      \* versions still to seed, or to apply
  crashes,
  seedCut    \* history: the process has died between two rows of the seed

schemaVars == <<sqlx, created, recorded>>
gameVars   == <<channel, posted, gameMark, everUsed>>
rowVars    == <<gameVars, lastRows, dangling>>
deaths     == <<crashes, seedCut>>
vars       == <<schemaVars, rowVars, pc, todo, deaths>>

TypeOK ==
  /\ sqlx \in 0 .. SqlxMaxVersion
  /\ created \subseteq Files
  /\ recorded \subseteq Files
  /\ channel \in [GameNum -> Channel \cup {NoRow}]
  /\ posted \subseteq GameNum
  /\ gameMark \in 0 .. MaxGameId
  /\ everUsed \subseteq GameNum
  /\ lastRows \subseteq Channel \X PlayerId
  /\ dangling \in BOOLEAN
  /\ pc \in PC
  /\ todo \subseteq Files
  /\ crashes \in 0 .. MaxCrashes
  /\ seedCut \in BOOLEAN

GameRows == {g \in GameNum : channel[g] # NoRow}

\* A new database, or what the former bot left after its first `sqlx'
\* migrations: games of several chats, some of them discarded since, and its
\* last players.
Init ==
  /\ sqlx \in LegacyVersions
  /\ created = 1 .. sqlx
  /\ recorded = {}
  /\ channel \in [GameNum -> Chat \cup {NoRow}]
  /\ posted \in {{}, GameRows}
  /\ gameMark \in 0 .. MaxGameId
  /\ everUsed = 1 .. gameMark
  /\ GameRows \subseteq everUsed
  /\ lastRows \in SUBSET (Chat \X PlayerId)
  /\ dangling \in LegacyDangling
  /\ sqlx = 0 => gameMark = 0 /\ ~dangling
  /\ sqlx < 2 => lastRows = {}
  /\ pc = "down"
  /\ todo = {}
  /\ crashes = 0
  /\ seedCut = FALSE

-----------------------------------------------------------------------------
(* Migrate *)

First(m) == m \in todo /\ \A k \in todo : m <= k

Exit == pc' = "down" /\ todo' = {}

\* db.Open, the tracking table (empty when it is new), and what it lists.
Start ==
  /\ pc = "down"
  /\ pc' = "read"
  /\ UNCHANGED <<schemaVars, rowVars, todo, deaths>>

\* Slip: m.num < sqlxMaxVersion.
SeededShort == 1 .. SqlxMaxVersion - 1

\* Slip: no m.num >= 1, so a file without a number is seeded as well.
SeededUnnumbered == 0 .. SqlxMaxVersion

Seeded == 1 .. SqlxMaxVersion

\* seedFromSqlx is asked only while nothing is recorded.
ReadApplied ==
  /\ pc = "read"
  /\ IF recorded = {} /\ sqlx > 0
     THEN pc' = "seed" /\ todo' = Seeded
     ELSE /\ todo' = Files \ recorded
          /\ pc' = IF todo' = {} THEN "backfill" ELSE "apply"
  /\ UNCHANGED <<schemaVars, rowVars, deaths>>

\* One INSERT OR IGNORE, committed by itself.
SeedOne ==
  /\ pc = "seed"
  /\ \E m \in todo :
       /\ First(m)
       /\ recorded' = recorded \cup {m}
       /\ IF todo = {m}
          THEN pc' = "apply" /\ todo' = Files \ recorded'
          ELSE todo' = todo \ {m} /\ UNCHANGED pc
  /\ UNCHANGED <<sqlx, created, rowVars, deaths>>

\* What SQLite itself refuses: 001 indexes a column 005 has dropped, 004 adds a
\* column that is there, a table is missing.  (Slip, if 005 is applied on this
\* alone.)
SqlFails(m) ==
  \/ m > 1 /\ 1 \notin created
  \/ m = 1 /\ 5 \in created
  \/ m = 4 /\ 4 \in created
  \/ m = 5 /\ 2 \notin created

\* A file's SQL is an error, or 005 would meet a players without a rating.
ApplyFails(m) == SqlFails(m) \/ (m >= 5 /\ 4 \notin created)

\* 005 rebuilds games and chat_last_players.  sqlite_sequence follows the
\* rows that are copied, and players of several chats collapse into one row.
Rebuild ==
  /\ channel' = [g \in GameNum |-> IF channel[g] = NoRow THEN NoRow ELSE Blank]
  /\ posted' = {}
  /\ gameMark' \in GameRows \cup {0}
  /\ \A g \in GameRows : g <= gameMark'
  /\ lastRows' = {<<Blank, row[2]>> : row \in lastRows}
  /\ UNCHANGED <<everUsed, dangling>>

\* Slip: the record is written after the commit, and the process dies first.
ApplyUnrecorded(m) ==
  /\ created' = created \cup {m}
  /\ IF m = 5 THEN Rebuild ELSE UNCHANGED rowVars
  /\ recorded' \in {recorded, recorded \cup {m}}

\* One file and its record, in one transaction.
Apply(m) ==
  /\ created' = created \cup {m}
  /\ IF m = 5 THEN Rebuild ELSE UNCHANGED rowVars
  /\ recorded' = recorded \cup {m}

ApplyNext ==
  /\ pc = "apply"
  /\ \E m \in todo :
       /\ First(m)
       /\ IF ApplyFails(m)
          THEN Exit /\ UNCHANGED <<schemaVars, rowVars>>
          ELSE /\ Apply(m)
               /\ todo' = todo \ {m}
               /\ pc' = IF todo = {m} THEN "check" ELSE "apply"
  /\ UNCHANGED <<sqlx, deaths>>

\* foreignKeyCheck, after the last commit.
CheckForeignKeys ==
  /\ pc = "check"
  /\ IF dangling THEN Exit ELSE pc' = "backfill" /\ UNCHANGED todo
  /\ UNCHANGED <<schemaVars, rowVars, deaths>>

-----------------------------------------------------------------------------
(* BackfillLegacyChannel, then the server *)

\* Slip: claims the games and forgets chat_last_players.
ClaimedGamesOnly == lastRows

Claimed == {<<IF row[1] = Blank THEN Owner ELSE row[1], row[2]>>
            : row \in lastRows}

\* Two rows that become one break the primary key, and nothing is written.
Backfill ==
  /\ pc = "backfill"
  /\ IF Cardinality(Claimed) < Cardinality(lastRows)
     THEN Exit /\ UNCHANGED rowVars
     ELSE /\ channel' = [g \in GameNum |->
               IF channel[g] = Blank THEN Owner ELSE channel[g]]
          /\ lastRows' = Claimed
          /\ pc' = "serving"
          /\ UNCHANGED <<posted, gameMark, everUsed, dangling, todo>>
  /\ UNCHANGED <<schemaVars, deaths>>

\* AUTOINCREMENT gives the id above the mark.
ServeCreateGame ==
  /\ pc = "serving"
  /\ gameMark < MaxGameId
  /\ gameMark' = gameMark + 1
  /\ channel' = [channel EXCEPT ![gameMark + 1] = Owner]
  /\ everUsed' = everUsed \cup {gameMark + 1}
  /\ UNCHANGED <<schemaVars, posted, lastRows, dangling, pc, todo, deaths>>

ServePostGame(g) ==
  /\ pc = "serving"
  /\ g \in GameRows
  /\ posted' = posted \cup {g}
  /\ UNCHANGED <<schemaVars, channel, gameMark, everUsed, lastRows, dangling,
                 pc, todo, deaths>>

ServeDiscardGame(g) ==
  /\ pc = "serving"
  /\ g \in GameRows
  /\ channel' = [channel EXCEPT ![g] = NoRow]
  /\ posted' = posted \ {g}
  /\ UNCHANGED <<schemaVars, gameMark, everUsed, lastRows, dangling, pc, todo,
                 deaths>>

\* SaveLastPlayers replaces the rows of the owner's channel.
ServeSaveLastPlayers(who) ==
  /\ pc = "serving"
  /\ lastRows' = {row \in lastRows : row[1] # Owner} \cup ({Owner} \X who)
  /\ UNCHANGED <<schemaVars, gameVars, dangling, pc, todo, deaths>>

Serve ==
  \/ ServeCreateGame
  \/ \E g \in GameNum : ServePostGame(g) \/ ServeDiscardGame(g)
  \/ \E who \in SUBSET PlayerId : ServeSaveLastPlayers(who)

\* The process dies, is stopped, loses Mattermost or runs into startupTimeout.
Crash ==
  /\ pc \in CrashAt
  /\ crashes < MaxCrashes
  /\ crashes' = crashes + 1
  /\ seedCut' = (seedCut \/ (pc = "seed" /\ recorded # {}))
  /\ Exit
  /\ UNCHANGED <<schemaVars, rowVars>>

Run == Start \/ ReadApplied \/ SeedOne \/ ApplyNext \/ CheckForeignKeys
       \/ Backfill

Next == Run \/ Serve \/ Crash

\* Docker restarts the process and the process runs on.
Spec == Init /\ [][Next]_vars /\ WF_vars(Run)

-----------------------------------------------------------------------------
(* Properties *)

\* The bot only serves a schema every file has been applied to and recorded
\* for, in which every game and every last player, however old, is in the
\* owner's channel, where the screens look for them: unless the process has
\* died between two rows of the seed.  Seeding records the old files the former
\* bot never applied as well, so applyPending's self-check of 005 has to keep a
\* database it left below version 4 from being served.
ServesWholeDatabase ==
  pc = "serving" /\ ~seedCut =>
    /\ created = Files
    /\ recorded = Files
    /\ \A g \in GameRows : channel[g] = Owner
    /\ \A row \in lastRows : row[1] = Owner

\* No start, repeated or interrupted anywhere, loses a game, a last player or
\* the post of a game that the rebuilt tables hold.
StartsKeepRows ==
  [][pc # "serving" =>
       /\ GameRows \subseteq {g \in GameNum : channel'[g] # NoRow}
       /\ {row[2] : row \in lastRows} = {row[2] : row \in lastRows'}
       /\ 5 \in created => posted \subseteq posted']_vars

\* A new database, and one the former bot left at its last version, is served
\* once the process stops dying, unless it died between two rows of the seed.
SoundStartsServe ==
  sqlx \in {0, SqlxMaxVersion} /\ ~dangling =>
    (<>[](pc = "serving") \/ <>seedCut)

\* What the code says of itself and does not keep.

\* However often the process dies, once it stops dying it serves ("idempotent
\* and safe to run at every startup").
EventuallyServes == <>[](pc = "serving")

\* A database that fails PRAGMA foreign_key_check is not served ("a PRAGMA
\* foreign_key_check validates referential integrity").
DanglingIsNeverServed == pc = "serving" => ~dangling

\* A new game never gets the id of an earlier one ("new ids continue above
\* the existing high-water mark (no id reuse / FK aliasing)").
GameIdsAreNew ==
  [][gameMark' > gameMark => gameMark' \notin everUsed]_vars

=============================================================================
