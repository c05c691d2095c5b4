# TLA+ models of flip7tracker

flip7tracker is a Mattermost bot (Go, `src/mmbot`) that keeps score of the card
game Flip 7: one owner, one channel, one SQLite database. Everything happens in
short requests: a tap on a button, a submitted dialog or a slash command runs a
handler of a few database calls and a few calls to Mattermost. There is no
state in memory between two requests; every button carries its state, signed,
and never expires. So the questions worth a model are these: what happens when
handlers interleave call by call, when one stops half-way, when an old button
is tapped, and when the process dies while it migrates the database or is told
to stop while requests run.

## 1. Inventory

| component (source under `src/mmbot`) | state | operations | hard behaviour |
|---|---|---|---|
| database (`internal/db/queries.go`, `models.go`, `db.go`) | 7 tables: players, games, game_players, score_entries, game_winners, rating_history, chat_last_players | one Go function per statement or transaction | transactions are atomic, handlers are not; foreign keys are the last line of defence |
| game screen (`internal/game/game.go`) | none of its own | score dialog, Edit Last, End Game, scoreboard repost | guard and write in separate calls; `endConfirm` decides from earlier reads; replay of a confirmed end |
| load game (`internal/game/load.go`) | none | list, resume into a new post | old post deleted, new one created, id saved, in three calls |
| new-game screen (`internal/newgame/newgame.go`) | a roster, carried in buttons and dialogs | add, remove, pick players; start | guard, create, link, post, save in separate calls; stale rosters |
| players screen (`internal/players/players.go`) | none | rename, delete | guard and write in separate calls; page numbers in old buttons |
| statistics (`queries.go:430-489`, `internal/stats/stats.go`) | none | one six-way join, paging | joins that multiply rows |
| Elo (`internal/rating`) | none | `ComputeUpdates` | its result is stored as an absolute value |
| migrations (`internal/db/migrate.go`, `migrations/*.sql`) | schema_migrations, `_sqlx_migrations` | seed, apply, rebuild, check, backfill | death between any two commits; a database another program left |
| posts (`internal/mm/poster.go`, `internal/nav`) | the channel's posts, `games.post_id` | create, update, delete | responses applied out of order; a post that is gone |
| server (`internal/server`) | requests in flight | authenticate, dispatch, drain | 15 s per request, 10 s to drain, no deadline on reading a body |
| main menu (`internal/menu`) | none | slash command, entry to the screens | none |
| text rendering, signing, client set-up, configuration | none | render, encode, resolve, read | none for these purposes |

Interaction: `cmd/mmbot/main.go` opens and migrates the database, resolves the
channel, claims legacy rows for it, builds the screens and listens. The server
calls a router, which calls one screen; a screen calls `db` and `mm.Poster`.
Screens call each other only to render (main menu, root post).

What makes each part correct:

- **database and screens**: rows refer to rows; one unfinished game at a time;
  a game ends once, one way, with the right winners; Elo is applied once and
  from the current rating; deleting and scoring respect running games.
- **statistics**: each point, win and best game counts once.
- **migrations**: every start is safe, loses nothing, and ends in service.
- **posts**: one live board per game, none for an ended game, the post that
  `post_id` names, the scores of the moment, one announcement, and an end told
  as it is stored.
- **new-game and players screens**: a roster holds a player once, and only ids
  that were given out; a tap changes the player it is about; names are unique,
  and an id never passes to another player.
- **server**: a request ends by its deadline, a shutdown ends, and it cuts off
  nobody before his time.

The hazards of the code, line by line, are under `hazards` in `PROJECT.json`.

## 2. Modules

    Store            tables and statements of queries.go
      Requests       the goroutines in flight: pc, locals, failure
        GameScreen  NewGameScreen  PlayersScreen      one handler each, call by call
          Bot        their composition, its properties
            BotProofs <- ScoreProofs (with Stats) <- BotSerialProofs
      Stats          the statistics join, by the join
    Ledger           the abstract book of games that Bot implements
    Boards           the posts of the channel
      BoardsProofs
    Setup            rosters, names, and the screens that carry them
      SetupProofs
    Startup          process start, migrations, backfill, restart
      StartupProofs
    Lifecycle        listener, deadlines, drain, stop and restart
      LifecycleProofs
    Paging           the pages of the three lists of players
      PagingProofs
    MCBot, MCStartup, MCBoards, MCSetup       instances for TLC

**Store.** One operator per call of `queries.go`. A call that SQLite would
refuse for a foreign key has an `...Accepted` condition; the handlers choose
between the call and its failure. Data is abstracted to what the properties
tell apart. The important abstraction is the *rating*: the sequence of games
whose update it includes. `FinishGameWithWinners` stores `rating_before` and
`rating_after` as they were computed from earlier reads, so a lost update is a
missing game and a double application a repeated one. Ids given out by
AUTOINCREMENT are never used again (`usedPlayers`; game ids leave `"absent"`
once). `channel_id` is left out: the bot owns one channel.

**Requests.** A slot of `req` is one handler goroutine; `pc` names the next
database call and the other fields are its locals. Each action reads or writes
in one call, so TLC explores every interleaving of calls. `Fail` ends a request
between any two calls (timeout of `withLimits`, an error from Mattermost or
SQLite, death of the process). Which buttons exist is not part of the state:
an action's HMAC is verified without a maximum age, so a button whose objects
ever existed can be tapped at any time. Buttons of a player, a game or an entry
are therefore `\E` over ids that have been in use.

**GameScreen, NewGameScreen, PlayersScreen.** `Dialog` is SubmitScore,
CheckScoreMember, InsertScore; `endConfirm` is ConfirmEnd (players and ratings),
ReadEndScores (scores, decision, winners), DiscardEnd or FinishEnd,
RememberEnd; `startGame` is StartGame (both guards), CreateStartedGame,
LinkPlayer, RememberStart; `deleteConfirm` is ConfirmDelete, DeletePlayer.
`ActEditConfirm` is one call, ConfirmEdit. A roster is any set of ids `players`
ever had; its order does not matter to any property.

**Ledger.** What the bot promises about its games, with no handler in sight: a
game is opened, and is either closed in one stroke, with winners among the
rated and everybody rated existing, or dropped. `ImplementsLedger` in Bot is
`Book!Spec` with `people` as the players, `book` as `status`, `result` as
`winners` and `sheet` as the pairs of game and player in the rating trail. The
book says nothing of scores, links or numbers.

**Stats.** `statsSelect` is modelled join by join (NULL rows included), then
grouped; the properties compare it with what the numbers mean.

**Boards.** A post shows nothing yet, a board of a game at a version of its
scores, a prompt, the win screen or the stub of a discarded game, or is
deleted. Taps are possible on what a post shows, dialogs once they are open. A
handler's result reaches its post in a later step (Respond), and may find it
gone. The database is reduced to the `status` of each game, `post_id`, how often
the scores changed (`version`) and which games have reached the threshold
(`reached`), by which `endConfirm` decides. `lateAt` is a history variable: the
last score typed into a dialog whose post had been replaced, which explains the
one way a live board lags. With one slot, a tap waits for the answer to the
previous one; with two, they overlap.

**Setup.** The screens that keep everything in their buttons: a request carries
what its button carried when its post was rendered, whatever the post shows by
the time it is handled. A roster is a bag of players, so that a player added
twice is visible. A dialog is a request that waits for the owner to type, so
two clients are one dialog and one tap beside it. `hidden` are rows the former
bot deleted softly: their names still count for the UNIQUE index, and
`CreateOrGetPlayer` brings them back. `alone` records that nothing else was
under way during a request. `RostersHoldUsedPlayers` is what justifies Bot's
"any set of ids in use" as the roster of a start.

**Startup.** The steps of `run`: Start, ReadApplied, SeedOne (one autocommitted
insert), ApplyNext (one migration and its record in one transaction),
CheckForeignKeys, Backfill, and what the server then does to the rows concerned.
Crash can come at any step. Init is a new database or any state the former
(sqlx) bot can have left: any version, games of several chats, discarded games,
last players, a broken reference. `seedCut` is a history variable.

**Lifecycle.** `server.Run` and the end of `main.run`: Boot, Shutdown (SIGTERM
seen by the select), DrainDone or DrainTimeout, Close (the deferred
`database.Close`), ExitProcess; Kill at any moment, and Docker's Restart. A
signal during the start interrupts nothing of it. A request arrives, is denied
or admitted, makes its calls, each of which may fail or hang, and returns; at
`RequestTicks` its context expires. Time passes in ticks of five seconds, so the
drain is two and a request three. Reading the body is bounded by nothing.

**Paging.** The players list, the Hall of Fame and the picker of known players
compute a page in the same way. Buttons never expire and the list is read again
at every tap, so `offered` only grows while `players` changes freely: any page
ever offered can be asked of a list of any length. A slice out of range would
be a panic of the handler. The module is its own TLC instance.

Operators commented "Slip:" are not the code. Each is a plausible mistake; the
mutants of `PROJECT.json` put it in place of the operator after it, and one
property notices.

## 3. Runs

| run | instance | shows |
|---|---|---|
| `bot_overlap` | 2 slots, 2 players, 2 games, 3 entries | ReferentialIntegrity, EloAppliedOnce, RatingIsLatestInTrail, ResultOnlyWhenFinished, ResultsNameMembers, EndedIsFinal hold, and the book of Ledger is implemented (ImplementsLedger), whatever overlaps and fails |
| `bot_serial` | 1 slot, 3 players (2 at start), 2 games, 3 entries of 1 or 2 points, threshold 2 | with one request at a time, but failures and old buttons: OneUnfinishedGame, WinnersAreTopScorers, DiscardOnlyBelowThreshold, EveryParticipantRated, NoEloUpdateLost, PlayersStayInGame, ScoresOnlyWhileUnfinished, StatsCountOnce |
| `boards_serial` | 1 slot, 2 games, 4 posts, 2 changes of scores, 1 failing call | with one request at a time: AnnouncedOnce, and, with allowances for the call that failed, OneLiveBoard, EndedGamesShowNoControls, EndsAreTold, ScoresFrozenWhenOver; until it fails, PostIdDrivesTheGame and LiveBoardIsCurrent |
| `setup` | 1 post, 2 clients, 3 ids, 3 names | however two taps and dialogs overlap: RostersAreSets, RostersHoldUsedPlayers, IdsKeepTheirPlayer; while they do not: OneTapOnePlayer |
| `startup` | versions 0..4, 2 chats, 2 players, 2 game ids, 2 deaths anywhere, sound or dangling | StartsKeepRows, ServesWholeDatabase, SoundStartsServe |
| `lifecycle` | 2 connections, 2 calls, drain of 2 ticks, requests of 3 | CutRequestsHadTheirTime, ShutdownEnds, HandlersEnd |
| `paging` | pages of 2, up to 7 players | PageFits, PagesTile |

Each module's `TypeOK` is checked in one run: Bot's in `bot_serial`, the others'
in their own.

Bounds. Two overlapping requests are enough for a check-then-act race; two
games for an Elo update lost to another game, and for a start after an end;
three players (one created later, one deletable) for ties, for a stale roster
and for a game that keeps two players after a delete. Threshold 2 with points
1 and 2 reaches below, exactly at, and above it, by one entry or by two.
`MaxEntries`, `MaxGameId`, `MaxVersion`, `MaxFailures`, `MaxCrashes`, `MaxCalls`
are bounds in guards. In Boards a tap that would create a post, a game or a
change of scores needs one to be left (PostsLeft, GamesLeft, ChangesLeft), so
that no handler that has begun gets stuck at a bound. Four posts are two games
and two reposts, or one game reposted three times, so a dialog can outlive two
replacements of its post; the one failing call can be any. Two deaths let a
start be interrupted, and its repetition too. In Setup three ids and three
names are a soft-deleted player, an added one and one in a stale roster, a name
in use, freed and given again; one post is enough because requests about
different posts meet only in the tables. Two connections in Lifecycle let one
request end while another is cut. Symmetry is used where ids are only compared,
and never in a run with a liveness property.

Disagreements between the code and what it says of itself (`findings`), each a
run whose property TLC violates:

| run | the code | what it says |
|---|---|---|
| `stale_discard` | `endConfirm` decides from scores read before the transaction; a score that reaches the threshold in between is deleted with its game | game.go:325-326 |
| `lying_stub` | a confirm repeated after its answer was lost, when the winner has been deleted meanwhile, tells the channel that the game was discarded; its result stays stored | game.go:326-327 |
| `seed_crash` | a death between two inserts of the seed: 004 is applied again at every later start and fails | migrate.go:36-37 |
| `dangling` | `foreign_key_check` runs after the commits; the next start has nothing pending and serves | migrate.go:42-44 |
| `game_ids` | the rebuilt table's AUTOINCREMENT mark follows the copied rows: ids of games discarded by the former bot come back | 005_mattermost_ids.sql:16-17 |

How far the guards reach. With two slots the properties of `bot_serial` from
OneUnfinishedGame to ScoresOnlyWhileUnfinished fail, and so do those of
`boards_serial` except TypeOK and AnnouncedOnce (which is proved for any number
of slots): guard and write, read and render are separate calls. Two overlapping
reposts or resumes, for instance, delete the same old post and create two boards
(game.go:394-395 says that "only one live board drives the game"). In Setup,
OneTapOnePlayer fails without `alone`: a dialog left open beside other taps
brings its older roster back. To see one, ask for that property alone with two
members of `Slot`, or without the condition. The hazards of `PROJECT.json` name
these properties with that restriction. Of two renames to one name that overlap,
the UNIQUE index refuses the second with an error, which the check before it
(players.go:226-227) is there to avoid.

Where a call has failed. In Boards the allowances are part of the properties.
The post a failed DeletePost leaves behind still has its buttons, so its Edit
Last prompt can delete an entry of a finished game (ScoresFrozenWhenOver says
that nothing else can but the delete of a player), and its End, like a confirm
whose answer was lost, can be confirmed again. That second confirm changes no
result (EndedIsFinal) and announces nothing (AnnouncedOnce); what it shows is
computed from the scores of the moment, and EndsAreTold says that it is wrong
only where the run `lying_stub` finds it wrong.

Some more things the models show. A start that stops half-way leaves a game with
fewer than two players, without a post, which blocks the next start; load game
and the repost of the scoreboard give it a board without counting its players,
so it can be ended. An unfinished game counts as a game, and as a loss, in the
Hall of Fame (queries.go:438, where the comment at 478-479 speaks of finished
games only); StatsCountOnce leaves the number of games out. A request between 10
and 15 seconds old may lose its answer to the drain. `remove` (newgame.go:475)
speaks of the first occurrence and drops all, which RostersAreSets makes the
same. A seed cut short at version 2 of the former bot records 003 without
applying it, which is why ServesWholeDatabase excepts `seedCut`. Deleting a
player removes his statistics, where README.md:74 and SMOKE_TEST.md:88 speak of
a soft delete.

Fairness. Two modules state any. Startup: WF of `Run`, the process's own steps;
Docker restarts the container (`restart: unless-stopped`, docker-compose.yml:35)
and `run` is sequential code whose calls return (`startupTimeout`). Lifecycle:
WF of `Run` (the steps of `server.Run` and main), of `Tick` (time passes) and of
`Expire` for each connection (an expired context makes the call under way
return). Nothing else is assumed: no client ever sends its body, no call returns
before its deadline, nobody restarts the process. Bot, Boards and Setup make no
liveness claim: a handler may stop anywhere and nobody retries.

## 4. Proofs

For every number of slots, connections, players, games, posts, points,
entries, chats and deaths, the theorems follow from the modules' named assumptions only:
`StoreAssumption`, `RequestAssumption`, `BoardsAssumption`, `SetupAssumption`
and `StartupAssumption` (constants are sets of the right kind, bounds are
natural numbers, NULL values are not members), `NullAssumption` (NULL is no id),
`PagingAssumption` (a page holds somebody) and `LifecycleAssumption` (the drain
is not longer than a request may be, which holds of the 10 s and 15 s in
server.go). The theorems of BotSerialProofs, and the last six of BoardsProofs,
also assume `OneAtATime` (one slot), as the runs do that check the same
properties; `WinnersAreTheTopScorers` that the database starts with finitely
many players.

| theorem | states |
|---|---|
| `BotProofs!TypeCorrect` | `Spec => []TypeOK` |
| `BotProofs!ReferencesHold` | `Spec => []ReferentialIntegrity` |
| `BotProofs!ResultsHold` | `Spec => []ResultOnlyWhenFinished` |
| `BotProofs!EndedGamesAreFinal` | `Spec => EndedIsFinal` |
| `BotProofs!EloIsAppliedOnce` | `Spec => []EloAppliedOnce` |
| `BotProofs!RatingEndsTheTrail` | `Spec => []RatingIsLatestInTrail` |
| `BotProofs!BotImplementsLedger` | `Spec => ImplementsLedger` |
| `BotSerialProofs!OneGameAtATime` | `Spec => []OneUnfinishedGame` |
| `BotSerialProofs!NobodyLeavesAGame` | `Spec => PlayersStayInGame` |
| `BotSerialProofs!NothingScoredAfterwards` | `Spec => ScoresOnlyWhileUnfinished` |
| `BotSerialProofs!NoUpdateIsLost` | `Spec => NoEloUpdateLost` |
| `BotSerialProofs!EverybodyIsRated` | `Spec => EveryParticipantRated` |
| `BotSerialProofs!DiscardsAreBelowThreshold` | `Spec => DiscardOnlyBelowThreshold` |
| `BotSerialProofs!WinnersAreTheTopScorers` | `Spec => WinnersAreTopScorers` |
| `ScoreProofs!ResultsAreOfMembers` | `Spec => []ResultsNameMembers` |
| `ScoreProofs!StatsAreRight` | `Spec => []StatsCountOnce` |
| `StartupProofs!TypeCorrect` | `Spec => []TypeOK` |
| `StartupProofs!StartsLoseNothing` | `Spec => StartsKeepRows` |
| `StartupProofs!ServedDatabasesAreWhole` | `Spec => []ServesWholeDatabase` |
| `BoardsProofs!TypeCorrect` | `Spec => []TypeOK` |
| `BoardsProofs!EndsAreAnnouncedOnce` | `Spec => []AnnouncedOnce` |
| `BoardsProofs!GamesHaveOneBoard` | `Spec => []OneLiveBoard` |
| `BoardsProofs!EndedGamesLoseTheirControls` | `Spec => []EndedGamesShowNoControls` |
| `BoardsProofs!PostIdNamesTheBoard` | `Spec => []PostIdDrivesTheGame` |
| `BoardsProofs!EndsAreToldAsStored` | `Spec => []EndsAreTold` |
| `BoardsProofs!BoardsShowTheirScores` | `Spec => []LiveBoardIsCurrent` |
| `BoardsProofs!EndedGamesKeepTheirScores` | `Spec => ScoresFrozenWhenOver` |
| `SetupProofs!TypeCorrect` | `Spec => []TypeOK` |
| `SetupProofs!RostersHoldNobodyTwice` | `Spec => []RostersAreSets` |
| `SetupProofs!RostersNameNoStranger` | `Spec => []RostersHoldUsedPlayers` |
| `SetupProofs!TapsChangeOnePlayer` | `Spec => OneTapOnePlayer` |
| `SetupProofs!IdsStandForOnePlayer` | `Spec => IdsKeepTheirPlayer` |
| `LifecycleProofs!TypeCorrect` | `Spec => []TypeOK` |
| `LifecycleProofs!DrainsGiveRequestsTheirTime` | `Spec => []CutRequestsHadTheirTime` |
| `PagingProofs!PagesAlwaysFit` | `Spec => []PageFits` |
| `PagingProofs!PagesAlwaysTile` | `Spec => []PagesTile` |

**Bot.** `Integrity` (BotProofs) is inductive: the types, both row
invariants, and WinnersWereRead: the winners a handler holds are among the
players it read. The last is needed because FinishGameWithWinners writes
winners, trail and primary from locals that may be old; what saves the rows is
the foreign keys at commit (`FinishAccepted` makes `who` a set of existing
players, hence the winners too) and that the game is still unfinished. One lemma
per statement says the statement preserves the rows; the step lemmas then only
have to show that the request in hand calls it with locals of the right kind.

`EloAppliedOnce` alone is not inductive: a handler that read a rating *after*
the game finished, and finishes it then, would apply it twice. `Accounting` adds
that every rating, stored or held in a local, is made of distinct games that
are *finished*. While a game is unfinished nothing can include it; the one
FinishGameWithWinners that finds it unfinished makes it finished in the same
step. `TrailIsOrdered` (ids are below the mark, deleted players are unrated)
makes the new rows the latest ones for RatingIsLatestInTrail.

**Ledger.** Under `Integrity` every statement of Store is a step of the book or
leaves it alone (`NextBook`): CreateOrGetPlayer joins, CreateGame opens,
DiscardGame drops, HardDeletePlayer leaves, and FinishGameWithWinners closes
(`CloseStep`), which is where `Integrity` is used: the winners read earlier are
among the rated, and the foreign keys make the rated exist.

**One request at a time.** `SerialInv` adds to `Integrity` that there is at most
one unfinished game, and `Fresh`: what a handler has read still holds at its
next call (no unfinished game before CreateStartedGame, the game unfinished
before InsertScore, the players and ratings of endConfirm those of the tables,
the score below the threshold before DiscardEnd, and so on). With one slot
nobody writes between two calls of a handler, so `Fresh` is carried from step
to step; with two it is not, and that is why the properties fail then.
`FiveSteps` sorts out the steps no property is about.

**Scores and statistics.** A score is a fold over entries (`MapThenSumSet`), a
recursive function the provers cannot compute with and the induction theorems
cannot be applied to. ScoreProofs counts instead: the sum of `w` over `s` is the
cardinality of `Units(w, s)`, the pairs of an element and a number below its
weight. That set satisfies the equations of the fold, and the fold is the only
function that does (`AddsIsSum`); where induction would be used, a least
counterexample among the finite subsets is refuted (`LeastSubset`, from the
library's WFMin). Sums of disjoint sets then add up, and a finite set of numbers
has a largest one (`MaxIsLargest`).

StatsCountOnce holds for any number of slots. `StatsInv` adds to `Integrity` that
tables are finite, that whoever has won a game or was rated in it is linked to
it (`ResultsNameMembers`, a theorem of its own) and, because FinishEnd writes winners read two calls earlier,
that whoever a handler has read to end an unfinished game is still linked or has
been deleted (`EndersReadMembers`): ids are not given out twice, so the foreign
keys catch the deleted. Over such tables `RowsOfAGame` says what a row of the
join may be and that none is missing; a row with an entry is determined by it, so
rows and entries are in bijection (`TotalIsSum`) and the entries add up game by
game (`SumByGame`).

WinnersAreTopScorers adds to `Fresh` that the winners in hand at FinishEnd are
the players tied at the maximum of the moment; that the maximum is anybody's
score, and not the 0 of an empty game, follows from the threshold.

**Startup.** `RebuiltOnce` (a file's record commits with it, and nothing recorded
is pending) makes the rebuild happen once, and `OffTelegram` says that since then
no row is in a chat of the former bot. For ServesWholeDatabase a database whose
seed was not cut short is on one of two paths: a new one, whose records are its
schema (`NewPath`), or a former one that is not seeded yet, being seeded, seeded
or migrated (`OldPath`), and only one left at the last version gets past 005.

**Boards.** Besides TypeOK, AnnouncedOnce needs `Announcer`: whoever is about to
announce a game has ended it, it is not announced yet, and nobody else is about
to announce it. End sends only the tap that changed the row to the announcement,
and a game that is over never becomes unfinished again.

**Boards, one request at a time.** `SerialInv` is built in four layers.
`Posted` holds with any number of slots: a post stays with its game until it is
deleted (`Belongs`), whether a screen, a dialog, a request or `post_id` names
it; an end is shown only of a game that has ended; nothing shown is ahead of the
scores. `Fresh` needs the one slot: the row read is unfinished still when the
post is replaced or the score inserted, the screen about to be shown is that of
the present scores, and the post a request came from still has its controls,
unless it came from a dialog, which a deleted post does not close. `Counted` is
the accounting OneLiveBoard needs: at each moment one post at most is the
`Driver` of a game (`post_id`'s; during a replacement the new one, once there is
one; after the end the one about to lose its buttons), and the others with
controls, the `Strays`, are no more than the calls that have failed. Each action
either moves the driver or leaves the strays alone; a failed delete, or a request
that stops, makes one more. `End` is the delicate one: it can end a game from a
stray, which then changes places with the driver (`StraySwapped`). `Truthful`
says of each post and of the screen on its way that it tells the end as stored
or is the one wrong stub (`Told`), and of a request about to end a game that what
it decided from the scores still holds (`Decided`); after the end only a stray
can be confirmed again, and by Counted there is none without a failed call. What
is told stays told, because a game that is over loses players but never
gains a threshold (`ReachedNext`) and failures only grow. `Current` says that a board is behind only while
its request is on the way to render it, or for a late dialog.

**Setup.** For any overlap, `RostersInv`: every roster carried by a post, a
button, a request or a dialog is a set of ids given out, because an id is added
only where the handler's own roster does not have it (`AddToRoster`), and ids are
never taken back. What happens to the tables meanwhile plays no part. For
requests that run alone, `Undisturbed`: the post still carries the roster the
request started from; whoever takes a step ends the solitude of all others, so only the request's own
steps matter. The handlers are summed up once (`HandlerStep`, `TapStep`) and both
arguments use the sum. IdsKeepTheirPlayer follows from TypeOK alone, once the
three handlers that write a name are told from the others (`NamesStay`).

**Lifecycle.** `Waited` says that a request under way during a drain is at least
as old as the drain, because it came before the listener was closed and ages
with it; that a clean drain leaves nobody under way; and that nothing is cut off
before the process closes.

**Paging.** The invariant `Paged` says that what is shown is the page asked of
some list; the arithmetic is in the lemmas, from division by the page size
(DivisionBounds) to the last page (TotalPagesBounds) to neighbours that meet
(ShownTiles).

Only model-checked: liveness (SoundStartsServe, ShutdownEnds, HandlersEnd).
Liveness, ENABLED and induction over data are beyond the prover; sums and maxima
were within its reach because they could be counted.

## 5. What is not modelled

Floating-point Elo (an update is one opaque step; golden values test it), text
and layout of screens, what exactly a request is denied for, the cryptography of
signed state, configuration, the resolution of channel and owner, the Telegram
predecessor (only the database it leaves), `created_at` and other dates. Code
that only renders the result of a query is not modelled either. The channel id
is left out of Store: legacy rows of another channel appear in Startup.

## 6. Plan

1. Relate statistics and results after a player of a finished game is deleted
   (queries.go:511): the winners that remain, and the scores they won with.
2. Setup with two posts, and composed with the starts and deletes of Bot, so
   that its StartGame and DeleteConfirm need no free choice.
