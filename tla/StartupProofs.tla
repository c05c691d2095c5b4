--------------------------- MODULE StartupProofs ---------------------------
(***************************************************************************)
(* For any number of players, games, chats and deaths, whatever version    *)
(* the former bot left behind: the types, the rows no start loses, and     *)
(* the database that is served.                                            *)
(***************************************************************************)
EXTENDS Startup, TLAPS

LEMMA FilesAre == Files = {1, 2, 3, 4, 5} /\ Seeded = {1, 2, 3, 4}
  BY DEF Files, Seeded, SqlxMaxVersion

-----------------------------------------------------------------------------
(* Types *)

LEMMA InitTypeOK == Init => TypeOK
<1> SUFFICES ASSUME Init PROVE TypeOK
  OBVIOUS
<1>1. sqlx \in 0 .. SqlxMaxVersion /\ dangling \in BOOLEAN
  BY StartupAssumption DEF Init
<1>2. created \subseteq Files
  BY <1>1 DEF Init, Files, SqlxMaxVersion
<1>3. /\ channel \in [GameNum -> Channel \cup {NoRow}]
      /\ lastRows \subseteq Channel \X PlayerId
  BY DEF Init, Channel
<1>4. posted \subseteq GameNum
  BY DEF Init, GameRows
<1>5. everUsed \subseteq GameNum /\ gameMark \in 0 .. MaxGameId
  BY StartupAssumption DEF Init, GameNum
<1>6. crashes \in 0 .. MaxCrashes
  BY StartupAssumption DEF Init
<1> QED
  BY <1>1, <1>2, <1>3, <1>4, <1>5, <1>6 DEF Init, TypeOK, PC

LEMMA RebuildType ==
  ASSUME TypeOK, Rebuild
  PROVE  /\ channel' \in [GameNum -> Channel \cup {NoRow}]
         /\ posted' \subseteq GameNum
         /\ gameMark' \in 0 .. MaxGameId
         /\ everUsed' \subseteq GameNum
         /\ lastRows' \subseteq Channel \X PlayerId
         /\ dangling' \in BOOLEAN
<1>1. channel' \in [GameNum -> Channel \cup {NoRow}]
  BY DEF Rebuild, TypeOK, Channel
<1>2. gameMark' \in 0 .. MaxGameId
  BY StartupAssumption DEF Rebuild, GameRows, GameNum
<1>3. \A row \in lastRows : <<Blank, row[2]>> \in Channel \X PlayerId
  BY DEF TypeOK, Channel
<1> QED
  BY <1>1, <1>2, <1>3 DEF Rebuild, TypeOK

LEMMA ClaimedType == TypeOK => Claimed \subseteq Channel \X PlayerId
<1>1. ASSUME TypeOK, NEW row \in lastRows
      PROVE  <<IF row[1] = Blank THEN Owner ELSE row[1], row[2]>>
               \in Channel \X PlayerId
  <2>1. row[1] \in Channel /\ row[2] \in PlayerId /\ Owner \in Channel
    BY <1>1 DEF TypeOK, Channel
  <2> QED
    BY <2>1
<1> QED
  BY <1>1 DEF Claimed

LEMMA NextTypeOK == TypeOK /\ [Next]_vars => TypeOK'
<1> SUFFICES ASSUME TypeOK, [Next]_vars PROVE TypeOK'
  OBVIOUS
<1> USE DEF schemaVars, gameVars, rowVars, deaths
<1>1. CASE Start \/ ReadApplied
  BY <1>1, FilesAre DEF Start, ReadApplied, TypeOK, PC
<1>2. CASE SeedOne
  BY <1>2 DEF SeedOne, First, TypeOK, PC
<1>3. CASE ApplyNext
  <2>1. PICK m \in todo :
          IF ApplyFails(m)
          THEN Exit /\ UNCHANGED <<schemaVars, rowVars>>
          ELSE /\ Apply(m)
               /\ todo' = todo \ {m}
               /\ pc' = IF todo = {m} THEN "check" ELSE "apply"
    BY <1>3 DEF ApplyNext
  <2>2. UNCHANGED <<sqlx, deaths>>
    BY <1>3 DEF ApplyNext
  <2>3. CASE ApplyFails(m)
    BY <2>1, <2>2, <2>3 DEF Exit, TypeOK, PC
  <2>4. CASE ~ApplyFails(m) /\ m # 5
    BY <2>1, <2>2, <2>4 DEF Apply, TypeOK, PC
  <2>5. CASE ~ApplyFails(m) /\ m = 5
    <3>1. /\ created' = created \cup {m} /\ recorded' = recorded \cup {m}
          /\ Rebuild
      BY <2>1, <2>5 DEF Apply
    <3>2. created' \subseteq Files /\ recorded' \subseteq Files
          /\ todo' \subseteq Files /\ pc' \in PC
      BY <2>1, <2>5, <3>1 DEF TypeOK, PC
    <3> QED
      BY <2>2, <3>1, <3>2, RebuildType DEF TypeOK
  <2> QED
    BY <2>3, <2>4, <2>5
<1>4. CASE CheckForeignKeys
  BY <1>4 DEF CheckForeignKeys, Exit, TypeOK, PC
<1>5. CASE Backfill
  <2>1. CASE Cardinality(Claimed) < Cardinality(lastRows)
    BY <1>5, <2>1 DEF Backfill, Exit, TypeOK, PC
  <2>2. CASE ~(Cardinality(Claimed) < Cardinality(lastRows))
    <3>1. channel' \in [GameNum -> Channel \cup {NoRow}]
      BY <1>5, <2>2 DEF Backfill, TypeOK, Channel
    <3>2. lastRows' \subseteq Channel \X PlayerId
      BY <1>5, <2>2, ClaimedType DEF Backfill
    <3> QED
      BY <1>5, <2>2, <3>1, <3>2 DEF Backfill, TypeOK, PC
  <2> QED
    BY <2>1, <2>2
<1>6. CASE ServeCreateGame
  <2>1. gameMark + 1 \in GameNum /\ gameMark + 1 \in 0 .. MaxGameId
    BY <1>6, StartupAssumption DEF ServeCreateGame, TypeOK, GameNum
  <2> QED
    BY <1>6, <2>1 DEF ServeCreateGame, TypeOK, Channel
<1>7. ASSUME NEW g \in GameNum, ServePostGame(g) \/ ServeDiscardGame(g)
      PROVE  TypeOK'
  BY <1>7 DEF ServePostGame, ServeDiscardGame, TypeOK
<1>8. ASSUME NEW who \in SUBSET PlayerId, ServeSaveLastPlayers(who)
      PROVE  TypeOK'
  <2>1. lastRows' \subseteq Channel \X PlayerId
    BY <1>8 DEF ServeSaveLastPlayers, TypeOK, Channel
  <2> QED
    BY <1>8, <2>1 DEF ServeSaveLastPlayers, TypeOK
<1>9. CASE Crash
  <2>1. crashes' \in 0 .. MaxCrashes
    BY <1>9, StartupAssumption DEF Crash, TypeOK
  <2> QED
    BY <1>9, <2>1 DEF Crash, Exit, TypeOK, PC
<1>10. CASE UNCHANGED vars
  BY <1>10 DEF vars, TypeOK
<1> QED
  BY <1>1, <1>2, <1>3, <1>4, <1>5, <1>6, <1>7, <1>8, <1>9, <1>10
  DEF Next, Run, Serve

\* Schema, rows and process keep their types through starts, deaths and service.
THEOREM TypeCorrect == Spec => []TypeOK
  BY InitTypeOK, NextTypeOK, PTL DEF Spec

-----------------------------------------------------------------------------
(***************************************************************************)
(* The rebuild happens once: its record commits with it, and what is       *)
(* recorded is never pending.  Since then no game and no last player is in *)
(* a chat of the former bot.                                               *)
(***************************************************************************)
RebuiltOnce ==
  /\ 5 \in created => 5 \in recorded
  /\ pc = "apply" => todo \cap recorded = {}

OffTelegram ==
  5 \in created =>
    /\ \A g \in GameNum : channel[g] \in {NoRow, Blank, Owner}
    /\ \A row \in lastRows : row[1] \in {Blank, Owner}

SchemaInv == TypeOK /\ RebuiltOnce /\ OffTelegram

LEMMA InitSchemaInv == Init => SchemaInv
<1> SUFFICES ASSUME Init PROVE SchemaInv
  OBVIOUS
<1>1. TypeOK
  BY InitTypeOK
<1>2. 5 \notin created /\ pc = "down"
  BY <1>1 DEF Init, TypeOK, SqlxMaxVersion
<1> QED
  BY <1>1, <1>2
  DEF SchemaInv, RebuiltOnce, OffTelegram

\* What a file that is applied does.
LEMMA ApplyStep ==
  ASSUME ApplyNext
  PROVE  \/ Exit /\ UNCHANGED <<schemaVars, rowVars, deaths>>
         \/ \E m \in todo :
              /\ First(m)
              /\ ~ApplyFails(m)
              /\ created' = created \cup {m}
              /\ recorded' = recorded \cup {m}
              /\ IF m = 5 THEN Rebuild ELSE UNCHANGED rowVars
              /\ todo' = todo \ {m}
              /\ pc' = IF todo = {m} THEN "check" ELSE "apply"
              /\ UNCHANGED <<sqlx, deaths>>
  BY DEF ApplyNext, Apply, schemaVars

LEMMA NextSchemaInv == SchemaInv /\ [Next]_vars => SchemaInv'
<1> SUFFICES ASSUME SchemaInv, [Next]_vars PROVE SchemaInv'
  OBVIOUS
<1> USE DEF schemaVars, gameVars, rowVars, deaths
<1>0. TypeOK /\ TypeOK'
  BY NextTypeOK DEF SchemaInv
<1>1. CASE UNCHANGED rowVars /\ UNCHANGED created
  <2>1. OffTelegram'
    BY <1>1 DEF SchemaInv, OffTelegram
  <2>2. RebuiltOnce'
    <3>1. recorded \subseteq recorded'
      BY <1>1 DEF Next, Run, Serve, Start, ReadApplied, SeedOne, ApplyNext, Apply,
        CheckForeignKeys, Backfill, ServeCreateGame, ServePostGame,
        ServeDiscardGame, ServeSaveLastPlayers, Crash, vars
    <3>2. pc' = "apply" => todo' \cap recorded' = {}
      BY <1>1 DEF Next, Run, Serve, Start, ReadApplied, SeedOne, ApplyNext, Apply,
        CheckForeignKeys, Backfill, ServeCreateGame, ServePostGame,
        ServeDiscardGame, ServeSaveLastPlayers, Crash, Exit, vars, SchemaInv,
        RebuiltOnce
    <3> QED
      BY <1>1, <3>1, <3>2 DEF SchemaInv, RebuiltOnce
  <2> QED
    BY <1>0, <2>1, <2>2 DEF SchemaInv
<1>2. ASSUME NEW m \in todo, pc = "apply",
             ~ApplyFails(m),
             created' = created \cup {m},
             recorded' = recorded \cup {m},
             IF m = 5 THEN Rebuild ELSE UNCHANGED rowVars,
             todo' = todo \ {m}
      PROVE  SchemaInv'
  <2>1. RebuiltOnce'
    BY <1>2 DEF SchemaInv, RebuiltOnce
  <2>2. OffTelegram'
    <3>1. CASE m # 5
      BY <1>2, <3>1 DEF SchemaInv, OffTelegram
    <3>2. CASE m = 5
      <4>1. Rebuild
        BY <1>2, <3>2
      <4>2. \A g \in GameNum : channel'[g] \in {NoRow, Blank, Owner}
        BY <4>1 DEF Rebuild
      <4>3. \A row \in lastRows' : row[1] \in {Blank, Owner}
        BY <4>1 DEF Rebuild
      <4> QED
        BY <4>2, <4>3 DEF OffTelegram
    <3> QED
      BY <3>1, <3>2
  <2> QED
    BY <1>0, <2>1, <2>2 DEF SchemaInv
<1>3. ASSUME pc' # "apply", UNCHANGED schemaVars, OffTelegram' PROVE SchemaInv'
  BY <1>0, <1>3 DEF SchemaInv, RebuiltOnce
<1>4. CASE ApplyNext
  BY <1>1, <1>2, <1>4, ApplyStep DEF ApplyNext
<1>5. CASE Backfill
  <2>1. CASE Cardinality(Claimed) < Cardinality(lastRows)
    BY <1>1, <1>5, <2>1 DEF Backfill
  <2>2. CASE ~(Cardinality(Claimed) < Cardinality(lastRows))
    <3>1. /\ \A g \in GameNum : channel'[g] =
                IF channel[g] = Blank THEN Owner ELSE channel[g]
          /\ lastRows' = Claimed
      BY <1>5, <2>2 DEF Backfill
    <3>2. OffTelegram'
      BY <1>5, <3>1 DEF Backfill, SchemaInv, OffTelegram, Claimed
    <3> QED
      BY <1>3, <1>5, <2>2, <3>2 DEF Backfill
  <2> QED
    BY <2>1, <2>2
<1>6. CASE Serve
  <2>1. pc = "serving" /\ pc' = "serving" /\ UNCHANGED schemaVars
    BY <1>6 DEF Serve, ServeCreateGame, ServePostGame, ServeDiscardGame,
      ServeSaveLastPlayers
  <2>2. OffTelegram'
    BY <1>0, <1>6 DEF Serve, ServeCreateGame, ServePostGame, ServeDiscardGame,
      ServeSaveLastPlayers, OffTelegram, SchemaInv, TypeOK
  <2> QED
    BY <1>3, <2>1, <2>2
<1>7. CASE Start \/ ReadApplied \/ SeedOne \/ CheckForeignKeys \/ Crash
           \/ UNCHANGED vars
  BY <1>1, <1>7 DEF Start, ReadApplied, SeedOne, CheckForeignKeys, Crash, vars
<1> QED
  BY <1>4, <1>5, <1>6, <1>7 DEF Next, Run

LEMMA SchemaInvariant == Spec => []SchemaInv
  BY InitSchemaInv, NextSchemaInv, PTL DEF Spec

-----------------------------------------------------------------------------
(* No start loses a row. *)

LEMMA RebuildKeepsRows ==
  ASSUME TypeOK, Rebuild
  PROVE  /\ GameRows \subseteq {g \in GameNum : channel'[g] # NoRow}
         /\ {row[2] : row \in lastRows} = {row[2] : row \in lastRows'}
<1>1. \A g \in GameNum : channel[g] # NoRow => channel'[g] # NoRow
  BY StartupAssumption DEF Rebuild, Channel
<1>2. \A row \in lastRows : <<Blank, row[2]>> \in lastRows'
  BY DEF Rebuild
<1>3. \A row \in lastRows' : \E old \in lastRows : row[2] = old[2]
  BY DEF Rebuild
<1> QED
  BY <1>1, <1>2, <1>3 DEF GameRows

LEMMA BackfillKeepsRows ==
  ASSUME TypeOK, Backfill
  PROVE  /\ GameRows \subseteq {g \in GameNum : channel'[g] # NoRow}
         /\ {row[2] : row \in lastRows} = {row[2] : row \in lastRows'}
<1>1. CASE Cardinality(Claimed) < Cardinality(lastRows)
  BY <1>1 DEF Backfill, rowVars, gameVars, GameRows
<1>2. CASE ~(Cardinality(Claimed) < Cardinality(lastRows))
  <2>1. /\ channel' = [g \in GameNum |-> IF channel[g] = Blank THEN Owner
                                                             ELSE channel[g]]
        /\ lastRows' = Claimed
    BY <1>2 DEF Backfill
  <2>2. \A g \in GameNum : channel[g] # NoRow => channel'[g] # NoRow
    BY <2>1, StartupAssumption DEF Channel
  <2>3. \A row \in lastRows : \E new \in lastRows' : row[2] = new[2]
    <3>1. ASSUME NEW row \in lastRows
          PROVE  \E new \in lastRows' : row[2] = new[2]
      <4> DEFINE new == <<IF row[1] = Blank THEN Owner ELSE row[1], row[2]>>
      <4>1. new \in lastRows' /\ new[2] = row[2]
        BY <2>1 DEF Claimed
      <4> QED
        BY <4>1
    <3> QED
      BY <3>1
  <2>4. \A row \in lastRows' : \E old \in lastRows : row[2] = old[2]
    BY <2>1 DEF Claimed
  <2> QED
    BY <2>2, <2>3, <2>4 DEF GameRows
<1> QED
  BY <1>1, <1>2

\* However often it is repeated and wherever it is cut off, a start keeps every
\* game, every last player and, once the tables are rebuilt, every post.
THEOREM StartsLoseNothing == Spec => StartsKeepRows
<1> DEFINE Kept == /\ GameRows \subseteq {g \in GameNum : channel'[g] # NoRow}
                   /\ {row[2] : row \in lastRows} = {row[2] : row \in lastRows'}
                   /\ 5 \in created => posted \subseteq posted'
<1>1. ASSUME SchemaInv, [Next]_vars, pc # "serving" PROVE Kept
  <2>0. TypeOK
    BY <1>1 DEF SchemaInv
  <2>1. CASE UNCHANGED rowVars
    BY <2>1 DEF rowVars, gameVars, GameRows
  <2>2. CASE ApplyNext
    <3>1. ASSUME NEW m \in todo, IF m = 5 THEN Rebuild ELSE UNCHANGED rowVars
          PROVE  Kept
      <4>1. CASE m = 5
        <5>1. 5 \notin created
          BY <1>1, <2>2, <4>1 DEF SchemaInv, RebuiltOnce, ApplyNext
        <5> QED
          BY <2>0, <3>1, <4>1, <5>1, RebuildKeepsRows
      <4> QED
        BY <2>1, <3>1, <4>1
    <3> QED
      BY <2>1, <2>2, <3>1, ApplyStep
  <2>3. CASE Backfill
    <3>1. posted' = posted
      BY <2>3 DEF Backfill, rowVars, gameVars
    <3> QED
      BY <2>0, <2>3, <3>1, BackfillKeepsRows
  <2> QED
    BY <1>1, <2>1, <2>2, <2>3
    DEF Next, Run, Serve, Start, ReadApplied, SeedOne, CheckForeignKeys, Crash,
        ServeCreateGame, ServePostGame, ServeDiscardGame, ServeSaveLastPlayers,
        vars
<1>2. SchemaInv /\ [Next]_vars => [pc # "serving" => Kept]_vars
  BY <1>1
<1> QED
  BY <1>2, SchemaInvariant, PTL DEF Spec, StartsKeepRows

-----------------------------------------------------------------------------
(***************************************************************************)
(* What is served.  Unless a seed was cut short, a database is on one of   *)
(* two paths: a new one, whose records are its schema; or a former one,    *)
(* which is not seeded yet, being seeded, seeded, or migrated.  On the     *)
(* second path only one the former bot left at its last version gets past  *)
(* 005.                                                                    *)
(***************************************************************************)
Late == {"check", "backfill", "serving"}

NewPath ==
  /\ sqlx = 0
  /\ created = recorded
  /\ pc # "seed"
  /\ pc = "apply" => todo = Files \ recorded
  /\ pc \in Late => recorded = Files

Unseeded ==
  /\ pc \in {"down", "read"}
  /\ recorded = {} /\ created = 1 .. sqlx

BeingSeeded ==
  /\ pc = "seed"
  /\ todo \subseteq Seeded
  /\ recorded = Seeded \ todo /\ created = 1 .. sqlx

SeedDone ==
  /\ pc \in {"down", "read", "apply"}
  /\ pc = "apply" => todo = {5}
  /\ recorded = Seeded /\ created = 1 .. sqlx

Migrated ==
  /\ pc \in Late \cup {"down", "read"}
  /\ recorded = Files /\ created = Files

OldPath == sqlx > 0 /\ (Unseeded \/ BeingSeeded \/ SeedDone \/ Migrated)

OwnersAlone ==
  pc = "serving" /\ 5 \in created =>
    /\ \A g \in GameRows : channel[g] = Owner
    /\ \A row \in lastRows : row[1] = Owner

ServeInv == SchemaInv /\ OwnersAlone /\ (~seedCut => NewPath \/ OldPath)

LEMMA InitServeInv == Init => ServeInv
<1> SUFFICES ASSUME Init PROVE ServeInv
  OBVIOUS
<1>1. SchemaInv /\ sqlx \in 0 .. 4
  BY InitSchemaInv DEF SchemaInv, TypeOK, SqlxMaxVersion
<1>2. CASE sqlx = 0
  BY <1>1, <1>2 DEF Init, ServeInv, OwnersAlone, NewPath, Late
<1>3. CASE sqlx > 0
  BY <1>1, <1>3 DEF Init, ServeInv, OwnersAlone, OldPath, Unseeded
<1> QED
  BY <1>1, <1>2, <1>3

LEMMA NewPathStep ==
  ASSUME TypeOK, NewPath, [Next]_vars
  PROVE  NewPath'
<1> USE DEF schemaVars, gameVars, rowVars, deaths
<1>1. CASE ReadApplied
  <2>1. todo' = Files \ recorded
        /\ pc' = IF todo' = {} THEN "backfill" ELSE "apply"
    BY <1>1 DEF ReadApplied, NewPath
  <2> QED
    BY <1>1, <2>1 DEF ReadApplied, NewPath, Late, TypeOK
<1>2. CASE ApplyNext
  <2>1. ASSUME NEW m \in todo, todo = Files \ recorded,
               created' = created \cup {m}, recorded' = recorded \cup {m},
               todo' = todo \ {m},
               pc' = IF todo = {m} THEN "check" ELSE "apply",
               sqlx' = sqlx
        PROVE  NewPath'
    BY <2>1 DEF NewPath, Late, TypeOK
  <2> QED
    BY <1>2, <2>1, ApplyStep DEF Exit, NewPath, Late, ApplyNext
<1>3. CASE CheckForeignKeys \/ Backfill
  BY <1>3 DEF CheckForeignKeys, Backfill, Exit, NewPath, Late
<1>4. CASE Start \/ SeedOne \/ Crash \/ UNCHANGED vars
  BY <1>4 DEF Start, SeedOne, Crash, Exit, NewPath, Late, vars
<1>5. CASE Serve
  BY <1>5 DEF Serve, ServeCreateGame, ServePostGame, ServeDiscardGame,
    ServeSaveLastPlayers, NewPath, Late
<1> QED
  BY <1>1, <1>2, <1>3, <1>4, <1>5 DEF Next, Run

LEMMA OldPathStep ==
  ASSUME TypeOK, OldPath, [Next]_vars, ~seedCut'
  PROVE  OldPath'
<1> USE DEF schemaVars, gameVars, rowVars, deaths
<1>0. sqlx' = sqlx /\ sqlx \in 1 .. 4
  BY DEF Next, Run, Serve, Start, ReadApplied, SeedOne, ApplyNext,
    CheckForeignKeys, Backfill, ServeCreateGame, ServePostGame,
    ServeDiscardGame, ServeSaveLastPlayers, Crash, vars, OldPath, TypeOK,
    SqlxMaxVersion
<1>1. CASE Start
  BY <1>0, <1>1 DEF Start, OldPath, Unseeded, BeingSeeded, SeedDone, Migrated,
    Late
<1>2. CASE ReadApplied
  <2>1. CASE Unseeded
    BY <1>0, <1>2, <2>1 DEF ReadApplied, Unseeded, OldPath, BeingSeeded
  <2>2. CASE SeedDone
    BY <1>0, <1>2, <2>2, FilesAre DEF ReadApplied, SeedDone, OldPath
  <2>3. CASE Migrated
    BY <1>0, <1>2, <2>3, FilesAre DEF ReadApplied, Migrated, OldPath, Late
  <2> QED
    BY <1>2, <2>1, <2>2, <2>3 DEF OldPath, ReadApplied, BeingSeeded
<1>3. CASE SeedOne
  <2>1. BeingSeeded
    BY <1>3 DEF SeedOne, OldPath, Unseeded, SeedDone, Migrated, Late
  <2>2. PICK m \in todo :
          /\ recorded' = recorded \cup {m}
          /\ IF todo = {m}
             THEN pc' = "apply" /\ todo' = Files \ recorded'
             ELSE todo' = todo \ {m} /\ UNCHANGED pc
    BY <1>3 DEF SeedOne
  <2>3. CASE todo = {m}
    <3>1. recorded' = Seeded
      BY <2>1, <2>2, <2>3 DEF BeingSeeded
    <3>2. todo' = {5}
      BY <2>2, <2>3, <3>1, FilesAre
    <3> QED
      BY <1>0, <1>3, <2>1, <2>2, <2>3, <3>1, <3>2
      DEF SeedOne, BeingSeeded, SeedDone, OldPath
  <2>4. CASE todo # {m}
    BY <1>0, <1>3, <2>1, <2>2, <2>4 DEF SeedOne, BeingSeeded, OldPath
  <2> QED
    BY <2>3, <2>4
<1>4. CASE ApplyNext
  <2>1. SeedDone /\ todo = {5}
    BY <1>4 DEF ApplyNext, OldPath, Unseeded, BeingSeeded, SeedDone, Migrated,
      Late
  <2>2. CASE Exit /\ UNCHANGED <<schemaVars, rowVars, deaths>>
    BY <1>0, <2>1, <2>2 DEF Exit, SeedDone, OldPath
  <2>3. CASE /\ ~ApplyFails(5)
             /\ created' = created \cup {5}
             /\ recorded' = recorded \cup {5}
             /\ pc' = "check"
    <3>1. 1 .. sqlx = {1, 2, 3, 4}
      BY <1>0, <2>1, <2>3 DEF ApplyFails, SeedDone
    <3>2. created' = Files /\ recorded' = Files
      BY <2>1, <2>3, <3>1, FilesAre DEF SeedDone
    <3> QED
      BY <1>0, <2>3, <3>2 DEF Migrated, OldPath, Late
  <2> QED
    BY <1>4, <2>1, <2>2, <2>3, ApplyStep
<1>5. CASE CheckForeignKeys \/ Backfill
  BY <1>0, <1>5 DEF CheckForeignKeys, Backfill, Exit, OldPath, Unseeded,
    BeingSeeded, SeedDone, Migrated, Late
<1>6. CASE Crash
  <2>1. CASE BeingSeeded
    <3>1. recorded = {}
      BY <1>6, <2>1 DEF Crash, BeingSeeded
    <3> QED
      BY <1>0, <1>6, <2>1, <3>1 DEF Crash, Exit, BeingSeeded, Unseeded, OldPath
  <2>2. CASE Unseeded \/ SeedDone \/ Migrated
    BY <1>0, <1>6, <2>2 DEF Crash, Exit, Unseeded, SeedDone, Migrated, OldPath
  <2> QED
    BY <2>1, <2>2 DEF OldPath
<1>7. CASE Serve \/ UNCHANGED vars
  BY <1>0, <1>7 DEF Serve, ServeCreateGame, ServePostGame, ServeDiscardGame,
    ServeSaveLastPlayers, vars, OldPath, Unseeded, BeingSeeded, SeedDone,
    Migrated
<1> QED
  BY <1>1, <1>2, <1>3, <1>4, <1>5, <1>6, <1>7 DEF Next, Run

LEMMA OwnersStep ==
  ASSUME TypeOK, SchemaInv, OwnersAlone, [Next]_vars
  PROVE  OwnersAlone'
<1> USE DEF schemaVars, gameVars, rowVars, deaths
<1>1. CASE pc' # "serving"
  BY <1>1 DEF OwnersAlone
<1>2. CASE Backfill /\ pc' = "serving"
  <2>1. /\ \A g \in GameNum :
             channel'[g] = IF channel[g] = Blank THEN Owner ELSE channel[g]
        /\ lastRows' = Claimed
        /\ created' = created
    BY <1>2 DEF Backfill, Exit
  <2>2. 5 \in created => \A g \in GameRows' : channel'[g] = Owner
    BY <2>1 DEF SchemaInv, OffTelegram, GameRows
  <2>3. 5 \in created => \A row \in lastRows' : row[1] = Owner
    BY <2>1 DEF SchemaInv, OffTelegram, Claimed
  <2> QED
    BY <2>1, <2>2, <2>3 DEF OwnersAlone
<1>3. CASE ServeCreateGame
  BY <1>3 DEF ServeCreateGame, OwnersAlone, GameRows, TypeOK
<1>4. ASSUME NEW g \in GameNum, ServePostGame(g) \/ ServeDiscardGame(g)
      PROVE  OwnersAlone'
  BY <1>4 DEF ServePostGame, ServeDiscardGame, OwnersAlone, GameRows, TypeOK
<1>5. ASSUME NEW who \in SUBSET PlayerId, ServeSaveLastPlayers(who)
      PROVE  OwnersAlone'
  BY <1>5 DEF ServeSaveLastPlayers, OwnersAlone, GameRows
<1>6. CASE UNCHANGED vars
  BY <1>6 DEF vars, OwnersAlone, GameRows
<1>7. CASE Start \/ ReadApplied \/ SeedOne \/ ApplyNext \/ CheckForeignKeys
           \/ Crash
  BY <1>1, <1>7 DEF Start, ReadApplied, SeedOne, ApplyNext, CheckForeignKeys,
    Crash, Exit
<1> QED
  BY <1>1, <1>2, <1>3, <1>4, <1>5, <1>6, <1>7 DEF Next, Run, Serve

LEMMA NextServeInv == ServeInv /\ [Next]_vars => ServeInv'
<1> SUFFICES ASSUME ServeInv, [Next]_vars PROVE ServeInv'
  OBVIOUS
<1>1. TypeOK /\ SchemaInv'
  BY NextSchemaInv DEF ServeInv, SchemaInv
<1>2. OwnersAlone'
  BY <1>1, OwnersStep DEF ServeInv
<1>3. ~seedCut' => ~seedCut
  BY <1>1 DEF Next, Run, Serve, Start, ReadApplied, SeedOne, ApplyNext,
    CheckForeignKeys, Backfill, ServeCreateGame, ServePostGame,
    ServeDiscardGame, ServeSaveLastPlayers, Crash, vars, deaths
<1>4. ~seedCut' => (NewPath \/ OldPath)'
  BY <1>1, <1>3, NewPathStep, OldPathStep DEF ServeInv
<1> QED
  BY <1>1, <1>2, <1>4 DEF ServeInv

\* Unless it died between two rows of the seed, the process serves only a
\* database with every migration applied and recorded, all of it the owner's.
THEOREM ServedDatabasesAreWhole == Spec => []ServesWholeDatabase
<1>1. ServeInv => ServesWholeDatabase
  <2> SUFFICES ASSUME ServeInv, pc = "serving", ~seedCut
               PROVE  /\ created = Files /\ recorded = Files
                      /\ \A g \in GameRows : channel[g] = Owner
                      /\ \A row \in lastRows : row[1] = Owner
    BY DEF ServesWholeDatabase
  <2>1. created = Files /\ recorded = Files
    BY DEF ServeInv, NewPath, OldPath, Unseeded, BeingSeeded, SeedDone, Migrated,
      Late
  <2> QED
    BY <2>1, FilesAre DEF ServeInv, OwnersAlone
<1> QED
  BY <1>1, InitServeInv, NextServeInv, PTL DEF Spec

=============================================================================
