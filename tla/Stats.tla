------------------------------- MODULE Stats -------------------------------
(***************************************************************************)
(* The statistics query of internal/db/queries.go over the tables of       *)
(* Store.  statsSelect is six outer joins under one GROUP BY, so a row of  *)
(* one table is repeated by every other table that matches more than once; *)
(* it is modelled join by join, and compared with what the numbers of the  *)
(* Hall of Fame are meant to be.                                           *)
(***************************************************************************)
EXTENDS Store

\* LEFT JOIN: what matches, or NULL when nothing does.
Null == [null |-> TRUE]

\* NULL is nobody's id.
ASSUME NullAssumption == Null \notin GameId

Outer(matches) == IF matches = {} THEN {Null} ELSE matches

NotNull(values) == values \ {Null}

\* game_winners AND player_id = p; g_win repeats the id of its game.
WinJoin(g, p) ==
  Outer(IF g # Null /\ p \in winners[g] THEN {g} ELSE {})

\* score_entries by g.id, which is NULL while the game is unfinished.
EntryJoin(g, p) == Outer({e \in entries : e.game = g /\ e.player = p})

\* Slip: the totals joined by game alone.
TotalJoinByGame(g, p) ==
  Outer({[player |-> q, total |-> GameScore(g, q)]
         : q \in {e.player : e \in {x \in entries : x.game = g}}})

\* The sub-select: the player's total of the game, if he scored in it.
TotalJoin(g, p) ==
  Outer({[player |-> p, total |-> GameScore(g, p)]
         : e \in {x \in entries : x.game = g /\ x.player = p}})

\* The rows of the join that belong to one player, before GROUP BY.
StatsRows(p) ==
  UNION {LET g == IF gp # Null /\ status[gp] = "finished" THEN gp ELSE Null
         IN  {[gp |-> gp, win |-> w, entry |-> e, sub |-> t]
              : w \in WinJoin(g, p), e \in EntryJoin(g, p),
                t \in TotalJoin(g, p)}
         : gp \in Outer({g \in GameId : p \in members[g]})}

\* The aggregates, and losses as statsFromAggregate derives them.
PlayerStats(p) ==
  LET rows  == StatsRows(p)
      games == Cardinality(NotNull({row.gp : row \in rows}))
      wins  == Cardinality(NotNull({row.win : row \in rows}))
  IN  [games   |-> games,
       wins    |-> wins,
       losses  |-> games - wins,
       total   |-> MapThenSumSet(LAMBDA row : row.entry.points,
                                 {row \in rows : row.entry # Null}),
       highest |-> Max({row.sub.total : row \in {x \in rows : x.sub # Null}}
                         \cup {0})]

-----------------------------------------------------------------------------
(* What the numbers mean *)

FinishedGamesOf(p) == {g \in GameId : status[g] = "finished" /\ p \in members[g]}

\* Every point of every finished game is counted once in the total, the best
\* game is the best, a win is a game the player is recorded to have won, and
\* nobody wins more games than he played, however the joins multiply rows and
\* whoever has been deleted.
StatsCountOnce ==
  \A p \in players :
    LET s      == PlayerStats(p)
        played == FinishedGamesOf(p)
    IN  /\ s.total = MapThenSumSet(LAMBDA g : GameScore(g, p), played)
        /\ s.highest = Max({GameScore(g, p) : g \in played} \cup {0})
        /\ s.wins = Cardinality({g \in GameId : p \in winners[g]})
        /\ s.losses >= 0

=============================================================================
