--------------------------- MODULE PlayersScreen ---------------------------
(***************************************************************************)
(* internal/players/players.go: the guarded hard-delete.  (Renaming only   *)
(* changes a name, and names are not part of Store.)  The confirm button   *)
(* of a player who is already gone can still be tapped.                    *)
(***************************************************************************)
EXTENDS Requests

\* Slip: deletes without asking.
ConfirmDeleteUnguarded(r, p) ==
  /\ At(r, "idle")
  /\ p \in usedPlayers
  /\ req' = [req EXCEPT ![r] = [Idle EXCEPT !.pc = "delete_player",
                                            !.player = p]]
  /\ UNCHANGED storeVars

\* deleteConfirm: the guard against an active game ...
ConfirmDelete(r, p) ==
  /\ At(r, "idle")
  /\ p \in usedPlayers
  /\ ~IsPlayerInUnfinishedGame(p)
  /\ req' = [req EXCEPT ![r] = [Idle EXCEPT !.pc = "delete_player",
                                            !.player = p]]
  /\ UNCHANGED storeVars

\* ... and the transaction that removes the player and every reference.
DeletePlayer(r) ==
  /\ At(r, "delete_player")
  /\ HardDeletePlayer(req[r].player)
  /\ Return(r)

PlayersNext ==
  \E r \in Slot :
    \/ \E p \in PlayerId : ConfirmDelete(r, p)
    \/ DeletePlayer(r)

=============================================================================
