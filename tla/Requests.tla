------------------------------ MODULE Requests ------------------------------
(***************************************************************************)
(* The requests in flight.  net/http runs every click, dialog submission   *)
(* and slash command in a goroutine of its own, and no screen keeps state  *)
(* between two requests: what a handler knows is what it read so far.  A   *)
(* slot of `req' is one goroutine, `pc' the next database call it makes,   *)
(* the other fields its local variables.                                   *)
(*                                                                         *)
(* Which buttons exist is not part of the state.  A button's signed        *)
(* context never expires (mm/sign.go verifies actions with no maximum      *)
(* age), a screen that renders one only reads, and any user action that    *)
(* renders it could have happened at any moment since its object exists:   *)
(* so a button can be tapped whenever the id it carries has been in use,   *)
(* any number of times, also long after the object is gone.                *)
(***************************************************************************)
EXTENDS Store

CONSTANTS Slot,    \* requests the server can have in flight
          NoGame

ASSUME RequestAssumption == NoGame \notin GameId

VARIABLE req

vars == <<storeVars, req>>

PC == {"idle",
       "score_member", "score_insert",
       "end_scores", "end_discard", "end_finish", "end_remember",
       "start_create", "start_add", "start_remember",
       "delete_player"}

Request ==
  [pc     : PC,
   game   : GameId \cup {NoGame},
   player : PlayerId \cup {NoPlayer},
   who    : SUBSET PlayerId,         \* players read, or the roster
   todo   : SUBSET PlayerId,         \* roster players not yet linked
   wins   : SUBSET PlayerId,         \* winnerIDs
   before : [PlayerId -> Rating]]    \* ratings as they were read

Idle == [pc     |-> "idle",
         game   |-> NoGame,
         player |-> NoPlayer,
         who    |-> {},
         todo   |-> {},
         wins   |-> {},
         before |-> [p \in PlayerId |-> <<>>]]

\* The steps of a handler that has its game, or its player, in a local.
NamesGame == PC \ {"idle", "start_create", "delete_player"}

NamesPlayer == {"score_member", "score_insert", "delete_player"}

RequestTypeOK ==
  /\ req \in [Slot -> Request]
  /\ \A r \in Slot :
       /\ req[r].pc \in NamesGame => req[r].game \in GameId
       /\ req[r].pc \in NamesPlayer => req[r].player \in PlayerId

RequestInit == req = [r \in Slot |-> Idle]

At(r, pc) == req[r].pc = pc

Goto(r, pc) == req' = [req EXCEPT ![r].pc = pc]

\* The handler returns; its goroutine ends.
Return(r) == req' = [req EXCEPT ![r] = Idle]

\* A handler stops between two calls: the 15 s of withLimits are over, a call
\* to Mattermost or to SQLite fails, the server is shut down or dies.
Fail(r) == /\ ~At(r, "idle")
           /\ Return(r)
           /\ UNCHANGED storeVars

=============================================================================
