------------------------------- MODULE Ledger -------------------------------
(***************************************************************************)
(* What the bot promises about its games, without a word on how: a game is *)
(* opened, and ends once, either closed with its result or dropped without *)
(* a trace.  The result names its winners and everybody it rates, all of   *)
(* them people of that moment, and is written in one stroke; after that a  *)
(* person only leaves it by leaving the book.  Bot implements this, with   *)
(* any number of requests in flight.                                       *)
(***************************************************************************)

CONSTANTS Person, Game

VARIABLES people,  \* who is in the book
          book,    \* each game: absent, unfinished, finished or discarded
          result,  \* the winners of each game
          sheet    \* pairs <<game, person>>: who was rated in which game

ledgerVars == <<people, book, result, sheet>>

\* A book with people and no game.
Init ==
  /\ people \subseteq Person
  /\ book = [g \in Game |-> "absent"]
  /\ result = [g \in Game |-> {}]
  /\ sheet = {}

Join(p) ==
  /\ p \notin people
  /\ people' = people \cup {p}
  /\ UNCHANGED <<book, result, sheet>>

\* Whoever leaves takes his wins and his ratings with him.
Leave(p) ==
  /\ people' = people \ {p}
  /\ result' = [g \in Game |-> result[g] \ {p}]
  /\ sheet' = {row \in sheet : row[2] # p}
  /\ UNCHANGED book

Open(g) ==
  /\ book[g] = "absent"
  /\ book' = [book EXCEPT ![g] = "unfinished"]
  /\ UNCHANGED <<people, result, sheet>>

Drop(g) ==
  /\ book[g] = "unfinished"
  /\ book' = [book EXCEPT ![g] = "discarded"]
  /\ UNCHANGED <<people, result, sheet>>

Close(g, wins, rated) ==
  /\ book[g] = "unfinished"
  /\ wins # {} /\ wins \subseteq rated /\ rated \subseteq people
  /\ book' = [book EXCEPT ![g] = "finished"]
  /\ result' = [result EXCEPT ![g] = wins]
  /\ sheet' = sheet \cup {<<g, p>> : p \in rated}
  /\ UNCHANGED people

Next ==
  \/ \E p \in Person : Join(p) \/ Leave(p)
  \/ \E g \in Game : \/ Open(g) \/ Drop(g)
                     \/ \E rated \in SUBSET people :
                          \E wins \in SUBSET rated : Close(g, wins, rated)

Spec == Init /\ [][Next]_ledgerVars

=============================================================================
