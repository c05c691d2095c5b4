------------------------------- MODULE Paging -------------------------------
(***************************************************************************)
(* The three screens that list players by pages: the player management     *)
(* list, the Hall of Fame and the picker of known players.  A page number  *)
(* travels in a button, which never expires, and the list is read again at *)
(* every tap, so any page that was ever offered can be asked of a list of  *)
(* any other length.  `screen' is the latest rendering; slice bounds out   *)
(* of range are a panic of the handler.                                    *)
(***************************************************************************)
EXTENDS Integers

CONSTANTS PerPage,    \* perPage, knownPerPage
          MaxPlayers  \* bound: rows of players

ASSUME PagingAssumption == PerPage \in Nat \ {0} /\ MaxPlayers \in Nat

VARIABLES players,  \* how many players there are
          offered,  \* page numbers in buttons, by list
          screen

vars == <<players, offered, screen>>

List == {"list", "hall", "known"}

\* Slip: whole pages only.
WholePages(n) == IF n < PerPage THEN 1 ELSE n \div PerPage

TotalPages(n) == IF n = 0 THEN 1 ELSE (n + PerPage - 1) \div PerPage

\* Slip: page > totalPages.
ClampOffByOne(page, n) ==
  IF page < 0 THEN 0 ELSE IF page > TotalPages(n) THEN TotalPages(n) - 1 ELSE page

Clamp(page, n) ==
  IF page < 0 THEN 0
  ELSE IF page > TotalPages(n) - 1 THEN TotalPages(n) - 1 ELSE page

End(page, n) ==
  IF page * PerPage + PerPage > n THEN n ELSE page * PerPage + PerPage

\* The entries first + 1 .. last of n, with Prev and Next.
Shown(asked, n) ==
  LET page == Clamp(asked, n)
  IN  [page  |-> page,
       of    |-> n,
       first |-> page * PerPage,
       last  |-> End(page, n),
       prev  |-> page > 0,
       next  |-> page + 1 < TotalPages(n)]

Turns(s) == {p \in {s.page - 1} : s.prev} \cup {p \in {s.page + 1} : s.next}

\* The menu and the first tap ask for page 0.
Init ==
  /\ players \in 0 .. MaxPlayers
  /\ offered = [l \in List |-> {0}]
  /\ screen = Shown(0, players)

Offer(l, pages) ==
  /\ offered' = [offered EXCEPT ![l] = @ \cup pages]
  /\ UNCHANGED players

\* listScreen: the rename and delete buttons carry the page as well.
RenderList(page) ==
  /\ screen' = Shown(page, players)
  /\ Offer("list", Turns(screen') \cup {screen'.page})

HallOfFame(page) ==
  /\ screen' = Shown(page, players)
  /\ Offer("hall", Turns(screen'))

\* Those who are not in the roster; without any there is no picker.
RenderKnown(page) ==
  \E available \in 1 .. players :
    /\ screen' = Shown(page, available)
    /\ Offer("known", Turns(screen') \cup {screen'.page})

\* Players come and go between two taps.
Change ==
  /\ players' \in {players - 1, players + 1} \cap (0 .. MaxPlayers)
  /\ UNCHANGED <<offered, screen>>

Next ==
  \/ \E page \in offered["list"] : RenderList(page)
  \/ \E page \in offered["hall"] : HallOfFame(page)
  \/ \E page \in offered["known"] : RenderKnown(page)
  \/ Change

Spec == Init /\ [][Next]_vars

-----------------------------------------------------------------------------
(* Properties *)

\* The slice of a page lies within the list, however old the button and
\* however short the list has become, and shows somebody while there is
\* anybody ("(clamped) page", listScreen, hallOfFameScreen, renderKnown).
PageFits ==
  /\ 0 <= screen.first /\ screen.first <= screen.last
  /\ screen.last <= screen.of
  /\ screen.of > 0 => screen.first < screen.last

\* Prev and Next reach everybody: each is offered exactly when there is
\* somebody before or after, and the page it leads to ends or begins where
\* this one begins or ends.
PagesTile ==
  /\ screen.prev <=> screen.first > 0
  /\ screen.next <=> screen.last < screen.of
  /\ screen.prev => Shown(screen.page - 1, screen.of).last = screen.first
  /\ screen.next => Shown(screen.page + 1, screen.of).first = screen.last

=============================================================================
