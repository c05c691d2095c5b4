---------------------------- MODULE PagingProofs ----------------------------
(***************************************************************************)
(* The page arithmetic is right for every page size, every number of       *)
(* players and every page a button may carry.                              *)
(***************************************************************************)
EXTENDS Paging, TLAPS

USE PagingAssumption

\* The steps of a multiplication that the rest is argued from.
LEMMA NextMultiple ==
  ASSUME NEW k \in Int
  PROVE  /\ k * PerPage \in Int
         /\ (k + 1) * PerPage = k * PerPage + PerPage
         /\ (k - 1) * PerPage = k * PerPage - PerPage
BY Z3

\* Larger pages start later.
LEMMA MultiplesGrow ==
  ASSUME NEW j \in Int, NEW k \in Int, j <= k
  PROVE  j * PerPage <= k * PerPage
BY Z3

\* What integer division by the page size rounds to.
LEMMA DivisionBounds ==
  ASSUME NEW a \in Nat
  PROVE  /\ a \div PerPage \in Nat
         /\ (a \div PerPage) * PerPage <= a
         /\ a < (a \div PerPage) * PerPage + PerPage
BY Z3
-----------------------------------------------------------------------------
\* The last page begins before the end of the list and does not end before it.
LEMMA TotalPagesBounds ==
  ASSUME NEW n \in Nat
  PROVE  /\ TotalPages(n) \in Nat \ {0}
         /\ n > 0 => (TotalPages(n) - 1) * PerPage < n
         /\ n <= TotalPages(n) * PerPage
<1>1. CASE n = 0
  BY <1>1 DEF TotalPages
<1>2. CASE n > 0
  <2> DEFINE q == (n + PerPage - 1) \div PerPage
  <2>1. /\ q \in Nat
        /\ q * PerPage \in Int
        /\ q * PerPage <= n + PerPage - 1
        /\ n + PerPage - 1 < q * PerPage + PerPage
        /\ (q - 1) * PerPage = q * PerPage - PerPage
    <3>1. n + PerPage - 1 \in Nat
      BY <1>2
    <3> QED
      BY <3>1, DivisionBounds, NextMultiple
  <2>2. q # 0
    BY <1>2, <2>1
  <2>3. TotalPages(n) = q
    BY <1>2 DEF TotalPages
  <2> HIDE DEF q
  <2> QED
    BY <2>1, <2>2, <2>3
<1> QED
  BY <1>1, <1>2

\* The clamped page exists, and begins before the end of the list.
LEMMA ClampedPage ==
  ASSUME NEW p \in Int, NEW n \in Nat
  PROVE  /\ Clamp(p, n) \in 0 .. TotalPages(n) - 1
         /\ n = 0 => Clamp(p, n) = 0
         /\ n > 0 => Clamp(p, n) * PerPage < n
<1>1. Clamp(p, n) \in 0 .. TotalPages(n) - 1
  BY TotalPagesBounds DEF Clamp
<1>2. Clamp(p, n) * PerPage <= (TotalPages(n) - 1) * PerPage
  BY <1>1, TotalPagesBounds, MultiplesGrow
<1>3. /\ Clamp(p, n) * PerPage \in Int
      /\ (TotalPages(n) - 1) * PerPage \in Int
  BY <1>1, TotalPagesBounds, NextMultiple
<1>4. n = 0 => Clamp(p, n) = 0
  BY <1>1 DEF TotalPages
<1> QED
  BY <1>1, <1>2, <1>3, <1>4, TotalPagesBounds

\* A page that exists is shown as asked.
LEMMA ClampKeepsPages ==
  ASSUME NEW n \in Nat, NEW p \in 0 .. TotalPages(n) - 1
  PROVE  Clamp(p, n) = p
BY TotalPagesBounds DEF Clamp

-----------------------------------------------------------------------------
\* The slice of any page that is asked of any list lies within the list.
LEMMA ShownFits ==
  ASSUME NEW p \in Int, NEW n \in Nat, screen = Shown(p, n)
  PROVE  PageFits
<1> DEFINE page == Clamp(p, n)
<1>1. /\ page \in Nat
      /\ n = 0 => page = 0
      /\ n > 0 => page * PerPage < n
  BY ClampedPage, TotalPagesBounds
<1>2. /\ page * PerPage \in Int
      /\ 0 * PerPage <= page * PerPage
  BY <1>1, NextMultiple, MultiplesGrow
<1>3. /\ screen.first = page * PerPage
      /\ screen.of = n
      /\ screen.last = IF page * PerPage + PerPage > n THEN n ELSE page * PerPage + PerPage
  BY DEF Shown, End
<1> HIDE DEF page
<1> QED
  BY <1>1, <1>2, <1>3 DEF PageFits

\* Neighbouring pages of one list meet.
LEMMA ShownTiles ==
  ASSUME NEW p \in Int, NEW n \in Nat, screen = Shown(p, n)
  PROVE  PagesTile
<1> DEFINE page == Clamp(p, n)
           t == TotalPages(n)
<1>1. /\ t \in Nat \ {0}
      /\ page \in 0 .. t - 1
      /\ n = 0 => page = 0
      /\ n > 0 => page * PerPage < n
      /\ n <= t * PerPage
  BY ClampedPage, TotalPagesBounds
<1>2. /\ page * PerPage \in Int
      /\ t * PerPage \in Int
      /\ (page + 1) * PerPage = page * PerPage + PerPage
      /\ (page - 1) * PerPage = page * PerPage - PerPage
      /\ (t - 1) * PerPage \in Int
  BY <1>1, NextMultiple
<1>3. /\ screen.page = page
      /\ screen.of = n
      /\ screen.first = page * PerPage
      /\ screen.last = IF page * PerPage + PerPage > n THEN n ELSE page * PerPage + PerPage
      /\ screen.prev <=> page > 0
      /\ screen.next <=> page + 1 < t
  BY DEF Shown, End
<1>4. page > 0 => /\ 0 < page * PerPage
                  /\ Shown(page - 1, n).last = page * PerPage
  <2> SUFFICES ASSUME page > 0
               PROVE  /\ 0 < page * PerPage
                      /\ Shown(page - 1, n).last = page * PerPage
    OBVIOUS
  <2>1. 1 * PerPage <= page * PerPage
    BY <1>1, MultiplesGrow
  <2>2. Clamp(page - 1, n) = page - 1
    BY <1>1, ClampKeepsPages
  <2>3. n > 0
    BY <1>1
  <2>4. End(page - 1, n) = page * PerPage
    BY <1>1, <1>2, <2>3 DEF End
  <2> QED
    BY <1>2, <2>1, <2>2, <2>4 DEF Shown
<1>5. page + 1 < t => /\ page * PerPage + PerPage < n
                      /\ Shown(page + 1, n).first = page * PerPage + PerPage
  <2> SUFFICES ASSUME page + 1 < t
               PROVE  /\ page * PerPage + PerPage < n
                      /\ Shown(page + 1, n).first = page * PerPage + PerPage
    OBVIOUS
  <2>1. Clamp(page + 1, n) = page + 1
    BY <1>1, ClampKeepsPages
  <2>2. n > 0
    BY <1>1 DEF TotalPages
  <2>3. (page + 1) * PerPage < n
    <3>1. (page + 1) * PerPage <= (t - 1) * PerPage
      BY <1>1, MultiplesGrow
    <3> QED
      BY <1>2, <2>2, <3>1, TotalPagesBounds
  <2> QED
    BY <1>2, <2>1, <2>3 DEF Shown
<1>6. page + 1 >= t => n <= page * PerPage + PerPage
  BY <1>1, <1>2
<1>7. page = 0 => page * PerPage = 0
  BY <1>1
<1> HIDE DEF page, t
<1>8. screen.prev <=> screen.first > 0
  BY <1>1, <1>2, <1>3, <1>4, <1>7
<1>9. screen.next <=> screen.last < screen.of
  BY <1>1, <1>2, <1>3, <1>5, <1>6
<1>10. screen.prev => Shown(screen.page - 1, screen.of).last = screen.first
  BY <1>3, <1>4
<1>11. screen.next => Shown(screen.page + 1, screen.of).first = screen.last
  BY <1>1, <1>2, <1>3, <1>5
<1> QED
  BY <1>8, <1>9, <1>10, <1>11 DEF PagesTile

-----------------------------------------------------------------------------
\* What is shown was asked of a list; what is offered are numbers.
Paged ==
  /\ players \in Nat
  /\ offered \in [List -> SUBSET Int]
  /\ \E p \in Int, n \in Nat : screen = Shown(p, n)

\* The page of a rendering, and those its buttons lead to, are numbers.
LEMMA ShownPages ==
  ASSUME NEW p \in Int, NEW n \in Nat
  PROVE  Turns(Shown(p, n)) \cup {Shown(p, n).page} \subseteq Int
BY ClampedPage, TotalPagesBounds DEF Turns, Shown

\* The inductive invariant.
LEMMA PagedInductive == Spec => []Paged
<1>1. Init => Paged
  BY DEF Init, Paged
<1>2. Paged /\ [Next]_vars => Paged'
  <2> SUFFICES ASSUME Paged, [Next]_vars
               PROVE  Paged'
    OBVIOUS
  <2> USE DEF Paged
  <2>1. CASE UNCHANGED vars
    BY <2>1 DEF vars
  <2>2. ASSUME NEW page \in offered["list"], RenderList(page)
        PROVE  Paged'
    <3>1. page \in Int
      BY DEF List
    <3> QED
      BY <2>2, <3>1, ShownPages DEF RenderList, Offer, List
  <2>3. ASSUME NEW page \in offered["hall"], HallOfFame(page)
        PROVE  Paged'
    <3>1. page \in Int
      BY DEF List
    <3> QED
      BY <2>3, <3>1, ShownPages DEF HallOfFame, Offer, List
  <2>4. ASSUME NEW page \in offered["known"], RenderKnown(page)
        PROVE  Paged'
    <3>1. page \in Int
      BY DEF List
    <3>2. PICK available \in 1 .. players :
            /\ screen' = Shown(page, available)
            /\ Offer("known", Turns(screen') \cup {screen'.page})
      BY <2>4 DEF RenderKnown
    <3> QED
      BY <3>1, <3>2, ShownPages DEF Offer, List
  <2>5. CASE Change
    BY <2>5 DEF Change
  <2> QED
    BY <2>1, <2>2, <2>3, <2>4, <2>5 DEF Next
<1> QED
  BY <1>1, <1>2, PTL DEF Spec

\* However old the button and however short the list has become, the slice
\* that a page shows lies within the list (players.go, stats.go, newgame.go).
THEOREM PagesAlwaysFit == Spec => []PageFits
<1>1. Paged => PageFits
  BY ShownFits DEF Paged
<1> QED
  BY <1>1, PagedInductive, PTL

\* Prev and Next lead to the neighbouring players, leaving nobody out.
THEOREM PagesAlwaysTile == Spec => []PagesTile
<1>1. Paged => PagesTile
  BY ShownTiles DEF Paged
<1> QED
  BY <1>1, PagedInductive, PTL

=============================================================================
