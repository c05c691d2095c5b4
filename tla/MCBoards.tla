------------------------------ MODULE MCBoards ------------------------------
(***************************************************************************)
(* The instance of Boards for TLC.  Posts may be permuted.                 *)
(***************************************************************************)
EXTENDS Boards, TLC

CONSTANTS m1, m2, m3, m4, s1

Symmetry == Permutations(PostId)

=============================================================================
