------------------------------ MODULE MCStartup ------------------------------
(***************************************************************************)
(* Instances of Startup for TLC.                                           *)
(***************************************************************************)
EXTENDS Startup, TLC

CONSTANTS p1, p2, c1, c2

AnyVersion == 0 .. SqlxMaxVersion
WholeVersions == {0, SqlxMaxVersion}
Sound == {FALSE}
Broken == {TRUE}
Either == BOOLEAN
Anywhere == PC \ {"down"}
NotWhileSeeding == PC \ {"down", "seed"}
Nowhere == {}

=============================================================================
