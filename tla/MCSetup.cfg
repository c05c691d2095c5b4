\* Three ids and three names: rows deleted softly before the first step, a name
\* in use, given to the next player and freed again, and rosters that hold a
\* deleted player beside two others.
CONSTANTS
  PlayerId = {p1, p2, p3}
  Name = {ann, bob, cyd}
  Post = {s1}
  Client = {c1, c2}
  NoPlayer = NoPlayer
  NoName = NoName
  NoPost = NoPost
SYMMETRY Symmetry
SPECIFICATION Spec
INVARIANTS
  TypeOK
  RostersAreSets
  RostersHoldUsedPlayers
PROPERTIES
  OneTapOnePlayer
  IdsKeepTheirPlayer
