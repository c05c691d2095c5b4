SPECIFICATION Spec
CONSTANTS
  p1 = p1  p2 = p2  p3 = p3  g1 = g1  g2 = g2  s1 = s1  s2 = s2
  PlayerId = {p1, p2}
  InitPlayers = {p1, p2}
  GameId = {g1, g2}
  Slot = {s1, s2}
  Points = {2}
  WinThreshold = 2
  MaxEntries = 2
  NoPlayer = NoPlayer
  NoGame = NoGame
SYMMETRY Symmetry2
PROPERTY DiscardOnlyBelowThreshold
