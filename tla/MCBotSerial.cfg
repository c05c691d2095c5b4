SPECIFICATION Spec
CONSTANTS
  p1 = p1  p2 = p2  p3 = p3  g1 = g1  g2 = g2  s1 = s1  s2 = s2
  PlayerId = {p1, p2, p3}
  InitPlayers = {p1, p2}
  GameId = {g1, g2}
  Slot = {s1}
  Points = {1, 2}
  WinThreshold = 2
  MaxEntries = 3
  NoPlayer = NoPlayer
  NoGame = NoGame
SYMMETRY Symmetry1
INVARIANTS
  TypeOK
  OneUnfinishedGame
  StatsCountOnce
PROPERTIES
  WinnersAreTopScorers
  DiscardOnlyBelowThreshold
  EveryParticipantRated
  NoEloUpdateLost
  PlayersStayInGame
  ScoresOnlyWhileUnfinished
