SPECIFICATION Spec
CONSTANTS
  p1 = p1  p2 = p2  c1 = c1  c2 = c2
  PlayerId = {p1}
  Chat = {c1, c2}
  Blank = Blank  Owner = Owner  NoRow = NoRow
  MaxGameId = 2
  LegacyVersions <- WholeVersions
  LegacyDangling <- Sound
  CrashAt <- Anywhere
  MaxCrashes = 1
PROPERTY EventuallyServes
