SPECIFICATION Spec
CONSTANTS
  PerPage = 2
  MaxPlayers = 7
INVARIANTS PageFits PagesTile
