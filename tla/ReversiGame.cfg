SPECIFICATION FairSpec
CONSTANTS
  MaxMoves <- MCMaxMoves
  Heuristics = {"basic", "victory", "forcing_basic"}
  StartDepth = 2
  LastDepth = 5
  Inf = 1000
  None = None
INVARIANTS BoardsAgree CountersAreRight ValueIsMinimax
PROPERTIES GameEnds
CHECK_DEADLOCK FALSE
