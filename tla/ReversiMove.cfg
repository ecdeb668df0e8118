SPECIFICATION Spec
CONSTANTS
  MaxMoves <- MCMaxMoves
  Heuristics = {"basic"}
  StartDepth = 2
  LastDepth = 5
  Inf = 1000
  None = None
INVARIANTS MoveIsBest
CHECK_DEADLOCK FALSE
