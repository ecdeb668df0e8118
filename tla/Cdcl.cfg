SPECIFICATION FairSpec
CONSTANTS
  NbVars = 4
  Formulas <- MCFormulas
  Budget <- MCBudget
  Unknown = Unknown
  Unsat = Unsat
INVARIANTS TrailIsSound WatchesAreSound LearntsFollow HeapIsSound
PROPERTIES ImplementsDecider 
CHECK_DEADLOCK FALSE
