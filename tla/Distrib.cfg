SPECIFICATION FairSpec
CONSTANTS
  Thread = {t1, t2, t3, t4}
  Main = t1
  total_elements = 3
  iterations = 3
  PhaseModulus = 2
INVARIANTS CountIsArrived ElementsAreShared
PROPERTIES ImplementsPhases Returns
