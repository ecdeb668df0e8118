SPECIFICATION FairSpec
CONSTANTS
  Thread = {t1, t2, t3, t4}
  Main = t1
  iterations = 3
  PhaseModulus = 2
PROPERTIES ImplementsPhases Returns
