SPECIFICATION Spec
CONSTANTS
  Client = {c1, c2}
  View = {v1, v2}
  Fish = {f1, f2}
  MaxObservers = 1
  Sents = {{"hello", "ping", "getFishesContinously", "log", "command"},
           {"hello", "getFishes", "addFish", "delFish", "startFish"}}
  None = None
SYMMETRY Symmetry
INVARIANTS AquariumIsSound DescriptorsAreRight 
CHECK_DEADLOCK FALSE
