SPECIFICATION FairSpec
CONSTANTS
  Client = {c1, c2}
  View = {v1}
  Fish = {f1}
  MaxObservers = 2
  Sents = {{"hello", "command"}, {"getFishesContinously"}}
  None = None
PROPERTIES RequestsAreHandled ObserversAreServed SilentClientsLeave
CHECK_DEADLOCK FALSE
