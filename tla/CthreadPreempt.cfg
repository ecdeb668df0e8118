SPECIFICATION Spec
CONSTANTS
  Main = main
  Thread = {main, t1, t2}
  Spent = Spent
  MaxNesting = 2
INVARIANT ContextIsOwn
CHECK_DEADLOCK FALSE
