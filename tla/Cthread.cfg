SPECIFICATION FairSpec
CONSTANTS
  Main = main
  Thread = {main, t1, t2, t3}
  Mutex = {m}
  None = None
INVARIANTS CpuIsHead QueuesPartitionThreads NothingLeaked
  MutualExclusion
PROPERTIES NoOvertaking JoinReturns LockObtained
CHECK_DEADLOCK FALSE
