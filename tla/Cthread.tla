------------------------------- MODULE Cthread -------------------------------
(***************************************************************************)
(* The user-level thread library of thread.c, built without PREEMPTION.    *)
(*                                                                         *)
(* One kernel thread runs everything: `cpu' is the thread whose stack is   *)
(* being executed, and it changes only inside the library, where           *)
(* swapcontext or setcontext jumps to the head of the run queue.  Between  *)
(* two such jumps a call is atomic, so a call is one action, or, when it   *)
(* loops (thread_join, thread_mutex_lock), one action per turn of its loop.*)
(* What client threads do between calls is arbitrary: any thread that has  *)
(* the processor and is in no call may make any call.                      *)
(*                                                                         *)
(* Not represented: the value a thread exits with, the stacks, the         *)
(* failure of malloc or getcontext in thread_create (it changes nothing),  *)
(* and the field th_join, the mutex owner and the mutex wait queue, which  *)
(* the library never reads.                                                *)
(***************************************************************************)
EXTENDS Naturals, Sequences, SequencesExt

CONSTANTS Thread,   \* every thread the program may have
          Main,     \* the thread of main(), adopted by init()
          Mutex,    \* the mutexes of the program
          None      \* "in no such call"

ASSUME ThreadAssumption ==
  /\ Main \in Thread
  /\ None \notin Thread
  /\ None \notin Mutex

VARIABLES proc,      \* the process: "running" or "exited"
          cpu,       \* the thread whose stack is executing
          queue,     \* TAILQ of the threads that are not finished, head first
          finished,  \* the threads linked in queue_finished
          freed,     \* the threads whose record and stack are freed
          status,    \* thread_s.status; "ABSENT" before thread_create
          joining,   \* joining[t]: the argument of t's thread_join, or None
          locking,   \* locking[t]: the argument of t's thread_mutex_lock, or None
          flag,      \* thread_mutex_t.flag
          holder     \* holder[m]: threads back from lock(m) and not yet in unlock(m)

vars == <<proc, cpu, queue, finished, freed, status, joining, locking, flag, holder>>

TypeOK ==
  /\ proc \in {"running", "exited"}
  /\ cpu \in Thread
  /\ queue \in Seq(Thread)
  /\ finished \subseteq Thread
  /\ freed \subseteq Thread
  /\ status \in [Thread -> {"ABSENT", "READY", "RUNNING", "FINISH"}]
  /\ joining \in [Thread -> Thread \cup {None}]
  /\ locking \in [Thread -> Mutex \cup {None}]
  /\ flag \in [Mutex -> {0, 1}]
  /\ holder \in [Mutex -> SUBSET Thread]

-----------------------------------------------------------------------------

(* init() has adopted the main thread, thread_mutex_init has cleared the     *)
(* flags.                                                                    *)
Init ==
  /\ proc = "running"
  /\ cpu = Main
  /\ queue = <<Main>>
  /\ finished = {}
  /\ freed = {}
  /\ status = [t \in Thread |-> IF t = Main THEN "RUNNING" ELSE "ABSENT"]
  /\ joining = [t \in Thread |-> None]
  /\ locking = [t \in Thread |-> None]
  /\ flag = [m \in Mutex |-> 0]
  /\ holder = [m \in Mutex |-> {}]

(* t runs its own code, outside the library. *)
InClient(t) ==
  /\ proc = "running"
  /\ cpu = t
  /\ joining[t] = None
  /\ locking[t] = None

(* TAILQ_FIRST(&queue): who the library takes the caller to be. *)
Current == Head(queue)

(* The queue after TAILQ_REMOVE(t); TAILQ_INSERT_HEAD(t). *)
MoveToHead(q, t) ==
  Cons(t, RemoveAt(q, CHOOSE i \in DOMAIN q : q[i] = t))

(* Mutant: the tail is pulled to the head, last come first served. *)
RotateBack(q) == Cons(Last(q), Front(q))

(* ... and after TAILQ_REMOVE(head); TAILQ_INSERT_TAIL(head). *)
Rotate(q) == Append(Tail(q), Head(q))

(* Mutant: the context to jump to is read before the queue changes. *)
SwitchToOldHead(q) ==
  /\ queue' = q
  /\ cpu' = Head(queue)

(* swapcontext: the processor goes to the head of the new queue. *)
SwitchTo(q) ==
  /\ queue' = q
  /\ cpu' = Head(q)

-----------------------------------------------------------------------------

(* thread_create: the new thread is linked at the tail, the caller goes on. *)
Create(t, u) ==
  /\ InClient(t)
  /\ status[u] = "ABSENT"
  /\ status' = [status EXCEPT ![u] = "READY"]
  /\ queue' = Append(queue, u)
  /\ UNCHANGED <<proc, cpu, finished, freed, joining, locking, flag, holder>>

(* What thread_yield does to the queue, the statuses and the processor. With *)
(* nobody else in the queue it returns at once.                              *)
GiveWay ==
  IF Len(queue) > 1
  THEN /\ SwitchTo(Rotate(queue))
       /\ status' = [status EXCEPT ![queue[2]] = "RUNNING", ![Current] = "READY"]
  ELSE UNCHANGED <<cpu, queue, status>>

Yield(t) ==
  /\ InClient(t)
  /\ GiveWay
  /\ UNCHANGED <<proc, finished, freed, joining, locking, flag, holder>>

(* Mutant: the joined thread is sent to the tail instead of the head. *)
DonateLast(u) ==
  /\ SwitchTo(Append(RemoveAt(queue, CHOOSE i \in DOMAIN queue : queue[i] = u), u))

(* Mutant: the joined thread is inserted without being removed first. *)
DonateTwice(u) == SwitchTo(Cons(u, queue))

(* The body of the loop of thread_join: u is pulled to the head of the queue *)
(* and gets the processor; no status changes.                                *)
Donate(u) == SwitchTo(MoveToHead(queue, u))

(* One turn of thread_join(u): return if u is finished, else run u and come  *)
(* back to the test. Every created thread has a handle, t's own included.    *)
Join(t, u) ==
  /\ proc = "running" /\ cpu = t
  /\ joining[t] \in {None, u} /\ locking[t] = None
  /\ status[u] # "ABSENT"
  /\ IF status[u] = "FINISH"
     THEN /\ joining' = [joining EXCEPT ![t] = None]
          /\ UNCHANGED <<cpu, queue>>
     ELSE /\ joining' = [joining EXCEPT ![t] = u]
          /\ Donate(u)
  /\ UNCHANGED <<proc, finished, freed, status, locking, flag, holder>>

(* Mutant: the second loop of free_all is forgotten. *)
FreeQueueOnly(fin) ==
  /\ proc' = "exited"
  /\ queue' = <<>>
  /\ finished' = {}
  /\ freed' = {queue[i] : i \in DOMAIN queue}

(* exit(), and free_all with it: both lists are emptied, all they link freed. *)
FreeAll(fin) ==
  /\ proc' = "exited"
  /\ queue' = <<>>
  /\ finished' = {}
  /\ freed' = {queue[i] : i \in DOMAIN queue} \cup fin

(* setcontext jumps to the next thread.  When there is none it is given the  *)
(* address of the context of no thread: the kernel refuses that address,     *)
(* setcontext returns, and exit(0) follows.                                  *)
ExitSchedule(fin) ==
  IF Len(queue) > 1
  THEN /\ queue' = Tail(queue)
       /\ cpu' = Head(Tail(queue))
       /\ finished' = fin
       /\ UNCHANGED <<proc, freed>>
  ELSE FreeAll(fin) /\ UNCHANGED cpu

(* thread_exit, called by the client or by wrapper() when its function       *)
(* returns.  The test at its start never fires: the caller is in the queue.  *)
Exit(t) ==
  /\ InClient(t)
  /\ status' = [status EXCEPT ![Current] = "FINISH"]
  /\ ExitSchedule(finished \cup {Current})
  /\ UNCHANGED <<joining, locking, flag, holder>>

(* main() returns: the C library calls exit().                               *)
ReturnFromMain ==
  /\ InClient(Main)
  /\ FreeAll(finished)
  /\ UNCHANGED <<cpu, status, joining, locking, flag, holder>>

-----------------------------------------------------------------------------

(* Mutant: "if" for "while", a waiter that was resumed takes the mutex. *)
FoundFreeOnce(t, m) == locking[t] = m \/ flag[m] = 0

(* The test of the compare-and-swap. *)
FoundFree(t, m) == flag[m] = 0

(* Mutant: the waiter spins without giving the processor away. *)
KeepSpinning(t, m) ==
  /\ locking' = [locking EXCEPT ![t] = m]
  /\ UNCHANGED <<cpu, queue, status, flag, holder>>

(* The body of the loop of thread_mutex_lock. *)
WaitForMutex(t, m) ==
  /\ locking' = [locking EXCEPT ![t] = m]
  /\ GiveWay
  /\ UNCHANGED <<flag, holder>>

(* One turn of thread_mutex_lock(m): compare-and-swap of the flag, and if it *)
(* fails a thread_yield.  A client does not lock a mutex it holds.           *)
Lock(t, m) ==
  /\ proc = "running" /\ cpu = t
  /\ locking[t] \in {None, m} /\ joining[t] = None
  /\ t \notin holder[m]
  /\ IF FoundFree(t, m)
     THEN /\ flag' = [flag EXCEPT ![m] = 1]
          /\ holder' = [holder EXCEPT ![m] = @ \cup {t}]
          /\ locking' = [locking EXCEPT ![t] = None]
          /\ UNCHANGED <<cpu, queue, status>>
     ELSE WaitForMutex(t, m)
  /\ UNCHANGED <<proc, finished, freed, joining>>

(* thread_mutex_unlock clears the flag whoever calls it; a client unlocks    *)
(* only what it holds (as every test does): the library records no owner.    *)
Unlock(t, m) ==
  /\ InClient(t)
  /\ t \in holder[m]
  /\ flag' = [flag EXCEPT ![m] = 0]
  /\ holder' = [holder EXCEPT ![m] = @ \ {t}]
  /\ UNCHANGED <<proc, cpu, queue, finished, freed, status, joining, locking>>

-----------------------------------------------------------------------------

Next ==
  \/ \E t \in Thread : Yield(t) \/ Exit(t)
  \/ \E t, u \in Thread : Create(t, u) \/ Join(t, u)
  \/ \E t \in Thread, m \in Mutex : Lock(t, m) \/ Unlock(t, m)
  \/ ReturnFromMain

Spec == Init /\ [][Next]_vars

(* The loops inside the library go on turning while their thread has the     *)
(* processor, and client code ends: a thread that gets the processor in its  *)
(* own code again and again eventually leaves it for good.                   *)
Fairness ==
  /\ WF_vars(\E t, u \in Thread : joining[t] = u /\ Join(t, u))
  /\ WF_vars(\E t \in Thread, m \in Mutex : locking[t] = m /\ Lock(t, m))
  /\ \A t \in Thread : SF_vars(Exit(t) \/ (t = Main /\ ReturnFromMain))

FairSpec == Spec /\ Fairness

-----------------------------------------------------------------------------

Live == {t \in Thread : status[t] \in {"READY", "RUNNING"}}

(* thread_self() answers the thread that asks: the executing stack is that   *)
(* of the head of the run queue, which is never empty. (thread.c:154)        *)
CpuIsHead == proc = "running" => queue # <<>> /\ cpu = Current

(* The two lists share out the created threads: the run queue links every    *)
(* unfinished thread, exactly once, and queue_finished the others, so that   *)
(* TAILQ_REMOVE always finds its element and free_all frees each thread      *)
(* once. (thread.c:107-128, 214, 233)                                        *)
QueuesPartitionThreads ==
  proc = "running" =>
    /\ \A i, j \in DOMAIN queue : queue[i] = queue[j] => i = j
    /\ {queue[i] : i \in DOMAIN queue} = Live
    /\ finished = {t \in Thread : status[t] = "FINISH"}

(* Nothing leaks: when the process ends, by main's return or by the exit of  *)
(* the last thread, free_all has found every thread ever created, wherever   *)
(* the joins, yields and exits left it. (thread.c:107-128)                   *)
NothingLeaked ==
  freed = IF proc = "running" THEN {} ELSE {t \in Thread : status[t] # "ABSENT"}

(* At most one thread is between thread_mutex_lock and thread_mutex_unlock,  *)
(* and the flag says whether there is one. (thread.c:257, 278)               *)
MutualExclusion ==
  \A m \in Mutex :
    /\ \A t, u \in holder[m] : t = u
    /\ flag[m] = 1 <=> holder[m] # {}

Before(t, u) ==
  \E i, j \in DOMAIN queue : i < j /\ queue[i] = t /\ queue[j] = u

(* Scheduling is first come, first served: a thread overtakes another only   *)
(* when that other one gives the processor away, or because the thread that  *)
(* has the processor joins the overtaker. (02-switch.c:7, thread.c:182, 215) *)
NoOvertaking ==
  [][\A t, u \in Thread :
       Before(t, u) /\ Before(u, t)' => t = cpu \/ joining'[cpu] = u]_vars

-----------------------------------------------------------------------------

(* Some unfinished threads wait for each other in a circle. *)
JoinCycle ==
  \E S \in SUBSET Thread : S # {} /\ \A t \in S : joining[t] \in S

NoJoiner == \A t \in Thread : joining[t] = None
NoLockWaiter == \A t \in Thread : locking[t] = None
NoOrphanLock == \A m \in Mutex : holder[m] \cap finished = {}

(* A join returns, when joins do not form a circle and nobody waits for a    *)
(* mutex: although a joiner keeps pulling its target to the head of the      *)
(* queue, nobody else starves for ever. (thread.c:209-217)                   *)
JoinReturns ==
  <>[](~JoinCycle /\ NoLockWaiter) =>
    \A t \in Thread :
      joining[t] # None ~> joining[t] = None \/ proc # "running"

(* A lock is obtained, when no finished thread took its mutex with it and    *)
(* nobody joins: the waiters turn with the holder. (thread.c:257-259)        *)
LockObtained ==
  <>[](NoJoiner /\ NoOrphanLock) =>
    \A t \in Thread :
      locking[t] # None ~> locking[t] = None \/ proc # "running"

(* The process does not end on a stack that free_all has freed: the test     *)
(* 12-join-main.c:8, whose last thread to exit is not main, wants            *)
(* "valgrind doit etre content".                                             *)
OwnStackKept == cpu \in freed => cpu = Main
===============================================================================
