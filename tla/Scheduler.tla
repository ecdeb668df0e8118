------------------------------ MODULE Scheduler -------------------------------
(***************************************************************************)
(* scheduler.c with the client that uses it, the "sched" version of        *)
(* mandel.c: the main thread creates one task per tile, waits for all of   *)
(* them, begins the next round and at the end stops the workers.           *)
(*                                                                         *)
(* All shared data but one read of `fin' is accessed under a mutex: a      *)
(* critical section is one action, pthread_cond_wait ends it and starts    *)
(* another.  `fin' is read without the mutex right after the section that  *)
(* may have set it to -1, and only its worker sets it to -1: the read is   *)
(* made part of that section.                                              *)
(*                                                                         *)
(* The binding of workers to cores (hwloc) is left out.                    *)
(***************************************************************************)
EXTENDS Integers, FiniteSets

CONSTANTS NbWorkers, WorkQueue,  \* nbWorkers, WORK_QUEUE
          Rounds, Tiles,         \* rounds: bound; GRAIN * GRAIN
          Any,                   \* cpu == -1
          Cpus                   \* the values of cpu that the client uses

Worker == 0 .. NbWorkers - 1
Slot == 0 .. WorkQueue - 1

ASSUME SchedulerAssumption ==
  /\ NbWorkers \in Nat \ {0}
  /\ WorkQueue \in Nat \ {0}
  /\ Rounds \in Nat \ {0}
  /\ Tiles \in Nat \ {0}
  /\ Any \notin Worker
  /\ Cpus \subseteq Worker \cup {Any}

Task == (1..Rounds) \X (1..Tiles)
NoTask == <<0, 0>>    \* {NULL, NULL}

VARIABLES
  main,     \* where the main thread is
  round,    \* its round
  tile,     \* the next tile to create a task for
  target,   \* the worker add_task puts that task on
  i,        \* the index of the loops of scheduler_finalize
  cyclic, nbTask,
  d, f, todo, fin, tasks,  \* fields of struct worker
  at,       \* where each worker is
  local,    \* the variable `todo' of worker_main
  ran       \* how many times each task has been started

client == <<round, tile, target, i>>
struct == <<d, f, todo, fin, tasks>>
vars == <<main, client, cyclic, nbTask, struct, at, local, ran>>

TypeOK ==
  /\ main \in {"create", "enqueue", "test", "asleep", "zoom", "stop", "join",
               "ended", "aborted"}
  /\ round \in 1..Rounds
  /\ tile \in 1..Tiles + 1
  /\ target \in Worker /\ cyclic \in Worker
  /\ i \in 0..NbWorkers
  /\ nbTask \in 0..Tiles
  /\ d \in [Worker -> Slot] /\ f \in [Worker -> Slot]
  /\ todo \in [Worker -> 0..WorkQueue]
  /\ fin \in [Worker -> {0, 1, -1}]
  /\ tasks \in [Worker -> [Slot -> Task \cup {NoTask}]]
  /\ at \in [Worker -> {"ready", "asleep", "woken", "running", "stopped"}]
  /\ local \in [Worker -> Task \cup {NoTask}]
  /\ ran \in [Task -> Nat]

(* scheduler_init has returned, the first round begins. *)
Init ==
  /\ main = "create" /\ round = 1 /\ tile = 1 /\ target = 0 /\ i = 0
  /\ cyclic = 0 /\ nbTask = 0
  /\ d = [w \in Worker |-> 0] /\ f = [w \in Worker |-> 0]
  /\ todo = [w \in Worker |-> 0] /\ fin = [w \in Worker |-> 0]
  /\ tasks = [w \in Worker |-> [s \in Slot |-> NoTask]]
  /\ at = [w \in Worker |-> "ready"]
  /\ local = [w \in Worker |-> NoTask]
  /\ ran = [x \in Task |-> 0]

-----------------------------------------------------------------------------

(* pthread_cond_signal on the condition of worker w; Wake is what `at'       *)
(* becomes.                                                                  *)
Wake(w) == IF at[w] = "asleep" THEN [at EXCEPT ![w] = "woken"] ELSE at

NextCyclic == (cyclic + 1) % NbWorkers

(* scheduler_create_task and one_more_task. *)
CreateTask ==
  /\ main = "create" /\ tile <= Tiles
  /\ \E cpu \in Cpus :
       IF cpu = Any
       THEN target' = cyclic /\ cyclic' = NextCyclic
       ELSE target' = cpu /\ UNCHANGED cyclic
  /\ nbTask' = nbTask + 1
  /\ main' = "enqueue"
  /\ UNCHANGED <<round, tile, i, struct, at, local, ran>>

(* Mutant: the idle worker is not signalled. *)
EnqueueSilently(w) ==
  /\ tasks' = [tasks EXCEPT ![w][f[w]] = <<round, tile>>]
  /\ f' = [f EXCEPT ![w] = (@ + 1) % WorkQueue]
  /\ todo' = [todo EXCEPT ![w] = @ + 1]
  /\ UNCHANGED <<d, fin, at>>

(* Mutant: f is not wrapped where the array ends, but one slot before it. *)
EnqueueShort(w) ==
  /\ tasks' = [tasks EXCEPT ![w][f[w]] = <<round, tile>>]
  /\ f' = [f EXCEPT ![w] = (@ + 1) % (WorkQueue - 1)]
  /\ todo' = [todo EXCEPT ![w] = @ + 1]
  /\ at' = Wake(w)
  /\ UNCHANGED <<d, fin>>

(* The critical section of add_task. *)
Enqueue(w) ==
  /\ tasks' = [tasks EXCEPT ![w][f[w]] = <<round, tile>>]
  /\ f' = [f EXCEPT ![w] = (@ + 1) % WorkQueue]
  /\ todo' = [todo EXCEPT ![w] = @ + 1]
  /\ at' = Wake(w)
  /\ UNCHANGED <<d, fin>>

(* add_task after one_more_task; assert (todo < WORK_QUEUE) aborts the       *)
(* process.                                                                  *)
AddTask ==
  /\ main = "enqueue"
  /\ Enqueue(target)
  /\ tile' = tile + 1
  /\ main' = IF todo'[target] < WorkQueue THEN "create" ELSE "aborted"
  /\ UNCHANGED <<round, target, i, cyclic, nbTask, local, ran>>

(* Mutant: "if" for "while", the main thread that wakes up does not look at   *)
(* nbTask again.                                                              *)
TaskWaitOnce ==
  /\ main = "test" \/ (main = "create" /\ tile > Tiles)
  /\ main' = IF main = "create" /\ nbTask > 0 THEN "asleep" ELSE "zoom"
  /\ UNCHANGED <<client, cyclic, nbTask, struct, at, local, ran>>

(* scheduler_task_wait: the test of its loop, which the main thread comes to *)
(* when it has created the tasks of the round and each time it wakes up.     *)
TaskWait ==
  /\ main = "test" \/ (main = "create" /\ tile > Tiles)
  /\ main' = IF nbTask > 0 THEN "asleep" ELSE "zoom"
  /\ UNCHANGED <<client, cyclic, nbTask, struct, at, local, ran>>

(* pthread_cond_wait may return without a signal. *)
SpuriousWakeup ==
  /\ main = "asleep"
  /\ main' = "test"
  /\ UNCHANGED <<client, cyclic, nbTask, struct, at, local, ran>>

(* zoom() has been called: next iteration, or scheduler_finalize. *)
EndRound ==
  /\ main = "zoom"
  /\ IF round < Rounds
     THEN main' = "create" /\ round' = round + 1 /\ tile' = 1
     ELSE main' = "stop" /\ UNCHANGED <<round, tile>>
  /\ UNCHANGED <<target, i, cyclic, nbTask, struct, at, local, ran>>

(* no_more_task (i) *)
NoMoreTask ==
  /\ main = "stop"
  /\ IF i < NbWorkers
     THEN /\ fin' = [fin EXCEPT ![i] = 1]
          /\ at' = Wake(i)
          /\ i' = i + 1
          /\ UNCHANGED main
     ELSE main' = "join" /\ i' = 0 /\ UNCHANGED <<fin, at>>
  /\ UNCHANGED <<round, tile, target, cyclic, nbTask, d, f, todo, tasks, local, ran>>

(* Mutant: the first worker is forgotten. *)
JoinedButFirst == i < NbWorkers /\ (i = 0 \/ at[i] = "stopped")

(* pthread_join (workers[i].tid) returns. *)
Joined == i < NbWorkers /\ at[i] = "stopped"

(* The loop of joins, then free (workers). *)
Join ==
  /\ main = "join"
  /\ \/ Joined /\ i' = i + 1 /\ UNCHANGED main
     \/ i = NbWorkers /\ main' = "ended" /\ UNCHANGED i
  /\ UNCHANGED <<round, tile, target, cyclic, nbTask, struct, at, local, ran>>

-----------------------------------------------------------------------------

Empty(w) == d[w] = f[w]

(* Mutant: the newest task first. *)
TakeNewest(w) ==
  LET last == (f[w] + WorkQueue - 1) % WorkQueue IN
  /\ local' = [local EXCEPT ![w] = tasks[w][last]]
  /\ f' = [f EXCEPT ![w] = last]
  /\ todo' = [todo EXCEPT ![w] = @ - 1]
  /\ UNCHANGED <<d, fin>>

Take(w) ==
  /\ local' = [local EXCEPT ![w] = tasks[w][d[w]]]
  /\ d' = [d EXCEPT ![w] = (@ + 1) % WorkQueue]
  /\ todo' = [todo EXCEPT ![w] = @ - 1]
  /\ UNCHANGED <<f, fin>>

(* pthread_cond_wait when there is nothing to do. *)
Sleep(w) ==
  /\ at[w] = "ready" /\ Empty(w) /\ fin[w] = 0
  /\ at' = [at EXCEPT ![w] = "asleep"]
  /\ UNCHANGED <<main, client, cyclic, nbTask, struct, local, ran>>

(* The rest of the critical section of worker_main.  After                   *)
(* pthread_cond_wait the condition is not tested again: woken for nothing,   *)
(* the worker would execute its previous task again.                         *)
Serve(w) ==
  /\ at[w] = "woken" \/ (at[w] = "ready" /\ ~(Empty(w) /\ fin[w] = 0))
  /\ IF ~Empty(w)
     THEN Take(w)
     ELSE /\ fin' = [fin EXCEPT ![w] = IF @ = 1 THEN -1 ELSE @]
          /\ UNCHANGED <<d, f, todo, local>>
  /\ IF fin'[w] = -1
     THEN at' = [at EXCEPT ![w] = "stopped"] /\ UNCHANGED ran
     ELSE /\ at' = [at EXCEPT ![w] = "running"]
          /\ ran' = [ran EXCEPT ![local'[w]] = @ + 1]
  /\ UNCHANGED <<main, client, cyclic, nbTask, tasks>>

(* Mutant: the counter is tested before it is decremented.                   *)
OneLessTooLate ==
  /\ nbTask' = nbTask - 1
  /\ main' = IF nbTask = 0 /\ main = "asleep" THEN "test" ELSE main

OneLessTask ==
  /\ nbTask' = nbTask - 1
  /\ main' = IF nbTask' = 0 /\ main = "asleep" THEN "test" ELSE main

(* The task's function has returned. *)
FinishTask(w) ==
  /\ at[w] = "running"
  /\ OneLessTask
  /\ at' = [at EXCEPT ![w] = "ready"]
  /\ UNCHANGED <<client, cyclic, struct, local, ran>>

-----------------------------------------------------------------------------

MainStep ==
  \/ CreateTask \/ AddTask \/ TaskWait \/ EndRound \/ NoMoreTask \/ Join

WorkerStep(w) == main # "aborted" /\ (Sleep(w) \/ Serve(w) \/ FinishTask(w))

Next == MainStep \/ SpuriousWakeup \/ \E w \in Worker : WorkerStep(w)

Spec == Init /\ [][Next]_vars

(* The operating system runs every thread that is not waiting, and the       *)
(* tasks' functions return.                                                  *)
Fairness == WF_vars(MainStep) /\ \A w \in Worker : WF_vars(WorkerStep(w))

FairSpec == Spec /\ Fairness

-----------------------------------------------------------------------------

Busy == {w \in Worker : at[w] = "running"}

(* The places taken in the rings. *)
Waiting == {q \in Worker \X (1..WorkQueue) : q[2] <= todo[q[1]]}

(* nbTask, on which the main thread waits, counts the tasks that are being   *)
(* handed over, waiting in a ring or being executed, although it is updated  *)
(* apart from the rings: it never misses one and never counts a finished     *)
(* one. (scheduler.c:49-63, 67)                                              *)
NbTaskCounts ==
  /\ TypeOK
  /\ main # "aborted" =>
       /\ \A w \in Worker : todo[w] = (f[w] - d[w]) % WorkQueue
       /\ nbTask = Cardinality(Waiting) + Cardinality(Busy)
                   + (IF main = "enqueue" THEN 1 ELSE 0)

(* Nobody sleeps through what it waits for: a sleeping worker has neither a  *)
(* task nor an order to stop, and while the main thread sleeps there is a    *)
(* task left whose end will signal it. (scheduler.c:44-45, 60, 73, 81, 122)  *)
NoLostWakeup ==
  /\ \A w \in Worker : at[w] = "asleep" => Empty(w) /\ fin[w] = 0
  /\ main = "asleep" => nbTask > 0

(* No worker touches its structure after free (workers), and none stopped    *)
(* with tasks in its ring. (scheduler.c:129-138, 201-204)                    *)
FreedWhenStopped ==
  /\ main = "ended" => \A w \in Worker : at[w] = "stopped"
  /\ \A w \in Worker : at[w] = "stopped" => Empty(w)

CreatedBefore(x, y) == x[1] < y[1] \/ (x[1] = y[1] /\ x[2] < y[2])

(* A worker executes its tasks in the order in which they were created.      *)
(* (scheduler.c:69-70, 126-127)                                              *)
WorkerIsFIFO ==
  [][\A w \in Worker :
       local'[w] # local[w] => CreatedBefore(local[w], local'[w])]_vars

(* The program ends: every wait of the main thread and of the workers is     *)
(* answered, every worker stops. (scheduler.c:41-47, 194-204)                *)
Terminates == <>(main = "ended")

(* The ring of a worker does not overflow (assert, scheduler.c:72).          *)
NoOverflow == main # "aborted"

(* The scheduler is a pool of tasks with rounds: a task is created when      *)
(* add_task has put it into a ring.                                          *)
Pool == INSTANCE TaskPool WITH
  created <- {x \in Task : x[1] < round \/ (x[1] = round /\ x[2] < tile)},
  begun   <- {x \in Task : ran[x] > 0},
  done    <- {x \in Task : ran[x] > 0} \ {local[w] : w \in Busy}

(* Every task is executed exactly once, and no round begins before the tasks *)
(* of the previous one have ended. (mandel.c:642-658)                        *)
ImplementsPool == Pool!Spec
===============================================================================
