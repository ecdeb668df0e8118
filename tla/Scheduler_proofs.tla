--------------------------- MODULE Scheduler_proofs ---------------------------
(***************************************************************************)
(* For any number of workers, tasks and rounds and rings of any size: the  *)
(* counter of the tasks is right, no wakeup is lost, the workers are       *)
(* stopped before their memory is freed, the scheduler is a TaskPool, each *)
(* worker executes its tasks in the order of their creation, and what the  *)
(* main thread waits for is under way.                                     *)
(***************************************************************************)
EXTENDS Scheduler, FiniteSetTheorems, TLAPS

(* The slots from a on, up to b, of a ring, and how many they are.           *)
Between(a, b) == {s \in Slot : IF a <= b THEN a <= s /\ s < b ELSE a <= s \/ s < b}
Number(a, b) == IF a <= b THEN b - a ELSE b - a + WorkQueue

(* The slots of worker w that hold a task it has not taken.                  *)
Taken(w) == Between(d[w], f[w])

(* The tasks that add_task has put into a ring.                              *)
Created == {x \in Task : x[1] < round \/ (x[1] = round /\ x[2] < tile)}

Enqueued == IF main = "enqueue" THEN 1 ELSE 0

Counts ==
  /\ \A w \in Worker : todo[w] = Number(d[w], f[w])
  /\ nbTask = Cardinality(Waiting) + Cardinality(Busy) + Enqueued
  /\ nbTask <= tile - 1 + Enqueued

Control ==
  /\ main \in {"create", "enqueue", "test", "asleep", "zoom"} => \A w \in Worker : fin[w] = 0
  /\ main \in {"zoom", "stop", "join", "ended"} => nbTask = 0
  /\ main \in {"test", "asleep", "zoom", "stop", "join", "ended"} => tile = Tiles + 1
  /\ main = "enqueue" => tile <= Tiles
  /\ main = "stop" => \A w \in Worker : i <= w => fin[w] = 0
  /\ main = "join" => \A w \in Worker : w < i => at[w] = "stopped"

Workers ==
  \A w \in Worker : /\ at[w] = "stopped" <=> fin[w] = -1
                    /\ at[w] = "woken" => ~Empty(w) \/ fin[w] = 1

Rings ==
  /\ \A w \in Worker : \A s \in Taken(w) : tasks[w][s] \in Created /\ ran[tasks[w][s]] = 0
  /\ \A w, v \in Worker : \A s \in Taken(w), t \in Taken(v) :
       tasks[w][s] = tasks[v][t] => w = v /\ s = t
  /\ \A x \in Created : ran[x] = 0 => \E w \in Worker : \E s \in Taken(w) : tasks[w][s] = x

Runs ==
  /\ \A x \in Task : ran[x] > 0 => x \in Created
  /\ \A w \in Busy : local[w] \in Task /\ ran[local[w]] > 0
  /\ \A w, v \in Busy : local[w] = local[v] => w = v

IInv ==
  /\ TypeOK /\ NoLostWakeup /\ FreedWhenStopped
  /\ main # "aborted" => Counts /\ Control /\ Workers /\ Rings /\ Runs

-----------------------------------------------------------------------------
(* One slot further.                                                         *)
LEMMA NextSlot ==
  ASSUME NEW x \in Slot
  PROVE  (x + 1) % WorkQueue = (IF x = WorkQueue - 1 THEN 0 ELSE x + 1)
         /\ (x + 1) % WorkQueue \in Slot
  <1>1. WorkQueue \in Nat \ {0} /\ x \in 0 .. WorkQueue - 1
    BY SchedulerAssumption DEF Slot
  <1>2. CASE x = WorkQueue - 1
    BY <1>1, <1>2 DEF Slot
  <1>3. CASE x # WorkQueue - 1
    BY <1>1, <1>3 DEF Slot
  <1> QED BY <1>2, <1>3

(* The number of tasks in a ring, as the difference of its indices.          *)
LEMMA NumberIsDifference ==
  ASSUME NEW a \in Slot, NEW b \in Slot
  PROVE  /\ (b - a) % WorkQueue = Number(a, b)
         /\ Number(a, b) \in 0 .. WorkQueue - 1
         /\ Number(a, b) = 0 <=> a = b
  <1>1. WorkQueue \in Nat \ {0} /\ a \in 0 .. WorkQueue - 1 /\ b \in 0 .. WorkQueue - 1
    BY SchedulerAssumption DEF Slot
  <1>2. CASE a <= b
    BY <1>1, <1>2 DEF Number
  <1>3. CASE b < a
    <2> DEFINE z == b - a
    <2>1. z < 0 /\ z + WorkQueue > 0 /\ z \in Int
      BY <1>1, <1>3
    <2>2. Number(a, b) = z + WorkQueue /\ a # b
      BY <1>1, <1>3 DEF Number
    <2> HIDE DEF z
    <2>3. z % WorkQueue = z + WorkQueue
      BY <1>1, <2>1
    <2>4. z + WorkQueue \in 0 .. WorkQueue - 1 /\ z + WorkQueue # 0
      BY <1>1, <2>1
    <2> QED BY <2>2, <2>3, <2>4 DEF z
  <1> QED BY <1>1, <1>2, <1>3

(* A task is added at the end of a ring that has room. (scheduler.c:69-72)   *)
LEMMA RingAdd ==
  ASSUME NEW a \in Slot, NEW b \in Slot, Number(a, b) + 1 < WorkQueue,
         NEW c, c = (b + 1) % WorkQueue
  PROVE  /\ Number(a, c) = Number(a, b) + 1
         /\ Between(a, c) = Between(a, b) \cup {b} /\ b \notin Between(a, b)
  <1>1. WorkQueue \in Nat \ {0} /\ a \in 0 .. WorkQueue - 1 /\ b \in 0 .. WorkQueue - 1
    BY SchedulerAssumption DEF Slot
  <1>2. c = IF b = WorkQueue - 1 THEN 0 ELSE b + 1
    BY NextSlot
  <1>3. Number(a, c) = Number(a, b) + 1
    BY <1>1, <1>2 DEF Number
  <1>4. \A s \in Slot : s \in Between(a, c) <=> s \in Between(a, b) \/ s = b
    BY <1>1, <1>2 DEF Number, Between, Slot
  <1>5. b \notin Between(a, b)
    BY <1>1 DEF Between
  <1> QED BY <1>3, <1>4, <1>5 DEF Between

(* A task is taken at the beginning of a ring that is not empty.             *)
(* (scheduler.c:126-128)                                                     *)
LEMMA RingTake ==
  ASSUME NEW a \in Slot, NEW b \in Slot, a # b, NEW c, c = (a + 1) % WorkQueue
  PROVE  /\ Number(c, b) = Number(a, b) - 1
         /\ Between(c, b) = Between(a, b) \ {a} /\ a \in Between(a, b)
  <1>1. WorkQueue \in Nat \ {0} /\ a \in 0 .. WorkQueue - 1 /\ b \in 0 .. WorkQueue - 1
    BY SchedulerAssumption DEF Slot
  <1>2. c = IF a = WorkQueue - 1 THEN 0 ELSE a + 1
    BY NextSlot
  <1>3. Number(c, b) = Number(a, b) - 1
    BY <1>1, <1>2 DEF Number
  <1>4. \A s \in Slot : s \in Between(c, b) <=> s \in Between(a, b) /\ s # a
    BY <1>1, <1>2 DEF Between, Slot
  <1>5. a \in Between(a, b)
    BY <1>1 DEF Between
  <1> QED BY <1>3, <1>4, <1>5 DEF Between

(* Nothing lies in an empty ring.                                            *)
LEMMA RingEmpty ==
  ASSUME NEW a \in Slot
  PROVE  Between(a, a) = {}
  BY SchedulerAssumption DEF Between, Slot

-----------------------------------------------------------------------------
(* The workers and the places in the rings are finitely many.                *)
LEMMA Finite ==
  ASSUME TypeOK
  PROVE  /\ IsFiniteSet(Waiting) /\ Cardinality(Waiting) \in Nat
         /\ IsFiniteSet(Busy) /\ Cardinality(Busy) \in Nat
  <1>1. IsFiniteSet(Worker) /\ IsFiniteSet(1 .. WorkQueue)
    BY SchedulerAssumption, FS_Interval DEF Worker
  <1>2. IsFiniteSet(Worker \X (1 .. WorkQueue))
    BY <1>1, FS_Product
  <1>3. IsFiniteSet(Waiting) /\ IsFiniteSet(Busy)
    BY <1>1, <1>2, FS_Subset DEF Waiting, Busy
  <1> QED BY <1>3, FS_CardinalityType

(* One more task in a ring.                                                  *)
LEMMA OneMoreWaits ==
  ASSUME TypeOK, NEW w \in Worker, todo[w] < WorkQueue, todo' = [todo EXCEPT ![w] = @ + 1]
  PROVE  Cardinality(Waiting') = Cardinality(Waiting) + 1
  <1> DEFINE q == <<w, todo[w] + 1>>
  <1>1. todo \in [Worker -> 0 .. WorkQueue] /\ WorkQueue \in Nat
    BY SchedulerAssumption DEF TypeOK
  <1>2. Waiting' = Waiting \cup {q} /\ q \notin Waiting
    BY <1>1 DEF Waiting
  <1> QED BY <1>2, Finite, FS_AddElement

(* One task less in a ring.                                                  *)
LEMMA OneLessWaits ==
  ASSUME TypeOK, NEW w \in Worker, todo[w] > 0, todo' = [todo EXCEPT ![w] = @ - 1]
  PROVE  Cardinality(Waiting') = Cardinality(Waiting) - 1
  <1> DEFINE q == <<w, todo[w]>>
  <1>1. todo \in [Worker -> 0 .. WorkQueue] /\ WorkQueue \in Nat
    BY SchedulerAssumption DEF TypeOK
  <1>2. Waiting' = Waiting \ {q} /\ q \in Waiting
    BY <1>1 DEF Waiting
  <1> QED BY <1>2, Finite, FS_RemoveElement

(* A worker begins a task.                                                   *)
LEMMA OneMoreIsBusy ==
  ASSUME TypeOK, NEW w \in Worker, at[w] # "running", at' = [at EXCEPT ![w] = "running"]
  PROVE  Busy' = Busy \cup {w} /\ w \notin Busy /\ Cardinality(Busy') = Cardinality(Busy) + 1
  <1>1. Busy' = Busy \cup {w} /\ w \notin Busy
    BY DEF Busy, TypeOK
  <1> QED BY <1>1, Finite, FS_AddElement

(* A worker ends its task.                                                   *)
LEMMA OneLessIsBusy ==
  ASSUME TypeOK, NEW w \in Busy, NEW place \in {"ready", "stopped"}, at' = [at EXCEPT ![w] = place]
  PROVE  Busy' = Busy \ {w} /\ Cardinality(Busy') = Cardinality(Busy) - 1
  <1>1. Busy' = Busy \ {w}
    BY DEF Busy, TypeOK
  <1> QED BY <1>1, Finite, FS_RemoveElement

-----------------------------------------------------------------------------
(* scheduler_init leaves the invariant.                                      *)
LEMMA InitInv == Init => IInv
  <1> SUFFICES ASSUME Init PROVE IInv
    OBVIOUS
  <1> USE SchedulerAssumption DEF Init
  <1>1. /\ TypeOK
    BY DEF TypeOK, Worker, Slot, Task
  <1>2. NoLostWakeup /\ FreedWhenStopped /\ Control /\ Workers
    BY DEF NoLostWakeup, FreedWhenStopped, Control, Workers
  <1>3. Counts
    <2>1. Waiting = {} /\ Busy = {}
      BY DEF Waiting, Busy
    <2>2. Cardinality({}) = 0
      BY FS_EmptySet
    <2>3. \A w \in Worker : Number(d[w], f[w]) = 0
      BY DEF Number
    <2> QED BY <2>1, <2>2, <2>3 DEF Counts, Enqueued
  <1>4. \A w \in Worker : Taken(w) = {}
    BY RingEmpty DEF Taken, Slot
  <1>5. Created = {}
    BY DEF Created, Task
  <1>6. Rings
    BY <1>4, <1>5 DEF Rings
  <1>7. Runs
    BY DEF Runs, Busy
  <1> QED BY <1>1, <1>2, <1>3, <1>6, <1>7 DEF IInv

(* A task is counted before it is in its ring. (scheduler.c:49-53)           *)
LEMMA CreateTaskInv ==
  ASSUME IInv, CreateTask
  PROVE  IInv'
  <1>1. /\ main = "create" /\ tile <= Tiles /\ main' = "enqueue" /\ nbTask' = nbTask + 1
        /\ UNCHANGED <<round, tile, i, struct, at, local, ran>>
        /\ TypeOK /\ NoLostWakeup /\ FreedWhenStopped /\ Counts /\ Control /\ Workers /\ Rings /\ Runs
    BY DEF CreateTask, IInv
  <1>2. target' \in Worker /\ cyclic' \in Worker
    <2>1. NextCyclic \in Worker
      BY <1>1, SchedulerAssumption DEF NextCyclic, Worker, TypeOK
    <2> QED BY <1>1, <2>1, SchedulerAssumption DEF CreateTask, TypeOK
  <1>3. Counts'
    <2>1. Waiting' = Waiting /\ Busy' = Busy
      BY <1>1 DEF Waiting, Busy, struct
    <2> QED BY <1>1, <2>1, Finite DEF Counts, Enqueued, struct, TypeOK
  <1>4. TypeOK'
    <2>1. nbTask' \in 0 .. Tiles
      BY <1>1, SchedulerAssumption DEF Counts, TypeOK, Enqueued
    <2> QED BY <1>1, <1>2, <2>1 DEF TypeOK, struct
  <1>5. NoLostWakeup' /\ FreedWhenStopped' /\ Control' /\ Workers'
    BY <1>1 DEF NoLostWakeup, FreedWhenStopped, Control, Workers, Empty, struct
  <1>6. Rings' /\ Runs'
    BY <1>1 DEF Rings, Runs, Taken, Created, Busy, struct
  <1> QED BY <1>3, <1>4, <1>5, <1>6 DEF IInv

(* The task is put into the ring, and its worker woken up, unless the        *)
(* assertion stops the process. (scheduler.c:65-76)                          *)
LEMMA AddTaskInv ==
  ASSUME IInv, AddTask, NEW w, w = target, NEW x, x = <<round, tile>>
  PROVE  IInv'
  <1>1. /\ main = "enqueue" /\ tile' = tile + 1
        /\ tasks' = [tasks EXCEPT ![w][f[w]] = x]
        /\ f' = [f EXCEPT ![w] = (@ + 1) % WorkQueue]
        /\ todo' = [todo EXCEPT ![w] = @ + 1]
        /\ at' = Wake(w)
        /\ main' = IF todo'[w] < WorkQueue THEN "create" ELSE "aborted"
        /\ UNCHANGED <<d, fin, round, target, i, cyclic, nbTask, local, ran>>
        /\ TypeOK /\ NoLostWakeup /\ FreedWhenStopped /\ Counts /\ Control /\ Workers /\ Rings /\ Runs
    BY DEF AddTask, Enqueue, IInv
  <1>2. /\ w \in Worker /\ d[w] \in Slot /\ f[w] \in Slot /\ x \in Task
        /\ WorkQueue \in Nat \ {0} /\ todo[w] = Number(d[w], f[w])
        /\ todo[w] \in 0 .. WorkQueue - 1 /\ todo'[w] = todo[w] + 1
        /\ d \in [Worker -> Slot] /\ f \in [Worker -> Slot]
        /\ tile \in 1 .. Tiles /\ round \in 1 .. Rounds
    <2>1. /\ w \in Worker /\ d[w] \in Slot /\ f[w] \in Slot /\ x \in Task
          /\ tile \in 1 .. Tiles /\ round \in 1 .. Rounds
          /\ d \in [Worker -> Slot] /\ f \in [Worker -> Slot]
      BY <1>1, SchedulerAssumption DEF TypeOK, Control, Task
    <2>2. todo[w] = Number(d[w], f[w])
      BY <1>1, <2>1 DEF Counts
    <2>3. todo[w] \in 0 .. WorkQueue - 1 /\ todo'[w] = todo[w] + 1
      BY <1>1, <2>1, <2>2, NumberIsDifference DEF TypeOK
    <2> QED BY <2>1, <2>2, <2>3, SchedulerAssumption
  <1>3. /\ at' \in [Worker -> {"ready", "asleep", "woken", "running", "stopped"}]
        /\ \A v \in Worker : v # w => at'[v] = at[v]
        /\ at'[w] # "asleep"
        /\ (at'[w] = "woken" \/ at'[w] = at[w])
        /\ Busy' = Busy
    BY <1>1, <1>2 DEF Wake, TypeOK, Busy
  <1>4. TypeOK'
    <2>1. tasks' \in [Worker -> [Slot -> Task \cup {NoTask}]]
      BY <1>1, <1>2 DEF TypeOK
    <2>2. f' \in [Worker -> Slot]
      BY <1>1, <1>2, NextSlot DEF TypeOK
    <2>3. todo' \in [Worker -> 0 .. WorkQueue]
      BY <1>1, <1>2 DEF TypeOK
    <2> QED BY <1>1, <1>2, <1>3, <2>1, <2>2, <2>3, SchedulerAssumption DEF TypeOK
  <1>5. fin[w] = 0 /\ \A v \in Worker : fin[v] = 0 /\ at[v] # "stopped"
    BY <1>1, <1>2 DEF Control, Workers
  <1>6. NoLostWakeup' /\ FreedWhenStopped'
    <2>1. \A v \in Worker : at'[v] # "stopped"
      BY <1>3, <1>5
    <2>2. ASSUME NEW v \in Worker, at'[v] = "asleep" PROVE Empty(v)' /\ fin'[v] = 0
      <3>1. v # w /\ at[v] = "asleep" /\ f'[v] = f[v]
        BY <1>1, <1>2, <1>3, <2>2
      <3> QED BY <1>1, <3>1 DEF NoLostWakeup, Empty
    <2>3. main' # "asleep" /\ main' # "ended"
      BY <1>1
    <2> QED BY <2>1, <2>2, <2>3 DEF NoLostWakeup, FreedWhenStopped
  <1>7. SUFFICES ASSUME main' # "aborted" PROVE (Counts /\ Control /\ Workers /\ Rings /\ Runs)'
    BY <1>4, <1>6 DEF IInv
  <1>8. main' = "create" /\ todo'[w] < WorkQueue
    BY <1>1, <1>7
  <1>9. /\ Number(d[w], f'[w]) = Number(d[w], f[w]) + 1
        /\ Between(d[w], f'[w]) = Between(d[w], f[w]) \cup {f[w]} /\ f[w] \notin Between(d[w], f[w])
        /\ \A v \in Worker : v # w => f'[v] = f[v]
    <2>1. f'[w] = (f[w] + 1) % WorkQueue
      BY <1>1, <1>2
    <2> QED BY <1>1, <1>2, <1>8, <2>1, RingAdd
  <1>10. Counts'
    <2>1. \A v \in Worker : todo'[v] = Number(d'[v], f'[v])
      BY <1>1, <1>2, <1>9 DEF Counts, TypeOK
    <2>2. Cardinality(Waiting') = Cardinality(Waiting) + 1
      <3>1. todo[w] < WorkQueue
        BY <1>2
      <3> QED BY <1>1, <1>2, <3>1, OneMoreWaits
    <2>3. Enqueued = 1 /\ Enqueued' = 0
      BY <1>1, <1>8 DEF Enqueued
    <2>4. nbTask = Cardinality(Waiting) + Cardinality(Busy) + 1 /\ nbTask <= tile - 1 + 1
      BY <1>1, <2>3 DEF Counts
    <2>5. Cardinality(Busy') = Cardinality(Busy) /\ nbTask' = nbTask /\ tile' = tile + 1
      BY <1>1, <1>3
    <2>6. Cardinality(Waiting) \in Nat /\ Cardinality(Busy) \in Nat /\ tile \in Int
      BY <1>1, <1>2, Finite
    <2>7. /\ nbTask' = Cardinality(Waiting') + Cardinality(Busy') + Enqueued'
          /\ nbTask' <= tile' - 1 + Enqueued'
      BY <2>2, <2>3, <2>4, <2>5, <2>6
    <2> QED BY <2>1, <2>7 DEF Counts
  <1>11. Control'
    BY <1>1, <1>5, <1>8 DEF Control
  <1>12. Workers'
    <2>1. d'[w] # f'[w]
      <3>1. Number(d[w], f'[w]) # 0 /\ f'[w] \in Slot
        BY <1>2, <1>4, <1>9, NumberIsDifference DEF TypeOK
      <3> QED BY <1>1, <1>2, <3>1, NumberIsDifference
    <2> QED BY <1>1, <1>3, <1>5, <1>9, <2>1 DEF Workers, Empty
  <1>13. Created' = Created \cup {x} /\ x \notin Created
    BY <1>1, <1>2 DEF Created, Task
  <1>14. ran[x] = 0
    BY <1>1, <1>2, <1>13 DEF Runs, TypeOK
  <1>15. /\ Taken(w)' = Taken(w) \cup {f[w]} /\ f[w] \notin Taken(w)
         /\ \A v \in Worker : v # w => Taken(v)' = Taken(v)
    BY <1>1, <1>9 DEF Taken
  <1>16. /\ tasks'[w][f[w]] = x
         /\ \A v \in Worker : \A s \in Taken(v) : tasks'[v][s] = tasks[v][s] /\ tasks'[v][s] # x
    <2>1. tasks'[w][f[w]] = x
      BY <1>1, <1>2 DEF TypeOK
    <2>2. ASSUME NEW v \in Worker, NEW s \in Taken(v)
          PROVE  tasks'[v][s] = tasks[v][s] /\ tasks'[v][s] # x
      <3>1. v # w \/ s # f[w]
        BY <1>15
      <3>2. s \in Slot
        BY DEF Taken, Between
      <3>3. tasks'[v][s] = tasks[v][s]
        BY <1>1, <1>2, <3>1, <3>2 DEF TypeOK
      <3> QED BY <1>1, <1>13, <3>3 DEF Rings
    <2> QED BY <2>1, <2>2
  <1>17. Rings'
    <2>1. ASSUME NEW v \in Worker, NEW s \in Taken(v)'
          PROVE  tasks'[v][s] \in Created' /\ ran'[tasks'[v][s]] = 0
      <3>1. CASE v = w /\ s = f[w]
        BY <1>1, <1>13, <1>14, <1>16, <3>1
      <3>2. CASE ~(v = w /\ s = f[w])
        <4>1. s \in Taken(v)
          BY <1>15, <3>2
        <4> QED BY <1>1, <1>13, <1>16, <4>1 DEF Rings
      <3> QED BY <3>1, <3>2
    <2>2. ASSUME NEW u \in Worker, NEW v \in Worker, NEW s \in Taken(u)', NEW t \in Taken(v)',
                 tasks'[u][s] = tasks'[v][t]
          PROVE  u = v /\ s = t
      <3>1. /\ s \in Taken(u) \/ (u = w /\ s = f[w])
            /\ t \in Taken(v) \/ (v = w /\ t = f[w])
        BY <1>15
      <3>2. CASE s \in Taken(u) /\ t \in Taken(v)
        <4>1. tasks[u][s] = tasks[v][t]
          BY <1>16, <2>2, <3>2
        <4> QED BY <1>1, <3>2, <4>1 DEF Rings
      <3>3. CASE ~(s \in Taken(u) /\ t \in Taken(v))
        BY <1>16, <2>2, <3>1, <3>3
      <3> QED BY <3>2, <3>3
    <2>3. ASSUME NEW y \in Created', ran'[y] = 0
          PROVE  \E v \in Worker : \E s \in Taken(v)' : tasks'[v][s] = y
      <3>1. CASE y = x
        BY <1>2, <1>15, <1>16, <3>1
      <3>2. CASE y # x
        <4>1. PICK v \in Worker : \E s \in Taken(v) : tasks[v][s] = y
          BY <1>1, <1>13, <2>3, <3>2 DEF Rings
        <4> QED BY <1>15, <1>16, <4>1
      <3> QED BY <3>1, <3>2
    <2> QED BY <2>1, <2>2, <2>3 DEF Rings
  <1>18. Runs'
    BY <1>1, <1>3, <1>13 DEF Runs
  <1> QED BY <1>10, <1>11, <1>12, <1>17, <1>18

(* The steps of the main thread that touch no ring and no counter: the test  *)
(* of scheduler_task_wait, a wakeup, the next round, the orders to stop and  *)
(* the joins. (scheduler.c:41-47, 79-83, 194-204)                            *)
LEMMA MainInv ==
  ASSUME IInv, TaskWait \/ SpuriousWakeup \/ EndRound \/ NoMoreTask \/ Join
  PROVE  IInv'
  <1>1. /\ TypeOK /\ NoLostWakeup /\ FreedWhenStopped
        /\ Counts /\ Control /\ Workers /\ Rings /\ Runs
        /\ UNCHANGED <<cyclic, nbTask, d, f, todo, tasks, local, ran, target>>
        /\ main # "aborted" /\ main # "enqueue" /\ main' # "enqueue" /\ main' # "aborted"
    BY DEF IInv, TaskWait, SpuriousWakeup, EndRound, NoMoreTask, Join, client, struct
  <1>2. CASE TaskWait
    <2>1. /\ tile = Tiles + 1 /\ \A w \in Worker : fin[w] = 0
          /\ UNCHANGED <<client, struct, at>> /\ main' = IF nbTask > 0 THEN "asleep" ELSE "zoom"
      <3>1. main = "test" \/ (main = "create" /\ tile > Tiles)
        BY <1>2 DEF TaskWait
      <3>2. tile = Tiles + 1
        BY <1>1, <3>1, SchedulerAssumption DEF TypeOK, Control
      <3>3. \A w \in Worker : fin[w] = 0
        BY <1>1, <3>1 DEF Control
      <3> QED BY <1>2, <3>2, <3>3 DEF TaskWait
    <2>2. nbTask \in Nat
      BY <1>1 DEF TypeOK
    <2>3. TypeOK'
      BY <1>1, <2>1 DEF TypeOK, client, struct
    <2>4. Counts' /\ Rings' /\ Runs'
      BY <1>1, <2>1 DEF Counts, Rings, Runs, Enqueued, Taken, Created, Busy, Waiting, client, struct
    <2>5. NoLostWakeup' /\ FreedWhenStopped' /\ Control' /\ Workers'
      BY <1>1, <2>1, <2>2 DEF NoLostWakeup, FreedWhenStopped, Control, Workers, Empty, client, struct
    <2> QED BY <2>3, <2>4, <2>5 DEF IInv
  <1>3. CASE SpuriousWakeup
    <2>1. /\ UNCHANGED <<client, struct, at>> /\ main = "asleep" /\ main' = "test"
      BY <1>3 DEF SpuriousWakeup
    <2>2. TypeOK'
      BY <1>1, <2>1 DEF TypeOK, client, struct
    <2>3. Counts' /\ Rings' /\ Runs'
      BY <1>1, <2>1 DEF Counts, Rings, Runs, Enqueued, Taken, Created, Busy, Waiting, client, struct
    <2>4. NoLostWakeup' /\ FreedWhenStopped' /\ Control' /\ Workers'
      BY <1>1, <2>1 DEF NoLostWakeup, FreedWhenStopped, Control, Workers, Empty, client, struct
    <2> QED BY <2>2, <2>3, <2>4 DEF IInv
  <1>4. CASE EndRound
    <2>1. /\ main = "zoom" /\ UNCHANGED <<i, struct, at>> /\ tile = Tiles + 1 /\ nbTask = 0
          /\ \A w \in Worker : fin[w] = 0
      BY <1>1, <1>4 DEF EndRound, Control
    <2>2. \/ main' = "create" /\ round < Rounds /\ round' = round + 1 /\ tile' = 1
          \/ main' = "stop" /\ UNCHANGED <<round, tile>>
      BY <1>4 DEF EndRound
    <2>3. TypeOK'
      BY <1>1, <2>1, <2>2, SchedulerAssumption DEF TypeOK, struct
    <2>4. Created' = Created
      <3>1. round \in Int /\ Tiles \in Nat
        BY <1>1, SchedulerAssumption DEF TypeOK
      <3>2. \A x \in Task : x[1] \in Int /\ x[2] \in 1 .. Tiles
        BY DEF Task
      <3>3. \A x \in Task : (x[1] < round' \/ (x[1] = round' /\ x[2] < tile'))
                              <=> (x[1] < round \/ (x[1] = round /\ x[2] < tile))
        BY <2>1, <2>2, <3>1, <3>2
      <3> QED BY <3>3 DEF Created
    <2>5. Counts'
      <3>1. Waiting' = Waiting /\ Busy' = Busy /\ tile' >= 1
        BY <1>1, <2>1, <2>2, <2>3 DEF Waiting, Busy, TypeOK
      <3> QED BY <1>1, <2>1, <2>3, <3>1 DEF Counts, Enqueued, TypeOK
    <2>6. Rings' /\ Runs'
      BY <1>1, <2>1, <2>4 DEF Rings, Runs, Taken, Busy
    <2>7. NoLostWakeup' /\ FreedWhenStopped' /\ Control' /\ Workers'
      BY <1>1, <2>1, <2>2 DEF NoLostWakeup, FreedWhenStopped, Control, Workers, Empty, struct
    <2> QED BY <2>3, <2>5, <2>6, <2>7 DEF IInv
  <1>5. CASE NoMoreTask
    <2>1. main = "stop" /\ UNCHANGED <<round, tile>> /\ tile = Tiles + 1 /\ nbTask = 0
      BY <1>1, <1>5 DEF NoMoreTask, Control
    <2>2. CASE i < NbWorkers
      <3>1. /\ fin' = [fin EXCEPT ![i] = 1] /\ at' = Wake(i) /\ i' = i + 1 /\ main' = main
            /\ i \in Worker /\ fin[i] = 0
        BY <1>1, <1>5, <2>1, <2>2, SchedulerAssumption DEF NoMoreTask, Worker, Control, TypeOK
      <3>2. /\ at' \in [Worker -> {"ready", "asleep", "woken", "running", "stopped"}]
            /\ \A v \in Worker : v # i => at'[v] = at[v] /\ fin'[v] = fin[v]
            /\ at'[i] # "asleep" /\ (at'[i] = "woken" \/ at'[i] = at[i])
            /\ at[i] # "stopped" /\ fin'[i] = 1 /\ Busy' = Busy
        BY <1>1, <3>1 DEF Wake, TypeOK, Busy, Workers
      <3>3. TypeOK'
        BY <1>1, <2>1, <3>1, <3>2, SchedulerAssumption DEF TypeOK, Worker
      <3>4. Counts' /\ Rings' /\ Runs'
        BY <1>1, <2>1, <3>2 DEF Counts, Rings, Runs, Enqueued, Taken, Created, Waiting
      <3>5. Control'
        <4>1. \A w \in Worker : i + 1 <= w => w # i /\ i <= w
          BY <3>1 DEF Worker
        <4> QED BY <1>1, <2>1, <3>1, <3>2, <4>1 DEF Control
      <3>6. NoLostWakeup' /\ FreedWhenStopped' /\ Workers'
        BY <1>1, <2>1, <3>1, <3>2 DEF NoLostWakeup, FreedWhenStopped, Workers, Empty
      <3> QED BY <3>3, <3>4, <3>5, <3>6 DEF IInv
    <2>3. CASE ~(i < NbWorkers)
      <3>1. main' = "join" /\ i' = 0 /\ UNCHANGED <<fin, at>>
        BY <1>5, <2>3 DEF NoMoreTask
      <3>2. TypeOK'
        BY <1>1, <2>1, <3>1, SchedulerAssumption DEF TypeOK
      <3>3. Counts' /\ Rings' /\ Runs'
        BY <1>1, <2>1, <3>1 DEF Counts, Rings, Runs, Enqueued, Taken, Created, Busy, Waiting
      <3>4. \A w \in Worker : ~(w < 0)
        BY DEF Worker
      <3>5. NoLostWakeup' /\ FreedWhenStopped' /\ Control' /\ Workers'
        BY <1>1, <2>1, <3>1, <3>4 DEF NoLostWakeup, FreedWhenStopped, Control, Workers, Empty
      <3> QED BY <3>2, <3>3, <3>5 DEF IInv
    <2> QED BY <2>2, <2>3
  <1>6. CASE Join
    <2>1. /\ main = "join" /\ UNCHANGED <<round, tile, struct, at>> /\ tile = Tiles + 1 /\ nbTask = 0
          /\ \A w \in Worker : w < i => at[w] = "stopped"
      BY <1>1, <1>6 DEF Join, Control
    <2>2. \/ i < NbWorkers /\ at[i] = "stopped" /\ i' = i + 1 /\ main' = main
          \/ i = NbWorkers /\ main' = "ended" /\ i' = i
      BY <1>6 DEF Join, Joined
    <2>3. TypeOK'
      BY <1>1, <2>1, <2>2, SchedulerAssumption DEF TypeOK, struct
    <2>4. Counts' /\ Rings' /\ Runs'
      BY <1>1, <2>1, <2>2 DEF Counts, Rings, Runs, Enqueued, Taken, Created, Busy, Waiting
    <2>5. /\ main' = "join" => \A w \in Worker : w < i' => at[w] = "stopped"
          /\ main' = "ended" => \A w \in Worker : at[w] = "stopped"
      <3>1. i \in 0 .. NbWorkers
        BY <1>1 DEF TypeOK
      <3>2. \A w \in Worker : w \in Int /\ w < NbWorkers
        BY SchedulerAssumption DEF Worker
      <3>3. \A w \in Worker : w < i + 1 => w < i \/ w = i
        BY <3>1, <3>2
      <3> QED BY <2>1, <2>2, <3>2, <3>3
    <2>6. NoLostWakeup' /\ FreedWhenStopped' /\ Control' /\ Workers'
      BY <1>1, <2>1, <2>2, <2>5 DEF NoLostWakeup, FreedWhenStopped, Control, Workers, Empty, struct
    <2> QED BY <2>3, <2>4, <2>6 DEF IInv
  <1> QED BY <1>2, <1>3, <1>4, <1>5, <1>6

(* A worker sleeps when it has neither a task nor an order to stop.          *)
(* (scheduler.c:121-123)                                                     *)
LEMMA SleepInv ==
  ASSUME IInv, NEW w \in Worker, main # "aborted", Sleep(w)
  PROVE  IInv'
  <1>1. /\ TypeOK /\ NoLostWakeup /\ FreedWhenStopped
        /\ Counts /\ Control /\ Workers /\ Rings /\ Runs
        /\ UNCHANGED <<main, client, cyclic, nbTask, struct, local, ran>>
        /\ at[w] = "ready" /\ Empty(w) /\ fin[w] = 0 /\ at' = [at EXCEPT ![w] = "asleep"]
    BY DEF IInv, Sleep
  <1>2. /\ at' \in [Worker -> {"ready", "asleep", "woken", "running", "stopped"}]
        /\ at'[w] = "asleep" /\ \A v \in Worker : v # w => at'[v] = at[v]
        /\ Busy' = Busy
    BY <1>1 DEF TypeOK, Busy
  <1>3. TypeOK'
    BY <1>1, <1>2 DEF TypeOK, client, struct
  <1>4. Counts' /\ Rings' /\ Runs'
    BY <1>1, <1>2 DEF Counts, Rings, Runs, Enqueued, Taken, Created, Waiting, client, struct
  <1>5. Control'
    BY <1>1, <1>2 DEF Control, Workers, client, struct
  <1>6. NoLostWakeup' /\ FreedWhenStopped' /\ Workers'
    BY <1>1, <1>2 DEF NoLostWakeup, FreedWhenStopped, Workers, Empty, client, struct
  <1> QED BY <1>3, <1>4, <1>5, <1>6 DEF IInv

(* A worker takes the oldest task of its ring, and begins it.                *)
(* (scheduler.c:125-131)                                                     *)
LEMMA TakeInv ==
  ASSUME IInv, NEW w \in Worker, main # "aborted", Serve(w), ~Empty(w)
  PROVE  /\ IInv' /\ Busy' = Busy \cup {w} /\ w \notin Busy
         /\ local'[w] \in Created /\ ran[local'[w]] = 0 /\ ran' = [ran EXCEPT ![local'[w]] = 1]
         /\ \A v \in Worker : v # w => local'[v] = local[v]
  <1>1. /\ TypeOK /\ NoLostWakeup /\ FreedWhenStopped
        /\ Counts /\ Control /\ Workers /\ Rings /\ Runs
        /\ at[w] \in {"woken", "ready"} /\ d[w] # f[w]
        /\ local' = [local EXCEPT ![w] = tasks[w][d[w]]]
        /\ d' = [d EXCEPT ![w] = (@ + 1) % WorkQueue]
        /\ todo' = [todo EXCEPT ![w] = @ - 1]
        /\ UNCHANGED <<f, fin>> /\ UNCHANGED <<main, client, cyclic, nbTask, tasks>>
    BY DEF IInv, Serve, Take, Empty
  <1>2. /\ d[w] \in Slot /\ f[w] \in Slot /\ d'[w] = (d[w] + 1) % WorkQueue /\ d'[w] \in Slot
        /\ d \in [Worker -> Slot] /\ \A v \in Worker : v # w => d'[v] = d[v]
        /\ fin[w] # -1 /\ fin' = fin
    BY <1>1, NextSlot DEF TypeOK, Workers
  <1>3. /\ at' = [at EXCEPT ![w] = "running"]
        /\ ran' = [ran EXCEPT ![local'[w]] = @ + 1]
    BY <1>1, <1>2 DEF Serve
  <1>4. /\ Number(d'[w], f[w]) = Number(d[w], f[w]) - 1
        /\ Between(d'[w], f[w]) = Between(d[w], f[w]) \ {d[w]} /\ d[w] \in Between(d[w], f[w])
    BY <1>1, <1>2, RingTake
  <1>5. /\ Taken(w)' = Taken(w) \ {d[w]} /\ d[w] \in Taken(w)
        /\ \A v \in Worker : v # w => Taken(v)' = Taken(v)
        /\ \A v \in Worker : Taken(v)' \subseteq Taken(v)
    BY <1>1, <1>2, <1>4 DEF Taken
  <1> DEFINE x == tasks[w][d[w]]
  <1>6. x \in Created /\ x \in Task /\ ran[x] = 0 /\ local'[w] = x
    <2>1. local'[w] = x
      BY <1>1 DEF TypeOK
    <2> QED BY <1>1, <1>5, <2>1 DEF Rings, Created
  <1>7. \A v \in Worker : v # w => local'[v] = local[v] /\ at'[v] = at[v]
    BY <1>1, <1>3 DEF TypeOK
  <1> HIDE DEF x
  <1>8. /\ ran' = [ran EXCEPT ![x] = 1] /\ ran'[x] = 1 /\ ran' \in [Task -> Nat]
        /\ \A y \in Task : y # x => ran'[y] = ran[y]
    <2>1. ran \in [Task -> Nat] /\ ran' = [ran EXCEPT ![x] = ran[x] + 1]
      BY <1>1, <1>3, <1>6 DEF TypeOK
    <2> QED BY <1>6, <2>1
  <1>9. Busy' = Busy \cup {w} /\ w \notin Busy /\ Cardinality(Busy') = Cardinality(Busy) + 1
    BY <1>1, <1>3, OneMoreIsBusy
  <1>10. todo[w] > 0 /\ todo[w] = Number(d[w], f[w]) /\ todo[w] \in 0 .. WorkQueue
    BY <1>1, <1>2, NumberIsDifference DEF Counts, TypeOK
  <1>11. TypeOK'
    <2>1. d' \in [Worker -> Slot]
      BY <1>1, <1>2
    <2>2. todo' \in [Worker -> 0 .. WorkQueue]
      BY <1>1, <1>10, SchedulerAssumption DEF TypeOK
    <2>3. local' \in [Worker -> Task \cup {NoTask}]
      BY <1>1, <1>6 DEF TypeOK, x
    <2>4. at' \in [Worker -> {"ready", "asleep", "woken", "running", "stopped"}]
      BY <1>1, <1>3 DEF TypeOK
    <2> QED BY <1>1, <1>8, <2>1, <2>2, <2>3, <2>4 DEF TypeOK, client
  <1>12. Counts'
    <2>1. \A v \in Worker : todo'[v] = Number(d'[v], f'[v])
      BY <1>1, <1>2, <1>4, <1>10 DEF Counts, TypeOK
    <2>2. Cardinality(Waiting') = Cardinality(Waiting) - 1
      BY <1>1, <1>10, OneLessWaits
    <2>3. Enqueued' = Enqueued /\ nbTask' = nbTask /\ tile' = tile
      BY <1>1 DEF Enqueued, client
    <2>4. Cardinality(Waiting) \in Nat /\ Cardinality(Busy) \in Nat /\ Enqueued \in Int
      BY <1>1, Finite DEF Enqueued
    <2>5. nbTask' = Cardinality(Waiting') + Cardinality(Busy') + Enqueued'
      BY <1>1, <1>9, <2>2, <2>3, <2>4 DEF Counts
    <2> QED BY <1>1, <2>1, <2>3, <2>5 DEF Counts
  <1>13. Control' /\ Workers' /\ NoLostWakeup' /\ FreedWhenStopped'
    <2>1. at'[w] = "running" /\ at[w] # "stopped"
      BY <1>1, <1>3 DEF TypeOK
    <2>2. Control'
      BY <1>1, <1>2, <1>7, <2>1 DEF Control, client
    <2>3. Workers'
      BY <1>1, <1>2, <1>7, <2>1 DEF Workers, Empty
    <2>4. NoLostWakeup' /\ FreedWhenStopped'
      BY <1>1, <1>2, <1>7, <2>1 DEF NoLostWakeup, FreedWhenStopped, Empty
    <2> QED BY <2>2, <2>3, <2>4
  <1>14. Created' = Created /\ Created \subseteq Task
    BY <1>1 DEF Created, client
  <1>15. Rings'
    <2>1. ASSUME NEW v \in Worker, NEW s \in Taken(v)'
          PROVE  s \in Taken(v) /\ tasks'[v][s] = tasks[v][s] /\ tasks[v][s] # x
      <3>1. s \in Taken(v) /\ ~(v = w /\ s = d[w])
        BY <1>5
      <3> QED BY <1>1, <1>5, <3>1 DEF Rings, x
    <2>2. ASSUME NEW v \in Worker, NEW s \in Taken(v)'
          PROVE  tasks'[v][s] \in Created' /\ ran'[tasks'[v][s]] = 0
      BY <1>1, <1>8, <1>14, <2>1 DEF Rings
    <2>3. ASSUME NEW u \in Worker, NEW v \in Worker, NEW s \in Taken(u)', NEW t \in Taken(v)',
                 tasks'[u][s] = tasks'[v][t]
          PROVE  u = v /\ s = t
      BY <1>1, <2>1, <2>3 DEF Rings
    <2>4. ASSUME NEW y \in Created', ran'[y] = 0
          PROVE  \E v \in Worker : \E s \in Taken(v)' : tasks'[v][s] = y
      <3>1. y # x /\ y \in Created /\ ran[y] = 0
        BY <1>8, <1>14, <2>4
      <3>2. PICK v \in Worker : \E s \in Taken(v) : tasks[v][s] = y
        BY <1>1, <3>1 DEF Rings
      <3>3. PICK s \in Taken(v) : tasks[v][s] = y
        BY <3>2
      <3>4. ~(v = w /\ s = d[w])
        BY <3>1, <3>3 DEF x
      <3>5. s \in Taken(v)'
        BY <1>5, <3>4
      <3> QED BY <1>1, <3>3, <3>5
    <2> QED BY <2>2, <2>3, <2>4 DEF Rings
  <1>16. Runs'
    <2>1. \A y \in Task : ran'[y] > 0 => y \in Created'
      BY <1>1, <1>6, <1>8, <1>14 DEF Runs
    <2>2. ASSUME NEW v \in Busy' PROVE local'[v] \in Task /\ ran'[local'[v]] > 0
      <3>1. CASE v = w
        BY <1>6, <1>8, <3>1
      <3>2. CASE v # w
        <4>1. v \in Busy /\ v \in Worker /\ local'[v] = local[v]
          BY <1>7, <1>9, <3>2 DEF Busy
        <4> QED BY <1>1, <1>8, <4>1 DEF Runs
      <3> QED BY <3>1, <3>2
    <2>3. ASSUME NEW u \in Busy', NEW v \in Busy', local'[u] = local'[v] PROVE u = v
      <3>1. \A q \in Busy : local'[q] = local[q] /\ local[q] # x
        <4>1. \A q \in Busy : q \in Worker /\ q # w
          BY <1>9 DEF Busy
        <4>2. \A q \in Busy : ran[local[q]] > 0
          BY <1>1 DEF Runs
        <4> QED BY <1>6, <1>7, <4>1, <4>2
      <3> QED BY <1>1, <1>6, <1>9, <2>3, <3>1 DEF Runs
    <2> QED BY <2>1, <2>2, <2>3 DEF Runs
  <1>17. IInv'
    BY <1>11, <1>12, <1>13, <1>15, <1>16 DEF IInv
  <1> QED BY <1>6, <1>7, <1>8, <1>9, <1>17

(* A worker that has no task left and was told to stop, stops.               *)
(* (scheduler.c:129-138)                                                     *)
LEMMA StopInv ==
  ASSUME IInv, NEW w \in Worker, main # "aborted", Serve(w), Empty(w)
  PROVE  IInv' /\ Busy' = Busy /\ UNCHANGED <<local, ran>>
  <1>1. /\ TypeOK /\ NoLostWakeup /\ FreedWhenStopped
        /\ Counts /\ Control /\ Workers /\ Rings /\ Runs
        /\ at[w] = "woken" \/ (at[w] = "ready" /\ fin[w] # 0)
        /\ fin' = [fin EXCEPT ![w] = IF @ = 1 THEN -1 ELSE @]
        /\ UNCHANGED <<d, f, todo, local>> /\ UNCHANGED <<main, client, cyclic, nbTask, tasks>>
    BY DEF IInv, Serve
  <1>2. fin[w] = 1 /\ fin'[w] = -1 /\ \A v \in Worker : v # w => fin'[v] = fin[v]
    <2>1. fin[w] # 0 /\ fin[w] # -1
      BY <1>1 DEF Workers
    <2> QED BY <1>1, <2>1 DEF TypeOK
  <1>3. at' = [at EXCEPT ![w] = "stopped"] /\ ran' = ran
    BY <1>1, <1>2 DEF Serve
  <1>4. /\ at' \in [Worker -> {"ready", "asleep", "woken", "running", "stopped"}]
        /\ at'[w] = "stopped" /\ \A v \in Worker : v # w => at'[v] = at[v]
        /\ Busy' = Busy
    BY <1>1, <1>3 DEF TypeOK, Busy
  <1>5. TypeOK'
    <2>1. fin' \in [Worker -> {0, 1, -1}]
      BY <1>1 DEF TypeOK
    <2> QED BY <1>1, <1>3, <1>4, <2>1 DEF TypeOK, client
  <1>6. Counts' /\ Rings' /\ Runs'
    BY <1>1, <1>3, <1>4 DEF Counts, Rings, Runs, Enqueued, Taken, Created, Waiting, client
  <1>7. Control'
    <2>1. main \notin {"create", "enqueue", "test", "asleep", "zoom"}
      BY <1>2, <1>1 DEF Control
    <2>2. main = "stop" => w < i
      <3>1. i \in Int /\ w \in Int
        BY <1>1, SchedulerAssumption DEF TypeOK, Worker
      <3> QED BY <1>1, <1>2, <3>1 DEF Control
    <2>3. \A v \in Worker : main = "stop" /\ i <= v => v # w
      <3>1. i \in Int /\ w \in Int
        BY <1>1, SchedulerAssumption DEF TypeOK, Worker
      <3> QED BY <2>2, <3>1
    <2> QED BY <1>1, <1>2, <1>4, <2>1, <2>3 DEF Control, client
  <1>8. NoLostWakeup' /\ FreedWhenStopped' /\ Workers'
    BY <1>1, <1>2, <1>4 DEF NoLostWakeup, FreedWhenStopped, Workers, Empty
  <1> QED BY <1>1, <1>3, <1>4, <1>5, <1>6, <1>7, <1>8 DEF IInv

(* The end of a task: the counter, and the main thread that waits for it.    *)
(* (scheduler.c:56-63)                                                       *)
LEMMA FinishInv ==
  ASSUME IInv, NEW w \in Worker, main # "aborted", FinishTask(w)
  PROVE  IInv' /\ Busy' = Busy \ {w} /\ w \in Busy
  <1>1. /\ TypeOK /\ NoLostWakeup /\ FreedWhenStopped
        /\ Counts /\ Control /\ Workers /\ Rings /\ Runs
        /\ at[w] = "running" /\ nbTask' = nbTask - 1 /\ at' = [at EXCEPT ![w] = "ready"]
        /\ main' = IF nbTask' = 0 /\ main = "asleep" THEN "test" ELSE main
        /\ UNCHANGED <<client, cyclic, struct, local, ran>>
    BY DEF IInv, FinishTask, OneLessTask
  <1>2. w \in Busy
    BY <1>1 DEF Busy
  <1>3. Busy' = Busy \ {w} /\ Cardinality(Busy') = Cardinality(Busy) - 1
    BY <1>1, <1>2, OneLessIsBusy
  <1>4. /\ at' \in [Worker -> {"ready", "asleep", "woken", "running", "stopped"}]
        /\ at'[w] = "ready" /\ \A v \in Worker : v # w => at'[v] = at[v]
    BY <1>1 DEF TypeOK
  <1>5. Cardinality(Busy') \in Nat /\ Cardinality(Waiting) \in Nat /\ Enqueued \in {0, 1}
    <2>1. IsFiniteSet(Busy')
      BY <1>1, <1>3, Finite, FS_Subset
    <2> QED BY <1>1, <2>1, Finite, FS_CardinalityType DEF Enqueued
  <1>6. nbTask' \in 0 .. Tiles /\ nbTask > 0
    BY <1>1, <1>3, <1>5, SchedulerAssumption, Finite DEF Counts, TypeOK
  <1>7. Enqueued' = Enqueued
    BY <1>1 DEF Enqueued
  <1>8. TypeOK'
    BY <1>1, <1>4, <1>6 DEF TypeOK, client, struct
  <1>9. Counts'
    <2>1. Waiting' = Waiting
      BY <1>1 DEF Waiting, struct
    <2>2. nbTask' = Cardinality(Waiting') + Cardinality(Busy') + Enqueued'
      BY <1>1, <1>3, <1>5, <1>7, <2>1, Finite DEF Counts
    <2>3. nbTask' <= tile - 1 + Enqueued
      BY <1>1, <1>5 DEF Counts, TypeOK
    <2> QED BY <1>1, <1>7, <2>2, <2>3 DEF Counts, struct, client
  <1>10. Control'
    <2>1. main \notin {"zoom", "stop", "join", "ended"}
      BY <1>1, <1>6 DEF Control
    <2>2. main' \notin {"zoom", "stop", "join", "ended"}
      BY <1>1, <2>1
    <2> QED BY <1>1, <2>1, <2>2 DEF Control, client, struct
  <1>11. NoLostWakeup' /\ FreedWhenStopped' /\ Workers'
    <2>1. main' = "asleep" => nbTask' > 0
      <3>1. main' = "asleep" => nbTask' # 0
        BY <1>1
      <3> QED BY <1>6, <3>1
    <2>2. main' # "ended"
      BY <1>1, <1>6 DEF Control
    <2>3. fin[w] # -1
      BY <1>1 DEF Workers
    <2> QED BY <1>1, <1>4, <2>1, <2>2, <2>3 DEF NoLostWakeup, FreedWhenStopped, Workers, Empty, struct
  <1>12. Rings'
    BY <1>1 DEF Rings, Taken, Created, client, struct
  <1>13. Runs'
    BY <1>1, <1>3 DEF Runs, Created, client
  <1> QED BY <1>2, <1>3, <1>8, <1>9, <1>10, <1>11, <1>12, <1>13 DEF IInv

(* Every step keeps the invariant.                                           *)
LEMMA StepInv == IInv /\ [Next]_vars => IInv'
  <1> SUFFICES ASSUME IInv, [Next]_vars PROVE IInv'
    OBVIOUS
  <1>1. CASE CreateTask
    BY <1>1, CreateTaskInv
  <1>2. CASE AddTask
    BY <1>2, AddTaskInv
  <1>3. CASE TaskWait \/ SpuriousWakeup \/ EndRound \/ NoMoreTask \/ Join
    BY <1>3, MainInv
  <1>4. ASSUME NEW w \in Worker, WorkerStep(w) PROVE IInv'
    <2>1. CASE Sleep(w)
      BY <1>4, <2>1, SleepInv DEF WorkerStep
    <2>2. CASE Serve(w) /\ ~Empty(w)
      BY <1>4, <2>2, TakeInv DEF WorkerStep
    <2>3. CASE Serve(w) /\ Empty(w)
      BY <1>4, <2>3, StopInv DEF WorkerStep
    <2>4. CASE FinishTask(w)
      BY <1>4, <2>4, FinishInv DEF WorkerStep
    <2> QED BY <1>4, <2>1, <2>2, <2>3, <2>4 DEF WorkerStep
  <1>5. CASE UNCHANGED vars
    BY <1>5 DEF IInv, TypeOK, NoLostWakeup, FreedWhenStopped, Counts, Control, Workers, Rings, Runs,
                Enqueued, Taken, Created, Busy, Waiting, Empty, client, struct, vars
  <1> QED BY <1>1, <1>2, <1>3, <1>4, <1>5 DEF Next, MainStep

(* IInv is an invariant of the scheduler.                                    *)
THEOREM Invariant == Spec => []IInv
  BY InitInv, StepInv, PTL DEF Spec

-----------------------------------------------------------------------------
(* nbTask counts the tasks that are handed over, waiting or executed, and    *)
(* todo those in each ring.                                                  *)
THEOREM CounterIsRight == Spec => []NbTaskCounts
  <1>1. IInv => NbTaskCounts
    <2> SUFFICES ASSUME IInv PROVE NbTaskCounts
      OBVIOUS
    <2>1. \A w \in Worker : d[w] \in Slot /\ f[w] \in Slot
      BY DEF IInv, TypeOK
    <2>2. \A w \in Worker : (f[w] - d[w]) % WorkQueue = Number(d[w], f[w])
      BY <2>1, NumberIsDifference
    <2> QED BY <2>2 DEF IInv, NbTaskCounts, Counts, Enqueued
  <1> QED BY <1>1, Invariant, PTL

(* No worker sleeps with a task or an order to stop, and the main thread     *)
(* does not sleep when all tasks have ended.                                 *)
THEOREM WakeupsAreKept == Spec => []NoLostWakeup
  <1>1. IInv => NoLostWakeup
    BY DEF IInv
  <1> QED BY <1>1, Invariant, PTL

(* The workers are stopped, their rings empty, when their memory is freed.   *)
THEOREM StoppedBeforeFree == Spec => []FreedWhenStopped
  <1>1. IInv => FreedWhenStopped
    BY DEF IInv
  <1> QED BY <1>1, Invariant, PTL

-----------------------------------------------------------------------------
Begun == {x \in Task : ran[x] > 0}
Done  == Begun \ {local[w] : w \in Busy}

(* What a step of the pool is, in the variables of the scheduler.            *)
LEMMA PoolSteps ==
  /\ Pool!Init <=> round = 1 /\ Created = {} /\ Begun = {} /\ Done = {}
  /\ \A x \in Task :
       /\ /\ x[1] = round /\ x \notin Created /\ Created' = Created \cup {x}
          /\ round' = round /\ Begun' = Begun /\ Done' = Done
          => Pool!Next
       /\ /\ x \in Created /\ x \notin Begun /\ Begun' = Begun \cup {x}
          /\ round' = round /\ Created' = Created /\ Done' = Done
          => Pool!Next
       /\ /\ x \in Begun /\ x \notin Done /\ Done' = Done \cup {x}
          /\ round' = round /\ Created' = Created /\ Begun' = Begun
          => Pool!Next
  /\ /\ round < Rounds /\ {x \in Task : x[1] = round} \subseteq Created /\ Created \subseteq Done
     /\ round' = round + 1 /\ Created' = Created /\ Begun' = Begun /\ Done' = Done
     => Pool!Next
  /\ round' = round /\ Created' = Created /\ Begun' = Begun /\ Done' = Done
     => UNCHANGED Pool!pool
  <1>1. Pool!Init <=> round = 1 /\ Created = {} /\ Begun = {} /\ Done = {}
    BY DEF Pool!Init, Created, Begun, Done
  <1>2. ASSUME NEW x \in Task, x[1] = round, x \notin Created, Created' = Created \cup {x},
               round' = round, Begun' = Begun, Done' = Done
        PROVE  Pool!Next
    <2>1. Pool!Create(x)
      BY <1>2 DEF Pool!Create, Pool!RoundTasks, Pool!Task, Task, Created, Begun, Done
    <2> QED BY <2>1 DEF Pool!Next, Pool!Task, Task
  <1>3. ASSUME NEW x \in Task, x \in Created, x \notin Begun, Begun' = Begun \cup {x},
               round' = round, Created' = Created, Done' = Done
        PROVE  Pool!Next
    <2>1. Pool!Begin(x)
      BY <1>3 DEF Pool!Begin, Created, Begun, Done
    <2> QED BY <2>1 DEF Pool!Next, Pool!Task, Task
  <1>4. ASSUME NEW x \in Task, x \in Begun, x \notin Done, Done' = Done \cup {x},
               round' = round, Created' = Created, Begun' = Begun
        PROVE  Pool!Next
    <2>1. Pool!Finish(x)
      BY <1>4 DEF Pool!Finish, Created, Begun, Done
    <2> QED BY <2>1 DEF Pool!Next, Pool!Task, Task
  <1>5. ASSUME round < Rounds, {x \in Task : x[1] = round} \subseteq Created, Created \subseteq Done,
               round' = round + 1, Created' = Created, Begun' = Begun, Done' = Done
        PROVE  Pool!Next
    <2>1. Pool!NextRound
      BY <1>5 DEF Pool!NextRound, Pool!RoundTasks, Pool!Task, Task, Created, Begun, Done
    <2> QED BY <2>1 DEF Pool!Next
  <1>6. ASSUME round' = round, Created' = Created, Begun' = Begun, Done' = Done
        PROVE  UNCHANGED Pool!pool
    BY <1>6 DEF Pool!pool, Created, Begun, Done
  <1> QED BY <1>1, <1>2, <1>3, <1>4, <1>5, <1>6

(* When the counter is zero, every task that was created has ended.          *)
LEMMA ZeroIsDone ==
  ASSUME IInv, main = "zoom"
  PROVE  Created \subseteq Done /\ {x \in Task : x[1] = round} \subseteq Created
  <1>1. TypeOK /\ Counts /\ Rings /\ Runs /\ nbTask = 0 /\ tile = Tiles + 1
    BY DEF IInv, Control
  <1>2. Cardinality(Waiting) = 0 /\ Cardinality(Busy) = 0
    BY <1>1, Finite DEF Counts, Enqueued
  <1>3. Waiting = {} /\ Busy = {}
    BY <1>1, <1>2, Finite, FS_EmptySet
  <1>4. ASSUME NEW w \in Worker PROVE Taken(w) = {}
    <2>1. todo[w] = 0
      <3>1. todo[w] \in 0 .. WorkQueue
        BY <1>1 DEF TypeOK
      <3>2. todo[w] > 0 => <<w, todo[w]>> \in Waiting
        BY <3>1, SchedulerAssumption DEF Waiting
      <3> QED BY <1>3, <3>1, <3>2
    <2>2. d[w] = f[w] /\ d[w] \in Slot
      BY <1>1, <2>1, NumberIsDifference DEF Counts, TypeOK
    <2> QED BY <2>2, RingEmpty DEF Taken
  <1>5. Created \subseteq Begun
    BY <1>1, <1>4 DEF Rings, Begun, Created, TypeOK
  <1>6. Begun = Done
    BY <1>3 DEF Done
  <1>7. {x \in Task : x[1] = round} \subseteq Created
    BY <1>1, SchedulerAssumption DEF Created, Task
  <1> QED BY <1>5, <1>6, <1>7

(* Every step of the scheduler is one of the pool, or none.                  *)
LEMMA StepRefines == IInv /\ [Next]_vars => [Pool!Next]_(Pool!pool)
  <1> SUFFICES ASSUME IInv, [Next]_vars PROVE Pool!Next \/ UNCHANGED Pool!pool
    OBVIOUS
  <1>1. CASE AddTask
    <2> DEFINE x == <<round, tile>>
    <2>1. /\ main = "enqueue" /\ tile' = tile + 1 /\ at' = Wake(target)
          /\ UNCHANGED <<round, local, ran>> /\ TypeOK /\ Control
      BY <1>1 DEF AddTask, Enqueue, IInv
    <2>2. x \in Task /\ x[1] = round
      BY <2>1, SchedulerAssumption DEF TypeOK, Control, Task
    <2>3. Created' = Created \cup {x} /\ x \notin Created
      BY <2>1, <2>2 DEF Created, Task, TypeOK
    <2>4. Begun' = Begun /\ Done' = Done
      <3>1. Busy' = Busy
        BY <2>1 DEF Busy, Wake, TypeOK
      <3> QED BY <2>1, <3>1 DEF Begun, Done
    <2> HIDE DEF x
    <2> QED BY <2>1, <2>2, <2>3, <2>4, PoolSteps
  <1>2. CASE EndRound
    <2>1. /\ main = "zoom" /\ UNCHANGED <<at, local, ran>>
          /\ \/ round < Rounds /\ round' = round + 1 /\ tile' = 1
             \/ UNCHANGED <<round, tile>>
      BY <1>2 DEF EndRound
    <2>2. Begun' = Begun /\ Done' = Done
      BY <2>1 DEF Begun, Done, Busy
    <2>3. CASE round < Rounds /\ round' = round + 1 /\ tile' = 1
      <3>1. Created \subseteq Done /\ {x \in Task : x[1] = round} \subseteq Created
        BY <2>1, ZeroIsDone
      <3>2. Created' = Created
        <4>1. round \in Int /\ tile = Tiles + 1 /\ Tiles \in Nat
          BY <2>1, SchedulerAssumption DEF IInv, TypeOK, Control
        <4>2. \A x \in Task : x[1] \in Int /\ x[2] \in 1 .. Tiles
          BY DEF Task
        <4>3. \A x \in Task : (x[1] < round' \/ (x[1] = round' /\ x[2] < tile'))
                                <=> (x[1] < round \/ (x[1] = round /\ x[2] < tile))
          BY <2>3, <4>1, <4>2
        <4> QED BY <4>3 DEF Created
      <3> QED BY <2>2, <2>3, <3>1, <3>2, PoolSteps
    <2>4. CASE UNCHANGED <<round, tile>>
      <3>1. Created' = Created
        BY <2>4 DEF Created
      <3> QED BY <2>2, <2>4, <3>1, PoolSteps
    <2> QED BY <2>1, <2>3, <2>4
  <1>3. CASE CreateTask \/ TaskWait \/ SpuriousWakeup \/ Join \/ UNCHANGED vars
    <2>1. UNCHANGED <<round, tile, at, local, ran>>
      BY <1>3 DEF CreateTask, TaskWait, SpuriousWakeup, Join, client, vars
    <2>2. round' = round /\ Created' = Created /\ Begun' = Begun /\ Done' = Done
      BY <2>1 DEF Created, Begun, Done, Busy
    <2> QED BY <2>2, PoolSteps
  <1>4. CASE NoMoreTask
    <2>1. UNCHANGED <<round, tile, local, ran>> /\ (at' = Wake(i) \/ at' = at) /\ TypeOK
      BY <1>4 DEF NoMoreTask, IInv
    <2>2. Busy' = Busy
      BY <2>1 DEF Busy, Wake, TypeOK
    <2>3. round' = round /\ Created' = Created /\ Begun' = Begun /\ Done' = Done
      BY <2>1, <2>2 DEF Created, Begun, Done
    <2> QED BY <2>3, PoolSteps
  <1>5. ASSUME NEW w \in Worker, WorkerStep(w) PROVE Pool!Next \/ UNCHANGED Pool!pool
    <2>1. main # "aborted" /\ TypeOK /\ Runs
      BY <1>5 DEF WorkerStep, IInv
    <2>2. CASE Sleep(w)
      <3>1. UNCHANGED <<round, tile, local, ran>> /\ Busy' = Busy
        BY <2>1, <2>2 DEF Sleep, client, Busy, TypeOK
      <3>2. round' = round /\ Created' = Created /\ Begun' = Begun /\ Done' = Done
        BY <3>1 DEF Created, Begun, Done
      <3> QED BY <3>2, PoolSteps
    <2>3. CASE Serve(w) /\ ~Empty(w)
      <3> DEFINE x == local'[w]
      <3>1. /\ Busy' = Busy \cup {w} /\ w \notin Busy /\ x \in Created /\ ran[x] = 0
            /\ ran' = [ran EXCEPT ![x] = 1] /\ \A v \in Worker : v # w => local'[v] = local[v]
        BY <2>1, <2>3, TakeInv
      <3>2. UNCHANGED <<round, tile>>
        BY <2>3 DEF Serve, client
      <3>3. Created' = Created /\ x \in Task /\ x \notin Begun
        BY <3>1, <3>2 DEF Created, Begun
      <3>4. Begun' = Begun \cup {x}
        BY <2>1, <3>1, <3>3 DEF Begun, TypeOK
      <3>5. {local'[v] : v \in Busy'} = {local[v] : v \in Busy} \cup {x}
        <4>1. \A v \in Busy : v \in Worker /\ v # w
          BY <3>1 DEF Busy
        <4> QED BY <3>1, <4>1
      <3> HIDE DEF x
      <3>6. Done' = Done
        BY <3>3, <3>4, <3>5 DEF Done
      <3> QED BY <3>1, <3>2, <3>3, <3>4, <3>6, PoolSteps
    <2>4. CASE Serve(w) /\ Empty(w)
      <3>1. Busy' = Busy /\ UNCHANGED <<local, ran>>
        BY <2>1, <2>4, StopInv
      <3>2. UNCHANGED <<round, tile>>
        BY <2>4 DEF Serve, client
      <3>3. round' = round /\ Created' = Created /\ Begun' = Begun /\ Done' = Done
        BY <3>1, <3>2 DEF Created, Begun, Done
      <3> QED BY <3>3, PoolSteps
    <2>5. CASE FinishTask(w)
      <3> DEFINE x == local[w]
      <3>1. Busy' = Busy \ {w} /\ w \in Busy
        BY <2>1, <2>5, FinishInv
      <3>2. UNCHANGED <<round, tile, local, ran>>
        BY <2>5 DEF FinishTask, client
      <3>3. round' = round /\ Created' = Created /\ Begun' = Begun
        BY <3>2 DEF Created, Begun
      <3>4. x \in Task /\ x \in Begun /\ x \notin Done
        BY <2>1, <3>1 DEF Runs, Begun, Done
      <3>5. {local'[v] : v \in Busy'} = {local[v] : v \in Busy} \ {x}
        BY <2>1, <3>1, <3>2 DEF Runs
      <3>6. Done' = Done \cup {x}
        BY <3>3, <3>4, <3>5 DEF Done
      <3> HIDE DEF x
      <3> QED BY <3>3, <3>4, <3>6, PoolSteps
    <2> QED BY <1>5, <2>2, <2>3, <2>4, <2>5 DEF WorkerStep
  <1> QED BY <1>1, <1>2, <1>3, <1>4, <1>5 DEF Next, MainStep

(* The scheduler implements TaskPool: every task is executed exactly once,   *)
(* and the rounds are separate.                                              *)
THEOREM Refines == Spec => ImplementsPool
  <1>1. Init => Pool!Init
    <2> SUFFICES ASSUME Init PROVE Pool!Init
      OBVIOUS
    <2>1. round = 1 /\ Created = {} /\ Begun = {} /\ Done = {}
      BY SchedulerAssumption DEF Init, Created, Begun, Done, Task
    <2> QED BY <2>1, PoolSteps
  <1> QED BY <1>1, Invariant, StepRefines, PTL DEF Spec, ImplementsPool, Pool!Spec

(* What TaskPool is worth as a specification: from its steps alone, whatever *)
(* refines it, the rounds never overlap.                                     *)
LEMMA PoolSeparates == Pool!Spec => [](round \in Nat /\ Pool!RoundsAreSeparate)
  <1> DEFINE Inv == round \in Nat /\ Pool!RoundsAreSeparate
  <1> USE DEF Created, Begun, Done
  <1>0. /\ \A x \in Task : x \in Pool!Task /\ x[1] \in Nat
        /\ Pool!Task = Task
    BY DEF Task, Pool!Task
  <1>a. Pool!RoundsAreSeparate <=>
          /\ Done \subseteq Begun /\ Begun \subseteq Created
          /\ \A x \in Task : /\ x[1] < round => x \in Done
                             /\ x[1] > round => x \notin Created
    BY DEF Pool!RoundsAreSeparate, Task, Pool!Task
  <1>b. Pool!RoundsAreSeparate' <=>
          /\ Done' \subseteq Begun' /\ Begun' \subseteq Created'
          /\ \A x \in Task : /\ x[1] < round' => x \in Done'
                             /\ x[1] > round' => x \notin Created'
    BY DEF Pool!RoundsAreSeparate, Task, Pool!Task
  <1>1. Pool!Init => Inv
    <2> SUFFICES ASSUME Pool!Init PROVE Inv
      OBVIOUS
    <2>1. round = 1 /\ Created = {} /\ Begun = {} /\ Done = {}
      BY DEF Pool!Init
    <2> HIDE DEF Created, Begun, Done
    <2> QED BY <2>1, <1>0, <1>a DEF Task
  <1>2. Inv /\ [Pool!Next]_(Pool!pool) => Inv'
    <2> SUFFICES ASSUME Inv, [Pool!Next]_(Pool!pool) PROVE Inv'
      OBVIOUS
    <2>1. ASSUME NEW x \in Task, Pool!Create(x) PROVE Inv'
      <3>1. x[1] = round /\ Created' = Created \cup {x} /\ round' = round /\ Begun' = Begun /\ Done' = Done
        BY <2>1 DEF Pool!Create, Pool!RoundTasks
      <3> HIDE DEF Created, Begun, Done
      <3> QED BY <3>1, <1>0, <1>a, <1>b
    <2>2. ASSUME NEW x \in Task, Pool!Begin(x) PROVE Inv'
      <3>1. x \in Created /\ Begun' = Begun \cup {x} /\ round' = round /\ Created' = Created /\ Done' = Done
        BY <2>2 DEF Pool!Begin
      <3> HIDE DEF Created, Begun, Done
      <3> QED BY <3>1, <1>0, <1>a, <1>b
    <2>3. ASSUME NEW x \in Task, Pool!Finish(x) PROVE Inv'
      <3>1. x \in Begun /\ Done' = Done \cup {x} /\ round' = round /\ Created' = Created /\ Begun' = Begun
        BY <2>3 DEF Pool!Finish
      <3> HIDE DEF Created, Begun, Done
      <3> QED BY <3>1, <1>0, <1>a, <1>b
    <2>4. ASSUME Pool!NextRound PROVE Inv'
      <3>1. /\ round' = round + 1 /\ Created' = Created /\ Begun' = Begun /\ Done' = Done
            /\ \A x \in Task : x[1] = round => x \in Created
            /\ Created \subseteq Done
        BY <2>4, <1>0 DEF Pool!NextRound, Pool!RoundTasks
      <3> HIDE DEF Created, Begun, Done
      <3>2. \A x \in Task : x[1] < round' => x[1] < round \/ x[1] = round
        BY <3>1, <1>0
      <3> QED BY <3>1, <3>2, <1>0, <1>a, <1>b
    <2>5. CASE UNCHANGED Pool!pool
      <3>1. round' = round /\ Created' = Created /\ Begun' = Begun /\ Done' = Done
        BY <2>5 DEF Pool!pool
      <3> HIDE DEF Created, Begun, Done
      <3> QED BY <3>1, <1>0, <1>a, <1>b
    <2> QED BY <2>1, <2>2, <2>3, <2>4, <2>5, <1>0 DEF Pool!Next
  <1> QED BY <1>1, <1>2, PTL DEF Pool!Spec

(* The rounds of the scheduler do not overlap: when scheduler_task_wait has  *)
(* returned every task of the rounds before has ended, and no task of a      *)
(* later round exists. (mandel.c:642-658)                                    *)
THEOREM Separate == Spec => []Pool!RoundsAreSeparate
  BY Refines, PoolSeparates, PTL DEF ImplementsPool
-----------------------------------------------------------------------------
(* Each worker: what it executes was created before what waits in its ring,  *)
(* and the ring holds its tasks in the order in which they were created.     *)
Fifo ==
  main # "aborted" =>
    \A w \in Worker :
      /\ local[w] \in Created \cup {NoTask}
      /\ \A s \in Taken(w) : CreatedBefore(local[w], tasks[w][s])
      /\ \A s, t \in Taken(w) :
           Number(d[w], s) < Number(d[w], t) => CreatedBefore(tasks[w][s], tasks[w][t])

(* The place f comes after those of the tasks in the ring.                   *)
LEMMA RingEnd ==
  ASSUME NEW a \in Slot, NEW b \in Slot, NEW s \in Between(a, b)
  PROVE  Number(a, s) < Number(a, b)
  BY SchedulerAssumption DEF Slot, Between, Number

(* The next task to create comes after those created.                        *)
LEMMA NewestTask ==
  ASSUME TypeOK, NEW y \in Created \cup {NoTask}
  PROVE  CreatedBefore(y, <<round, tile>>)
  <1>1. round \in Nat \ {0} /\ tile \in Nat \ {0}
    BY SchedulerAssumption DEF TypeOK
  <1> QED BY <1>1 DEF CreatedBefore, Created, NoTask

(* add_task puts the newest task at the end of a ring. (scheduler.c:69-70)   *)
LEMMA AddTaskFifo ==
  ASSUME IInv, Fifo, AddTask, NEW w, w = target, NEW x, x = <<round, tile>>, main' # "aborted"
  PROVE  Fifo'
  <1>1. /\ main = "enqueue" /\ tile' = tile + 1
        /\ tasks' = [tasks EXCEPT ![w][f[w]] = x]
        /\ f' = [f EXCEPT ![w] = (@ + 1) % WorkQueue]
        /\ todo' = [todo EXCEPT ![w] = @ + 1]
        /\ todo'[w] < WorkQueue
        /\ UNCHANGED <<d, round, local>>
        /\ TypeOK /\ Counts /\ Control /\ Rings
    BY DEF AddTask, Enqueue, IInv
  <1>2. /\ w \in Worker /\ d[w] \in Slot /\ f[w] \in Slot /\ x \in Task
        /\ d \in [Worker -> Slot] /\ f \in [Worker -> Slot]
        /\ tile \in 1 .. Tiles /\ round \in 1 .. Rounds
    BY <1>1, SchedulerAssumption DEF TypeOK, Control, Task
  <1>3. Number(d[w], f[w]) + 1 < WorkQueue
    <2>1. todo[w] = Number(d[w], f[w]) /\ todo'[w] = todo[w] + 1
      BY <1>1, <1>2 DEF Counts, TypeOK
    <2> QED BY <1>1, <2>1
  <1>4. /\ Taken(w)' = Taken(w) \cup {f[w]} /\ f[w] \notin Taken(w)
        /\ \A v \in Worker : v # w => Taken(v)' = Taken(v)
    <2>1. f'[w] = (f[w] + 1) % WorkQueue /\ \A v \in Worker : v # w => f'[v] = f[v]
      BY <1>1, <1>2
    <2> QED BY <1>1, <1>2, <1>3, <2>1, RingAdd DEF Taken
  <1>5. /\ tasks'[w][f[w]] = x
        /\ \A v \in Worker : \A s \in Taken(v) : tasks'[v][s] = tasks[v][s]
    <2>1. ASSUME NEW v \in Worker, NEW s \in Taken(v) PROVE tasks'[v][s] = tasks[v][s]
      <3>1. (v # w \/ s # f[w]) /\ s \in Slot
        BY <1>4 DEF Taken, Between
      <3> QED BY <1>1, <1>2, <3>1 DEF TypeOK
    <2>2. tasks'[w][f[w]] = x
      BY <1>1, <1>2 DEF TypeOK
    <2> QED BY <2>1, <2>2
  <1>6. Created \subseteq Created'
    BY <1>1, <1>2 DEF Created, Task
  <1>7. \A y \in Created \cup {NoTask} : CreatedBefore(y, x)
    BY <1>1, NewestTask
  <1>8. /\ \A v \in Worker : local[v] \in Created \cup {NoTask}
        /\ \A v \in Worker : \A s \in Taken(v) : CreatedBefore(local[v], tasks[v][s])
        /\ \A v \in Worker : \A s, t \in Taken(v) :
             Number(d[v], s) < Number(d[v], t) => CreatedBefore(tasks[v][s], tasks[v][t])
    BY <1>1 DEF Fifo
  <1>9. \A v \in Worker : \A s \in Taken(v) : tasks[v][s] \in Created
    BY <1>1 DEF Rings
  <1>10. ASSUME NEW v \in Worker
         PROVE  /\ local'[v] \in Created' \cup {NoTask}
                /\ \A s \in Taken(v)' : CreatedBefore(local'[v], tasks'[v][s])
                /\ \A s, t \in Taken(v)' :
                     Number(d'[v], s) < Number(d'[v], t) => CreatedBefore(tasks'[v][s], tasks'[v][t])
    <2>1. local'[v] \in Created' \cup {NoTask}
      BY <1>1, <1>6, <1>8
    <2>2. ASSUME NEW s \in Taken(v)' PROVE CreatedBefore(local'[v], tasks'[v][s])
      <3>1. s \in Taken(v) \/ (v = w /\ s = f[w])
        BY <1>4
      <3> QED BY <1>1, <1>5, <1>7, <1>8, <3>1
    <2>3. ASSUME NEW s \in Taken(v)', NEW t \in Taken(v)', Number(d'[v], s) < Number(d'[v], t)
          PROVE  CreatedBefore(tasks'[v][s], tasks'[v][t])
      <3>1. CASE s \in Taken(v) /\ t \in Taken(v)
        BY <1>1, <1>5, <1>8, <2>3, <3>1
      <3>2. CASE s \in Taken(v) /\ t \notin Taken(v)
        <4>1. v = w /\ t = f[w]
          BY <1>4, <3>2
        <4> QED BY <1>5, <1>7, <1>9, <3>2, <4>1
      <3>3. CASE s \notin Taken(v)
        <4>1. v = w /\ s = f[w] /\ (t \in Taken(w) \/ t = f[w])
          BY <1>4, <3>3
        <4>2. t \in Taken(w) => Number(d[w], t) < Number(d[w], f[w])
          BY <1>2, RingEnd DEF Taken
        <4>3. t \in Slot /\ Number(d[w], t) \in Int /\ Number(d[w], f[w]) \in Int
          BY <1>2, <4>1, NumberIsDifference DEF Taken, Between
        <4> QED BY <1>1, <2>3, <4>1, <4>2, <4>3
      <3> QED BY <3>1, <3>2, <3>3
    <2> QED BY <2>1, <2>2, <2>3
  <1> QED BY <1>10 DEF Fifo

(* worker_main takes the oldest task of its ring. (scheduler.c:126-127)      *)
LEMMA TakeFifo ==
  ASSUME IInv, Fifo, NEW w \in Worker, main # "aborted", Serve(w), ~Empty(w)
  PROVE  /\ Fifo'
         /\ CreatedBefore(local[w], local'[w])
         /\ \A v \in Worker : v # w => local'[v] = local[v]
  <1>1. /\ TypeOK /\ Rings /\ d[w] # f[w]
        /\ local' = [local EXCEPT ![w] = tasks[w][d[w]]]
        /\ d' = [d EXCEPT ![w] = (@ + 1) % WorkQueue]
        /\ UNCHANGED <<f, main, round, tile, tasks>>
    BY DEF IInv, Serve, Take, Empty, client
  <1>2. /\ d[w] \in Slot /\ f[w] \in Slot /\ d'[w] = (d[w] + 1) % WorkQueue
        /\ local'[w] = tasks[w][d[w]]
        /\ \A v \in Worker : v # w => d'[v] = d[v] /\ local'[v] = local[v]
    BY <1>1 DEF TypeOK
  <1>3. /\ Taken(w)' = Taken(w) \ {d[w]} /\ d[w] \in Taken(w)
        /\ \A v \in Worker : v # w => Taken(v)' = Taken(v)
    <2>1. Between(d'[w], f[w]) = Between(d[w], f[w]) \ {d[w]} /\ d[w] \in Between(d[w], f[w])
      BY <1>1, <1>2, RingTake
    <2> QED BY <1>1, <1>2, <2>1 DEF Taken
  <1>4. ASSUME NEW s \in Taken(w)'
        PROVE  /\ Number(d'[w], s) = Number(d[w], s) - 1
               /\ Number(d[w], s) \in Int
               /\ Number(d[w], d[w]) < Number(d[w], s)
    <2>1. s \in Slot /\ s # d[w]
      BY <1>3 DEF Taken, Between
    <2>2. Number(d'[w], s) = Number(d[w], s) - 1
      BY <1>2, <2>1, RingTake
    <2>3. Number(d[w], s) \in Nat \ {0} /\ Number(d[w], d[w]) = 0
      BY <1>2, <2>1, NumberIsDifference
    <2> QED BY <2>2, <2>3
  <1>5. /\ \A v \in Worker : local[v] \in Created \cup {NoTask}
        /\ \A v \in Worker : \A s \in Taken(v) : CreatedBefore(local[v], tasks[v][s])
        /\ \A v \in Worker : \A s, t \in Taken(v) :
             Number(d[v], s) < Number(d[v], t) => CreatedBefore(tasks[v][s], tasks[v][t])
    BY DEF Fifo
  <1>6. tasks[w][d[w]] \in Created /\ Created' = Created
    BY <1>1, <1>3 DEF Rings, Created
  <1>7. /\ local'[w] \in Created'
        /\ \A s \in Taken(w)' : CreatedBefore(local'[w], tasks'[w][s])
        /\ \A s, t \in Taken(w)' :
             Number(d'[w], s) < Number(d'[w], t) => CreatedBefore(tasks'[w][s], tasks'[w][t])
    <2>1. local'[w] \in Created'
      BY <1>2, <1>6
    <2>2. ASSUME NEW s \in Taken(w)' PROVE CreatedBefore(local'[w], tasks'[w][s])
      BY <1>1, <1>2, <1>3, <1>4, <1>5
    <2>3. ASSUME NEW s \in Taken(w)', NEW t \in Taken(w)', Number(d'[w], s) < Number(d'[w], t)
          PROVE  CreatedBefore(tasks'[w][s], tasks'[w][t])
      <3>1. Number(d[w], s) < Number(d[w], t)
        BY <1>4, <2>3
      <3> QED BY <1>1, <1>3, <1>5, <3>1
    <2> QED BY <2>1, <2>2, <2>3
  <1>8. ASSUME NEW v \in Worker, v # w
        PROVE  /\ local'[v] \in Created' \cup {NoTask}
               /\ \A s \in Taken(v)' : CreatedBefore(local'[v], tasks'[v][s])
               /\ \A s, t \in Taken(v)' :
                    Number(d'[v], s) < Number(d'[v], t) => CreatedBefore(tasks'[v][s], tasks'[v][t])
    BY <1>1, <1>2, <1>3, <1>5, <1>6, <1>8
  <1>9. Fifo'
    BY <1>7, <1>8 DEF Fifo
  <1> QED BY <1>2, <1>3, <1>5, <1>9

(* The other steps touch no ring and give no task to a worker; the tasks     *)
(* created stay so when the next round begins.                               *)
LEMMA OtherFifo ==
  ASSUME IInv, Fifo, [Next]_vars, UNCHANGED <<d, f, tasks, local>>, ~AddTask, main # "aborted"
  PROVE  Fifo'
  <1>1. Created \subseteq Created'
    <2>1. CASE EndRound
      <3>1. (round' = round + 1 \/ (round' = round /\ tile' = tile)) /\ round \in Nat
        BY <2>1, SchedulerAssumption DEF EndRound, IInv, TypeOK
      <3>2. \A x \in Created : x \in Task /\ x[1] \in Nat /\ (x[1] < round \/ (x[1] = round /\ x[2] < tile))
        BY DEF Created, Task
      <3> QED BY <3>1, <3>2 DEF Created
    <2>2. CASE ~EndRound
      <3>1. UNCHANGED <<round, tile>>
        BY <2>2 DEF Next, MainStep, CreateTask, TaskWait, NoMoreTask, Join, SpuriousWakeup,
                    WorkerStep, Sleep, Serve, FinishTask, client, vars
      <3> QED BY <3>1 DEF Created
    <2> QED BY <2>1, <2>2
  <1>2. \A w \in Worker : Taken(w)' = Taken(w)
    BY DEF Taken
  <1> QED BY <1>1, <1>2 DEF Fifo

(* Each step keeps Fifo and gives a worker a task created after its last.    *)
LEMMA StepFifo ==
  ASSUME IInv, Fifo, [Next]_vars
  PROVE  /\ Fifo'
         /\ \A w \in Worker : local'[w] # local[w] => CreatedBefore(local[w], local'[w])
  <1>1. CASE main = "aborted"
    <2>1. UNCHANGED <<main, local>>
      BY <1>1 DEF Next, MainStep, CreateTask, AddTask, TaskWait, EndRound, NoMoreTask, Join,
                  SpuriousWakeup, WorkerStep, vars
    <2> QED BY <1>1, <2>1 DEF Fifo
  <1>2. CASE AddTask
    <2>1. local' = local
      BY <1>2 DEF AddTask
    <2>2. main' = "aborted" \/ Fifo'
      BY <1>2, AddTaskFifo
    <2> QED BY <2>1, <2>2 DEF Fifo
  <1>3. ASSUME NEW w \in Worker, Serve(w), ~Empty(w), main # "aborted"
        PROVE  /\ Fifo'
               /\ \A v \in Worker : local'[v] # local[v] => CreatedBefore(local[v], local'[v])
    BY <1>3, TakeFifo
  <1>4. CASE /\ main # "aborted" /\ ~AddTask
             /\ \A w \in Worker : ~(Serve(w) /\ ~Empty(w))
    <2>1. UNCHANGED <<d, f, tasks, local>>
      BY <1>4 DEF Next, MainStep, CreateTask, TaskWait, EndRound, NoMoreTask, Join,
                  SpuriousWakeup, WorkerStep, Sleep, Serve, FinishTask, struct, vars
    <2> QED BY <1>4, <2>1, OtherFifo
  <1> QED BY <1>1, <1>2, <1>3, <1>4

(* A worker executes its tasks in the order in which they were created, for  *)
(* any number of workers and tasks and any use of cpu.                       *)
(* (scheduler.c:69-70, 126-127)                                              *)
THEOREM FirstInFirstOut == Spec => WorkerIsFIFO
  <1>1. Init => Fifo
    <2> SUFFICES ASSUME Init PROVE Fifo
      OBVIOUS
    <2>1. \A w \in Worker : Taken(w) = {} /\ local[w] = NoTask
      BY RingEmpty, SchedulerAssumption DEF Init, Taken, Slot
    <2> QED BY <2>1 DEF Fifo
  <1>2. IInv /\ Fifo /\ [Next]_vars =>
          /\ Fifo'
          /\ \A w \in Worker : local'[w] # local[w] => CreatedBefore(local[w], local'[w])
    BY StepFifo
  <1> QED BY <1>1, <1>2, Invariant, PTL DEF Spec, WorkerIsFIFO

-----------------------------------------------------------------------------
(* scheduler_finalize starts with worker 0, and whom it has told to stop     *)
(* keeps knowing it.                                                         *)
Told ==
  /\ main \notin {"stop", "join", "ended"} => i = 0
  /\ main = "stop" => \A w \in Worker : w < i => fin[w] # 0
  /\ main \in {"join", "ended"} => \A w \in Worker : fin[w] # 0

(* A worker that has something to do, or is doing it; one that is about to   *)
(* find nothing and go to sleep has not.                                     *)
Active(w) ==
  \/ at[w] \in {"running", "woken"}
  \/ at[w] = "ready" /\ ~(Empty(w) /\ fin[w] = 0)

(***************************************************************************)
(* The main thread is never left waiting alone: while it waits for the     *)
(* tasks of a round, or for the end of a worker, a worker is active, in    *)
(* the second case the very one that it waits for.                         *)
(***************************************************************************)
SomebodyIsActive ==
  /\ main = "asleep" => \E w \in Worker : Active(w)
  /\ main = "join" /\ i < NbWorkers => at[i] = "stopped" \/ Active(i)

LEMMA InitTold == Init => Told
  BY DEF Init, Told

LEMMA StepTold == IInv /\ Told /\ [Next]_vars => Told'
  <1> SUFFICES ASSUME IInv, Told, [Next]_vars PROVE Told'
    OBVIOUS
  <1> USE SchedulerAssumption
  <1>1. TypeOK
    BY DEF IInv
  <1>2. CASE NoMoreTask
    <2>1. CASE i < NbWorkers
      <3>1. /\ main = "stop" /\ main' = "stop" /\ fin' = [fin EXCEPT ![i] = 1] /\ i' = i + 1
        BY <1>2, <2>1 DEF NoMoreTask
      <3>2. ASSUME NEW w \in Worker, w < i + 1 PROVE fin'[w] # 0
        <4>1. CASE w = i
          BY <1>1, <3>1, <4>1 DEF TypeOK
        <4>2. CASE w # i
          <5>1. w < i
            BY <1>1, <3>2, <4>2 DEF TypeOK, Worker
          <5>2. fin[w] # 0
            BY <3>1, <5>1 DEF Told
          <5> QED BY <1>1, <3>1, <4>2, <5>2 DEF TypeOK
        <4> QED BY <4>1, <4>2
      <3> QED BY <3>1, <3>2 DEF Told
    <2>2. CASE ~ (i < NbWorkers)
      <3>1. main = "stop" /\ main' = "join" /\ fin' = fin
        BY <1>2, <2>2 DEF NoMoreTask
      <3>2. \A w \in Worker : w < i
        BY <1>1, <2>2 DEF TypeOK, Worker
      <3> QED BY <3>1, <3>2 DEF Told
    <2> QED BY <2>1, <2>2
  <1>3. CASE EndRound
    <2>1. main = "zoom" /\ main' \in {"create", "stop"} /\ i' = i
      BY <1>3 DEF EndRound, client
    <2>2. i' = 0 /\ \A w \in Worker : ~ (w < i')
      BY <2>1 DEF Told, Worker
    <2> QED BY <2>1, <2>2 DEF Told
  <1>4. CASE Join
    BY <1>4 DEF Join, Told, struct
  <1>5. CASE CreateTask \/ AddTask \/ TaskWait \/ SpuriousWakeup
    <2>1. /\ main \notin {"stop", "join", "ended"}
          /\ main' \notin {"stop", "join", "ended"} /\ i' = i
      BY <1>5 DEF CreateTask, AddTask, TaskWait, SpuriousWakeup, client
    <2> QED BY <2>1 DEF Told
  <1>6. ASSUME NEW v \in Worker, WorkerStep(v) PROVE Told'
    <2>1. /\ i' = i
          /\ main' = main \/ (main = "asleep" /\ main' = "test")
      BY <1>6 DEF WorkerStep, Sleep, Serve, FinishTask, OneLessTask, client
    <2>2. \A w \in Worker : fin[w] # 0 => fin'[w] # 0
      <3>1. fin' = fin \/ fin' = [fin EXCEPT ![v] = IF @ = 1 THEN -1 ELSE @]
        BY <1>6 DEF WorkerStep, Sleep, Serve, Take, FinishTask, struct
      <3> QED BY <1>1, <3>1 DEF TypeOK
    <2> QED BY <2>1, <2>2 DEF Told
  <1>7. CASE UNCHANGED vars
    BY <1>7 DEF vars, client, struct, Told
  <1> QED BY <1>2, <1>3, <1>4, <1>5, <1>6, <1>7 DEF Next, MainStep

(* The tasks that are counted wait in a ring, whose worker is awake, or are  *)
(* being executed.                                                           *)
LEMMA ActiveWhileWaiting == IInv /\ Told => SomebodyIsActive
  <1> SUFFICES ASSUME IInv, Told PROVE SomebodyIsActive
    OBVIOUS
  <1> USE SchedulerAssumption
  <1>1. TypeOK /\ NoLostWakeup /\ FreedWhenStopped
    BY DEF IInv
  <1>2. ASSUME main = "asleep" PROVE \E w \in Worker : Active(w)
    <2>1. Counts /\ nbTask > 0 /\ Enqueued = 0
      BY <1>1, <1>2 DEF IInv, NoLostWakeup, Enqueued
    <2>2. Waiting # {} \/ Busy # {}
      <3> SUFFICES ASSUME Waiting = {}, Busy = {} PROVE FALSE
        OBVIOUS
      <3>1. Cardinality(Waiting) = 0 /\ Cardinality(Busy) = 0
        BY FS_EmptySet
      <3> QED BY <2>1, <3>1 DEF Counts
    <2>3. CASE Busy # {}
      BY <2>3 DEF Busy, Active
    <2>4. ASSUME NEW q \in Waiting PROVE \E w \in Worker : Active(w)
      <3>1. q[1] \in Worker /\ q[2] \in 1 .. WorkQueue /\ q[2] <= todo[q[1]]
        BY DEF Waiting
      <3>2. PICK w \in Worker : todo[w] # 0
        BY <1>1, <3>1 DEF TypeOK
      <3>3. d[w] \in Slot /\ f[w] \in Slot /\ Number(d[w], f[w]) # 0
        BY <1>1, <2>1, <3>2 DEF TypeOK, Counts
      <3>4. ~Empty(w)
        BY <3>3, NumberIsDifference DEF Empty
      <3>5. at[w] \in {"ready", "woken", "running"}
        BY <1>1, <3>4 DEF TypeOK, NoLostWakeup, FreedWhenStopped
      <3> QED BY <3>4, <3>5 DEF Active
    <2> QED BY <2>2, <2>3, <2>4
  <1>3. ASSUME main = "join", i < NbWorkers PROVE at[i] = "stopped" \/ Active(i)
    <2>1. i \in Worker
      BY <1>1, <1>3 DEF TypeOK, Worker
    <2>2. fin[i] # 0
      BY <1>3, <2>1 DEF Told
    <2>3. at[i] # "asleep"
      BY <1>1, <2>1, <2>2 DEF NoLostWakeup
    <2> QED BY <1>1, <2>1, <2>2, <2>3 DEF TypeOK, Active
  <1> QED BY <1>2, <1>3 DEF SomebodyIsActive

(* No deadlock: what the main thread waits for is always under way, for any  *)
(* number of workers and tasks. (scheduler.c:41-47, 73, 81, 122, 194-204)    *)
THEOREM NeverWaitsAlone == Spec => []SomebodyIsActive
  <1>1. Spec => []Told
    BY InitTold, StepTold, Invariant, PTL DEF Spec
  <1> QED BY <1>1, Invariant, ActiveWhileWaiting, PTL
===============================================================================
