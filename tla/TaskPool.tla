------------------------------- MODULE TaskPool -------------------------------
(***************************************************************************)
(* What scheduler.c promises its client (mandel.c, "Version utilisant un   *)
(* ordonnanceur maison"): each round creates one task per tile, every task *)
(* is executed exactly once, in no particular order, and                   *)
(* scheduler_task_wait separates the rounds.                               *)
(***************************************************************************)
EXTENDS Naturals

CONSTANTS Rounds,  \* rounds of tasks the client makes: bound
          Tiles    \* tasks of a round

Task == (1..Rounds) \X (1..Tiles)

VARIABLES round,    \* the round whose tasks are created or executed
          created,  \* tasks handed to the pool
          begun,    \* tasks taken by a worker
          done      \* tasks executed

pool == <<round, created, begun, done>>

RoundTasks == {x \in Task : x[1] = round}

Init == round = 1 /\ created = {} /\ begun = {} /\ done = {}

Create(x) ==
  /\ x \in RoundTasks \ created
  /\ created' = created \cup {x}
  /\ UNCHANGED <<round, begun, done>>

Begin(x) ==
  /\ x \in created \ begun
  /\ begun' = begun \cup {x}
  /\ UNCHANGED <<round, created, done>>

Finish(x) ==
  /\ x \in begun \ done
  /\ done' = done \cup {x}
  /\ UNCHANGED <<round, created, begun>>

(* scheduler_task_wait has returned. *)
NextRound ==
  /\ round < Rounds
  /\ RoundTasks \subseteq created
  /\ created \subseteq done
  /\ round' = round + 1
  /\ UNCHANGED <<created, begun, done>>

Next == (\E x \in Task : Create(x) \/ Begin(x) \/ Finish(x)) \/ NextRound

Spec == Init /\ [][Next]_pool

(* The rounds do not overlap: no task of an earlier round is unfinished and  *)
(* none of a later one exists. (mandel.c:642-658)                            *)
RoundsAreSeparate ==
  /\ done \subseteq begun /\ begun \subseteq created
  /\ \A x \in Task :
       /\ x[1] < round => x \in done
       /\ x[1] > round => x \notin created
===============================================================================
