------------------------------- MODULE Distrib --------------------------------
(***************************************************************************)
(* pthread_distrib.c with the threads that use it, thread_starter_dyn and  *)
(* thread_starter_dyn_tiled of mandel.c, and the main thread that creates  *)
(* them, works with them and joins them, in one call of the_compute after  *)
(* the other on the same pthread_distrib_t.  pthread_distrib_get hands out *)
(* the elements of a phase; when there are none left it is a barrier,      *)
(* whose last thread calls zoom() and begins the next phase.               *)
(*                                                                         *)
(* pthread_distrib_get runs under one mutex that pthread_cond_wait leaves: *)
(* the part before the wait and the test after it are one action each.     *)
(***************************************************************************)
EXTENDS Naturals, FiniteSets

CONSTANTS Thread, Main,    \* the nb_threads threads, the one that is not created
          total_elements,
          iterations,
          PhaseModulus     \* 2^32, the values of `phase'

(* Mutant: the thread that starts the others is not counted. *)
limitWithoutMain == Cardinality(Thread) - 1

limit == Cardinality(Thread)

ASSUME DistribAssumption ==
  /\ IsFiniteSet(Thread) /\ Main \in Thread
  /\ total_elements \in Nat \ {0}
  /\ iterations \in Nat \ {0}
  /\ PhaseModulus \in Nat /\ PhaseModulus > 1

Element == 0 .. total_elements - 1

VARIABLES count, phase, next_element,  \* pthread_distrib_t
          at,     \* where each thread is; "absent" between two calls
          it,     \* its iteration
          elem,   \* the element it has last been given
          saved   \* its local variable `phase'

vars == <<count, phase, next_element, at, it, elem, saved>>

TypeOK ==
  /\ count \in 0 .. limit - 1
  /\ phase \in 0 .. PhaseModulus - 1
  /\ next_element \in 0 .. total_elements
  /\ at \in [Thread -> {"absent", "creating", "calling", "computing", "waiting",
                       "woken", "ended"}]
  /\ it \in [Thread -> 1 .. iterations + 1]
  /\ elem \in [Thread -> Element]
  /\ saved \in [Thread -> 0 .. PhaseModulus - 1]

Init ==
  /\ count = 0 /\ phase = 0 /\ next_element = 0
  /\ at = [t \in Thread |-> "absent"]
  /\ it = [t \in Thread |-> 1]
  /\ elem = [t \in Thread |-> 0]
  /\ saved = [t \in Thread |-> 0]

-----------------------------------------------------------------------------
(* The main thread: mandel_compute_thread_dyn, mandel_compute_thread_dyn_tiled. *)

(* pthread_distrib_init *)
CallCompute ==
  /\ at[Main] = "absent"
  /\ count' = 0 /\ phase' = 0 /\ next_element' = 0
  /\ at' = [at EXCEPT ![Main] = "creating"]
  /\ UNCHANGED <<it, elem, saved>>

(* pthread_create: the thread runs at once. *)
Create(t) ==
  /\ at[Main] = "creating" /\ at[t] = "absent"
  /\ at' = [at EXCEPT ![t] = "calling"]
  /\ UNCHANGED <<count, phase, next_element, it, elem, saved>>

(* All are created, and the main thread does what they do. *)
Created ==
  /\ at[Main] = "creating" /\ \A t \in Thread : at[t] # "absent"
  /\ at' = [at EXCEPT ![Main] = "calling"]
  /\ UNCHANGED <<count, phase, next_element, it, elem, saved>>

(* Mutant: the threads are not joined. *)
JoinNobody ==
  /\ at[Main] = "ended"
  /\ at' = [at EXCEPT ![Main] = "absent"]
  /\ it' = [it EXCEPT ![Main] = 1]
  /\ UNCHANGED <<count, phase, next_element, elem, saved>>

(* pthread_join of every thread, and the_compute returns. *)
Join ==
  /\ \A t \in Thread : at[t] = "ended"
  /\ at' = [t \in Thread |-> "absent"]
  /\ it' = [t \in Thread |-> 1]
  /\ elem' = [t \in Thread |-> 0]
  /\ saved' = [t \in Thread |-> 0]
  /\ UNCHANGED <<count, phase, next_element>>

-----------------------------------------------------------------------------
(* The threads. *)

(* pthread_distrib_get hands out an element. *)
GetElement(t) ==
  /\ at[t] = "calling" /\ next_element # total_elements
  /\ elem' = [elem EXCEPT ![t] = next_element]
  /\ next_element' = next_element + 1
  /\ at' = [at EXCEPT ![t] = "computing"]
  /\ UNCHANGED <<count, phase, it, saved>>

(* traiter_tuile_vec returns. *)
Compute(t) ==
  /\ at[t] = "computing"
  /\ at' = [at EXCEPT ![t] = "calling"]
  /\ UNCHANGED <<count, phase, next_element, it, elem, saved>>

(* Where a thread is that got -1 in iteration k. *)
AfterIteration(k) == IF k < iterations THEN "calling" ELSE "ended"

BeginPhase == phase' = (phase + 1) % PhaseModulus /\ count' = 0 /\ next_element' = 0

(* Mutant: pthread_cond_signal for pthread_cond_broadcast. *)
SignalOne(a) ==
  IF \E u \in Thread : a[u] = "waiting"
  THEN [a EXCEPT ![CHOOSE u \in Thread : a[u] = "waiting"] = "woken"] ELSE a

(* pthread_cond_broadcast *)
Broadcast(a) == [u \in Thread |-> IF a[u] = "waiting" THEN "woken" ELSE a[u]]

(* pthread_distrib_get finds no element, and it is not the last to do so. *)
Wait(t) ==
  /\ at[t] = "calling" /\ next_element = total_elements
  /\ count + 1 < limit
  /\ count' = count + 1
  /\ saved' = [saved EXCEPT ![t] = phase]
  /\ at' = [at EXCEPT ![t] = "waiting"]
  /\ UNCHANGED <<phase, next_element, it, elem>>

(* ... it is the last: finalize_func, broadcast, return -1. *)
Finalize(t) ==
  /\ at[t] = "calling" /\ next_element = total_elements
  /\ count + 1 >= limit
  /\ BeginPhase
  /\ at' = Broadcast([at EXCEPT ![t] = AfterIteration(it[t])])
  /\ it' = [it EXCEPT ![t] = @ + 1]
  /\ UNCHANGED <<elem, saved>>

(* pthread_cond_wait may return without a broadcast. *)
SpuriousWakeup(t) ==
  /\ at[t] = "waiting"
  /\ at' = [at EXCEPT ![t] = "woken"]
  /\ UNCHANGED <<count, phase, next_element, it, elem, saved>>

(* Mutant: the thread does not look whether the phase is another one. *)
ResumeAnyway(t) ==
  /\ at[t] = "woken"
  /\ at' = [at EXCEPT ![t] = AfterIteration(it[t])]
  /\ it' = [it EXCEPT ![t] = @ + 1]
  /\ UNCHANGED <<count, phase, next_element, elem, saved>>

(* The test of the loop around pthread_cond_wait, then return -1. *)
Resume(t) ==
  /\ at[t] = "woken"
  /\ IF phase = saved[t]
     THEN at' = [at EXCEPT ![t] = "waiting"] /\ UNCHANGED it
     ELSE /\ at' = [at EXCEPT ![t] = AfterIteration(it[t])]
          /\ it' = [it EXCEPT ![t] = @ + 1]
  /\ UNCHANGED <<count, phase, next_element, elem, saved>>

-----------------------------------------------------------------------------

Step(t) == GetElement(t) \/ Compute(t) \/ Wait(t) \/ Finalize(t) \/ Resume(t)

MainStep == Created \/ Join \/ \E t \in Thread : Create(t)

Next ==
  \/ CallCompute \/ MainStep
  \/ \E t \in Thread : Step(t) \/ SpuriousWakeup(t)

Spec == Init /\ [][Next]_vars

(* The operating system runs every thread that is not waiting, and           *)
(* traiter_tuile_vec ends.                                                   *)
Fairness == WF_vars(MainStep) /\ \A t \in Thread : WF_vars(Step(t))

FairSpec == Spec /\ Fairness

-----------------------------------------------------------------------------

(* The threads that have come to the barrier in this phase.                  *)
Arrived == {t \in Thread : at[t] \in {"waiting", "woken"} /\ saved[t] = phase}

Computing == {t \in Thread : at[t] = "computing"}

(* `count' counts the threads that wait for this phase to end, not those     *)
(* that were woken late and still have to leave the previous one, although   *)
(* `phase' wraps around. (pthread_distrib.c:43-46, 55-58)                    *)
CountIsArrived == count = Cardinality(Arrived)

(* No two threads compute the same element, and none computes one that was   *)
(* not handed out in this phase. (pthread_distrib.c:40, 47, 65)              *)
ElementsAreShared ==
  \A t \in Computing :
    /\ elem[t] < next_element
    /\ \A u \in Computing : elem[t] = elem[u] => t = u

(* No thread is more than an iteration ahead of another: every call of zoom  *)
(* gives each thread one -1. (mandel.c:424-437)                              *)
Lockstep == \A t, u \in Thread : it[t] <= it[u] + 1

(* Every element is computed exactly once in each phase, and zoom is called  *)
(* between the phases, while nobody computes. (pthread_distrib.c:36-70)      *)
Work == INSTANCE PhasedWork WITH
  given   <- 0 .. next_element - 1,
  working <- {elem[t] : t \in Computing}

ImplementsPhases == Work!Spec

(* Nobody waits for ever, and the_compute returns.                           *)
(* (pthread_distrib.c:52-58, mandel.c:460-465)                               *)
Returns == at[Main] = "creating" ~> at[Main] = "absent"
===============================================================================
