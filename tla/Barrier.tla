------------------------------- MODULE Barrier --------------------------------
(***************************************************************************)
(* pthread_barrier.c, compiled where the system has no barriers, with the  *)
(* threads that use it, thread_starter_bloc and thread_starter_cyclic of   *)
(* mandel.c, and the main thread that creates them, works with them and    *)
(* joins them, in one call of the_compute after the other: in each         *)
(* iteration a thread computes its slice and joins the barrier, whose last *)
(* thread calls zoom().  pthread_barrier_wait is the same function without *)
(* the call.                                                               *)
(***************************************************************************)
EXTENDS Naturals, FiniteSets

CONSTANTS Thread, Main, \* the nb_threads threads, the one that is not created
          iterations,
          PhaseModulus  \* 2^32, the values of `phase'

limit == Cardinality(Thread)

ASSUME BarrierAssumption ==
  /\ IsFiniteSet(Thread) /\ Main \in Thread
  /\ iterations \in Nat \ {0}
  /\ PhaseModulus \in Nat /\ PhaseModulus > 1

VARIABLES count, phase,  \* pthread_barrier_t
          at,            \* where each thread is; "absent" between two calls
          it,            \* its iteration
          saved          \* its local variable `phase'

vars == <<count, phase, at, it, saved>>

TypeOK ==
  /\ count \in 0 .. limit - 1
  /\ phase \in 0 .. PhaseModulus - 1
  /\ at \in [Thread -> {"absent", "creating", "starting", "computing", "calling",
                       "waiting", "woken", "ended"}]
  /\ it \in [Thread -> 1 .. iterations + 1]
  /\ saved \in [Thread -> 0 .. PhaseModulus - 1]

Init ==
  /\ count = 0 /\ phase = 0
  /\ at = [t \in Thread |-> "absent"]
  /\ it = [t \in Thread |-> 1]
  /\ saved = [t \in Thread |-> 0]

-----------------------------------------------------------------------------

GoTo(t, place) == at' = [at EXCEPT ![t] = place]

(* The main thread: mandel_compute_thread, mandel_compute_thread_cyclic.     *)
(* pthread_barrier_init                                                      *)
CallCompute ==
  /\ at[Main] = "absent"
  /\ count' = 0 /\ phase' = 0
  /\ GoTo(Main, "creating")
  /\ UNCHANGED <<it, saved>>

(* pthread_create: the thread runs at once. *)
Create(t) ==
  /\ at[Main] = "creating" /\ at[t] = "absent"
  /\ GoTo(t, "starting")
  /\ UNCHANGED <<count, phase, it, saved>>

(* All are created, and the main thread does what they do. *)
Created ==
  /\ at[Main] = "creating" /\ \A t \in Thread : at[t] # "absent"
  /\ GoTo(Main, "starting")
  /\ UNCHANGED <<count, phase, it, saved>>

(* pthread_join of every thread, and the_compute returns. *)
Join ==
  /\ \A t \in Thread : at[t] = "ended"
  /\ at' = [t \in Thread |-> "absent"]
  /\ it' = [t \in Thread |-> 1]
  /\ saved' = [t \in Thread |-> 0]
  /\ UNCHANGED <<count, phase>>

-----------------------------------------------------------------------------
(* The threads. *)

(* The computation of the slice of t begins ... *)
Start(t) ==
  /\ at[t] = "starting"
  /\ GoTo(t, "computing")
  /\ UNCHANGED <<count, phase, it, saved>>

(* ... and ends. *)
Compute(t) ==
  /\ at[t] = "computing"
  /\ GoTo(t, "calling")
  /\ UNCHANGED <<count, phase, it, saved>>

(* Where a thread is that leaves the barrier of iteration k. *)
AfterIteration(k) == IF k < iterations THEN "starting" ELSE "ended"

(* pthread_cond_broadcast *)
Broadcast(a) == [u \in Thread |-> IF a[u] = "waiting" THEN "woken" ELSE a[u]]

Wait(t) ==
  /\ at[t] = "calling"
  /\ count + 1 < limit
  /\ count' = count + 1
  /\ saved' = [saved EXCEPT ![t] = phase]
  /\ GoTo(t, "waiting")
  /\ UNCHANGED <<phase, it>>

(* Mutant: `phase' is a flag that is set once. *)
LastSetsPhase(t) ==
  /\ at[t] = "calling"
  /\ count + 1 >= limit
  /\ phase' = 1
  /\ count' = 0
  /\ at' = Broadcast([at EXCEPT ![t] = AfterIteration(it[t])])
  /\ it' = [it EXCEPT ![t] = @ + 1]
  /\ UNCHANGED saved

(* The last thread: zoom(), broadcast, PTHREAD_BARRIER_SERIAL_THREAD.        *)
Last(t) ==
  /\ at[t] = "calling"
  /\ count + 1 >= limit
  /\ phase' = (phase + 1) % PhaseModulus
  /\ count' = 0
  /\ at' = Broadcast([at EXCEPT ![t] = AfterIteration(it[t])])
  /\ it' = [it EXCEPT ![t] = @ + 1]
  /\ UNCHANGED saved

(* pthread_cond_wait may return without a broadcast. *)
SpuriousWakeup(t) ==
  /\ at[t] = "waiting"
  /\ GoTo(t, "woken")
  /\ UNCHANGED <<count, phase, it, saved>>

(* Mutant: "if" for "while". *)
ResumeAnyway(t) ==
  /\ at[t] = "woken"
  /\ GoTo(t, AfterIteration(it[t]))
  /\ it' = [it EXCEPT ![t] = @ + 1]
  /\ UNCHANGED <<count, phase, saved>>

(* The test of the loop around pthread_cond_wait, then return 0. *)
Resume(t) ==
  /\ at[t] = "woken"
  /\ IF phase = saved[t]
     THEN GoTo(t, "waiting") /\ UNCHANGED it
     ELSE /\ GoTo(t, AfterIteration(it[t]))
          /\ it' = [it EXCEPT ![t] = @ + 1]
  /\ UNCHANGED <<count, phase, saved>>

-----------------------------------------------------------------------------

Step(t) == Start(t) \/ Compute(t) \/ Wait(t) \/ Last(t) \/ Resume(t)

MainStep == Created \/ Join \/ \E t \in Thread : Create(t)

Next ==
  \/ CallCompute \/ MainStep
  \/ \E t \in Thread : Step(t) \/ SpuriousWakeup(t)

Spec == Init /\ [][Next]_vars

(* The operating system runs every thread that is not waiting, and the       *)
(* computations end.                                                         *)
Fairness == WF_vars(MainStep) /\ \A t \in Thread : WF_vars(Step(t))

FairSpec == Spec /\ Fairness

-----------------------------------------------------------------------------

(* The threads that have come to the barrier in this phase.                  *)
Arrived == {t \in Thread : at[t] \in {"waiting", "woken"} /\ saved[t] = phase}

(* The slices whose computation has begun in this phase.                     *)
Given == {t \in Thread : at[t] \in {"computing", "calling"}} \cup Arrived

(* The barrier separates the iterations: each slice is computed exactly once *)
(* in each, and zoom is called between them, while nobody computes.          *)
(* (pthread_barrier.c:114-133, mandel.c:302-328)                             *)
Work == INSTANCE PhasedWork WITH
  Element <- Thread,
  given   <- Given,
  working <- {t \in Thread : at[t] = "computing"}

ImplementsPhases == Work!Spec

(* `count' counts the threads that wait for this phase to end, although      *)
(* `phase' wraps around and a thread may be late to leave the previous one.  *)
(* (pthread_barrier.c:117-120, 126-129)                                      *)
CountIsArrived == count = Cardinality(Arrived)

(* No thread waits at the barrier for ever, and the_compute returns.         *)
(* (pthread_barrier.c:126-129, mandel.c:349-354)                             *)
Returns == at[Main] = "creating" ~> at[Main] = "absent"
===============================================================================
