------------------------------ MODULE PhasedWork ------------------------------
(***************************************************************************)
(* What the threaded versions of mandel.c ask of pthread_distrib.c and of  *)
(* pthread_barrier.c: in each phase (an iteration) every element (a line,  *)
(* a tile, the slice of a thread) is computed exactly once, and a function *)
(* (zoom, which moves the window that the computations read) is called     *)
(* once between two phases, while nobody computes.                         *)
(***************************************************************************)
CONSTANT Element

VARIABLES given,   \* elements handed out in this phase
          working  \* elements being computed

Init == given = {} /\ working = {}

Give(e) ==
  /\ e \in Element \ given
  /\ given' = given \cup {e}
  /\ working' = working \cup {e}

Complete(e) ==
  /\ e \in working
  /\ working' = working \ {e}
  /\ UNCHANGED given

Finalize ==
  /\ given = Element
  /\ working = {}
  /\ given' = {}
  /\ UNCHANGED working

Next == (\E e \in Element : Give(e) \/ Complete(e)) \/ Finalize

Spec == Init /\ [][Next]_<<given, working>>
===============================================================================
