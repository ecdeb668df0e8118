---------------------------- MODULE Distrib_proofs ----------------------------
(***************************************************************************)
(* For any number of threads, elements and iterations, and any width of    *)
(* `phase' but zero bits: pthread_distrib_get shares the elements, and its *)
(* barrier separates the phases (Distrib implements PhasedWork) and leaves *)
(* never all threads asleep.  Then the same of pthread_barrier (Barrier    *)
(* implements PhasedWork).                                                 *)
(***************************************************************************)
EXTENDS Distrib, FiniteSetTheorems, TLAPS

(* A thread has ended when it has no iteration left.                         *)
InIteration == \A t \in Thread : at[t] = "ended" <=> it[t] = iterations + 1

(* Between two calls of the_compute there are no threads.                    *)
NobodyIsLeft == at[Main] = "absent" => \A t \in Thread : at[t] = "absent"

(* The invariant: that `count' counts the threads in Arrived makes the last  *)
(* one to come find all the others there, hence none computing.              *)
IInv == TypeOK /\ InIteration /\ NobodyIsLeft /\ CountIsArrived /\ ElementsAreShared

LEMMA LimitIsPositive == limit \in Nat /\ limit > 0
  BY DistribAssumption, FS_CardinalityType, FS_EmptySet DEF limit

(* The next phase is another one, even where `phase' wraps.                  *)
LEMMA NextPhase ==
  ASSUME TypeOK
  PROVE  /\ (phase + 1) % PhaseModulus \in 0 .. PhaseModulus - 1
         /\ (phase + 1) % PhaseModulus # phase
  <1>1. phase \in Nat /\ phase < PhaseModulus /\ PhaseModulus \in Nat /\ PhaseModulus > 1
    BY DistribAssumption DEF TypeOK
  <1>2. CASE phase + 1 < PhaseModulus
    BY <1>1, <1>2
  <1>3. CASE phase + 1 = PhaseModulus
    BY <1>1, <1>3
  <1> QED BY <1>1, <1>2, <1>3

LEMMA InitInv == Init => IInv
  <1> SUFFICES ASSUME Init PROVE IInv
    OBVIOUS
  <1> USE DistribAssumption
  <1>1. Arrived = {} /\ Computing = {}
    BY DEF Init, Arrived, Computing
  <1>2. CountIsArrived /\ ElementsAreShared
    BY <1>1, FS_EmptySet DEF Init, CountIsArrived, ElementsAreShared
  <1>3. TypeOK
    BY LimitIsPositive DEF Init, TypeOK, Element
  <1>4. InIteration /\ NobodyIsLeft
    BY DEF Init, InIteration, NobodyIsLeft
  <1> QED BY <1>2, <1>3, <1>4 DEF IInv

(* The last thread to come to the barrier is alone outside of it.            *)
LEMMA LastIsAlone ==
  ASSUME IInv, NEW t \in Thread, at[t] = "calling", count + 1 >= limit
  PROVE  Arrived = Thread \ {t}
  <1> USE DistribAssumption DEF IInv
  <1>1. IsFiniteSet(Thread \ {t}) /\ Cardinality(Thread \ {t}) = limit - 1
    BY FS_RemoveElement DEF limit
  <1>2. Arrived \in SUBSET (Thread \ {t})
    BY DEF Arrived
  <1>3. Cardinality(Arrived) = limit - 1
    BY LimitIsPositive DEF TypeOK, CountIsArrived
  <1> QED BY <1>1, <1>2, <1>3, FS_Subset

(* A step keeps IInv.                                                        *)
LEMMA StepInv == IInv /\ [Next]_vars => IInv'
  <1> SUFFICES ASSUME IInv, [Next]_vars PROVE IInv'
    OBVIOUS
  <1> USE DistribAssumption, LimitIsPositive DEF IInv
  <1>1. ASSUME NEW t \in Thread, GetElement(t) PROVE IInv'
    <2>1. /\ at[t] = "calling" /\ next_element < total_elements
          /\ next_element \in Element
          /\ elem' = [elem EXCEPT ![t] = next_element]
          /\ next_element' = next_element + 1
          /\ at' = [at EXCEPT ![t] = "computing"]
          /\ UNCHANGED <<count, phase, it, saved>>
      BY <1>1 DEF GetElement, TypeOK, Element
    <2>2. TypeOK' /\ InIteration' /\ NobodyIsLeft'
      BY <2>1 DEF TypeOK, InIteration, NobodyIsLeft
    <2>3. Arrived' = Arrived
      BY <2>1 DEF Arrived, TypeOK
    <2>4. CountIsArrived'
      BY <2>1, <2>3 DEF CountIsArrived
    <2>5. Computing' = Computing \cup {t}
      BY <2>1 DEF Computing, TypeOK
    <2>6. /\ elem'[t] = next_element
          /\ \A u \in Computing : u # t /\ elem'[u] = elem[u] /\ elem[u] < next_element
          /\ \A u \in Computing : elem[u] \in Nat
      BY <2>1 DEF Computing, TypeOK, ElementsAreShared, Element
    <2>7. ElementsAreShared'
      BY <2>1, <2>5, <2>6 DEF ElementsAreShared, TypeOK
    <2> QED BY <2>2, <2>4, <2>7
  <1>2. ASSUME NEW t \in Thread, Compute(t) PROVE IInv'
    <2>1. /\ at[t] = "computing"
          /\ at' = [at EXCEPT ![t] = "calling"]
          /\ UNCHANGED <<count, phase, next_element, it, elem, saved>>
      BY <1>2 DEF Compute
    <2>2. TypeOK' /\ InIteration' /\ NobodyIsLeft'
      BY <2>1 DEF TypeOK, InIteration, NobodyIsLeft
    <2>3. Arrived' = Arrived /\ Computing' \subseteq Computing
      BY <2>1 DEF Arrived, Computing, TypeOK
    <2>4. CountIsArrived' /\ ElementsAreShared'
      BY <2>1, <2>3 DEF CountIsArrived, ElementsAreShared
    <2> QED BY <2>2, <2>4
  <1>3. ASSUME NEW t \in Thread, Wait(t) PROVE IInv'
    <2>1. /\ at[t] = "calling" /\ count + 1 < limit
          /\ count' = count + 1
          /\ saved' = [saved EXCEPT ![t] = phase]
          /\ at' = [at EXCEPT ![t] = "waiting"]
          /\ UNCHANGED <<phase, next_element, it, elem>>
      BY <1>3 DEF Wait
    <2>2. TypeOK' /\ InIteration' /\ NobodyIsLeft'
      BY <2>1 DEF TypeOK, InIteration, NobodyIsLeft
    <2>3. Arrived' = Arrived \cup {t} /\ t \notin Arrived
      BY <2>1 DEF Arrived, TypeOK
    <2>4. IsFiniteSet(Arrived)
      BY FS_Subset DEF Arrived
    <2>5. CountIsArrived'
      BY <2>1, <2>3, <2>4, FS_AddElement DEF CountIsArrived
    <2>6. Computing' = Computing
      BY <2>1 DEF Computing, TypeOK
    <2>7. ElementsAreShared'
      BY <2>1, <2>6 DEF ElementsAreShared
    <2> QED BY <2>2, <2>5, <2>7
  <1>4. ASSUME NEW t \in Thread, Finalize(t) PROVE IInv'
    <2>1. /\ at[t] = "calling" /\ count + 1 >= limit
          /\ phase' = (phase + 1) % PhaseModulus /\ count' = 0 /\ next_element' = 0
          /\ at' = Broadcast([at EXCEPT ![t] = AfterIteration(it[t])])
          /\ it' = [it EXCEPT ![t] = @ + 1]
          /\ UNCHANGED <<elem, saved>>
      BY <1>4 DEF Finalize, BeginPhase
    <2>2. phase' \in 0 .. PhaseModulus - 1 /\ phase' # phase
      BY <2>1, NextPhase
    <2>3. Arrived = Thread \ {t}
      BY <2>1, LastIsAlone
    <2>4. /\ at'[t] = AfterIteration(it[t])
          /\ \A u \in Thread \ {t} : at'[u] = "woken" /\ saved[u] = phase
          /\ at' \in [Thread -> {"calling", "woken", "ended"}]
      BY <2>1, <2>3 DEF Broadcast, Arrived, TypeOK, AfterIteration
    <2>5. it[t] \in 1 .. iterations
      BY <2>1 DEF TypeOK, InIteration, NobodyIsLeft
    <2>6. TypeOK'
      <3>1. it' \in [Thread -> 1 .. iterations + 1]
        BY <2>1, <2>5 DEF TypeOK
      <3>2. count' \in 0 .. limit - 1 /\ next_element' \in 0 .. total_elements
        BY <2>1
      <3> QED BY <2>1, <2>2, <2>4, <3>1, <3>2 DEF TypeOK
    <2>7. InIteration' /\ NobodyIsLeft'
      <3>1. \A u \in Thread \ {t} : at[u] # "ended" /\ it'[u] = it[u]
        BY <2>1, <2>3 DEF Arrived, TypeOK
      <3>2. at'[t] = "ended" <=> it'[t] = iterations + 1
        BY <2>1, <2>4, <2>5 DEF AfterIteration, TypeOK
      <3>3. \A u \in Thread \ {t} : at'[u] # "ended" /\ it'[u] # iterations + 1
        BY <2>4, <3>1 DEF InIteration
      <3>4. at'[Main] # "absent"
        BY <2>4
      <3> QED BY <3>2, <3>3, <3>4 DEF InIteration, NobodyIsLeft
    <2>8. Arrived' = {} /\ Computing' = {}
      BY <2>1, <2>2, <2>4 DEF Arrived, Computing, AfterIteration
    <2>9. CountIsArrived' /\ ElementsAreShared'
      BY <2>1, <2>8, FS_EmptySet DEF CountIsArrived, ElementsAreShared
    <2> QED BY <2>6, <2>7, <2>9
  <1>5. ASSUME NEW t \in Thread, SpuriousWakeup(t) PROVE IInv'
    <2>1. /\ at[t] = "waiting"
          /\ at' = [at EXCEPT ![t] = "woken"]
          /\ UNCHANGED <<count, phase, next_element, it, elem, saved>>
      BY <1>5 DEF SpuriousWakeup
    <2>2. TypeOK' /\ InIteration' /\ NobodyIsLeft'
      BY <2>1 DEF TypeOK, InIteration, NobodyIsLeft
    <2>3. Arrived' = Arrived /\ Computing' = Computing
      BY <2>1 DEF Arrived, Computing, TypeOK
    <2>4. CountIsArrived' /\ ElementsAreShared'
      BY <2>1, <2>3 DEF CountIsArrived, ElementsAreShared
    <2> QED BY <2>2, <2>4
  <1>6. ASSUME NEW t \in Thread, Resume(t) PROVE IInv'
    <2>1. at[t] = "woken" /\ UNCHANGED <<count, phase, next_element, elem, saved>>
      BY <1>6 DEF Resume
    <2>2. it[t] \in 1 .. iterations
      BY <2>1 DEF TypeOK, InIteration, NobodyIsLeft
    <2>3. \/ /\ phase = saved[t]
             /\ at' = [at EXCEPT ![t] = "waiting"] /\ it' = it
          \/ /\ phase # saved[t]
             /\ at' = [at EXCEPT ![t] = AfterIteration(it[t])]
             /\ it' = [it EXCEPT ![t] = @ + 1]
      BY <1>6 DEF Resume
    <2>4. AfterIteration(it[t]) \in {"calling", "ended"}
      BY DEF AfterIteration
    <2>5. TypeOK'
      BY <2>1, <2>2, <2>3, <2>4 DEF TypeOK
    <2>6. InIteration' /\ NobodyIsLeft'
      BY <2>1, <2>2, <2>3 DEF InIteration, NobodyIsLeft, AfterIteration, TypeOK
    <2>7. Arrived' = Arrived /\ Computing' = Computing
      BY <2>1, <2>3, <2>4 DEF Arrived, Computing, TypeOK
    <2>8. CountIsArrived' /\ ElementsAreShared'
      BY <2>1, <2>7 DEF CountIsArrived, ElementsAreShared
    <2> QED BY <2>5, <2>6, <2>8
  <1>7. ASSUME CallCompute PROVE IInv'
    <2>1. /\ at[Main] = "absent" /\ count' = 0 /\ phase' = 0 /\ next_element' = 0
          /\ at' = [at EXCEPT ![Main] = "creating"]
          /\ UNCHANGED <<it, elem, saved>>
      BY <1>7 DEF CallCompute
    <2>2. TypeOK' /\ InIteration' /\ NobodyIsLeft'
      BY <2>1 DEF TypeOK, InIteration, NobodyIsLeft
    <2>3. Arrived' = {} /\ Computing' = {}
      BY <2>1 DEF Arrived, Computing, NobodyIsLeft, TypeOK
    <2>4. CountIsArrived' /\ ElementsAreShared'
      BY <2>1, <2>3, FS_EmptySet DEF CountIsArrived, ElementsAreShared
    <2> QED BY <2>2, <2>4
  <1>8. ASSUME Created \/ \E t \in Thread : Create(t) PROVE IInv'
    <2>1. PICK t \in Thread :
            /\ at[Main] = "creating" /\ at[t] \in {"absent", "creating"}
            /\ at' = [at EXCEPT ![t] = "calling"]
            /\ UNCHANGED <<count, phase, next_element, it, elem, saved>>
            /\ at[t] = "absent" => t # Main
            /\ at[t] = "creating" => \A u \in Thread : at[u] # "absent"
      BY <1>8 DEF Created, Create
    <2>2. TypeOK' /\ InIteration' /\ NobodyIsLeft'
      BY <2>1 DEF TypeOK, InIteration, NobodyIsLeft
    <2>3. Arrived' = Arrived /\ Computing' = Computing
      BY <2>1 DEF Arrived, Computing, TypeOK
    <2>4. CountIsArrived' /\ ElementsAreShared'
      BY <2>1, <2>3 DEF CountIsArrived, ElementsAreShared
    <2> QED BY <2>2, <2>4
  <1>9. ASSUME Join PROVE IInv'
    <2>1. /\ \A t \in Thread : at[t] = "ended"
          /\ at' = [t \in Thread |-> "absent"] /\ it' = [t \in Thread |-> 1]
          /\ elem' = [t \in Thread |-> 0] /\ saved' = [t \in Thread |-> 0]
          /\ UNCHANGED <<count, phase, next_element>>
      BY <1>9 DEF Join
    <2>2. TypeOK' /\ InIteration' /\ NobodyIsLeft'
      BY <2>1 DEF TypeOK, InIteration, NobodyIsLeft, Element
    <2>3. Arrived = {} /\ Arrived' = {} /\ Computing' = {}
      BY <2>1 DEF Arrived, Computing
    <2>4. CountIsArrived' /\ ElementsAreShared'
      BY <2>1, <2>3 DEF CountIsArrived, ElementsAreShared
    <2> QED BY <2>2, <2>4
  <1>10. ASSUME UNCHANGED vars PROVE IInv'
    BY <1>10 DEF vars, TypeOK, InIteration, NobodyIsLeft, CountIsArrived, ElementsAreShared,
                 Arrived, Computing
  <1> QED BY <1>1, <1>2, <1>3, <1>4, <1>5, <1>6, <1>7, <1>8, <1>9, <1>10
          DEF Next, MainStep, Step

THEOREM Invariant == Spec => []IInv
  BY InitInv, StepInv, PTL DEF Spec

(* Every variable keeps its type: in particular the counter stays below the  *)
(* number of threads, the phase within its width and the next element within *)
(* the array. (pthread_distrib.c:25-30)                                      *)
THEOREM TypeCorrect == Spec => []TypeOK
  BY Invariant, PTL DEF IInv

(* `count' is the number of threads waiting for this phase to end, although  *)
(* threads of the previous phase may not have left yet and `phase' wraps.    *)
(* (pthread_distrib.c:43-46)                                                 *)
THEOREM CountIsRight == Spec => []CountIsArrived
  BY Invariant, PTL DEF IInv

(* No element is computed by two threads. (pthread_distrib.c:65)             *)
THEOREM NoElementTwice == Spec => []ElementsAreShared
  BY Invariant, PTL DEF IInv

-----------------------------------------------------------------------------

(* The iteration a thread is in, or will be in when it has left the barrier. *)
Late(t) == at[t] \in {"waiting", "woken"} /\ saved[t] # phase
Turn(t) == IF Late(t) THEN it[t] + 1 ELSE it[t]
SameTurn == \A t, u \in Thread : Turn(t) = Turn(u)

(* Elements are only handed out in an iteration, and none when all have      *)
(* ended and until the_compute is called again.                              *)
HandsOut == next_element # 0 => \A t \in Thread : Turn(t) <= iterations
NothingLeft == at[Main] = "absent" => next_element = 0

TurnInv == SameTurn /\ HandsOut /\ NothingLeft

LEMMA InitTurnInv == Init => TurnInv
  BY DistribAssumption DEF Init, TurnInv, SameTurn, HandsOut, NothingLeft, Turn, Late

(* Only the end of a phase changes turns, and then everybody's.              *)
LEMMA StepTurnInv == IInv /\ TurnInv /\ [Next]_vars => TurnInv'
  <1> SUFFICES ASSUME IInv, TurnInv, [Next]_vars PROVE TurnInv'
    OBVIOUS
  <1> USE DistribAssumption DEF IInv
  <1>0. /\ Main \in Thread /\ iterations \in Nat
        /\ \A t \in Thread : Turn(t) \in Nat /\ it[t] \in 1 .. iterations + 1
    BY DEF Turn, TypeOK
  <1>1. ASSUME NEW t \in Thread, Finalize(t) PROVE TurnInv'
    <2>1. /\ at[t] = "calling" /\ count + 1 >= limit
          /\ phase' = (phase + 1) % PhaseModulus /\ next_element' = 0
          /\ at' = Broadcast([at EXCEPT ![t] = AfterIteration(it[t])])
          /\ it' = [it EXCEPT ![t] = @ + 1]
          /\ saved' = saved
      BY <1>1 DEF Finalize, BeginPhase
    <2>2. phase' # phase
      BY <2>1, NextPhase
    <2>3. Arrived = Thread \ {t}
      BY <2>1, LastIsAlone
    <2>4. \A u \in Thread \ {t} :
            at'[u] = "woken" /\ saved'[u] # phase' /\ it'[u] = it[u] /\ ~Late(u)
      BY <2>1, <2>2, <2>3 DEF Broadcast, Arrived, TypeOK, Late
    <2>5. at'[t] \in {"calling", "ended"} /\ it'[t] = it[t] + 1 /\ ~Late(t)
      BY <2>1 DEF Broadcast, AfterIteration, TypeOK, Late
    <2>6. \A u \in Thread : it[u] = it[t]
      BY <2>4, <2>5 DEF TurnInv, SameTurn, Turn
    <2>7. \A u \in Thread : Turn(u)' = it[t] + 1
      BY <2>4, <2>5, <2>6 DEF Turn, Late
    <2> QED BY <2>1, <2>7 DEF TurnInv, SameTurn, HandsOut, NothingLeft
  <1>2. ASSUME \A u \in Thread : Turn(u)' = Turn(u),
               next_element' = next_element \/ \E t \in Thread : GetElement(t),
               at[Main] # "absent", at'[Main] # "absent"
        PROVE  TurnInv'
    <2>1. SameTurn' /\ NothingLeft'
      BY <1>2 DEF TurnInv, SameTurn, NothingLeft
    <2>2. CASE next_element' = next_element
      BY <1>2, <2>1, <2>2 DEF TurnInv, HandsOut
    <2>3. ASSUME NEW t \in Thread, GetElement(t) PROVE HandsOut'
      <3>1. at[t] = "calling" /\ it[t] # iterations + 1
        BY <2>3 DEF GetElement, InIteration
      <3>2. Turn(t) <= iterations
        BY <1>0, <3>1 DEF Turn, Late
      <3>3. \A u \in Thread : Turn(u) <= iterations
        BY <3>2 DEF TurnInv, SameTurn
      <3> QED BY <1>2, <3>3 DEF HandsOut
    <2> QED BY <1>2, <2>1, <2>2, <2>3 DEF TurnInv
  <1>3. ASSUME NEW t \in Thread,
               GetElement(t) \/ Compute(t) \/ Wait(t) \/ SpuriousWakeup(t)
        PROVE  TurnInv'
    <2>1. \A u \in Thread : (Late(u)' <=> Late(u)) /\ it'[u] = it[u]
      BY <1>3 DEF GetElement, Compute, Wait, SpuriousWakeup, Late, TypeOK
    <2>2. at[t] # "absent" /\ (at'[Main] # "absent" \/ at'[Main] = at[Main])
      BY <1>3 DEF GetElement, Compute, Wait, SpuriousWakeup, TypeOK
    <2>3. at[Main] # "absent" /\ at'[Main] # "absent"
      BY <2>2 DEF NobodyIsLeft
    <2>4. next_element' = next_element \/ GetElement(t)
      BY <1>3 DEF Compute, Wait, SpuriousWakeup
    <2>5. \A u \in Thread : Turn(u)' = Turn(u)
      BY <2>1 DEF Turn
    <2> QED BY <1>2, <2>3, <2>4, <2>5
  <1>4. ASSUME NEW t \in Thread, Resume(t) PROVE TurnInv'
    <2>1. Turn(t)' = Turn(t)
      BY <1>4 DEF Resume, AfterIteration, Turn, Late, TypeOK
    <2>2. \A u \in Thread \ {t} : (Late(u)' <=> Late(u)) /\ it'[u] = it[u]
      BY <1>4 DEF Resume, Late, TypeOK
    <2>3. at[t] = "woken" /\ at'[t] # "absent" /\ next_element' = next_element
          /\ \A u \in Thread \ {t} : at'[u] = at[u]
      BY <1>4 DEF Resume, AfterIteration, TypeOK
    <2>4. at[Main] # "absent" /\ at'[Main] # "absent"
      BY <2>3 DEF NobodyIsLeft
    <2>5. \A u \in Thread : Turn(u)' = Turn(u)
      BY <2>1, <2>2 DEF Turn
    <2> QED BY <1>2, <2>3, <2>4, <2>5
  <1>5. ASSUME CallCompute PROVE TurnInv'
    <2>1. /\ at[Main] = "absent" /\ next_element' = 0 /\ it' = it
          /\ at' = [at EXCEPT ![Main] = "creating"]
      BY <1>5 DEF CallCompute
    <2>2. \A u \in Thread : ~Late(u) /\ ~Late(u)'
      BY <2>1 DEF Late, NobodyIsLeft, TypeOK
    <2>3. \A u \in Thread : Turn(u)' = Turn(u)
      BY <2>1, <2>2 DEF Turn
    <2> QED BY <2>1, <2>3 DEF TurnInv, SameTurn, HandsOut, NothingLeft
  <1>6. ASSUME Created \/ \E t \in Thread : Create(t) PROVE TurnInv'
    <2>1. PICK t \in Thread :
            /\ at[Main] = "creating" /\ at[t] \in {"absent", "creating"}
            /\ at' = [at EXCEPT ![t] = "calling"]
            /\ UNCHANGED <<phase, next_element, it, saved>>
      BY <1>6 DEF Created, Create
    <2>2. \A u \in Thread : (Late(u)' <=> Late(u)) /\ it'[u] = it[u]
      BY <2>1 DEF Late, TypeOK
    <2>3. at'[Main] # "absent" /\ \A u \in Thread : Turn(u)' = Turn(u)
      BY <2>1, <2>2 DEF Turn, TypeOK
    <2> QED BY <1>2, <2>1, <2>3
  <1>7. ASSUME Join PROVE TurnInv'
    <2>1. /\ \A t \in Thread : at[t] = "ended"
          /\ at' = [t \in Thread |-> "absent"] /\ it' = [t \in Thread |-> 1]
          /\ next_element' = next_element
      BY <1>7 DEF Join
    <2>2. Turn(Main) = iterations + 1
      BY <1>0, <2>1 DEF InIteration, Turn, Late
    <2>3. next_element = 0
      BY <1>0, <2>2 DEF TurnInv, HandsOut
    <2>4. \A u \in Thread : Turn(u)' = 1
      BY <2>1 DEF Turn, Late
    <2> QED BY <2>1, <2>3, <2>4 DEF TurnInv, SameTurn, HandsOut, NothingLeft
  <1>8. ASSUME UNCHANGED vars PROVE TurnInv'
    BY <1>8 DEF vars, TurnInv, SameTurn, HandsOut, NothingLeft, Turn, Late
  <1> QED BY <1>1, <1>3, <1>4, <1>5, <1>6, <1>7, <1>8 DEF Next, MainStep, Step

LEMMA SameTurnLockstep == TypeOK /\ TurnInv => Lockstep
  <1> SUFFICES ASSUME TypeOK, TurnInv, NEW t \in Thread, NEW u \in Thread
               PROVE  it[t] <= it[u] + 1
    BY DEF Lockstep
  <1>1. it[t] \in Nat /\ it[u] \in Nat
    BY DEF TypeOK
  <1> QED BY <1>1 DEF TurnInv, SameTurn, Turn

LEMMA TurnInvariant == Spec => []TurnInv
  BY Invariant, InitTurnInv, StepTurnInv, PTL DEF Spec

(* The iterations of any two threads differ by at most one.                  *)
(* (pthread_distrib.c:43-61, mandel.c:424-437)                               *)
THEOREM Synchronized == Spec => []Lockstep
  BY Invariant, TurnInvariant, SameTurnLockstep, PTL DEF IInv

-----------------------------------------------------------------------------

(* Each step of a thread is a step of PhasedWork or changes nothing there.   *)
LEMMA StepSimulates == IInv /\ TurnInv /\ [Next]_vars => [Work!Next]_<<0 .. next_element - 1, {elem[t] : t \in Computing}>>
  <1> SUFFICES ASSUME IInv, TurnInv, [Next]_vars
               PROVE  [Work!Next]_<<0 .. next_element - 1, {elem[t] : t \in Computing}>>
    OBVIOUS
  <1> USE DistribAssumption DEF IInv
  <1> DEFINE G == 0 .. next_element - 1
             W == {elem[t] : t \in Computing}
  <1>1. ASSUME NEW t \in Thread, GetElement(t) PROVE \E e \in Element : Work!Give(e)
    <2>1. /\ at[t] = "calling" /\ next_element \in Element
          /\ elem' = [elem EXCEPT ![t] = next_element]
          /\ next_element' = next_element + 1
          /\ at' = [at EXCEPT ![t] = "computing"]
      BY <1>1 DEF GetElement, TypeOK, Element
    <2>2. next_element \in Nat
      BY DEF TypeOK
    <2>3. next_element \in Element \ G /\ G' = G \cup {next_element}
      BY <2>1, <2>2
    <2>4. Computing' = Computing \cup {t} /\ t \notin Computing
      BY <2>1 DEF Computing, TypeOK
    <2>5. elem'[t] = next_element /\ \A u \in Computing : elem'[u] = elem[u]
      BY <2>1, <2>4 DEF Computing, TypeOK
    <2>6. W' = W \cup {next_element}
      BY <2>4, <2>5
    <2> QED BY <2>3, <2>6 DEF Work!Give
  <1>2. ASSUME NEW t \in Thread, Compute(t) PROVE \E e \in Element : Work!Complete(e)
    <2>1. at[t] = "computing" /\ at' = [at EXCEPT ![t] = "calling"]
          /\ UNCHANGED <<next_element, elem>>
      BY <1>2 DEF Compute
    <2>2. Computing' = Computing \ {t} /\ t \in Computing
      BY <2>1 DEF Computing, TypeOK
    <2>3. \A u \in Computing : elem[u] = elem[t] => u = t
      BY <2>2 DEF ElementsAreShared
    <2>4. W' = W \ {elem[t]} /\ elem[t] \in W /\ elem[t] \in Element
      BY <2>1, <2>2, <2>3 DEF TypeOK
    <2> QED BY <2>1, <2>4 DEF Work!Complete
  <1>3. ASSUME NEW t \in Thread, Finalize(t) PROVE Work!Finalize
    <2>1. /\ at[t] = "calling" /\ next_element = total_elements /\ count + 1 >= limit
          /\ next_element' = 0
          /\ at' = Broadcast([at EXCEPT ![t] = AfterIteration(it[t])])
      BY <1>3 DEF Finalize, BeginPhase
    <2>2. Arrived = Thread \ {t}
      BY <2>1, LastIsAlone
    <2>3. Computing = {}
      BY <2>1, <2>2 DEF Computing, Arrived
    <2>4. Computing' = {}
      BY <2>1, <2>2 DEF Computing, Arrived, Broadcast, AfterIteration, TypeOK
    <2>5. G = Element /\ G' = {}
      BY <2>1 DEF Element
    <2> QED BY <2>3, <2>4, <2>5 DEF Work!Finalize
  <1>4. ASSUME NEW t \in Thread, Wait(t) \/ SpuriousWakeup(t) \/ Resume(t)
        PROVE  UNCHANGED <<G, W>>
    <2>1. UNCHANGED <<next_element, elem>>
      BY <1>4 DEF Wait, SpuriousWakeup, Resume
    <2>2. Computing' = Computing
      BY <1>4 DEF Wait, SpuriousWakeup, Resume, AfterIteration, Computing, TypeOK
    <2> QED BY <2>1, <2>2
  <1>5. ASSUME UNCHANGED vars PROVE UNCHANGED <<G, W>>
    BY <1>5 DEF vars, Computing
  <1>6. ASSUME NEW t \in Thread, Step(t) \/ SpuriousWakeup(t)
        PROVE  Work!Next \/ UNCHANGED <<G, W>>
    <2>1. CASE GetElement(t)
      BY <2>1, <1>1 DEF Work!Next
    <2>2. CASE Compute(t)
      BY <2>2, <1>2 DEF Work!Next
    <2>3. CASE Finalize(t)
      BY <2>3, <1>3 DEF Work!Next
    <2>4. CASE Wait(t) \/ SpuriousWakeup(t) \/ Resume(t)
      BY <2>4, <1>4
    <2> QED BY <1>6, <2>1, <2>2, <2>3, <2>4 DEF Step
  <1>7. ASSUME CallCompute \/ MainStep PROVE UNCHANGED <<G, W>>
    <2>1. next_element' = next_element
      BY <1>7 DEF CallCompute, MainStep, Created, Join, Create, TurnInv, NothingLeft
    <2>2. CASE Join
      BY <2>1, <2>2 DEF Join, Computing
    <2>3. CASE CallCompute \/ Created \/ \E t \in Thread : Create(t)
      <3>1. Computing' = Computing /\ elem' = elem
        BY <2>3 DEF CallCompute, Created, Create, Computing, TypeOK
      <3> QED BY <2>1, <3>1
    <2> QED BY <1>7, <2>2, <2>3 DEF MainStep
  <1> HIDE DEF G, W
  <1>8. Work!Next \/ UNCHANGED <<G, W>>
    BY <1>5, <1>6, <1>7 DEF Next
  <1> QED BY <1>8 DEF G, W

LEMMA InitSimulates == Init => Work!Init
  BY DEF Init, Work!Init, Computing

(* pthread_distrib is a phased sharing of the elements: each is computed     *)
(* exactly once between two calls of zoom, which nobody computes during.     *)
(* (pthread_distrib.c:36-70)                                                 *)
THEOREM Refines == Spec => ImplementsPhases
  BY InitSimulates, StepSimulates, Invariant, TurnInvariant, PTL DEF Spec, ImplementsPhases, Work!Spec

-----------------------------------------------------------------------------
(* Who sleeps in pthread_cond_wait sleeps for the current phase: no          *)
(* broadcast has passed it by.                                               *)
NobodyOversleeps == \A t \in Thread : at[t] = "waiting" => saved[t] = phase

(* Only the main thread creates threads, and it computes when all are there. *)
AllAreCreated ==
  /\ \A t \in Thread : at[t] = "creating" => t = Main
  /\ at[Main] \notin {"absent", "creating"} => \A t \in Thread : at[t] # "absent"

(***************************************************************************)
(* The threads are never all at the barrier: as long as the_compute has    *)
(* not come to its joins, some thread computes, or calls the barrier, or   *)
(* is about to leave it.  A thread that a spurious wakeup sends back to    *)
(* sleep does not count.                                                   *)
(***************************************************************************)
SomebodyGoesOn ==
  at[Main] \notin {"absent", "creating"} =>
    \/ \A t \in Thread : at[t] = "ended"
    \/ \E t \in Thread : \/ at[t] \in {"starting", "computing", "calling"}
                         \/ at[t] = "woken" /\ saved[t] # phase

LEMMA InitAwake == Init => NobodyOversleeps /\ AllAreCreated
  BY DistribAssumption DEF Init, NobodyOversleeps, AllAreCreated

(* The broadcast wakes everybody who sleeps, and who goes back to sleep has  *)
(* looked at the phase.                                                      *)
LEMMA StepAwake ==
  IInv /\ NobodyOversleeps /\ AllAreCreated /\ [Next]_vars
    => NobodyOversleeps' /\ AllAreCreated'
  <1> SUFFICES ASSUME IInv, NobodyOversleeps, AllAreCreated, [Next]_vars
               PROVE  NobodyOversleeps' /\ AllAreCreated'
    OBVIOUS
  <1> USE DistribAssumption DEF IInv
  <1>1. ASSUME NEW t \in Thread, Finalize(t) PROVE NobodyOversleeps' /\ AllAreCreated'
    <2>1. /\ at[t] = "calling"
          /\ at' = Broadcast([at EXCEPT ![t] = AfterIteration(it[t])])
      BY <1>1 DEF Finalize
    <2>2. at'[t] \in {"calling", "ended"}
      BY <2>1 DEF Broadcast, AfterIteration, TypeOK
    <2>3. \A u \in Thread \ {t} : at'[u] = IF at[u] = "waiting" THEN "woken" ELSE at[u]
      BY <2>1 DEF Broadcast, TypeOK
    <2> QED BY <2>1, <2>2, <2>3 DEF NobodyOversleeps, AllAreCreated
  <1>2. ASSUME NEW t \in Thread,
               GetElement(t) \/ Compute(t) \/ Wait(t) \/ SpuriousWakeup(t) \/ Resume(t)
        PROVE  NobodyOversleeps' /\ AllAreCreated'
    <2>1. /\ at[t] \notin {"absent", "creating"} /\ at'[t] \notin {"absent", "creating"}
          /\ at'[t] = "waiting" => saved'[t] = phase'
          /\ \A u \in Thread \ {t} : at'[u] = at[u] /\ saved'[u] = saved[u]
          /\ phase' = phase
      BY <1>2 DEF GetElement, Compute, Wait, SpuriousWakeup, Resume, AfterIteration, TypeOK
    <2> QED BY <2>1 DEF NobodyOversleeps, AllAreCreated
  <1>3. CASE CallCompute
    BY <1>3 DEF CallCompute, NobodyOversleeps, AllAreCreated, NobodyIsLeft, TypeOK
  <1>4. ASSUME NEW t \in Thread, Create(t) PROVE NobodyOversleeps' /\ AllAreCreated'
    BY <1>4 DEF Create, NobodyOversleeps, AllAreCreated, TypeOK
  <1>5. CASE Created
    BY <1>5 DEF Created, NobodyOversleeps, AllAreCreated, TypeOK
  <1>6. CASE Join
    BY <1>6 DEF Join, NobodyOversleeps, AllAreCreated
  <1>7. CASE UNCHANGED vars
    BY <1>7 DEF vars, NobodyOversleeps, AllAreCreated
  <1> QED BY <1>1, <1>2, <1>3, <1>4, <1>5, <1>6, <1>7 DEF Next, MainStep, Step

(* If all had come to the barrier, the last would have ended the phase; and  *)
(* none has ended while another waits for its iteration.                     *)
LEMMA NotAllWait == IInv /\ TurnInv /\ NobodyOversleeps /\ AllAreCreated => SomebodyGoesOn
  <1> SUFFICES ASSUME IInv, TurnInv, NobodyOversleeps, AllAreCreated,
                      at[Main] \notin {"absent", "creating"},
                      ~ \E t \in Thread : \/ at[t] \in {"starting", "computing", "calling"}
                                          \/ at[t] = "woken" /\ saved[t] # phase
               PROVE  \A t \in Thread : at[t] = "ended"
    BY DEF SomebodyGoesOn
  <1> USE DistribAssumption DEF IInv
  <1>1. \A t \in Thread : t \in Arrived \/ at[t] = "ended"
    BY DEF AllAreCreated, NobodyOversleeps, Arrived, TypeOK
  <1>2. PICK e \in Thread : at[e] = "ended"
    <2> SUFFICES ASSUME \A t \in Thread : at[t] # "ended" PROVE FALSE
      OBVIOUS
    <2>1. Arrived = Thread
      BY <1>1 DEF Arrived
    <2>2. count = limit
      BY <2>1 DEF CountIsArrived, limit
    <2> QED BY <2>2, LimitIsPositive DEF TypeOK
  <1>3. ASSUME NEW t \in Arrived PROVE FALSE
    <2>1. t \in Thread /\ at[t] # "ended" /\ ~Late(t) /\ ~Late(e)
      BY <1>2, <1>3 DEF Arrived, Late
    <2>2. it[t] = it[e]
      BY <2>1 DEF TurnInv, SameTurn, Turn
    <2> QED BY <1>2, <2>1, <2>2 DEF InIteration
  <1> QED BY <1>1, <1>3

(* No deadlock: the calls of pthread_distrib_get never leave all threads     *)
(* asleep, whatever wakeups come for nothing. (pthread_distrib.c:43-61)      *)
THEOREM NeverAllAsleep == Spec => []SomebodyGoesOn
  <1>1. Spec => [](NobodyOversleeps /\ AllAreCreated)
    BY InitAwake, StepAwake, Invariant, PTL DEF Spec
  <1> QED BY <1>1, Invariant, TurnInvariant, NotAllWait, PTL

-----------------------------------------------------------------------------
(***************************************************************************)
(* The barrier of pthread_barrier.c: the same constants and variables, but *)
(* for the elements.                                                       *)
(***************************************************************************)
B == INSTANCE Barrier

LEMMA SameCardinality == \A S : B!Cardinality(S) = Cardinality(S)
  BY DEF B!Cardinality, Cardinality


(* A thread that has not ended has an iteration left.                        *)
BarrierInIteration == \A t \in Thread : at[t] # "ended" => it[t] <= iterations

(* Between two calls of the_compute there are no threads.                    *)
BarrierNobodyIsLeft == at[Main] = "absent" => \A t \in Thread : at[t] = "absent"

(* The invariant: that `count' counts exactly the threads in Arrived makes   *)
(* the last one to come find all the others there, none still computing.     *)
BarrierIInv == B!TypeOK /\ BarrierInIteration /\ BarrierNobodyIsLeft /\ B!CountIsArrived

LEMMA BarrierLimitIsPositive == B!limit \in Nat /\ B!limit > 0
  BY DistribAssumption, FS_CardinalityType, FS_EmptySet, SameCardinality DEF B!limit

LEMMA BarrierInitInv == B!Init => BarrierIInv
  <1> SUFFICES ASSUME B!Init PROVE BarrierIInv
    OBVIOUS
  <1> USE DistribAssumption, BarrierLimitIsPositive
  <1>1. B!Arrived = {}
    BY DEF B!Init, B!Arrived
  <1>2. B!CountIsArrived
    BY <1>1, FS_EmptySet, SameCardinality DEF B!Init, B!CountIsArrived
  <1>3. B!TypeOK /\ BarrierInIteration /\ BarrierNobodyIsLeft
    BY DEF B!Init, B!TypeOK, BarrierInIteration, BarrierNobodyIsLeft
  <1> QED BY <1>2, <1>3 DEF BarrierIInv

(* The last thread finds every other one at the barrier, in this phase.      *)
LEMMA BarrierOthersWait ==
  ASSUME BarrierIInv, NEW t \in Thread, at[t] = "calling", count + 1 >= B!limit
  PROVE  B!Arrived = Thread \ {t}
  <1> USE DistribAssumption DEF BarrierIInv
  <1>1. IsFiniteSet(Thread \ {t}) /\ Cardinality(Thread \ {t}) = B!limit - 1
    BY FS_RemoveElement, SameCardinality DEF B!limit
  <1>2. B!Arrived \in SUBSET (Thread \ {t})
    BY DEF B!Arrived
  <1>3. Cardinality(B!Arrived) = B!limit - 1
    BY BarrierLimitIsPositive, SameCardinality DEF B!TypeOK, B!CountIsArrived
  <1> QED BY <1>1, <1>2, <1>3, FS_Subset

(* The next phase is another one, even where `phase' wraps.                  *)
LEMMA BarrierNextPhase ==
  ASSUME B!TypeOK
  PROVE  /\ (phase + 1) % PhaseModulus \in 0 .. PhaseModulus - 1
         /\ (phase + 1) % PhaseModulus # phase
  <1>1. phase \in Nat /\ phase < PhaseModulus /\ PhaseModulus \in Nat /\ PhaseModulus > 1
    BY DistribAssumption DEF B!TypeOK
  <1>2. CASE phase + 1 < PhaseModulus
    BY <1>1, <1>2
  <1>3. CASE phase + 1 = PhaseModulus
    BY <1>1, <1>3
  <1> QED BY <1>1, <1>2, <1>3

(* What the step of the last thread does to every thread.                    *)
LEMMA BarrierLastWakesAll ==
  ASSUME BarrierIInv, NEW t \in Thread, B!Last(t)
  PROVE  /\ B!Arrived = Thread \ {t}
         /\ it[t] \in 1 .. iterations
         /\ at'[t] = B!AfterIteration(it[t])
         /\ at' \in [Thread -> {"starting", "woken", "ended"}]
         /\ \A u \in Thread \ {t} : at'[u] = "woken" /\ saved'[u] = phase
  <1>1. /\ at[t] = "calling" /\ count + 1 >= B!limit
        /\ at' = B!Broadcast([at EXCEPT ![t] = B!AfterIteration(it[t])])
        /\ saved' = saved
    BY DEF B!Last
  <1>2. B!Arrived = Thread \ {t}
    BY <1>1, BarrierOthersWait
  <1>3. it[t] \in 1 .. iterations
    BY <1>1 DEF BarrierIInv, B!TypeOK, BarrierInIteration, BarrierNobodyIsLeft
  <1>4. /\ at'[t] = B!AfterIteration(it[t])
        /\ \A u \in Thread \ {t} : at'[u] = "woken" /\ saved'[u] = phase
    BY <1>1, <1>2 DEF B!Broadcast, B!Arrived, BarrierIInv, B!TypeOK, B!AfterIteration
  <1>5. at' \in [Thread -> {"starting", "woken", "ended"}]
    BY <1>1, <1>4 DEF B!Broadcast, B!AfterIteration
  <1> QED BY <1>2, <1>3, <1>4, <1>5

(* A step keeps IInv.                                                        *)
LEMMA BarrierStepInv == BarrierIInv /\ [B!Next]_(B!vars) => BarrierIInv'
  <1> SUFFICES ASSUME BarrierIInv, [B!Next]_(B!vars) PROVE BarrierIInv'
    OBVIOUS
  <1> USE DistribAssumption, BarrierLimitIsPositive DEF BarrierIInv
  <1>1. ASSUME NEW t \in Thread, B!Start(t) \/ B!Compute(t) \/ B!SpuriousWakeup(t)
        PROVE  BarrierIInv'
    <2>1. UNCHANGED <<count, phase, it, saved>>
      BY <1>1 DEF B!Start, B!Compute, B!SpuriousWakeup
    <2>2. B!TypeOK' /\ BarrierInIteration' /\ BarrierNobodyIsLeft'
      BY <1>1, <2>1 DEF B!Start, B!Compute, B!SpuriousWakeup, B!GoTo, B!TypeOK, BarrierInIteration, BarrierNobodyIsLeft
    <2>3. B!Arrived' = B!Arrived
      BY <1>1 DEF B!Start, B!Compute, B!SpuriousWakeup, B!GoTo, B!Arrived, B!TypeOK
    <2> QED BY <2>1, <2>2, <2>3 DEF B!CountIsArrived
  <1>2. ASSUME NEW t \in Thread, B!Wait(t) PROVE BarrierIInv'
    <2>1. /\ at[t] = "calling" /\ count + 1 < B!limit
          /\ count' = count + 1
          /\ saved' = [saved EXCEPT ![t] = phase]
          /\ at' = [at EXCEPT ![t] = "waiting"]
          /\ UNCHANGED <<phase, it>>
      BY <1>2 DEF B!Wait, B!GoTo
    <2>2. B!TypeOK' /\ BarrierInIteration' /\ BarrierNobodyIsLeft'
      BY <2>1 DEF B!TypeOK, BarrierInIteration, BarrierNobodyIsLeft
    <2>3. B!Arrived' = B!Arrived \cup {t} /\ t \notin B!Arrived
      BY <2>1 DEF B!Arrived, B!TypeOK
    <2>4. IsFiniteSet(B!Arrived)
      BY FS_Subset DEF B!Arrived
    <2>5. B!CountIsArrived'
      BY <2>1, <2>3, <2>4, FS_AddElement, SameCardinality DEF B!CountIsArrived
    <2> QED BY <2>2, <2>5
  <1>3. ASSUME NEW t \in Thread, B!Last(t) PROVE BarrierIInv'
    <2>1. /\ phase' = (phase + 1) % PhaseModulus /\ count' = 0
          /\ it' = [it EXCEPT ![t] = @ + 1] /\ saved' = saved
      BY <1>3 DEF B!Last
    <2>2. /\ B!Arrived = Thread \ {t} /\ it[t] \in 1 .. iterations
          /\ at'[t] = B!AfterIteration(it[t])
          /\ at' \in [Thread -> {"starting", "woken", "ended"}]
          /\ \A u \in Thread \ {t} : at'[u] = "woken" /\ saved'[u] = phase
      BY <1>3, BarrierLastWakesAll
    <2>3. phase' \in 0 .. PhaseModulus - 1 /\ phase' # phase
      BY <2>1, BarrierNextPhase
    <2>4. B!TypeOK'
      <3>1. it' \in [Thread -> 1 .. iterations + 1]
        BY <2>1, <2>2 DEF B!TypeOK
      <3>2. count' \in 0 .. B!limit - 1
        BY <2>1
      <3> QED BY <2>1, <2>2, <2>3, <3>1, <3>2 DEF B!TypeOK
    <2>5. BarrierInIteration' /\ BarrierNobodyIsLeft'
      <3>1. \A u \in Thread \ {t} : at[u] # "ended" /\ it'[u] = it[u]
        BY <2>1, <2>2 DEF B!Arrived, B!TypeOK
      <3>2. at'[t] # "ended" => it'[t] <= iterations
        BY <2>1, <2>2 DEF B!AfterIteration, B!TypeOK
      <3>3. at'[Main] # "absent"
        BY <2>2
      <3> QED BY <3>1, <3>2, <3>3 DEF BarrierInIteration, BarrierNobodyIsLeft
    <2>6. B!Arrived' = {}
      BY <2>2, <2>3 DEF B!Arrived, B!AfterIteration
    <2>7. B!CountIsArrived'
      BY <2>1, <2>6, FS_EmptySet, SameCardinality DEF B!CountIsArrived
    <2> QED BY <2>4, <2>5, <2>7
  <1>4. ASSUME NEW t \in Thread, B!Resume(t) PROVE BarrierIInv'
    <2>1. at[t] = "woken" /\ UNCHANGED <<count, phase, saved>>
      BY <1>4 DEF B!Resume
    <2>2. it[t] \in 1 .. iterations
      BY <2>1 DEF B!TypeOK, BarrierInIteration, BarrierNobodyIsLeft
    <2>3. \/ /\ phase = saved[t]
             /\ at' = [at EXCEPT ![t] = "waiting"] /\ it' = it
          \/ /\ phase # saved[t]
             /\ at' = [at EXCEPT ![t] = B!AfterIteration(it[t])]
             /\ it' = [it EXCEPT ![t] = @ + 1]
      BY <1>4 DEF B!Resume, B!GoTo
    <2>4. B!AfterIteration(it[t]) \in {"starting", "ended"}
      BY DEF B!AfterIteration
    <2>5. B!TypeOK'
      BY <2>1, <2>2, <2>3, <2>4 DEF B!TypeOK
    <2>6. BarrierInIteration' /\ BarrierNobodyIsLeft'
      BY <2>1, <2>2, <2>3 DEF BarrierInIteration, BarrierNobodyIsLeft, B!AfterIteration, B!TypeOK
    <2>7. B!Arrived' = B!Arrived
      BY <2>1, <2>3, <2>4 DEF B!Arrived, B!TypeOK
    <2> QED BY <2>1, <2>5, <2>6, <2>7 DEF B!CountIsArrived
  <1>5. ASSUME B!CallCompute PROVE BarrierIInv'
    <2>1. /\ at[Main] = "absent" /\ count' = 0 /\ phase' = 0
          /\ at' = [at EXCEPT ![Main] = "creating"]
          /\ UNCHANGED <<it, saved>>
      BY <1>5 DEF B!CallCompute, B!GoTo
    <2>2. B!TypeOK' /\ BarrierInIteration' /\ BarrierNobodyIsLeft'
      BY <2>1 DEF B!TypeOK, BarrierInIteration, BarrierNobodyIsLeft
    <2>3. B!Arrived' = {}
      BY <2>1 DEF B!Arrived, BarrierNobodyIsLeft, B!TypeOK
    <2> QED BY <2>1, <2>2, <2>3, FS_EmptySet, SameCardinality DEF B!CountIsArrived
  <1>6. ASSUME B!Created \/ \E t \in Thread : B!Create(t) PROVE BarrierIInv'
    <2>1. PICK t \in Thread :
            /\ at[Main] = "creating" /\ at[t] \in {"absent", "creating"}
            /\ at' = [at EXCEPT ![t] = "starting"]
            /\ UNCHANGED <<count, phase, it, saved>>
      BY <1>6 DEF B!Created, B!Create, B!GoTo
    <2>2. B!TypeOK' /\ BarrierInIteration' /\ BarrierNobodyIsLeft'
      BY <2>1 DEF B!TypeOK, BarrierInIteration, BarrierNobodyIsLeft
    <2>3. B!Arrived' = B!Arrived
      BY <2>1 DEF B!Arrived, B!TypeOK
    <2> QED BY <2>1, <2>2, <2>3 DEF B!CountIsArrived
  <1>7. ASSUME B!Join PROVE BarrierIInv'
    <2>1. /\ \A t \in Thread : at[t] = "ended"
          /\ at' = [t \in Thread |-> "absent"] /\ it' = [t \in Thread |-> 1]
          /\ saved' = [t \in Thread |-> 0]
          /\ UNCHANGED <<count, phase>>
      BY <1>7 DEF B!Join
    <2>2. B!TypeOK' /\ BarrierInIteration' /\ BarrierNobodyIsLeft'
      BY <2>1 DEF B!TypeOK, BarrierInIteration, BarrierNobodyIsLeft
    <2>3. B!Arrived = {} /\ B!Arrived' = {}
      BY <2>1 DEF B!Arrived
    <2> QED BY <2>1, <2>2, <2>3 DEF B!CountIsArrived
  <1>8. ASSUME UNCHANGED B!vars PROVE BarrierIInv'
    BY <1>8 DEF B!vars, B!TypeOK, BarrierInIteration, BarrierNobodyIsLeft, B!CountIsArrived, B!Arrived
  <1> QED BY <1>1, <1>2, <1>3, <1>4, <1>5, <1>6, <1>7, <1>8 DEF B!Next, B!MainStep, B!Step

THEOREM BarrierInvariant == B!Spec => []BarrierIInv
  BY BarrierInitInv, BarrierStepInv, PTL DEF B!Spec

(* Every variable keeps its type: the counter stays below the number of      *)
(* threads and the phase within its width. (pthread_barrier.c:80-82)         *)
THEOREM BarrierTypeCorrect == B!Spec => []B!TypeOK
  BY BarrierInvariant, PTL DEF BarrierIInv

(* `count' is the number of threads that wait for this phase to end,         *)
(* although threads may be late to leave the previous one and `phase' wraps. *)
(* (pthread_barrier.c:117-120, 126-129)                                      *)
THEOREM BarrierCountIsRight == B!Spec => []B!CountIsArrived
  BY BarrierInvariant, PTL DEF BarrierIInv

-----------------------------------------------------------------------------

BarrierComputing == {t \in Thread : at[t] = "computing"}

LEMMA BarrierInitSimulates == B!Init => B!Work!Init
  BY DEF B!Init, B!Work!Init, B!Given, B!Arrived

(* Each step of a thread is a step of PhasedWork or changes nothing there.   *)
LEMMA BarrierStepSimulates == BarrierIInv /\ [B!Next]_(B!vars) => [B!Work!Next]_<<B!Given, {t \in Thread : at[t] = "computing"}>>
  <1> SUFFICES ASSUME BarrierIInv, [B!Next]_(B!vars) PROVE [B!Work!Next]_<<B!Given, BarrierComputing>>
    BY DEF BarrierComputing
  <1> USE DistribAssumption DEF BarrierIInv
  <1>1. ASSUME NEW t \in Thread, B!Start(t) PROVE B!Work!Give(t)
    <2>1. /\ at[t] = "starting" /\ at' = [at EXCEPT ![t] = "computing"]
          /\ UNCHANGED <<phase, saved>>
      BY <1>1 DEF B!Start, B!GoTo
    <2>2. t \notin B!Given /\ B!Given' = B!Given \cup {t}
      BY <2>1 DEF B!Given, B!Arrived, B!TypeOK
    <2>3. BarrierComputing' = BarrierComputing \cup {t}
      BY <2>1 DEF BarrierComputing, B!TypeOK
    <2> QED BY <2>2, <2>3 DEF B!Work!Give, BarrierComputing
  <1>2. ASSUME NEW t \in Thread, B!Compute(t) PROVE B!Work!Complete(t)
    <2>1. /\ at[t] = "computing" /\ at' = [at EXCEPT ![t] = "calling"]
          /\ UNCHANGED <<phase, saved>>
      BY <1>2 DEF B!Compute, B!GoTo
    <2>2. B!Given' = B!Given
      BY <2>1 DEF B!Given, B!Arrived, B!TypeOK
    <2>3. t \in BarrierComputing /\ BarrierComputing' = BarrierComputing \ {t}
      BY <2>1 DEF BarrierComputing, B!TypeOK
    <2> QED BY <2>2, <2>3 DEF B!Work!Complete, BarrierComputing
  <1>3. ASSUME NEW t \in Thread, B!Last(t) PROVE B!Work!Finalize
    <2>1. at[t] = "calling" /\ phase' = (phase + 1) % PhaseModulus
      BY <1>3 DEF B!Last
    <2>2. /\ B!Arrived = Thread \ {t}
          /\ at' \in [Thread -> {"starting", "woken", "ended"}]
          /\ at'[t] = B!AfterIteration(it[t])
          /\ \A u \in Thread \ {t} : at'[u] = "woken" /\ saved'[u] = phase
      BY <1>3, BarrierLastWakesAll
    <2>3. phase' # phase
      BY <2>1, BarrierNextPhase
    <2>4. B!Given = Thread /\ BarrierComputing = {}
      BY <2>1, <2>2 DEF B!Given, BarrierComputing, B!Arrived
    <2>5. B!Given' = {} /\ BarrierComputing' = {}
      BY <2>2, <2>3 DEF B!Given, BarrierComputing, B!Arrived, B!AfterIteration
    <2> QED BY <2>4, <2>5 DEF B!Work!Finalize, BarrierComputing
  <1>4. ASSUME NEW t \in Thread, B!Wait(t) \/ B!SpuriousWakeup(t) \/ B!Resume(t)
        PROVE  UNCHANGED <<B!Given, BarrierComputing>>
    <2>1. CASE B!Wait(t)
      BY <2>1 DEF B!Wait, B!GoTo, B!Given, B!Arrived, BarrierComputing, B!TypeOK
    <2>2. CASE B!SpuriousWakeup(t)
      BY <2>2 DEF B!SpuriousWakeup, B!GoTo, B!Given, B!Arrived, BarrierComputing, B!TypeOK
    <2>3. CASE B!Resume(t)
      BY <2>3 DEF B!Resume, B!GoTo, B!AfterIteration, B!Given, B!Arrived, BarrierComputing, B!TypeOK
    <2> QED BY <1>4, <2>1, <2>2, <2>3
  <1>5. ASSUME UNCHANGED B!vars PROVE UNCHANGED <<B!Given, BarrierComputing>>
    BY <1>5 DEF B!vars, B!Given, B!Arrived, BarrierComputing
  <1>6. ASSUME NEW t \in Thread, B!Step(t) \/ B!SpuriousWakeup(t)
        PROVE  B!Work!Next \/ UNCHANGED <<B!Given, BarrierComputing>>
    <2>1. CASE B!Start(t)
      BY <2>1, <1>1 DEF B!Work!Next
    <2>2. CASE B!Compute(t)
      BY <2>2, <1>2 DEF B!Work!Next
    <2>3. CASE B!Last(t)
      BY <2>3, <1>3 DEF B!Work!Next
    <2>4. CASE B!Wait(t) \/ B!SpuriousWakeup(t) \/ B!Resume(t)
      BY <2>4, <1>4
    <2> QED BY <1>6, <2>1, <2>2, <2>3, <2>4 DEF B!Step
  <1>7. ASSUME B!CallCompute \/ B!MainStep PROVE UNCHANGED <<B!Given, BarrierComputing>>
    <2>1. CASE B!CallCompute
      BY <2>1 DEF B!CallCompute, B!GoTo, BarrierNobodyIsLeft, B!Given, B!Arrived, BarrierComputing, B!TypeOK
    <2>2. CASE B!Join
      BY <2>2 DEF B!Join, B!Given, B!Arrived, BarrierComputing
    <2>3. CASE B!Created \/ \E t \in Thread : B!Create(t)
      BY <2>3 DEF B!Created, B!Create, B!GoTo, B!Given, B!Arrived, BarrierComputing, B!TypeOK
    <2> QED BY <1>7, <2>1, <2>2, <2>3 DEF B!MainStep
  <1> QED BY <1>5, <1>6, <1>7 DEF B!Next

(* The barrier separates the iterations: every slice is computed exactly     *)
(* once between two calls of zoom, which nobody computes during.             *)
(* (pthread_barrier.c:114-133, mandel.c:302-328)                             *)
THEOREM BarrierRefines == B!Spec => B!ImplementsPhases
  BY BarrierInitSimulates, BarrierStepSimulates, BarrierInvariant, PTL DEF B!Spec, B!ImplementsPhases, B!Work!Spec

-----------------------------------------------------------------------------
(* Every thread of the barrier is in the same iteration, counting one that   *)
(* is late to leave it as in the next.                                       *)
BarrierEnded == \A t \in Thread : at[t] = "ended" => it[t] = iterations + 1

BarrierAwake == SameTurn /\ BarrierEnded /\ NobodyOversleeps /\ AllAreCreated

LEMMA BarrierInitAwake == B!Init => BarrierAwake
  BY DistribAssumption DEF B!Init, BarrierAwake, SameTurn, Turn, Late, BarrierEnded,
     NobodyOversleeps, AllAreCreated

LEMMA BarrierStepAwake == BarrierIInv /\ BarrierAwake /\ [B!Next]_(B!vars) => BarrierAwake'
  <1> SUFFICES ASSUME BarrierIInv, BarrierAwake, [B!Next]_(B!vars) PROVE BarrierAwake'
    OBVIOUS
  <1> USE DistribAssumption DEF BarrierIInv
  <1>1. ASSUME NEW t \in Thread, B!Last(t) PROVE BarrierAwake'
    <2>1. /\ phase' = (phase + 1) % PhaseModulus
          /\ it' = [it EXCEPT ![t] = @ + 1] /\ saved' = saved
          /\ at[t] = "calling"
      BY <1>1 DEF B!Last
    <2>2. /\ B!Arrived = Thread \ {t} /\ it[t] \in 1 .. iterations
          /\ at'[t] = B!AfterIteration(it[t])
          /\ at' \in [Thread -> {"starting", "woken", "ended"}]
          /\ \A u \in Thread \ {t} : at'[u] = "woken" /\ saved'[u] = phase
      BY <1>1, BarrierLastWakesAll
    <2>3. phase' # phase
      BY <2>1, BarrierNextPhase
    <2>4. \A u \in Thread \ {t} : ~Late(u) /\ Late(u)' /\ it'[u] = it[u]
      BY <2>1, <2>2, <2>3 DEF B!Arrived, B!TypeOK, Late
    <2>5. /\ at'[t] \in {"starting", "ended"} /\ ~Late(t) /\ ~Late(t)'
          /\ it'[t] = it[t] + 1
      BY <2>1, <2>2 DEF B!AfterIteration, B!TypeOK, Late
    <2>6. \A u \in Thread : it[u] = it[t]
      BY <2>4, <2>5 DEF BarrierAwake, SameTurn, Turn
    <2>7. \A u \in Thread : Turn(u)' = it[t] + 1
      BY <2>4, <2>5, <2>6 DEF Turn
    <2>8. BarrierEnded'
      BY <2>2, <2>5 DEF BarrierEnded, B!AfterIteration
    <2>9. NobodyOversleeps' /\ AllAreCreated'
      BY <2>2, <2>5 DEF NobodyOversleeps, AllAreCreated
    <2> QED BY <2>7, <2>8, <2>9 DEF BarrierAwake, SameTurn
  <1>2. ASSUME NEW t \in Thread,
               /\ at[t] \notin {"absent", "creating", "ended"}
               /\ at'[t] \notin {"absent", "creating"}
               /\ at'[t] = "waiting" => saved'[t] = phase'
               /\ at'[t] = "ended" => it'[t] = iterations + 1
               /\ Turn(t)' = Turn(t)
               /\ \A u \in Thread \ {t} :
                    at'[u] = at[u] /\ saved'[u] = saved[u] /\ it'[u] = it[u]
               /\ phase' = phase
        PROVE  BarrierAwake'
    <2>1. \A u \in Thread : Turn(u)' = Turn(u)
      BY <1>2 DEF Turn, Late
    <2> QED BY <1>2, <2>1 DEF BarrierAwake, SameTurn, BarrierEnded, NobodyOversleeps,
                              AllAreCreated
  <1>3. ASSUME NEW t \in Thread,
               B!Start(t) \/ B!Compute(t) \/ B!Wait(t) \/ B!SpuriousWakeup(t)
        PROVE  BarrierAwake'
    <2>1. /\ at[t] \notin {"absent", "creating", "ended"}
          /\ at'[t] \in {"computing", "calling", "waiting", "woken"}
          /\ at'[t] = "waiting" => saved'[t] = phase'
          /\ Late(t)' <=> Late(t)
          /\ \A u \in Thread \ {t} : at'[u] = at[u] /\ saved'[u] = saved[u]
          /\ phase' = phase /\ it' = it
      BY <1>3 DEF B!Start, B!Compute, B!Wait, B!SpuriousWakeup, B!GoTo, B!TypeOK, Late
    <2>2. Turn(t)' = Turn(t)
      BY <2>1 DEF Turn
    <2> QED BY <1>2, <2>1, <2>2
  <1>4. ASSUME NEW t \in Thread, B!Resume(t) PROVE BarrierAwake'
    <2>1. /\ at[t] = "woken" /\ it[t] \in 1 .. iterations
          /\ UNCHANGED <<phase, saved>>
      BY <1>4 DEF B!Resume, B!TypeOK, BarrierInIteration
    <2>2. CASE phase = saved[t]
      <3>1. at' = [at EXCEPT ![t] = "waiting"] /\ it' = it
        BY <1>4, <2>2 DEF B!Resume, B!GoTo
      <3>2. Turn(t)' = Turn(t)
        BY <2>1, <2>2, <3>1 DEF Turn, Late, B!TypeOK
      <3> QED BY <1>2, <2>1, <2>2, <3>1, <3>2 DEF B!TypeOK
    <2>3. CASE phase # saved[t]
      <3>1. /\ at' = [at EXCEPT ![t] = B!AfterIteration(it[t])]
            /\ it' = [it EXCEPT ![t] = @ + 1]
        BY <1>4, <2>3 DEF B!Resume, B!GoTo
      <3>2. /\ at'[t] = B!AfterIteration(it[t]) /\ at'[t] \in {"starting", "ended"}
            /\ it'[t] = it[t] + 1
            /\ \A u \in Thread \ {t} : at'[u] = at[u] /\ it'[u] = it[u]
        BY <3>1 DEF B!AfterIteration, B!TypeOK
      <3>3. Turn(t)' = Turn(t)
        BY <2>1, <2>3, <3>2 DEF Turn, Late
      <3>4. at'[t] = "ended" => it'[t] = iterations + 1
        BY <2>1, <3>2 DEF B!AfterIteration
      <3> QED BY <1>2, <2>1, <3>2, <3>3, <3>4
    <2> QED BY <2>2, <2>3
  <1>5. CASE B!CallCompute
    <2>1. /\ at[Main] = "absent" /\ it' = it /\ saved' = saved
          /\ at' = [at EXCEPT ![Main] = "creating"]
          /\ \A u \in Thread : at[u] = "absent"
      BY <1>5 DEF B!CallCompute, B!GoTo, BarrierNobodyIsLeft
    <2>2. \A u \in Thread : at'[u] = IF u = Main THEN "creating" ELSE "absent"
      BY <2>1 DEF B!TypeOK
    <2>3. \A u \in Thread : ~Late(u) /\ ~Late(u)'
      BY <2>1, <2>2 DEF Late
    <2>4. SameTurn'
      BY <2>1, <2>3 DEF BarrierAwake, SameTurn, Turn
    <2>5. BarrierEnded' /\ NobodyOversleeps' /\ AllAreCreated'
      BY <2>2 DEF BarrierEnded, NobodyOversleeps, AllAreCreated
    <2> QED BY <2>4, <2>5 DEF BarrierAwake
  <1>6. ASSUME B!Created \/ \E t \in Thread : B!Create(t) PROVE BarrierAwake'
    <2>1. PICK t \in Thread :
            /\ at[Main] = "creating" /\ at[t] \in {"absent", "creating"}
            /\ t = Main => \A u \in Thread : at[u] # "absent"
            /\ at' = [at EXCEPT ![t] = "starting"]
            /\ UNCHANGED <<count, phase, it, saved>>
      BY <1>6 DEF B!Created, B!Create, B!GoTo
    <2>2. \A u \in Thread : at'[u] = IF u = t THEN "starting" ELSE at[u]
      BY <2>1 DEF B!TypeOK
    <2>3. \A u \in Thread : Late(u)' <=> Late(u)
      BY <2>1, <2>2 DEF Late
    <2>4. SameTurn'
      BY <2>1, <2>3 DEF BarrierAwake, SameTurn, Turn
    <2>5. BarrierEnded' /\ NobodyOversleeps' /\ AllAreCreated'
      BY <2>1, <2>2 DEF BarrierAwake, BarrierEnded, NobodyOversleeps, AllAreCreated
    <2> QED BY <2>4, <2>5 DEF BarrierAwake
  <1>7. CASE B!Join
    BY <1>7 DEF B!Join, BarrierAwake, SameTurn, Turn, Late, BarrierEnded, NobodyOversleeps,
       AllAreCreated
  <1>8. CASE UNCHANGED B!vars
    BY <1>8 DEF B!vars, BarrierAwake, SameTurn, Turn, Late, BarrierEnded, NobodyOversleeps,
       AllAreCreated
  <1> QED BY <1>1, <1>3, <1>4, <1>5, <1>6, <1>7, <1>8 DEF B!Next, B!MainStep, B!Step

LEMMA BarrierNotAllWait == BarrierIInv /\ BarrierAwake => SomebodyGoesOn
  <1> SUFFICES ASSUME BarrierIInv, BarrierAwake,
                      at[Main] \notin {"absent", "creating"},
                      ~ \E t \in Thread : \/ at[t] \in {"starting", "computing", "calling"}
                                          \/ at[t] = "woken" /\ saved[t] # phase
               PROVE  \A t \in Thread : at[t] = "ended"
    BY DEF SomebodyGoesOn
  <1> USE DistribAssumption DEF BarrierIInv, BarrierAwake
  <1>1. \A t \in Thread : t \in B!Arrived \/ at[t] = "ended"
    BY DEF AllAreCreated, NobodyOversleeps, B!Arrived, B!TypeOK
  <1>2. PICK e \in Thread : at[e] = "ended"
    <2> SUFFICES ASSUME \A t \in Thread : at[t] # "ended" PROVE FALSE
      OBVIOUS
    <2>1. B!Arrived = Thread
      BY <1>1 DEF B!Arrived
    <2>2. count = B!limit
      BY <2>1 DEF B!CountIsArrived, B!limit
    <2> QED BY <2>2, BarrierLimitIsPositive DEF B!TypeOK
  <1>3. ASSUME NEW t \in B!Arrived PROVE FALSE
    <2>1. t \in Thread /\ at[t] # "ended" /\ ~Late(t) /\ ~Late(e)
      BY <1>2, <1>3 DEF B!Arrived, Late
    <2>2. it[t] = it[e]
      BY <2>1 DEF SameTurn, Turn
    <2>3. it[e] = iterations + 1 /\ it[t] <= iterations /\ iterations \in Nat
      BY <1>2, <2>1 DEF BarrierEnded, BarrierInIteration
    <2> QED BY <2>2, <2>3
  <1> QED BY <1>1, <1>3

(* No deadlock at the barrier of pthread_barrier.c either. (113-133)         *)
THEOREM BarrierNeverAllAsleep == B!Spec => []SomebodyGoesOn
  <1>1. B!Spec => []BarrierAwake
    BY BarrierInitAwake, BarrierStepAwake, BarrierInvariant, PTL DEF B!Spec
  <1> QED BY <1>1, BarrierInvariant, BarrierNotAllWait, PTL
===============================================================================
