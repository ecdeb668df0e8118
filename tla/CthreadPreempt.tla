---------------------------- MODULE CthreadPreempt ----------------------------
(***************************************************************************)
(* thread_yield of thread.c built with PREEMPTION: SIGALRM may interrupt   *)
(* whatever the program executes, unless it is masked, and its handler     *)
(* calls thread_yield in turn.                                             *)
(*                                                                         *)
(* The threads of the program have all been created and none has exited.   *)
(* thread_yield is cut where a signal can come between two parts of it.    *)
(* A saved context is known by the stack it continues; jumping to it uses  *)
(* it up, and to jump to it again before it is saved again would resume a  *)
(* stack where it no longer is: what happens then is undefined.            *)
(***************************************************************************)
EXTENDS Naturals, Sequences, SequencesExt

CONSTANTS Thread, Main,
          Spent,      \* a context that has been resumed since it was saved
          MaxNesting  \* bound: calls of thread_yield on one stack

VARIABLES cpu,     \* the stack that is executing
          masked,  \* SIGALRM is blocked
          queue,   \* TAILQ of the threads, head first
          uc,      \* uc[t]: the stack that the context saved in t continues
          frames,  \* frames[t]: the calls of thread_yield on t's stack
          undefined \* a context was resumed that no longer exists

vars == <<cpu, masked, queue, uc, frames, undefined>>

(* The program points of thread_yield between which a signal may come.       *)
Point == {"entry", "critical", "switch", "resumed"}
Frame == [at : Point, current : Thread]

TypeOK ==
  /\ cpu \in Thread
  /\ masked \in BOOLEAN
  /\ queue \in Seq(Thread)
  /\ uc \in [Thread -> Thread \cup {Spent}]
  /\ frames \in [Thread -> Seq(Frame)]
  /\ undefined \in BOOLEAN

(* Main has created the others and runs its own code.                        *)
Init ==
  /\ cpu = Main
  /\ masked = FALSE
  /\ queue \in {<<Main>> \o s : s \in SetToSeqs(Thread \ {Main})}
  /\ uc = [t \in Thread |-> IF t = Main THEN Spent ELSE t]
  /\ frames = [t \in Thread |-> <<>>]
  /\ undefined = FALSE

At(point) ==
  /\ ~undefined
  /\ frames[cpu] # <<>>
  /\ Last(frames[cpu]).at = point

GoTo(point) == frames' = [frames EXCEPT ![cpu][Len(frames[cpu])].at = point]

Call ==
  frames' = [frames EXCEPT ![cpu] = Append(@, [at |-> "entry", current |-> cpu])]

(* A client calls thread_yield. *)
Yield ==
  /\ ~undefined /\ frames[cpu] = <<>>
  /\ Call
  /\ UNCHANGED <<cpu, masked, queue, uc, undefined>>

(* SIGALRM: the kernel masks it while its handler runs.                      *)
Alarm ==
  /\ ~undefined /\ ~masked
  /\ Len(frames[cpu]) < MaxNesting
  /\ Call
  /\ masked' = TRUE
  /\ UNCHANGED <<cpu, queue, uc, undefined>>

Block ==
  /\ At("entry")
  /\ masked' = TRUE
  /\ GoTo("critical")
  /\ UNCHANGED <<cpu, queue, uc, undefined>>

(* The queue is rotated, then unblock_timer() is called. *)
RotateAndUnblock ==
  /\ At("critical")
  /\ masked' = FALSE
  /\ IF Len(queue) > 1
     THEN /\ queue' = Append(Tail(queue), Head(queue))
          /\ frames' = [frames EXCEPT ![cpu][Len(frames[cpu])] =
                          [at |-> "switch", current |-> Head(queue)]]
     ELSE GoTo("resumed") /\ UNCHANGED queue
  /\ UNCHANGED <<cpu, uc, undefined>>

(* swapcontext(&current->uc, &TAILQ_FIRST(&queue)->uc): the mask is part of   *)
(* both contexts and was saved clear.                                         *)
SwitchContext ==
  /\ At("switch")
  /\ GoTo("resumed")
  /\ LET saved == [uc EXCEPT ![Last(frames[cpu]).current] = cpu]
         next  == Head(queue)
     IN IF saved[next] = Spent
        THEN /\ undefined' = TRUE
             /\ uc' = saved
             /\ UNCHANGED cpu
        ELSE /\ cpu' = saved[next]
             /\ uc' = [saved EXCEPT ![next] = Spent]
             /\ UNCHANGED undefined
  /\ masked' = FALSE
  /\ UNCHANGED queue

(* thread_yield, or the handler that called it, returns. *)
Return ==
  /\ At("resumed")
  /\ frames' = [frames EXCEPT ![cpu] = Front(@)]
  /\ masked' = FALSE
  /\ UNCHANGED <<cpu, queue, uc, undefined>>

Next == Yield \/ Alarm \/ Block \/ RotateAndUnblock \/ SwitchContext \/ Return

Spec == Init /\ [][Next]_vars

(* What thread_yield saves in a thread is a point of that thread's own stack: *)
(* an alarm never gets between the rotation of the queue and the switch.      *)
(* thread.c:53 says that the mask is there to "prevent interrupts during      *)
(* critical parts".                                                           *)
ContextIsOwn == \A t \in Thread : uc[t] \in {t, Spent}
===============================================================================
