--------------------------- MODULE Cthread_proofs ----------------------------
(***************************************************************************)
(* For any threads and mutexes: the safety invariants of Cthread, and that *)
(* its scheduling is first come, first served.                             *)
(***************************************************************************)
EXTENDS Cthread, SequenceTheorems, TLAPS

Injective(q) == \A i, j \in DOMAIN q : q[i] = q[j] => i = j
Elements(q) == {q[i] : i \in DOMAIN q}

(* Two functions that take each other's values have the same elements.       *)
LEMMA SameElements ==
  ASSUME NEW q, NEW r, NEW D, DOMAIN q = D, DOMAIN r = D,
         \A i \in D : \E j \in D : r[i] = q[j],
         \A j \in D : \E i \in D : r[i] = q[j]
  PROVE  Elements(r) = Elements(q)
  <1>1. \A x : x \in Elements(r) <=> \E i \in D : x = r[i]
    BY DEF Elements
  <1>2. \A x : x \in Elements(q) <=> \E j \in D : x = q[j]
    BY DEF Elements
  <1>3. \A x : x \in Elements(r) <=> x \in Elements(q)
    BY <1>1, <1>2
  <1> QED BY <1>3

(* Rotating a queue keeps its elements, each one once, and puts the second   *)
(* one at the head. (thread.c:182-183)                                       *)
LEMMA RotateElements ==
  ASSUME NEW q \in Seq(Thread), Len(q) > 1
  PROVE  /\ Rotate(q) \in Seq(Thread)
         /\ Rotate(q) # <<>>
         /\ Elements(Rotate(q)) = Elements(q)
         /\ Injective(q) => Injective(Rotate(q))
  <1> DEFINE r == Rotate(q)
             n == Len(q)
  <1>1. /\ r \in Seq(Thread)
        /\ Len(r) = n
        /\ \A i \in 1..n-1 : r[i] = q[i+1]
        /\ r[n] = q[1]
    BY DEF Rotate
  <1> HIDE DEF r
  <1>2. r # <<>>
    BY <1>1
  <1>3. DOMAIN r = 1..n /\ DOMAIN q = 1..n /\ n \in Nat
    BY <1>1
  <1>4. Elements(r) = Elements(q)
    <2>1. ASSUME NEW i \in 1..n PROVE \E j \in 1..n : r[i] = q[j]
      BY <1>1, <1>3
    <2>2. ASSUME NEW j \in 1..n PROVE \E i \in 1..n : r[i] = q[j]
      <3>1. CASE j = 1
        BY <3>1, <1>1, <1>3
      <3>2. CASE j # 1
        <4>1. j-1 \in 1..n-1 /\ j-1 \in 1..n /\ r[j-1] = q[j]
          BY <3>2, <1>1, <1>3
        <4> QED BY <4>1
      <3> QED BY <3>1, <3>2
    <2> QED BY <2>1, <2>2, <1>3, SameElements
  <1>5. ASSUME Injective(q) PROVE Injective(r)
    BY <1>1, <1>3, <1>5 DEF Injective
  <1> QED BY <1>1, <1>2, <1>4, <1>5 DEF r

(* Pulling a linked thread to the head of a queue moves those before it one  *)
(* place back and nobody else. (thread.c:214-215)                            *)
LEMMA MoveToHeadPlaces ==
  ASSUME NEW q \in Seq(Thread), NEW t \in Elements(q)
  PROVE  \E k \in 1..Len(q) :
           /\ q[k] = t
           /\ MoveToHead(q, t) \in Seq(Thread)
           /\ Len(MoveToHead(q, t)) = Len(q)
           /\ MoveToHead(q, t)[1] = t
           /\ \A i \in 2..k : MoveToHead(q, t)[i] = q[i-1]
           /\ \A i \in k+1..Len(q) : MoveToHead(q, t)[i] = q[i]
  <1> DEFINE n == Len(q)
             k == CHOOSE i \in DOMAIN q : q[i] = t
             r == MoveToHead(q, t)
  <1>1. k \in DOMAIN q /\ q[k] = t
    BY DEF Elements
  <1>2. n \in Nat /\ DOMAIN q = 1..n /\ k \in 1..n /\ t \in Thread
    BY <1>1
  <1> DEFINE a == SubSeq(q, 1, k-1)
             b == SubSeq(q, k+1, n)
  <1>3. r = <<t>> \o (a \o b)
    BY DEF MoveToHead, Cons, RemoveAt
  <1> HIDE DEF r, k
  <1>4. /\ a \in Seq(Thread) /\ Len(a) = k-1
        /\ \A i \in 1..k-1 : a[i] = q[i]
    BY <1>2
  <1>5. /\ b \in Seq(Thread) /\ Len(b) = n-k
        /\ \A i \in 1..n-k : b[i] = q[k+i]
    <2>1. \A i \in k+1..n : q[i] \in Thread
      BY <1>2
    <2>2. /\ b \in Seq(Thread)
          /\ Len(b) = IF k+1 <= n THEN n-(k+1)+1 ELSE 0
          /\ \A i \in 1 .. n-(k+1)+1 : b[i] = q[(k+1)+i-1]
      <3>1. k+1 \in Int /\ n \in Int
        BY <1>2
      <3> HIDE DEF n
      <3> QED BY <2>1, <3>1, SubSeqProperties
    <2>3. n-(k+1)+1 = n-k /\ \A i \in 1..n-k : (k+1)+i-1 = k+i
      BY <1>2
    <2> HIDE DEF b
    <2>4. Len(b) = n-k
      <3>1. CASE k+1 <= n
        <4>1. Len(b) = n-(k+1)+1
          BY <3>1, <2>2
        <4> QED BY <4>1, <2>3
      <3>2. CASE ~(k+1 <= n)
        <4>1. Len(b) = 0
          BY <3>2, <2>2
        <4> HIDE DEF n
        <4>2. n-k = 0
          BY <3>2, <1>2
        <4> QED BY <4>1, <4>2
      <3> QED BY <3>1, <3>2
    <2>5. ASSUME NEW i \in 1..n-k PROVE b[i] = q[k+i]
      <3>1. i \in 1 .. n-(k+1)+1 /\ (k+1)+i-1 = k+i
        BY <2>3
      <3>2. b[i] = q[(k+1)+i-1]
        BY <3>1, <2>2
      <3> QED BY <3>1, <3>2
    <2> QED BY <2>2, <2>4, <2>5
  <1> DEFINE c == a \o b
  <1> HIDE DEF a, b
  <1>6. /\ c \in Seq(Thread) /\ Len(c) = n-1
        /\ \A i \in 1..n-1 : c[i] = IF i <= k-1 THEN a[i] ELSE b[i-(k-1)]
    <2>1. Len(a) + Len(b) = n-1
      BY <1>2, <1>4, <1>5
    <2>2. /\ c \in Seq(Thread) /\ Len(c) = Len(a) + Len(b)
          /\ \A i \in 1..Len(a)+Len(b) :
               c[i] = IF i <= Len(a) THEN a[i] ELSE b[i - Len(a)]
      BY <1>4, <1>5, ConcatProperties
    <2> HIDE DEF c
    <2> QED BY <2>1, <2>2, <1>4
  <1>7. r = <<t>> \o c
    BY <1>3
  <1> HIDE DEF c
  <1>8. /\ r \in Seq(Thread) /\ Len(r) = n /\ r[1] = t
        /\ \A i \in 2..n : r[i] = c[i-1]
    BY <1>6, <1>7, <1>2
  <1>9. /\ r \in Seq(Thread)
        /\ Len(r) = n
        /\ r[1] = t
        /\ \A i \in 2..k : r[i] = q[i-1]
        /\ \A i \in k+1..n : r[i] = q[i]
    <2>1. ASSUME NEW i \in 2..k PROVE r[i] = q[i-1]
      <3>1. i \in 2..n /\ i-1 \in 1..n-1 /\ i-1 <= k-1 /\ i-1 \in 1..k-1
        BY <1>2
      <3> QED BY <3>1, <1>8, <1>6, <1>4
    <2>2. ASSUME NEW i \in k+1..n PROVE r[i] = q[i]
      <3>1. /\ i \in 2..n /\ i-1 \in 1..n-1 /\ ~(i-1 <= k-1)
            /\ (i-1)-(k-1) = i-k /\ i-k \in 1..n-k /\ k+(i-k) = i
        BY <1>2
      <3> QED BY <3>1, <1>8, <1>6, <1>5
    <2> QED BY <2>1, <2>2, <1>8
  <1> QED BY <1>1, <1>2, <1>9 DEF r

(* Pulling a linked thread to the head of a queue keeps the elements, each   *)
(* one once. (thread.c:214-215)                                              *)
LEMMA MoveToHeadElements ==
  ASSUME NEW q \in Seq(Thread), NEW t \in Elements(q)
  PROVE  /\ MoveToHead(q, t) \in Seq(Thread)
         /\ MoveToHead(q, t) # <<>>
         /\ Head(MoveToHead(q, t)) = t
         /\ Elements(MoveToHead(q, t)) = Elements(q)
         /\ Injective(q) => Injective(MoveToHead(q, t))
  <1> DEFINE n == Len(q)
             r == MoveToHead(q, t)
  <1>0. PICK k \in 1..n : /\ q[k] = t
                          /\ r \in Seq(Thread) /\ Len(r) = n /\ r[1] = t
                          /\ \A i \in 2..k : r[i] = q[i-1]
                          /\ \A i \in k+1..n : r[i] = q[i]
    BY MoveToHeadPlaces
  <1> HIDE DEF r
  <1>1. k \in DOMAIN q /\ q[k] = t
    BY <1>0
  <1>2. n \in Nat /\ DOMAIN q = 1..n /\ k \in 1..n /\ t \in Thread
    BY <1>1
  <1>9. /\ r \in Seq(Thread) /\ Len(r) = n /\ r[1] = t
        /\ \A i \in 2..k : r[i] = q[i-1]
        /\ \A i \in k+1..n : r[i] = q[i]
    BY <1>0
  <1>10. DOMAIN r = 1..n
    BY <1>9
  <1>11. Elements(r) = Elements(q)
    <2>1. ASSUME NEW i \in 1..n PROVE \E j \in 1..n : r[i] = q[j]
      <3>1. CASE i = 1
        BY <3>1, <1>1, <1>2, <1>9
      <3>2. CASE i \in 2..k
        <4>1. i-1 \in 1..n
          BY <3>2, <1>2
        <4> QED BY <3>2, <4>1, <1>9
      <3>3. CASE i \in k+1..n
        BY <3>3, <1>2, <1>9
      <3> QED BY <3>1, <3>2, <3>3, <1>2
    <2>2. ASSUME NEW j \in 1..n PROVE \E i \in 1..n : r[i] = q[j]
      <3>1. CASE j < k
        <4>1. j+1 \in 2..k /\ j+1 \in 1..n /\ (j+1)-1 = j
          BY <3>1, <1>2
        <4> QED BY <4>1, <1>9
      <3>2. CASE j = k
        BY <3>2, <1>1, <1>2, <1>9
      <3>3. CASE j > k
        BY <3>3, <1>2, <1>9
      <3> QED BY <3>1, <3>2, <3>3, <1>2
    <2> QED BY <2>1, <2>2, <1>2, <1>10, SameElements
  <1>12. ASSUME Injective(q) PROVE Injective(r)
    <2> SUFFICES ASSUME NEW i \in 1..n, NEW j \in 1..n, r[i] = r[j]
                 PROVE  i = j
      BY <1>10 DEF Injective
    <2>1. \A x, y \in 1..n : q[x] = q[y] => x = y
      BY <1>12, <1>2 DEF Injective
    <2>2. CASE i = 1 \/ j = 1
      BY <2>1, <2>2, <1>1, <1>2, <1>9
    <2>3. CASE i # 1 /\ j # 1
      <3> DEFINE old(x) == IF x <= k THEN x-1 ELSE x
      <3>1. \A x \in 2..n : old(x) \in 1..n /\ r[x] = q[old(x)]
        BY <1>2, <1>9
      <3>2. i \in 2..n /\ j \in 2..n
        BY <2>3, <1>2
      <3>3. old(i) = old(j)
        BY <3>1, <3>2, <2>1
      <3>4. old(i) # k /\ old(j) # k /\ r[1] = q[k]
        BY <3>2, <1>2, <1>1, <1>9
      <3> QED BY <3>2, <3>3, <1>2
    <2> QED BY <2>2, <2>3
  <1>13. r # <<>> /\ Head(r) = t
    BY <1>2, <1>9
  <1> QED BY <1>9, <1>11, <1>12, <1>13 DEF r

(* Linking a thread that is in no list. (thread.c:168)                       *)
LEMMA AppendElements ==
  ASSUME NEW q \in Seq(Thread), q # <<>>, NEW u \in Thread
  PROVE  /\ Append(q, u) \in Seq(Thread)
         /\ Append(q, u) # <<>>
         /\ Head(Append(q, u)) = Head(q)
         /\ Elements(Append(q, u)) = Elements(q) \cup {u}
         /\ Injective(q) /\ u \notin Elements(q) => Injective(Append(q, u))
  <1> DEFINE r == Append(q, u)
             n == Len(q)
  <1>1. /\ r \in Seq(Thread) /\ Len(r) = n+1 /\ r[n+1] = u
        /\ \A i \in 1..n : r[i] = q[i]
        /\ n \in Nat /\ n > 0
        /\ DOMAIN q = 1..n /\ DOMAIN r = 1..n+1
    OBVIOUS
  <1> HIDE DEF r, n
  <1>2. r # <<>> /\ Head(r) = r[1] /\ Head(q) = q[1]
    BY <1>1
  <1>3. Elements(r) = Elements(q) \cup {u}
    <2>1. ASSUME NEW i \in 1..n+1 PROVE r[i] = u \/ \E j \in 1..n : r[i] = q[j]
      BY <1>1
    <2>2. \E i \in 1..n+1 : r[i] = u
      BY <1>1
    <2>3. ASSUME NEW j \in 1..n PROVE \E i \in 1..n+1 : r[i] = q[j]
      BY <1>1
    <2>4. \A x : x \in Elements(r) <=> \E i \in 1..n+1 : x = r[i]
      BY <1>1 DEF Elements
    <2>5. \A x : x \in Elements(q) <=> \E i \in 1..n : x = q[i]
      BY <1>1 DEF Elements
    <2> QED BY <2>1, <2>2, <2>3, <2>4, <2>5
  <1>4. ASSUME Injective(q), u \notin Elements(q) PROVE Injective(r)
    <2>1. \A i \in 1..n : q[i] # u
      BY <1>1, <1>4 DEF Elements
    <2> QED BY <1>1, <1>4, <2>1 DEF Injective
  <1> QED BY <1>1, <1>2, <1>3, <1>4 DEF r

(* Unlinking the head. (thread.c:233)                                        *)
LEMMA TailElements ==
  ASSUME NEW q \in Seq(Thread), q # <<>>, Injective(q)
  PROVE  /\ Tail(q) \in Seq(Thread)
         /\ Elements(Tail(q)) = Elements(q) \ {Head(q)}
         /\ Injective(Tail(q))
  <1> DEFINE r == Tail(q)
             n == Len(q)
  <1>1. /\ r \in Seq(Thread) /\ Len(r) = n-1
        /\ \A i \in 1..n-1 : r[i] = q[i+1]
        /\ n \in Nat /\ n > 0 /\ Head(q) = q[1]
        /\ DOMAIN q = 1..n /\ DOMAIN r = 1..n-1
    OBVIOUS
  <1> HIDE DEF r, n
  <1>2. Elements(r) = Elements(q) \ {Head(q)}
    <2>1. \A x : x \in Elements(r) <=> \E i \in 1..n-1 : x = r[i]
      BY <1>1 DEF Elements
    <2>2. \A x : x \in Elements(q) <=> \E i \in 1..n : x = q[i]
      BY <1>1 DEF Elements
    <2>3. \A i, j \in 1..n : q[i] = q[j] => i = j
      BY <1>1 DEF Injective
    <2>4. ASSUME NEW i \in 1..n-1 PROVE r[i] # q[1] /\ \E j \in 1..n : r[i] = q[j]
      <3>1. i+1 \in 1..n /\ i+1 # 1 /\ 1 \in 1..n
        BY <1>1
      <3> QED BY <3>1, <2>3, <1>1
    <2>5. ASSUME NEW j \in 1..n, q[j] # q[1] PROVE \E i \in 1..n-1 : r[i] = q[j]
      <3>1. j-1 \in 1..n-1 /\ (j-1)+1 = j
        BY <2>5, <1>1
      <3> QED BY <3>1, <1>1
    <2> QED BY <2>1, <2>2, <2>4, <2>5, <1>1
  <1>3. Injective(r)
    <2>1. \A x, y \in 1..n : q[x] = q[y] => x = y
      BY <1>1 DEF Injective
    <2> SUFFICES ASSUME NEW i \in 1..n-1, NEW j \in 1..n-1, r[i] = r[j]
                 PROVE  i = j
      BY <1>1 DEF Injective
    <2>2. i+1 \in 1..n /\ j+1 \in 1..n /\ q[i+1] = q[j+1]
      BY <1>1
    <2> QED BY <2>1, <2>2
  <1> QED BY <1>1, <1>2, <1>3 DEF r

-----------------------------------------------------------------------------

(* The invariant: the safety properties together are inductive. The queue is *)
(* non-empty and led by the processor's owner because the queue links every  *)
(* live thread, and the mutex is exclusive because a clear flag means that   *)
(* nobody holds it.                                                          *)
IInv ==
  TypeOK /\ CpuIsHead /\ QueuesPartitionThreads /\ NothingLeaked /\ MutualExclusion

LEMMA InitInv == Init => IInv
  <1> SUFFICES ASSUME Init PROVE IInv
    OBVIOUS
  <1>1. TypeOK
    BY ThreadAssumption DEF Init, TypeOK
  <1>2. CpuIsHead
    BY DEF Init, CpuIsHead, Current
  <1>3. QueuesPartitionThreads
    BY ThreadAssumption DEF Init, QueuesPartitionThreads, Live
  <1>4. NothingLeaked
    BY DEF Init, NothingLeaked
  <1>5. MutualExclusion
    BY DEF Init, MutualExclusion
  <1> QED BY <1>1, <1>2, <1>3, <1>4, <1>5 DEF IInv

(* What a call relies on and restores about the queues.                      *)
QueuesInv == CpuIsHead /\ QueuesPartitionThreads

(* Yielding keeps the queues in order. (thread.c:178-201)                    *)
LEMMA GiveWayInv ==
  ASSUME TypeOK, QueuesInv, proc = "running", proc' = proc,
         finished' = finished, GiveWay
  PROVE  /\ cpu' \in Thread
         /\ queue' \in Seq(Thread)
         /\ status' \in [Thread -> {"ABSENT", "READY", "RUNNING", "FINISH"}]
         /\ QueuesInv'
  <1> USE DEF QueuesInv
  <1>1. CASE Len(queue) > 1
    <2>1. /\ queue' = Rotate(queue) /\ cpu' = Head(Rotate(queue))
          /\ status' = [status EXCEPT ![queue[2]] = "RUNNING", ![Current] = "READY"]
      BY <1>1 DEF GiveWay, SwitchTo
    <2>2. /\ queue' \in Seq(Thread) /\ queue' # <<>>
          /\ Elements(queue') = Elements(queue)
          /\ Injective(queue) => Injective(queue')
      BY <1>1, <2>1, RotateElements DEF TypeOK
    <2>3. cpu' = Head(queue') /\ cpu' \in Thread
      BY <2>1, <2>2
    <2>4. /\ queue[2] \in Elements(queue) /\ Current \in Elements(queue)
          /\ queue[2] \in Thread /\ Current \in Thread
      BY <1>1 DEF TypeOK, Current, Elements
    <2>5. /\ Injective(queue) /\ Elements(queue) = Live
          /\ finished = {t \in Thread : status[t] = "FINISH"}
      BY DEF QueuesPartitionThreads, Injective, Elements
    <2>6. status' \in [Thread -> {"ABSENT", "READY", "RUNNING", "FINISH"}]
      BY <2>1, <2>4 DEF TypeOK
    <2>7. Live' = Live /\ \A t \in Thread : status'[t] = "FINISH" <=> status[t] = "FINISH"
      BY <2>1, <2>4, <2>5 DEF Live, TypeOK
    <2>8. QueuesPartitionThreads'
      BY <2>2, <2>5, <2>7 DEF QueuesPartitionThreads, Injective, Elements
    <2>9. CpuIsHead'
      BY <2>2, <2>3 DEF CpuIsHead, Current
    <2> QED BY <2>2, <2>3, <2>6, <2>8, <2>9
  <1>2. CASE ~(Len(queue) > 1)
    BY <1>2 DEF GiveWay, TypeOK, CpuIsHead, QueuesPartitionThreads, Current, Live
  <1> QED BY <1>1, <1>2

LEMMA GiveWayAbsent ==
  ASSUME TypeOK, QueuesInv, proc = "running", GiveWay, NEW t \in Thread
  PROVE  status'[t] = "ABSENT" <=> status[t] = "ABSENT"
  <1>1. CASE Len(queue) > 1
    <2>1. status' = [status EXCEPT ![queue[2]] = "RUNNING", ![Current] = "READY"]
      BY <1>1 DEF GiveWay
    <2>2. /\ queue[2] \in Live /\ Current \in Live
          /\ queue[2] \in Thread /\ Current \in Thread
      BY <1>1 DEF TypeOK, Current, QueuesInv, QueuesPartitionThreads
    <2> QED BY <2>1, <2>2 DEF Live, TypeOK
  <1>2. CASE ~(Len(queue) > 1)
    BY <1>2 DEF GiveWay
  <1> QED BY <1>1, <1>2

(* A step of the library keeps IInv: one case per call, and per call one step *)
(* for each part of the state it moves.                                       *)
LEMMA StepInv == IInv /\ [Next]_vars => IInv'
  <1> SUFFICES ASSUME IInv, [Next]_vars PROVE IInv'
    OBVIOUS
  <1> USE DEF IInv, QueuesInv
  <1>q. proc = "running" =>
          /\ Injective(queue) /\ Elements(queue) = Live
          /\ finished = {x \in Thread : status[x] = "FINISH"}
          /\ queue # <<>> /\ cpu = Head(queue)
    BY DEF QueuesPartitionThreads, CpuIsHead, Current, Injective, Elements
  <1>1. ASSUME NEW t \in Thread, Yield(t) PROVE IInv'
    <2>1. proc = "running" /\ GiveWay
          /\ UNCHANGED <<proc, finished, freed, joining, locking, flag, holder>>
      BY <1>1 DEF Yield, InClient
    <2>2. /\ cpu' \in Thread /\ queue' \in Seq(Thread) /\ QueuesInv'
          /\ status' \in [Thread -> {"ABSENT", "READY", "RUNNING", "FINISH"}]
      BY <2>1, GiveWayInv
    <2>3. TypeOK'
      BY <2>1, <2>2 DEF TypeOK
    <2>4. MutualExclusion'
      BY <2>1 DEF MutualExclusion
    <2>5. NothingLeaked'
      BY <2>1, <2>2, GiveWayAbsent DEF NothingLeaked
    <2> QED BY <2>2, <2>3, <2>4, <2>5
  <1>2. ASSUME NEW t \in Thread, Exit(t) PROVE IInv'
    <2>1. /\ proc = "running" /\ cpu = t /\ t = Head(queue)
          /\ status' = [status EXCEPT ![t] = "FINISH"]
          /\ ExitSchedule(finished \cup {t})
          /\ UNCHANGED <<joining, locking, flag, holder>>
      BY <1>2, <1>q DEF Exit, InClient, Current
    <2>2. MutualExclusion'
      BY <2>1 DEF MutualExclusion
    <2>3. /\ Tail(queue) \in Seq(Thread)
          /\ Elements(Tail(queue)) = Elements(queue) \ {t}
          /\ Injective(Tail(queue))
      BY <2>1, <1>q, TailElements DEF TypeOK
    <2>4. CASE Len(queue) > 1
      <3>1. /\ queue' = Tail(queue) /\ queue' # <<>>
            /\ cpu' = Head(queue') /\ cpu' \in Thread
            /\ finished' = finished \cup {t}
            /\ UNCHANGED <<proc, freed>>
        BY <2>1, <2>4, <2>3 DEF ExitSchedule, TypeOK
      <3>2. TypeOK'
        BY <2>1, <2>3, <3>1 DEF TypeOK
      <3>3. CpuIsHead'
        BY <3>1 DEF CpuIsHead, Current
      <3>4. Live' = Live \ {t} /\ finished' = {x \in Thread : status'[x] = "FINISH"}
        BY <2>1, <3>1, <1>q DEF Live, TypeOK
      <3>5. QueuesPartitionThreads'
        <4>1. Injective(queue') /\ Elements(queue') = Live'
          BY <2>1, <2>3, <3>1, <3>4, <1>q
        <4> QED BY <3>4, <4>1 DEF QueuesPartitionThreads, Injective, Elements
      <3>6. NothingLeaked'
        <4>1. freed = {} /\ proc' = "running"
          BY <2>1, <3>1 DEF NothingLeaked
        <4> QED BY <3>1, <4>1 DEF NothingLeaked
      <3> QED BY <2>2, <3>2, <3>3, <3>5, <3>6
    <2>5. CASE ~(Len(queue) > 1)
      <3>1. /\ proc' = "exited" /\ queue' = <<>> /\ finished' = {} /\ cpu' = cpu
            /\ freed' = Elements(queue) \cup (finished \cup {t})
        BY <2>1, <2>5 DEF ExitSchedule, FreeAll, Elements
      <3>2. freed' = {x \in Thread : status'[x] # "ABSENT"}
        BY <2>1, <3>1, <1>q DEF Live, TypeOK
      <3>3. NothingLeaked'
        BY <3>1, <3>2 DEF NothingLeaked
      <3>4. TypeOK'
        BY <2>1, <3>1, <3>2 DEF TypeOK
      <3>5. CpuIsHead' /\ QueuesPartitionThreads'
        BY <3>1 DEF CpuIsHead, QueuesPartitionThreads
      <3> QED BY <2>2, <3>3, <3>4, <3>5
    <2> QED BY <2>4, <2>5
  <1>3. ASSUME NEW t \in Thread, NEW u \in Thread, Create(t, u) PROVE IInv'
    <2>1. /\ proc = "running" /\ status[u] = "ABSENT"
          /\ status' = [status EXCEPT ![u] = "READY"]
          /\ queue' = Append(queue, u)
          /\ UNCHANGED <<proc, cpu, finished, freed, joining, locking, flag, holder>>
      BY <1>3 DEF Create, InClient
    <2>2. u \notin Elements(queue)
      BY <2>1, <1>q DEF Live
    <2>3. /\ queue' \in Seq(Thread) /\ queue' # <<>> /\ Head(queue') = Head(queue)
          /\ Elements(queue') = Elements(queue) \cup {u}
          /\ Injective(queue')
      BY <2>1, <2>2, <1>q, AppendElements DEF TypeOK
    <2>4. TypeOK'
      BY <2>1, <2>3 DEF TypeOK
    <2>5. CpuIsHead'
      BY <2>1, <2>3, <1>q DEF CpuIsHead, Current
    <2>6. Live' = Live \cup {u} /\ finished' = {x \in Thread : status'[x] = "FINISH"}
      BY <2>1, <1>q DEF Live, TypeOK
    <2>7. QueuesPartitionThreads'
      BY <2>3, <2>6, <1>q, <2>1 DEF QueuesPartitionThreads, Injective, Elements
    <2>8. MutualExclusion' /\ NothingLeaked'
      BY <2>1 DEF MutualExclusion, NothingLeaked
    <2> QED BY <2>4, <2>5, <2>7, <2>8
  <1>4. ASSUME NEW t \in Thread, NEW u \in Thread, Join(t, u) PROVE IInv'
    <2>1. /\ proc = "running" /\ status[u] # "ABSENT"
          /\ joining' \in [Thread -> Thread \cup {None}]
          /\ UNCHANGED <<proc, finished, freed, status, locking, flag, holder>>
      BY <1>4 DEF Join, TypeOK
    <2>2. MutualExclusion' /\ NothingLeaked'
      BY <2>1 DEF MutualExclusion, NothingLeaked
    <2>3. Live' = Live
      BY <2>1 DEF Live
    <2>4. CASE status[u] = "FINISH"
      <3>1. UNCHANGED <<cpu, queue>>
        BY <1>4, <2>4 DEF Join
      <3>2. TypeOK'
        BY <2>1, <3>1 DEF TypeOK
      <3>3. CpuIsHead' /\ QueuesPartitionThreads'
        BY <2>1, <2>3, <3>1 DEF CpuIsHead, Current, QueuesPartitionThreads
      <3> QED BY <2>2, <3>2, <3>3
    <2>5. CASE status[u] # "FINISH"
      <3>1. queue' = MoveToHead(queue, u) /\ cpu' = Head(queue')
        BY <1>4, <2>5 DEF Join, Donate, SwitchTo
      <3>2. u \in Elements(queue)
        BY <2>1, <2>5, <1>q DEF Live, TypeOK
      <3>3. /\ queue' \in Seq(Thread) /\ queue' # <<>> /\ Head(queue') = u
            /\ Elements(queue') = Elements(queue)
            /\ Injective(queue')
        BY <2>1, <3>1, <3>2, <1>q, MoveToHeadElements DEF TypeOK
      <3>4. TypeOK'
        BY <2>1, <3>1, <3>3 DEF TypeOK
      <3>5. CpuIsHead'
        BY <3>1, <3>3 DEF CpuIsHead, Current
      <3>6. QueuesPartitionThreads'
        BY <2>1, <2>3, <3>3, <1>q DEF QueuesPartitionThreads, Injective, Elements
      <3> QED BY <2>2, <3>4, <3>5, <3>6
    <2> QED BY <2>4, <2>5
  <1>5. ASSUME NEW t \in Thread, NEW m \in Mutex, Lock(t, m) PROVE IInv'
    <2>1. /\ proc = "running" /\ cpu = t
          /\ UNCHANGED <<proc, finished, freed, joining>>
      BY <1>5 DEF Lock
    <2>2. CASE FoundFree(t, m)
      <3>1. /\ flag[m] = 0
            /\ flag' = [flag EXCEPT ![m] = 1]
            /\ holder' = [holder EXCEPT ![m] = @ \cup {t}]
            /\ locking' = [locking EXCEPT ![t] = None]
            /\ UNCHANGED <<cpu, queue, status>>
        BY <1>5, <2>2 DEF Lock, FoundFree
      <3>2. TypeOK'
        BY <2>1, <3>1 DEF TypeOK
      <3>3. CpuIsHead' /\ QueuesPartitionThreads'
        BY <2>1, <3>1 DEF CpuIsHead, Current, QueuesPartitionThreads, Live
      <3>4. holder[m] = {}
        BY <3>1 DEF MutualExclusion
      <3>5. holder'[m] = {t} /\ flag'[m] = 1
        BY <3>1, <3>4 DEF TypeOK
      <3>6. \A x \in Mutex : x # m => holder'[x] = holder[x] /\ flag'[x] = flag[x]
        BY <3>1 DEF TypeOK
      <3>7. MutualExclusion'
        BY <3>5, <3>6 DEF MutualExclusion
      <3>8. NothingLeaked'
        BY <2>1, <3>1 DEF NothingLeaked
      <3> QED BY <3>2, <3>3, <3>7, <3>8
    <2>3. CASE ~FoundFree(t, m)
      <3>1. /\ GiveWay
            /\ locking' = [locking EXCEPT ![t] = m]
            /\ UNCHANGED <<flag, holder>>
        BY <1>5, <2>3 DEF Lock, WaitForMutex
      <3>2. /\ cpu' \in Thread /\ queue' \in Seq(Thread) /\ QueuesInv'
            /\ status' \in [Thread -> {"ABSENT", "READY", "RUNNING", "FINISH"}]
        BY <2>1, <3>1, GiveWayInv
      <3>3. TypeOK'
        BY <2>1, <3>1, <3>2 DEF TypeOK
      <3>4. MutualExclusion'
        BY <3>1 DEF MutualExclusion
      <3>5. NothingLeaked'
        BY <2>1, <3>1, <3>2, GiveWayAbsent DEF NothingLeaked
      <3> QED BY <3>2, <3>3, <3>4, <3>5
    <2> QED BY <2>2, <2>3
  <1>6. ASSUME NEW t \in Thread, NEW m \in Mutex, Unlock(t, m) PROVE IInv'
    <2>1. /\ t \in holder[m]
          /\ flag' = [flag EXCEPT ![m] = 0]
          /\ holder' = [holder EXCEPT ![m] = @ \ {t}]
          /\ UNCHANGED <<proc, cpu, queue, finished, freed, status, joining, locking>>
      BY <1>6 DEF Unlock
    <2>2. TypeOK'
      BY <2>1 DEF TypeOK
    <2>3. CpuIsHead' /\ QueuesPartitionThreads'
      BY <2>1 DEF CpuIsHead, Current, QueuesPartitionThreads, Live
    <2>4. holder[m] = {t}
      BY <2>1 DEF MutualExclusion
    <2>5. holder'[m] = {} /\ flag'[m] = 0
      BY <2>1, <2>4 DEF TypeOK
    <2>6. \A x \in Mutex : x # m => holder'[x] = holder[x] /\ flag'[x] = flag[x]
      BY <2>1 DEF TypeOK
    <2>7. MutualExclusion'
      BY <2>5, <2>6 DEF MutualExclusion
    <2>8. NothingLeaked'
      BY <2>1 DEF NothingLeaked
    <2> QED BY <2>2, <2>3, <2>7, <2>8
  <1>7. ASSUME ReturnFromMain PROVE IInv'
    <2>1. /\ proc = "running"
          /\ proc' = "exited" /\ queue' = <<>> /\ finished' = {}
          /\ freed' = Elements(queue) \cup finished
          /\ UNCHANGED <<cpu, status, joining, locking, flag, holder>>
      BY <1>7 DEF ReturnFromMain, InClient, FreeAll, Elements
    <2>2. freed' = {x \in Thread : status'[x] # "ABSENT"}
      BY <2>1, <1>q DEF Live, TypeOK
    <2>3. NothingLeaked'
      BY <2>1, <2>2 DEF NothingLeaked
    <2>4. TypeOK'
      BY <2>1, <2>2 DEF TypeOK
    <2> QED BY <2>1, <2>3, <2>4 DEF CpuIsHead, QueuesPartitionThreads, MutualExclusion
  <1>8. ASSUME UNCHANGED vars PROVE IInv'
    BY <1>8 DEF vars, TypeOK, CpuIsHead, Current, QueuesPartitionThreads, Live,
                NothingLeaked, MutualExclusion
  <1> QED BY <1>1, <1>2, <1>3, <1>4, <1>5, <1>6, <1>7, <1>8 DEF Next

-----------------------------------------------------------------------------
(***************************************************************************)
(* The order of the queue.                                                 *)
(***************************************************************************)
InOrder(q, t, u) == \E i, j \in DOMAIN q : i < j /\ q[i] = t /\ q[j] = u

(* In a queue that links each thread once two threads are in one order.      *)
LEMMA OneOrder ==
  ASSUME NEW q \in Seq(Thread), Injective(q), NEW t, NEW u, InOrder(q, t, u)
  PROVE  ~InOrder(q, u, t)
  <1> SUFFICES ASSUME InOrder(q, u, t) PROVE FALSE
    OBVIOUS
  <1>1. PICK i, j \in DOMAIN q : i < j /\ q[i] = t /\ q[j] = u
    BY DEF InOrder
  <1>2. PICK k, l \in DOMAIN q : k < l /\ q[k] = u /\ q[l] = t
    BY DEF InOrder
  <1>3. k = j /\ l = i
    BY <1>1, <1>2 DEF Injective
  <1>4. i \in Nat /\ j \in Nat
    OBVIOUS
  <1> QED BY <1>1, <1>2, <1>3, <1>4

(* A yield lets everybody overtake the head, and nobody else.                *)
(* (thread.c:182-183)                                                        *)
LEMMA RotateOrder ==
  ASSUME NEW q \in Seq(Thread), Len(q) > 1, NEW t, NEW u,
         InOrder(q, t, u), t # Head(q)
  PROVE  InOrder(Rotate(q), t, u)
  <1> DEFINE r == Rotate(q)
             n == Len(q)
  <1>1. /\ r \in Seq(Thread) /\ Len(r) = n /\ n \in Nat
        /\ \A i \in 1..n-1 : r[i] = q[i+1]
        /\ DOMAIN q = 1..n /\ Head(q) = q[1]
    BY DEF Rotate
  <1>2. DOMAIN r = 1..n
    BY <1>1
  <1>3. PICK i, j \in 1..n : i < j /\ q[i] = t /\ q[j] = u
    BY <1>1 DEF InOrder
  <1> HIDE DEF r, n
  <1>4. i # 1
    BY <1>1, <1>3
  <1>5. /\ i-1 \in 1..n-1 /\ j-1 \in 1..n-1 /\ (i-1)+1 = i /\ (j-1)+1 = j
        /\ i-1 < j-1 /\ i-1 \in 1..n /\ j-1 \in 1..n
    BY <1>1, <1>3, <1>4
  <1>6. r[i-1] = t /\ r[j-1] = u
    BY <1>1, <1>3, <1>5
  <1> QED BY <1>2, <1>5, <1>6 DEF InOrder, r

(* A join lets its target overtake, and nobody else. (thread.c:214-215)      *)
LEMMA MoveToHeadOrder ==
  ASSUME NEW q \in Seq(Thread), NEW v \in Elements(q), NEW t, NEW u,
         InOrder(q, t, u), Injective(q), u # v
  PROVE  InOrder(MoveToHead(q, v), t, u)
  <1> DEFINE r == MoveToHead(q, v)
             n == Len(q)
  <1>1. PICK k \in 1..n : /\ q[k] = v
                          /\ r \in Seq(Thread) /\ Len(r) = n /\ r[1] = v
                          /\ \A i \in 2..k : r[i] = q[i-1]
                          /\ \A i \in k+1..n : r[i] = q[i]
    BY MoveToHeadPlaces
  <1>2. n \in Nat /\ DOMAIN q = 1..n
    OBVIOUS
  <1>3. DOMAIN r = 1..n
    BY <1>1
  <1>4. PICK i, j \in 1..n : i < j /\ q[i] = t /\ q[j] = u
    BY <1>2 DEF InOrder
  <1> HIDE DEF r, n
  <1>5. j # k
    BY <1>1, <1>4
  <1> DEFINE new(x) == IF x < k THEN x+1 ELSE x
  <1>6. \A x \in 1..n : x # k => new(x) \in 2..n /\ new(x) \in 1..n /\ r[new(x)] = q[x]
    <2> SUFFICES ASSUME NEW x \in 1..n, x # k
                 PROVE  new(x) \in 2..n /\ new(x) \in 1..n /\ r[new(x)] = q[x]
      OBVIOUS
    <2>1. CASE x < k
      <3>1. new(x) = x+1 /\ x+1 \in 2..k /\ (x+1)-1 = x /\ x+1 \in 2..n /\ x+1 \in 1..n
        BY <1>1, <1>2, <2>1
      <3> QED BY <1>1, <3>1
    <2>2. CASE x > k
      <3>1. new(x) = x /\ x \in k+1..n /\ x \in 2..n
        BY <1>1, <1>2, <2>2
      <3> QED BY <1>1, <3>1
    <2> QED BY <1>1, <1>2, <2>1, <2>2
  <1>7. CASE i = k
    <2>1. 1 \in 1..n /\ r[1] = t /\ 1 < new(j)
      BY <1>1, <1>2, <1>4, <1>5, <1>6, <1>7
    <2> QED BY <1>3, <1>4, <1>5, <1>6, <2>1 DEF InOrder, r
  <1>8. CASE i # k
    <2>1. new(i) < new(j)
      BY <1>1, <1>2, <1>4, <1>5, <1>8
    <2>2. /\ new(i) \in DOMAIN r /\ new(j) \in DOMAIN r
          /\ r[new(i)] = t /\ r[new(j)] = u
      BY <1>3, <1>4, <1>5, <1>6, <1>8
    <2> HIDE DEF new
    <2> QED BY <2>1, <2>2 DEF InOrder, r
  <1> QED BY <1>7, <1>8

(* A new thread is after the others. (thread.c:168)                          *)
LEMMA AppendOrder ==
  ASSUME NEW q \in Seq(Thread), NEW v \in Thread, NEW t, NEW u, InOrder(q, t, u)
  PROVE  InOrder(Append(q, v), t, u)
  <1> DEFINE r == Append(q, v)
             n == Len(q)
  <1>1. /\ n \in Nat /\ DOMAIN q = 1..n /\ DOMAIN r = 1..n+1
        /\ \A i \in 1..n : r[i] = q[i] /\ i \in 1..n+1
    OBVIOUS
  <1>2. PICK i, j \in 1..n : i < j /\ q[i] = t /\ q[j] = u
    BY <1>1 DEF InOrder
  <1> HIDE DEF r, n
  <1> QED BY <1>1, <1>2 DEF InOrder, r

(* When the head leaves the others keep their order. (thread.c:233)          *)
LEMMA TailOrder ==
  ASSUME NEW q \in Seq(Thread), q # <<>>, NEW t, NEW u, InOrder(q, t, u), t # Head(q)
  PROVE  InOrder(Tail(q), t, u)
  <1> DEFINE r == Tail(q)
             n == Len(q)
  <1>1. /\ n \in Nat /\ n > 0 /\ DOMAIN q = 1..n /\ DOMAIN r = 1..n-1
        /\ \A i \in 1..n-1 : r[i] = q[i+1]
        /\ Head(q) = q[1]
    OBVIOUS
  <1>2. PICK i, j \in 1..n : i < j /\ q[i] = t /\ q[j] = u
    BY <1>1 DEF InOrder
  <1> HIDE DEF r, n
  <1>3. i # 1
    BY <1>1, <1>2
  <1>4. /\ i-1 \in 1..n-1 /\ j-1 \in 1..n-1 /\ (i-1)+1 = i /\ (j-1)+1 = j /\ i-1 < j-1
    BY <1>1, <1>2, <1>3
  <1>5. r[i-1] = t /\ r[j-1] = u
    BY <1>1, <1>2, <1>4
  <1> QED BY <1>1, <1>4, <1>5 DEF InOrder, r

(* A thread is overtaken only when it has the processor, or by the thread    *)
(* that the one with the processor joins.                                    *)
LEMMA StepOrder ==
  ASSUME IInv, IInv', Next, NEW t \in Thread, NEW u \in Thread,
         Before(t, u), Before(u, t)'
  PROVE  t = cpu \/ joining'[cpu] = u
  <1> SUFFICES ASSUME t # cpu PROVE joining'[cpu] = u
    OBVIOUS
  <1>1. InOrder(queue, t, u) /\ InOrder(queue', u, t)
    BY DEF Before, InOrder
  <1>2. queue \in Seq(Thread) /\ queue' \in Seq(Thread)
    BY DEF IInv, TypeOK
  <1>3. queue' # <<>>
    BY <1>1 DEF InOrder
  <1>4. proc = "running" /\ queue # <<>> /\ cpu = Head(queue) /\ Injective(queue)
        /\ Elements(queue) = Live
    <2>1. proc = "running"
      BY DEF Next, Yield, Exit, Create, Join, Lock, Unlock, ReturnFromMain, InClient
    <2> QED BY <2>1 DEF IInv, CpuIsHead, Current, QueuesPartitionThreads, Injective, Elements
  <1>5. proc' = "running" => ~InOrder(queue', t, u)
    <2> SUFFICES ASSUME proc' = "running" PROVE ~InOrder(queue', t, u)
      OBVIOUS
    <2>1. Injective(queue')
      BY DEF IInv, QueuesPartitionThreads, Injective
    <2> QED BY <1>1, <1>2, <2>1, OneOrder
  <1>6. UNCHANGED <<proc, queue>> => FALSE
    BY <1>1, <1>4, <1>5
  <1>7. GiveWay /\ proc' = proc => FALSE
    <2> SUFFICES ASSUME GiveWay, proc' = proc PROVE FALSE
      OBVIOUS
    <2>1. CASE Len(queue) > 1
      <3>1. queue' = Rotate(queue)
        BY <2>1 DEF GiveWay, SwitchTo
      <3> QED BY <1>1, <1>2, <1>4, <1>5, <2>1, <3>1, RotateOrder
    <2>2. CASE ~(Len(queue) > 1)
      BY <1>6, <2>2 DEF GiveWay
    <2> QED BY <2>1, <2>2
  <1>8. CASE \E v \in Thread : Yield(v)
    BY <1>7, <1>8 DEF Yield
  <1>9. CASE \E v \in Thread : Exit(v)
    <2>1. PICK fin : ExitSchedule(fin)
      BY <1>9 DEF Exit
    <2>2. queue' = Tail(queue) /\ proc' = proc
      BY <1>3, <2>1 DEF ExitSchedule, FreeAll
    <2> QED BY <1>1, <1>2, <1>4, <1>5, <2>2, TailOrder
  <1>10. CASE \E v, w \in Thread : Create(v, w)
    <2>1. PICK w \in Thread : queue' = Append(queue, w) /\ proc' = proc
      BY <1>10 DEF Create
    <2> QED BY <1>1, <1>2, <1>4, <1>5, <2>1, AppendOrder
  <1>11. CASE \E v, w \in Thread : Join(v, w)
    <2>1. PICK v \in Thread, w \in Thread : Join(v, w)
      BY <1>11
    <2>2. CASE status[w] = "FINISH"
      BY <1>6, <2>1, <2>2 DEF Join
    <2>3. CASE status[w] # "FINISH"
      <3>1. /\ queue' = MoveToHead(queue, w) /\ proc' = proc /\ cpu = v
            /\ joining' = [joining EXCEPT ![v] = w] /\ status[w] # "ABSENT"
        BY <2>1, <2>3 DEF Join, Donate, SwitchTo
      <3>2. w \in Elements(queue)
        BY <1>4, <2>3, <3>1 DEF Live, IInv, TypeOK
      <3>3. u = w
        BY <1>1, <1>2, <1>4, <1>5, <3>1, <3>2, MoveToHeadOrder
      <3> QED BY <3>1, <3>3 DEF IInv, TypeOK
    <2> QED BY <2>2, <2>3
  <1>12. CASE \E v \in Thread, m \in Mutex : Lock(v, m)
    <2>1. PICK v \in Thread, m \in Mutex : Lock(v, m)
      BY <1>12
    <2>2. CASE FoundFree(v, m)
      BY <1>6, <2>1, <2>2 DEF Lock
    <2>3. CASE ~FoundFree(v, m)
      BY <1>7, <2>1, <2>3 DEF Lock, WaitForMutex
    <2> QED BY <2>2, <2>3
  <1>13. CASE \E v \in Thread, m \in Mutex : Unlock(v, m)
    BY <1>6, <1>13 DEF Unlock
  <1>14. CASE ReturnFromMain
    BY <1>3, <1>14 DEF ReturnFromMain, FreeAll
  <1> QED BY <1>8, <1>9, <1>10, <1>11, <1>12, <1>13, <1>14 DEF Next

-----------------------------------------------------------------------------
(* IInv is an invariant of the library.                                     *)
THEOREM Invariant == Spec => []IInv
  BY InitInv, StepInv, PTL DEF Spec

(* Every variable keeps its type: no call leaves a thread without a status   *)
(* of the enumeration or a mutex with a flag other than 0 and 1.             *)
THEOREM TypeCorrect == Spec => []TypeOK
  BY Invariant, PTL DEF IInv

(* thread_self() names the thread whose stack is executing, in every         *)
(* program: no interleaving of yields, joins, exits and lock waits separates *)
(* the processor from the head of the run queue. (thread.c:152-155)          *)
THEOREM SelfIsRight == Spec => []CpuIsHead
  BY Invariant, PTL DEF IInv

(* No call loses a thread, links it twice or leaves it in both queues.       *)
(* (thread.c:168, 182-183, 214-215, 233-234)                                 *)
THEOREM NoThreadLost == Spec => []QueuesPartitionThreads
  BY Invariant, PTL DEF IInv

(* When the process ends every thread ever created has been freed.           *)
(* (thread.c:107-128)                                                        *)
THEOREM AllIsFreed == Spec => []NothingLeaked
  BY Invariant, PTL DEF IInv

(* Locks exclude each other, however many threads contend and although the   *)
(* waiters spin. (thread.c:252-288)                                          *)
THEOREM LockIsExclusive == Spec => []MutualExclusion
  BY Invariant, PTL DEF IInv

(* Scheduling is first come, first served, with the exception of join, for   *)
(* every number of threads. (thread.c:182-183, 214-215)                      *)
THEOREM FirstComeFirstServed == Spec => NoOvertaking
  <1>1. IInv /\ IInv' /\ [Next]_vars
        => [\A t, u \in Thread :
              Before(t, u) /\ Before(u, t)' => t = cpu \/ joining'[cpu] = u]_vars
    BY StepOrder
  <1> QED BY <1>1, Invariant, PTL DEF Spec, NoOvertaking

===============================================================================
