----------------------------- MODULE Cdcl_proofs -----------------------------
(***************************************************************************)
(* The solver of Cdcl is correct: IInv is an inductive invariant, for any  *)
(* number of variables and any formula, and the properties that the run    *)
(* checks follow from it, the refinement of Decider among them.            *)
(*                                                                         *)
(* First come the lemmas on the heap: an element that moves along a path   *)
(* of positions keeps the array and the positions inverse of each other,   *)
(* and the order.  Then the invariant, one lemma per part and, under it,   *)
(* one step per action that can disturb that part.                         *)
(***************************************************************************)
EXTENDS Cdcl, FiniteSetTheorems, SequenceTheorems, WellFoundedInduction, TLAPS

-----------------------------------------------------------------------------
Goes(next, i, S) == i \in S /\ \A k \in S : next[k] # Absent => next[k] \in S

\* A path is the smallest closed set; who is on it but the start comes from another.
LEMMA PathBasics ==
  ASSUME NEW n \in Nat, NEW next \in [1 .. n -> 0 .. n], NEW i \in 1 .. n
  PROVE  /\ Path(next, i) \subseteq 1 .. n
         /\ Goes(next, i, Path(next, i))
         /\ \A S \in SUBSET (1 .. n) : Goes(next, i, S) => Path(next, i) \subseteq S
         /\ \A k \in Path(next, i) \ {i} : \E j \in Path(next, i) : next[j] = k
  <1> DEFINE P == Path(next, i)
  <1>1. P = {k \in 1 .. n : \A S \in {T \in SUBSET (1 .. n) : Goes(next, i, T)} : k \in S}
    BY DEF Path, Goes
  <1>2. P \subseteq 1 .. n
    BY <1>1
  <1>3. \A S \in SUBSET (1 .. n) : Goes(next, i, S) => P \subseteq S
    BY <1>1
  <1>4. Goes(next, i, P)
    <2>1. i \in P
      BY <1>1 DEF Goes
    <2>2. ASSUME NEW k \in P, next[k] # Absent PROVE next[k] \in P
      <3>1. next[k] \in 1 .. n
        BY <1>2, <2>2 DEF Absent
      <3> QED BY <1>1, <2>2, <3>1 DEF Goes
    <2> QED BY <2>1, <2>2 DEF Goes
  <1>5. ASSUME NEW k \in P \ {i} PROVE \E j \in P : next[j] = k
    <2> DEFINE T == {m \in P : m = i \/ \E j \in P : next[j] = m}
    <2>1. Goes(next, i, T)
      BY <1>4 DEF Goes
    <2>2. T \in SUBSET (1 .. n)
      BY <1>2
    <2>3. P \subseteq T
      BY <1>3, <2>1, <2>2
    <2> QED BY <2>3
  <1> QED BY <1>2, <1>3, <1>4, <1>5

(* Towards the root: who is on the path and above k comes from k.          *)
LEMMA PathUp ==
  ASSUME NEW n \in Nat, NEW next \in [1 .. n -> 0 .. n], NEW i \in 1 .. n,
         \A k \in 1 .. n : next[k] < k
  PROVE  /\ \A k \in Path(next, i) : k <= i
         /\ \A j, k \in Path(next, i) : j < k => next[k] # Absent /\ j <= next[k]
  <1> DEFINE P == Path(next, i)
  <1>1. /\ P \subseteq 1 .. n /\ i \in P
        /\ \A k \in P : next[k] # Absent => next[k] \in P
        /\ \A S \in SUBSET (1 .. n) : Goes(next, i, S) => P \subseteq S
    BY PathBasics DEF Goes
  <1> HIDE DEF P
  <1>2. \A k \in P : k <= i
    <2> DEFINE S == {k \in P : k <= i}
    <2>0. i \in P /\ i \in Nat /\ i <= i
      BY <1>1
    <2>1. S \in SUBSET (1 .. n) /\ i \in S
      BY <1>1, <2>0
    <2>2. ASSUME NEW k \in S, next[k] # Absent PROVE next[k] \in S
      <3>1. k \in P /\ k \in 1 .. n /\ next[k] \in P /\ next[k] < k /\ next[k] \in Nat
        BY <1>1, <2>2
      <3> QED BY <3>1, <2>2
    <2> QED BY <1>1, <2>1, <2>2 DEF Goes
  <1> DEFINE Above(k) == \A j \in P : j < k => next[k] # Absent /\ j <= next[k]
             Below(k) == \A j \in P : j > k => next[j] # Absent /\ next[j] >= k
             Good == {k \in P : Above(k) /\ Below(k)}
  <1>3. i \in Good
    <2> DEFINE S == {k \in P : k = i \/ (next[i] # Absent /\ k <= next[i])}
    <2>1. S \in SUBSET (1 .. n) /\ i \in S
      BY <1>1
    <2>2. ASSUME NEW k \in S, next[k] # Absent PROVE next[k] \in S
      <3>1. next[k] \in P /\ next[k] < k /\ next[k] \in Nat /\ k \in Nat /\ next[i] \in Nat
        BY <1>1, <2>2
      <3>2. CASE k = i
        BY <2>2, <3>1, <3>2
      <3>3. CASE k # i /\ next[i] # Absent /\ k <= next[i]
        BY <3>1, <3>3
      <3> QED BY <3>2, <3>3
    <2>3. P \subseteq S
      BY <1>1, <2>1, <2>2 DEF Goes
    <2>4. Above(i)
      BY <2>3
    <2>5. Below(i)
      BY <1>1, <1>2
    <2> QED BY <1>1, <2>4, <2>5
  <1>4. ASSUME NEW k \in Good, next[k] # Absent PROVE next[k] \in Good
    <2> DEFINE p == next[k]
    <2>1. p \in P /\ k \in P /\ p < k /\ p \in 1 .. n /\ k \in 1 .. n
      BY <1>1, <1>4
    <2>2. Above(k) /\ Below(k)
      OBVIOUS
    <2> HIDE DEF p, Above, Below, Good
    <2>3. Below(p)
      <3> SUFFICES ASSUME NEW j \in P, j > p PROVE next[j] # Absent /\ next[j] >= p
        BY DEF Below
      <3>1. j \in 1 .. n /\ next[j] \in 0 .. n
        BY <1>1
      <3>2. CASE j < k
        BY <2>2, <3>1, <3>2, <2>1 DEF Above, p
      <3>3. CASE j = k
        BY <2>1, <3>3, <1>4 DEF p
      <3>4. CASE j > k
        BY <2>1, <2>2, <3>1, <3>4 DEF Below
      <3> QED BY <2>1, <3>1, <3>2, <3>3, <3>4
    <2>4. Above(p)
      <3> DEFINE S == {m \in P : m >= p \/ (next[p] # Absent /\ m <= next[p])}
      <3>1. S \in SUBSET (1 .. n) /\ i \in S
        BY <1>1, <1>2, <2>1
      <3>2. ASSUME NEW m \in S, next[m] # Absent PROVE next[m] \in S
        <4>1. next[m] \in P /\ next[m] < m /\ next[m] \in Nat /\ m \in Nat /\ next[p] \in Nat /\ p \in Nat
          BY <1>1, <2>1, <3>2
        <4>2. CASE m = p
          BY <4>1, <4>2, <3>2
        <4>3. CASE m > p
          BY <2>3, <4>1, <4>3 DEF Below
        <4>4. CASE m < p
          BY <4>1, <4>4
        <4> QED BY <4>1, <4>2, <4>3, <4>4
      <3>3. P \subseteq S
        BY <1>1, <3>1, <3>2 DEF Goes
      <3> SUFFICES ASSUME NEW j \in P, j < p PROVE next[p] # Absent /\ j <= next[p]
        BY DEF Above
      <3>4. j \in S /\ j \in Nat /\ p \in Nat
        BY <1>1, <2>1, <3>3
      <3> QED BY <3>4
    <2> QED BY <2>1, <2>3, <2>4 DEF Good, p
  <1>5. P \subseteq Good
    <2>1. Good \in SUBSET (1 .. n)
      BY <1>1
    <2>2. Goes(next, i, Good)
      BY <1>3, <1>4 DEF Goes
    <2> QED BY <1>1, <2>1, <2>2
  <1>6. \A k \in P : Above(k)
    BY <1>5
  <1> QED BY <1>2, <1>6 DEF P

(* Towards the leaves.                                                     *)
LEMMA PathDown ==
  ASSUME NEW n \in Nat, NEW next \in [1 .. n -> 0 .. n], NEW i \in 1 .. n,
         \A k \in 1 .. n : next[k] # Absent => next[k] > k
  PROVE  /\ \A k \in Path(next, i) : k >= i
         /\ \A j, k \in Path(next, i) : j > k => next[k] # Absent /\ j >= next[k]
  <1> DEFINE P == Path(next, i)
  <1>1. /\ P \subseteq 1 .. n /\ i \in P
        /\ \A k \in P : next[k] # Absent => next[k] \in P
        /\ \A S \in SUBSET (1 .. n) : Goes(next, i, S) => P \subseteq S
    BY PathBasics DEF Goes
  <1> HIDE DEF P
  <1>2. \A k \in P : k >= i
    <2> DEFINE S == {k \in P : k >= i}
    <2>0. i \in P /\ i \in Nat /\ i >= i
      BY <1>1
    <2>1. S \in SUBSET (1 .. n) /\ i \in S
      BY <1>1, <2>0
    <2>2. ASSUME NEW k \in S, next[k] # Absent PROVE next[k] \in S
      <3>1. k \in P /\ k \in 1 .. n /\ next[k] \in P /\ next[k] > k /\ next[k] \in Nat
        BY <1>1, <2>2
      <3> QED BY <3>1, <2>2
    <2> QED BY <1>1, <2>1, <2>2 DEF Goes
  <1> DEFINE Below(k) == \A j \in P : j > k => next[k] # Absent /\ j >= next[k]
             Above(k) == \A j \in P : j < k => next[j] # Absent /\ next[j] <= k
             Good == {k \in P : Below(k) /\ Above(k)}
  <1>3. i \in Good
    <2> DEFINE S == {k \in P : k = i \/ (next[i] # Absent /\ k >= next[i])}
    <2>1. S \in SUBSET (1 .. n) /\ i \in S
      BY <1>1
    <2>2. ASSUME NEW k \in S, next[k] # Absent PROVE next[k] \in S
      <3>1. next[k] \in P /\ next[k] > k /\ next[k] \in Nat /\ k \in Nat /\ next[i] \in Nat
        BY <1>1, <2>2
      <3>2. CASE k = i
        BY <2>2, <3>1, <3>2
      <3>3. CASE k # i /\ next[i] # Absent /\ k >= next[i]
        BY <3>1, <3>3
      <3> QED BY <3>2, <3>3
    <2>3. P \subseteq S
      BY <1>1, <2>1, <2>2 DEF Goes
    <2>4. Below(i)
      BY <2>3
    <2>5. Above(i)
      BY <1>1, <1>2
    <2> QED BY <1>1, <2>4, <2>5
  <1>4. ASSUME NEW k \in Good, next[k] # Absent PROVE next[k] \in Good
    <2> DEFINE p == next[k]
    <2>1. p \in P /\ k \in P /\ p > k /\ p \in 1 .. n /\ k \in 1 .. n
      BY <1>1, <1>4
    <2>2. Below(k) /\ Above(k)
      OBVIOUS
    <2> HIDE DEF p, Below, Above, Good
    <2>3. Above(p)
      <3> SUFFICES ASSUME NEW j \in P, j < p PROVE next[j] # Absent /\ next[j] <= p
        BY DEF Above
      <3>1. j \in 1 .. n /\ next[j] \in 0 .. n
        BY <1>1
      <3>2. CASE j > k
        BY <2>2, <3>1, <3>2, <2>1 DEF Below, p
      <3>3. CASE j = k
        BY <2>1, <3>3, <1>4 DEF p
      <3>4. CASE j < k
        BY <2>1, <2>2, <3>1, <3>4 DEF Above
      <3> QED BY <2>1, <3>1, <3>2, <3>3, <3>4
    <2>4. Below(p)
      <3> DEFINE S == {m \in P : m <= p \/ (next[p] # Absent /\ m >= next[p])}
      <3>1. S \in SUBSET (1 .. n) /\ i \in S
        BY <1>1, <1>2, <2>1
      <3>2. ASSUME NEW m \in S, next[m] # Absent PROVE next[m] \in S
        <4>1. next[m] \in P /\ next[m] > m /\ next[m] \in Nat /\ m \in Nat /\ next[p] \in Nat /\ p \in Nat
          BY <1>1, <2>1, <3>2
        <4>2. CASE m = p
          BY <4>1, <4>2, <3>2
        <4>3. CASE m < p
          BY <2>3, <4>1, <4>3 DEF Above
        <4>4. CASE m > p
          BY <4>1, <4>4
        <4> QED BY <4>1, <4>2, <4>3, <4>4
      <3>3. P \subseteq S
        BY <1>1, <3>1, <3>2 DEF Goes
      <3> SUFFICES ASSUME NEW j \in P, j > p PROVE next[p] # Absent /\ j >= next[p]
        BY DEF Below
      <3>4. j \in S /\ j \in Nat /\ p \in Nat
        BY <1>1, <2>1, <3>3
      <3> QED BY <3>4
    <2> QED BY <2>1, <2>3, <2>4 DEF Good, p
  <1>5. P \subseteq Good
    <2>1. Good \in SUBSET (1 .. n)
      BY <1>1
    <2>2. Goes(next, i, Good)
      BY <1>3, <1>4 DEF Goes
    <2> QED BY <1>1, <2>1, <2>2
  <1>6. \A k \in P : Below(k)
    BY <1>5
  <1> QED BY <1>2, <1>6 DEF P

(***************************************************************************)
(* Each place of a path takes its element from another one, the end from i: *)
(* nothing is lost and nothing doubled.                                    *)
(***************************************************************************)
Tidy(next, i) ==
  /\ \A j, k \in Path(next, i) : next[j] = next[k] => j = k
  /\ \A k \in Path(next, i) : next[k] # i
  /\ \E k \in Path(next, i) : next[k] = Absent

\* A path whose steps never meet and never come back has an end: a function that is one
\* to one on a finite set is onto it.
LEMMA PathEnds ==
  ASSUME NEW n \in Nat, NEW next \in [1 .. n -> 0 .. n], NEW i \in 1 .. n,
         \A j, k \in Path(next, i) : next[j] = next[k] => j = k,
         \A k \in Path(next, i) : next[k] # i
  PROVE  Tidy(next, i)
  <1> DEFINE P == Path(next, i)
  <1>1. P \subseteq 1 .. n /\ i \in P /\ \A k \in P : next[k] # Absent => next[k] \in P
    BY PathBasics DEF Goes
  <1>2. ASSUME \A k \in P : next[k] # Absent PROVE FALSE
    <2> HIDE DEF P
    <2>0. IsFiniteSet(1 .. n)
      BY FS_Interval, 1 \in Int, n \in Int
    <2>1. IsFiniteSet(P)
      BY <1>1, <2>0, FS_Subset
    <2>2. /\ IsFiniteSet(P \ {i}) /\ Cardinality(P \ {i}) = Cardinality(P) - 1
          /\ Cardinality(P) \in Nat
      BY <1>1, <2>1, FS_RemoveElement, FS_CardinalityType
    <2> DEFINE f == [k \in P |-> next[k]]
    <2>3. f \in [P -> P \ {i}]
      BY <1>1, <1>2 DEF P
    <2>4. Cardinality(P \ {i}) < Cardinality(P)
      BY <2>2
    <2> HIDE DEF f
    <2>5. \E x, y \in P : x # y /\ f[x] = f[y]
      BY <2>1, <2>2, <2>3, <2>4, FS_PigeonHole
    <2> QED BY <2>5 DEF f, P
  <1> QED BY <1>2 DEF Tidy

\* The path of _percolateUp is tidy.
LEMMA UpIsTidy ==
  ASSUME NEW n \in Nat, NEW next \in [1 .. n -> 0 .. n], NEW i \in 1 .. n,
         \A k \in 1 .. n : next[k] < k
  PROVE  Tidy(next, i)
  <1> DEFINE P == Path(next, i)
  <1>1. P \subseteq 1 .. n /\ i \in P
    BY PathBasics DEF Goes
  <1>2. /\ \A k \in P : k <= i
        /\ \A j, k \in P : j < k => next[k] # Absent /\ j <= next[k]
    BY PathUp
  <1> HIDE DEF P
  <1>3. \A j, k \in P : next[j] = next[k] => j = k
    <2> SUFFICES ASSUME NEW j \in P, NEW k \in P, next[j] = next[k], j < k PROVE FALSE
      BY <1>1
    <2>1. j <= next[k] /\ next[j] < j /\ j \in Nat /\ next[j] \in Nat
      BY <1>1, <1>2
    <2> QED BY <2>1
  <1>4. ASSUME NEW k \in P, next[k] = i PROVE FALSE
    <2>1. k <= i /\ next[k] < k /\ k \in Nat
      BY <1>1, <1>2
    <2> QED BY <2>1, <1>4
  <1> QED BY <1>3, <1>4, PathEnds DEF P

\* The path of _percolateDown is tidy.
LEMMA DownIsTidy ==
  ASSUME NEW n \in Nat, NEW next \in [1 .. n -> 0 .. n], NEW i \in 1 .. n,
         \A k \in 1 .. n : next[k] # Absent => next[k] > k
  PROVE  Tidy(next, i)
  <1> DEFINE P == Path(next, i)
  <1>1. P \subseteq 1 .. n /\ i \in P
    BY PathBasics DEF Goes
  <1>2. /\ \A k \in P : k >= i
        /\ \A j, k \in P : j > k => next[k] # Absent /\ j >= next[k]
    BY PathDown
  <1> HIDE DEF P
  <1>3. \A j, k \in P : next[j] = next[k] => j = k
    <2> SUFFICES ASSUME NEW j \in P, NEW k \in P, next[j] = next[k], j > k PROVE FALSE
      BY <1>1
    <2>1. j >= next[k] /\ next[k] # Absent /\ j \in Nat /\ next[j] \in Nat
      BY <1>1, <1>2
    <2>2. next[j] > j
      BY <1>1, <2>1
    <2> QED BY <2>1, <2>2
  <1>4. ASSUME NEW k \in P, next[k] = i PROVE FALSE
    <2>1. k >= i /\ k \in Nat /\ i \in Nat /\ i # Absent
      BY <1>1, <1>2 DEF Absent
    <2>2. next[k] > k
      BY <1>1, <1>4, <2>1
    <2> QED BY <2>1, <2>2, <1>4
  <1> QED BY <1>3, <1>4, PathEnds DEF P

-----------------------------------------------------------------------------
(* indices is the inverse of the array. *)
Indexed(h) ==
  /\ h.heap \in Seq(Var) /\ h.indices \in [Var -> Nat]
  /\ \A v \in Var :
       IF InHeap(h, v) THEN h.indices[v] \in DOMAIN h.heap /\ h.heap[h.indices[v]] = v
                       ELSE \A k \in DOMAIN h.heap : h.heap[k] # v
  /\ \A k \in DOMAIN h.heap : h.indices[h.heap[k]] = k

Ordered(h, score) ==
  \A k \in DOMAIN h.heap : k > 1 => score[h.heap[k \div 2]] >= score[h.heap[k]]

\* Where the element at k comes from.
Source(next, i, k) ==
  IF k \in Path(next, i) THEN IF next[k] = Absent THEN i ELSE next[k] ELSE k

\* Sliding along a tidy path keeps indices and array inverse of each other, and the members.
LEMMA SlideKeeps ==
  ASSUME NEW h, Indexed(h), NEW i \in DOMAIN h.heap,
         NEW next \in [DOMAIN h.heap -> 0 .. Len(h.heap)], Tidy(next, i),
         NEW g, g = Slide(h, i, next)
  PROVE  /\ Indexed(g)
         /\ DOMAIN g.heap = DOMAIN h.heap
         /\ \A v \in Var : InHeap(g, v) <=> InHeap(h, v)
         /\ \A k \in DOMAIN h.heap : /\ Source(next, i, k) \in DOMAIN h.heap
                                     /\ g.heap[k] = h.heap[Source(next, i, k)]
  <1> DEFINE n == Len(h.heap)
             P == Path(next, i)
             Src(k) == Source(next, i, k)
  <1>1. /\ n \in Nat /\ DOMAIN h.heap = 1 .. n /\ i \in 1 .. n
        /\ h.heap \in [1 .. n -> Var]
        /\ next \in [1 .. n -> 0 .. n]
    BY DEF Indexed
  <1>2. /\ P \subseteq 1 .. n /\ i \in P
        /\ \A k \in P : next[k] # Absent => next[k] \in P
        /\ \A k \in P \ {i} : \E j \in P : next[j] = k
    BY <1>1, PathBasics DEF Goes
  <1>3. /\ \A j, k \in P : next[j] = next[k] => j = k
        /\ \A k \in P : next[k] # i
        /\ \E k \in P : next[k] = Absent
    BY DEF Tidy
  <1> DEFINE from == [k \in P |-> h.heap[IF next[k] = Absent THEN i ELSE next[k]]]
  <1>4. /\ g.heap = [k \in DOMAIN h.heap |-> IF k \in P THEN from[k] ELSE h.heap[k]]
        /\ g.indices = [v \in DOMAIN h.indices |->
                          IF \E k \in P : from[k] = v
                          THEN CHOOSE k \in P : from[k] = v ELSE h.indices[v]]
    BY DEF Slide
  <1> HIDE DEF P, n
  <1>5. \A k \in 1 .. n : Src(k) \in 1 .. n /\ (k \in P <=> Src(k) \in P)
    BY <1>1, <1>2 DEF Source, P
  <1>6. \A k \in P : from[k] = h.heap[Src(k)]
    BY DEF Source, P
  <1>7. \A k \in 1 .. n : g.heap[k] = h.heap[Src(k)]
    BY <1>1, <1>4, <1>6 DEF Source, P
  <1>8. \A p \in P : \E k \in P : Src(k) = p
    BY <1>2, <1>3 DEF Source, P, Absent
  <1>9. \A j, k \in P : Src(j) = Src(k) => j = k
    BY <1>2, <1>3 DEF Source, P
  <1> HIDE DEF Src, from
  <1>10. g.heap \in Seq(Var) /\ Len(g.heap) = n /\ DOMAIN g.heap = 1 .. n
    <2>0. \A k \in 1 .. n : g.heap[k] \in Var
      BY <1>1, <1>5, <1>7
    <2>1. g.heap \in [1 .. n -> Var]
      BY <1>1, <1>4, <2>0
    <2> QED BY <1>1, <2>1
  <1>11. \A v \in Var : \A k \in P :
           from[k] = v <=> InHeap(h, v) /\ h.indices[v] = Src(k)
    <2> SUFFICES ASSUME NEW v \in Var, NEW k \in P
                 PROVE  from[k] = v <=> InHeap(h, v) /\ h.indices[v] = Src(k)
      OBVIOUS
    <2>1. Src(k) \in DOMAIN h.heap /\ from[k] = h.heap[Src(k)] /\ Src(k) # Absent
      BY <1>1, <1>2, <1>5, <1>6 DEF Absent
    <2>2. h.indices[h.heap[Src(k)]] = Src(k)
      BY <2>1 DEF Indexed
    <2>3. InHeap(h, v) => h.heap[h.indices[v]] = v
      BY DEF Indexed
    <2> QED BY <2>1, <2>2, <2>3 DEF InHeap
  <1>12. ASSUME NEW v \in Var, InHeap(h, v)
         PROVE  /\ g.indices[v] \in 1 .. n /\ g.heap[g.indices[v]] = v
    <2>1. h.indices[v] \in 1 .. n /\ h.heap[h.indices[v]] = v
      BY <1>1, <1>12 DEF Indexed
    <2>2. CASE h.indices[v] \in P
      <3>1. PICK k \in P : Src(k) = h.indices[v]
        BY <1>8, <2>2
      <3>2. from[k] = v
        BY <1>11, <1>12, <3>1
      <3>3. g.indices[v] \in P /\ from[g.indices[v]] = v
        BY <1>4, <3>2 DEF Indexed
      <3> QED BY <1>2, <1>5, <1>6, <1>7, <3>3
    <2>3. CASE h.indices[v] \notin P
      <3>1. \A k \in P : from[k] # v
        BY <1>2, <1>5, <1>11, <2>3
      <3>2. g.indices[v] = h.indices[v]
        BY <1>4, <3>1 DEF Indexed
      <3> QED BY <1>1, <1>4, <2>1, <2>3, <3>2
    <2> QED BY <2>2, <2>3
  <1>13. ASSUME NEW v \in Var, ~InHeap(h, v)
         PROVE  ~InHeap(g, v) /\ \A k \in 1 .. n : g.heap[k] # v
    <2>1. \A k \in 1 .. n : h.heap[k] # v
      BY <1>1, <1>13 DEF Indexed
    <2>2. \A k \in P : from[k] # v
      BY <1>11, <1>13
    <2>3. g.indices[v] = h.indices[v]
      BY <1>4, <2>2 DEF Indexed
    <2> QED BY <1>5, <1>7, <1>13, <2>1, <2>3 DEF InHeap
  <1>14. g.indices \in [Var -> Nat]
    <2>1. DOMAIN g.indices = Var /\ g.indices = [v \in Var |-> g.indices[v]]
      BY <1>4 DEF Indexed
    <2>2. ASSUME NEW v \in Var PROVE g.indices[v] \in Nat
      BY <1>1, <1>12, <1>13 DEF InHeap, Absent
    <2> QED BY <2>1, <2>2
  <1>15. ASSUME NEW k \in 1 .. n PROVE g.indices[g.heap[k]] = k
    <2> DEFINE v == g.heap[k]
    <2>1. v \in Var /\ Src(k) \in 1 .. n /\ v = h.heap[Src(k)]
      BY <1>1, <1>5, <1>7
    <2>2. h.indices[v] = Src(k) /\ InHeap(h, v)
      BY <1>1, <2>1 DEF Indexed, InHeap, Absent
    <2>3. g.indices[v] \in 1 .. n /\ g.heap[g.indices[v]] = v
      BY <1>12, <2>1, <2>2
    <2>4. h.heap[Src(g.indices[v])] = v /\ Src(g.indices[v]) \in 1 .. n
      BY <1>5, <1>7, <2>3
    <2>5. Src(g.indices[v]) = Src(k)
      BY <1>1, <2>2, <2>4 DEF Indexed
    <2> HIDE DEF v
    <2>6. CASE k \in P
      BY <1>5, <1>9, <2>3, <2>5, <2>6 DEF v
    <2>7. CASE k \notin P
      <3>1. Src(k) = k /\ g.indices[v] \notin P
        BY <1>5, <2>3, <2>5, <2>7 DEF Src, Source, P
      <3>2. Src(g.indices[v]) = g.indices[v]
        BY <3>1 DEF Src, Source, P
      <3> QED BY <2>5, <3>1, <3>2 DEF v
    <2> QED BY <2>6, <2>7
  <1>16. \A v \in Var : InHeap(g, v) <=> InHeap(h, v)
    BY <1>1, <1>12, <1>13 DEF InHeap, Absent
  <1>17. Indexed(g)
    BY <1>10, <1>12, <1>13, <1>14, <1>15, <1>16 DEF Indexed
  <1> QED BY <1>1, <1>5, <1>7, <1>10, <1>16, <1>17 DEF Src

-----------------------------------------------------------------------------
(* An element that rises from i leaves a heap, if everything else was in order. *)
LEMMA UpKeeps ==
  ASSUME NEW h, Indexed(h), NEW i \in DOMAIN h.heap, NEW score \in [Var -> Nat],
         \A k \in DOMAIN h.heap :
           k > 1 /\ k # i => score[h.heap[k \div 2]] >= score[h.heap[k]],
         \A k \in DOMAIN h.heap :
           k \div 2 = i /\ i > 1 => score[h.heap[i \div 2]] >= score[h.heap[k]],
         NEW g, g = PercolateUp(h, i, score)
  PROVE  /\ Indexed(g) /\ Ordered(g, score)
         /\ \A v \in Var : InHeap(g, v) <=> InHeap(h, v)
  <1> DEFINE n == Len(h.heap)
             x == h.heap[i]
             next == [k \in DOMAIN h.heap |->
                        IF k > 1 /\ score[h.heap[i]] > score[h.heap[k \div 2]]
                        THEN k \div 2 ELSE Absent]
             P == Path(next, i)
             Src(k) == Source(next, i, k)
             S(k) == score[h.heap[k]]
  <1>1. /\ n \in Nat /\ DOMAIN h.heap = 1 .. n /\ i \in 1 .. n
        /\ h.heap \in [1 .. n -> Var]
    BY DEF Indexed
  <1> HIDE DEF n
  <1>2. \A k \in 1 .. n : k > 1 => k \div 2 \in 1 .. n /\ k \div 2 < k
    BY <1>1
  <1>3. next \in [1 .. n -> 0 .. n] /\ \A k \in 1 .. n : next[k] < k
    <2>1. \A k \in 1 .. n : next[k] \in 0 .. n /\ next[k] < k
      BY <1>1, <1>2 DEF Absent
    <2> QED BY <1>1, <2>1
  <1>4. \A k \in 1 .. n : /\ next[k] # Absent <=> k > 1 /\ S(i) > S(k \div 2)
                          /\ next[k] # Absent => next[k] = k \div 2
    BY <1>1, <1>2 DEF Absent
  <1>5. \A k \in 1 .. n : S(k) \in Nat
    BY <1>1
  <1>6. /\ \A k \in 1 .. n : k > 1 /\ k # i => S(k \div 2) >= S(k)
        /\ \A k \in 1 .. n : k \div 2 = i /\ i > 1 => S(i \div 2) >= S(k)
    BY <1>1
  <1>7. g = Slide(h, i, next)
    BY DEF PercolateUp
  <1> HIDE DEF next
  <1>8. /\ P \subseteq 1 .. n /\ i \in P
        /\ \A k \in P : next[k] # Absent => next[k] \in P
        /\ \A k \in P \ {i} : \E j \in P : next[j] = k
    BY <1>1, <1>3, PathBasics DEF Goes
  <1>9. /\ \A k \in P : k <= i
        /\ \A j, k \in P : j < k => next[k] # Absent /\ j <= next[k]
    BY <1>1, <1>3, PathUp
  <1>10. Tidy(next, i)
    BY <1>1, <1>3, UpIsTidy
  <1>11. /\ Indexed(g) /\ DOMAIN g.heap = 1 .. n
         /\ \A v \in Var : InHeap(g, v) <=> InHeap(h, v)
         /\ \A k \in 1 .. n : Src(k) \in 1 .. n /\ g.heap[k] = h.heap[Src(k)]
    <2>1. next \in [DOMAIN h.heap -> 0 .. Len(h.heap)] /\ i \in DOMAIN h.heap
      BY <1>1, <1>3 DEF n
    <2> HIDE DEF S
    <2>2. /\ Indexed(g) /\ DOMAIN g.heap = DOMAIN h.heap
          /\ \A v \in Var : InHeap(g, v) <=> InHeap(h, v)
          /\ \A k \in DOMAIN h.heap : /\ Source(next, i, k) \in DOMAIN h.heap
                                      /\ g.heap[k] = h.heap[Source(next, i, k)]
      BY <1>7, <1>10, <2>1, SlideKeeps
    <2> QED BY <1>1, <2>2
  <1>12. /\ \A k \in P : Src(k) = IF next[k] = Absent THEN i ELSE k \div 2
         /\ \A k \in (1 .. n) \ P : Src(k) = k
    BY <1>4, <1>8 DEF Source
  <1> HIDE DEF P, Src, S
  <1>13. ASSUME NEW k \in 1 .. n, k > 1 PROVE S(Src(k \div 2)) >= S(Src(k))
    <2> DEFINE p == k \div 2
    <2>1. p \in 1 .. n /\ p < k
      BY <1>2, <1>13
    <2>2. CASE k \in P /\ next[k] # Absent
      <3>1. p \in P /\ p # i /\ Src(k) = p /\ S(i) > S(p)
        BY <1>4, <1>8, <1>9, <1>12, <2>1, <2>2
      <3>2. CASE next[p] = Absent
        <4>1. Src(p) = i
          BY <1>12, <3>1, <3>2
        <4> QED BY <1>1, <1>5, <2>1, <3>1, <4>1
      <3>3. CASE next[p] # Absent
        <4>1. p > 1 /\ Src(p) = p \div 2
          BY <1>4, <1>8, <1>12, <3>1, <3>3
        <4> QED BY <1>6, <2>1, <3>1, <4>1
      <3> QED BY <3>2, <3>3
    <2>3. CASE k \in P /\ next[k] = Absent
      <3>1. p \notin P
        BY <1>9, <2>1, <2>3
      <3>2. Src(p) = p /\ Src(k) = i
        BY <1>12, <2>1, <2>3, <3>1
      <3>3. ~(S(i) > S(p))
        BY <1>4, <1>13, <2>3
      <3> QED BY <1>1, <1>5, <2>1, <3>2, <3>3
    <2>4. CASE k \notin P /\ p \in P
      <3>1. Src(k) = k /\ k # i /\ S(p) >= S(k)
        BY <1>6, <1>8, <1>12, <1>13, <2>4
      <3>2. CASE p = i
        <4>1. CASE next[p] = Absent
          BY <1>12, <2>4, <3>1, <3>2, <4>1
        <4>2. CASE next[p] # Absent
          BY <1>4, <1>6, <1>12, <2>1, <2>4, <3>1, <3>2, <4>2
        <4> QED BY <4>1, <4>2
      <3>3. CASE p # i
        <4>1. PICK j \in P : next[j] = p
          BY <1>8, <2>4, <3>3
        <4>2. S(i) > S(p)
          BY <1>4, <1>8, <2>1, <4>1 DEF Absent
        <4>3. CASE next[p] = Absent
          BY <1>1, <1>5, <1>12, <2>1, <2>4, <3>1, <4>2, <4>3
        <4>4. CASE next[p] # Absent
          <5>1. p > 1 /\ Src(p) = p \div 2 /\ p \div 2 \in 1 .. n
            BY <1>2, <1>4, <1>12, <2>1, <2>4, <4>4
          <5>2. S(p \div 2) >= S(p)
            BY <1>6, <2>1, <3>3, <5>1
          <5> QED BY <1>5, <2>1, <3>1, <5>1, <5>2
        <4> QED BY <4>3, <4>4
      <3> QED BY <3>2, <3>3
    <2>5. CASE k \notin P /\ p \notin P
      BY <1>6, <1>8, <1>12, <1>13, <2>1, <2>5
    <2> QED BY <2>2, <2>3, <2>4, <2>5
  <1>14. Ordered(g, score)
    <2> SUFFICES ASSUME NEW k \in 1 .. n, k > 1
                 PROVE  score[g.heap[k \div 2]] >= score[g.heap[k]]
      BY <1>11 DEF Ordered
    <2> QED BY <1>2, <1>11, <1>13 DEF S
  <1> QED BY <1>11, <1>14

(* An element that sinks from the root leaves a heap. *)
LEMMA DownKeeps ==
  ASSUME NEW h, Indexed(h), NEW i \in DOMAIN h.heap, ~(i > 1), NEW score \in [Var -> Nat],
         \A k \in DOMAIN h.heap :
           k > 1 /\ k \div 2 # 1 => score[h.heap[k \div 2]] >= score[h.heap[k]],
         NEW g, g = PercolateDown(h, i, score)
  PROVE  /\ Indexed(g) /\ Ordered(g, score)
         /\ \A v \in Var : InHeap(g, v) <=> InHeap(h, v)
  <1> DEFINE n == Len(h.heap)
             B(k) == BestChild(h, k, score)
             next == [k \in DOMAIN h.heap |->
                        IF /\ 2 * k <= Len(h.heap)
                           /\ score[h.heap[BestChild(h, k, score)]] > score[h.heap[i]]
                        THEN BestChild(h, k, score) ELSE Absent]
             P == Path(next, i)
             Src(k) == Source(next, i, k)
             S(k) == score[h.heap[k]]
  <1>1. /\ n \in Nat /\ DOMAIN h.heap = 1 .. n /\ i \in 1 .. n
        /\ h.heap \in [1 .. n -> Var]
    BY DEF Indexed
  <1>0. i = 1
    BY <1>1
  <1>2. \A k \in 1 .. n : S(k) \in Nat
    BY <1>1
  <1>3. \A k \in 1 .. n : k > 1 => k \div 2 \in 1 .. n
    BY <1>1
  <1>4. \A k \in 1 .. n : k > 1 /\ k \div 2 # 1 => S(k \div 2) >= S(k)
    BY <1>1
  <1>5. ASSUME NEW k \in 1 .. n, 2 * k <= n
        PROVE  /\ B(k) \in 1 .. n /\ B(k) > k /\ B(k) \div 2 = k /\ B(k) > 1
               /\ S(B(k)) >= S(2 * k)
               /\ 2 * k + 1 <= n => S(B(k)) >= S(2 * k + 1)
    <2>1. CASE 2 * k + 1 <= n /\ S(2 * k + 1) > S(2 * k)
      <3>1. B(k) = 2 * k + 1
        BY <2>1 DEF BestChild
      <3>2. 2 * k \in 1 .. n /\ 2 * k + 1 \in 1 .. n
        BY <1>1, <1>5, <2>1
      <3> HIDE DEF B, S
      <3> QED BY <1>1, <1>2, <1>5, <2>1, <3>1, <3>2
    <2>2. CASE ~(2 * k + 1 <= n /\ S(2 * k + 1) > S(2 * k))
      <3>1. B(k) = 2 * k
        BY <2>2 DEF BestChild
      <3>2. 2 * k \in 1 .. n /\ (2 * k + 1 <= n => 2 * k + 1 \in 1 .. n)
        BY <1>1, <1>5
      <3> HIDE DEF B, S
      <3> QED BY <1>1, <1>2, <1>5, <2>2, <3>1, <3>2
    <2> QED BY <2>1, <2>2
  <1>6. \A k \in 1 .. n : /\ next[k] # Absent <=> 2 * k <= n /\ S(B(k)) > S(i)
                          /\ next[k] # Absent => next[k] = B(k)
    BY <1>1, <1>5 DEF Absent
  <1>7. next \in [1 .. n -> 0 .. n] /\ \A k \in 1 .. n : next[k] # Absent => next[k] > k
    <2>1. \A k \in 1 .. n : next[k] \in 0 .. n
      BY <1>1, <1>5 DEF Absent
    <2> HIDE DEF B, S
    <2>2. \A k \in 1 .. n : next[k] # Absent => next[k] > k
      BY <1>5, <1>6
    <2> QED BY <1>1, <2>1, <2>2
  <1>8. g = Slide(h, i, next)
    BY DEF PercolateDown
  <1> HIDE DEF next, n
  <1>9. /\ P \subseteq 1 .. n /\ i \in P
        /\ \A k \in P : next[k] # Absent => next[k] \in P
        /\ \A k \in P \ {i} : \E j \in P : next[j] = k
    BY <1>1, <1>7, PathBasics DEF Goes
  <1>10. Tidy(next, i)
    BY <1>1, <1>7, DownIsTidy
  <1>11. /\ Indexed(g) /\ DOMAIN g.heap = 1 .. n
         /\ \A v \in Var : InHeap(g, v) <=> InHeap(h, v)
         /\ \A k \in 1 .. n : Src(k) \in 1 .. n /\ g.heap[k] = h.heap[Src(k)]
    <2>1. next \in [DOMAIN h.heap -> 0 .. Len(h.heap)] /\ i \in DOMAIN h.heap
      BY <1>1, <1>7 DEF n
    <2> HIDE DEF S
    <2>2. /\ Indexed(g) /\ DOMAIN g.heap = DOMAIN h.heap
          /\ \A v \in Var : InHeap(g, v) <=> InHeap(h, v)
          /\ \A k \in DOMAIN h.heap : /\ Source(next, i, k) \in DOMAIN h.heap
                                      /\ g.heap[k] = h.heap[Source(next, i, k)]
      BY <1>8, <1>10, <2>1, SlideKeeps
    <2> QED BY <1>1, <2>2
  <1>12. /\ \A k \in P : Src(k) = IF next[k] = Absent THEN i ELSE B(k)
         /\ \A k \in (1 .. n) \ P : Src(k) = k
    BY <1>6, <1>9 DEF Source
  <1> HIDE DEF P, Src, S, B
  <1>13. ASSUME NEW k \in 1 .. n, k > 1 PROVE S(Src(k \div 2)) >= S(Src(k))
    <2> DEFINE p == k \div 2
    <2>1. p \in 1 .. n /\ 2 * p <= n /\ (k = 2 * p \/ k = 2 * p + 1) /\ k <= n
      <3>1. k \in Nat /\ k > 1 /\ n \in Nat /\ k <= n
        BY <1>1, <1>13
      <3> QED BY <3>1
    <2> HIDE DEF p
    <2>2. CASE k \in P
      <3>1. PICK j \in P : next[j] = k
        BY <1>9, <1>13, <2>2
      <3>2. j \in 1 .. n /\ next[j] # Absent /\ B(j) = k /\ S(k) > S(i)
        BY <1>6, <1>9, <3>1 DEF Absent
      <3>3. 2 * j <= n /\ j = p
        BY <1>5, <1>6, <3>2 DEF p
      <3>4. Src(p) = k
        BY <1>12, <3>1, <3>2, <3>3
      <3>5. CASE next[k] = Absent
        BY <1>1, <1>2, <1>12, <2>2, <3>2, <3>4, <3>5 DEF p
      <3>6. CASE next[k] # Absent
        <4>1. 2 * k <= n /\ Src(k) = B(k)
          BY <1>6, <1>12, <2>2, <3>6
        <4>2. B(k) \in 1 .. n /\ B(k) \div 2 = k /\ B(k) > 1
          BY <1>5, <4>1
        <4>3. S(k) >= S(B(k))
          BY <1>4, <1>13, <4>2
        <4> QED BY <3>4, <4>1, <4>3 DEF p
      <3> QED BY <3>5, <3>6
    <2>3. CASE k \notin P /\ p \in P
      <3>1. Src(k) = k /\ S(B(p)) >= S(k) /\ B(p) \in 1 .. n
        BY <1>5, <1>12, <2>1, <2>3
      <3>2. CASE next[p] = Absent
        <4>1. ~(S(B(p)) > S(i)) /\ Src(p) = i
          BY <1>6, <1>12, <2>1, <2>3, <3>2
        <4> QED BY <1>1, <1>2, <3>1, <4>1 DEF p
      <3>3. CASE next[p] # Absent
        <4>1. Src(p) = B(p)
          BY <1>12, <2>3, <3>3
        <4> QED BY <3>1, <4>1 DEF p
      <3> QED BY <3>2, <3>3
    <2>4. CASE k \notin P /\ p \notin P
      <3>1. p # 1 /\ Src(k) = k /\ Src(p) = p
        BY <1>0, <1>9, <1>12, <2>1, <2>4
      <3> QED BY <1>4, <1>13, <3>1 DEF p
    <2> QED BY <2>2, <2>3, <2>4
  <1>14. Ordered(g, score)
    <2> SUFFICES ASSUME NEW k \in 1 .. n, k > 1
                 PROVE  score[g.heap[k \div 2]] >= score[g.heap[k]]
      BY <1>11 DEF Ordered
    <2> QED BY <1>3, <1>11, <1>13 DEF S
  <1> QED BY <1>11, <1>14

\* What the proofs below use of an indexed heap.
LEMMA IndexedFacts ==
  ASSUME NEW h, Indexed(h)
  PROVE  /\ Len(h.heap) \in Nat /\ DOMAIN h.heap = 1 .. Len(h.heap)
         /\ h.heap \in [1 .. Len(h.heap) -> Var] /\ h.indices \in [Var -> Nat]
         /\ \A u \in Var : InHeap(h, u) => /\ h.indices[u] \in 1 .. Len(h.heap)
                                          /\ h.heap[h.indices[u]] = u
         /\ \A u \in Var : ~InHeap(h, u) => \A k \in 1 .. Len(h.heap) : h.heap[k] # u
         /\ \A k \in 1 .. Len(h.heap) : h.indices[h.heap[k]] = k
  <1>1. /\ Len(h.heap) \in Nat /\ DOMAIN h.heap = 1 .. Len(h.heap)
        /\ h.heap \in [1 .. Len(h.heap) -> Var] /\ h.indices \in [Var -> Nat]
    BY DEF Indexed
  <1> QED BY <1>1 DEF Indexed

\* decrease restores the order when only the score of v grew.
LEMMA DecreaseKeeps ==
  ASSUME NEW h, Indexed(h), NEW old \in [Var -> Nat], Ordered(h, old),
         NEW v \in Var, InHeap(h, v), NEW new \in [Var -> Nat],
         \A u, w \in Var \ {v} : new[u] <= new[w] <=> old[u] <= old[w],
         \A u \in Var \ {v} : old[u] <= old[v] => new[u] <= new[v],
         NEW g, g = Decrease(h, v, new)
  PROVE  /\ Indexed(g) /\ Ordered(g, new)
         /\ \A u \in Var : InHeap(g, u) <=> InHeap(h, u)
  <1> DEFINE n == Len(h.heap)
             i == h.indices[v]
  <1>1. /\ n \in Nat /\ DOMAIN h.heap = 1 .. n /\ h.heap \in [1 .. n -> Var]
        /\ i \in 1 .. n /\ h.heap[i] = v
        /\ \A k \in 1 .. n : h.heap[k] = v => k = i
    BY IndexedFacts
  <1>2. g = PercolateUp(h, i, new)
    BY DEF Decrease
  <1> HIDE DEF i, n
  <1>3. \A k \in 1 .. n : k > 1 => /\ k \div 2 \in 1 .. n /\ k \div 2 # k
                                   /\ old[h.heap[k \div 2]] >= old[h.heap[k]]
    <2> SUFFICES ASSUME NEW k \in 1 .. n, k > 1
                 PROVE  /\ k \div 2 \in 1 .. n /\ k \div 2 # k
                        /\ old[h.heap[k \div 2]] >= old[h.heap[k]]
      OBVIOUS
    <2>1. k \in Nat /\ n \in Nat /\ k <= n
      BY <1>1
    <2>2. k \div 2 \in 1 .. n /\ k \div 2 # k
      BY <2>1
    <2> QED BY <1>1, <2>2 DEF Ordered
  <1>4. \A k \in 1 .. n : /\ h.heap[k] \in Var /\ old[h.heap[k]] \in Nat
                          /\ new[h.heap[k]] \in Nat
    BY <1>1
  <1>5. ASSUME NEW k \in 1 .. n, k > 1, k # i
        PROVE  new[h.heap[k \div 2]] >= new[h.heap[k]]
    <2> DEFINE p == k \div 2
    <2>1. /\ p \in 1 .. n /\ h.heap[k] \in Var \ {v} /\ h.heap[p] \in Var
          /\ old[h.heap[p]] >= old[h.heap[k]]
      BY <1>1, <1>3, <1>4, <1>5
    <2>2. /\ old[h.heap[p]] \in Nat /\ old[h.heap[k]] \in Nat
          /\ new[h.heap[p]] \in Nat /\ new[h.heap[k]] \in Nat
      BY <1>4, <2>1
    <2> HIDE DEF p
    <2>3. old[h.heap[k]] <= old[h.heap[p]]
      BY <2>1, <2>2
    <2>4. new[h.heap[k]] <= new[h.heap[p]]
      BY <2>1, <2>3
    <2> QED BY <2>2, <2>4 DEF p
  <1>6. ASSUME NEW k \in 1 .. n, k \div 2 = i, i > 1
        PROVE  new[h.heap[i \div 2]] >= new[h.heap[k]]
    <2> DEFINE p == i \div 2
    <2>1. /\ k > 1 /\ k # i /\ p \in 1 .. n /\ p # i
          /\ h.heap[k] \in Var \ {v} /\ h.heap[p] \in Var \ {v}
      <3>1. k \in Nat /\ i \in Nat /\ k > 1 /\ k # i
        BY <1>1, <1>6
      <3>2. p \in 1 .. n /\ p # i
        BY <1>1, <1>3, <1>6
      <3> HIDE DEF p
      <3> QED BY <1>1, <1>4, <3>1, <3>2
    <2>2. old[h.heap[p]] >= old[v] /\ old[v] >= old[h.heap[k]]
      BY <1>1, <1>3, <1>6, <2>1
    <2>3. /\ old[h.heap[p]] \in Nat /\ old[h.heap[k]] \in Nat /\ old[v] \in Nat
          /\ new[h.heap[p]] \in Nat /\ new[h.heap[k]] \in Nat
      BY <1>4, <2>1
    <2> HIDE DEF p
    <2>4. old[h.heap[k]] <= old[h.heap[p]]
      BY <2>2, <2>3
    <2>5. new[h.heap[k]] <= new[h.heap[p]]
      BY <2>1, <2>4
    <2> QED BY <2>3, <2>5 DEF p
  <1> QED BY <1>1, <1>2, <1>5, <1>6, UpKeeps

\* insert keeps the order and adds v.
LEMMA InsertKeeps ==
  ASSUME NEW h, Indexed(h), NEW score \in [Var -> Nat], Ordered(h, score),
         NEW v \in Var, ~InHeap(h, v),
         NEW g, g = Insert(h, v, score)
  PROVE  /\ Indexed(g) /\ Ordered(g, score)
         /\ \A u \in Var : InHeap(g, u) <=> InHeap(h, u) \/ u = v
  <1> DEFINE n == Len(h.heap)
             m == n + 1
             f == [heap    |-> Append(h.heap, v),
                   indices |-> [h.indices EXCEPT ![v] = m]]
  <1>1. /\ n \in Nat /\ DOMAIN h.heap = 1 .. n /\ h.heap \in [1 .. n -> Var]
        /\ h.indices \in [Var -> Nat]
        /\ \A u \in Var : InHeap(h, u) => h.indices[u] \in 1 .. n /\ h.heap[h.indices[u]] = u
        /\ \A u \in Var : ~InHeap(h, u) => \A k \in 1 .. n : h.heap[k] # u
        /\ \A k \in 1 .. n : h.indices[h.heap[k]] = k
    BY IndexedFacts
  <1>2. g = PercolateUp(f, m, score)
    BY DEF Insert
  <1>3. /\ f.heap \in Seq(Var) /\ Len(f.heap) = m /\ DOMAIN f.heap = 1 .. m
        /\ f.heap[m] = v /\ \A k \in 1 .. n : f.heap[k] = h.heap[k]
    BY DEF Indexed
  <1>4. /\ f.indices \in [Var -> Nat] /\ f.indices[v] = m
        /\ \A u \in Var \ {v} : f.indices[u] = h.indices[u]
    BY <1>1
  <1> HIDE DEF f, n
  <1>5. \A k \in 1 .. m : k = m \/ k \in 1 .. n
    BY <1>1
  <1>6. m \in 1 .. m /\ m # Absent /\ 1 .. n \subseteq 1 .. m /\ m \notin 1 .. n
    BY <1>1 DEF Absent
  <1> HIDE DEF m
  <1>7. \A u \in Var : InHeap(f, u) <=> InHeap(h, u) \/ u = v
    BY <1>4, <1>6 DEF InHeap
  <1>8. Indexed(f)
    <2>1. ASSUME NEW u \in Var, InHeap(f, u)
          PROVE  f.indices[u] \in 1 .. m /\ f.heap[f.indices[u]] = u
      <3>1. CASE u = v
        BY <1>3, <1>4, <1>6, <3>1
      <3>2. CASE u # v
        <4>1. InHeap(h, u) /\ f.indices[u] = h.indices[u]
          BY <1>4, <1>7, <2>1, <3>2
        <4> QED BY <1>1, <1>3, <1>6, <4>1
      <3> QED BY <3>1, <3>2
    <2>2. ASSUME NEW u \in Var, ~InHeap(f, u), NEW k \in 1 .. m
          PROVE  f.heap[k] # u
      <3>1. ~InHeap(h, u) /\ u # v
        BY <1>7, <2>2
      <3> QED BY <1>1, <1>3, <1>5, <3>1
    <2>3. ASSUME NEW k \in 1 .. m PROVE f.indices[f.heap[k]] = k
      <3>1. CASE k = m
        BY <1>3, <1>4, <3>1
      <3>2. CASE k \in 1 .. n
        <4>1. f.heap[k] = h.heap[k] /\ h.heap[k] \in Var /\ h.heap[k] # v
          BY <1>1, <1>3, <3>2
        <4> QED BY <1>1, <1>4, <3>2, <4>1
      <3> QED BY <1>5, <3>1, <3>2
    <2> QED BY <1>3, <1>4, <2>1, <2>2, <2>3 DEF Indexed
  <1>9. ASSUME NEW k \in 1 .. m, k > 1, k # m
        PROVE  score[f.heap[k \div 2]] >= score[f.heap[k]]
    <2>1. k \in 1 .. n /\ k \div 2 \in 1 .. n
      BY <1>1, <1>5, <1>9
    <2> QED BY <1>1, <1>3, <1>9, <2>1 DEF Ordered
  <1>10. ASSUME NEW k \in 1 .. m, k \div 2 = m PROVE FALSE
    BY <1>1, <1>10 DEF m
  <1>11. /\ Indexed(g) /\ Ordered(g, score)
         /\ \A u \in Var : InHeap(g, u) <=> InHeap(f, u)
    BY <1>2, <1>3, <1>6, <1>8, <1>9, <1>10, UpKeeps
  <1> QED BY <1>7, <1>11

\* removeMin keeps the order and takes out the first element.
LEMMA RemoveMinKeeps ==
  ASSUME NEW h, Indexed(h), NEW score \in [Var -> Nat], Ordered(h, score),
         h.heap # <<>>, NEW g, g = RemoveMin(h, score)
  PROVE  /\ Indexed(g) /\ Ordered(g, score)
         /\ \A u \in Var : InHeap(g, u) <=> InHeap(h, u) /\ u # h.heap[1]
  <1> DEFINE n == Len(h.heap)
             m == n - 1
             last == h.heap[n]
             first == h.heap[1]
             f == [heap    |-> [k \in 1 .. n - 1 |-> IF k = 1 THEN last ELSE h.heap[k]],
                   indices |-> [[h.indices EXCEPT ![last] = 1] EXCEPT ![first] = Absent]]
  <1>1. /\ n \in Nat /\ n >= 1 /\ DOMAIN h.heap = 1 .. n /\ h.heap \in [1 .. n -> Var]
        /\ h.indices \in [Var -> Nat]
        /\ \A u \in Var : InHeap(h, u) => h.indices[u] \in 1 .. n /\ h.heap[h.indices[u]] = u
        /\ \A u \in Var : ~InHeap(h, u) => \A k \in 1 .. n : h.heap[k] # u
        /\ \A k \in 1 .. n : h.indices[h.heap[k]] = k
    <2>1. n # 0
      BY DEF Indexed
    <2> QED BY <2>1, IndexedFacts
  <1>2. g = IF n > 2 THEN PercolateDown(f, 1, score) ELSE f
    BY DEF RemoveMin
  <1> HIDE DEF n
  <1>3. m \in Nat /\ m < n /\ 1 .. m \subseteq 1 .. n /\ \A k \in 1 .. n : k = n \/ k \in 1 .. m
    BY <1>1
  <1>4. /\ first \in Var /\ last \in Var /\ 1 \in 1 .. n /\ n \in 1 .. n
        /\ (n > 1 => first # last)
        /\ h.indices[first] = 1 /\ h.indices[last] = n
    BY <1>1
  <1>5. /\ f.heap = [k \in 1 .. m |-> IF k = 1 THEN last ELSE h.heap[k]]
        /\ f.indices = [[h.indices EXCEPT ![last] = 1] EXCEPT ![first] = Absent]
    OBVIOUS
  <1> HIDE DEF f
  <1>6. /\ f.heap \in Seq(Var) /\ Len(f.heap) = m /\ DOMAIN f.heap = 1 .. m
        /\ \A k \in 1 .. m : f.heap[k] = IF k = 1 THEN last ELSE h.heap[k]
    <2>1. f.heap \in [1 .. m -> Var]
      <3>1. \A k \in 1 .. m : (IF k = 1 THEN last ELSE h.heap[k]) \in Var
        BY <1>1, <1>3, <1>4
      <3> QED BY <1>5, <3>1
    <2> QED BY <1>3, <1>5, <2>1
  <1>7. /\ f.indices \in [Var -> Nat] /\ f.indices[first] = Absent
        /\ first # last => f.indices[last] = 1
        /\ \A u \in Var \ {first, last} : f.indices[u] = h.indices[u]
    <2> HIDE DEF first, last
    <2> DEFINE e == [h.indices EXCEPT ![last] = 1]
    <2>1. /\ e \in [Var -> Nat] /\ e[last] = 1
          /\ \A u \in Var \ {last} : e[u] = h.indices[u]
      BY <1>1, <1>4
    <2>2. f.indices = [e EXCEPT ![first] = Absent]
      BY <1>5
    <2> HIDE DEF e
    <2>3. Absent \in Nat
      BY DEF Absent
    <2> QED BY <1>4, <2>1, <2>2, <2>3
  <1> HIDE DEF first, last, m
  <1>8. \A u \in Var : InHeap(f, u) <=> InHeap(h, u) /\ u # first
    <2> SUFFICES ASSUME NEW u \in Var PROVE InHeap(f, u) <=> InHeap(h, u) /\ u # first
      OBVIOUS
    <2>1. CASE u = first
      BY <1>7, <2>1 DEF InHeap
    <2>2. CASE u # first /\ u = last
      BY <1>1, <1>4, <1>7, <2>2 DEF InHeap, Absent
    <2>3. CASE u \notin {first, last}
      BY <1>7, <2>3 DEF InHeap
    <2> QED BY <2>1, <2>2, <2>3
  <1>9. Indexed(f)
    <2>1. ASSUME NEW u \in Var, InHeap(f, u)
          PROVE  f.indices[u] \in 1 .. m /\ f.heap[f.indices[u]] = u
      <3>1. InHeap(h, u) /\ u # first
        BY <1>8, <2>1
      <3>2. n > 1 /\ 1 \in 1 .. m
        <4>1. h.indices[u] \in 1 .. n /\ h.indices[u] # 1
          BY <1>1, <3>1 DEF first
        <4> QED BY <1>1, <4>1 DEF m
      <3>3. CASE u = last
        BY <1>4, <1>6, <1>7, <3>2, <3>3
      <3>4. CASE u # last
        <4>1. f.indices[u] = h.indices[u] /\ h.indices[u] \in 1 .. n /\ h.heap[h.indices[u]] = u
          BY <1>1, <1>7, <3>1, <3>4
        <4>2. h.indices[u] # 1 /\ h.indices[u] # n
          BY <3>1, <3>4, <4>1 DEF first, last
        <4> QED BY <1>3, <1>6, <4>1, <4>2
      <3> QED BY <3>3, <3>4
    <2>2. ASSUME NEW u \in Var, ~InHeap(f, u), NEW k \in 1 .. m
          PROVE  f.heap[k] # u
      <3>1. k \in 1 .. n /\ n > 1 /\ k # n
        BY <1>1, <1>3, <2>2 DEF m
      <3>2. CASE k = 1
        BY <1>1, <1>4, <1>6, <1>8, <2>2, <3>1, <3>2 DEF InHeap, Absent
      <3>3. CASE k # 1
        <4>1. f.heap[k] = h.heap[k] /\ h.heap[k] \in Var /\ h.indices[h.heap[k]] = k
          BY <1>1, <1>6, <3>1, <3>3
        <4>2. InHeap(h, h.heap[k]) /\ h.heap[k] # first
          BY <1>4, <3>1, <3>3, <4>1 DEF InHeap, Absent
        <4> QED BY <1>8, <2>2, <4>1, <4>2
      <3> QED BY <3>2, <3>3
    <2>3. ASSUME NEW k \in 1 .. m PROVE f.indices[f.heap[k]] = k
      <3>1. k \in 1 .. n /\ n > 1 /\ k # n
        BY <1>1, <1>3, <2>3 DEF m
      <3>2. CASE k = 1
        BY <1>4, <1>6, <1>7, <3>1, <3>2
      <3>3. CASE k # 1
        <4>1. f.heap[k] = h.heap[k] /\ h.heap[k] \in Var /\ h.indices[h.heap[k]] = k
          BY <1>1, <1>6, <3>1, <3>3
        <4>2. h.heap[k] \notin {first, last}
          BY <1>4, <3>1, <3>3, <4>1
        <4> QED BY <1>7, <4>1, <4>2
      <3> QED BY <3>2, <3>3
    <2> QED BY <1>6, <1>7, <2>1, <2>2, <2>3 DEF Indexed
  <1>10. ASSUME NEW k \in 1 .. m, k > 1, k \div 2 # 1
         PROVE  score[f.heap[k \div 2]] >= score[f.heap[k]]
    <2>1. k \in 1 .. n /\ k \div 2 \in 1 .. m /\ k # 1
      BY <1>3, <1>10
    <2> QED BY <1>1, <1>6, <1>10, <2>1 DEF Ordered
  <1>11. CASE n > 2
    <2>1. 1 \in 1 .. m
      BY <1>1, <1>11 DEF m
    <2>2. /\ Indexed(g) /\ Ordered(g, score)
          /\ \A u \in Var : InHeap(g, u) <=> InHeap(f, u)
      <3>1. PICK i \in DOMAIN f.heap : i = 1
        BY <1>6, <2>1
      <3>2. g = PercolateDown(f, i, score)
        BY <1>2, <1>11, <3>1
      <3>3. ~(i > 1)
        BY <3>1
      <3> QED BY <1>6, <1>9, <1>10, <3>2, <3>3, DownKeeps
    <2> QED BY <1>8, <2>2 DEF first
  <1>12. CASE ~(n > 2)
    <2>1. g = f
      BY <1>2, <1>12
    <2>2. \A k \in 1 .. m : ~(k > 1)
      BY <1>1, <1>12 DEF m
    <2>3. Ordered(f, score)
      BY <1>6, <2>2 DEF Ordered
    <2> QED BY <1>8, <1>9, <2>1, <2>3 DEF first
  <1> QED BY <1>11, <1>12

-----------------------------------------------------------------------------
(***************************************************************************)
(* The inductive invariant, one part per concern.                          *)
(***************************************************************************)
Clause == Seq(Lit) \ {<<>>}

Locals == [c : 0 .. Len(clauses), j : Nat, learnt : Seq(Lit), pathC : Nat,
           index : Nat, backtrackLevel : Nat, maxbl : Nat]

Pcs == {"build", "exit", "restart", "search", "propagate", "watch", "analyze",
        "cancel", "learn", "decide", "done"}

Types ==
  /\ formula \in Formulas
  /\ clauses \in Seq(Clause)
  /\ watches \in [Lit -> Seq(1 .. Len(clauses))]
  /\ values \in [Var -> {False, True, Undef}]
  /\ level \in [Var -> 0 .. NbVars]
  /\ reason \in [Var -> 0 .. Len(clauses)]
  /\ polarity \in [Var -> {0, 1}]
  /\ seen \in [Var -> {0, 1}]
  /\ scores \in Rankings
  /\ trail \in Seq(Lit)
  /\ trailLevels \in Seq(Nat)
  /\ toPropagate \in Nat
  /\ pc \in Pcs
  /\ wlPos \in Nat \ {0}
  /\ loc \in Locals
  /\ answer \in {Unknown, Unsat} \cup [Var -> BOOLEAN]

(***************************************************************************)
(* On a trail t with levels lv: the variable at place k and its level; l   *)
(* is true, or true at a level up to d, or false before place p.           *)
(***************************************************************************)
VarAt(t, k) == LitToVar(t[k])
Lev(t, lv, k) == lv[LitToVar(t[k])]
OnTrail(t, l) == \E k \in DOMAIN t : t[k] = l
TrueBy(t, lv, l, d) == \E k \in DOMAIN t : t[k] = l /\ Lev(t, lv, k) <= d
FalseBefore(t, l, p) == \E k \in DOMAIN t : k < p /\ t[k] = NotLit(l)

Assigned ==
  /\ \A j, k \in DOMAIN trail : VarAt(trail, j) = VarAt(trail, k) => j = k
  /\ \A k \in DOMAIN trail : values[VarAt(trail, k)] = Making(trail[k])
  /\ \A v \in Var : values[v] # Undef => \E k \in DOMAIN trail : VarAt(trail, k) = v

\* Place k of the trail is of level d.
OfLevel(t, tl, k, d) ==
  /\ d \in 0 .. Len(tl)
  /\ d > 0 => tl[d] < k
  /\ d < Len(tl) => k <= tl[d + 1]

Levels ==
  /\ \A k \in DOMAIN trail : OfLevel(trail, trailLevels, k, Lev(trail, level, k))
  /\ \A d, e \in DOMAIN trailLevels : d < e => trailLevels[d] < trailLevels[e]
  /\ \A d \in DOMAIN trailLevels : d <= trailLevels[d] + 1
  /\ \A d \in DOMAIN trailLevels : pc # "cancel" => trailLevels[d] < Len(trail)
  /\ pc = "cancel" => /\ loc.backtrackLevel <= DecisionLevel
                      /\ Jumps => KeptTrail <= Len(trail)
                      /\ ~Jumps => DecisionLevel = 0

\* The literal of t at k is a decision, or follows from the clause c.
Decided(t, lv, tl, k) == Lev(t, lv, k) > 0 => k = tl[Lev(t, lv, k)] + 1
Implied(t, k, c) == /\ Len(c) > 1 /\ c[1] = t[k]
                    /\ \A i \in 2 .. Len(c) : FalseBefore(t, c[i], k)

Reasons ==
  \A k \in DOMAIN trail :
    LET r == reason[VarAt(trail, k)]
    IN  IF r = None THEN Decided(trail, level, trailLevels, k)
                    ELSE Implied(trail, k, clauses[r])

Queue ==
  /\ DecisionLevel > 0 => trailLevels[DecisionLevel] <= toPropagate
  /\ (pc = "cancel" /\ Jumps) \/ toPropagate <= Len(trail)
  /\ pc = "watch" => /\ toPropagate > 0
                     /\ DecisionLevel > 0 => trailLevels[DecisionLevel] < toPropagate
  /\ pc \in {"decide", "analyze", "learn"} => toPropagate = Len(trail)
  /\ pc = "build" => DecisionLevel = 0 /\ toPropagate = 0

HeapOK ==
  /\ Indexed(varHeap) /\ Ordered(varHeap, scores)
  /\ Started => \A v \in Var : values[v] = Undef => InHeap(varHeap, v)
  /\ pc = "build" => \A v \in Var : scores[v] = 0

SameLiterals(c, d) ==
  /\ \A i \in DOMAIN c : \E j \in DOMAIN d : d[j] = c[i]
  /\ \A j \in DOMAIN d : \E i \in DOMAIN c : c[i] = d[j]

Originals ==
  /\ Len(formula) <= Len(clauses)
  /\ \A k \in DOMAIN formula : SameLiterals(formula[k], clauses[k])

Occurrences(s, k) == {i \in DOMAIN s : s[i] = k}
Places(c, l) == {i \in {1, 2} \cap DOMAIN c : c[i] = NotLit(l)}

Lists ==
  /\ Started =>
       \A l \in Lit, k \in DOMAIN clauses :
         Cardinality(Occurrences(watches[l], k)) = Cardinality(Places(clauses[k], l))
  /\ pc = "build" =>
       \A l \in Lit, k \in DOMAIN clauses :
         Cardinality(Occurrences(watches[l], k))
         = IF k < wlPos THEN Cardinality(Places(clauses[k], l)) ELSE 0

\* Everything up to this place of the trail was propagated.
Propagated ==
  CASE pc = "watch"          -> toPropagate - 1
    [] pc = "analyze"        -> trailLevels[DecisionLevel]
    [] pc = "cancel" /\ Jumps -> KeptTrail
    [] OTHER                 -> toPropagate

\* If one of the watched literals of c is false by p, the other is true.
Watched(t, lv, c, p) ==
  \A i \in {1, 2}, k \in DOMAIN t :
    k <= p /\ t[k] = NotLit(c[i]) => TrueBy(t, lv, c[3 - i], Lev(t, lv, k))

Watches ==
  /\ pc \notin {"exit", "done"} =>
       \A k \in DOMAIN clauses :
         Len(clauses[k]) > 1 => Watched(trail, level, clauses[k], Propagated)
  /\ pc = "watch" =>
       \A i \in DOMAIN WatchList : i < wlPos =>
         LET c == clauses[WatchList[i]]
         IN  OnTrail(trail, c[1]) /\ (Len(c) > 1 => c[2] = NotLit(LitToPropagate))

Unary ==
  \A k \in DOMAIN clauses :
    Len(clauses[k]) = 1 /\ (Started \/ (pc = "build" /\ k < wlPos))
    => TrueBy(trail, level, clauses[k][1], 0)

\* The assignment m makes l true, a literal of c true; the models of f.
SatLit(m, l) == m[LitToVar(l)] = (SignLit(l) = 0)
Sat(m, c) == \E i \in DOMAIN c : SatLit(m, c[i])
Models(f) == {m \in [Var -> BOOLEAN] : \A k \in DOMAIN f : Sat(m, f[k])}

Follows ==
  \A m \in Models(formula) :
    /\ \A k \in DOMAIN clauses : Sat(m, clauses[k])
    /\ \A k \in DOMAIN trail : Lev(trail, level, k) = 0 => SatLit(m, trail[k])

\* Places of the seen literals of level d, which are to be resolved.
Counted(t, lv, s, d) == {p \in DOMAIN t : Lev(t, lv, p) = d /\ s[VarAt(t, p)] = 1}

\* A literal that is learnt: false, at a level in 1 .. d, or at d.
Lower(t, lv, l, d)   == \E p \in DOMAIN t : t[p] = NotLit(l) /\ Lev(t, lv, p) \in 1 .. d
Highest(t, lv, l, d) == \E p \in DOMAIN t : t[p] = NotLit(l) /\ Lev(t, lv, p) = d

\* The seen variable v is of the level d, or a learnt literal is its own.
Noted(t, lv, v, d, learnt) ==
  \E p \in DOMAIN t :
    /\ VarAt(t, p) = v /\ Lev(t, lv, p) > 0
    /\ Lev(t, lv, p) # d => \E i \in 2 .. Len(learnt) : learnt[i] = NotLit(t[p])

\* What the analysis has in hand follows from the formula f.
Resolved(f, t, learnt, counted, c, j) ==
  \A m \in Models(f) :
    \/ \E i \in 2 .. Len(learnt) : SatLit(m, learnt[i])
    \/ \E p \in counted : SatLit(m, NotLit(t[p]))
    \/ \E i \in DOMAIN c : i >= j /\ SatLit(m, c[i])

\* The invariant of the analysis, for the locals l and the marks s.
Analysing(l, s) ==
  LET counted == Counted(trail, level, s, DecisionLevel)
      c       == clauses[l.c]
  IN
  /\ DecisionLevel > 0
  /\ l.c # None /\ l.j > 0 /\ l.learnt # <<>> /\ l.index <= Len(trail)
  /\ l.backtrackLevel < DecisionLevel
  /\ \A v \in Var : s[v] = 1 => Noted(trail, level, v, DecisionLevel, l.learnt)
  /\ \A p \in counted : p <= l.index
  /\ l.pathC = Cardinality(counted)
  /\ \A i \in 2 .. Len(l.learnt) : Lower(trail, level, l.learnt[i], l.backtrackLevel)
  /\ IF Len(l.learnt) = 1 THEN l.backtrackLevel = 0
     ELSE /\ l.maxbl \in 2 .. Len(l.learnt)
          /\ Highest(trail, level, l.learnt[l.maxbl], l.backtrackLevel)
  /\ \A i \in DOMAIN c : i >= l.j => FalseBefore(trail, c[i], l.index + 1)
  /\ Resolved(formula, trail, l.learnt, counted, c, l.j)

Analysis ==
  /\ pc # "analyze" => \A v \in Var : seen[v] = 0
  /\ pc = "analyze" => Analysing(loc, seen)

\* A clause was learnt and waits for the end of the backjump.
Learning ==
  /\ pc \notin {"analyze", "cancel", "learn"} => loc = NoLocals
  /\ pc = "cancel" /\ loc.learnt = <<>> => loc = NoLocals
  /\ pc = "learn" => loc.learnt # <<>> /\ DecisionLevel = loc.backtrackLevel
  /\ pc \in {"cancel", "learn"} /\ loc.learnt # <<>> =>
       /\ pc = "cancel" => Jumps
       /\ \A p \in DOMAIN trail : VarAt(trail, p) = LitToVar(loc.learnt[1]) =>
            pc = "cancel" /\ p > KeptTrail
       /\ \A i \in 2 .. Len(loc.learnt) :
            \E p \in DOMAIN trail : /\ trail[p] = NotLit(loc.learnt[i])
                                    /\ Lev(trail, level, p) <= loc.backtrackLevel
       /\ IF Len(loc.learnt) = 1 THEN loc.backtrackLevel = 0
          ELSE Highest(trail, level, loc.learnt[2], loc.backtrackLevel)
       /\ \A m \in Models(formula) : Sat(m, loc.learnt)

Unanswered == answer = Unknown \/ pc = "done" \/ (pc = "cancel" /\ loc.learnt = <<>>)

IInv ==
  /\ Types /\ Assigned /\ Levels /\ Reasons /\ Queue /\ HeapOK /\ Originals
  /\ Lists /\ Watches /\ Unary /\ Follows /\ Analysis /\ Learning /\ Unanswered

-----------------------------------------------------------------------------
\* A set of numbers has a smallest one.
LEMMA Smallest ==
  ASSUME NEW S \in SUBSET Nat, S # {}
  PROVE  \E x \in S : \A y \in S : x <= y
  <1> DEFINE R == {s \in Nat \X Nat : s[1] < s[2]}
  <1>1. OpToRel(<, Nat) = R
    BY DEF OpToRel
  <1>2. IsWellFoundedOn(R, Nat)
    BY <1>1, NatLessThanWellFounded, Zenon
  <1> HIDE DEF R
  <1>3. PICK x \in S : \A y \in S : ~ (<<y, x>> \in R)
    BY <1>2, WFMin, Zenon
  <1>4. ASSUME NEW y \in S PROVE x <= y
    <2>1. <<y, x>> \in Nat \X Nat /\ <<y, x>> \notin R
      BY <1>3
    <2>2. ~ (y < x)
      BY <2>1 DEF R
    <2> QED BY <2>2
  <1> QED BY <1>4

\* A bounded one has a largest one.
LEMMA Greatest ==
  ASSUME NEW n \in Nat, NEW S \in SUBSET (0 .. n), S # {}
  PROVE  \E x \in S : \A y \in S : y <= x
  <1> DEFINE T == {m \in 0 .. n : n - m \in S}
  <1>1. \A y \in S : y \in Nat /\ n - y \in 0 .. n /\ n - (n - y) = y
    <2> TAKE y \in S
    <2>1. y \in 0 .. n
      OBVIOUS
    <2> QED BY <2>1
  <1>2. \A y \in S : n - y \in T
    BY <1>1
  <1>3. T \in SUBSET Nat
    OBVIOUS
  <1>4. T # {}
    BY <1>2
  <1>5. \A t \in T : t \in 0 .. n /\ n - t \in S
    OBVIOUS
  <1> HIDE DEF T
  <1>6. PICK t \in T : \A y \in T : t <= y
    BY <1>3, <1>4, Smallest
  <1>7. t \in 0 .. n /\ n - t \in S
    BY <1>5
  <1>8. ASSUME NEW y \in S PROVE y <= n - t
    <2>1. t <= n - y /\ y \in Nat
      BY <1>1, <1>2, <1>6
    <2> QED BY <1>7, <2>1
  <1> QED BY <1>7, <1>8

\* A literal, its variable, its sign and its negation.
LEMMA Literals ==
  ASSUME NEW l \in Lit
  PROVE  /\ LitToVar(l) \in Var /\ SignLit(l) \in {0, 1} /\ NotLit(l) \in Lit
         /\ LitToVar(NotLit(l)) = LitToVar(l) /\ NotLit(l) # l /\ NotLit(NotLit(l)) = l
         /\ SignLit(NotLit(l)) = 1 - SignLit(l)
  BY CdclAssumption DEF Lit, Var, LitToVar, SignLit, NotLit

\* Two literals of one variable.
LEMMA SameVariable ==
  ASSUME NEW l \in Lit, NEW m \in Lit, LitToVar(l) = LitToVar(m)
  PROVE  l = m \/ l = NotLit(m)
  BY CdclAssumption DEF Lit, Var, LitToVar, SignLit, NotLit

\* What varToLit gives.
LEMMA DecisionLiteral ==
  ASSUME NEW v \in Var, NEW s \in {0, 1}
  PROVE  VarToLit(v, s) \in Lit /\ LitToVar(VarToLit(v, s)) = v
  BY CdclAssumption DEF Lit, Var, LitToVar, VarToLit

\* What the types say of the sequences of the state.
LEMMA Sequences ==
  ASSUME Types
  PROVE  /\ Len(trail) \in Nat /\ DOMAIN trail = 1 .. Len(trail)
         /\ \A k \in DOMAIN trail : trail[k] \in Lit /\ VarAt(trail, k) \in Var
         /\ Len(trailLevels) \in Nat /\ DOMAIN trailLevels = 1 .. Len(trailLevels)
         /\ \A d \in DOMAIN trailLevels : trailLevels[d] \in Nat
         /\ Len(clauses) \in Nat /\ DOMAIN clauses = 1 .. Len(clauses)
         /\ \A k \in DOMAIN clauses : clauses[k] \in Clause
  <1>1. /\ trail \in Seq(Lit) /\ trailLevels \in Seq(Nat) /\ clauses \in Seq(Clause)
    BY DEF Types
  <1>2. \A k \in DOMAIN trail : trail[k] \in Lit
    BY <1>1
  <1>3. \A k \in DOMAIN trail : VarAt(trail, k) \in Var
    BY <1>2, Literals DEF VarAt
  <1> QED BY <1>1, <1>2, <1>3

\* A clause is a sequence of literals that is not empty.
LEMMA Clauses ==
  ASSUME NEW c \in Clause
  PROVE  /\ Len(c) \in Nat /\ Len(c) > 0 /\ DOMAIN c = 1 .. Len(c) /\ 1 \in DOMAIN c
         /\ c \in Seq(Lit) /\ c \in [1 .. Len(c) -> Lit] /\ \A i \in DOMAIN c : c[i] \in Lit
  BY DEF Clause

\* A literal has the value that its place on the trail gives it.
LEMMA ValueOfLiteral ==
  ASSUME Types, Assigned, NEW l \in Lit
  PROVE  /\ ValueLit(l) = True <=> OnTrail(trail, l)
         /\ ValueLit(l) = False <=> OnTrail(trail, NotLit(l))
         /\ ValueLit(l) = Undef <=> values[LitToVar(l)] = Undef
         /\ ValueLit(l) = Undef <=> \A k \in DOMAIN trail : VarAt(trail, k) # LitToVar(l)
         /\ ~(OnTrail(trail, l) /\ OnTrail(trail, NotLit(l)))
         /\ ValueLit(l) \in {False, True, Undef}
  <1> DEFINE v == LitToVar(l)
  <1>1. /\ v \in Var /\ SignLit(l) \in {0, 1} /\ NotLit(l) \in Lit /\ LitToVar(NotLit(l)) = v
        /\ NotLit(l) # l /\ SignLit(NotLit(l)) = 1 - SignLit(l)
    BY Literals
  <1>2. values[v] \in {False, True, Undef}
    BY <1>1 DEF Types
  <1>3. \A k \in DOMAIN trail : trail[k] \in Lit
    BY Sequences
  <1>4. \A k \in DOMAIN trail : LitToVar(trail[k]) = v => trail[k] = l \/ trail[k] = NotLit(l)
    BY <1>1, <1>3, SameVariable, Literals
  <1>5. \A k \in DOMAIN trail : values[LitToVar(trail[k])] = Making(trail[k])
    BY DEF Assigned, VarAt
  <1>6. values[v] # Undef => \E k \in DOMAIN trail : LitToVar(trail[k]) = v
    BY <1>1 DEF Assigned, VarAt
  <1>7. Making(l) \in {False, True} /\ Making(NotLit(l)) \in {False, True} /\ Making(l) # Making(NotLit(l))
    BY <1>1 DEF Making, False, True
  <1>8. /\ ValueLit(l) = True <=> values[v] = Making(l)
        /\ ValueLit(l) = False <=> values[v] = Making(NotLit(l))
        /\ ValueLit(l) = Undef <=> values[v] = Undef
        /\ ValueLit(l) \in {False, True, Undef}
    BY <1>1, <1>2 DEF ValueLit, Making, False, True, Undef
  <1>9. {False, True} \cap {Undef} = {}
    BY DEF False, True, Undef
  <1>10. OnTrail(trail, l) => values[v] = Making(l)
    BY <1>5 DEF OnTrail
  <1>11. OnTrail(trail, NotLit(l)) => values[v] = Making(NotLit(l))
    BY <1>1, <1>5 DEF OnTrail
  <1>12. values[v] # Undef => OnTrail(trail, l) \/ OnTrail(trail, NotLit(l))
    BY <1>4, <1>6 DEF OnTrail
  <1>13. (\E k \in DOMAIN trail : LitToVar(trail[k]) = v) <=> OnTrail(trail, l) \/ OnTrail(trail, NotLit(l))
    BY <1>1, <1>4 DEF OnTrail
  <1> QED BY <1>1, <1>7, <1>8, <1>9, <1>10, <1>11, <1>12, <1>13 DEF VarAt

\* There is room for another literal as long as a variable has no value.
LEMMA TrailIsShort ==
  ASSUME Types, Assigned, NEW v \in Var, values[v] = Undef
  PROVE  Len(trail) < NbVars
  <1> DEFINE n == Len(trail)
             f == [k \in 1 .. n |-> VarAt(trail, k)]
             S == 1 .. n
             T == Var \ {v}
  <1>1. n \in Nat /\ DOMAIN trail = S /\ \A k \in S : trail[k] \in Lit /\ VarAt(trail, k) \in Var
    BY Sequences
  <1>2. \A k \in S : values[VarAt(trail, k)] # Undef
    BY <1>1 DEF Assigned, Making, False, True, Undef
  <1>3. f \in [S -> T]
    BY <1>1, <1>2
  <1>4. NbVars \in Nat /\ NbVars > 0
    BY CdclAssumption
  <1>5. IsFiniteSet(Var) /\ Cardinality(Var) = NbVars
    <2>1. 0 \in Int /\ NbVars - 1 \in Int
      BY <1>4
    <2> QED BY <1>4, <2>1, FS_Interval DEF Var
  <1>6. IsFiniteSet(T) /\ Cardinality(T) = NbVars - 1
    BY <1>4, <1>5, FS_RemoveElement
  <1>7. IsFiniteSet(S) /\ Cardinality(S) = n
    <2>1. 1 \in Int /\ n \in Int
      BY <1>1
    <2> QED BY <1>1, <2>1, FS_Interval
  <1>8. \A j, k \in S : f[j] = f[k] => j = k
    BY <1>1 DEF Assigned
  <1> HIDE DEF f, S, T, n
  <1>9. ~(Cardinality(T) < Cardinality(S))
    BY <1>3, <1>6, <1>7, <1>8, FS_PigeonHole
  <1> QED BY <1>1, <1>4, <1>6, <1>7, <1>9 DEF n

-----------------------------------------------------------------------------
(***************************************************************************)
(* What can happen to the trail.                                           *)
(***************************************************************************)
Still == UNCHANGED <<values, level, reason, trail>>

Pushed(l, r) ==
  /\ l \in Lit /\ values[LitToVar(l)] = Undef
  /\ values' = [values EXCEPT ![LitToVar(l)] = Making(l)]
  /\ reason' = [reason EXCEPT ![LitToVar(l)] = r]
  /\ level' = [level EXCEPT ![LitToVar(l)] = Len(trailLevels')]
  /\ trail' = Append(trail, l)

Popped ==
  /\ trail # <<>>
  /\ values' = [values EXCEPT ![LitToVar(trail[Len(trail)])] = Undef]
  /\ trail' = Front(trail)
  /\ UNCHANGED <<level, reason>>

\* The clause that is inspected, and its literals.
LEMMA InspectedClause ==
  ASSUME Types, Assigned, Queue, Unary, Inspecting
  PROVE  /\ toPropagate \in DOMAIN trail /\ LitToPropagate \in Lit
         /\ WatchList \in Seq(1 .. Len(clauses)) /\ wlPos \in DOMAIN WatchList
         /\ WatchList[wlPos] \in DOMAIN clauses
         /\ Inspected \in Clause /\ Len(Inspected) = Len(clauses[WatchList[wlPos]])
         /\ \/ /\ Inspected = clauses[WatchList[wlPos]]
               /\ Inspected[1] # NotLit(LitToPropagate)
            \/ LET c == clauses[WatchList[wlPos]]
               IN  /\ c[1] = NotLit(LitToPropagate) /\ Len(c) > 1
                   /\ Inspected = [[c EXCEPT ![1] = c[2]] EXCEPT ![2] = c[1]]
  <1> DEFINE c == clauses[WatchList[wlPos]]
  <1>1. toPropagate \in DOMAIN trail /\ LitToPropagate \in Lit
    BY Sequences DEF Inspecting, Queue, Types, LitToPropagate
  <1>2. WatchList \in Seq(1 .. Len(clauses)) /\ wlPos \in DOMAIN WatchList
    <2>1. WatchList \in Seq(1 .. Len(clauses))
      BY <1>1 DEF WatchList, Types
    <2> QED BY <2>1 DEF Inspecting, Types
  <1>3. WatchList[wlPos] \in DOMAIN clauses
    <2>1. DOMAIN clauses = 1 .. Len(clauses)
      BY Sequences
    <2> QED BY <1>2, <2>1
  <1>4. c \in Clause
    BY <1>3, Sequences
  <1> HIDE DEF c
  <1>5. Inspected = IF c[1] = NotLit(LitToPropagate)
                    THEN [[c EXCEPT ![1] = c[2]] EXCEPT ![2] = NotLit(LitToPropagate)] ELSE c
    BY DEF Inspected, c
  <1>6. c[1] = NotLit(LitToPropagate) => Len(c) > 1
    <2> SUFFICES ASSUME c[1] = NotLit(LitToPropagate), ~(Len(c) > 1) PROVE FALSE
      OBVIOUS
    <2>1. Len(c) = 1 /\ Started
      BY <1>4, Clauses DEF Inspecting, Started
    <2>2. TrueBy(trail, level, c[1], 0)
      BY <1>3, <2>1 DEF Unary, c
    <2>3. OnTrail(trail, NotLit(LitToPropagate)) /\ OnTrail(trail, LitToPropagate)
      BY <1>1, <2>2 DEF TrueBy, OnTrail, LitToPropagate
    <2> QED BY <1>1, <2>3, ValueOfLiteral
  <1>7. CASE c[1] # NotLit(LitToPropagate)
    BY <1>1, <1>2, <1>3, <1>4, <1>5, <1>7 DEF c
  <1>8. CASE c[1] = NotLit(LitToPropagate)
    <2>1. /\ Len(c) > 1 /\ Inspected = [[c EXCEPT ![1] = c[2]] EXCEPT ![2] = c[1]]
      BY <1>5, <1>6, <1>8
    <2>2. c \in [1 .. Len(c) -> Lit] /\ Len(c) \in Nat
      BY <1>4, Clauses
    <2>3. Inspected \in [1 .. Len(c) -> Lit]
      BY <2>1, <2>2
    <2>4. Inspected \in Seq(Lit) /\ Len(Inspected) = Len(c)
      BY <2>2, <2>3
    <2>5. Inspected \in Clause
      BY <2>1, <2>2, <2>4, EmptySeq DEF Clause
    <2> QED BY <1>1, <1>2, <1>3, <1>8, <2>1, <2>4, <2>5 DEF c
  <1> QED BY <1>7, <1>8


\* It is watched by the negation of the literal that is propagated.
LEMMA InspectedIsWatched ==
  ASSUME Types, Assigned, Queue, Unary, Lists, Inspecting
  PROVE  Len(Inspected) > 1 /\ Inspected[2] = NotLit(LitToPropagate)
  <1> DEFINE k == WatchList[wlPos]
             c == clauses[k]
             L == LitToPropagate
  <1>1. /\ L \in Lit /\ WatchList \in Seq(1 .. Len(clauses)) /\ wlPos \in DOMAIN WatchList
        /\ k \in DOMAIN clauses /\ Len(Inspected) = Len(c)
        /\ \/ Inspected = c /\ Inspected[1] # NotLit(L)
           \/ c[1] = NotLit(L) /\ Len(c) > 1 /\ Inspected = [[c EXCEPT ![1] = c[2]] EXCEPT ![2] = c[1]]
    BY InspectedClause
  <1>2. c \in Seq(Lit) /\ DOMAIN c = 1 .. Len(c) /\ Len(c) \in Nat
    BY <1>1, Sequences, Clauses
  <1>3. Cardinality(Occurrences(WatchList, k)) = Cardinality(Places(c, L))
    BY <1>1 DEF Lists, Inspecting, Started, WatchList
  <1>4. Places(c, L) # {}
    <2>1. wlPos \in Occurrences(WatchList, k)
      BY <1>1 DEF Occurrences
    <2>2. IsFiniteSet(Occurrences(WatchList, k))
      <3>1. Len(WatchList) \in Nat /\ DOMAIN WatchList = 1 .. Len(WatchList)
        BY <1>1
      <3>2. IsFiniteSet(1 .. Len(WatchList))
        BY <3>1, FS_Interval, 1 \in Int, Len(WatchList) \in Int
      <3> QED BY <3>1, <3>2, FS_Subset DEF Occurrences
    <2>3. Cardinality(Occurrences(WatchList, k)) # 0
      BY <2>1, <2>2, FS_EmptySet
    <2> QED BY <1>3, <2>3, FS_EmptySet
  <1>5. PICK i \in {1, 2} \cap DOMAIN c : c[i] = NotLit(L)
    BY <1>4 DEF Places
  <1> HIDE DEF c, k, L
  <1>6. CASE Inspected = c /\ Inspected[1] # NotLit(L)
    <2>1. i = 2
      BY <1>5, <1>6
    <2> QED BY <1>2, <1>5, <1>6, <2>1 DEF L
  <1>7. CASE /\ c[1] = NotLit(L) /\ Len(c) > 1
             /\ Inspected = [[c EXCEPT ![1] = c[2]] EXCEPT ![2] = c[1]]
    BY <1>1, <1>2, <1>7 DEF L
  <1> QED BY <1>1, <1>6, <1>7 DEF c, L, k

\* Its literals are those of the clause, the watched ones too.
LEMMA InspectedLiterals ==
  ASSUME Types, Assigned, Queue, Unary, Lists, Inspecting,
         NEW c, c = clauses[WatchList[wlPos]]
  PROVE  /\ c \in Clause /\ Len(c) > 1 /\ Len(Inspected) = Len(c)
         /\ DOMAIN c = 1 .. Len(c) /\ Len(c) \in Nat
         /\ Inspected \in Clause /\ DOMAIN Inspected = DOMAIN c
         /\ \/ Inspected[1] = c[1] /\ Inspected[2] = c[2]
            \/ Inspected[1] = c[2] /\ Inspected[2] = c[1] /\ c[1] = NotLit(LitToPropagate)
         /\ \A i \in 3 .. Len(c) : Inspected[i] = c[i]
         /\ SameLiterals(c, Inspected)
         /\ c[1] # NotLit(LitToPropagate) => Inspected = c
  <1>1. /\ Len(Inspected) > 1 /\ Len(Inspected) = Len(c) /\ Inspected \in Clause
        /\ \/ Inspected = c /\ Inspected[1] # NotLit(LitToPropagate)
           \/ /\ c[1] = NotLit(LitToPropagate) /\ Len(c) > 1
              /\ Inspected = [[c EXCEPT ![1] = c[2]] EXCEPT ![2] = c[1]]
        /\ WatchList[wlPos] \in DOMAIN clauses
    BY InspectedClause, InspectedIsWatched
  <1>2. /\ c \in Clause /\ Len(c) > 1
        /\ DOMAIN c = 1 .. Len(c) /\ Len(c) \in Nat /\ DOMAIN Inspected = DOMAIN c
        /\ c \in [1 .. Len(c) -> Lit]
    BY <1>1, Sequences, Clauses
  <1>3. CASE Inspected = c
    BY <1>1, <1>2, <1>3 DEF SameLiterals
  <1>4. CASE /\ c[1] = NotLit(LitToPropagate)
             /\ Inspected = [[c EXCEPT ![1] = c[2]] EXCEPT ![2] = c[1]]
    <2>1. 1 \in DOMAIN c /\ 2 \in DOMAIN c
      BY <1>2
    <2>2. /\ Inspected[1] = c[2] /\ Inspected[2] = c[1]
          /\ \A i \in DOMAIN c \ {1, 2} : Inspected[i] = c[i]
      BY <1>2, <1>4, <2>1
    <2>3. SameLiterals(c, Inspected)
      BY <1>2, <2>1, <2>2 DEF SameLiterals
    <2> QED BY <1>1, <1>2, <1>4, <2>2, <2>3
  <1> QED BY <1>1, <1>3, <1>4

-----------------------------------------------------------------------------
\* The actions that move the trail.
LEMMA BuildPushes ==
  ASSUME IInv, BuildClause, Len(clauses[wlPos]) = 1
  PROVE  Pushed(clauses[wlPos][1], None)
  <1> USE DEF IInv
  <1>1. /\ wlPos \in DOMAIN clauses
    BY Sequences DEF BuildClause, Types
  <1>2. clauses[wlPos][1] \in Lit
    BY <1>1, Sequences, Clauses
  <1>3. values[LitToVar(clauses[wlPos][1])] = Undef
    BY <1>2, ValueOfLiteral DEF BuildClause
  <1> QED BY <1>2, <1>3 DEF BuildClause, Pushed, Enqueue, DecisionLevel

\* _cancelUntil takes the last literal off.
LEMMA UndoPops ==
  ASSUME IInv, UndoLiteral
  PROVE  Popped
  <1>1. KeptTrail \in Nat /\ Len(trail) \in Nat
    <2>1. loc.backtrackLevel \in Nat
      BY DEF IInv, Types, Locals
    <2> QED BY <2>1, Sequences DEF IInv, UndoLiteral, Jumps, KeptTrail, DecisionLevel
  <1>2. Len(trail) > 0
    BY <1>1 DEF UndoLiteral
  <1>3. trail # <<>>
    BY <1>2
  <1> QED BY <1>3 DEF UndoLiteral, Popped, Last

\* A unit clause enqueues its first literal.
LEMMA UnitPushes ==
  ASSUME IInv, ClauseUnit
  PROVE  Pushed(Inspected[1], WatchList[wlPos])
  <1> USE DEF IInv
  <1>1. Inspected[1] \in Lit
    BY InspectedClause, Clauses DEF ClauseUnit
  <1>2. values[LitToVar(Inspected[1])] = Undef
    BY <1>1, ValueOfLiteral DEF ClauseUnit
  <1> QED BY <1>1, <1>2 DEF ClauseUnit, Pushed, Enqueue, DecisionLevel

\* So does the clause that was learnt.
LEMMA LearnPushes ==
  ASSUME IInv, Learn
  PROVE  Pushed(loc.learnt[1], IF Len(loc.learnt) = 1 THEN None ELSE Len(clauses) + 1)
  <1> USE DEF IInv
  <1> DEFINE c == loc.learnt
  <1>1. c \in Clause
    BY DEF Learning, Learn, Types, Locals, Clause
  <1>2. c[1] \in Lit
    BY <1>1, Clauses
  <1>3. \A p \in DOMAIN trail : VarAt(trail, p) # LitToVar(c[1])
    BY DEF Learning, Learn
  <1>4. values[LitToVar(c[1])] = Undef
    BY <1>2, <1>3, ValueOfLiteral
  <1> QED BY <1>2, <1>4 DEF Learn, Pushed, Enqueue, DecisionLevel

\* The decision is a literal of a variable without a value.
LEMMA DecidePushes ==
  ASSUME IInv, Decide
  PROVE  Pushed(VarToLit(varHeap.heap[1], polarity[varHeap.heap[1]]), None)
  <1> USE DEF IInv
  <1> DEFINE v == varHeap.heap[1]
             l == VarToLit(v, polarity[v])
  <1>1. v \in Var
    BY DEF HeapOK, Indexed, Decide
  <1>2. polarity[v] \in {0, 1}
    BY <1>1 DEF Types
  <1>3. l \in Lit /\ LitToVar(l) = v
    BY <1>1, <1>2, DecisionLiteral
  <1>4. /\ values[v] = Undef /\ trailLevels' = Append(trailLevels, Len(trail))
        /\ values' = [values EXCEPT ![v] = Making(l)] /\ reason' = [reason EXCEPT ![v] = None]
        /\ level' = [level EXCEPT ![v] = DecisionLevel + 1] /\ trail' = Append(trail, l)
    BY DEF Decide
  <1>5. Len(trailLevels') = DecisionLevel + 1
    BY <1>4 DEF Types, DecisionLevel
  <1> HIDE DEF l
  <1>6. Pushed(l, None)
    BY <1>3, <1>4, <1>5 DEF Pushed
  <1> QED BY <1>6 DEF l

\* Every action, seen from the trail.
LEMMA Moves ==
  ASSUME IInv, Next
  PROVE  \/ Still
         \/ UndoLiteral /\ Popped
         \/ \E l, r : Pushed(l, r) /\
              \/ BuildClause /\ l = clauses[wlPos][1] /\ r = None /\ Len(clauses[wlPos]) = 1
              \/ ClauseUnit /\ l = Inspected[1] /\ r = WatchList[wlPos]
              \/ Learn /\ l = loc.learnt[1] /\ r = IF Len(loc.learnt) = 1 THEN None ELSE Len(clauses) + 1
              \/ Decide /\ l = VarToLit(varHeap.heap[1], polarity[varHeap.heap[1]]) /\ r = None
  <1>1. CASE BuildClause
    <2>1. CASE Len(clauses[wlPos]) = 1
      BY <1>1, <2>1, BuildPushes
    <2>2. CASE Len(clauses[wlPos]) # 1
      BY <1>1, <2>2 DEF BuildClause, Still
    <2> QED BY <2>1, <2>2
  <1>2. CASE UndoLiteral
    BY <1>2, UndoPops
  <1>3. CASE ClauseUnit
    BY <1>3, UnitPushes
  <1>4. CASE Learn
    BY <1>4, LearnPushes
  <1>5. CASE Decide
    BY <1>5, DecidePushes
  <1>6. CASE ~(BuildClause \/ UndoLiteral \/ ClauseUnit \/ Learn \/ Decide)
    BY <1>6 DEF Next, Exit, EndOfBuild, EndOfCancel, StartSearch, ContinueSearch,
                BudgetSpent, TakeLiteral, NothingToPropagate, ClauseSatisfied, MoveWatch,
                ClauseEmpty, EndOfWatches, SkipLiteral, SeeLiteral, ResolveReason, FindUip,
                DropAssigned, AllAssigned, assignVars, Still
  <1> QED BY <1>1, <1>2, <1>3, <1>4, <1>5, <1>6

\* The trail and what is known of its literals after one more.
LEMMA PushedTrail ==
  ASSUME Types, Assigned, NEW l, NEW r, Pushed(l, r)
  PROVE  LET n == Len(trail)
         IN  /\ n \in Nat /\ DOMAIN trail = 1 .. n
             /\ trail' \in Seq(Lit) /\ Len(trail') = n + 1 /\ DOMAIN trail' = 1 .. n + 1
             /\ n + 1 \in DOMAIN trail' /\ n + 1 \notin DOMAIN trail
             /\ trail'[n + 1] = l /\ l \in Lit /\ LitToVar(l) \in Var
             /\ \A k \in DOMAIN trail' : k \in DOMAIN trail \/ k = n + 1
             /\ \A k \in DOMAIN trail :
                  /\ k \in DOMAIN trail' /\ trail'[k] = trail[k] /\ k < n + 1
                  /\ VarAt(trail, k) # LitToVar(l) /\ VarAt(trail, k) \in Var
                  /\ VarAt(trail', k) = VarAt(trail, k)
                  /\ Lev(trail', level', k) = Lev(trail, level, k)
                  /\ reason'[VarAt(trail', k)] = reason[VarAt(trail, k)]
             /\ VarAt(trail', n + 1) = LitToVar(l)
             /\ Lev(trail', level', n + 1) = Len(trailLevels')
             /\ reason'[LitToVar(l)] = r
  <1> DEFINE n == Len(trail)
             v == LitToVar(l)
  <1>1. /\ l \in Lit /\ v \in Var /\ values[v] = Undef /\ n \in Nat /\ DOMAIN trail = 1 .. n
        /\ \A k \in DOMAIN trail : trail[k] \in Lit /\ VarAt(trail, k) \in Var
    BY Literals, Sequences DEF Pushed
  <1>2. /\ trail' \in Seq(Lit) /\ Len(trail') = n + 1 /\ DOMAIN trail' = 1 .. n + 1
        /\ trail'[n + 1] = l /\ \A k \in 1 .. n : trail'[k] = trail[k]
    <2>1. trail' = Append(trail, l) /\ trail \in Seq(Lit)
      BY DEF Pushed, Types
    <2> QED BY <1>1, <2>1
  <1>3. \A k \in DOMAIN trail : VarAt(trail, k) # v
    BY <1>1, ValueOfLiteral
  <1>4. /\ level' = [level EXCEPT ![v] = Len(trailLevels')] /\ level \in [Var -> 0 .. NbVars]
        /\ reason' = [reason EXCEPT ![v] = r] /\ reason \in [Var -> 0 .. Len(clauses)]
    BY DEF Pushed, Types
  <1> HIDE DEF n, v
  <1>5. \A k \in DOMAIN trail : /\ VarAt(trail', k) = VarAt(trail, k)
                                /\ level'[VarAt(trail, k)] = level[VarAt(trail, k)]
                                /\ reason'[VarAt(trail, k)] = reason[VarAt(trail, k)]
    BY <1>1, <1>2, <1>3, <1>4 DEF VarAt
  <1>6. level'[v] = Len(trailLevels') /\ reason'[v] = r
    BY <1>1, <1>4
  <1>7. VarAt(trail', n + 1) = v
    BY <1>2 DEF VarAt, v
  <1>8. /\ n + 1 \in DOMAIN trail' /\ n + 1 \notin DOMAIN trail
        /\ \A k \in DOMAIN trail' : k \in DOMAIN trail \/ k = n + 1
        /\ \A k \in DOMAIN trail : k \in DOMAIN trail' /\ k < n + 1
    BY <1>1, <1>2
  <1>9. \A k \in DOMAIN trail : Lev(trail', level', k) = Lev(trail, level, k)
    BY <1>5 DEF Lev, VarAt
  <1>10. Lev(trail', level', n + 1) = Len(trailLevels')
    BY <1>6, <1>7 DEF Lev, VarAt
  <1> QED BY <1>1, <1>2, <1>3, <1>5, <1>6, <1>7, <1>8, <1>9, <1>10 DEF n, v

\* The same after one less.
LEMMA PoppedTrail ==
  ASSUME Types, Popped
  PROVE  LET n == Len(trail)
         IN  /\ n \in Nat /\ n > 0 /\ DOMAIN trail = 1 .. n /\ n \in DOMAIN trail
             /\ trail' \in Seq(Lit) /\ Len(trail') = n - 1 /\ DOMAIN trail' = 1 .. n - 1
             /\ \A k \in DOMAIN trail : k \in DOMAIN trail' \/ k = n
             /\ \A k \in DOMAIN trail' :
                  /\ k \in DOMAIN trail /\ k < n /\ trail'[k] = trail[k]
                  /\ VarAt(trail', k) = VarAt(trail, k)
                  /\ Lev(trail', level', k) = Lev(trail, level, k)
                  /\ reason'[VarAt(trail', k)] = reason[VarAt(trail, k)]
  <1> DEFINE n == Len(trail)
  <1>1. /\ n \in Nat /\ DOMAIN trail = 1 .. n /\ trail \in Seq(Lit)
        /\ trail # <<>> /\ trail' = SubSeq(trail, 1, n - 1)
        /\ level' = level /\ reason' = reason
    BY Sequences DEF Popped, Front, Types
  <1>2. n > 0
    BY <1>1
  <1>3. /\ trail' \in Seq(Lit) /\ Len(trail') = n - 1 /\ DOMAIN trail' = 1 .. n - 1
        /\ \A k \in 1 .. n - 1 : trail'[k] = trail[k]
    BY <1>1, <1>2
  <1> HIDE DEF n
  <1>4. /\ n \in DOMAIN trail
        /\ \A k \in DOMAIN trail : k \in DOMAIN trail' \/ k = n
        /\ \A k \in DOMAIN trail' : k \in DOMAIN trail /\ k < n
    BY <1>1, <1>2, <1>3
  <1>5. \A k \in DOMAIN trail' : /\ VarAt(trail', k) = VarAt(trail, k)
                                 /\ Lev(trail', level', k) = Lev(trail, level, k)
                                 /\ reason'[VarAt(trail', k)] = reason[VarAt(trail, k)]
    BY <1>1, <1>3 DEF VarAt, Lev
  <1> QED BY <1>1, <1>2, <1>3, <1>4, <1>5 DEF n

-----------------------------------------------------------------------------
(***************************************************************************)
(* The trail is the assignment.                                            *)
(***************************************************************************)
LEMMA AssignedKept ==
  ASSUME IInv, Next
  PROVE  Assigned'
  <1>1. CASE Still
    BY <1>1 DEF IInv, Assigned, Still
  <1>2. CASE Popped
    <2> DEFINE n == Len(trail)
               w == VarAt(trail, n)
    <2>1. /\ n \in DOMAIN trail
          /\ \A k \in DOMAIN trail : k \in DOMAIN trail' \/ k = n
          /\ \A k \in DOMAIN trail' : /\ k \in DOMAIN trail /\ k # n /\ trail'[k] = trail[k]
                                      /\ VarAt(trail', k) = VarAt(trail, k)
      BY <1>2, PoppedTrail DEF IInv
    <2>2. w \in Var /\ values \in [Var -> {False, True, Undef}]
      BY <2>1, Sequences DEF IInv, Types
    <2>3. values' = [values EXCEPT ![w] = Undef]
      BY <1>2 DEF Popped, VarAt
    <2>4. /\ \A j, k \in DOMAIN trail : VarAt(trail, j) = VarAt(trail, k) => j = k
          /\ \A k \in DOMAIN trail : values[VarAt(trail, k)] = Making(trail[k])
          /\ \A v \in Var : values[v] # Undef => \E k \in DOMAIN trail : VarAt(trail, k) = v
      BY DEF IInv, Assigned
    <2> HIDE DEF n
    <2>5. \A k \in DOMAIN trail' : VarAt(trail, k) # w /\ VarAt(trail, k) \in Var
      BY <2>1, <2>4, Sequences DEF IInv
    <2> HIDE DEF w
    <2>6. \A j, k \in DOMAIN trail' : VarAt(trail', j) = VarAt(trail', k) => j = k
      BY <2>1, <2>4
    <2>7. \A k \in DOMAIN trail' : values'[VarAt(trail', k)] = Making(trail'[k])
      BY <2>1, <2>2, <2>3, <2>4, <2>5
    <2>8. ASSUME NEW v \in Var, values'[v] # Undef
          PROVE  \E k \in DOMAIN trail' : VarAt(trail', k) = v
      <3>1. v # w /\ values[v] # Undef
        BY <2>2, <2>3, <2>8
      <3>2. PICK k \in DOMAIN trail : VarAt(trail, k) = v
        BY <2>4, <3>1
      <3> QED BY <2>1, <3>1, <3>2 DEF w
    <2> QED BY <2>6, <2>7, <2>8 DEF Assigned
  <1>3. ASSUME NEW l, NEW r, Pushed(l, r) PROVE Assigned'
    <2> DEFINE n == Len(trail)
               w == LitToVar(l)
    <2>1. /\ trail'[n + 1] = l /\ w \in Var /\ n + 1 \in DOMAIN trail'
          /\ \A k \in DOMAIN trail' : k \in DOMAIN trail \/ k = n + 1
          /\ \A k \in DOMAIN trail : /\ k \in DOMAIN trail' /\ trail'[k] = trail[k]
                                     /\ VarAt(trail, k) # w /\ VarAt(trail, k) \in Var
                                     /\ VarAt(trail', k) = VarAt(trail, k)
          /\ VarAt(trail', n + 1) = w
      BY <1>3, PushedTrail DEF IInv
    <2>2. values' = [values EXCEPT ![w] = Making(l)] /\ values \in [Var -> {False, True, Undef}]
      BY <1>3 DEF Pushed, IInv, Types
    <2>3. /\ \A j, k \in DOMAIN trail : VarAt(trail, j) = VarAt(trail, k) => j = k
          /\ \A k \in DOMAIN trail : values[VarAt(trail, k)] = Making(trail[k])
          /\ \A v \in Var : values[v] # Undef => \E k \in DOMAIN trail : VarAt(trail, k) = v
      BY DEF IInv, Assigned
    <2> HIDE DEF n, w
    <2>4. \A j, k \in DOMAIN trail' : VarAt(trail', j) = VarAt(trail', k) => j = k
      BY <2>1, <2>3
    <2>5. \A k \in DOMAIN trail' : values'[VarAt(trail', k)] = Making(trail'[k])
      BY <2>1, <2>2, <2>3
    <2>6. ASSUME NEW v \in Var, values'[v] # Undef
          PROVE  \E k \in DOMAIN trail' : VarAt(trail', k) = v
      <3>1. CASE v = w
        BY <2>1, <3>1
      <3>2. CASE v # w
        <4>1. PICK k \in DOMAIN trail : VarAt(trail, k) = v
          BY <2>2, <2>3, <2>6, <3>2
        <4> QED BY <2>1, <4>1
      <3> QED BY <3>1, <3>2
    <2> QED BY <2>4, <2>5, <2>6 DEF Assigned
  <1> QED BY <1>1, <1>2, <1>3, Moves

\* What happens to pc and the levels when the trail does not lose them.
LEMMA LevelMoves ==
  ASSUME IInv, Next
  PROVE  \/ UndoLiteral \/ EndOfCancel \/ Decide
         \/ /\ trailLevels' = trailLevels /\ pc # "cancel"
            /\ pc' = "cancel" => loc'.backtrackLevel <= Len(trailLevels)
                                 /\ (Len(trailLevels) > 0 => loc'.backtrackLevel < Len(trailLevels))
  <1> USE DEF IInv
  <1>1. CASE BuildClause
    BY <1>1 DEF BuildClause
  <1>2. CASE Exit \/ EndOfBuild
    BY <1>2 DEF Exit, EndOfBuild, assignVars
  <1>3. CASE StartSearch \/ ContinueSearch \/ TakeLiteral \/ NothingToPropagate
    BY <1>3 DEF StartSearch, ContinueSearch, TakeLiteral, NothingToPropagate, assignVars
  <1>4. CASE BudgetSpent \/ AllAssigned
    <2>1. loc' = loc /\ loc = NoLocals /\ trailLevels' = trailLevels
      BY <1>4 DEF BudgetSpent, AllAssigned, Learning, assignVars, analyzeVars
    <2>2. loc'.backtrackLevel = 0 /\ Len(trailLevels) \in Nat
      BY <2>1, Sequences DEF NoLocals
    <2> QED BY <1>4, <2>1, <2>2 DEF BudgetSpent, AllAssigned
  <1>5. CASE ClauseSatisfied \/ MoveWatch \/ ClauseUnit \/ ClauseEmpty \/ EndOfWatches
    BY <1>5 DEF ClauseSatisfied, MoveWatch, ClauseUnit, ClauseEmpty, EndOfWatches, Inspecting,
                assignVars
  <1>6. CASE SkipLiteral \/ SeeLiteral \/ ResolveReason
    BY <1>6 DEF SkipLiteral, SeeLiteral, ResolveReason, assignVars
  <1>7. CASE FindUip
    <2>1. /\ trailLevels' = trailLevels /\ pc = "analyze"
          /\ loc'.backtrackLevel = loc.backtrackLevel
      BY <1>7 DEF FindUip, assignVars, NoLocals
    <2>2. loc.backtrackLevel < Len(trailLevels) /\ loc.backtrackLevel \in Nat
      BY <2>1 DEF Analysis, Analysing, DecisionLevel, Types, Locals
    <2> QED BY <2>1, <2>2, Sequences
  <1>8. CASE Learn \/ DropAssigned
    BY <1>8 DEF Learn, DropAssigned
  <1> QED BY <1>1, <1>2, <1>3, <1>4, <1>5, <1>6, <1>7, <1>8 DEF Next

\* Outside a backjump each level has its decision.
LEMMA LevelsAreFew ==
  ASSUME Types, Levels, pc # "cancel"
  PROVE  Len(trailLevels) <= Len(trail)
  <1> DEFINE d == Len(trailLevels)
  <1>1. d \in Nat /\ Len(trail) \in Nat /\ DOMAIN trailLevels = 1 .. d
    BY Sequences
  <1>2. CASE d > 0
    <2>1. d \in DOMAIN trailLevels
      BY <1>1, <1>2
    <2>2. d <= trailLevels[d] + 1 /\ trailLevels[d] < Len(trail) /\ trailLevels[d] \in Nat
      BY <2>1, Sequences DEF Levels
    <2> QED BY <1>1, <2>2
  <1> QED BY <1>1, <1>2

-----------------------------------------------------------------------------
(***************************************************************************)
(* The levels.                                                             *)
(***************************************************************************)
LEMMA LevelsKept ==
  ASSUME IInv, Next
  PROVE  Levels'
  <1> DEFINE n == Len(trail)
             D == Len(trailLevels)
             b == loc.backtrackLevel
  <1>1. /\ n \in Nat /\ DOMAIN trail = 1 .. n /\ D \in Nat /\ DOMAIN trailLevels = 1 .. D
        /\ \A d \in 1 .. D : trailLevels[d] \in Nat
        /\ b \in Nat
        /\ \A k \in 1 .. n : Lev(trail, level, k) \in Nat
    <2>1. \A k \in 1 .. n : VarAt(trail, k) \in Var
      BY Sequences DEF IInv
    <2>2. \A k \in 1 .. n : Lev(trail, level, k) \in Nat
      BY <2>1, CdclAssumption DEF IInv, Types, Lev, VarAt
    <2> QED BY <2>2, Sequences DEF IInv, Types, Locals
  <1>2. /\ \A k \in 1 .. n : OfLevel(trail, trailLevels, k, Lev(trail, level, k))
        /\ \A d, e \in 1 .. D : d < e => trailLevels[d] < trailLevels[e]
        /\ \A d \in 1 .. D : d <= trailLevels[d] + 1
        /\ \A d \in 1 .. D : pc # "cancel" => trailLevels[d] < n
        /\ pc = "cancel" => /\ b <= D
                            /\ D > b => trailLevels[b + 1] <= n
                            /\ ~(D > b) => D = 0
    BY <1>1 DEF IInv, Levels, DecisionLevel, Jumps, KeptTrail
  <1> HIDE DEF n, D, b
  <1>3. CASE UndoLiteral
    <2>1. /\ pc = "cancel" /\ pc' = "cancel" /\ loc' = loc /\ trailLevels' = trailLevels
          /\ D > b /\ n > trailLevels[b + 1]
      BY <1>3 DEF UndoLiteral, Jumps, KeptTrail, DecisionLevel, analyzeVars, n, D, b
    <2>2. Popped
      BY <1>3, UndoPops
    <2>3. /\ Len(trail') = n - 1 /\ DOMAIN trail' = 1 .. n - 1
          /\ \A k \in 1 .. n - 1 : k \in 1 .. n /\ Lev(trail', level', k) = Lev(trail, level, k)
      BY <1>1, <2>2, PoppedTrail DEF IInv, n
    <2>4. \A k \in DOMAIN trail' : OfLevel(trail', trailLevels', k, Lev(trail', level', k))
      BY <1>2, <2>1, <2>3 DEF OfLevel
    <2>5. DecisionLevel' = D /\ Jumps' /\ KeptTrail' = trailLevels[b + 1]
          /\ loc'.backtrackLevel = b
      BY <2>1 DEF DecisionLevel, Jumps, KeptTrail, D, b
    <2>6. trailLevels[b + 1] <= n - 1
      BY <1>1, <2>1
    <2> QED BY <1>1, <1>2, <2>1, <2>3, <2>4, <2>5, <2>6 DEF Levels, D
  <1>4. CASE EndOfCancel
    <2>1. /\ pc = "cancel" /\ pc' # "cancel" /\ trail' = trail /\ level' = level
          /\ D > b => n = trailLevels[b + 1]
          /\ trailLevels' = IF D > b THEN SubSeq(trailLevels, 1, b) ELSE trailLevels
      BY <1>4 DEF EndOfCancel, Jumps, KeptTrail, DecisionLevel, D, b, n
    <2>2. CASE D > b
      <3>1. /\ Len(trailLevels') = b /\ DOMAIN trailLevels' = 1 .. b
            /\ \A d \in 1 .. b : trailLevels'[d] = trailLevels[d] /\ d \in 1 .. D
            /\ b + 1 \in 1 .. D
        <4>1. trailLevels \in Seq(Nat) /\ b \in 0 .. Len(trailLevels)
          BY <1>1, <2>2 DEF IInv, Types, D
        <4> QED BY <1>1, <2>1, <2>2, <4>1 DEF D
      <3>2. ASSUME NEW k \in 1 .. n
            PROVE  OfLevel(trail', trailLevels', k, Lev(trail', level', k))
        <4> DEFINE e == Lev(trail, level, k)
        <4>1. /\ e \in 0 .. D /\ (e > 0 => trailLevels[e] < k)
              /\ (e < D => k <= trailLevels[e + 1])
          BY <1>2 DEF OfLevel, D
        <4> HIDE DEF e
        <4>2. e <= b
          <5> SUFFICES ASSUME e > b PROVE FALSE
            BY <1>1, <4>1
          <5>1. e \in 1 .. D /\ trailLevels[e] < k /\ k <= trailLevels[b + 1]
            BY <1>1, <2>1, <2>2, <4>1
          <5>2. CASE e = b + 1
            BY <1>1, <5>1, <5>2
          <5>3. CASE e > b + 1
            BY <1>1, <1>2, <3>1, <5>1, <5>3
          <5> QED BY <1>1, <4>1, <5>2, <5>3
        <4>3. e \in 0 .. b /\ (e > 0 => e \in 1 .. b) /\ (e < b => e + 1 \in 1 .. b /\ e < D)
          BY <1>1, <2>2, <4>1, <4>2
        <4> QED BY <2>1, <3>1, <4>1, <4>3 DEF OfLevel, e
      <3>3. \A d \in 1 .. b : trailLevels[d] < n
        BY <1>1, <1>2, <2>1, <2>2, <3>1
      <3> QED BY <1>1, <1>2, <2>1, <3>1, <3>2, <3>3 DEF Levels, n
    <2>3. CASE ~(D > b)
      <3>1. D = 0 /\ trailLevels' = trailLevels
        BY <1>2, <2>1, <2>3
      <3>2. DOMAIN trailLevels' = {}
        BY <1>1, <3>1
      <3> QED BY <1>1, <1>2, <2>1, <3>1, <3>2 DEF Levels, n
    <2> QED BY <2>2, <2>3
  <1>5. CASE Decide
    <2>1. /\ pc = "decide" /\ pc' = "search" /\ trailLevels' = Append(trailLevels, n)
      BY <1>5 DEF Decide, n
    <2>2. /\ Len(trailLevels') = D + 1 /\ DOMAIN trailLevels' = 1 .. D + 1
          /\ trailLevels'[D + 1] = n /\ \A d \in 1 .. D : trailLevels'[d] = trailLevels[d]
      <3>1. trailLevels \in Seq(Nat)
        BY DEF IInv, Types
      <3> QED BY <1>1, <2>1, <3>1 DEF D
    <2>3. PICK l, r : Pushed(l, r)
      BY <1>5, DecidePushes
    <2>4. /\ Len(trail') = n + 1 /\ DOMAIN trail' = 1 .. n + 1
          /\ \A k \in 1 .. n : Lev(trail', level', k) = Lev(trail, level, k)
          /\ Lev(trail', level', n + 1) = D + 1
      BY <1>1, <2>2, <2>3, PushedTrail DEF IInv, n
    <2>5. ASSUME NEW k \in 1 .. n + 1
          PROVE  OfLevel(trail', trailLevels', k, Lev(trail', level', k))
      <3>1. CASE k = n + 1
        BY <1>1, <2>2, <2>4, <3>1 DEF OfLevel
      <3>2. CASE k \in 1 .. n
        <4> DEFINE e == Lev(trail, level, k)
        <4>1. /\ e \in 0 .. D /\ (e > 0 => trailLevels[e] < k)
              /\ (e < D => k <= trailLevels[e + 1])
          BY <1>2, <3>2 DEF OfLevel, D
        <4> HIDE DEF e
        <4>2. /\ e \in 0 .. D + 1 /\ (e > 0 => e \in 1 .. D) /\ (e < D => e + 1 \in 1 .. D)
              /\ (~(e < D) => e = D) /\ k <= n
          BY <1>1, <3>2, <4>1
        <4>3. e < D + 1 => k <= trailLevels'[e + 1]
          BY <2>2, <4>1, <4>2
        <4> QED BY <2>2, <2>4, <3>2, <4>1, <4>2, <4>3 DEF OfLevel, e
      <3> QED BY <1>1, <3>1, <3>2
    <2>6. D <= n
      BY <2>1, LevelsAreFew DEF IInv, D, n
    <2>7. \A d \in 1 .. D : trailLevels[d] < n
      BY <1>2, <2>1
    <2>8. \A d \in 1 .. D + 1 : d \in 1 .. D \/ d = D + 1
      BY <1>1
    <2> DEFINE new == trailLevels'
    <2> HIDE DEF new
    <2>9. ASSUME NEW d \in 1 .. D + 1, NEW e \in 1 .. D + 1, d < e PROVE new[d] < new[e]
      <3>1. d \in 1 .. D /\ d \in Nat /\ e \in Nat
        BY <1>1, <2>8, <2>9
      <3>2. CASE e = D + 1
        BY <2>2, <2>7, <3>1, <3>2 DEF new
      <3>3. CASE e \in 1 .. D
        BY <1>2, <2>2, <2>9, <3>1, <3>3 DEF new
      <3> QED BY <2>8, <3>2, <3>3
    <2>10. ASSUME NEW d \in 1 .. D + 1 PROVE d <= new[d] + 1 /\ new[d] < n + 1
      <3>1. CASE d = D + 1
        BY <1>1, <2>2, <2>6, <3>1 DEF new
      <3>2. CASE d \in 1 .. D
        <4>1. new[d] = trailLevels[d] /\ new[d] \in Nat
          BY <1>1, <2>2, <3>2 DEF new
        <4> QED BY <1>1, <1>2, <2>7, <3>2, <4>1
      <3> QED BY <2>8, <3>1, <3>2
    <2> QED BY <2>1, <2>2, <2>4, <2>5, <2>9, <2>10 DEF Levels, new
  <1>6. CASE ~(UndoLiteral \/ EndOfCancel \/ Decide)
    <2>1. /\ trailLevels' = trailLevels /\ pc # "cancel"
          /\ pc' = "cancel" => loc'.backtrackLevel <= D
                               /\ (D > 0 => loc'.backtrackLevel < D)
      BY <1>6, LevelMoves DEF D
    <2>2. /\ Len(trail') \in Nat /\ Len(trail') >= n
          /\ \A k \in DOMAIN trail' : OfLevel(trail', trailLevels', k, Lev(trail', level', k))
      <3>1. CASE Still
        BY <1>1, <1>2, <2>1, <3>1 DEF Still, n, OfLevel
      <3>2. ASSUME NEW l, NEW r, Pushed(l, r)
            PROVE /\ Len(trail') \in Nat /\ Len(trail') >= n
                  /\ \A k \in DOMAIN trail' : OfLevel(trail', trailLevels', k, Lev(trail', level', k))
        <4>1. /\ Len(trail') = n + 1 /\ DOMAIN trail' = 1 .. n + 1
              /\ \A k \in 1 .. n : Lev(trail', level', k) = Lev(trail, level, k)
              /\ Lev(trail', level', n + 1) = D
          BY <1>1, <2>1, <3>2, PushedTrail DEF IInv, n, D
        <4>2. OfLevel(trail', trailLevels', n + 1, D)
          <5>1. D > 0 => D \in 1 .. D /\ trailLevels[D] < n
            BY <1>1, <1>2, <2>1
          <5> QED BY <1>1, <2>1, <5>1 DEF OfLevel, D
        <4>3. ASSUME NEW k \in 1 .. n
              PROVE  OfLevel(trail', trailLevels', k, Lev(trail', level', k))
          BY <1>2, <2>1, <4>1 DEF OfLevel
        <4>4. \A k \in 1 .. n + 1 : k \in 1 .. n \/ k = n + 1
          BY <1>1
        <4> QED BY <1>1, <4>1, <4>2, <4>3, <4>4
      <3> QED BY <1>6, <3>1, <3>2, Moves
    <2>3. \A d \in 1 .. D : trailLevels'[d] < Len(trail')
      BY <1>1, <1>2, <2>1, <2>2
    <2>4. pc' = "cancel" => /\ loc'.backtrackLevel <= DecisionLevel'
                            /\ Jumps' => KeptTrail' <= Len(trail')
                            /\ ~Jumps' => DecisionLevel' = 0
      <3> SUFFICES ASSUME pc' = "cancel"
                   PROVE  /\ loc'.backtrackLevel <= DecisionLevel'
                          /\ Jumps' => KeptTrail' <= Len(trail')
                          /\ ~Jumps' => DecisionLevel' = 0
        OBVIOUS
      <3>1. /\ DecisionLevel' = D /\ (Jumps' <=> D > loc'.backtrackLevel)
            /\ KeptTrail' = trailLevels[loc'.backtrackLevel + 1]
        BY <2>1 DEF DecisionLevel, Jumps, KeptTrail, D
      <3>2. loc'.backtrackLevel \in Nat
        <4>1. CASE loc' = loc
          BY <1>1, <4>1 DEF b
        <4>2. CASE FindUip
          BY <1>1, <4>2 DEF FindUip, NoLocals, b
        <4>3. loc' = loc \/ FindUip
          BY <1>6, <2>1 DEF Next, BuildClause, Exit, EndOfBuild, StartSearch, ContinueSearch,
                BudgetSpent, TakeLiteral, NothingToPropagate, ClauseSatisfied, MoveWatch,
                ClauseUnit, ClauseEmpty, EndOfWatches, SkipLiteral, SeeLiteral, ResolveReason,
                Learn, DropAssigned, AllAssigned, assignVars, analyzeVars
        <4> QED BY <4>1, <4>2, <4>3
      <3>3. D > loc'.backtrackLevel => loc'.backtrackLevel + 1 \in 1 .. D
        BY <1>1, <3>2
      <3>4. D > loc'.backtrackLevel => trailLevels[loc'.backtrackLevel + 1] < Len(trail')
        BY <2>1, <2>3, <3>3
      <3>5. D > loc'.backtrackLevel => trailLevels[loc'.backtrackLevel + 1] \in Nat
        BY <1>1, <3>3
      <3> QED BY <1>1, <2>1, <2>2, <3>1, <3>2, <3>4, <3>5
    <2> QED BY <1>1, <1>2, <2>1, <2>2, <2>3, <2>4 DEF Levels
  <1> QED BY <1>3, <1>4, <1>5, <1>6

-----------------------------------------------------------------------------
(***************************************************************************)
(* What can happen to the clauses.                                         *)
(***************************************************************************)
\* The clause k becomes d, which has its literals; it is nobody's reason,
\* or d is the clause itself.
Rewritten(k, d) ==
  /\ k \in DOMAIN clauses /\ d \in Clause
  /\ clauses' = [clauses EXCEPT ![k] = d]
  /\ Len(clauses[k]) > 1 /\ Len(d) = Len(clauses[k]) /\ SameLiterals(clauses[k], d)
  /\ OnTrail(trail, clauses[k][1]) => d = clauses[k]

Moved(k) == [[Inspected EXCEPT ![k] = Inspected[2]] EXCEPT ![2] = Inspected[k]]

\* To have the same literals is transitive.
LEMMA SameSame ==
  ASSUME NEW c, NEW d, NEW e, SameLiterals(c, d), SameLiterals(d, e)
  PROVE  SameLiterals(c, e)
  <1>1. ASSUME NEW i \in DOMAIN c PROVE \E k \in DOMAIN e : e[k] = c[i]
    <2>1. PICK j \in DOMAIN d : d[j] = c[i]
      BY DEF SameLiterals
    <2>2. PICK k \in DOMAIN e : e[k] = d[j]
      BY DEF SameLiterals
    <2> QED BY <2>1, <2>2
  <1>2. ASSUME NEW k \in DOMAIN e PROVE \E i \in DOMAIN c : c[i] = e[k]
    <2>1. PICK j \in DOMAIN d : d[j] = e[k]
      BY DEF SameLiterals
    <2>2. PICK i \in DOMAIN c : c[i] = d[j]
      BY DEF SameLiterals
    <2> QED BY <2>1, <2>2
  <1> QED BY <1>1, <1>2 DEF SameLiterals

\* MoveWatch exchanges the second literal with a later one that is not false.
LEMMA MovedClause ==
  ASSUME Types, Assigned, Queue, Unary, Lists, MoveWatch
  PROVE  \E k \in 3 .. Len(Inspected) :
           /\ k \in DOMAIN Inspected
           /\ ValueLit(Inspected[k]) # False
           /\ clauses' = [clauses EXCEPT ![WatchList[wlPos]] = Moved(k)]
           /\ watches' = [[watches EXCEPT ![LitToPropagate] = RemoveAt(@, wlPos)]
                                   EXCEPT ![NotLit(Inspected[k])] = Append(@, WatchList[wlPos])]
           /\ Moved(k) \in Clause /\ Len(Moved(k)) = Len(Inspected)
           /\ Moved(k)[1] = Inspected[1] /\ Moved(k)[2] = Inspected[k]
           /\ SameLiterals(Inspected, Moved(k))
  <1> DEFINE I == Inspected
             k == CHOOSE i \in NewWatches : \A j \in NewWatches : i <= j
  <1>1. /\ I \in Clause /\ Len(I) > 1 /\ DOMAIN I = 1 .. Len(I) /\ I \in [1 .. Len(I) -> Lit]
        /\ Len(I) \in Nat
    BY InspectedClause, InspectedIsWatched, Clauses DEF MoveWatch
  <1>2. k \in NewWatches
    <2>1. NewWatches \in SUBSET Nat /\ NewWatches # {}
      BY <1>1 DEF NewWatches, MoveWatch
    <2>2. \E i \in NewWatches : \A j \in NewWatches : i <= j
      BY <2>1, Smallest
    <2> QED BY <2>2
  <1>3. k \in 3 .. Len(I) /\ ValueLit(I[k]) # False /\ k \in DOMAIN I /\ k # 1 /\ k # 2
    <2> HIDE DEF k
    <2>1. k \in 3 .. Len(I) /\ ValueLit(I[k]) # False
      BY <1>2 DEF NewWatches
    <2> HIDE DEF I
    <2> QED BY <1>1, <2>1
  <1>4. /\ clauses' = [clauses EXCEPT ![WatchList[wlPos]] = Moved(k)]
        /\ watches' = [[watches EXCEPT ![LitToPropagate] = RemoveAt(@, wlPos)]
                                EXCEPT ![NotLit(I[k])] = Append(@, WatchList[wlPos])]
    BY DEF MoveWatch, Moved
  <1> HIDE DEF k, I
  <1>5. Moved(k) = [[I EXCEPT ![k] = I[2]] EXCEPT ![2] = I[k]]
    BY DEF Moved, I
  <1>6. 1 \in DOMAIN I /\ 2 \in DOMAIN I
    BY <1>1
  <1>7. /\ Moved(k) \in [1 .. Len(I) -> Lit] /\ Moved(k)[1] = I[1] /\ Moved(k)[2] = I[k]
        /\ Moved(k)[k] = I[2] /\ \A i \in DOMAIN I \ {2, k} : Moved(k)[i] = I[i]
    BY <1>1, <1>3, <1>5, <1>6
  <1>8. Moved(k) \in Clause /\ Len(Moved(k)) = Len(I) /\ DOMAIN Moved(k) = DOMAIN I
    <2>1. Moved(k) \in Seq(Lit) /\ Len(Moved(k)) = Len(I) /\ DOMAIN Moved(k) = DOMAIN I
      BY <1>1, <1>7
    <2> QED BY <1>1, <2>1, EmptySeq DEF Clause
  <1>9. SameLiterals(I, Moved(k))
    BY <1>3, <1>6, <1>7, <1>8 DEF SameLiterals
  <1> QED BY <1>3, <1>4, <1>7, <1>8, <1>9 DEF I

\* How a step changes the clauses: not at all, by a permutation of one, or by a new one.
LEMMA ClauseMoves ==
  ASSUME IInv, Next
  PROVE  \/ clauses' = clauses
         \/ /\ ClauseSatisfied \/ MoveWatch \/ ClauseUnit \/ ClauseEmpty
            /\ \E k, d : Rewritten(k, d)
         \/ Learn /\ Len(loc.learnt) > 1 /\ clauses' = Append(clauses, loc.learnt)
  <1> USE DEF IInv
  <1>1. ASSUME Inspecting
        PROVE  LET k == WatchList[wlPos]
               IN  /\ k \in DOMAIN clauses /\ Inspected \in Clause
                   /\ Len(clauses[k]) > 1 /\ Len(Inspected) = Len(clauses[k])
                   /\ SameLiterals(clauses[k], Inspected)
                   /\ OnTrail(trail, clauses[k][1]) => Inspected = clauses[k]
    <2> DEFINE k == WatchList[wlPos]
               c == clauses[k]
               L == LitToPropagate
    <2>1. /\ k \in DOMAIN clauses /\ L \in Lit /\ toPropagate \in DOMAIN trail
      BY <1>1, InspectedClause
    <2>2. /\ Inspected \in Clause /\ Len(c) > 1 /\ Len(Inspected) = Len(c)
          /\ SameLiterals(c, Inspected) /\ (c[1] # NotLit(L) => Inspected = c)
      BY <1>1, InspectedLiterals
    <2>3. OnTrail(trail, c[1]) => c[1] # NotLit(L)
      <3>1. OnTrail(trail, L)
        BY <2>1 DEF OnTrail, LitToPropagate
      <3> QED BY <2>1, <3>1, ValueOfLiteral
    <2> QED BY <2>1, <2>2, <2>3
  <1>2. CASE ClauseSatisfied \/ ClauseUnit \/ ClauseEmpty
    <2>1. Inspecting /\ clauses' = [clauses EXCEPT ![WatchList[wlPos]] = Inspected]
      BY <1>2 DEF ClauseSatisfied, ClauseUnit, ClauseEmpty
    <2>2. Rewritten(WatchList[wlPos], Inspected)
      BY <1>1, <2>1 DEF Rewritten
    <2> QED BY <1>2, <2>2
  <1>3. CASE MoveWatch
    <2> DEFINE w == WatchList[wlPos]
    <2>1. PICK k \in 3 .. Len(Inspected) :
            /\ clauses' = [clauses EXCEPT ![w] = Moved(k)]
            /\ Moved(k) \in Clause /\ Len(Moved(k)) = Len(Inspected)
            /\ SameLiterals(Inspected, Moved(k))
      BY <1>3, MovedClause
    <2>2. /\ w \in DOMAIN clauses /\ Inspected \in Clause
          /\ Len(clauses[w]) > 1 /\ Len(Inspected) = Len(clauses[w])
          /\ SameLiterals(clauses[w], Inspected)
          /\ OnTrail(trail, clauses[w][1]) => Inspected = clauses[w]
      BY <1>1, <1>3 DEF MoveWatch
    <2>3. ~OnTrail(trail, Inspected[1])
      <3>1. Inspected[1] \in Lit
        BY <2>2, Clauses
      <3> QED BY <1>3, <3>1, ValueOfLiteral DEF MoveWatch
    <2>4. ~OnTrail(trail, clauses[w][1])
      BY <2>2, <2>3
    <2>5. SameLiterals(clauses[w], Moved(k))
      BY <2>1, <2>2, SameSame
    <2>6. Rewritten(w, Moved(k))
      BY <2>1, <2>2, <2>4, <2>5 DEF Rewritten
    <2> QED BY <1>3, <2>6
  <1>4. CASE Learn
    <2>1. loc.learnt \in Clause
      BY <1>4 DEF Learning, Learn, Types, Locals, Clause
    <2> DEFINE n == Len(loc.learnt)
    <2>2. n \in Nat /\ n > 0
      BY <2>1, Clauses
    <2> HIDE DEF n
    <2>3. n = 1 \/ n > 1
      BY <2>2
    <2> QED BY <1>4, <2>3 DEF Learn, n
  <1>5. CASE ~(ClauseSatisfied \/ ClauseUnit \/ ClauseEmpty \/ MoveWatch \/ Learn)
    BY <1>5 DEF Next, BuildClause, Exit, EndOfBuild, UndoLiteral, EndOfCancel, StartSearch,
                ContinueSearch, BudgetSpent, TakeLiteral, NothingToPropagate, EndOfWatches,
                SkipLiteral, SeeLiteral, ResolveReason, FindUip, DropAssigned, Decide, AllAssigned
  <1> QED BY <1>2, <1>3, <1>4, <1>5

\* After a permutation.
LEMMA RewrittenClauses ==
  ASSUME Types, NEW k, NEW d, Rewritten(k, d)
  PROVE  /\ clauses' \in Seq(Clause) /\ Len(clauses') = Len(clauses)
         /\ DOMAIN clauses' = DOMAIN clauses /\ clauses'[k] = d
         /\ \A i \in DOMAIN clauses : i # k => clauses'[i] = clauses[i]
         /\ \A i \in DOMAIN clauses : /\ SameLiterals(clauses[i], clauses'[i])
                                      /\ Len(clauses'[i]) = Len(clauses[i])
                                      /\ OnTrail(trail, clauses[i][1]) => clauses'[i] = clauses[i]
  <1>1. clauses \in Seq(Clause) /\ k \in DOMAIN clauses /\ d \in Clause
        /\ clauses' = [clauses EXCEPT ![k] = d]
    BY DEF Types, Rewritten
  <1>2. /\ clauses' \in Seq(Clause) /\ Len(clauses') = Len(clauses)
        /\ DOMAIN clauses' = DOMAIN clauses /\ clauses'[k] = d
        /\ \A i \in DOMAIN clauses : i # k => clauses'[i] = clauses[i]
    <2>1. k \in 1 .. Len(clauses)
      BY <1>1
    <2>2. /\ clauses' \in Seq(Clause) /\ Len(clauses') = Len(clauses)
          /\ \A i \in 1 .. Len(clauses) : clauses'[i] = IF i = k THEN d ELSE clauses[i]
      BY <1>1, <2>1, ExceptSeq
    <2> QED BY <1>1, <2>1, <2>2
  <1>3. \A i \in DOMAIN clauses : SameLiterals(clauses[i], clauses[i])
    BY DEF SameLiterals
  <1> QED BY <1>1, <1>2, <1>3 DEF Rewritten

\* After a new clause.
LEMMA AppendedClause ==
  ASSUME IInv, Learn, Len(loc.learnt) > 1
  PROVE  /\ clauses' \in Seq(Clause) /\ Len(clauses') = Len(clauses) + 1
         /\ clauses'[Len(clauses) + 1] = loc.learnt /\ loc.learnt \in Clause
         /\ Len(clauses) + 1 \in DOMAIN clauses'
         /\ \A i \in DOMAIN clauses' : i \in DOMAIN clauses \/ i = Len(clauses) + 1
         /\ \A i \in DOMAIN clauses : i \in DOMAIN clauses' /\ clauses'[i] = clauses[i]
  <1>1. clauses \in Seq(Clause) /\ loc.learnt \in Clause
    BY DEF IInv, Types, Locals, Learning, Learn, Clause
  <1> DEFINE n == Len(loc.learnt)
  <1>2. Len(loc.learnt) # 1
    <2>1. n \in Nat
      BY <1>1, Clauses
    <2>2. n > 1
      OBVIOUS
    <2> HIDE DEF n
    <2>3. n # 1
      BY <2>1, <2>2
    <2> QED BY <2>3 DEF n
  <1>3. clauses' = Append(clauses, loc.learnt)
    BY <1>2 DEF Learn
  <1> QED BY <1>1, <1>3

\* The clauses keep their literals; only a learnt one is new.
LEMMA ClausesGo ==
  ASSUME IInv, Next
  PROVE  /\ clauses' \in Seq(Clause) /\ Len(clauses') \in Nat /\ Len(clauses) <= Len(clauses')
         /\ DOMAIN clauses' = 1 .. Len(clauses')
         /\ \A i \in DOMAIN clauses :
              /\ i \in DOMAIN clauses' /\ SameLiterals(clauses[i], clauses'[i])
              /\ Len(clauses'[i]) = Len(clauses[i])
              /\ OnTrail(trail, clauses[i][1]) => clauses'[i] = clauses[i]
              /\ Len(clauses[i]) = 1 => clauses'[i] = clauses[i]
         /\ \A i \in DOMAIN clauses' :
              \/ i \in DOMAIN clauses
              \/ /\ i = Len(clauses) + 1 /\ clauses'[i] = loc.learnt
                 /\ Learn /\ Len(loc.learnt) > 1 /\ loc.learnt \in Clause
  <1>1. /\ Len(clauses) \in Nat /\ DOMAIN clauses = 1 .. Len(clauses) /\ clauses \in Seq(Clause)
    BY Sequences DEF IInv, Types
  <1>2. \A i \in DOMAIN clauses : SameLiterals(clauses[i], clauses[i])
    BY DEF SameLiterals
  <1>3. CASE clauses' = clauses
    BY <1>1, <1>2, <1>3
  <1>4. ASSUME NEW k, NEW d, Rewritten(k, d)
        PROVE  /\ clauses' \in Seq(Clause) /\ Len(clauses') = Len(clauses)
               /\ DOMAIN clauses' = DOMAIN clauses
               /\ \A i \in DOMAIN clauses :
                     /\ SameLiterals(clauses[i], clauses'[i])
                     /\ Len(clauses'[i]) = Len(clauses[i])
                     /\ OnTrail(trail, clauses[i][1]) => clauses'[i] = clauses[i]
                     /\ Len(clauses[i]) = 1 => clauses'[i] = clauses[i]
    <2>1. /\ clauses' \in Seq(Clause) /\ Len(clauses') = Len(clauses)
          /\ DOMAIN clauses' = DOMAIN clauses
          /\ \A i \in DOMAIN clauses : i # k => clauses'[i] = clauses[i]
          /\ \A i \in DOMAIN clauses : /\ SameLiterals(clauses[i], clauses'[i])
                                       /\ Len(clauses'[i]) = Len(clauses[i])
                                       /\ OnTrail(trail, clauses[i][1]) => clauses'[i] = clauses[i]
      BY <1>4, RewrittenClauses DEF IInv
    <2>2. ~(Len(clauses[k]) = 1)
      BY <1>4 DEF Rewritten
    <2> QED BY <2>1, <2>2
  <1>5. CASE \E k, d : Rewritten(k, d)
    BY <1>1, <1>4, <1>5
  <1>6. CASE Learn /\ Len(loc.learnt) > 1
    BY <1>1, <1>2, <1>6, AppendedClause
  <1> QED BY <1>3, <1>5, <1>6, ClauseMoves

\* No step changes the formula.
LEMMA FormulaStays ==
  ASSUME Next
  PROVE  formula' = formula
  BY DEF Next, BuildClause, Exit, EndOfBuild, UndoLiteral, EndOfCancel, StartSearch,
         ContinueSearch, BudgetSpent, TakeLiteral, NothingToPropagate, ClauseSatisfied,
         MoveWatch, ClauseUnit, ClauseEmpty, EndOfWatches, SkipLiteral, SeeLiteral,
         ResolveReason, FindUip, Learn, DropAssigned, Decide, AllAssigned

\* The first clauses keep the literals of the formula.
LEMMA OriginalsKept ==
  ASSUME IInv, Next
  PROVE  Originals'
  <1>1. formula' = formula
    BY FormulaStays
  <1>2. /\ Len(formula) <= Len(clauses) /\ Len(formula) \in Nat /\ DOMAIN formula = 1 .. Len(formula)
        /\ \A k \in DOMAIN formula : SameLiterals(formula[k], clauses[k])
    <2>1. formula \in Seq(Seq(Lit) \ {<<>>})
      BY CdclAssumption DEF IInv, Types
    <2> QED BY <2>1 DEF IInv, Originals
  <1>3. /\ Len(clauses) \in Nat /\ Len(clauses') \in Nat /\ Len(clauses) <= Len(clauses')
        /\ DOMAIN clauses = 1 .. Len(clauses)
        /\ \A i \in DOMAIN clauses : SameLiterals(clauses[i], clauses'[i])
    BY ClausesGo, Sequences DEF IInv
  <1>4. ASSUME NEW k \in DOMAIN formula PROVE SameLiterals(formula[k], clauses'[k])
    <2>1. k \in DOMAIN clauses
      BY <1>2, <1>3
    <2> QED BY <1>2, <1>3, <2>1, SameSame
  <1>5. Len(formula) <= Len(clauses')
    BY <1>2, <1>3
  <1> QED BY <1>1, <1>4, <1>5 DEF Originals

-----------------------------------------------------------------------------
(***************************************************************************)
(* The queue of propagation.                                               *)
(***************************************************************************)
LEMMA QueueKept ==
  ASSUME IInv, Next
  PROVE  Queue'
  <1> DEFINE n == Len(trail)
             D == Len(trailLevels)
             b == loc.backtrackLevel
             q == toPropagate
  <1>1. /\ n \in Nat /\ D \in Nat /\ DOMAIN trailLevels = 1 .. D /\ q \in Nat /\ b \in Nat
        /\ \A d \in 1 .. D : trailLevels[d] \in Nat
        /\ trailLevels \in Seq(Nat) /\ trail \in Seq(Lit)
    BY Sequences DEF IInv, Types, Locals
  <1>2. /\ D > 0 => trailLevels[D] <= q
        /\ (pc = "cancel" /\ D > b) \/ q <= n
        /\ pc = "watch" => q > 0 /\ (D > 0 => trailLevels[D] < q)
        /\ pc \in {"decide", "analyze", "learn"} => q = n
        /\ pc = "build" => D = 0 /\ q = 0
    BY DEF IInv, Queue, DecisionLevel, Jumps
  <1>3. /\ \A d, e \in 1 .. D : d < e => trailLevels[d] < trailLevels[e]
        /\ \A d \in 1 .. D : pc # "cancel" => trailLevels[d] < n
        /\ pc = "cancel" => /\ b <= D
                            /\ D > b => trailLevels[b + 1] <= n
                            /\ ~(D > b) => D = 0
    BY <1>1 DEF IInv, Levels, DecisionLevel, Jumps, KeptTrail
  <1>4. CASE UndoLiteral
    <2>1. /\ pc = "cancel" /\ pc' = "cancel" /\ loc' = loc /\ trailLevels' = trailLevels
          /\ D > b /\ toPropagate' = q
      BY <1>4 DEF UndoLiteral, Jumps, DecisionLevel, analyzeVars
    <2> QED BY <1>2, <2>1 DEF Queue, DecisionLevel, Jumps
  <1>5. CASE EndOfCancel
    <2>1. /\ pc = "cancel" /\ trail' = trail
          /\ D > b => n = trailLevels[b + 1]
          /\ trailLevels' = IF D > b THEN SubSeq(trailLevels, 1, b) ELSE trailLevels
          /\ toPropagate' = IF D > b THEN trailLevels[b + 1] ELSE q
          /\ pc' = CASE loc.learnt # <<>> -> "learn"
                     [] loc.learnt = <<>> /\ answer # Unknown -> "done"
                     [] OTHER -> "restart"
      BY <1>5 DEF EndOfCancel, Jumps, KeptTrail, DecisionLevel
    <2>2. pc' \in {"learn", "done", "restart"} /\ (pc' = "learn" => loc.learnt # <<>>)
      BY <2>1
    <2>3. pc' = "learn" => D > b
      BY <2>1, <2>2 DEF IInv, Learning, Jumps, DecisionLevel
    <2>4. CASE D > b
      <3>1. Len(trailLevels') = b /\ (b > 0 => trailLevels'[b] = trailLevels[b])
        BY <1>1, <2>1, <2>4
      <3>2. b > 0 => trailLevels[b] < trailLevels[b + 1]
        BY <1>1, <1>3, <2>4
      <3>3. b > 0 => trailLevels[b] \in Nat
        BY <1>1, <2>4
      <3> QED BY <1>1, <2>1, <2>2, <2>4, <3>1, <3>2, <3>3 DEF Queue, DecisionLevel
    <2>5. CASE ~(D > b)
      <3>1. D = 0 /\ q <= n
        BY <1>2, <1>3, <2>1, <2>5
      <3> QED BY <1>1, <2>1, <2>2, <2>3, <2>5, <3>1 DEF Queue, DecisionLevel
    <2> QED BY <2>4, <2>5
  <1>6. CASE Decide
    <2>1. /\ pc = "decide" /\ pc' = "search" /\ trailLevels' = Append(trailLevels, n)
          /\ toPropagate' = q
      BY <1>6 DEF Decide
    <2>2. /\ Len(trailLevels') = D + 1 /\ trailLevels'[D + 1] = n
      BY <1>1, <2>1
    <2>3. PICK l, r : Pushed(l, r)
      BY <1>6, DecidePushes
    <2>4. Len(trail') = n + 1
      BY <2>3, PushedTrail DEF IInv
    <2> QED BY <1>1, <1>2, <2>1, <2>2, <2>4 DEF Queue, DecisionLevel
  <1>7. CASE ~(UndoLiteral \/ EndOfCancel \/ Decide)
    <2>1. trailLevels' = trailLevels /\ pc # "cancel"
      BY <1>7, LevelMoves
    <2>2. Len(trail') \in Nat /\ n <= Len(trail')
      <3>1. CASE Still
        BY <1>1, <3>1 DEF Still
      <3>2. ASSUME NEW l, NEW r, Pushed(l, r) PROVE Len(trail') = n + 1
        BY <3>2, PushedTrail DEF IInv
      <3> QED BY <1>1, <1>7, <3>1, <3>2, Moves
    <2>3. CASE TakeLiteral
      <3>1. /\ q < n /\ toPropagate' = q + 1 /\ pc' = "watch" /\ trail' = trail
        BY <2>3 DEF TakeLiteral
      <3>2. D > 0 => trailLevels[D] \in Nat
        BY <1>1
      <3> QED BY <1>1, <1>2, <2>1, <3>1, <3>2 DEF Queue, DecisionLevel
    <2>4. CASE ClauseEmpty
      <3>1. /\ toPropagate' = n /\ pc' \in {"done", "analyze"} /\ trail' = trail
        BY <2>4 DEF ClauseEmpty
      <3>2. D > 0 => trailLevels[D] < n /\ trailLevels[D] \in Nat
        BY <1>1, <1>3, <2>1
      <3> QED BY <1>1, <1>2, <2>1, <3>1, <3>2 DEF Queue, DecisionLevel
    <2>5. CASE toPropagate' = q /\ pc' = pc /\ (pc \in {"decide", "analyze"} => trail' = trail) /\ pc # "learn"
      BY <1>1, <1>2, <2>1, <2>2, <2>5 DEF Queue, DecisionLevel
    <2>6. CASE /\ toPropagate' = q /\ pc' \notin {"watch", "analyze", "learn", "build"}
               /\ pc' = "decide" => q >= n /\ trail' = trail
      BY <1>1, <1>2, <2>1, <2>2, <2>6 DEF Queue, DecisionLevel
    <2>7. ASSUME ~(TakeLiteral \/ ClauseEmpty)
          PROVE  \/ toPropagate' = q /\ pc' = pc /\ (pc \in {"decide", "analyze"} => trail' = trail) /\ pc # "learn"
                 \/ /\ toPropagate' = q /\ pc' \notin {"watch", "analyze", "learn", "build"}
                    /\ pc' = "decide" => q >= n /\ trail' = trail
      BY <1>7, <2>7 DEF Next, BuildClause, Exit, EndOfBuild, StartSearch, ContinueSearch,
                BudgetSpent, NothingToPropagate, ClauseSatisfied, MoveWatch, ClauseUnit,
                EndOfWatches, SkipLiteral, SeeLiteral, ResolveReason, FindUip, Learn,
                DropAssigned, AllAssigned, assignVars, Inspecting
    <2> QED BY <2>3, <2>4, <2>5, <2>6, <2>7
  <1> QED BY <1>4, <1>5, <1>6, <1>7

-----------------------------------------------------------------------------
(***************************************************************************)
(* The heap.                                                               *)
(***************************************************************************)
LEMMA Scores ==
  ASSUME Types
  PROVE  scores \in [Var -> Nat]
  <1>1. scores \in [Var -> 0 .. NbVars - 1]
    BY DEF Types, Rankings
  <1> QED BY <1>1, CdclAssumption

\* What a bump does to the order of the scores.
LEMMA Bumps ==
  ASSUME NEW v \in Var, NEW r \in Bumped(v)
  PROVE  /\ r \in Rankings /\ r \in [Var -> Nat]
         /\ \A u, w \in Var \ {v} : r[u] <= r[w] <=> scores[u] <= scores[w]
         /\ \A u \in Var \ {v} : scores[u] <= scores[v] => r[u] <= r[v]
  <1>1. /\ r \in Rankings /\ r \in [Var -> 0 .. NbVars - 1]
        /\ \A u, w \in Var \ {v} : r[u] <= r[w] <=> scores[u] <= scores[w]
        /\ \A u \in Var \ {v} : scores[u] <= scores[v] => r[u] <= r[v]
    BY DEF Bumped, Rankings
  <1> QED BY <1>1, CdclAssumption

\* buildDataStructure inserts every variable.
LEMMA AllInHeap ==
  /\ Indexed(HeapOfAll) /\ \A v \in Var : InHeap(HeapOfAll, v)
  /\ \A k \in DOMAIN HeapOfAll.heap : k > 1 => k \div 2 \in DOMAIN HeapOfAll.heap
  <1> DEFINE n == NbVars
             heap == [k \in 1 .. n |-> k - 1]
             indices == [v \in Var |-> v + 1]
  <1>1. n \in Nat /\ n > 0 /\ Var = 0 .. n - 1
    BY CdclAssumption DEF Var
  <1>2. heap \in [1 .. n -> Var] /\ indices \in [Var -> 1 .. n]
    BY <1>1
  <1>3. heap \in Seq(Var) /\ DOMAIN heap = 1 .. n
    BY <1>1, <1>2
  <1>4. /\ \A v \in Var : indices[v] \in 1 .. n /\ heap[indices[v]] = v
        /\ \A k \in 1 .. n : indices[heap[k]] = k
    BY <1>1, <1>2
  <1>5. HeapOfAll.heap = heap /\ HeapOfAll.indices = indices
    BY DEF HeapOfAll
  <1> HIDE DEF heap, indices, n
  <1>6. \A v \in Var : InHeap(HeapOfAll, v)
    BY <1>1, <1>4, <1>5 DEF InHeap, Absent
  <1>7. indices \in [Var -> Nat]
    <2>1. 1 .. n \subseteq Nat
      OBVIOUS
    <2> QED BY <1>2, <2>1
  <1>8. Indexed(HeapOfAll)
    BY <1>3, <1>4, <1>5, <1>6, <1>7 DEF Indexed
  <1>9. \A k \in 1 .. n : k > 1 => k \div 2 \in 1 .. n
    BY <1>1
  <1> QED BY <1>3, <1>5, <1>6, <1>8, <1>9

\* The first element of the heap, once the heap is not empty.
LEMMA FirstOfHeap ==
  ASSUME HeapOK, varHeap.heap # <<>>
  PROVE  varHeap.heap[1] \in Var
  BY DEF HeapOK, Indexed

\* Every step keeps the heap.
LEMMA HeapOKKept ==
  ASSUME IInv, Next
  PROVE  HeapOK'
  <1>1. /\ scores \in [Var -> Nat] /\ values \in [Var -> {False, True, Undef}]
        /\ Indexed(varHeap) /\ Ordered(varHeap, scores)
        /\ Started => \A v \in Var : values[v] = Undef => InHeap(varHeap, v)
    BY Scores DEF IInv, HeapOK, Types
  <1>2. CASE UndoLiteral
    <2> DEFINE v == LitToVar(trail[Len(trail)])
    <2>1. /\ values' = [values EXCEPT ![v] = Undef]
          /\ varHeap' = IF InHeap(varHeap, v) THEN varHeap ELSE Insert(varHeap, v, scores)
          /\ scores' = scores /\ pc' # "build" /\ Started
      BY <1>2 DEF UndoLiteral, analyzeVars, Last, Started
    <2>2. v \in Var
      <3>1. Popped
        BY <1>2, UndoPops
      <3>2. Len(trail) \in DOMAIN trail
        BY <3>1, PoppedTrail DEF IInv
      <3> QED BY <3>2, Sequences DEF IInv, VarAt
    <2> HIDE DEF v
    <2>3. \A u \in Var : values'[u] = Undef => values[u] = Undef \/ u = v
      BY <1>1, <2>1, <2>2
    <2>4. CASE InHeap(varHeap, v)
      BY <1>1, <2>1, <2>3, <2>4 DEF HeapOK
    <2>5. CASE ~InHeap(varHeap, v)
      <3>1. varHeap' = Insert(varHeap, v, scores)
        BY <2>1, <2>5
      <3>2. /\ Indexed(varHeap') /\ Ordered(varHeap', scores)
            /\ \A u \in Var : InHeap(varHeap', u) <=> InHeap(varHeap, u) \/ u = v
        BY <1>1, <2>2, <2>5, <3>1, InsertKeeps
      <3> QED BY <1>1, <2>1, <2>3, <3>2 DEF HeapOK
    <2> QED BY <2>4, <2>5
  <1>3. CASE SeeLiteral
    <2> DEFINE v == LitToVar(clauses[loc.c][loc.j])
    <2>1. /\ scores' \in Bumped(v)
          /\ varHeap' = IF InHeap(varHeap, v) THEN Decrease(varHeap, v, scores') ELSE varHeap
          /\ values' = values /\ pc' # "build" /\ Started
      BY <1>3 DEF SeeLiteral, Started
    <2>2. v \in Var
      <3>1. loc.c \in DOMAIN clauses /\ loc.j \in DOMAIN clauses[loc.c]
        <4>1. pc = "analyze" /\ loc.j <= Len(clauses[loc.c])
          BY <1>3 DEF SeeLiteral
        <4>2. loc.c \in 0 .. Len(clauses) /\ loc.c # 0 /\ loc.j \in Nat /\ loc.j > 0
          BY <4>1 DEF IInv, Types, Locals, Analysis, Analysing, None
        <4>3. Len(clauses) \in Nat /\ DOMAIN clauses = 1 .. Len(clauses)
          BY Sequences DEF IInv
        <4>4. loc.c \in DOMAIN clauses
          BY <4>2, <4>3
        <4>5. DOMAIN clauses[loc.c] = 1 .. Len(clauses[loc.c]) /\ Len(clauses[loc.c]) \in Nat
          BY <4>4, Sequences, Clauses DEF IInv
        <4> QED BY <4>1, <4>2, <4>4, <4>5
      <3>2. clauses[loc.c][loc.j] \in Lit
        BY <3>1, Sequences, Clauses DEF IInv
      <3> QED BY <3>2, Literals
    <2> HIDE DEF v
    <2>3. /\ scores' \in [Var -> Nat]
          /\ \A u, w \in Var \ {v} : scores'[u] <= scores'[w] <=> scores[u] <= scores[w]
          /\ \A u \in Var \ {v} : scores[u] <= scores[v] => scores'[u] <= scores'[v]
      BY <2>1, <2>2, Bumps
    <2>4. CASE InHeap(varHeap, v)
      <3>1. varHeap' = Decrease(varHeap, v, scores')
        BY <2>1, <2>4
      <3>2. /\ Indexed(varHeap') /\ Ordered(varHeap', scores')
            /\ \A u \in Var : InHeap(varHeap', u) <=> InHeap(varHeap, u)
        BY <1>1, <2>2, <2>3, <2>4, <3>1, DecreaseKeeps
      <3> QED BY <1>1, <2>1, <3>2 DEF HeapOK
    <2>5. CASE ~InHeap(varHeap, v)
      <3>1. varHeap' = varHeap
        BY <2>1, <2>5
      <3>2. Ordered(varHeap, scores')
        <4> SUFFICES ASSUME NEW k \in DOMAIN varHeap.heap, k > 1
                     PROVE  scores'[varHeap.heap[k \div 2]] >= scores'[varHeap.heap[k]]
          BY DEF Ordered
        <4>1. /\ DOMAIN varHeap.heap = 1 .. Len(varHeap.heap) /\ Len(varHeap.heap) \in Nat
              /\ varHeap.heap \in [1 .. Len(varHeap.heap) -> Var]
              /\ \A j \in 1 .. Len(varHeap.heap) : varHeap.heap[j] # v
          BY <1>1, <2>2, <2>5, IndexedFacts
        <4>2. k \div 2 \in 1 .. Len(varHeap.heap)
          BY <4>1
        <4> DEFINE x == varHeap.heap[k \div 2]
                   y == varHeap.heap[k]
        <4>3. x \in Var \ {v} /\ y \in Var \ {v} /\ scores[x] >= scores[y]
          BY <1>1, <4>1, <4>2 DEF Ordered
        <4> HIDE DEF x, y
        <4>4. scores[y] <= scores[x]
          BY <1>1, <4>3
        <4>5. scores'[y] <= scores'[x]
          BY <2>3, <4>3, <4>4
        <4> QED BY <2>3, <4>3, <4>5 DEF x, y
      <3> QED BY <1>1, <2>1, <3>1, <3>2 DEF HeapOK
    <2> QED BY <2>4, <2>5
  <1>4. CASE DropAssigned \/ Decide
    <2> DEFINE v == varHeap.heap[1]
    <2>1. /\ varHeap.heap # <<>> /\ varHeap' = RemoveMin(varHeap, scores)
          /\ scores' = scores /\ Started /\ pc' # "build"
      BY <1>4 DEF DropAssigned, Decide, analyzeVars, Started
    <2>2. v \in Var
      BY <2>1, FirstOfHeap DEF IInv
    <2>3. /\ Indexed(varHeap') /\ Ordered(varHeap', scores)
          /\ \A u \in Var : InHeap(varHeap', u) <=> InHeap(varHeap, u) /\ u # v
      BY <1>1, <2>1, RemoveMinKeeps
    <2>4. \A u \in Var : values'[u] = Undef => values[u] = Undef /\ u # v
      <3>1. CASE DropAssigned
        BY <3>1 DEF DropAssigned
      <3>2. CASE Decide
        <4> DEFINE m == Making(VarToLit(v, polarity[v]))
        <4>1. values' = [values EXCEPT ![v] = m]
          BY <3>2 DEF Decide
        <4>2. m # Undef
          BY DEF Making, False, True, Undef
        <4> HIDE DEF m, v
        <4> QED BY <1>1, <2>2, <4>1, <4>2
      <3> QED BY <1>4, <3>1, <3>2
    <2> QED BY <1>1, <2>1, <2>3, <2>4 DEF HeapOK
  <1>5. CASE EndOfBuild
    <2>1. /\ pc = "build" /\ pc' = "restart" /\ varHeap' = HeapOfAll /\ scores' = scores
      BY <1>5 DEF EndOfBuild, analyzeVars
    <2>2. \A v \in Var : scores[v] = 0
      BY <2>1 DEF IInv, HeapOK
    <2>3. /\ Indexed(HeapOfAll) /\ \A v \in Var : InHeap(HeapOfAll, v)
          /\ \A k \in DOMAIN HeapOfAll.heap : k > 1 => k \div 2 \in DOMAIN HeapOfAll.heap
      BY AllInHeap
    <2>4. \A k \in DOMAIN HeapOfAll.heap : HeapOfAll.heap[k] \in Var
      BY <2>3 DEF Indexed
    <2>5. Ordered(HeapOfAll, scores)
      BY <2>2, <2>3, <2>4 DEF Ordered
    <2> QED BY <2>1, <2>3, <2>5 DEF HeapOK
  <1>6. CASE ~(UndoLiteral \/ SeeLiteral \/ DropAssigned \/ Decide \/ EndOfBuild)
    <2>1. varHeap' = varHeap /\ scores' = scores /\ (pc' = "build" => pc = "build") /\ (Started' => Started)
      BY <1>6 DEF Next, BuildClause, Exit, EndOfCancel, StartSearch, ContinueSearch,
              BudgetSpent, TakeLiteral, NothingToPropagate, ClauseSatisfied, MoveWatch,
              ClauseUnit, ClauseEmpty, EndOfWatches, SkipLiteral, ResolveReason, FindUip,
              Learn, AllAssigned, assignVars, analyzeVars, Enqueue, Started, Inspecting
    <2>2. \A v \in Var : values'[v] = Undef => values[v] = Undef
      <3>1. CASE Still
        BY <3>1 DEF Still
      <3>2. ASSUME NEW l, NEW r, Pushed(l, r)
            PROVE  \A v \in Var : values'[v] = Undef => values[v] = Undef
        BY <1>1, <3>2 DEF Pushed
      <3> QED BY <1>6, <3>1, <3>2, Moves
    <2> QED BY <1>1, <2>1, <2>2 DEF HeapOK, IInv
  <1> QED BY <1>2, <1>3, <1>4, <1>5, <1>6

-----------------------------------------------------------------------------
(***************************************************************************)
(* What stays true of a literal when the trail moves.                      *)
(***************************************************************************)
\* The places of the levels up to d are before the level d + 1.
LEMMA LowPlaces ==
  ASSUME Types, Levels, NEW k \in DOMAIN trail, NEW d \in Nat, d < Len(trailLevels),
         Lev(trail, level, k) <= d
  PROVE  k <= trailLevels[d + 1]
  <1> DEFINE e == Lev(trail, level, k)
             D == Len(trailLevels)
  <1>1. /\ e \in 0 .. D /\ (e < D => k <= trailLevels[e + 1])
        /\ \A a, c \in 1 .. D : a < c => trailLevels[a] < trailLevels[c]
        /\ D \in Nat /\ \A a \in 1 .. D : trailLevels[a] \in Nat
        /\ k \in Nat
    <2>1. /\ D \in Nat /\ DOMAIN trailLevels = 1 .. D /\ \A a \in 1 .. D : trailLevels[a] \in Nat
          /\ k \in Nat
      BY Sequences
    <2>2. e \in 0 .. D /\ (e < D => k <= trailLevels[e + 1])
      BY DEF Levels, OfLevel
    <2>3. \A a, c \in 1 .. D : a < c => trailLevels[a] < trailLevels[c]
      BY <2>1 DEF Levels
    <2> QED BY <2>1, <2>2, <2>3
  <1> HIDE DEF e, D
  <1>2. e \in Nat /\ e <= d /\ d < D
    BY <1>1 DEF e, D
  <1>3. e + 1 \in 1 .. D /\ d + 1 \in 1 .. D /\ e < D
    BY <1>1, <1>2
  <1>4. CASE e = d
    BY <1>1, <1>2, <1>4
  <1>5. CASE e < d
    <2>1. trailLevels[e + 1] < trailLevels[d + 1]
      <3>1. e + 1 < d + 1
        BY <1>1, <1>2, <1>5
      <3> QED BY <1>1, <1>3, <3>1
    <2> QED BY <1>1, <1>3, <2>1
  <1> QED BY <1>1, <1>2, <1>4, <1>5

\* The places of the levels that are kept stay.
LEMMA UndoKeepsLow ==
  ASSUME IInv, UndoLiteral, NEW k \in DOMAIN trail,
         Lev(trail, level, k) <= loc.backtrackLevel
  PROVE  /\ k \in DOMAIN trail' /\ k <= KeptTrail
         /\ trail'[k] = trail[k] /\ Lev(trail', level', k) = Lev(trail, level, k)
  <1>1. /\ loc.backtrackLevel \in Nat /\ loc.backtrackLevel < Len(trailLevels)
        /\ KeptTrail < Len(trail) /\ KeptTrail \in Nat
        /\ KeptTrail = trailLevels[loc.backtrackLevel + 1]
    <2>1. loc.backtrackLevel \in Nat /\ Len(trail) \in Nat
      BY Sequences DEF IInv, Types, Locals
    <2>2. /\ loc.backtrackLevel < Len(trailLevels) /\ Len(trail) > KeptTrail
          /\ KeptTrail = trailLevels[loc.backtrackLevel + 1]
      <3>1. /\ Len(trailLevels) > loc.backtrackLevel /\ Len(trail) > KeptTrail
            /\ KeptTrail = trailLevels[loc.backtrackLevel + 1]
        BY DEF UndoLiteral, Jumps, DecisionLevel, KeptTrail
      <3>2. Len(trailLevels) \in Nat
        BY Sequences DEF IInv
      <3> QED BY <2>1, <3>1, <3>2
    <2>3. KeptTrail \in Nat
      <3>1. loc.backtrackLevel + 1 \in DOMAIN trailLevels
        BY <2>1, <2>2, Sequences DEF IInv
      <3> QED BY <2>2, <3>1, Sequences DEF IInv
    <2> QED BY <2>1, <2>2, <2>3
  <1>2. k <= KeptTrail
    BY <1>1, LowPlaces DEF IInv
  <1>3. Popped
    BY UndoPops
  <1>4. k # Len(trail)
    BY <1>1, <1>2, Sequences DEF IInv
  <1> QED BY <1>2, <1>3, <1>4, PoppedTrail DEF IInv

\* A literal that is true up to a level stays so unless the backjump goes under that level.
LEMMA TrueStays ==
  ASSUME IInv, Next, NEW l, NEW d \in Nat, TrueBy(trail, level, l, d),
         UndoLiteral => d <= loc.backtrackLevel
  PROVE  TrueBy(trail', level', l, d)
  <1>1. PICK k \in DOMAIN trail : trail[k] = l /\ Lev(trail, level, k) <= d
    BY DEF TrueBy
  <1>2. CASE Still
    BY <1>1, <1>2 DEF Still, TrueBy
  <1>3. ASSUME NEW x, NEW r, Pushed(x, r) PROVE TrueBy(trail', level', l, d)
    BY <1>1, <1>3, PushedTrail DEF TrueBy, IInv
  <1>4. CASE UndoLiteral
    <2>1. Lev(trail, level, k) <= loc.backtrackLevel
      <3>1. Lev(trail, level, k) \in Nat
        <4>1. VarAt(trail, k) \in Var
          BY <1>1, Sequences DEF IInv
        <4> QED BY <4>1, CdclAssumption DEF IInv, Types, Lev, VarAt
      <3>2. loc.backtrackLevel \in Nat
        BY DEF IInv, Types, Locals
      <3> QED BY <1>1, <1>4, <3>1, <3>2
    <2> QED BY <1>1, <1>4, <2>1, UndoKeepsLow DEF TrueBy
  <1> QED BY <1>2, <1>3, <1>4, Moves

\* Every step keeps the literals of the unary clauses at level 0.
LEMMA UnaryKept ==
  ASSUME IInv, Next
  PROVE  Unary'
  <1> SUFFICES ASSUME NEW k \in DOMAIN clauses', Len(clauses'[k]) = 1,
                      Started' \/ (pc' = "build" /\ k < wlPos')
               PROVE  TrueBy(trail', level', clauses'[k][1], 0)
    BY DEF Unary
  <1>1. k \in DOMAIN clauses /\ clauses'[k] = clauses[k] /\ Len(clauses[k]) = 1
    <2>1. \A i \in DOMAIN clauses :
            /\ Len(clauses'[i]) = Len(clauses[i])
            /\ Len(clauses[i]) = 1 => clauses'[i] = clauses[i]
      BY ClausesGo
    <2>2. k \in DOMAIN clauses \/ (clauses'[k] = loc.learnt /\ Len(loc.learnt) > 1)
      BY ClausesGo
    <2>3. ~(Len(clauses'[k]) > 1)
      OBVIOUS
    <2> QED BY <2>1, <2>2, <2>3
  <1>2. ASSUME TrueBy(trail, level, clauses[k][1], 0)
        PROVE  TrueBy(trail', level', clauses'[k][1], 0)
    <2>1. 0 \in Nat /\ 0 <= loc.backtrackLevel
      BY DEF IInv, Types, Locals
    <2> QED BY <1>1, <1>2, <2>1, TrueStays
  <1>3. CASE Started \/ (pc = "build" /\ k < wlPos)
    BY <1>1, <1>2, <1>3 DEF IInv, Unary
  <1>4. CASE BuildClause /\ ~(k < wlPos)
    <2>1. pc = "build" /\ wlPos' = wlPos + 1 /\ pc' = pc /\ trailLevels' = trailLevels
      BY <1>4 DEF BuildClause
    <2>2. k = wlPos
      <3>1. k \in Nat /\ wlPos \in Nat
        BY <1>1, Sequences DEF IInv, Types
      <3>2. k < wlPos + 1
        BY <2>1 DEF Started
      <3> QED BY <1>4, <3>1, <3>2
    <2>3. Pushed(clauses[k][1], None)
      BY <1>1, <1>4, <2>2, BuildPushes
    <2>4. Len(trailLevels') = 0
      BY <2>1 DEF IInv, Queue, DecisionLevel
    <2> DEFINE n == Len(trail)
    <2>5. /\ n + 1 \in DOMAIN trail' /\ trail'[n + 1] = clauses[k][1]
          /\ Lev(trail', level', n + 1) = Len(trailLevels')
      BY <2>3, PushedTrail DEF IInv
    <2>6. Lev(trail', level', n + 1) <= 0
      BY <2>4, <2>5
    <2> HIDE DEF n
    <2> QED BY <1>1, <2>5, <2>6 DEF TrueBy
  <1>5. CASE EndOfBuild
    <2>1. pc = "build" /\ wlPos > Len(clauses)
      BY <1>5 DEF EndOfBuild
    <2>2. k < wlPos
      BY <1>1, <2>1, Sequences DEF IInv, Types
    <2> QED BY <1>3, <2>1, <2>2
  <1>6. CASE ~BuildClause /\ ~EndOfBuild
    <2>1. pc = "build" => pc' = "exit"
      BY <1>6 DEF Next, Exit, UndoLiteral, EndOfCancel, StartSearch,
         ContinueSearch, BudgetSpent, TakeLiteral, NothingToPropagate, ClauseSatisfied,
         MoveWatch, ClauseUnit, ClauseEmpty, EndOfWatches, SkipLiteral, SeeLiteral,
         ResolveReason, FindUip, Learn, DropAssigned, Decide, AllAssigned, Inspecting
    <2>2. pc # "exit"
      BY DEF Next, BuildClause, Exit, EndOfBuild, UndoLiteral, EndOfCancel, StartSearch,
         ContinueSearch, BudgetSpent, TakeLiteral, NothingToPropagate, ClauseSatisfied,
         MoveWatch, ClauseUnit, ClauseEmpty, EndOfWatches, SkipLiteral, SeeLiteral,
         ResolveReason, FindUip, Learn, DropAssigned, Decide, AllAssigned, Inspecting
    <2>3. Started
      BY <2>1, <2>2 DEF Started
    <2> QED BY <1>3, <2>3
  <1>7. CASE BuildClause /\ k < wlPos
    BY <1>3, <1>7 DEF BuildClause
  <1> QED BY <1>4, <1>5, <1>6, <1>7

-----------------------------------------------------------------------------
(***************************************************************************)
(* The reasons.                                                            *)
(***************************************************************************)
\* The levels that remain begin where they did.
LEMMA LevelsAgree ==
  ASSUME IInv, Next
  PROVE  \A d \in DOMAIN trailLevels' \cap DOMAIN trailLevels : trailLevels'[d] = trailLevels[d]
  <1>1. trailLevels \in Seq(Nat) /\ Len(trailLevels) \in Nat
    BY DEF IInv, Types
  <1>2. CASE EndOfCancel
    <2> DEFINE b == loc.backtrackLevel
    <2>1. trailLevels' = IF Len(trailLevels) > b THEN SubSeq(trailLevels, 1, b) ELSE trailLevels
      BY <1>2 DEF EndOfCancel, Jumps, DecisionLevel
    <2>2. b \in Nat
      BY DEF IInv, Types, Locals
    <2> QED BY <1>1, <2>1, <2>2
  <1>3. CASE Decide
    BY <1>1, <1>3 DEF Decide
  <1>4. CASE UndoLiteral
    BY <1>4 DEF UndoLiteral
  <1> QED BY <1>2, <1>3, <1>4, LevelMoves

\* A literal that stays keeps its reason.
LEMMA ReasonStays ==
  ASSUME IInv, Next, NEW k \in DOMAIN trail, k \in DOMAIN trail',
         \A j \in DOMAIN trail : j <= k => j \in DOMAIN trail' /\ trail'[j] = trail[j],
         Lev(trail', level', k) = Lev(trail, level, k),
         reason'[VarAt(trail', k)] = reason[VarAt(trail, k)]
  PROVE  LET r == reason'[VarAt(trail', k)]
         IN  IF r = None THEN Decided(trail', level', trailLevels', k)
                         ELSE Implied(trail', k, clauses'[r])
  <1> DEFINE r == reason[VarAt(trail, k)]
             e == Lev(trail, level, k)
  <1>1. k \in Nat /\ \A j \in DOMAIN trail : j \in Nat
    BY Sequences DEF IInv
  <1>2. trail'[k] = trail[k]
    BY <1>1
  <1>3. CASE r = None
    <2>1. Decided(trail, level, trailLevels, k)
      BY <1>3 DEF IInv, Reasons
    <2>2. ASSUME e > 0 PROVE k = trailLevels'[e] + 1
      <3>1. e \in 0 .. Len(trailLevels)
        BY DEF IInv, Levels, OfLevel
      <3>2. e \in 0 .. Len(trailLevels')
        <4>1. OfLevel(trail', trailLevels', k, Lev(trail', level', k))
          BY LevelsKept DEF Levels
        <4> QED BY <4>1 DEF OfLevel
      <3>3. trailLevels' \in Seq(Nat)
        <4>1. \/ trailLevels' = trailLevels \/ EndOfCancel \/ Decide
          BY LevelMoves DEF UndoLiteral
        <4>2. trailLevels \in Seq(Nat) /\ loc.backtrackLevel \in Nat /\ trail \in Seq(Lit)
          BY DEF IInv, Types, Locals
        <4>3. CASE EndOfCancel
          BY <4>2, <4>3 DEF EndOfCancel, Jumps, DecisionLevel
        <4>4. CASE Decide
          BY <4>2, <4>4 DEF Decide
        <4> QED BY <4>1, <4>2, <4>3, <4>4
      <3> HIDE DEF e
      <3>4. e \in DOMAIN trailLevels /\ e \in DOMAIN trailLevels'
        <4>1. DOMAIN trailLevels = 1 .. Len(trailLevels) /\ DOMAIN trailLevels' = 1 .. Len(trailLevels')
          BY <3>3, Sequences DEF IInv
        <4> QED BY <2>2, <3>1, <3>2, <4>1
      <3>5. trailLevels'[e] = trailLevels[e]
        BY <3>4, LevelsAgree
      <3>6. k = trailLevels[e] + 1
        BY <2>1, <2>2 DEF Decided, e
      <3> QED BY <3>5, <3>6
    <2> QED BY <1>3, <2>2 DEF Decided
  <1>4. CASE r # None
    <2>1. Implied(trail, k, clauses[r])
      BY <1>4 DEF IInv, Reasons
    <2>2. r \in DOMAIN clauses
      <3>1. VarAt(trail, k) \in Var
        BY Sequences DEF IInv
      <3>2. r \in 0 .. Len(clauses)
        BY <3>1 DEF IInv, Types
      <3> QED BY <1>4, <3>2, Sequences DEF IInv, None
    <2>3. clauses'[r] = clauses[r]
      <3>1. OnTrail(trail, clauses[r][1])
        BY <2>1 DEF Implied, OnTrail
      <3> QED BY <2>2, <3>1, ClausesGo
    <2>4. ASSUME NEW i \in 2 .. Len(clauses[r]) PROVE FalseBefore(trail', clauses[r][i], k)
      <3>1. PICK j \in DOMAIN trail : j < k /\ trail[j] = NotLit(clauses[r][i])
        BY <2>1 DEF Implied, FalseBefore
      <3>2. j <= k
        BY <1>1, <3>1
      <3> QED BY <3>1, <3>2 DEF FalseBefore
    <2> HIDE DEF r
    <2>5. Implied(trail', k, clauses[r])
      BY <1>2, <2>1, <2>4 DEF Implied
    <2> QED BY <1>4, <2>3, <2>5 DEF r
  <1> QED BY <1>3, <1>4

\* The literal that is pushed has a reason, or is a decision.
LEMMA ReasonOfPushed ==
  ASSUME IInv, Next, NEW l, NEW r, Pushed(l, r),
         \/ BuildClause /\ l = clauses[wlPos][1] /\ r = None /\ Len(clauses[wlPos]) = 1
         \/ ClauseUnit /\ l = Inspected[1] /\ r = WatchList[wlPos]
         \/ Learn /\ l = loc.learnt[1] /\ r = IF Len(loc.learnt) = 1 THEN None ELSE Len(clauses) + 1
         \/ Decide /\ l = VarToLit(varHeap.heap[1], polarity[varHeap.heap[1]]) /\ r = None
  PROVE  IF r = None THEN Decided(trail', level', trailLevels', Len(trail) + 1)
                     ELSE Implied(trail', Len(trail) + 1, clauses'[r])
  <1> DEFINE n == Len(trail)
             k == n + 1
  <1>1. /\ k \in DOMAIN trail' /\ trail'[k] = l /\ Lev(trail', level', k) = Len(trailLevels')
        /\ \A j \in DOMAIN trail : j \in DOMAIN trail' /\ trail'[j] = trail[j] /\ j < k
        /\ n \in Nat /\ l \in Lit
    BY PushedTrail DEF IInv
  <1> HIDE DEF k
  <1>2. \A m : OnTrail(trail, NotLit(m)) => FalseBefore(trail', m, k)
    BY <1>1 DEF OnTrail, FalseBefore
  <1>3. CASE BuildClause /\ r = None
    <2>1. Len(trailLevels') = 0
      BY <1>3 DEF BuildClause, IInv, Queue, DecisionLevel
    <2> QED BY <1>1, <1>3, <2>1 DEF Decided, k
  <1>4. CASE ClauseUnit /\ l = Inspected[1] /\ r = WatchList[wlPos]
    <2> DEFINE L == LitToPropagate
    <2>1. /\ Inspecting /\ NewWatches = {} /\ clauses' = [clauses EXCEPT ![r] = Inspected]
      BY <1>4 DEF ClauseUnit
    <2>2. /\ r \in DOMAIN clauses /\ L \in Lit /\ toPropagate \in DOMAIN trail
      BY <1>4, <2>1, InspectedClause DEF IInv
    <2>3. /\ Inspected \in Clause /\ Len(Inspected) > 1 /\ Inspected[2] = NotLit(L)
          /\ Len(Inspected) \in Nat /\ DOMAIN Inspected = 1 .. Len(Inspected)
          /\ \A i \in DOMAIN Inspected : Inspected[i] \in Lit
      BY <2>1, InspectedClause, InspectedIsWatched, Clauses DEF IInv
    <2>4. OnTrail(trail, NotLit(Inspected[2]))
      <3>1. NotLit(NotLit(L)) = L
        BY <2>2, Literals
      <3> QED BY <2>2, <2>3, <3>1 DEF OnTrail, LitToPropagate
    <2>5. ASSUME NEW i \in 3 .. Len(Inspected) PROVE OnTrail(trail, NotLit(Inspected[i]))
      <3>1. ValueLit(Inspected[i]) = False
        BY <2>1 DEF NewWatches
      <3>2. Inspected[i] \in Lit
        BY <2>3
      <3> QED BY <3>1, <3>2, ValueOfLiteral DEF IInv
    <2>6. \A i \in 2 .. Len(Inspected) : FalseBefore(trail', Inspected[i], k)
      <3> TAKE i \in 2 .. Len(Inspected)
      <3>1. i = 2 \/ i \in 3 .. Len(Inspected)
        BY <2>3
      <3>2. OnTrail(trail, NotLit(Inspected[i]))
        BY <2>4, <2>5, <3>1
      <3> QED BY <1>2, <3>2
    <2>7. clauses'[r] = Inspected /\ r # None
      BY <2>1, <2>2, Sequences DEF None, IInv
    <2> QED BY <1>1, <1>4, <2>3, <2>6, <2>7 DEF Implied, k
  <1>5. CASE Learn /\ l = loc.learnt[1] /\ r = IF Len(loc.learnt) = 1 THEN None ELSE Len(clauses) + 1
    <2> DEFINE c == loc.learnt
    <2>1. /\ pc = "learn" /\ trailLevels' = trailLevels
      BY <1>5 DEF Learn
    <2>2. /\ c # <<>> /\ Len(trailLevels) = loc.backtrackLevel
          /\ \A i \in 2 .. Len(c) : OnTrail(trail, NotLit(c[i]))
          /\ Len(c) = 1 => loc.backtrackLevel = 0
      BY <2>1 DEF IInv, Learning, DecisionLevel, OnTrail
    <2>3. c \in Clause /\ Len(c) \in Nat /\ Len(c) > 0
      <3>1. c \in Clause
        BY <2>2 DEF IInv, Types, Locals, Clause
      <3> QED BY <3>1, Clauses
    <2>4. CASE Len(c) = 1
      <3>1. r = None /\ Len(trailLevels') = 0
        BY <1>5, <2>1, <2>2, <2>4
      <3> QED BY <1>1, <3>1 DEF Decided, k
    <2> HIDE DEF c
    <2>5. CASE Len(c) # 1
      <3> DEFINE m == Len(c)
      <3>0. m \in Nat /\ m > 0 /\ m # 1
        BY <2>3, <2>5
      <3> HIDE DEF m
      <3>1. m > 1
        BY <3>0
      <3> USE DEF m
      <3>2. r = Len(clauses) + 1 /\ clauses'[r] = c /\ r # None
        <4>1. Len(loc.learnt) > 1
          BY <3>1 DEF c
        <4>2. clauses'[Len(clauses) + 1] = c /\ Len(clauses) \in Nat
          BY <1>5, <4>1, AppendedClause, Sequences DEF IInv, c
        <4> QED BY <1>5, <2>5, <4>2 DEF c, None
      <3>3. \A i \in 2 .. Len(c) : FalseBefore(trail', c[i], k)
        BY <1>2, <2>2
      <3>4. c[1] = trail'[k]
        BY <1>1, <1>5 DEF c
      <3> QED BY <3>1, <3>2, <3>3, <3>4 DEF Implied, k
    <2> QED BY <2>4, <2>5
  <1>6. CASE Decide /\ r = None
    <2>1. trailLevels' = Append(trailLevels, n) /\ trailLevels \in Seq(Nat)
      BY <1>6 DEF Decide, IInv, Types
    <2>2. Len(trailLevels') = Len(trailLevels) + 1 /\ trailLevels'[Len(trailLevels) + 1] = n
      BY <1>1, <2>1
    <2> QED BY <1>1, <1>6, <2>2 DEF Decided, k
  <1> QED BY <1>3, <1>4, <1>5, <1>6

\* Every step keeps the reasons.
LEMMA ReasonsKept ==
  ASSUME IInv, Next
  PROVE  Reasons'
  <1> DEFINE G(k) == LET r == reason'[VarAt(trail', k)]
                     IN  IF r = None THEN Decided(trail', level', trailLevels', k)
                                     ELSE Implied(trail', k, clauses'[r])
  <1>1. CASE Still
    <2>1. ASSUME NEW k \in DOMAIN trail PROVE G(k)
      BY <1>1, ReasonStays DEF Still
    <2> QED BY <1>1, <2>1 DEF Reasons, Still
  <1>2. CASE UndoLiteral /\ Popped
    <2> DEFINE n == Len(trail)
    <2>1. /\ n \in Nat /\ DOMAIN trail = 1 .. n /\ DOMAIN trail' = 1 .. n - 1
          /\ \A k \in DOMAIN trail' :
                  /\ k \in DOMAIN trail /\ trail'[k] = trail[k]
                  /\ Lev(trail', level', k) = Lev(trail, level, k)
                  /\ reason'[VarAt(trail', k)] = reason[VarAt(trail, k)]
      BY <1>2, PoppedTrail DEF IInv
    <2> HIDE DEF n
    <2>2. ASSUME NEW k \in DOMAIN trail' PROVE G(k)
      <3>1. \A j \in DOMAIN trail : j <= k => j \in DOMAIN trail' /\ trail'[j] = trail[j]
        BY <2>1
      <3> QED BY <2>1, <3>1, ReasonStays
    <2> QED BY <2>2 DEF Reasons
  <1>3. ASSUME NEW l, NEW r, Pushed(l, r),
               \/ BuildClause /\ l = clauses[wlPos][1] /\ r = None /\ Len(clauses[wlPos]) = 1
               \/ ClauseUnit /\ l = Inspected[1] /\ r = WatchList[wlPos]
               \/ Learn /\ l = loc.learnt[1] /\ r = IF Len(loc.learnt) = 1 THEN None ELSE Len(clauses) + 1
               \/ Decide /\ l = VarToLit(varHeap.heap[1], polarity[varHeap.heap[1]]) /\ r = None
        PROVE  Reasons'
    <2> DEFINE n == Len(trail)
    <2>1. /\ \A k \in DOMAIN trail' : k \in DOMAIN trail \/ k = n + 1
          /\ \A k \in DOMAIN trail :
               /\ k \in DOMAIN trail' /\ trail'[k] = trail[k]
               /\ Lev(trail', level', k) = Lev(trail, level, k)
               /\ reason'[VarAt(trail', k)] = reason[VarAt(trail, k)]
          /\ VarAt(trail', n + 1) = LitToVar(l) /\ reason'[LitToVar(l)] = r
      BY <1>3, PushedTrail DEF IInv
    <2>2. ASSUME NEW k \in DOMAIN trail PROVE G(k)
      BY <2>1, ReasonStays
    <2>3. IF r = None THEN Decided(trail', level', trailLevels', n + 1)
                      ELSE Implied(trail', n + 1, clauses'[r])
      BY <1>3, ReasonOfPushed
    <2>4. G(n + 1)
      BY <2>1, <2>3
    <2> HIDE DEF n
    <2> QED BY <2>1, <2>2, <2>4 DEF Reasons
  <1> QED BY <1>1, <1>2, <1>3, Moves

-----------------------------------------------------------------------------
(***************************************************************************)
(* Counting the entries of a clause in a list of watches.                  *)
(***************************************************************************)
LEMMA OccurrencesFinite ==
  ASSUME NEW S, NEW s \in Seq(S), NEW k
  PROVE  IsFiniteSet(Occurrences(s, k)) /\ Cardinality(Occurrences(s, k)) \in Nat
  <1>1. Len(s) \in Nat /\ DOMAIN s = 1 .. Len(s)
    OBVIOUS
  <1>2. 1 \in Int /\ Len(s) \in Int
    BY <1>1
  <1>3. IsFiniteSet(1 .. Len(s))
    BY <1>2, FS_Interval
  <1>4. Occurrences(s, k) \in SUBSET (1 .. Len(s))
    BY <1>1 DEF Occurrences
  <1> HIDE DEF Occurrences
  <1>5. IsFiniteSet(Occurrences(s, k))
    BY <1>3, <1>4, FS_Subset
  <1> QED BY <1>5, FS_CardinalityType

\* Occurrences after an Append.
LEMMA CountAppend ==
  ASSUME NEW S, NEW s \in Seq(S), NEW x \in S, NEW k
  PROVE  /\ Append(s, x) \in Seq(S)
         /\ Cardinality(Occurrences(Append(s, x), k))
            = Cardinality(Occurrences(s, k)) + IF x = k THEN 1 ELSE 0
  <1> DEFINE n == Len(s)
             t == Append(s, x)
  <1>1. /\ n \in Nat /\ DOMAIN s = 1 .. n /\ DOMAIN t = 1 .. n + 1 /\ t \in Seq(S)
        /\ t[n + 1] = x /\ \A i \in 1 .. n : t[i] = s[i]
    OBVIOUS
  <1> HIDE DEF n, t
  <1>2. n + 1 \notin Occurrences(s, k)
    BY <1>1 DEF Occurrences
  <1>3. Occurrences(t, k) = IF x = k THEN Occurrences(s, k) \cup {n + 1} ELSE Occurrences(s, k)
    BY <1>1 DEF Occurrences
  <1>4. IsFiniteSet(Occurrences(s, k)) /\ Cardinality(Occurrences(s, k)) \in Nat
    BY OccurrencesFinite
  <1>5. CASE x = k
    BY <1>1, <1>2, <1>3, <1>4, <1>5, FS_AddElement DEF t
  <1>6. CASE x # k
    BY <1>1, <1>3, <1>4, <1>6 DEF t
  <1> QED BY <1>5, <1>6

\* The sequence without its p-th element.
LEMMA RemoveAtFacts ==
  ASSUME NEW S, NEW s \in Seq(S), NEW p \in DOMAIN s
  PROVE  LET t == RemoveAt(s, p)
             n == Len(s)
         IN  /\ t \in Seq(S) /\ n \in Nat /\ p \in 1 .. n /\ DOMAIN s = 1 .. n
             /\ Len(t) = n - 1 /\ DOMAIN t = 1 .. n - 1
             /\ \A i \in 1 .. n - 1 : t[i] = s[IF i < p THEN i ELSE i + 1]
  <1> DEFINE n == Len(s)
             a == SubSeq(s, 1, p - 1)
             b == SubSeq(s, p + 1, n)
  <1>1. n \in Nat /\ DOMAIN s = 1 .. n /\ p \in 1 .. n
    OBVIOUS
  <1>2. /\ a \in Seq(S) /\ Len(a) = p - 1
        /\ \A i \in 1 .. p - 1 : a[i] = s[i]
    BY <1>1
  <1>3. b \in Seq(S) /\ Len(b) = n - p
    BY <1>1
  <1>4. \A i \in 1 .. n - p : b[i] = s[p + i]
    BY <1>1
  <1>5. RemoveAt(s, p) = a \o b
    BY DEF RemoveAt
  <1> HIDE DEF n, a, b
  <1>6. a \o b \in Seq(S) /\ Len(a \o b) = n - 1 /\ DOMAIN (a \o b) = 1 .. n - 1
    BY <1>1, <1>2, <1>3
  <1>7. \A i \in 1 .. n - 1 : (a \o b)[i] = IF i < p THEN a[i] ELSE b[i - (p - 1)]
    BY <1>1, <1>2, <1>3
  <1>8. ASSUME NEW i \in 1 .. n - 1
        PROVE  (a \o b)[i] = s[IF i < p THEN i ELSE i + 1]
    <2>1. CASE i < p
      <3>1. i \in 1 .. p - 1
        BY <1>1, <2>1
      <3> QED BY <1>2, <1>7, <2>1, <3>1
    <2>2. CASE ~(i < p)
      <3>1. i - (p - 1) \in 1 .. n - p /\ p + (i - (p - 1)) = i + 1
        BY <1>1, <2>2
      <3> QED BY <1>4, <1>7, <2>2, <3>1
    <2> QED BY <2>1, <2>2
  <1> QED BY <1>1, <1>5, <1>6, <1>8 DEF n

\* Occurrences after a RemoveAt.
LEMMA CountRemoveAt ==
  ASSUME NEW S, NEW s \in Seq(S), NEW p \in DOMAIN s, NEW k
  PROVE  Cardinality(Occurrences(s, k))
         = Cardinality(Occurrences(RemoveAt(s, p), k)) + IF s[p] = k THEN 1 ELSE 0
  <1> DEFINE t == RemoveAt(s, p)
             n == Len(s)
             f == [i \in Occurrences(t, k) |-> IF i < p THEN i ELSE i + 1]
             A == Occurrences(t, k)
             B == Occurrences(s, k) \ {p}
  <1>1. /\ t \in Seq(S) /\ n \in Nat /\ p \in 1 .. n /\ DOMAIN s = 1 .. n /\ DOMAIN t = 1 .. n - 1
        /\ \A i \in 1 .. n - 1 : t[i] = s[IF i < p THEN i ELSE i + 1]
    BY RemoveAtFacts
  <1> HIDE DEF t, n
  <1>2. \A i : i \in A <=> i \in 1 .. n - 1 /\ s[IF i < p THEN i ELSE i + 1] = k
    BY <1>1 DEF Occurrences
  <1>3. \A i : i \in B <=> i \in 1 .. n /\ i # p /\ s[i] = k
    BY <1>1 DEF Occurrences
  <1> HIDE DEF A, B
  <1>4. /\ DOMAIN f = A /\ \A i \in A : f[i] = IF i < p THEN i ELSE i + 1
        /\ \A i \in A : i \in 1 .. n - 1
    BY <1>2 DEF A
  <1>5. \A i \in A : f[i] \in B
    BY <1>1, <1>2, <1>3, <1>4
  <1>6. f \in [A -> B]
    BY <1>4, <1>5 DEF A
  <1>7. \A i, j \in A : f[i] = f[j] => i = j
    BY <1>1, <1>4
  <1>8. ASSUME NEW j \in B PROVE \E i \in A : f[i] = j
    <2>1. j \in 1 .. n /\ j # p /\ s[j] = k
      BY <1>3
    <2>2. CASE j < p
      <3>1. j \in A
        BY <1>1, <1>2, <2>1, <2>2
      <3> QED BY <1>4, <2>2, <3>1
    <2>3. CASE ~(j < p)
      <3>1. j - 1 \in 1 .. n - 1 /\ ~(j - 1 < p) /\ (j - 1) + 1 = j
        BY <1>1, <2>1, <2>3
      <3>2. j - 1 \in A
        BY <1>2, <2>1, <3>1
      <3>3. f[j - 1] = j
        BY <1>4, <3>1, <3>2
      <3> QED BY <3>2, <3>3
    <2> QED BY <2>2, <2>3
  <1> HIDE DEF f
  <1>9. ExistsBijection(A, B)
    <2>1. f \in Injection(A, B)
      BY <1>6, <1>7 DEF Injection, IsInjective
    <2>2. f \in Surjection(A, B)
      BY <1>6, <1>8 DEF Surjection
    <2> QED BY <2>1, <2>2 DEF ExistsBijection, Bijection
  <1>10. IsFiniteSet(A) /\ Cardinality(A) \in Nat
    BY <1>1, OccurrencesFinite DEF A
  <1>11. Cardinality(B) = Cardinality(A)
    BY <1>9, <1>10, FS_Bijection
  <1>12. /\ IsFiniteSet(Occurrences(s, k)) /\ Cardinality(Occurrences(s, k)) \in Nat
         /\ p \in Occurrences(s, k) <=> s[p] = k
    <2>1. p \in Occurrences(s, k) <=> s[p] = k
      BY DEF Occurrences
    <2> QED BY <2>1, OccurrencesFinite
  <1>13. Cardinality(B) = IF s[p] = k THEN Cardinality(Occurrences(s, k)) - 1
                                      ELSE Cardinality(Occurrences(s, k))
    BY <1>12, FS_RemoveElement DEF B
  <1> QED BY <1>10, <1>11, <1>12, <1>13 DEF A, t

\* A clause is in a list once or twice, by its first two literals.
LEMMA PlacesCount ==
  ASSUME NEW c \in Clause, NEW l \in Lit
  PROVE  Cardinality(Places(c, l)) = (IF c[1] = NotLit(l) THEN 1 ELSE 0)
                                     + (IF Len(c) > 1 /\ c[2] = NotLit(l) THEN 1 ELSE 0)
  <1>1. DOMAIN c = 1 .. Len(c) /\ Len(c) \in Nat /\ Len(c) > 0
    BY Clauses
  <1>2. 1 \in DOMAIN c /\ (2 \in DOMAIN c <=> Len(c) > 1)
    BY <1>1
  <1> DEFINE P == c[1] = NotLit(l)
             Q == Len(c) > 1 /\ c[2] = NotLit(l)
  <1>3. \A i : i \in Places(c, l) <=> (i = 1 /\ P) \/ (i = 2 /\ Q)
    BY <1>2 DEF Places
  <1>4. Cardinality({1, 2}) = 2
    <2>1. {1, 2} = {1} \cup {2}
      OBVIOUS
    <2>2. IsFiniteSet({1}) /\ Cardinality({1}) = 1 /\ 2 \notin {1}
      BY FS_Singleton
    <2> QED BY <2>1, <2>2, FS_AddElement
  <1> HIDE DEF P, Q
  <1>5. CASE P /\ Q
    <2>1. Places(c, l) = {1, 2}
      BY <1>3, <1>5
    <2> QED BY <1>4, <1>5, <2>1 DEF P, Q
  <1>6. CASE P /\ ~Q
    <2>1. Places(c, l) = {1}
      BY <1>3, <1>6
    <2>2. Cardinality(Places(c, l)) = 1
      BY <2>1, FS_Singleton
    <2> QED BY <1>6, <2>2 DEF P, Q
  <1>7. CASE ~P /\ Q
    <2>1. Places(c, l) = {2}
      BY <1>3, <1>7
    <2>2. Cardinality(Places(c, l)) = 1
      BY <2>1, FS_Singleton
    <2> QED BY <1>7, <2>2 DEF P, Q
  <1>8. CASE ~P /\ ~Q
    <2>1. Places(c, l) = {}
      BY <1>3, <1>8
    <2> QED BY <1>8, <2>1, FS_EmptySet DEF P, Q
  <1> QED BY <1>5, <1>6, <1>7, <1>8

-----------------------------------------------------------------------------
(***************************************************************************)
(* The lists of watches.                                                   *)
(***************************************************************************)
LEMMA SeqMono ==
  ASSUME NEW S, NEW T, S \subseteq T, NEW s \in Seq(S)
  PROVE  s \in Seq(T)
  <1>1. Len(s) \in Nat /\ s \in [1 .. Len(s) -> S]
    OBVIOUS
  <1>2. s \in [1 .. Len(s) -> T]
    BY <1>1
  <1> QED BY <1>1, <1>2

\* W with one more entry k, or without the one at p, in the list of a.
With(W, a, k)    == [W EXCEPT ![a] = Append(@, k)]
Without(W, a, p) == [W EXCEPT ![a] = RemoveAt(@, p)]

\* How often x is in the list of l, and what V has more than W.
Entries(W, l, x) == Cardinality(Occurrences(W[l], x))

Gains(V, W, a, k) ==
  \A l \in Lit : \A x :
    /\ l = a /\ x = k => Entries(V, l, x) = Entries(W, l, x) + 1
    /\ ~(l = a /\ x = k) => Entries(V, l, x) = Entries(W, l, x)

\* Counting is defined.
LEMMA EntriesAreNumbers ==
  ASSUME NEW S, NEW W \in [Lit -> Seq(S)]
  PROVE  \A l \in Lit : \A x : Entries(W, l, x) \in Nat
  <1>1. \A l \in Lit : W[l] \in Seq(S)
    OBVIOUS
  <1> QED BY <1>1, OccurrencesFinite DEF Entries

\* An Append is one more entry.
LEMMA EntryAppended ==
  ASSUME NEW S, NEW W \in [Lit -> Seq(S)], NEW a \in Lit, NEW k \in S
  PROVE  With(W, a, k) \in [Lit -> Seq(S)] /\ Gains(With(W, a, k), W, a, k)
  <1> DEFINE s == Append(W[a], k)
             V == With(W, a, k)
  <1>1. W[a] \in Seq(S)
    OBVIOUS
  <1>2. /\ s \in Seq(S)
        /\ \A x : Cardinality(Occurrences(s, x))
                  = Cardinality(Occurrences(W[a], x)) + IF k = x THEN 1 ELSE 0
    BY <1>1, CountAppend
  <1>3. V = [W EXCEPT ![a] = s]
    BY DEF With
  <1> HIDE DEF s, V
  <1>4. V \in [Lit -> Seq(S)]
    BY <1>2, <1>3
  <1>5. ASSUME NEW l \in Lit, NEW x
        PROVE  /\ l = a /\ x = k => Entries(V, l, x) = Entries(W, l, x) + 1
               /\ ~(l = a /\ x = k) => Entries(V, l, x) = Entries(W, l, x)
    <2>1. CASE l = a
      <3>1. V[l] = s /\ W[l] = W[a]
        BY <1>3, <2>1
      <3>2. Cardinality(Occurrences(W[a], x)) \in Nat
        BY <1>1, OccurrencesFinite
      <3> QED BY <1>2, <2>1, <3>1, <3>2 DEF Entries
    <2>2. CASE l # a
      <3>1. V[l] = W[l]
        BY <1>3, <2>2
      <3> QED BY <2>2, <3>1 DEF Entries
    <2> QED BY <2>1, <2>2
  <1> QED BY <1>4, <1>5 DEF Gains, V

\* A RemoveAt is one less.
LEMMA EntryRemoved ==
  ASSUME NEW S, NEW W \in [Lit -> Seq(S)], NEW a \in Lit, NEW p \in DOMAIN W[a]
  PROVE  Without(W, a, p) \in [Lit -> Seq(S)] /\ Gains(W, Without(W, a, p), a, W[a][p])
  <1> DEFINE s == RemoveAt(W[a], p)
             V == Without(W, a, p)
             k == W[a][p]
  <1>1. W[a] \in Seq(S)
    OBVIOUS
  <1>2. /\ s \in Seq(S)
        /\ \A x : Cardinality(Occurrences(W[a], x))
                  = Cardinality(Occurrences(s, x)) + IF k = x THEN 1 ELSE 0
    BY <1>1, CountRemoveAt, RemoveAtFacts
  <1>3. V = [W EXCEPT ![a] = s]
    BY DEF Without
  <1> HIDE DEF s, V, k
  <1>4. V \in [Lit -> Seq(S)]
    BY <1>2, <1>3
  <1>5. ASSUME NEW l \in Lit, NEW x
        PROVE  /\ l = a /\ x = k => Entries(W, l, x) = Entries(V, l, x) + 1
               /\ ~(l = a /\ x = k) => Entries(W, l, x) = Entries(V, l, x)
    <2>1. CASE l = a
      <3>1. V[l] = s /\ W[l] = W[a]
        BY <1>3, <2>1
      <3>2. Cardinality(Occurrences(s, x)) \in Nat
        BY <1>2, OccurrencesFinite
      <3> QED BY <1>2, <2>1, <3>1, <3>2 DEF Entries
    <2>2. CASE l # a
      <3>1. V[l] = W[l]
        BY <1>3, <2>2
      <3> QED BY <2>2, <3>1 DEF Entries
    <2> QED BY <2>1, <2>2
  <1> QED BY <1>4, <1>5 DEF Gains, V, k

\* A clause that is attached is in the lists of its places.
LEMMA AttachedLists ==
  ASSUME Types, NEW c \in Clause, NEW m \in Nat, Len(clauses) <= m, NEW k \in 1 .. m
  PROVE  /\ Attached(c, k) \in [Lit -> Seq(1 .. m)]
         /\ \A l \in Lit : \A x :
              /\ x = k => Entries(Attached(c, k), l, x)
                          = Entries(watches, l, x) + Cardinality(Places(c, l))
              /\ x # k => Entries(Attached(c, k), l, x) = Entries(watches, l, x)
  <1> DEFINE a == NotLit(c[1])
             b == NotLit(c[2])
             V == With(watches, a, k)
             U == With(V, b, k)
  <1>1. /\ Len(c) \in Nat /\ Len(c) > 0 /\ c[1] \in Lit /\ a \in Lit
        /\ Len(c) > 1 => c[2] \in Lit /\ b \in Lit
    <2>1. /\ Len(c) \in Nat /\ Len(c) > 0 /\ DOMAIN c = 1 .. Len(c)
          /\ \A i \in DOMAIN c : c[i] \in Lit
      BY Clauses
    <2>2. 1 \in DOMAIN c /\ (Len(c) > 1 => 2 \in DOMAIN c)
      BY <2>1
    <2> QED BY <2>1, <2>2, Literals
  <1>2. watches \in [Lit -> Seq(1 .. m)]
    <2>1. Len(clauses) \in Nat /\ watches \in [Lit -> Seq(1 .. Len(clauses))]
      BY Sequences DEF Types
    <2>2. 1 .. Len(clauses) \subseteq 1 .. m
      BY <2>1
    <2>3. \A l \in Lit : watches[l] \in Seq(1 .. m)
      BY <2>1, <2>2, SeqMono
    <2> QED BY <2>1, <2>3
  <1>3. Attached(c, k) = IF Len(c) = 1 THEN V ELSE U
    BY DEF Attached, With
  <1>4. V \in [Lit -> Seq(1 .. m)] /\ Gains(V, watches, a, k)
    BY <1>1, <1>2, EntryAppended
  <1>5. \A l \in Lit : \A x : Entries(watches, l, x) \in Nat
    BY <1>2, EntriesAreNumbers
  <1>6. \A l \in Lit :
           Cardinality(Places(c, l)) = (IF c[1] = NotLit(l) THEN 1 ELSE 0)
                                     + (IF Len(c) > 1 /\ c[2] = NotLit(l) THEN 1 ELSE 0)
    BY PlacesCount
  <1>7. \A l \in Lit : (c[1] = NotLit(l) <=> l = a) /\ (Len(c) > 1 => (c[2] = NotLit(l) <=> l = b))
    BY <1>1, Literals
  <1>8. CASE Len(c) = 1
    <2>1. Attached(c, k) = V
      BY <1>3, <1>8
    <2> HIDE DEF V, a, b
    <2>2. \A l \in Lit : Cardinality(Places(c, l)) = IF l = a THEN 1 ELSE 0
      BY <1>6, <1>7, <1>8
    <2> QED BY <1>4, <1>5, <2>1, <2>2 DEF Gains
  <1>9. CASE Len(c) > 1
    <2>1. Attached(c, k) = U
      BY <1>3, <1>9
    <2> HIDE DEF V
    <2>2. U \in [Lit -> Seq(1 .. m)] /\ Gains(U, V, b, k)
      BY <1>1, <1>4, <1>9, EntryAppended
    <2> HIDE DEF U, a, b
    <2>3. \A l \in Lit : Cardinality(Places(c, l))
                         = (IF l = a THEN 1 ELSE 0) + (IF l = b THEN 1 ELSE 0)
      BY <1>6, <1>7, <1>9
    <2>4. ASSUME NEW l \in Lit, NEW x
          PROVE  /\ x = k => Entries(U, l, x) = Entries(watches, l, x) + Cardinality(Places(c, l))
                 /\ x # k => Entries(U, l, x) = Entries(watches, l, x)
      <3> DEFINE u == Entries(U, l, x)
                 v == Entries(V, l, x)
                 w == Entries(watches, l, x)
                 p == Cardinality(Places(c, l))
      <3>1. /\ l = b /\ x = k => u = v + 1
            /\ ~(l = b /\ x = k) => u = v
        BY <2>2 DEF Gains
      <3>2. /\ l = a /\ x = k => v = w + 1
            /\ ~(l = a /\ x = k) => v = w
        BY <1>4 DEF Gains
      <3>3. w \in Nat /\ p = (IF l = a THEN 1 ELSE 0) + (IF l = b THEN 1 ELSE 0)
        BY <1>5, <2>3
      <3> HIDE DEF u, v, w, p
      <3>4. (x = k => u = w + p) /\ (x # k => u = w)
        BY <3>1, <3>2, <3>3
      <3> QED BY <3>4 DEF u, w, p
    <2> QED BY <2>1, <2>2, <2>4
  <1>10. Len(c) = 1 \/ Len(c) > 1
    BY <1>1
  <1> QED BY <1>8, <1>9, <1>10

\* The exchange of the first two literals does not change who watches.
LEMMA InspectedPlaces ==
  ASSUME IInv, Inspecting, NEW l \in Lit
  PROVE  Cardinality(Places(Inspected, l)) = Cardinality(Places(clauses[WatchList[wlPos]], l))
  <1> DEFINE c == clauses[WatchList[wlPos]]
  <1>1. /\ c \in Clause /\ Len(c) > 1 /\ Len(Inspected) = Len(c) /\ Inspected \in Clause
        /\ \/ Inspected[1] = c[1] /\ Inspected[2] = c[2]
           \/ Inspected[1] = c[2] /\ Inspected[2] = c[1]
    BY InspectedLiterals DEF IInv
  <1> HIDE DEF c
  <1>2. Cardinality(Places(c, l)) = (IF c[1] = NotLit(l) THEN 1 ELSE 0)
                                    + (IF c[2] = NotLit(l) THEN 1 ELSE 0)
    BY <1>1, PlacesCount
  <1>3. Cardinality(Places(Inspected, l)) = (IF Inspected[1] = NotLit(l) THEN 1 ELSE 0)
                                            + (IF Inspected[2] = NotLit(l) THEN 1 ELSE 0)
    BY <1>1, PlacesCount
  <1>4. Cardinality(Places(c, l)) = Cardinality(Places(Inspected, l))
    BY <1>1, <1>2, <1>3
  <1> QED BY <1>4 DEF c

\* What MoveWatch makes of the clause and of the lists.
LEMMA MovedLists ==
  ASSUME IInv, MoveWatch
  PROVE  /\ watches' \in [Lit -> Seq(1 .. Len(clauses))]
         /\ \A l \in Lit, x \in DOMAIN clauses :
              /\ clauses'[x] \in Clause
              /\ Entries(watches, l, x) = Cardinality(Places(clauses[x], l))
                 => Entries(watches', l, x) = Cardinality(Places(clauses'[x], l))
  <1> DEFINE w == WatchList[wlPos]
             L == LitToPropagate
  <1>1. /\ L \in Lit /\ w \in DOMAIN clauses /\ wlPos \in DOMAIN watches[L] /\ w = watches[L][wlPos]
        /\ Inspected \in Clause /\ Len(Inspected) > 1 /\ Inspected[2] = NotLit(L)
        /\ Len(clauses) \in Nat /\ DOMAIN clauses = 1 .. Len(clauses)
        /\ \A x \in DOMAIN clauses : clauses[x] \in Clause
    BY InspectedClause, InspectedIsWatched, Sequences DEF IInv, MoveWatch, WatchList
  <1>2. PICK k \in 3 .. Len(Inspected) :
           /\ k \in DOMAIN Inspected
           /\ clauses' = [clauses EXCEPT ![w] = Moved(k)]
           /\ watches' = [[watches EXCEPT ![L] = RemoveAt(@, wlPos)]
                                   EXCEPT ![NotLit(Inspected[k])] = Append(@, w)]
           /\ Moved(k) \in Clause /\ Len(Moved(k)) = Len(Inspected)
           /\ Moved(k)[1] = Inspected[1] /\ Moved(k)[2] = Inspected[k]
    BY MovedClause DEF IInv
  <1> DEFINE a == NotLit(Inspected[k])
             V == Without(watches, L, wlPos)
             U == With(V, a, w)
  <1>3. watches' = U
    BY <1>2 DEF With, Without
  <1>4. Inspected[k] \in Lit /\ a \in Lit /\ NotLit(a) = Inspected[k]
    BY <1>1, <1>2, Clauses, Literals
  <1>5. watches \in [Lit -> Seq(1 .. Len(clauses))]
    BY DEF IInv, Types
  <1>6. /\ V \in [Lit -> Seq(1 .. Len(clauses))] /\ Gains(watches, V, L, w)
    BY <1>1, <1>5, EntryRemoved
  <1> HIDE DEF V
  <1>7. U \in [Lit -> Seq(1 .. Len(clauses))] /\ Gains(U, V, a, w)
    <2>1. w \in 1 .. Len(clauses)
      BY <1>1
    <2> QED BY <1>4, <1>6, <2>1, EntryAppended
  <1> HIDE DEF U
  <1>8. \A l \in Lit : \A x : Entries(V, l, x) \in Nat
    BY <1>6, EntriesAreNumbers
  <1>9. clauses'[w] = Moved(k) /\ \A x \in DOMAIN clauses : x # w => clauses'[x] = clauses[x]
    BY <1>1, <1>2
  <1>10. ASSUME NEW l \in Lit, NEW x \in DOMAIN clauses,
                Entries(watches, l, x) = Cardinality(Places(clauses[x], l))
         PROVE  Entries(U, l, x) = Cardinality(Places(clauses'[x], l))
    <2> DEFINE u == Entries(U, l, x)
               v == Entries(V, l, x)
               e == Entries(watches, l, x)
               p == Cardinality(Places(clauses[x], l))
               q == Cardinality(Places(clauses'[x], l))
               I1 == IF Inspected[1] = NotLit(l) THEN 1 ELSE 0
    <2>1. /\ l = L /\ x = w => e = v + 1
          /\ ~(l = L /\ x = w) => e = v
      BY <1>6 DEF Gains
    <2>2. /\ l = a /\ x = w => u = v + 1
          /\ ~(l = a /\ x = w) => u = v
      BY <1>7 DEF Gains
    <2>3. v \in Nat /\ e = p
      BY <1>8, <1>10
    <2>4. CASE x # w
      <3>1. q = p
        BY <1>9, <2>4
      <3> HIDE DEF u, v, e, p, q
      <3> QED BY <2>1, <2>2, <2>3, <2>4, <3>1 DEF u, q
    <2>5. CASE x = w
      <3>1. p = Cardinality(Places(Inspected, l))
        BY <2>5, InspectedPlaces DEF MoveWatch
      <3>2. p = I1 + (IF Inspected[2] = NotLit(l) THEN 1 ELSE 0)
        BY <1>1, <3>1, PlacesCount
      <3>3. q = I1 + (IF Inspected[k] = NotLit(l) THEN 1 ELSE 0)
        <4>1. /\ Len(Moved(k)) > 1 /\ Moved(k) \in Clause /\ clauses'[x] = Moved(k)
              /\ Moved(k)[1] = Inspected[1] /\ Moved(k)[2] = Inspected[k]
          BY <1>1, <1>2, <1>9, <2>5
        <4>2. Cardinality(Places(Moved(k), l)) = (IF Moved(k)[1] = NotLit(l) THEN 1 ELSE 0)
                                     + (IF Moved(k)[2] = NotLit(l) THEN 1 ELSE 0)
          BY <4>1, PlacesCount
        <4> QED BY <4>1, <4>2
      <3>4. (Inspected[2] = NotLit(l) <=> l = L) /\ (Inspected[k] = NotLit(l) <=> l = a)
        BY <1>1, <1>4, Literals
      <3>5. I1 \in Nat
        OBVIOUS
      <3>6. p = I1 + (IF l = L THEN 1 ELSE 0) /\ q = I1 + (IF l = a THEN 1 ELSE 0)
        BY <3>2, <3>3, <3>4
      <3> HIDE DEF u, v, e, p, q, I1, a
      <3>7. u = q
        BY <2>1, <2>2, <2>3, <2>5, <3>5, <3>6
      <3> QED BY <3>7 DEF u, q
    <2> QED BY <2>4, <2>5
  <1>11. \A x \in DOMAIN clauses : clauses'[x] \in Clause
    BY <1>1, <1>2, <1>9
  <1> QED BY <1>3, <1>7, <1>10, <1>11

\* Every step keeps the lists of watches.
LEMMA ListsKept ==
  ASSUME IInv, Next
  PROVE  Lists' /\ watches' \in [Lit -> Seq(1 .. Len(clauses'))]
  <1> DEFINE Right(k) == \A l \in Lit : Entries(watches, l, k) = Cardinality(Places(clauses[k], l))
             RightNext(k) == \A l \in Lit : Entries(watches', l, k) = Cardinality(Places(clauses'[k], l))
             NoneNext(k) == \A l \in Lit : Entries(watches', l, k) = 0
  <1>1. /\ watches \in [Lit -> Seq(1 .. Len(clauses))]
        /\ Len(clauses) \in Nat /\ DOMAIN clauses = 1 .. Len(clauses)
        /\ \A k \in DOMAIN clauses : clauses[k] \in Clause
        /\ wlPos \in Nat /\ wlPos > 0
    BY Sequences DEF IInv, Types
  <1>2. Started => \A k \in DOMAIN clauses : Right(k)
    BY DEF IInv, Lists, Entries
  <1>3. pc = "build" => \A k \in DOMAIN clauses : (k < wlPos => Right(k))
                        /\ (~(k < wlPos) => \A l \in Lit : Entries(watches, l, k) = 0)
    BY DEF IInv, Lists, Entries
  <1>4. ASSUME pc' # "build", \A k \in DOMAIN clauses' : RightNext(k)
        PROVE  Lists'
    BY <1>4 DEF Lists, Entries
  <1>5. CASE BuildClause
    <2> DEFINE c == clauses[wlPos]
    <2>1. /\ pc = "build" /\ pc' = "build" /\ wlPos \in DOMAIN clauses /\ wlPos' = wlPos + 1
          /\ clauses' = clauses /\ watches' = Attached(c, wlPos)
      BY <1>1, <1>5 DEF BuildClause
    <2>2. /\ watches' \in [Lit -> Seq(1 .. Len(clauses))]
          /\ \A l \in Lit : \A x :
               /\ x = wlPos => Entries(watches', l, x)
                               = Entries(watches, l, x) + Cardinality(Places(c, l))
               /\ x # wlPos => Entries(watches', l, x) = Entries(watches, l, x)
      <3>1. c \in Clause /\ wlPos \in 1 .. Len(clauses) /\ Len(clauses) <= Len(clauses)
        BY <1>1, <2>1
      <3> HIDE DEF c
      <3> QED BY <1>1, <2>1, <3>1, AttachedLists DEF IInv
    <2>3. \A l \in Lit : Cardinality(Places(c, l)) \in Nat
      BY <1>1, <2>1, PlacesCount
    <2>4. ASSUME NEW k \in DOMAIN clauses, NEW l \in Lit
          PROVE  Entries(watches', l, k)
                 = IF k < wlPos + 1 THEN Cardinality(Places(clauses[k], l)) ELSE 0
      <3>1. CASE k = wlPos
        <4>1. ~(k < wlPos) /\ k < wlPos + 1
          BY <1>1, <3>1
        <4>2. Entries(watches, l, k) = 0
          BY <1>3, <2>1, <4>1
        <4>3. Entries(watches', l, k) = 0 + Cardinality(Places(c, l))
          BY <2>2, <3>1, <4>2
        <4> QED BY <2>3, <3>1, <4>1, <4>3
      <3>2. CASE k # wlPos
        <4>1. k < wlPos + 1 <=> k < wlPos
          BY <1>1, <3>2
        <4>2. Entries(watches', l, k) = Entries(watches, l, k)
          BY <2>2, <3>2
        <4> QED BY <1>3, <2>1, <4>1, <4>2
      <3> QED BY <3>1, <3>2
    <2> QED BY <2>1, <2>2, <2>4 DEF Lists, Entries, Started
  <1>6. CASE EndOfBuild
    <2>1. /\ pc = "build" /\ pc' # "build" /\ wlPos > Len(clauses)
          /\ clauses' = clauses /\ watches' = watches
      BY <1>6 DEF EndOfBuild
    <2>2. \A k \in DOMAIN clauses : k < wlPos
      BY <1>1, <2>1
    <2> QED BY <1>1, <1>3, <1>4, <2>1, <2>2
  <1>7. CASE ClauseSatisfied \/ ClauseUnit \/ ClauseEmpty
    <2> DEFINE w == WatchList[wlPos]
    <2>1. /\ Inspecting /\ clauses' = [clauses EXCEPT ![w] = Inspected] /\ watches' = watches
          /\ pc' # "build" /\ Started
      BY <1>7 DEF ClauseSatisfied, ClauseUnit, ClauseEmpty, Inspecting, Started
    <2>2. w \in DOMAIN clauses
      BY <2>1, InspectedClause DEF IInv
    <2> HIDE DEF w
    <2>3. /\ DOMAIN clauses' = DOMAIN clauses /\ clauses'[w] = Inspected
          /\ \A k \in DOMAIN clauses : k # w => clauses'[k] = clauses[k]
          /\ Len(clauses') = Len(clauses)
      <3>1. clauses \in [1 .. Len(clauses) -> Clause]
        BY DEF IInv, Types
      <3> HIDE DEF Inspected
      <3>2. /\ DOMAIN clauses' = DOMAIN clauses /\ clauses'[w] = Inspected
            /\ \A k \in DOMAIN clauses : k # w => clauses'[k] = clauses[k]
        BY <2>1, <2>2, <3>1
      <3>3. Len(clauses') = Len(clauses)
        <4>1. Inspected \in Clause /\ clauses \in Seq(Clause)
          BY <2>1, InspectedClause DEF IInv, Types
        <4> QED BY <2>1, <2>2, <4>1
      <3> QED BY <3>2, <3>3
    <2>4. \A l \in Lit : Cardinality(Places(Inspected, l)) = Cardinality(Places(clauses[w], l))
      BY <2>1, InspectedPlaces DEF w
    <2>5. \A k \in DOMAIN clauses : RightNext(k)
      BY <1>2, <2>1, <2>3, <2>4
    <2> QED BY <1>1, <1>4, <2>1, <2>3, <2>5
  <1>8. CASE MoveWatch
    <2>1. Started /\ pc' # "build"
      BY <1>8 DEF MoveWatch, Inspecting, Started
    <2>2. Len(clauses') = Len(clauses) /\ DOMAIN clauses' = DOMAIN clauses
      <3>1. PICK k : clauses' = [clauses EXCEPT ![WatchList[wlPos]] = Moved(k)] /\ Moved(k) \in Clause
        BY <1>8, MovedClause DEF IInv
      <3>2. WatchList[wlPos] \in DOMAIN clauses
        BY <1>8, InspectedClause DEF IInv, MoveWatch
      <3>3. clauses \in Seq(Clause)
        BY DEF IInv, Types
      <3> QED BY <3>1, <3>2, <3>3
    <2>3. /\ watches' \in [Lit -> Seq(1 .. Len(clauses))]
          /\ \A l \in Lit, x \in DOMAIN clauses :
               Entries(watches, l, x) = Cardinality(Places(clauses[x], l))
                 => Entries(watches', l, x) = Cardinality(Places(clauses'[x], l))
      BY <1>8, MovedLists
    <2>4. \A k \in DOMAIN clauses : RightNext(k)
      BY <1>2, <2>1, <2>3
    <2> QED BY <1>4, <2>1, <2>2, <2>3, <2>4
  <1>9. CASE Learn /\ Len(loc.learnt) > 1
    <2> DEFINE c == loc.learnt
               new == Len(clauses) + 1
    <2>1. /\ Len(clauses') = new /\ clauses'[new] = c /\ c \in Clause
          /\ \A i \in DOMAIN clauses' : i \in DOMAIN clauses \/ i = new
          /\ \A i \in DOMAIN clauses : clauses'[i] = clauses[i]
      BY <1>9, AppendedClause
    <2>2. /\ Started /\ pc' # "build" /\ watches' = Attached(c, new)
      <3>1. Len(c) # 1
        <4> DEFINE m == Len(c)
        <4>1. m \in Nat /\ m > 1
          BY <1>9, <2>1, Clauses
        <4> HIDE DEF m
        <4>2. m # 1
          BY <4>1
        <4> QED BY <4>2 DEF m
      <3> QED BY <1>9, <3>1 DEF Learn, Started
    <2>3. /\ watches' \in [Lit -> Seq(1 .. new)]
          /\ \A l \in Lit : \A x :
               /\ x = new => Entries(watches', l, x)
                             = Entries(watches, l, x) + Cardinality(Places(c, l))
               /\ x # new => Entries(watches', l, x) = Entries(watches, l, x)
      <3>1. new \in Nat /\ Len(clauses) <= new /\ new \in 1 .. new
        BY <1>1
      <3> HIDE DEF c, new
      <3> QED BY <2>1, <2>2, <3>1, AttachedLists DEF IInv
    <2>4. \A l \in Lit : Entries(watches, l, new) = 0
      <3> TAKE l \in Lit
      <3>1. watches[l] \in Seq(1 .. Len(clauses)) /\ new \notin 1 .. Len(clauses)
        BY <1>1
      <3>2. Occurrences(watches[l], new) = {}
        BY <3>1 DEF Occurrences
      <3> QED BY <3>2, FS_EmptySet DEF Entries
    <2>5. \A l \in Lit : Cardinality(Places(c, l)) \in Nat
      BY <2>1, PlacesCount
    <2>6. new \notin DOMAIN clauses
      BY <1>1
    <2> HIDE DEF c, new
    <2>7. RightNext(new)
      <3> SUFFICES ASSUME NEW l \in Lit
                   PROVE  Entries(watches', l, new) = Cardinality(Places(clauses'[new], l))
        OBVIOUS
      <3>1. Entries(watches', l, new) = 0 + Cardinality(Places(c, l))
        BY <2>3, <2>4
      <3> QED BY <2>1, <2>5, <3>1
    <2>8. \A k \in DOMAIN clauses : RightNext(k)
      BY <1>2, <2>1, <2>2, <2>3, <2>6
    <2> QED BY <1>4, <2>1, <2>2, <2>3, <2>7, <2>8
  <1>10. CASE watches' = watches /\ clauses' = clauses /\ pc' # "build" /\ (Started' => Started)
    BY <1>1, <1>2, <1>10 DEF Lists, Entries
  <1>11. ASSUME ~(BuildClause \/ EndOfBuild \/ ClauseSatisfied \/ ClauseUnit \/ ClauseEmpty \/ MoveWatch),
                ~(Learn /\ Len(loc.learnt) > 1)
         PROVE  watches' = watches /\ clauses' = clauses /\ pc' # "build" /\ (Started' => Started)
    <2>1. CASE Learn
      <3>1. Len(loc.learnt) = 1
        <4> DEFINE m == Len(loc.learnt)
        <4>1. loc.learnt \in Clause
          BY <2>1 DEF IInv, Learning, Learn, Types, Locals, Clause
        <4>2. m \in Nat /\ m > 0 /\ ~(m > 1)
          BY <1>11, <2>1, <4>1, Clauses
        <4> HIDE DEF m
        <4>3. m = 1
          BY <4>2
        <4> QED BY <4>3 DEF m
      <3> QED BY <2>1, <3>1 DEF Learn, Started
    <2>2. CASE ~Learn
      BY <1>11, <2>2 DEF Next, Exit, UndoLiteral, EndOfCancel, StartSearch,
         ContinueSearch, BudgetSpent, TakeLiteral, NothingToPropagate, EndOfWatches,
         SkipLiteral, SeeLiteral, ResolveReason, FindUip, DropAssigned, Decide, AllAssigned,
         Started
    <2> QED BY <2>1, <2>2
  <1> QED BY <1>5, <1>6, <1>7, <1>8, <1>9, <1>10, <1>11

-----------------------------------------------------------------------------
(***************************************************************************)
(* The place that the analysis resolves, and the clause it makes.          *)
(***************************************************************************)
\* The levels grow along the trail.
LEMMA LevelsGrow ==
  ASSUME Types, Levels, NEW j \in DOMAIN trail, NEW k \in DOMAIN trail, j <= k
  PROVE  /\ Lev(trail, level, j) \in 0 .. Len(trailLevels)
         /\ Lev(trail, level, j) <= Lev(trail, level, k)
  <1> DEFINE e == Lev(trail, level, j)
             d == Lev(trail, level, k)
             D == Len(trailLevels)
  <1>1. /\ e \in 0 .. D /\ (e > 0 => trailLevels[e] < j) /\ d \in 0 .. D
    BY DEF Levels, OfLevel
  <1>2. /\ D \in Nat /\ \A a \in 1 .. D : trailLevels[a] \in Nat
        /\ \A a, c \in 1 .. D : a < c => trailLevels[a] < trailLevels[c]
        /\ j \in Nat /\ k \in Nat
    <2>1. /\ D \in Nat /\ DOMAIN trailLevels = 1 .. D /\ \A a \in 1 .. D : trailLevels[a] \in Nat
          /\ j \in Nat /\ k \in Nat
      BY Sequences
    <2>2. \A a, c \in 1 .. D : a < c => trailLevels[a] < trailLevels[c]
      BY <2>1 DEF Levels
    <2> QED BY <2>1, <2>2
  <1> HIDE DEF e, D
  <1>3. ASSUME d < e PROVE FALSE
    <2>1. d \in Nat /\ d < D /\ d + 1 \in 1 .. D /\ e \in 1 .. D
      BY <1>1, <1>2, <1>3
    <2>2. k <= trailLevels[d + 1]
      BY <2>1, LowPlaces DEF D
    <2> HIDE DEF d
    <2>3. trailLevels[d + 1] <= trailLevels[e]
      <3>1. CASE d + 1 = e
        BY <1>2, <2>1, <3>1
      <3>2. CASE d + 1 < e
        BY <1>2, <2>1, <3>2
      <3> QED BY <1>3, <2>1, <3>1, <3>2
    <2>4. trailLevels[e] < j
      BY <1>1, <2>1
    <2> QED BY <1>2, <2>1, <2>2, <2>3, <2>4
  <1> QED BY <1>1, <1>2, <1>3 DEF e, D

\* As long as something is to be resolved, the walk back along the trail finds it, and it is of
\* the level of the conflict.
LEMMA LastSeenIsCounted ==
  ASSUME IInv, pc = "analyze", loc.pathC > 0
  PROVE  /\ LastSeen \in DOMAIN trail /\ LastSeen \in Nat /\ LastSeen > 0
         /\ LastSeen <= loc.index
         /\ LastSeen \in Counted(trail, level, seen, DecisionLevel)
         /\ \A q \in DOMAIN trail : q <= loc.index /\ seen[VarAt(trail, q)] = 1 => q <= LastSeen
  <1> DEFINE counted == Counted(trail, level, seen, DecisionLevel)
             n == Len(trail)
             S == {k \in 1 .. loc.index : seen[LitToVar(trail[k])] = 1}
  <1>1. /\ n \in Nat /\ DOMAIN trail = 1 .. n /\ loc.index \in Nat /\ loc.index <= n
        /\ \A p \in counted : p <= loc.index
        /\ loc.pathC = Cardinality(counted) /\ loc.pathC \in Nat
    BY Sequences DEF IInv, Analysis, Analysing, Types, Locals
  <1>2. counted # {}
    <2> SUFFICES ASSUME counted = {} PROVE FALSE
      OBVIOUS
    <2>1. loc.pathC = 0
      BY <1>1, FS_EmptySet
    <2> QED BY <2>1
  <1>3. PICK m \in counted : TRUE
    BY <1>2
  <1>4. m \in DOMAIN trail /\ Lev(trail, level, m) = DecisionLevel /\ seen[VarAt(trail, m)] = 1
    BY DEF Counted
  <1> HIDE DEF counted
  <1>5. m \in S
    BY <1>1, <1>4 DEF VarAt
  <1>6. S \in SUBSET (0 .. n) /\ S # {}
    BY <1>1, <1>5
  <1>7. LastSeen \in S /\ \A i \in S : i <= LastSeen
    <2>1. \E k \in S : \A i \in S : i <= k
      BY <1>1, <1>6, Greatest
    <2> QED BY <2>1 DEF LastSeen
  <1> DEFINE p == LastSeen
  <1>8. /\ p \in 1 .. loc.index /\ seen[VarAt(trail, p)] = 1
        /\ \A q \in 1 .. loc.index : seen[VarAt(trail, q)] = 1 => q <= p
    BY <1>7 DEF VarAt
  <1> HIDE DEF p, S
  <1>9. p \in DOMAIN trail /\ p \in Nat /\ p > 0 /\ p <= loc.index
    BY <1>1, <1>8
  <1>10. m <= p
    BY <1>5, <1>7 DEF p
  <1>11. Lev(trail, level, p) = DecisionLevel
    <2>1. /\ Lev(trail, level, m) <= Lev(trail, level, p)
          /\ Lev(trail, level, p) \in 0 .. Len(trailLevels)
          /\ Len(trailLevels) \in Nat
      <3>1. p <= p
        BY <1>9
      <3> QED BY <1>4, <1>9, <1>10, <3>1, LevelsGrow, Sequences DEF IInv
    <2> DEFINE x == Lev(trail, level, p)
               y == Lev(trail, level, m)
               D == Len(trailLevels)
    <2>2. y <= x /\ x \in 0 .. D /\ y = D /\ D \in Nat
      BY <1>4, <2>1 DEF DecisionLevel
    <2> HIDE DEF x, y, D
    <2>3. x = D
      BY <2>2
    <2> QED BY <2>3 DEF x, D, DecisionLevel
  <1>12. p \in counted
    BY <1>8, <1>9, <1>11 DEF Counted, counted
  <1>13. \A q \in DOMAIN trail : q <= loc.index /\ seen[VarAt(trail, q)] = 1 => q <= p
    BY <1>1, <1>8
  <1> QED BY <1>9, <1>12, <1>13 DEF p, counted

Swapped(d, i, j) == [[d EXCEPT ![i] = d[j]] EXCEPT ![j] = d[i]]

\* An exchange of two elements.
LEMMA SwapKeeps ==
  ASSUME NEW S, NEW d \in Seq(S), NEW i \in DOMAIN d, NEW j \in DOMAIN d
  PROVE  /\ Swapped(d, i, j) \in Seq(S) /\ Len(Swapped(d, i, j)) = Len(d)
         /\ Swapped(d, i, j)[i] = d[j] /\ Swapped(d, i, j)[j] = d[i]
         /\ \A k \in DOMAIN d : k # i /\ k # j => Swapped(d, i, j)[k] = d[k]
  <1> DEFINE n == Len(d)
             e == [d EXCEPT ![i] = d[j]]
             a == Swapped(d, i, j)
  <1>1. n \in Nat /\ DOMAIN d = 1 .. n /\ d \in [1 .. n -> S]
    OBVIOUS
  <1> HIDE DEF n
  <1>2. /\ e \in [1 .. n -> S] /\ e[i] = d[j] /\ \A k \in 1 .. n : k # i => e[k] = d[k]
    BY <1>1
  <1>3. a = [e EXCEPT ![j] = d[i]]
    BY DEF Swapped
  <1> HIDE DEF e, a
  <1>4. a \in [1 .. n -> S] /\ a[j] = d[i] /\ \A k \in 1 .. n : k # j => a[k] = e[k]
    BY <1>1, <1>2, <1>3
  <1>5. a[i] = d[j]
    BY <1>1, <1>2, <1>4
  <1>6. \A k \in 1 .. n : k # i /\ k # j => a[k] = d[k]
    BY <1>2, <1>4
  <1>7. a \in Seq(S) /\ Len(a) = n
    BY <1>1, <1>4
  <1> QED BY <1>1, <1>4, <1>5, <1>6, <1>7 DEF a, n

\* The exchange of _analyze: the second place gets the literal of the highest level.
LEMMA SwappedTail ==
  ASSUME NEW c \in Seq(Lit), NEW d \in Seq(Lit), Len(c) = Len(d), NEW m \in 2 .. Len(d),
         \A i \in 2 .. Len(d) : d[i] = c[i]
  PROVE  LET a == Swapped(d, m, 2)
         IN  /\ a \in Clause /\ Len(a) = Len(d) /\ a[1] = d[1] /\ a[2] = c[m]
             /\ \A i \in 2 .. Len(d) : \E j \in 2 .. Len(d) : a[i] = c[j]
             /\ \A j \in 2 .. Len(d) : \E i \in 2 .. Len(d) : a[i] = c[j]
  <1> DEFINE n == Len(d)
             a == Swapped(d, m, 2)
  <1>1. /\ n \in Nat /\ DOMAIN d = 1 .. n
        /\ m \in 1 .. n /\ 2 \in 1 .. n /\ m # 1 /\ 1 \in 1 .. n /\ 2 \in 2 .. n /\ n > 0
    OBVIOUS
  <1>2. /\ a \in Seq(Lit) /\ Len(a) = n /\ a[2] = d[m] /\ a[m] = d[2]
        /\ \A i \in 1 .. n : i # m /\ i # 2 => a[i] = d[i]
    <2>1. m \in DOMAIN d /\ 2 \in DOMAIN d /\ d \in Seq(Lit)
      BY <1>1
    <2>2. /\ a \in Seq(Lit) /\ Len(a) = Len(d) /\ a[m] = d[2] /\ a[2] = d[m]
          /\ \A i \in DOMAIN d : i # m /\ i # 2 => a[i] = d[i]
      <3> HIDE DEF n
      <3>1. /\ Swapped(d, m, 2) \in Seq(Lit) /\ Len(Swapped(d, m, 2)) = Len(d)
            /\ Swapped(d, m, 2)[m] = d[2] /\ Swapped(d, m, 2)[2] = d[m]
            /\ \A i \in DOMAIN d : i # m /\ i # 2 => Swapped(d, m, 2)[i] = d[i]
        BY <2>1, SwapKeeps
      <3> QED BY <3>1
    <2> HIDE DEF a
    <2> QED BY <1>1, <2>2
  <1> HIDE DEF n, a
  <1>3. m \in 2 .. n /\ \A i \in 2 .. n : d[i] = c[i]
    BY DEF n
  <1>4. a \in Clause
    BY <1>1, <1>2, EmptySeq DEF Clause
  <1>5. a[1] = d[1] /\ a[2] = c[m] /\ a[m] = c[2]
    BY <1>1, <1>2, <1>3
  <1>6. \A i \in 2 .. n : i # m /\ i # 2 => a[i] = c[i]
    <2> TAKE i \in 2 .. n
    <2>1. i \in 1 .. n
      BY <1>1
    <2> QED BY <1>2, <1>3, <2>1
  <1>7. \A i \in 2 .. n : \E j \in 2 .. n : a[i] = c[j]
    BY <1>1, <1>3, <1>5, <1>6
  <1>8. \A j \in 2 .. n : \E i \in 2 .. n : a[i] = c[j]
    BY <1>1, <1>3, <1>5, <1>6
  <1> QED BY <1>2, <1>4, <1>5, <1>7, <1>8 DEF n, a

\* The clause a is c with x in the first place, the literal at m in the
\* second one, and the others.
Arrangement(a, c, x, m) ==
  /\ a \in Clause /\ Len(a) = Len(c) /\ a[1] = x
  /\ Len(c) # 1 => a[2] = c[m]
  /\ \A i \in 2 .. Len(c) : \E j \in 2 .. Len(c) : a[i] = c[j]
  /\ \A j \in 2 .. Len(c) : \E i \in 2 .. Len(c) : a[i] = c[j]

\* The learnt clause.
LEMMA ArrangedClause ==
  ASSUME NEW c \in Clause, NEW x \in Lit, NEW m, Len(c) # 1 => m \in 2 .. Len(c)
  PROVE  Arrangement(Arranged([c EXCEPT ![1] = x], m), c, x, m)
  <1> DEFINE d == [c EXCEPT ![1] = x]
             a == Arranged(d, m)
             n == Len(c)
  <1>1. n \in Nat /\ n > 0 /\ DOMAIN c = 1 .. n /\ c \in [1 .. n -> Lit] /\ c \in Seq(Lit)
    BY Clauses
  <1> HIDE DEF n
  <1>2. /\ d \in [1 .. n -> Lit] /\ d[1] = x /\ \A i \in 2 .. n : d[i] = c[i]
    BY <1>1
  <1>3. d \in Seq(Lit) /\ Len(d) = n /\ DOMAIN d = 1 .. n
    BY <1>1, <1>2
  <1> HIDE DEF d
  <1>4. a = IF n > 1 THEN Swapped(d, m, 2) ELSE d
    BY <1>3 DEF Arranged, Swapped
  <1> HIDE DEF a
  <1>5. CASE n = 1
    <2>1. a = d
      BY <1>4, <1>5
    <2>2. a \in Clause
      BY <1>1, <1>3, <2>1, EmptySeq DEF Clause
    <2>3. \A i \in 2 .. n : FALSE
      BY <1>5
    <2> QED BY <1>2, <1>3, <1>5, <2>1, <2>2, <2>3 DEF n, a, d, Arrangement
  <1>6. CASE n > 1
    <2>1. m \in 2 .. n /\ n # 1
      BY <1>1, <1>6 DEF n
    <2>2. a = Swapped(d, m, 2)
      BY <1>4, <1>6
    <2>3. /\ a \in Clause /\ Len(a) = n /\ a[1] = d[1] /\ a[2] = c[m]
          /\ \A i \in 2 .. n : \E j \in 2 .. n : a[i] = c[j]
          /\ \A j \in 2 .. n : \E i \in 2 .. n : a[i] = c[j]
      <3>1. Len(c) = Len(d) /\ Len(d) = n
        BY <1>3 DEF n
      <3>2. m \in 2 .. Len(d) /\ \A i \in 2 .. Len(d) : d[i] = c[i]
        BY <1>2, <2>1, <3>1
      <3>3. LET b == Swapped(d, m, 2)
            IN  /\ b \in Clause /\ Len(b) = Len(d) /\ b[1] = d[1] /\ b[2] = c[m]
                /\ \A i \in 2 .. Len(d) : \E j \in 2 .. Len(d) : b[i] = c[j]
                /\ \A j \in 2 .. Len(d) : \E i \in 2 .. Len(d) : b[i] = c[j]
        BY <1>1, <1>3, <3>1, <3>2, SwappedTail, Zenon
      <3> QED BY <2>2, <3>1, <3>3
    <2> QED BY <1>2, <2>1, <2>3 DEF n, a, d, Arrangement
  <1>7. n = 1 \/ n > 1
    BY <1>1
  <1> QED BY <1>5, <1>6, <1>7

-----------------------------------------------------------------------------
(***************************************************************************)
(* Types.                                                                  *)
(***************************************************************************)
\* What a clause can be the reason of, and the levels there can be.
LEMMA PushedTypes ==
  ASSUME IInv, Next, NEW l, NEW r, Pushed(l, r),
         \/ BuildClause /\ l = clauses[wlPos][1] /\ r = None /\ Len(clauses[wlPos]) = 1
         \/ ClauseUnit /\ l = Inspected[1] /\ r = WatchList[wlPos]
         \/ Learn /\ l = loc.learnt[1] /\ r = IF Len(loc.learnt) = 1 THEN None ELSE Len(clauses) + 1
         \/ Decide /\ l = VarToLit(varHeap.heap[1], polarity[varHeap.heap[1]]) /\ r = None
  PROVE  r \in 0 .. Len(clauses') /\ Len(trailLevels') \in 0 .. NbVars
  <1>1. /\ Len(clauses') \in Nat /\ Len(clauses) \in Nat /\ Len(clauses) <= Len(clauses')
    BY ClausesGo, Sequences DEF IInv
  <1>2. /\ pc # "cancel" /\ Len(trailLevels) <= Len(trail)
    <2>1. pc # "cancel"
      BY DEF BuildClause, ClauseUnit, Learn, Decide, Inspecting
    <2> QED BY <2>1, LevelsAreFew DEF IInv
  <1>3. /\ Len(trail) < NbVars /\ NbVars \in Nat /\ Len(trail) \in Nat /\ Len(trailLevels) \in Nat
    <2>1. LitToVar(l) \in Var /\ values[LitToVar(l)] = Undef
      BY Literals DEF Pushed
    <2> QED BY <2>1, TrailIsShort, Sequences, CdclAssumption DEF IInv
  <1>4. Len(trailLevels') = Len(trailLevels) \/ Len(trailLevels') = Len(trailLevels) + 1
    <2>1. CASE Decide
      <3>1. trailLevels' = Append(trailLevels, Len(trail)) /\ trailLevels \in Seq(Nat)
        BY <2>1 DEF Decide, IInv, Types
      <3> QED BY <3>1
    <2>2. CASE ~Decide
      BY <2>2 DEF BuildClause, ClauseUnit, Learn
    <2> QED BY <2>1, <2>2
  <1>5. r \in 0 .. Len(clauses')
    <2>1. CASE r = None
      BY <1>1, <2>1 DEF None
    <2>2. CASE ClauseUnit /\ r = WatchList[wlPos]
      <3>1. r \in DOMAIN clauses
        BY <2>2, InspectedClause DEF ClauseUnit, IInv
      <3> QED BY <1>1, <3>1, Sequences DEF IInv
    <2>3. CASE Learn /\ r # None
      <3>1. r = Len(clauses) + 1 /\ Len(loc.learnt) # 1
        BY <2>3 DEF Learn, BuildClause, ClauseUnit, Decide, Inspecting
      <3>2. clauses' = Append(clauses, loc.learnt) /\ clauses \in Seq(Clause)
        BY <2>3, <3>1 DEF Learn, IInv, Types
      <3>3. Len(clauses') = Len(clauses) + 1
        BY <3>2
      <3> QED BY <1>1, <3>1, <3>3
    <2> QED BY <2>1, <2>2, <2>3
  <1> QED BY <1>2, <1>3, <1>4, <1>5

\* Types of the assignment after a step.
LEMMA TrailTypes ==
  ASSUME IInv, Next
  PROVE  /\ values' \in [Var -> {False, True, Undef}]
         /\ level' \in [Var -> 0 .. NbVars]
         /\ reason' \in [Var -> 0 .. Len(clauses')]
         /\ trail' \in Seq(Lit)
  <1>1. /\ values \in [Var -> {False, True, Undef}] /\ level \in [Var -> 0 .. NbVars]
        /\ reason \in [Var -> 0 .. Len(clauses)] /\ trail \in Seq(Lit)
    BY DEF IInv, Types
  <1>2. reason \in [Var -> 0 .. Len(clauses')]
    <2> DEFINE m == Len(clauses)
               n == Len(clauses')
    <2>1. n \in Nat /\ m \in Nat /\ m <= n
      BY ClausesGo, Sequences DEF IInv
    <2>2. reason \in [Var -> 0 .. m]
      BY <1>1
    <2> HIDE DEF m, n
    <2>3. reason \in [Var -> 0 .. n]
      BY <2>1, <2>2
    <2> QED BY <2>3 DEF n
  <1>3. CASE Still
    BY <1>1, <1>2, <1>3 DEF Still
  <1>4. CASE Popped
    <2>1. trail' \in Seq(Lit)
      BY <1>4, PoppedTrail DEF IInv
    <2> QED BY <1>1, <1>2, <1>4, <2>1 DEF Popped
  <1>5. ASSUME NEW l, NEW r, Pushed(l, r),
               r \in 0 .. Len(clauses') /\ Len(trailLevels') \in 0 .. NbVars
        PROVE  /\ values' \in [Var -> {False, True, Undef}]
               /\ level' \in [Var -> 0 .. NbVars]
               /\ reason' \in [Var -> 0 .. Len(clauses')]
               /\ trail' \in Seq(Lit)
    <2>1. LitToVar(l) \in Var /\ Making(l) \in {False, True, Undef} /\ l \in Lit
      BY <1>5, Literals DEF Pushed, Making
    <2>2. trail' \in Seq(Lit)
      BY <1>5, PushedTrail DEF IInv
    <2>3. /\ values' = [values EXCEPT ![LitToVar(l)] = Making(l)]
          /\ reason' = [reason EXCEPT ![LitToVar(l)] = r]
          /\ level' = [level EXCEPT ![LitToVar(l)] = Len(trailLevels')]
      BY <1>5 DEF Pushed
    <2>4. values' \in [Var -> {False, True, Undef}]
      BY <1>1, <2>1, <2>3
    <2>5. level' \in [Var -> 0 .. NbVars]
      BY <1>1, <1>5, <2>1, <2>3
    <2>6. reason' \in [Var -> 0 .. Len(clauses')]
      BY <1>2, <1>5, <2>1, <2>3
    <2> QED BY <2>2, <2>4, <2>5, <2>6
  <1>6. CASE \E l, r : Pushed(l, r) /\
              \/ BuildClause /\ l = clauses[wlPos][1] /\ r = None /\ Len(clauses[wlPos]) = 1
              \/ ClauseUnit /\ l = Inspected[1] /\ r = WatchList[wlPos]
              \/ Learn /\ l = loc.learnt[1] /\ r = IF Len(loc.learnt) = 1 THEN None ELSE Len(clauses) + 1
              \/ Decide /\ l = VarToLit(varHeap.heap[1], polarity[varHeap.heap[1]]) /\ r = None
    <2>1. PICK l, r : Pushed(l, r) /\
              \/ BuildClause /\ l = clauses[wlPos][1] /\ r = None /\ Len(clauses[wlPos]) = 1
              \/ ClauseUnit /\ l = Inspected[1] /\ r = WatchList[wlPos]
              \/ Learn /\ l = loc.learnt[1] /\ r = IF Len(loc.learnt) = 1 THEN None ELSE Len(clauses) + 1
              \/ Decide /\ l = VarToLit(varHeap.heap[1], polarity[varHeap.heap[1]]) /\ r = None
      BY <1>6
    <2>2. r \in 0 .. Len(clauses') /\ Len(trailLevels') \in 0 .. NbVars
      BY <2>1, PushedTypes
    <2> QED BY <1>5, <2>1, <2>2
  <1> QED BY <1>3, <1>4, <1>6, Moves

\* The local variables of the analysis.
LEMMA LocalTypes ==
  ASSUME IInv, Next
  PROVE  loc' \in Locals'
  <1> DEFINE m == Len(clauses)
             n == Len(clauses')
  <1>1. n \in Nat /\ m \in Nat /\ m <= n
    BY ClausesGo, Sequences DEF IInv
  <1>2. /\ loc.c \in 0 .. m /\ loc.j \in Nat /\ loc.learnt \in Seq(Lit) /\ loc.pathC \in Nat
        /\ loc.index \in Nat /\ loc.backtrackLevel \in Nat /\ loc.maxbl \in Nat
        /\ loc = [c |-> loc.c, j |-> loc.j, learnt |-> loc.learnt, pathC |-> loc.pathC,
                  index |-> loc.index, backtrackLevel |-> loc.backtrackLevel,
                  maxbl |-> loc.maxbl]
    BY DEF IInv, Types, Locals
  <1> HIDE DEF m, n
  <1>3. \A c, j, learnt, pathC, index, backtrackLevel, maxbl :
          c \in 0 .. n /\ j \in Nat /\ learnt \in Seq(Lit) /\ pathC \in Nat
          /\ index \in Nat /\ backtrackLevel \in Nat /\ maxbl \in Nat
          => [c |-> c, j |-> j, learnt |-> learnt, pathC |-> pathC, index |-> index,
              backtrackLevel |-> backtrackLevel, maxbl |-> maxbl] \in Locals'
    BY DEF Locals, n
  <1>4. loc.c \in 0 .. n
    BY <1>1, <1>2
  <1>5. CASE loc' = loc
    BY <1>2, <1>3, <1>4, <1>5
  <1>6. CASE loc' = NoLocals
    <2>1. <<>> \in Seq(Lit) /\ None \in 0 .. n /\ 0 \in Nat
      BY <1>1 DEF None
    <2> QED BY <1>3, <1>6, <2>1 DEF NoLocals
  <1>7. CASE ClauseEmpty /\ loc' # loc
    <2>1. loc' = [c |-> WatchList[wlPos], j |-> 1, learnt |-> <<0>>, pathC |-> 0,
                  index |-> Len(trail), backtrackLevel |-> 0, maxbl |-> 0]
      BY <1>7 DEF ClauseEmpty, NoLocals
    <2>2. WatchList[wlPos] \in 0 .. n
      <3>1. WatchList[wlPos] \in 1 .. m
        BY <1>7, InspectedClause, Sequences DEF ClauseEmpty, IInv, m
      <3> QED BY <1>1, <3>1
    <2>3. <<0>> \in Seq(Lit)
      <3>1. 0 \in Lit
        BY CdclAssumption DEF Lit
      <3> QED BY <3>1
    <2>4. Len(trail) \in Nat /\ 1 \in Nat /\ 0 \in Nat
      BY Sequences DEF IInv
    <2> QED BY <1>3, <2>1, <2>2, <2>3, <2>4
  <1>8. CASE SkipLiteral
    <2>1. loc' = [c |-> loc.c, j |-> loc.j + 1, learnt |-> loc.learnt, pathC |-> loc.pathC,
                  index |-> loc.index, backtrackLevel |-> loc.backtrackLevel, maxbl |-> loc.maxbl]
      BY <1>2, <1>8 DEF SkipLiteral
    <2>2. loc.j + 1 \in Nat
      BY <1>2
    <2> QED BY <1>2, <1>3, <1>4, <2>1, <2>2
  <1>9. CASE SeeLiteral
    <2> DEFINE q == clauses[loc.c][loc.j]
               v == LitToVar(q)
    <2>1. q \in Lit /\ v \in Var
      <3>1. loc.c \in DOMAIN clauses /\ loc.j > 0 /\ loc.j <= Len(clauses[loc.c])
        <4>1. loc.c # None /\ loc.j > 0 /\ loc.j <= Len(clauses[loc.c])
          BY <1>9 DEF SeeLiteral, IInv, Analysis, Analysing
        <4>2. DOMAIN clauses = 1 .. m
          BY Sequences DEF IInv, m
        <4> QED BY <1>1, <1>2, <4>1, <4>2 DEF None
      <3>2. clauses[loc.c] \in Clause
        BY <3>1, Sequences DEF IInv
      <3>3. q \in Lit
        BY <1>2, <3>1, <3>2, Clauses
      <3> QED BY <3>3, Literals
    <2>2. level[v] \in Nat
      BY <2>1, CdclAssumption DEF IInv, Types
    <2>3. /\ loc.j + 1 \in Nat /\ loc.pathC + 1 \in Nat /\ Append(loc.learnt, q) \in Seq(Lit)
          /\ Len(loc.learnt) + 1 \in Nat
      BY <1>2, <2>1
    <2>4. CASE level[v] = DecisionLevel
      <3>1. loc' = [loc EXCEPT !.j = @ + 1, !.pathC = @ + 1]
        BY <1>9, <2>4 DEF SeeLiteral
      <3>2. loc' = [c |-> loc.c, j |-> loc.j + 1, learnt |-> loc.learnt, pathC |-> loc.pathC + 1,
                  index |-> loc.index, backtrackLevel |-> loc.backtrackLevel, maxbl |-> loc.maxbl]
        BY <1>2, <3>1
      <3> QED BY <1>2, <1>3, <1>4, <2>3, <3>2
    <2>5. CASE level[v] # DecisionLevel /\ level[v] > loc.backtrackLevel
      <3>1. loc' = [loc EXCEPT !.j = @ + 1, !.learnt = Append(@, q),
                               !.backtrackLevel = level[v], !.maxbl = Len(loc.learnt) + 1]
        BY <1>9, <2>5 DEF SeeLiteral
      <3>2. loc' = [c |-> loc.c, j |-> loc.j + 1, learnt |-> Append(loc.learnt, q),
                    pathC |-> loc.pathC, index |-> loc.index, backtrackLevel |-> level[v],
                    maxbl |-> Len(loc.learnt) + 1]
        BY <1>2, <3>1
      <3> QED BY <1>2, <1>3, <1>4, <2>2, <2>3, <3>2
    <2>6. CASE level[v] # DecisionLevel /\ ~(level[v] > loc.backtrackLevel)
      <3>1. loc' = [loc EXCEPT !.j = @ + 1, !.learnt = Append(@, q)]
        BY <1>9, <2>6 DEF SeeLiteral
      <3>2. loc' = [c |-> loc.c, j |-> loc.j + 1, learnt |-> Append(loc.learnt, q),
                    pathC |-> loc.pathC, index |-> loc.index,
                    backtrackLevel |-> loc.backtrackLevel, maxbl |-> loc.maxbl]
        BY <1>2, <3>1
      <3> QED BY <1>2, <1>3, <1>4, <2>3, <3>2
    <2> QED BY <2>4, <2>5, <2>6
  <1>10. CASE ResolveReason
    <2>1. pc = "analyze" /\ loc.pathC > 0 /\ loc.pathC - 1 \in Nat
      BY <1>2, <1>10 DEF ResolveReason
    <2>2. LastSeen \in DOMAIN trail /\ LastSeen \in Nat /\ LastSeen > 0
      BY <2>1, LastSeenIsCounted
    <2>3. reason[LitToVar(trail[LastSeen])] \in 0 .. n
      <3>1. LitToVar(trail[LastSeen]) \in Var
        BY <2>2, Sequences DEF IInv, VarAt
      <3>2. reason[LitToVar(trail[LastSeen])] \in 0 .. m
        BY <3>1 DEF IInv, Types, m
      <3> QED BY <1>1, <3>2
    <2>4. loc' = [c |-> reason[LitToVar(trail[LastSeen])], j |-> 2, learnt |-> loc.learnt,
                  pathC |-> loc.pathC - 1, index |-> LastSeen - 1,
                  backtrackLevel |-> loc.backtrackLevel, maxbl |-> loc.maxbl]
      <3>1. loc' = [loc EXCEPT !.index = LastSeen - 1, !.pathC = @ - 1,
                               !.c = reason[LitToVar(trail[LastSeen])], !.j = 2]
        BY <1>10 DEF ResolveReason
      <3> HIDE DEF n
      <3> QED BY <1>2, <3>1
    <2>5. LastSeen - 1 \in Nat /\ 2 \in Nat
      BY <2>2
    <2> QED BY <1>2, <1>3, <2>1, <2>3, <2>4, <2>5
  <1>11. CASE FindUip
    <2> DEFINE a == Arranged([loc.learnt EXCEPT ![1] = NotLit(trail[LastSeen])], loc.maxbl)
    <2>1. a \in Seq(Lit)
      <3>1. LastSeen \in DOMAIN trail
        <4>1. pc = "analyze" /\ loc.pathC > 0
          BY <1>11 DEF FindUip
        <4> QED BY <4>1, LastSeenIsCounted
      <3>2. NotLit(trail[LastSeen]) \in Lit
        BY <3>1, Sequences, Literals DEF IInv
      <3>3. /\ loc.learnt \in Clause
            /\ Len(loc.learnt) # 1 => loc.maxbl \in 2 .. Len(loc.learnt)
        BY <1>2, <1>11 DEF FindUip, IInv, Analysis, Analysing, Clause
      <3>4. a \in Clause
        BY <3>2, <3>3, ArrangedClause DEF Arrangement
      <3> QED BY <3>4 DEF Clause
    <2>2. loc' = [c |-> None, j |-> 0, learnt |-> a, pathC |-> 0, index |-> 0,
                  backtrackLevel |-> loc.backtrackLevel, maxbl |-> 0]
      BY <1>11 DEF FindUip, NoLocals
    <2>3. None \in 0 .. n /\ 0 \in Nat
      BY <1>1 DEF None
    <2> HIDE DEF a
    <2> QED BY <1>2, <1>3, <2>1, <2>2, <2>3
  <1>12. loc' = loc \/ loc' = NoLocals \/ ClauseEmpty \/ SkipLiteral \/ SeeLiteral
         \/ ResolveReason \/ FindUip
    BY DEF Next, BuildClause, Exit, EndOfBuild, UndoLiteral, EndOfCancel, StartSearch,
           ContinueSearch, BudgetSpent, TakeLiteral, NothingToPropagate, ClauseSatisfied,
           MoveWatch, ClauseUnit, EndOfWatches, Learn, DropAssigned, Decide, AllAssigned,
           analyzeVars
  <1> QED BY <1>5, <1>6, <1>7, <1>8, <1>9, <1>10, <1>11, <1>12

\* Every step keeps the types.
LEMMA TypesKept ==
  ASSUME IInv, Next
  PROVE  Types'
  <1>1. /\ formula' \in Formulas
        /\ clauses' \in Seq(Clause) /\ watches' \in [Lit -> Seq(1 .. Len(clauses'))]
        /\ loc' \in Locals'
    BY FormulaStays, ClausesGo, ListsKept, LocalTypes DEF IInv, Types
  <1>2. /\ polarity \in [Var -> {0, 1}] /\ seen \in [Var -> {0, 1}] /\ scores \in Rankings
        /\ trailLevels \in Seq(Nat) /\ toPropagate \in Nat /\ pc \in Pcs /\ wlPos \in Nat \ {0}
        /\ answer \in {Unknown, Unsat} \cup [Var -> BOOLEAN]
    BY DEF IInv, Types
  <1>3. polarity' \in [Var -> {0, 1}]
    <2>1. CASE UndoLiteral
      <3>1. trail[Len(trail)] \in Lit
        BY <2>1, UndoPops, PoppedTrail, Sequences DEF IInv
      <3>2. SignLit(Last(trail)) \in {0, 1}
        BY <3>1, Literals DEF Last
      <3> QED BY <1>2, <2>1, <3>2 DEF UndoLiteral
    <2>2. CASE ~UndoLiteral
      BY <1>2, <2>2
      DEF Next, BuildClause, Exit, EndOfBuild, EndOfCancel, StartSearch, ContinueSearch,
          BudgetSpent, TakeLiteral, NothingToPropagate, ClauseSatisfied, MoveWatch,
          ClauseUnit, ClauseEmpty, EndOfWatches, SkipLiteral, SeeLiteral, ResolveReason,
          FindUip, Learn, DropAssigned, Decide, AllAssigned, assignVars
    <2> QED BY <2>1, <2>2
  <1>4. seen' \in [Var -> {0, 1}]
    <2>1. CASE SeeLiteral
      BY <1>2, <2>1 DEF SeeLiteral
    <2>2. CASE ResolveReason
      BY <1>2, <2>2 DEF ResolveReason
    <2>3. CASE FindUip
      <3>1. \A v \in Var : seen[v] \in {0, 1}
        BY <1>2
      <3> QED BY <2>3, <3>1 DEF FindUip
    <2>4. CASE ~(SeeLiteral \/ ResolveReason \/ FindUip)
      BY <1>2, <2>4
      DEF Next, BuildClause, Exit, EndOfBuild, UndoLiteral, EndOfCancel, StartSearch,
          ContinueSearch, BudgetSpent, TakeLiteral, NothingToPropagate, ClauseSatisfied,
          MoveWatch, ClauseUnit, ClauseEmpty, EndOfWatches, SkipLiteral, Learn,
          DropAssigned, Decide, AllAssigned, analyzeVars
    <2> QED BY <2>1, <2>2, <2>3, <2>4
  <1>5. scores' \in Rankings
    <2>1. CASE SeeLiteral
      BY <2>1 DEF SeeLiteral, Bumped
    <2>2. CASE ~SeeLiteral
      BY <1>2, <2>2
      DEF Next, BuildClause, Exit, EndOfBuild, UndoLiteral, EndOfCancel, StartSearch,
          ContinueSearch, BudgetSpent, TakeLiteral, NothingToPropagate, ClauseSatisfied,
          MoveWatch, ClauseUnit, ClauseEmpty, EndOfWatches, SkipLiteral, ResolveReason,
          FindUip, Learn, DropAssigned, Decide, AllAssigned, analyzeVars
    <2> QED BY <2>1, <2>2
  <1>6. trailLevels' \in Seq(Nat)
    <2>1. CASE Decide
      <3>1. Len(trail) \in Nat
        BY Sequences DEF IInv
      <3> QED BY <1>2, <2>1, <3>1 DEF Decide
    <2>2. CASE EndOfCancel
      <3>1. loc.backtrackLevel \in Nat
        BY DEF IInv, Types, Locals
      <3>2. SubSeq(trailLevels, 1, loc.backtrackLevel) \in Seq(Nat) \/ ~Jumps
        <4> SUFFICES ASSUME Jumps PROVE SubSeq(trailLevels, 1, loc.backtrackLevel) \in Seq(Nat)
          OBVIOUS
        <4>1. Len(trailLevels) > loc.backtrackLevel
          BY DEF Jumps, DecisionLevel
        <4> QED BY <1>2, <3>1, <4>1
      <3> QED BY <1>2, <2>2, <3>2 DEF EndOfCancel
    <2>3. CASE ~(Decide \/ EndOfCancel)
      BY <1>2, <2>3
      DEF Next, BuildClause, Exit, EndOfBuild, UndoLiteral, StartSearch, ContinueSearch,
          BudgetSpent, TakeLiteral, NothingToPropagate, ClauseSatisfied, MoveWatch,
          ClauseUnit, ClauseEmpty, EndOfWatches, SkipLiteral, SeeLiteral, ResolveReason,
          FindUip, Learn, DropAssigned, AllAssigned, assignVars
    <2> QED BY <2>1, <2>2, <2>3
  <1>7. toPropagate' \in Nat
    <2>1. CASE TakeLiteral \/ ClauseEmpty
      <3>1. Len(trail) \in Nat
        BY Sequences DEF IInv
      <3> QED BY <1>2, <2>1, <3>1 DEF TakeLiteral, ClauseEmpty
    <2>2. CASE EndOfCancel
      <3>1. loc.backtrackLevel \in Nat
        BY DEF IInv, Types, Locals
      <3>2. Jumps => KeptTrail \in Nat
        BY <1>2, <3>1 DEF Jumps, KeptTrail, DecisionLevel
      <3> QED BY <1>2, <2>2, <3>2 DEF EndOfCancel
    <2>3. CASE ~(TakeLiteral \/ ClauseEmpty \/ EndOfCancel)
      BY <1>2, <2>3
      DEF Next, BuildClause, Exit, EndOfBuild, UndoLiteral, StartSearch, ContinueSearch,
          BudgetSpent, NothingToPropagate, ClauseSatisfied, MoveWatch, ClauseUnit,
          EndOfWatches, SkipLiteral, SeeLiteral, ResolveReason, FindUip, Learn,
          DropAssigned, Decide, AllAssigned, assignVars
    <2> QED BY <2>1, <2>2, <2>3
  <1>8. pc' \in Pcs
    BY <1>2
    DEF Next, BuildClause, Exit, EndOfBuild, UndoLiteral, EndOfCancel, StartSearch,
        ContinueSearch, BudgetSpent, TakeLiteral, NothingToPropagate, ClauseSatisfied,
        MoveWatch, ClauseUnit, ClauseEmpty, EndOfWatches, SkipLiteral, SeeLiteral,
        ResolveReason, FindUip, Learn, DropAssigned, Decide, AllAssigned, Pcs
  <1>9. wlPos' \in Nat \ {0}
    <2>1. wlPos' \in {wlPos, wlPos + 1, 1}
      BY DEF Next, BuildClause, Exit, EndOfBuild, UndoLiteral, EndOfCancel, StartSearch,
             ContinueSearch, BudgetSpent, TakeLiteral, NothingToPropagate, ClauseSatisfied,
             MoveWatch, ClauseUnit, ClauseEmpty, EndOfWatches, SkipLiteral, SeeLiteral,
             ResolveReason, FindUip, Learn, DropAssigned, Decide, AllAssigned
    <2> QED BY <1>2, <2>1
  <1>10. answer' \in {Unknown, Unsat} \cup [Var -> BOOLEAN]
    <2>1. answer' \in {answer, Unsat, [v \in Var |-> values[v] = True]}
      BY DEF Next, BuildClause, Exit, EndOfBuild, UndoLiteral, EndOfCancel, StartSearch,
             ContinueSearch, BudgetSpent, TakeLiteral, NothingToPropagate, ClauseSatisfied,
             MoveWatch, ClauseUnit, ClauseEmpty, EndOfWatches, SkipLiteral, SeeLiteral,
             ResolveReason, FindUip, Learn, DropAssigned, Decide, AllAssigned
    <2>2. [v \in Var |-> values[v] = True] \in [Var -> BOOLEAN]
      OBVIOUS
    <2> QED BY <1>2, <2>1, <2>2
  <1> QED BY <1>1, <1>3, <1>4, <1>5, <1>6, <1>7, <1>8, <1>9, <1>10, TrailTypes DEF Types

-----------------------------------------------------------------------------
(***************************************************************************)
(* The watched literals.                                                   *)
(***************************************************************************)
\* What is not above the first literal of a level is of a lower level.
LEMMA HighPlaces ==
  ASSUME Types, Levels, NEW k \in DOMAIN trail, NEW d \in Nat, d < Len(trailLevels),
         k <= trailLevels[d + 1]
  PROVE  Lev(trail, level, k) <= d
  <1> DEFINE e == Lev(trail, level, k)
             D == Len(trailLevels)
  <1>1. e \in 0 .. D /\ (e > 0 => trailLevels[e] < k)
    BY DEF Levels, OfLevel
  <1>2. /\ D \in Nat /\ \A a \in 1 .. D : trailLevels[a] \in Nat
        /\ \A a, c \in 1 .. D : a < c => trailLevels[a] < trailLevels[c]
        /\ k \in Nat
    <2>1. /\ D \in Nat /\ DOMAIN trailLevels = 1 .. D /\ \A a \in 1 .. D : trailLevels[a] \in Nat
          /\ k \in Nat
      BY Sequences
    <2>2. \A a, c \in 1 .. D : a < c => trailLevels[a] < trailLevels[c]
      BY <2>1 DEF Levels
    <2> QED BY <2>1, <2>2
  <1> HIDE DEF e
  <1>3. ASSUME d < e PROVE FALSE
    <2>1. d + 1 \in 1 .. D /\ e \in 1 .. D /\ d < D
      BY <1>1, <1>2, <1>3
    <2> HIDE DEF D
    <2>2. trailLevels[d + 1] <= trailLevels[e]
      <3>1. CASE d + 1 = e
        BY <1>2, <2>1, <3>1
      <3>2. CASE d + 1 < e
        BY <1>2, <2>1, <3>2
      <3> QED BY <1>1, <1>3, <2>1, <3>1, <3>2
    <2>3. trailLevels[e] < k
      BY <1>1, <2>1
    <2> QED BY <1>2, <2>1, <2>2, <2>3
  <1> QED BY <1>1, <1>2, <1>3 DEF e

\* What holds of the watches up to p holds up to a smaller q.
LEMMA WatchedLess ==
  ASSUME NEW t, NEW lv, NEW c, NEW p \in Nat, NEW q \in Nat, q <= p, DOMAIN t \subseteq Nat,
         Watched(t, lv, c, p)
  PROVE  Watched(t, lv, c, q)
  <1>1. \A k \in DOMAIN t : k <= q => k <= p
    OBVIOUS
  <1> QED BY <1>1 DEF Watched

\* Two clauses with the same watched literals.
LEMMA WatchedSame ==
  ASSUME NEW t, NEW lv, NEW c, NEW d, NEW p, Watched(t, lv, c, p),
         (d[1] = c[1] /\ d[2] = c[2]) \/ (d[1] = c[2] /\ d[2] = c[1])
  PROVE  Watched(t, lv, d, p)
  <1>1. /\ \A k \in DOMAIN t : k <= p /\ t[k] = NotLit(c[1]) => TrueBy(t, lv, c[2], Lev(t, lv, k))
        /\ \A k \in DOMAIN t : k <= p /\ t[k] = NotLit(c[2]) => TrueBy(t, lv, c[1], Lev(t, lv, k))
    <2>1. 3 - 1 = 2 /\ 3 - 2 = 1
      OBVIOUS
    <2> QED BY <2>1 DEF Watched
  <1>2. /\ \A k \in DOMAIN t : k <= p /\ t[k] = NotLit(d[1]) => TrueBy(t, lv, d[2], Lev(t, lv, k))
        /\ \A k \in DOMAIN t : k <= p /\ t[k] = NotLit(d[2]) => TrueBy(t, lv, d[1], Lev(t, lv, k))
    <2>1. CASE d[1] = c[1] /\ d[2] = c[2]
      BY <1>1, <2>1
    <2>2. CASE d[1] = c[2] /\ d[2] = c[1]
      BY <1>1, <2>2
    <2> QED BY <2>1, <2>2
  <1>3. ASSUME NEW i \in {1, 2}, NEW k \in DOMAIN t, k <= p, t[k] = NotLit(d[i])
        PROVE  TrueBy(t, lv, d[3 - i], Lev(t, lv, k))
    <2>1. CASE i = 1
      <3>1. 3 - i = 2
        BY <2>1
      <3> QED BY <1>2, <1>3, <2>1, <3>1
    <2>2. CASE i = 2
      <3>1. 3 - i = 1
        BY <2>2
      <3> QED BY <1>2, <1>3, <2>2, <3>1
    <2> QED BY <2>1, <2>2
  <1> QED BY <1>3 DEF Watched

\* A step keeps what holds of the watches of a clause that does not change, up to a place of the
\* trail that is kept.
LEMMA WatchedStays ==
  ASSUME IInv, Next, NEW c, NEW p \in Nat, p <= Len(trail), UndoLiteral => p <= KeptTrail,
         Watched(trail, level, c, p)
  PROVE  Watched(trail', level', c, p)
  <1> SUFFICES ASSUME NEW i \in {1, 2}, NEW k \in DOMAIN trail', k <= p, trail'[k] = NotLit(c[i])
               PROVE  TrueBy(trail', level', c[3 - i], Lev(trail', level', k))
    BY DEF Watched
  <1>1. /\ k \in DOMAIN trail /\ trail'[k] = trail[k]
        /\ Lev(trail', level', k) = Lev(trail, level, k)
    <2>1. CASE Still
      BY <2>1 DEF Still
    <2>2. CASE Popped
      BY <2>2, PoppedTrail DEF IInv
    <2>3. ASSUME NEW l, NEW r, Pushed(l, r)
          PROVE  /\ k \in DOMAIN trail /\ trail'[k] = trail[k]
                 /\ Lev(trail', level', k) = Lev(trail, level, k)
      <3>1. /\ Len(trail) \in Nat
            /\ \A j \in DOMAIN trail' : j \in DOMAIN trail \/ j = Len(trail) + 1
            /\ \A j \in DOMAIN trail : trail'[j] = trail[j] /\ Lev(trail', level', j) = Lev(trail, level, j)
        BY <2>3, PushedTrail DEF IInv
      <3>2. k # Len(trail) + 1
        <4> DEFINE n == Len(trail)
        <4>1. n \in Nat /\ p <= n /\ k <= p
          BY <3>1
        <4> HIDE DEF n
        <4>2. CASE k = n + 1
          BY <4>1, <4>2
        <4> QED BY <4>2 DEF n
      <3> QED BY <3>1, <3>2
    <2> QED BY <2>1, <2>2, <2>3, Moves
  <1>2. TrueBy(trail, level, c[3 - i], Lev(trail, level, k))
    BY <1>1 DEF Watched
  <1>3. Lev(trail, level, k) \in Nat
    <2>1. VarAt(trail, k) \in Var
      BY <1>1, Sequences DEF IInv
    <2> QED BY <2>1, CdclAssumption DEF IInv, Types, Lev, VarAt
  <1>4. UndoLiteral => Lev(trail, level, k) <= loc.backtrackLevel
    <2> SUFFICES ASSUME UndoLiteral PROVE Lev(trail, level, k) <= loc.backtrackLevel
      OBVIOUS
    <2>1. /\ loc.backtrackLevel \in Nat /\ loc.backtrackLevel < Len(trailLevels)
          /\ KeptTrail = trailLevels[loc.backtrackLevel + 1]
      <3>1. loc.backtrackLevel \in Nat /\ Len(trailLevels) \in Nat
        BY Sequences DEF IInv, Types, Locals
      <3> QED BY <3>1 DEF UndoLiteral, Jumps, DecisionLevel, KeptTrail
    <2>2. k <= trailLevels[loc.backtrackLevel + 1]
      <3>1. p <= KeptTrail /\ KeptTrail \in Nat /\ k \in Nat
        BY <1>1, <2>1, Sequences DEF IInv
      <3> QED BY <2>1, <3>1
    <2> QED BY <1>1, <2>1, <2>2, HighPlaces DEF IInv
  <1> QED BY <1>1, <1>2, <1>3, <1>4, TrueStays

\* How far the propagation is known to be done.
LEMMA PropagatedIsBounded ==
  ASSUME IInv, pc \notin {"exit", "done"}
  PROVE  Propagated \in Nat /\ Propagated <= Len(trail)
  <1> DEFINE n == Len(trail)
             D == Len(trailLevels)
             b == loc.backtrackLevel
  <1>1. /\ n \in Nat /\ D \in Nat /\ \A d \in 1 .. D : trailLevels[d] \in Nat
        /\ DOMAIN trailLevels = 1 .. D /\ b \in Nat /\ toPropagate \in Nat
    BY Sequences DEF IInv, Types, Locals
  <1>2. CASE pc = "watch"
    <2>1. toPropagate > 0 /\ toPropagate <= n /\ Propagated = toPropagate - 1
      BY <1>2 DEF IInv, Queue, Propagated
    <2> QED BY <1>1, <2>1
  <1>3. CASE pc = "analyze"
    <2>1. D > 0 /\ Propagated = trailLevels[D]
      BY <1>3 DEF IInv, Analysis, Analysing, Propagated, DecisionLevel
    <2>2. D \in 1 .. D
      BY <1>1, <2>1
    <2>3. trailLevels[D] < n
      BY <1>1, <1>3, <2>2 DEF IInv, Levels
    <2> QED BY <1>1, <2>1, <2>2, <2>3
  <1>4. CASE pc = "cancel" /\ Jumps
    <2>1. Propagated = KeptTrail /\ KeptTrail <= n /\ KeptTrail = trailLevels[b + 1] /\ D > b
      BY <1>4 DEF IInv, Levels, Propagated, Jumps, KeptTrail, DecisionLevel
    <2>2. b + 1 \in 1 .. D
      BY <1>1, <2>1
    <2> QED BY <1>1, <2>1, <2>2
  <1>5. CASE pc # "watch" /\ pc # "analyze" /\ ~(pc = "cancel" /\ Jumps)
    <2>1. Propagated = toPropagate /\ toPropagate <= n
      BY <1>5 DEF IInv, Queue, Propagated
    <2> QED BY <1>1, <2>1
  <1> QED BY <1>2, <1>3, <1>4, <1>5

\* Only the end of a list of watches makes more of the trail propagated.
LEMMA PropagatedMoves ==
  ASSUME IInv, Next, ~EndOfWatches, pc' \notin {"exit", "done"}
  PROVE  /\ pc \notin {"exit", "done"}
         /\ Propagated' <= Propagated /\ Propagated' \in Nat
         /\ UndoLiteral => Propagated' <= KeptTrail
  <1> DEFINE n == Len(trail)
             D == Len(trailLevels)
             b == loc.backtrackLevel
  <1>1. /\ n \in Nat /\ D \in Nat /\ \A d \in 1 .. D : trailLevels[d] \in Nat
        /\ DOMAIN trailLevels = 1 .. D /\ b \in Nat /\ toPropagate \in Nat
        /\ \A d, e \in 1 .. D : d < e => trailLevels[d] < trailLevels[e]
    <2>1. /\ n \in Nat /\ D \in Nat /\ \A d \in 1 .. D : trailLevels[d] \in Nat
          /\ DOMAIN trailLevels = 1 .. D /\ b \in Nat /\ toPropagate \in Nat
      BY Sequences DEF IInv, Types, Locals
    <2> QED BY <2>1 DEF IInv, Levels
  <1>2. pc \notin {"exit", "done"}
    BY DEF Next, BuildClause, Exit, EndOfBuild, UndoLiteral, EndOfCancel, StartSearch,
           ContinueSearch, BudgetSpent, TakeLiteral, NothingToPropagate, ClauseSatisfied,
           MoveWatch, ClauseUnit, ClauseEmpty, SkipLiteral, SeeLiteral, ResolveReason,
           FindUip, Learn, DropAssigned, Decide, AllAssigned, Inspecting
  <1>3. Propagated \in Nat /\ Propagated <= n
    BY <1>2, PropagatedIsBounded
  <1>4. \A d \in 1 .. D : trailLevels[d] <= trailLevels[D]
    <2> TAKE d \in 1 .. D
    <2>1. D \in 1 .. D /\ trailLevels[D] \in Nat /\ trailLevels[d] \in Nat
      BY <1>1
    <2> HIDE DEF D
    <2>2. CASE d = D
      BY <2>1, <2>2
    <2>3. CASE d < D
      BY <1>1, <2>1, <2>3
    <2>4. d = D \/ d < D
      BY <1>1
    <2> QED BY <2>2, <2>3, <2>4
  <1>5. CASE Exit
    BY <1>5 DEF Exit
  <1>6. CASE BuildClause \/ EndOfBuild \/ StartSearch \/ ContinueSearch \/ NothingToPropagate
             \/ DropAssigned \/ Decide \/ Learn
    <2>1. Propagated = toPropagate /\ Propagated' = toPropagate
      BY <1>6 DEF BuildClause, EndOfBuild, StartSearch, ContinueSearch, NothingToPropagate,
                  DropAssigned, Decide, Learn, Propagated, assignVars
    <2> QED BY <1>1, <1>2, <1>6, <2>1
        DEF BuildClause, EndOfBuild, StartSearch, ContinueSearch, NothingToPropagate,
            DropAssigned, Decide, Learn, UndoLiteral
  <1>7. CASE BudgetSpent \/ AllAssigned
    <2>1. /\ Propagated = toPropagate /\ toPropagate' = toPropagate /\ loc' = loc
          /\ trailLevels' = trailLevels /\ pc' = "cancel" /\ pc # "cancel"
      BY <1>7 DEF BudgetSpent, AllAssigned, Propagated, assignVars, analyzeVars
    <2>2. CASE ~Jumps'
      BY <1>1, <1>2, <2>1, <2>2 DEF Propagated, UndoLiteral
    <2>3. CASE Jumps'
      <3>1. D > b /\ Propagated' = trailLevels[b + 1]
        BY <2>1, <2>3 DEF Jumps, DecisionLevel, Propagated, KeptTrail
      <3>2. D > 0 => trailLevels[D] <= toPropagate
        BY DEF IInv, Queue, DecisionLevel
      <3>3. b + 1 \in 1 .. D /\ D > 0 /\ D \in 1 .. D
        BY <1>1, <3>1
      <3>4. trailLevels[b + 1] <= toPropagate
        BY <1>1, <1>4, <3>2, <3>3
      <3> QED BY <1>1, <1>2, <2>1, <3>1, <3>3, <3>4 DEF UndoLiteral
    <2> QED BY <2>2, <2>3
  <1>8. CASE FindUip
    <2>1. /\ Propagated = trailLevels[D] /\ b < D
          /\ trailLevels' = trailLevels /\ pc' = "cancel" /\ pc # "cancel"
          /\ loc'.backtrackLevel = b
      BY <1>8 DEF FindUip, Propagated, assignVars, NoLocals, IInv, Analysis, Analysing, DecisionLevel
    <2>2. Propagated' = trailLevels[b + 1]
      BY <2>1 DEF Jumps, DecisionLevel, Propagated, KeptTrail
    <2>3. b + 1 \in 1 .. D
      BY <1>1, <2>1
    <2> QED BY <1>1, <1>2, <1>4, <2>1, <2>2, <2>3 DEF UndoLiteral
  <1>9. CASE UndoLiteral
    <2>1. /\ Propagated = KeptTrail /\ Propagated' = KeptTrail
      BY <1>9 DEF UndoLiteral, Propagated, KeptTrail, Jumps, DecisionLevel, analyzeVars
    <2> QED BY <1>2, <1>3, <2>1
  <1>10. CASE EndOfCancel
    <2>1. /\ pc = "cancel" /\ pc' \in {"learn", "done", "restart"}
          /\ toPropagate' = IF Jumps THEN KeptTrail ELSE toPropagate
      BY <1>10 DEF EndOfCancel
    <2>2. Propagated' = toPropagate' /\ Propagated = toPropagate'
      BY <2>1 DEF Propagated
    <2>3. ~UndoLiteral
      BY <1>10, <2>1 DEF UndoLiteral
    <2> QED BY <1>2, <1>3, <2>2, <2>3
  <1>11. CASE TakeLiteral
    <2>1. Propagated = toPropagate /\ Propagated' = (toPropagate + 1) - 1 /\ pc # "cancel"
      BY <1>11 DEF TakeLiteral, Propagated
    <2> QED BY <1>1, <1>2, <2>1 DEF UndoLiteral
  <1>12. CASE ClauseSatisfied \/ MoveWatch \/ ClauseUnit
    <2>1. Propagated' = Propagated /\ pc # "cancel"
      BY <1>12 DEF ClauseSatisfied, MoveWatch, ClauseUnit, Inspecting, Propagated, assignVars
    <2> QED BY <1>2, <1>3, <2>1 DEF UndoLiteral
  <1>13. CASE ClauseEmpty
    <2>1. /\ Propagated = toPropagate - 1 /\ pc = "watch" /\ pc' = "analyze" /\ D # 0
          /\ trailLevels' = trailLevels
      BY <1>13 DEF ClauseEmpty, Inspecting, Propagated, DecisionLevel
    <2>2. Propagated' = trailLevels[D]
      BY <2>1 DEF Propagated, DecisionLevel
    <2>3. D > 0 => trailLevels[D] < toPropagate
      BY <2>1 DEF IInv, Queue, DecisionLevel
    <2>4. D \in 1 .. D /\ D > 0
      BY <1>1, <2>1
    <2>5. trailLevels[D] \in Nat
      BY <1>1, <2>4
    <2> HIDE DEF D
    <2> QED BY <1>1, <1>2, <2>1, <2>2, <2>3, <2>4, <2>5 DEF UndoLiteral
  <1>14. CASE SkipLiteral \/ SeeLiteral \/ ResolveReason
    <2>1. Propagated' = Propagated /\ pc # "cancel"
      BY <1>14 DEF SkipLiteral, SeeLiteral, ResolveReason, Propagated, assignVars, DecisionLevel
    <2> QED BY <1>2, <1>3, <2>1 DEF UndoLiteral
  <1> QED BY <1>5, <1>6, <1>7, <1>8, <1>9, <1>10, <1>11, <1>12, <1>13, <1>14 DEF Next

\* A literal and its negation are not both on the trail, nor one at two places.
LEMMA NotBoth ==
  ASSUME Types, Assigned, NEW l \in Lit, NEW j \in DOMAIN trail, NEW k \in DOMAIN trail
  PROVE  /\ ~(trail[j] = l /\ trail[k] = NotLit(l))
         /\ trail[j] = l /\ trail[k] = l => j = k
  <1>1. ~(trail[j] = l /\ trail[k] = NotLit(l))
    BY ValueOfLiteral DEF OnTrail
  <1>2. trail[j] = l /\ trail[k] = l => j = k
    BY DEF Assigned, VarAt
  <1> QED BY <1>1, <1>2

\* The two watched literals of the inspected clause, before they move.
LEMMA InspectedWatched ==
  ASSUME IInv, Inspecting
  PROVE  Watched(trail, level, Inspected, Propagated)
  <1> DEFINE c == clauses[WatchList[wlPos]]
  <1>1. /\ WatchList[wlPos] \in DOMAIN clauses /\ Len(c) > 1
        /\ \/ Inspected[1] = c[1] /\ Inspected[2] = c[2]
           \/ Inspected[1] = c[2] /\ Inspected[2] = c[1]
    BY InspectedClause, InspectedLiterals DEF IInv
  <1>2. Watched(trail, level, c, Propagated)
    BY <1>1 DEF IInv, Watches, Inspecting
  <1> QED BY <1>1, <1>2, WatchedSame

\* A clause whose second watched literal moves has none that is false.
LEMMA MovedWatched ==
  ASSUME IInv, MoveWatch, NEW d \in Clause, Len(d) > 1, d[1] = Inspected[1],
         ValueLit(d[2]) # False
  PROVE  Watched(trail, level, d, Propagated)
  <1>1. /\ Inspecting /\ ValueLit(Inspected[1]) # True
        /\ Inspected[2] = NotLit(LitToPropagate) /\ LitToPropagate \in Lit
        /\ toPropagate \in DOMAIN trail
    BY InspectedClause, InspectedIsWatched DEF MoveWatch, IInv
  <1>2. d[1] \in Lit /\ d[2] \in Lit
    BY Clauses
  <1>3. ASSUME NEW k \in DOMAIN trail, k <= Propagated, trail[k] = NotLit(d[1])
        PROVE  FALSE
    <2>1. TrueBy(trail, level, Inspected[2], Lev(trail, level, k))
      <3>1. 3 - 1 = 2
        OBVIOUS
      <3> QED BY <1>1, <1>3, <3>1, InspectedWatched DEF Watched
    <2>2. PICK q \in DOMAIN trail : trail[q] = NotLit(LitToPropagate)
      BY <1>1, <2>1 DEF TrueBy
    <2>3. trail[toPropagate] = LitToPropagate
      BY DEF LitToPropagate
    <2> QED BY <1>1, <2>2, <2>3, NotBoth DEF IInv
  <1>4. ASSUME NEW k \in DOMAIN trail, trail[k] = NotLit(d[2])
        PROVE  FALSE
    BY <1>2, <1>4, ValueOfLiteral DEF OnTrail, IInv
  <1>5. \A i \in {1, 2} : \A k \in DOMAIN trail : ~(k <= Propagated /\ trail[k] = NotLit(d[i]))
    BY <1>3, <1>4
  <1> QED BY <1>5 DEF Watched

\* The clause that was learnt has its first literal made true, and its second
\* one is of the same level.
LEMMA LearntWatched ==
  ASSUME IInv, Learn, Len(loc.learnt) > 1
  PROVE  Watched(trail', level', loc.learnt, toPropagate)
  <1> DEFINE c == loc.learnt
             n == Len(trail)
             l == c[1]
  <1>1. /\ Highest(trail, level, c[2], loc.backtrackLevel)
        /\ Len(trailLevels) = loc.backtrackLevel
        /\ c \in Clause /\ toPropagate = n
    <2>1. c \in Clause
      BY DEF IInv, Types, Locals, Learning, Learn, Clause
    <2> QED BY <2>1 DEF IInv, Learning, Learn, DecisionLevel, Queue
  <1>2. c[1] \in Lit /\ c[2] \in Lit
    BY <1>1, Clauses
  <1>3. /\ n \in Nat /\ n + 1 \in DOMAIN trail' /\ trail'[n + 1] = l
        /\ Lev(trail', level', n + 1) = Len(trailLevels')
        /\ \A k \in DOMAIN trail' : k \in DOMAIN trail \/ k = n + 1
        /\ \A k \in DOMAIN trail : /\ trail'[k] = trail[k] /\ VarAt(trail, k) # LitToVar(l)
                                   /\ Lev(trail', level', k) = Lev(trail, level, k)
    <2> DEFINE r == IF Len(loc.learnt) = 1 THEN None ELSE Len(clauses) + 1
    <2>1. Pushed(l, r)
      BY LearnPushes
    <2> HIDE DEF l, r
    <2> QED BY <2>1, PushedTrail DEF IInv
  <1>4. trailLevels' = trailLevels
    BY DEF Learn
  <1>5. PICK h \in DOMAIN trail : trail[h] = NotLit(c[2]) /\ Lev(trail, level, h) = loc.backtrackLevel
    BY <1>1 DEF Highest
  <1>6. TrueBy(trail', level', c[1], loc.backtrackLevel)
    <2>1. Lev(trail', level', n + 1) = loc.backtrackLevel /\ loc.backtrackLevel \in Nat
      BY <1>1, <1>3, <1>4 DEF IInv, Types, Locals
    <2> HIDE DEF n, c
    <2> QED BY <1>3, <2>1 DEF TrueBy, l
  <1>7. ASSUME NEW i \in {1, 2}, NEW k \in DOMAIN trail', k <= toPropagate, trail'[k] = NotLit(c[i])
        PROVE  TrueBy(trail', level', c[3 - i], Lev(trail', level', k))
    <2>1. k \in DOMAIN trail
      <3> HIDE DEF n
      <3>1. k # n + 1
        <4>1. CASE k = n + 1
          BY <1>1, <1>3, <1>7, <4>1
        <4> QED BY <4>1
      <3> QED BY <1>3, <3>1
    <2>2. CASE i = 1
      <3>1. trail[k] = NotLit(l)
        BY <1>3, <1>7, <2>1, <2>2
      <3>2. VarAt(trail, k) = LitToVar(l)
        BY <1>2, <3>1, Literals DEF VarAt
      <3> QED BY <1>3, <2>1, <3>2
    <2>3. CASE i = 2
      <3>1. trail[k] = NotLit(c[2])
        BY <1>3, <1>7, <2>1, <2>3
      <3>2. k = h
        <4>1. NotLit(c[2]) \in Lit
          BY <1>2, Literals
        <4> QED BY <1>5, <2>1, <3>1, <4>1, NotBoth DEF IInv
      <3>3. Lev(trail', level', k) = loc.backtrackLevel /\ 3 - i = 1
        BY <1>3, <1>5, <2>1, <2>3, <3>2
      <3> QED BY <1>6, <3>3
    <2> QED BY <2>2, <2>3
  <1> QED BY <1>7 DEF Watched

\* A clause of the list whose inspection is over has its first literal true.
LEMMA PropagatedThrough ==
  ASSUME IInv, EndOfWatches, NEW x \in DOMAIN clauses, Len(clauses[x]) > 1
  PROVE  Watched(trail, level, clauses[x], toPropagate)
  <1> DEFINE c == clauses[x]
             L == LitToPropagate
             D == Len(trailLevels)
  <1>1. /\ pc = "watch" /\ wlPos > Len(WatchList) /\ Propagated = toPropagate - 1
        /\ toPropagate > 0 /\ toPropagate <= Len(trail)
        /\ D > 0 => trailLevels[D] < toPropagate
    BY DEF EndOfWatches, Propagated, IInv, Queue, DecisionLevel
  <1>2. /\ toPropagate \in Nat /\ toPropagate \in DOMAIN trail /\ D \in Nat
        /\ \A d \in 1 .. D : trailLevels[d] \in Nat
        /\ c \in Clause /\ wlPos \in Nat
    <2>1. /\ Len(trail) \in Nat /\ DOMAIN trail = 1 .. Len(trail) /\ D \in Nat
          /\ \A d \in 1 .. D : trailLevels[d] \in Nat
          /\ c \in Clause
      BY Sequences DEF IInv
    <2>2. toPropagate \in Nat /\ wlPos \in Nat
      BY DEF IInv, Types
    <2> QED BY <1>1, <2>1, <2>2
  <1>3. L \in Lit /\ L = trail[toPropagate]
    BY <1>2, Sequences DEF LitToPropagate, IInv
  <1>4. c[1] \in Lit /\ c[2] \in Lit /\ 1 \in DOMAIN c /\ 2 \in DOMAIN c
    <2>1. DOMAIN c = 1 .. Len(c) /\ Len(c) \in Nat /\ \A i \in DOMAIN c : c[i] \in Lit
      BY <1>2, Clauses
    <2> QED BY <2>1
  <1>5. Watched(trail, level, c, toPropagate - 1)
    BY <1>1 DEF IInv, Watches
  <1>6. Lev(trail, level, toPropagate) = D
    <2>1. OfLevel(trail, trailLevels, toPropagate, Lev(trail, level, toPropagate))
      BY <1>2 DEF IInv, Levels
    <2> DEFINE e == Lev(trail, level, toPropagate)
    <2>2. e \in 0 .. D /\ (e < D => toPropagate <= trailLevels[e + 1])
      BY <2>1 DEF OfLevel
    <2>3. \A d, f \in 1 .. D : d < f => trailLevels[d] < trailLevels[f]
      BY Sequences DEF IInv, Levels
    <2> HIDE DEF e, D
    <2>4. ASSUME e < D PROVE FALSE
      <3>1. e + 1 \in 1 .. D /\ D \in 1 .. D /\ D > 0
        BY <1>2, <2>2, <2>4
      <3>2. trailLevels[e + 1] <= trailLevels[D]
        <4>1. CASE e + 1 = D
          BY <1>2, <3>1, <4>1
        <4>2. CASE e + 1 < D
          BY <1>2, <2>3, <3>1, <4>2
        <4> QED BY <1>2, <2>2, <2>4, <4>1, <4>2
      <3>3. trailLevels[e + 1] \in Nat /\ trailLevels[D] \in Nat
        BY <1>2, <3>1
      <3> QED BY <1>1, <1>2, <2>2, <2>4, <3>1, <3>2, <3>3
    <2> QED BY <1>2, <2>2, <2>4 DEF e
  <1>7. ASSUME NEW i \in {1, 2}, c[i] = NotLit(L)
        PROVE  i = 2 /\ TrueBy(trail, level, c[1], D)
    <2>1. i \in Places(c, L)
      BY <1>4, <1>7 DEF Places
    <2>2. Cardinality(Occurrences(WatchList, x)) = Cardinality(Places(c, L))
      BY <1>1, <1>3 DEF IInv, Lists, Started, WatchList
    <2>3. Occurrences(WatchList, x) # {}
      <3> SUFFICES ASSUME Occurrences(WatchList, x) = {} PROVE FALSE
        OBVIOUS
      <3>1. Cardinality(Places(c, L)) = 0
        BY <2>2, FS_EmptySet
      <3>2. IsFiniteSet(Places(c, L))
        <4>1. IsFiniteSet({1, 2})
          BY FS_Interval, 1 \in Int, 2 \in Int, {1, 2} = 1 .. 2
        <4>2. Places(c, L) \subseteq {1, 2}
          BY DEF Places
        <4> QED BY <4>1, <4>2, FS_Subset
      <3> QED BY <2>1, <3>1, <3>2, FS_EmptySet
    <2>4. PICK j \in DOMAIN WatchList : WatchList[j] = x
      BY <2>3 DEF Occurrences
    <2>5. j < wlPos
      <3>1. WatchList \in Seq(1 .. Len(clauses))
        BY <1>3 DEF IInv, Types, WatchList
      <3>2. Len(WatchList) \in Nat /\ DOMAIN WatchList = 1 .. Len(WatchList)
        BY <3>1
      <3> DEFINE m == Len(WatchList)
      <3>3. m \in Nat /\ j \in 1 .. m /\ wlPos > m
        BY <1>1, <2>4, <3>2
      <3> HIDE DEF m
      <3> QED BY <1>2, <3>3
    <2>6. OnTrail(trail, c[1])
      BY <1>1, <2>4, <2>5 DEF IInv, Watches
    <2>7. PICK q \in DOMAIN trail : trail[q] = c[1]
      BY <2>6 DEF OnTrail
    <2>8. Lev(trail, level, q) <= D
      <3>1. Lev(trail, level, q) \in 0 .. D
        BY <2>7 DEF IInv, Levels, OfLevel
      <3> QED BY <1>2, <3>1
    <2>9. i # 1
      <3> SUFFICES ASSUME i = 1 PROVE FALSE
        OBVIOUS
      <3>1. trail[q] = NotLit(L)
        BY <1>7, <2>7
      <3> QED BY <1>2, <1>3, <2>7, <3>1, NotBoth DEF IInv
    <2> QED BY <2>7, <2>8, <2>9 DEF TrueBy
  <1>8. ASSUME NEW i \in {1, 2}, NEW k \in DOMAIN trail, k <= toPropagate, trail[k] = NotLit(c[i])
        PROVE  TrueBy(trail, level, c[3 - i], Lev(trail, level, k))
    <2>1. k \in Nat
      BY Sequences DEF IInv
    <2>2. CASE k <= toPropagate - 1
      BY <1>5, <1>8, <2>2 DEF Watched
    <2>3. CASE k = toPropagate
      <3>1. NotLit(c[i]) = L
        BY <1>3, <1>8, <2>3
      <3>2. c[i] = NotLit(L)
        BY <1>4, <3>1, Literals
      <3>3. i = 2 /\ TrueBy(trail, level, c[1], D)
        BY <1>7, <3>2
      <3>4. 3 - i = 1
        BY <3>3
      <3> QED BY <1>6, <2>3, <3>3, <3>4
    <2> QED BY <1>2, <1>8, <2>1, <2>2, <2>3
  <1> QED BY <1>8 DEF Watched

\* After a step each clause is watched up to what was propagated.
LEMMA WatchedKept ==
  ASSUME IInv, Next, pc' \notin {"exit", "done"},
         NEW x \in DOMAIN clauses', Len(clauses'[x]) > 1
  PROVE  Watched(trail', level', clauses'[x], Propagated')
  <1>1. DOMAIN trail \subseteq Nat /\ Len(trail) \in Nat
    BY Sequences DEF IInv
  <1>2. CASE EndOfWatches
    <2>1. clauses' = clauses /\ trail' = trail /\ level' = level /\ Propagated' = toPropagate
      BY <1>2 DEF EndOfWatches, Propagated, assignVars
    <2> QED BY <1>2, <2>1, PropagatedThrough
  <1>3. CASE ~EndOfWatches
    <2>1. /\ pc \notin {"exit", "done"} /\ Propagated \in Nat /\ Propagated <= Len(trail)
          /\ Propagated' <= Propagated /\ Propagated' \in Nat
          /\ UndoLiteral => Propagated' <= KeptTrail
      BY <1>3, PropagatedMoves, PropagatedIsBounded
    <2>2. ASSUME NEW c, Watched(trail, level, c, Propagated)
          PROVE  Watched(trail', level', c, Propagated')
      <3>1. Watched(trail, level, c, Propagated')
        BY <1>1, <2>1, <2>2, WatchedLess
      <3>2. Propagated' <= Len(trail)
        BY <1>1, <2>1
      <3> QED BY <2>1, <3>1, <3>2, WatchedStays
    <2>3. ASSUME x \in DOMAIN clauses, clauses'[x] = clauses[x]
          PROVE  Watched(trail', level', clauses'[x], Propagated')
      <3>1. Watched(trail, level, clauses[x], Propagated)
        BY <2>1, <2>3 DEF IInv, Watches
      <3> QED BY <2>2, <2>3, <3>1
    <2>4. CASE clauses' = clauses
      BY <2>3, <2>4
    <2> DEFINE w == WatchList[wlPos]
    <2>5. CASE ClauseSatisfied \/ ClauseUnit \/ ClauseEmpty
      <3>1. Inspecting /\ clauses' = [clauses EXCEPT ![w] = Inspected]
        BY <2>5 DEF ClauseSatisfied, ClauseUnit, ClauseEmpty
      <3>2. Watched(trail, level, Inspected, Propagated)
        BY <3>1, InspectedWatched
      <3>3. x \in DOMAIN clauses
        BY <3>1
      <3>4. CASE x = w
        BY <2>2, <3>1, <3>2, <3>3, <3>4
      <3>5. CASE x # w
        BY <2>3, <3>1, <3>3, <3>5
      <3> QED BY <3>4, <3>5
    <2>6. CASE MoveWatch
      <3>1. PICK k \in 3 .. Len(Inspected) :
              /\ k \in DOMAIN Inspected
              /\ ValueLit(Inspected[k]) # False
              /\ clauses' = [clauses EXCEPT ![w] = Moved(k)]
              /\ Moved(k) \in Clause /\ Len(Moved(k)) = Len(Inspected)
              /\ Moved(k)[1] = Inspected[1] /\ Moved(k)[2] = Inspected[k]
        BY <2>6, MovedClause DEF IInv
      <3>2. Len(Inspected) > 1
        BY <2>6, InspectedIsWatched DEF IInv, MoveWatch
      <3>3. Watched(trail, level, Moved(k), Propagated)
        BY <2>6, <3>1, <3>2, MovedWatched
      <3>4. x \in DOMAIN clauses
        BY <3>1
      <3>5. CASE x = w
        BY <2>2, <3>1, <3>3, <3>4, <3>5
      <3>6. CASE x # w
        BY <2>3, <3>1, <3>4, <3>6
      <3> QED BY <3>5, <3>6
    <2>7. CASE Learn /\ Len(loc.learnt) > 1
      <3>1. /\ x \in DOMAIN clauses \/ x = Len(clauses) + 1
            /\ clauses'[Len(clauses) + 1] = loc.learnt
            /\ \A i \in DOMAIN clauses : clauses'[i] = clauses[i]
        BY <2>7, AppendedClause
      <3>2. Watched(trail', level', loc.learnt, toPropagate)
        BY <2>7, LearntWatched
      <3>3. Propagated' = toPropagate
        BY <2>7 DEF Learn, Propagated
      <3> QED BY <2>3, <3>1, <3>2, <3>3
    <2> QED BY <2>4, <2>5, <2>6, <2>7, ClauseMoves
  <1> QED BY <1>2, <1>3

\* The clauses of the list that were inspected.
LEMMA InspectedKept ==
  ASSUME IInv, Next, pc' = "watch",
         NEW i \in DOMAIN WatchList', i < wlPos'
  PROVE  LET c == clauses'[WatchList'[i]]
         IN  OnTrail(trail', c[1]) /\ (Len(c) > 1 => c[2] = NotLit(LitToPropagate'))
  <1>1. WatchList' = watches'[LitToPropagate']
    BY DEF WatchList
  <1>2. CASE TakeLiteral
    <2>1. wlPos' = 1 /\ toPropagate \in Nat /\ toPropagate < Len(trail)
          /\ watches' = watches /\ trail' = trail /\ toPropagate' = toPropagate + 1
      BY <1>2 DEF TakeLiteral, IInv, Types
    <2>2. LitToPropagate' \in Lit
      <3>1. toPropagate + 1 \in DOMAIN trail
        BY <2>1, Sequences DEF IInv
      <3> QED BY <2>1, <3>1, Sequences DEF IInv, LitToPropagate
    <2>3. watches'[LitToPropagate'] \in Seq(1 .. Len(clauses))
      BY <2>1, <2>2 DEF IInv, Types
    <2>4. i \in Nat /\ i > 0
      BY <1>1, <2>3
    <2> QED BY <2>1, <2>4
  <1>3. CASE ClauseSatisfied \/ MoveWatch \/ ClauseUnit
    <2> DEFINE L == LitToPropagate
               w == WatchList[wlPos]
    <2>1. /\ pc = "watch" /\ Inspecting /\ L \in Lit /\ toPropagate \in DOMAIN trail
          /\ WatchList \in Seq(1 .. Len(clauses)) /\ wlPos \in DOMAIN WatchList
          /\ w \in DOMAIN clauses /\ Inspected \in Clause /\ Len(Inspected) > 1
          /\ Inspected[2] = NotLit(L)
      <3>1. Inspecting /\ pc = "watch"
        BY <1>3 DEF ClauseSatisfied, MoveWatch, ClauseUnit, Inspecting
      <3> QED BY <3>1, InspectedClause, InspectedIsWatched DEF IInv
    <2>2. LitToPropagate' = L /\ toPropagate' = toPropagate
      <3>1. CASE ClauseSatisfied \/ MoveWatch
        BY <3>1 DEF ClauseSatisfied, MoveWatch, assignVars, LitToPropagate
      <3>2. CASE ClauseUnit
        <4>1. trail'[toPropagate] = trail[toPropagate]
          BY <2>1, <3>2, UnitPushes, PushedTrail DEF IInv
        <4> QED BY <3>2, <4>1 DEF ClauseUnit, LitToPropagate
      <3> QED BY <1>3, <3>1, <3>2
    <2>3. ASSUME NEW l, OnTrail(trail, l) PROVE OnTrail(trail', l)
      <3>1. CASE ClauseSatisfied \/ MoveWatch
        BY <2>3, <3>1 DEF ClauseSatisfied, MoveWatch, assignVars
      <3>2. CASE ClauseUnit
        <4>1. \A k \in DOMAIN trail : k \in DOMAIN trail' /\ trail'[k] = trail[k]
          BY <3>2, UnitPushes, PushedTrail DEF IInv
        <4> QED BY <2>3, <4>1 DEF OnTrail
      <3> QED BY <1>3, <3>1, <3>2
    <2>4. ASSUME NEW j \in DOMAIN WatchList, j < wlPos
          PROVE  LET c == clauses'[WatchList[j]]
                 IN  OnTrail(trail', c[1]) /\ (Len(c) > 1 => c[2] = NotLit(L))
      <3> DEFINE y == WatchList[j]
      <3>1. y \in DOMAIN clauses
        <4>1. y \in 1 .. Len(clauses)
          BY <2>1
        <4> QED BY <4>1, Sequences DEF IInv
      <3>2. OnTrail(trail, clauses[y][1]) /\ (Len(clauses[y]) > 1 => clauses[y][2] = NotLit(L))
        BY <2>1, <2>4 DEF IInv, Watches
      <3>3. clauses'[y] = clauses[y]
        BY <3>1, <3>2, ClausesGo
      <3> QED BY <2>3, <3>2, <3>3
    <2>5. CASE ClauseSatisfied \/ ClauseUnit
      <3>1. /\ wlPos' = wlPos + 1 /\ watches' = watches
            /\ clauses' = [clauses EXCEPT ![w] = Inspected]
        BY <2>5 DEF ClauseSatisfied, ClauseUnit
      <3>2. WatchList' = WatchList
        BY <1>1, <2>2, <3>1 DEF WatchList
      <3>3. i \in DOMAIN WatchList /\ i \in Nat /\ wlPos \in Nat
        BY <2>1, <3>2 DEF IInv, Types
      <3>4. CASE i < wlPos
        BY <2>2, <2>4, <3>2, <3>3, <3>4
      <3>5. CASE i = wlPos
        <4>1. clauses'[WatchList'[i]] = Inspected
          BY <2>1, <3>1, <3>2, <3>5
        <4>2. OnTrail(trail', Inspected[1])
          <5>1. Inspected[1] \in Lit
            BY <2>1, Clauses
          <5>2. CASE ClauseSatisfied
            <6>1. OnTrail(trail, Inspected[1])
              BY <5>1, <5>2, ValueOfLiteral DEF ClauseSatisfied, IInv
            <6> QED BY <2>3, <6>1
          <5>3. CASE ClauseUnit
            <6> DEFINE n == Len(trail)
            <6>1. n + 1 \in DOMAIN trail' /\ trail'[n + 1] = Inspected[1]
              BY <5>3, UnitPushes, PushedTrail DEF IInv
            <6> HIDE DEF n
            <6> QED BY <6>1 DEF OnTrail
          <5> QED BY <2>5, <5>2, <5>3
        <4> QED BY <2>1, <2>2, <4>1, <4>2
      <3>6. i < wlPos \/ i = wlPos
        BY <3>1, <3>3
      <3> QED BY <3>4, <3>5, <3>6
    <2>6. CASE MoveWatch
      <3>1. PICK k \in 3 .. Len(Inspected) :
              /\ k \in DOMAIN Inspected
              /\ ValueLit(Inspected[k]) # False
              /\ watches' = [[watches EXCEPT ![L] = RemoveAt(@, wlPos)]
                                      EXCEPT ![NotLit(Inspected[k])] = Append(@, w)]
        BY <2>6, MovedClause DEF IInv
      <3>2. NotLit(Inspected[k]) # L
        <4> SUFFICES ASSUME NotLit(Inspected[k]) = L PROVE FALSE
          OBVIOUS
        <4>1. Inspected[k] \in Lit
          BY <2>1, <3>1, Clauses
        <4>2. OnTrail(trail, NotLit(Inspected[k]))
          BY <2>1 DEF OnTrail, LitToPropagate
        <4> QED BY <3>1, <4>1, <4>2, ValueOfLiteral DEF IInv
      <3>3. WatchList' = RemoveAt(WatchList, wlPos)
        <4> DEFINE e == [watches EXCEPT ![L] = RemoveAt(@, wlPos)]
        <4>1. watches \in [Lit -> Seq(1 .. Len(clauses))]
          BY DEF IInv, Types
        <4>2. e[L] = RemoveAt(watches[L], wlPos) /\ DOMAIN e = Lit
          BY <2>1, <4>1
        <4> HIDE DEF e
        <4>3. watches'[L] = e[L]
          BY <3>1, <3>2, <2>1, <4>2 DEF e
        <4> QED BY <1>1, <2>2, <4>2, <4>3 DEF WatchList
      <3>4. wlPos' = wlPos
        BY <2>6 DEF MoveWatch
      <3>5. i \in DOMAIN WatchList /\ RemoveAt(WatchList, wlPos)[i] = WatchList[i]
        <4> DEFINE s == WatchList
                   m == Len(WatchList)
        <4>1. m \in Nat /\ DOMAIN s = 1 .. m /\ wlPos \in 1 .. m /\ s \in Seq(1 .. Len(clauses))
          BY <2>1
        <4>2. /\ Len(RemoveAt(s, wlPos)) = m - 1
              /\ DOMAIN RemoveAt(s, wlPos) = 1 .. m - 1
              /\ \A j \in 1 .. m - 1 : j < wlPos => RemoveAt(s, wlPos)[j] = s[j]
          BY <4>1, RemoveAtFacts
        <4>3. i \in 1 .. m - 1 /\ i < wlPos
          BY <3>3, <3>4, <4>2
        <4> HIDE DEF s, m
        <4>4. RemoveAt(s, wlPos)[i] = s[i]
          BY <4>2, <4>3
        <4>5. i \in DOMAIN s
          BY <4>1, <4>3
        <4> QED BY <4>4, <4>5 DEF s
      <3> QED BY <2>2, <2>4, <3>3, <3>4, <3>5
    <2> QED BY <1>3, <2>5, <2>6
  <1>4. TakeLiteral \/ ClauseSatisfied \/ MoveWatch \/ ClauseUnit
    BY DEF Next, BuildClause, Exit, EndOfBuild, UndoLiteral, EndOfCancel, StartSearch,
           ContinueSearch, BudgetSpent, NothingToPropagate, ClauseEmpty, EndOfWatches,
           SkipLiteral, SeeLiteral, ResolveReason, FindUip, Learn, DropAssigned, Decide,
           AllAssigned, Inspecting
  <1> QED BY <1>2, <1>3, <1>4

\* Every step keeps the watches.
LEMMA WatchesKept ==
  ASSUME IInv, Next
  PROVE  Watches'
  BY WatchedKept, InspectedKept DEF Watches

-----------------------------------------------------------------------------
(***************************************************************************)
(* What follows from the formula.                                          *)
(***************************************************************************)
LEMMA SatNegation ==
  ASSUME NEW m \in [Var -> BOOLEAN], NEW l \in Lit
  PROVE  SatLit(m, NotLit(l)) <=> ~SatLit(m, l)
  <1>1. /\ LitToVar(l) \in Var /\ SignLit(l) \in {0, 1} /\ LitToVar(NotLit(l)) = LitToVar(l)
        /\ SignLit(NotLit(l)) = 1 - SignLit(l)
    BY Literals
  <1>2. (SignLit(NotLit(l)) = 0) <=> ~(SignLit(l) = 0)
    BY <1>1
  <1>3. m[LitToVar(l)] \in BOOLEAN
    BY <1>1
  <1> DEFINE b == m[LitToVar(l)]
             p == SignLit(l) = 0
             q == SignLit(NotLit(l)) = 0
  <1>4. SatLit(m, l) <=> (b = p)
    BY DEF SatLit
  <1>5. SatLit(m, NotLit(l)) <=> (b = q)
    BY <1>1 DEF SatLit
  <1>6. b \in BOOLEAN /\ p \in BOOLEAN /\ q \in BOOLEAN /\ (q <=> ~p)
    BY <1>2, <1>3
  <1> HIDE DEF b, p, q
  <1> QED BY <1>4, <1>5, <1>6

\* The order of the literals does not matter.
LEMMA SatSame ==
  ASSUME NEW m, NEW c, NEW d, SameLiterals(c, d), Sat(m, c)
  PROVE  Sat(m, d)
  <1>1. PICK i \in DOMAIN c : SatLit(m, c[i])
    BY DEF Sat
  <1>2. PICK j \in DOMAIN d : d[j] = c[i]
    BY DEF SameLiterals
  <1> QED BY <1>1, <1>2 DEF Sat

\* If the literals of a clause but the first are false at level 0, the first
\* one follows.
LEMMA UnitFollows ==
  ASSUME Types, Follows, NEW m \in Models(formula), NEW c \in Clause, Sat(m, c),
         \A i \in 2 .. Len(c) : \E p \in DOMAIN trail :
            trail[p] = NotLit(c[i]) /\ Lev(trail, level, p) = 0
  PROVE  SatLit(m, c[1])
  <1>1. PICK i \in DOMAIN c : SatLit(m, c[i])
    BY DEF Sat
  <1>2. m \in [Var -> BOOLEAN]
    BY DEF Models
  <1>3. ASSUME i # 1 PROVE FALSE
    <2>1. i \in 2 .. Len(c) /\ c[i] \in Lit
      BY <1>1, <1>3, Clauses
    <2>2. PICK p \in DOMAIN trail : trail[p] = NotLit(c[i]) /\ Lev(trail, level, p) = 0
      BY <2>1
    <2>3. SatLit(m, NotLit(c[i]))
      BY <2>2 DEF Follows
    <2> QED BY <1>1, <1>2, <2>1, <2>3, SatNegation
  <1> QED BY <1>1, <1>3

\* The literals of the inspected clause when no other can be watched.
LEMMA InspectedFalse ==
  ASSUME IInv, Inspecting, NewWatches = {}, NEW i \in 2 .. Len(Inspected)
  PROVE  ValueLit(Inspected[i]) = False /\ OnTrail(trail, NotLit(Inspected[i]))
  <1>1. /\ Inspected \in Clause /\ Len(Inspected) \in Nat
        /\ Inspected[2] = NotLit(LitToPropagate) /\ LitToPropagate \in Lit
        /\ toPropagate \in DOMAIN trail
    BY InspectedClause, InspectedIsWatched, Clauses DEF IInv
  <1>2. i \in DOMAIN Inspected /\ Inspected[i] \in Lit
    BY <1>1, Clauses
  <1>3. CASE i = 2
    <2>1. NotLit(Inspected[i]) = LitToPropagate
      BY <1>1, <1>3, Literals
    <2>2. OnTrail(trail, NotLit(Inspected[i]))
      BY <1>1, <2>1 DEF OnTrail, LitToPropagate
    <2> QED BY <1>2, <2>2, ValueOfLiteral DEF IInv
  <1>4. CASE i # 2
    <2>1. i \in 3 .. Len(Inspected)
      BY <1>1, <1>4
    <2>2. ValueLit(Inspected[i]) = False
      BY <2>1 DEF NewWatches
    <2> QED BY <1>2, <2>2, ValueOfLiteral DEF IInv
  <1> QED BY <1>3, <1>4

\* The inspected clause is true in every model.
LEMMA InspectedFollows ==
  ASSUME IInv, Inspecting, NEW m \in Models(formula)
  PROVE  Sat(m, Inspected)
  <1> DEFINE c == clauses[WatchList[wlPos]]
  <1>1. WatchList[wlPos] \in DOMAIN clauses /\ SameLiterals(c, Inspected)
    BY InspectedClause, InspectedLiterals DEF IInv
  <1>2. Sat(m, c)
    BY <1>1 DEF IInv, Follows
  <1> QED BY <1>1, <1>2, SatSame

\* A literal that is enqueued at level 0.
LEMMA PushedFollows ==
  ASSUME IInv, Next, NEW l, NEW r, Pushed(l, r), Len(trailLevels') = 0,
         \/ BuildClause /\ l = clauses[wlPos][1] /\ r = None /\ Len(clauses[wlPos]) = 1
         \/ ClauseUnit /\ l = Inspected[1] /\ r = WatchList[wlPos]
         \/ Learn /\ l = loc.learnt[1] /\ r = IF Len(loc.learnt) = 1 THEN None ELSE Len(clauses) + 1
         \/ Decide /\ l = VarToLit(varHeap.heap[1], polarity[varHeap.heap[1]]) /\ r = None,
         NEW m \in Models(formula)
  PROVE  SatLit(m, l)
  <1>1. CASE BuildClause /\ l = clauses[wlPos][1] /\ Len(clauses[wlPos]) = 1
    <2>1. wlPos \in DOMAIN clauses
      BY <1>1, Sequences DEF BuildClause, IInv, Types
    <2>2. clauses[wlPos] \in Clause /\ Sat(m, clauses[wlPos])
      BY <2>1, Sequences DEF IInv, Follows
    <2>3. \A i \in DOMAIN clauses[wlPos] : i = 1
      BY <1>1, <2>2, Clauses
    <2> QED BY <1>1, <2>2, <2>3 DEF Sat
  <1>2. CASE ClauseUnit /\ l = Inspected[1]
    <2>1. Inspecting /\ NewWatches = {} /\ trailLevels' = trailLevels
      BY <1>2 DEF ClauseUnit
    <2>2. Inspected \in Clause
      BY <2>1, InspectedClause DEF IInv
    <2>3. Sat(m, Inspected)
      BY <2>1, InspectedFollows
    <2>4. ASSUME NEW i \in 2 .. Len(Inspected)
          PROVE  \E p \in DOMAIN trail : trail[p] = NotLit(Inspected[i]) /\ Lev(trail, level, p) = 0
      <3>1. PICK p \in DOMAIN trail : trail[p] = NotLit(Inspected[i])
        BY <2>1, <2>4, InspectedFalse DEF OnTrail
      <3>2. Lev(trail, level, p) \in 0 .. Len(trailLevels)
        BY DEF IInv, Levels, OfLevel
      <3> QED BY <2>1, <3>1, <3>2
    <2> QED BY <1>2, <2>2, <2>3, <2>4, UnitFollows DEF IInv
  <1>3. CASE Learn /\ l = loc.learnt[1]
    <2> DEFINE c == loc.learnt
    <2>1. /\ c \in Clause /\ Sat(m, c) /\ loc.backtrackLevel = 0 /\ trailLevels' = trailLevels
      BY <1>3 DEF Learn, IInv, Learning, Types, Locals, Clause, DecisionLevel
    <2>2. ASSUME NEW i \in 2 .. Len(c)
          PROVE  \E p \in DOMAIN trail : trail[p] = NotLit(c[i]) /\ Lev(trail, level, p) = 0
      <3>1. PICK p \in DOMAIN trail : trail[p] = NotLit(c[i])
        BY <1>3 DEF Learn, IInv, Learning
      <3>2. Lev(trail, level, p) \in 0 .. Len(trailLevels)
        BY DEF IInv, Levels, OfLevel
      <3> QED BY <2>1, <3>1, <3>2
    <2> HIDE DEF c
    <2>3. SatLit(m, c[1])
      BY <2>1, <2>2, UnitFollows DEF IInv
    <2> QED BY <1>3, <2>3 DEF c
  <1>4. CASE Decide
    <2>1. trailLevels' = Append(trailLevels, Len(trail)) /\ trailLevels \in Seq(Nat)
      BY <1>4 DEF Decide, IInv, Types
    <2>2. Len(trailLevels') = Len(trailLevels) + 1 /\ Len(trailLevels) \in Nat
      BY <2>1
    <2> DEFINE D == Len(trailLevels)
               E == Len(trailLevels')
    <2>3. E = D + 1 /\ D \in Nat /\ E = 0
      BY <2>2
    <2> HIDE DEF D, E
    <2>4. FALSE
      BY <2>3
    <2> QED BY <2>4
  <1> QED BY <1>1, <1>2, <1>3, <1>4

\* Every step keeps what was learnt a consequence of the formula.
LEMMA FollowsKept ==
  ASSUME IInv, Next
  PROVE  Follows'
  <1> SUFFICES ASSUME NEW m \in Models(formula)
               PROVE  /\ \A k \in DOMAIN clauses' : Sat(m, clauses'[k])
                      /\ \A k \in DOMAIN trail' : Lev(trail', level', k) = 0 => SatLit(m, trail'[k])
    BY FormulaStays DEF Follows
  <1>1. /\ \A k \in DOMAIN clauses : Sat(m, clauses[k])
        /\ \A k \in DOMAIN trail : Lev(trail, level, k) = 0 => SatLit(m, trail[k])
    BY DEF IInv, Follows
  <1>2. ASSUME NEW k \in DOMAIN clauses' PROVE Sat(m, clauses'[k])
    <2>1. CASE k \in DOMAIN clauses
      <3>1. SameLiterals(clauses[k], clauses'[k])
        BY <2>1, ClausesGo
      <3> QED BY <1>1, <2>1, <3>1, SatSame
    <2>2. CASE clauses'[k] = loc.learnt /\ Learn /\ loc.learnt \in Clause
      <3>1. loc.learnt # <<>>
        BY <2>2 DEF Clause
      <3> QED BY <2>2, <3>1 DEF Learn, IInv, Learning
    <2> QED BY <2>1, <2>2, ClausesGo
  <1>3. CASE Still
    BY <1>1, <1>2, <1>3 DEF Still
  <1>4. CASE Popped
    <2>1. \A k \in DOMAIN trail' : /\ k \in DOMAIN trail /\ trail'[k] = trail[k]
                                   /\ Lev(trail', level', k) = Lev(trail, level, k)
      BY <1>4, PoppedTrail DEF IInv
    <2> QED BY <1>1, <1>2, <2>1
  <1>5. ASSUME NEW l, NEW r, Pushed(l, r),
               \/ BuildClause /\ l = clauses[wlPos][1] /\ r = None /\ Len(clauses[wlPos]) = 1
               \/ ClauseUnit /\ l = Inspected[1] /\ r = WatchList[wlPos]
               \/ Learn /\ l = loc.learnt[1] /\ r = IF Len(loc.learnt) = 1 THEN None ELSE Len(clauses) + 1
               \/ Decide /\ l = VarToLit(varHeap.heap[1], polarity[varHeap.heap[1]]) /\ r = None
        PROVE  \A k \in DOMAIN trail' : Lev(trail', level', k) = 0 => SatLit(m, trail'[k])
    <2>1. Len(trailLevels') = 0 => SatLit(m, l)
      BY <1>5, PushedFollows
    <2> DEFINE n == Len(trail)
    <2>2. /\ \A k \in DOMAIN trail' : k \in DOMAIN trail \/ k = n + 1
          /\ \A k \in DOMAIN trail : trail'[k] = trail[k] /\ Lev(trail', level', k) = Lev(trail, level, k)
          /\ Lev(trail', level', n + 1) = Len(trailLevels') /\ trail'[n + 1] = l
      BY <1>5, PushedTrail DEF IInv
    <2> HIDE DEF n
    <2> QED BY <1>1, <2>1, <2>2
  <1> QED BY <1>2, <1>3, <1>4, <1>5, Moves

\* There is no answer before the end.
LEMMA UnansweredKept ==
  ASSUME IInv, Next
  PROVE  Unanswered'
  <1>1. answer = Unknown \/ pc = "done" \/ (pc = "cancel" /\ loc.learnt = <<>>)
    BY DEF IInv, Unanswered
  <1>2. CASE ClauseEmpty
    BY <1>1, <1>2 DEF ClauseEmpty, Inspecting, Unanswered
  <1>3. CASE AllAssigned
    <2>1. loc' = loc /\ loc = NoLocals /\ pc' = "cancel"
      BY <1>3 DEF AllAssigned, analyzeVars, IInv, Learning
    <2> QED BY <2>1 DEF NoLocals, Unanswered
  <1>4. CASE UndoLiteral
    BY <1>1, <1>4 DEF UndoLiteral, Unanswered, analyzeVars
  <1>5. CASE EndOfCancel
    BY <1>1, <1>5 DEF EndOfCancel, Unanswered, analyzeVars
  <1>6. CASE ~(ClauseEmpty \/ AllAssigned \/ UndoLiteral \/ EndOfCancel)
    BY <1>1, <1>6
    DEF Next, BuildClause, Exit, EndOfBuild, StartSearch, ContinueSearch, BudgetSpent,
        TakeLiteral, NothingToPropagate, ClauseSatisfied, MoveWatch, ClauseUnit,
        EndOfWatches, SkipLiteral, SeeLiteral, ResolveReason, FindUip, Learn,
        DropAssigned, Decide, Inspecting, Unanswered
  <1> QED BY <1>2, <1>3, <1>4, <1>5, <1>6

-----------------------------------------------------------------------------
(***************************************************************************)
(* The clause that is learnt.                                              *)
(***************************************************************************)
LEMMA CountedIsFinite ==
  ASSUME Types, NEW s, NEW d
  PROVE  IsFiniteSet(Counted(trail, level, s, d))
  <1>1. Len(trail) \in Nat /\ DOMAIN trail = 1 .. Len(trail)
    BY Sequences
  <1>2. IsFiniteSet(1 .. Len(trail))
    BY <1>1, FS_Interval, 1 \in Int, Len(trail) \in Int
  <1>3. Counted(trail, level, s, d) \subseteq 1 .. Len(trail)
    BY <1>1 DEF Counted
  <1> QED BY <1>2, <1>3, FS_Subset

\* When one literal is counted it is the last one that was seen.
LEMMA OnlyCounted ==
  ASSUME IInv, pc = "analyze", loc.pathC = 1
  PROVE  /\ Counted(trail, level, seen, DecisionLevel) = {LastSeen}
         /\ LastSeen \in DOMAIN trail /\ Lev(trail, level, LastSeen) = DecisionLevel
         /\ trail[LastSeen] \in Lit
  <1> DEFINE C == Counted(trail, level, seen, DecisionLevel)
  <1>1. LastSeen \in DOMAIN trail /\ LastSeen \in C
    BY LastSeenIsCounted
  <1>2. IsFiniteSet(C) /\ Cardinality(C) = 1
    BY CountedIsFinite DEF IInv, Analysis, Analysing
  <1>3. Lev(trail, level, LastSeen) = DecisionLevel /\ trail[LastSeen] \in Lit
    BY <1>1, Sequences DEF Counted, IInv
  <1> HIDE DEF C
  <1>4. PICK x : C = {x}
    BY <1>2, FS_Singleton
  <1> QED BY <1>1, <1>3, <1>4 DEF C

\* What _analyze hands over to _cancelUntil.
LEMMA UipLearnt ==
  ASSUME IInv, FindUip
  PROVE  LET a == loc'.learnt
             x == NotLit(trail[LastSeen])
         IN  /\ loc' = [NoLocals EXCEPT !.learnt = a, !.backtrackLevel = loc.backtrackLevel]
             /\ loc'.backtrackLevel = loc.backtrackLevel
             /\ a \in Clause /\ Len(a) = Len(loc.learnt) /\ a[1] = x /\ x \in Lit
             /\ Len(a) # 1 => a[2] = loc.learnt[loc.maxbl]
             /\ \A i \in 2 .. Len(a) : \E j \in 2 .. Len(a) : a[i] = loc.learnt[j]
             /\ \A j \in 2 .. Len(a) : \E i \in 2 .. Len(a) : a[i] = loc.learnt[j]
  <1> DEFINE c == loc.learnt
             x == NotLit(trail[LastSeen])
             m == loc.maxbl
             a == Arranged([c EXCEPT ![1] = x], m)
  <1>1. c \in Clause /\ x \in Lit /\ (Len(c) # 1 => m \in 2 .. Len(c))
    <2>1. pc = "analyze" /\ loc.pathC = 1
      BY DEF FindUip
    <2>2. x \in Lit
      BY <2>1, OnlyCounted, Literals
    <2>3. c \in Clause /\ (Len(c) # 1 => m \in 2 .. Len(c))
      BY <2>1 DEF IInv, Analysis, Analysing, Types, Locals, Clause
    <2> QED BY <2>2, <2>3
  <1>2. loc' = [NoLocals EXCEPT !.learnt = a, !.backtrackLevel = loc.backtrackLevel]
    BY DEF FindUip
  <1>3. loc'.learnt = a /\ loc'.backtrackLevel = loc.backtrackLevel
    <2> HIDE DEF a
    <2> QED BY <1>2 DEF NoLocals
  <1> HIDE DEF c, x, m
  <1>4. /\ a \in Clause /\ Len(a) = Len(c) /\ a[1] = x
        /\ Len(c) # 1 => a[2] = c[m]
        /\ \A i \in 2 .. Len(c) : \E j \in 2 .. Len(c) : a[i] = c[j]
        /\ \A j \in 2 .. Len(c) : \E i \in 2 .. Len(c) : a[i] = c[j]
    <2>1. Arrangement(a, c, x, m)
      BY <1>1, ArrangedClause
    <2> HIDE DEF a
    <2> QED BY <2>1 DEF Arrangement
  <1> HIDE DEF a
  <1> QED BY <1>1, <1>2, <1>3, <1>4 DEF c, x, m

\* Each literal of the learnt clause is that of a variable that was seen, and
\* the seen variables are those of its literals.
LEMMA UipSeen ==
  ASSUME IInv, FindUip, NEW v \in Var, seen[v] = 1
  PROVE  \E k \in DOMAIN [loc.learnt EXCEPT ![1] = NotLit(trail[LastSeen])] :
            LitToVar([loc.learnt EXCEPT ![1] = NotLit(trail[LastSeen])][k]) = v
  <1> DEFINE c == loc.learnt
             x == NotLit(trail[LastSeen])
             d == [c EXCEPT ![1] = x]
  <1>1. pc = "analyze" /\ loc.pathC = 1
    BY DEF FindUip
  <1>2. /\ Counted(trail, level, seen, DecisionLevel) = {LastSeen}
        /\ LastSeen \in DOMAIN trail /\ trail[LastSeen] \in Lit
    BY <1>1, OnlyCounted
  <1>3. c \in Seq(Lit) /\ c # <<>>
    BY <1>1 DEF IInv, Analysis, Analysing, Types, Locals
  <1>4. /\ DOMAIN d = DOMAIN c /\ DOMAIN c = 1 .. Len(c) /\ Len(c) \in Nat /\ 1 \in DOMAIN c
        /\ d[1] = x /\ \A i \in DOMAIN c : i # 1 => d[i] = c[i]
    <2>1. DOMAIN c = 1 .. Len(c) /\ Len(c) \in Nat /\ 1 \in DOMAIN c
      BY <1>3
    <2> HIDE DEF x, c
    <2> QED BY <2>1
  <1>5. PICK p \in DOMAIN trail :
          /\ VarAt(trail, p) = v
          /\ Lev(trail, level, p) # DecisionLevel => \E i \in 2 .. Len(c) : c[i] = NotLit(trail[p])
    BY <1>1 DEF IInv, Analysis, Analysing, Noted
  <1>6. trail[p] \in Lit
    BY Sequences DEF IInv
  <1> HIDE DEF d
  <1>7. CASE Lev(trail, level, p) = DecisionLevel
    <2>1. p = LastSeen
      BY <1>2, <1>5, <1>7 DEF Counted
    <2>2. LitToVar(x) = v
      BY <1>2, <1>5, <2>1, Literals DEF VarAt
    <2> HIDE DEF x, c
    <2>3. LitToVar(d[1]) = v
      BY <1>4, <2>2
    <2> QED BY <1>4, <2>3 DEF d, x, c
  <1>8. CASE Lev(trail, level, p) # DecisionLevel
    <2>1. PICK i \in 2 .. Len(c) : c[i] = NotLit(trail[p])
      BY <1>5, <1>8
    <2>2. i \in DOMAIN c /\ i # 1
      BY <1>4, <2>1
    <2>3. LitToVar(c[i]) = v
      BY <1>5, <1>6, <2>1, Literals DEF VarAt
    <2> HIDE DEF c
    <2>4. LitToVar(d[i]) = v /\ i \in DOMAIN d
      BY <1>4, <2>2, <2>3
    <2> QED BY <2>4 DEF d, x, c
  <1> QED BY <1>7, <1>8

\* It follows from the formula.
LEMMA UipFollows ==
  ASSUME IInv, FindUip, NEW m \in Models(formula)
  PROVE  Sat(m, loc'.learnt)
  <1> DEFINE a == loc'.learnt
             n == Len(loc.learnt)
  <1>1. /\ pc = "analyze" /\ loc.pathC = 1 /\ loc.j > Len(clauses[loc.c])
    BY DEF FindUip
  <1>2. Counted(trail, level, seen, DecisionLevel) = {LastSeen}
    BY <1>1, OnlyCounted
  <1>3. /\ a \in Clause /\ Len(a) = n /\ a[1] = NotLit(trail[LastSeen])
        /\ \A j \in 2 .. Len(a) : \E i \in 2 .. Len(a) : a[i] = loc.learnt[j]
    BY UipLearnt
  <1>4. DOMAIN a = 1 .. Len(a) /\ Len(a) \in Nat /\ 1 \in DOMAIN a
    BY <1>3, Clauses
  <1>5. ~ \E i \in DOMAIN clauses[loc.c] : i >= loc.j /\ SatLit(m, clauses[loc.c][i])
    <2>1. loc.c \in DOMAIN clauses /\ loc.j \in Nat
      BY <1>1, Sequences DEF IInv, Analysis, Analysing, Types, Locals, None
    <2>2. clauses[loc.c] \in Clause
      BY <2>1, Sequences DEF IInv
    <2> DEFINE s == Len(clauses[loc.c])
    <2>3. DOMAIN clauses[loc.c] = 1 .. s /\ s \in Nat /\ loc.j > s
      BY <1>1, <2>2, Clauses
    <2> HIDE DEF s
    <2>4. \A i \in 1 .. s : ~(i >= loc.j)
      BY <2>1, <2>3
    <2> QED BY <2>3, <2>4
  <1>6. \/ \E i \in 2 .. n : SatLit(m, loc.learnt[i])
        \/ SatLit(m, NotLit(trail[LastSeen]))
    BY <1>1, <1>2, <1>5 DEF IInv, Analysis, Analysing, Resolved
  <1> HIDE DEF a, n
  <1>7. CASE SatLit(m, NotLit(trail[LastSeen]))
    BY <1>3, <1>4, <1>7 DEF Sat, a
  <1>8. ASSUME NEW j \in 2 .. n, SatLit(m, loc.learnt[j]) PROVE Sat(m, a)
    <2>1. PICK i \in 2 .. n : a[i] = loc.learnt[j]
      BY <1>3, <1>8
    <2>2. i \in DOMAIN a
      BY <1>3, <1>4, <2>1
    <2> QED BY <1>8, <2>1, <2>2 DEF Sat
  <1> QED BY <1>6, <1>7, <1>8 DEF a

\* What FindUip leaves for the end of the backjump.
LEMMA UipWaits ==
  ASSUME IInv, FindUip, Next
  PROVE  Learning'
  <1> DEFINE c == loc.learnt
             a == loc'.learnt
             b == loc.backtrackLevel
             D == Len(trailLevels)
  <1>1. /\ pc = "analyze" /\ loc.pathC = 1 /\ pc' = "cancel"
        /\ trail' = trail /\ level' = level /\ trailLevels' = trailLevels /\ formula' = formula
    BY DEF FindUip, assignVars
  <1>2. /\ loc'.backtrackLevel = b
        /\ a \in Clause /\ Len(a) = Len(c) /\ a[1] = NotLit(trail[LastSeen])
        /\ Len(a) # 1 => a[2] = c[loc.maxbl]
        /\ \A i \in 2 .. Len(a) : \E j \in 2 .. Len(a) : a[i] = c[j]
    BY UipLearnt
  <1>3. /\ LastSeen \in DOMAIN trail /\ Lev(trail, level, LastSeen) = D
        /\ trail[LastSeen] \in Lit
    BY <1>1, OnlyCounted DEF DecisionLevel
  <1>4. /\ b < D /\ b \in Nat /\ D \in Nat
        /\ \A i \in 2 .. Len(c) : Lower(trail, level, c[i], b)
        /\ IF Len(c) = 1 THEN b = 0
           ELSE Highest(trail, level, c[loc.maxbl], b)
    BY <1>1, Sequences DEF IInv, Analysis, Analysing, Types, Locals, DecisionLevel
  <1>5. a # <<>>
    BY <1>2 DEF Clause
  <1>6. Jumps' /\ KeptTrail' = trailLevels[b + 1]
    BY <1>1, <1>2, <1>4 DEF Jumps, KeptTrail, DecisionLevel
  <1>7. ASSUME NEW p \in DOMAIN trail, VarAt(trail, p) = LitToVar(a[1])
        PROVE  p > KeptTrail'
    <2>1. LitToVar(a[1]) = VarAt(trail, LastSeen)
      BY <1>2, <1>3, Literals DEF VarAt
    <2>2. p = LastSeen
      BY <1>3, <1>7, <2>1 DEF IInv, Assigned
    <2>3. ~(p <= trailLevels[b + 1])
      <3> SUFFICES ASSUME p <= trailLevels[b + 1] PROVE FALSE
        OBVIOUS
      <3>1. Lev(trail, level, p) <= b
        BY <1>4, HighPlaces DEF IInv
      <3>2. D <= b
        BY <1>3, <2>2, <3>1
      <3> HIDE DEF D, b
      <3> QED BY <1>4, <3>2
    <2>4. trailLevels[b + 1] \in Nat /\ p \in Nat
      <3>1. b + 1 \in DOMAIN trailLevels
        BY <1>4, Sequences DEF IInv
      <3> QED BY <3>1, Sequences DEF IInv
    <2> QED BY <1>6, <2>3, <2>4
  <1>8. ASSUME NEW i \in 2 .. Len(a)
        PROVE  \E p \in DOMAIN trail : trail[p] = NotLit(a[i]) /\ Lev(trail, level, p) <= b
    <2>1. PICK j \in 2 .. Len(c) : a[i] = c[j]
      BY <1>2
    <2>2. PICK p \in DOMAIN trail : trail[p] = NotLit(c[j]) /\ Lev(trail, level, p) \in 1 .. b
      BY <1>4, <2>1 DEF Lower
    <2>3. Lev(trail, level, p) <= b
      BY <2>2
    <2> QED BY <2>1, <2>2, <2>3
  <1>9. IF Len(a) = 1 THEN b = 0 ELSE Highest(trail, level, a[2], b)
    BY <1>2, <1>4
  <1>10. \A m \in Models(formula) : Sat(m, a)
    BY UipFollows
  <1> HIDE DEF a, b, c
  <1>11. \A p \in DOMAIN trail : VarAt(trail, p) = LitToVar(a[1]) => pc' = "cancel" /\ p > KeptTrail'
    BY <1>1, <1>7
  <1> QED BY <1>1, <1>2, <1>5, <1>6, <1>8, <1>9, <1>10, <1>11 DEF Learning, a

\* Each literal that is undone leaves it so.
LEMMA UndoWaits ==
  ASSUME IInv, UndoLiteral, Next
  PROVE  Learning'
  <1> DEFINE b == loc.backtrackLevel
             c == loc.learnt
  <1>1. /\ pc = "cancel" /\ pc' = "cancel" /\ loc' = loc /\ trailLevels' = trailLevels
        /\ formula' = formula /\ (Jumps' <=> Jumps) /\ KeptTrail' = KeptTrail
    BY DEF UndoLiteral, analyzeVars, Jumps, KeptTrail, DecisionLevel
  <1>2. c = <<>> => loc = NoLocals
    BY <1>1 DEF IInv, Learning
  <1>3. ASSUME c # <<>>
        PROVE  /\ Jumps
               /\ \A p \in DOMAIN trail : VarAt(trail, p) = LitToVar(c[1]) => p > KeptTrail
               /\ \A i \in 2 .. Len(c) :
                    \E p \in DOMAIN trail : trail[p] = NotLit(c[i]) /\ Lev(trail, level, p) <= b
               /\ IF Len(c) = 1 THEN b = 0 ELSE Highest(trail, level, c[2], b)
               /\ \A m \in Models(formula) : Sat(m, c)
    BY <1>1, <1>3 DEF IInv, Learning
  <1>4. \A p \in DOMAIN trail' : p \in DOMAIN trail /\ VarAt(trail', p) = VarAt(trail, p)
    BY UndoPops, PoppedTrail DEF IInv
  <1>5. ASSUME NEW p \in DOMAIN trail, Lev(trail, level, p) <= b
        PROVE  p \in DOMAIN trail' /\ trail'[p] = trail[p] /\ Lev(trail', level', p) = Lev(trail, level, p)
    BY <1>5, UndoKeepsLow
  <1>6. b \in Nat
    BY DEF IInv, Types, Locals
  <1>7. ASSUME NEW l, Highest(trail, level, l, b) PROVE Highest(trail', level', l, b)
    <2>1. PICK p \in DOMAIN trail : trail[p] = NotLit(l) /\ Lev(trail, level, p) = b
      BY <1>7 DEF Highest
    <2>2. Lev(trail, level, p) <= b
      BY <1>6, <2>1
    <2> QED BY <1>5, <2>1, <2>2 DEF Highest
  <1>8. ASSUME NEW l, \E p \in DOMAIN trail : trail[p] = NotLit(l) /\ Lev(trail, level, p) <= b
        PROVE  \E p \in DOMAIN trail' : trail'[p] = NotLit(l) /\ Lev(trail', level', p) <= b
    <2>1. PICK p \in DOMAIN trail : trail[p] = NotLit(l) /\ Lev(trail, level, p) <= b
      BY <1>8
    <2>2. /\ p \in DOMAIN trail' /\ trail'[p] = trail[p]
          /\ Lev(trail', level', p) = Lev(trail, level, p)
      BY <1>5, <2>1
    <2> QED BY <2>1, <2>2
  <1> HIDE DEF b, c
  <1>9. ASSUME c # <<>>
        PROVE  /\ Jumps'
               /\ \A p \in DOMAIN trail' : VarAt(trail', p) = LitToVar(c[1]) => p > KeptTrail'
               /\ \A i \in 2 .. Len(c) :
                    \E p \in DOMAIN trail' : trail'[p] = NotLit(c[i]) /\ Lev(trail', level', p) <= b
               /\ IF Len(c) = 1 THEN b = 0 ELSE Highest(trail', level', c[2], b)
               /\ \A m \in Models(formula') : Sat(m, c)
    BY <1>1, <1>3, <1>4, <1>7, <1>8, <1>9
  <1>10. loc'.learnt = c /\ loc'.backtrackLevel = b
    BY <1>1 DEF b, c
  <1> QED BY <1>1, <1>2, <1>9, <1>10 DEF Learning

\* At the end of the backjump only the first literal of the learnt clause has no value.
LEMMA EndOfCancelWaits ==
  ASSUME IInv, EndOfCancel, Next
  PROVE  Learning'
  <1> DEFINE b == loc.backtrackLevel
             c == loc.learnt
             D == Len(trailLevels)
  <1>1. /\ pc = "cancel" /\ loc' = loc /\ trail' = trail /\ level' = level /\ formula' = formula
        /\ pc' \in {"learn", "done", "restart"} /\ (pc' = "learn" <=> c # <<>>)
        /\ Jumps => Len(trail) = KeptTrail /\ trailLevels' = SubSeq(trailLevels, 1, b)
    BY DEF EndOfCancel, analyzeVars
  <1>2. CASE c = <<>>
    <2>1. loc = NoLocals
      BY <1>1, <1>2 DEF IInv, Learning
    <2> QED BY <1>1, <1>2, <2>1 DEF Learning
  <1>3. CASE c # <<>>
    <2>1. /\ Jumps
          /\ \A p \in DOMAIN trail : VarAt(trail, p) = LitToVar(c[1]) => p > KeptTrail
          /\ \A i \in 2 .. Len(c) :
               \E p \in DOMAIN trail : trail[p] = NotLit(c[i]) /\ Lev(trail, level, p) <= b
          /\ IF Len(c) = 1 THEN b = 0 ELSE Highest(trail, level, c[2], b)
          /\ \A m \in Models(formula) : Sat(m, c)
      BY <1>1, <1>3 DEF IInv, Learning
    <2>2. \A p \in DOMAIN trail : ~(p > KeptTrail)
      <3> DEFINE n == Len(trail)
      <3>1. n \in Nat /\ DOMAIN trail = 1 .. n /\ KeptTrail = n
        BY <1>1, <2>1, Sequences DEF IInv
      <3> HIDE DEF n
      <3> QED BY <3>1
    <2>3. Len(trailLevels') = b
      <3>1. trailLevels \in Seq(Nat) /\ b \in Nat /\ D \in Nat /\ D > b
        BY <2>1, Sequences DEF IInv, Types, Locals, Jumps, DecisionLevel
      <3>2. trailLevels' = SubSeq(trailLevels, 1, b)
        BY <1>1, <2>1
      <3> QED BY <3>1, <3>2
    <2>4. DecisionLevel' = loc'.backtrackLevel /\ loc'.learnt = c /\ loc'.backtrackLevel = b
      BY <1>1, <2>3 DEF DecisionLevel
    <2>5. \A p \in DOMAIN trail' : VarAt(trail', p) # LitToVar(c[1])
      BY <1>1, <2>1, <2>2
    <2> HIDE DEF b, c
    <2> QED BY <1>1, <1>3, <2>1, <2>4, <2>5 DEF Learning
  <1> QED BY <1>2, <1>3

\* Every step keeps the learnt clause that waits.
LEMMA LearningKept ==
  ASSUME IInv, Next
  PROVE  Learning'
  <1>1. CASE Learn
    <2>1. loc' = NoLocals /\ pc' = "search"
      BY <1>1 DEF Learn
    <2> QED BY <2>1 DEF Learning
  <1>2. CASE BudgetSpent \/ AllAssigned
    <2>1. loc' = NoLocals /\ pc' = "cancel"
      BY <1>2 DEF BudgetSpent, AllAssigned, analyzeVars, IInv, Learning
    <2>2. loc'.learnt = <<>>
      BY <2>1 DEF NoLocals
    <2> QED BY <2>1, <2>2 DEF Learning
  <1>3. CASE SkipLiteral \/ SeeLiteral \/ ResolveReason \/ (ClauseEmpty /\ DecisionLevel # 0)
    <2>1. pc' = "analyze"
      BY <1>3 DEF SkipLiteral, SeeLiteral, ResolveReason, ClauseEmpty
    <2> QED BY <2>1 DEF Learning
  <1>4. CASE FindUip \/ UndoLiteral \/ EndOfCancel
    BY <1>4, UipWaits, UndoWaits, EndOfCancelWaits
  <1>5. CASE ~(\/ Learn \/ BudgetSpent \/ AllAssigned \/ SkipLiteral \/ SeeLiteral \/ ResolveReason
               \/ (ClauseEmpty /\ DecisionLevel # 0) \/ FindUip \/ UndoLiteral \/ EndOfCancel)
    <2>1. /\ loc' = loc
          /\ pc \notin {"analyze", "cancel", "learn"} /\ pc' \notin {"analyze", "cancel", "learn"}
      BY <1>5
      DEF Next, BuildClause, Exit, EndOfBuild, StartSearch, ContinueSearch, TakeLiteral,
          NothingToPropagate, ClauseSatisfied, MoveWatch, ClauseUnit, ClauseEmpty,
          EndOfWatches, DropAssigned, Decide, Inspecting, analyzeVars
    <2>2. loc = NoLocals
      BY <2>1 DEF IInv, Learning
    <2> QED BY <2>1, <2>2 DEF Learning
  <1> QED BY <1>1, <1>2, <1>3, <1>4, <1>5

-----------------------------------------------------------------------------
(***************************************************************************)
(* The analysis of a conflict.                                             *)
(***************************************************************************)
LEMMA AnalysisStarts ==
  ASSUME IInv, ClauseEmpty, pc' = "analyze"
  PROVE  Analysis'
  <1> DEFINE w == WatchList[wlPos]
             n == Len(trail)
             D == Len(trailLevels)
  <1>1. /\ Inspecting /\ ValueLit(Inspected[1]) = False /\ NewWatches = {}
        /\ clauses' = [clauses EXCEPT ![w] = Inspected]
        /\ UNCHANGED <<formula, trail, level, trailLevels, seen>>
        /\ DecisionLevel # 0
        /\ loc' = [NoLocals EXCEPT !.c = w, !.j = 1, !.learnt = <<0>>, !.index = n]
        /\ pc = "watch"
    BY DEF ClauseEmpty, Inspecting
  <1>2. /\ w \in DOMAIN clauses /\ Inspected \in Clause /\ n \in Nat /\ DOMAIN trail = 1 .. n
        /\ D \in Nat /\ DOMAIN clauses = 1 .. Len(clauses) /\ Len(clauses) \in Nat
    BY <1>1, InspectedClause, Sequences DEF IInv
  <1>3. \A v \in Var : seen[v] = 0
    BY <1>1 DEF IInv, Analysis, Analysing
  <1>4. /\ loc'.c = w /\ loc'.j = 1 /\ loc'.learnt = <<0>> /\ loc'.index = n
        /\ loc'.pathC = 0 /\ loc'.backtrackLevel = 0
    <2> HIDE DEF w, n
    <2> QED BY <1>1 DEF NoLocals
  <1>5. clauses'[w] = Inspected
    BY <1>1, <1>2
  <1>6. DecisionLevel' = DecisionLevel /\ DecisionLevel > 0
    BY <1>1, <1>2 DEF DecisionLevel
  <1>7. Counted(trail', level', seen', DecisionLevel') = {}
    <2>1. \A p \in DOMAIN trail : seen[VarAt(trail, p)] # 1
      BY <1>3, Sequences DEF IInv
    <2> QED BY <1>1, <2>1 DEF Counted
  <1>8. w # None
    BY <1>2 DEF None
  <1>9. <<0>> # <<>> /\ Len(<<0>>) = 1 /\ \A i \in 2 .. Len(<<0>>) : FALSE
    OBVIOUS
  <1>10. \A v \in Var : ~(seen'[v] = 1)
    BY <1>1, <1>3
  <1>11. ASSUME NEW i \in DOMAIN Inspected
         PROVE  FalseBefore(trail, Inspected[i], n + 1)
    <2>1. OnTrail(trail, NotLit(Inspected[i]))
      <3>1. DOMAIN Inspected = 1 .. Len(Inspected) /\ Len(Inspected) \in Nat /\ Inspected[i] \in Lit
        BY <1>2, Clauses
      <3>2. CASE i = 1
        BY <1>1, <3>1, <3>2, ValueOfLiteral DEF IInv
      <3>3. CASE i # 1
        <4>1. i \in 2 .. Len(Inspected)
          BY <3>1, <3>3
        <4> QED BY <1>1, <4>1, InspectedFalse
      <3> QED BY <3>2, <3>3
    <2>2. PICK k \in DOMAIN trail : trail[k] = NotLit(Inspected[i])
      BY <2>1 DEF OnTrail
    <2>3. k < n + 1
      BY <1>2
    <2> QED BY <2>2, <2>3 DEF FalseBefore
  <1>12. Resolved(formula, trail, <<0>>, {}, Inspected, 1)
    <2> SUFFICES ASSUME NEW m \in Models(formula)
                 PROVE  \E i \in DOMAIN Inspected : i >= 1 /\ SatLit(m, Inspected[i])
      BY DEF Resolved
    <2>1. PICK i \in DOMAIN Inspected : SatLit(m, Inspected[i])
      BY <1>1, InspectedFollows DEF Sat
    <2>2. i >= 1
      BY <1>2, Clauses
    <2> QED BY <2>1, <2>2
  <1>13. Cardinality({}) = 0 /\ 0 < DecisionLevel /\ 1 > 0 /\ n <= n
    BY <1>2, <1>6, FS_EmptySet
  <1>14. \A i \in DOMAIN Inspected : i >= 1 => FalseBefore(trail, Inspected[i], n + 1)
    BY <1>11
  <1> HIDE DEF w, n, D
  <1>15. n = Len(trail')
    BY <1>1 DEF n
  <1>16. /\ DecisionLevel' > 0
         /\ loc'.c # None /\ loc'.j > 0 /\ loc'.learnt # <<>> /\ loc'.index <= Len(trail')
         /\ loc'.backtrackLevel < DecisionLevel'
    BY <1>4, <1>6, <1>8, <1>9, <1>13, <1>15
  <1>17. /\ \A v \in Var : seen'[v] = 1 => Noted(trail', level', v, DecisionLevel', loc'.learnt)
         /\ \A p \in Counted(trail', level', seen', DecisionLevel') : p <= loc'.index
         /\ loc'.pathC = Cardinality(Counted(trail', level', seen', DecisionLevel'))
    BY <1>4, <1>7, <1>10, <1>13
  <1>18. /\ \A i \in 2 .. Len(loc'.learnt) : Lower(trail', level', loc'.learnt[i], loc'.backtrackLevel)
         /\ Len(loc'.learnt) = 1 /\ loc'.backtrackLevel = 0
    BY <1>4, <1>9
  <1>19. /\ \A i \in DOMAIN clauses'[loc'.c] :
              i >= loc'.j => FalseBefore(trail', clauses'[loc'.c][i], loc'.index + 1)
         /\ Resolved(formula', trail', loc'.learnt, Counted(trail', level', seen', DecisionLevel'),
                     clauses'[loc'.c], loc'.j)
    BY <1>1, <1>4, <1>5, <1>7, <1>12, <1>14
  <1> QED BY <1>1, <1>16, <1>17, <1>18, <1>19 DEF Analysis, Analysing, ClauseEmpty

\* The invariant of the analysis, when there is one, with the types of its locals.
LEMMA AnalysisNow ==
  ASSUME IInv, pc = "analyze"
  PROVE  /\ Analysing(loc, seen)
         /\ loc.c \in DOMAIN clauses /\ clauses[loc.c] \in Clause
         /\ loc.j \in Nat /\ loc.index \in Nat /\ loc.pathC \in Nat
         /\ loc.backtrackLevel \in Nat /\ loc.maxbl \in Nat
         /\ loc.learnt \in Seq(Lit) /\ loc.learnt # <<>>
         /\ loc.j > 0
         /\ DecisionLevel \in Nat
         /\ loc = [c |-> loc.c, j |-> loc.j, learnt |-> loc.learnt, pathC |-> loc.pathC,
                   index |-> loc.index, backtrackLevel |-> loc.backtrackLevel,
                   maxbl |-> loc.maxbl]
  <1>1. Analysing(loc, seen)
    BY DEF IInv, Analysis, Analysing
  <1>2. /\ loc.c \in 0 .. Len(clauses) /\ loc.j \in Nat /\ loc.index \in Nat /\ loc.pathC \in Nat
        /\ loc.backtrackLevel \in Nat /\ loc.maxbl \in Nat
        /\ loc.learnt \in Seq(Lit)
        /\ loc = [c |-> loc.c, j |-> loc.j, learnt |-> loc.learnt, pathC |-> loc.pathC,
                   index |-> loc.index, backtrackLevel |-> loc.backtrackLevel,
                   maxbl |-> loc.maxbl]
    BY DEF IInv, Types, Locals
  <1>3. loc.c # None /\ loc.learnt # <<>> /\ loc.j > 0
    BY <1>1 DEF Analysing
  <1>4. loc.c \in DOMAIN clauses /\ DecisionLevel \in Nat
    <2>1. Len(clauses) \in Nat /\ DOMAIN clauses = 1 .. Len(clauses) /\ DecisionLevel \in Nat
      BY Sequences DEF IInv, DecisionLevel
    <2> QED BY <1>2, <1>3, <2>1 DEF None
  <1>5. clauses[loc.c] \in Clause
    BY <1>4, Sequences DEF IInv
  <1> QED BY <1>1, <1>2, <1>3, <1>4, <1>5

\* It is enough to show it of the next locals and marks, when nothing else
\* that it is about moves.
LEMMA AnalysisNext ==
  ASSUME pc = "analyze", pc' = "analyze",
         UNCHANGED <<formula, clauses, trail, level, trailLevels>>,
         Analysing(loc', seen')
  PROVE  Analysis'
  <1>1. DecisionLevel' = DecisionLevel
    BY DEF DecisionLevel
  <1> QED BY <1>1 DEF Analysis, Analysing

\* The literal that is looked at.
LEMMA AnalysedLiteral ==
  ASSUME IInv, pc = "analyze", loc.j <= Len(clauses[loc.c])
  PROVE  LET q == clauses[loc.c][loc.j]
         IN  /\ loc.j \in DOMAIN clauses[loc.c] /\ q \in Lit /\ LitToVar(q) \in Var
             /\ \E k \in DOMAIN trail :
                  /\ k <= loc.index /\ trail[k] = NotLit(q) /\ VarAt(trail, k) = LitToVar(q)
                  /\ NotLit(trail[k]) = q /\ Lev(trail, level, k) = level[LitToVar(q)]
  <1> DEFINE c == clauses[loc.c]
             q == c[loc.j]
             s == Len(c)
  <1>1. /\ c \in Clause /\ loc.j \in Nat /\ loc.j > 0 /\ loc.index \in Nat /\ Analysing(loc, seen)
    BY AnalysisNow
  <1>2. DOMAIN c = 1 .. s /\ s \in Nat /\ loc.j <= s
    BY <1>1, Clauses
  <1>3. loc.j \in DOMAIN c
    <2> HIDE DEF s
    <2> QED BY <1>1, <1>2
  <1>4. q \in Lit
    BY <1>1, <1>3, Clauses
  <1>5. FalseBefore(trail, q, loc.index + 1)
    <2>1. loc.j >= loc.j
      BY <1>1
    <2> QED BY <1>1, <1>3, <2>1 DEF Analysing
  <1>6. PICK k \in DOMAIN trail : k < loc.index + 1 /\ trail[k] = NotLit(q)
    BY <1>5 DEF FalseBefore
  <1>7. k <= loc.index
    <2>1. k \in Nat
      BY Sequences DEF IInv
    <2> QED BY <1>1, <1>6, <2>1
  <1> HIDE DEF q
  <1>8. VarAt(trail, k) = LitToVar(q) /\ NotLit(trail[k]) = q /\ LitToVar(q) \in Var
    BY <1>4, <1>6, Literals DEF VarAt
  <1>9. Lev(trail, level, k) = level[LitToVar(q)]
    BY <1>8 DEF Lev, VarAt
  <1> QED BY <1>3, <1>4, <1>6, <1>7, <1>8, <1>9 DEF q

\* A literal that is skipped is false at level 0, or was noted.
LEMMA AnalysisSkips ==
  ASSUME IInv, SkipLiteral
  PROVE  Analysis'
  <1> DEFINE c == clauses[loc.c]
             q == c[loc.j]
             C == Counted(trail, level, seen, DecisionLevel)
             L == loc.learnt
  <1>1. /\ pc = "analyze" /\ pc' = "analyze" /\ loc.j <= Len(c)
        /\ UNCHANGED <<formula, clauses, trail, level, trailLevels, seen>>
        /\ seen[LitToVar(q)] = 1 \/ level[LitToVar(q)] = 0
        /\ loc' = [loc EXCEPT !.j = @ + 1]
    BY DEF SkipLiteral, assignVars
  <1>2. /\ Analysing(loc, seen) /\ c \in Clause /\ loc.j \in Nat /\ loc.j > 0 /\ L \in Seq(Lit)
        /\ loc = [c |-> loc.c, j |-> loc.j, learnt |-> loc.learnt, pathC |-> loc.pathC,
                  index |-> loc.index, backtrackLevel |-> loc.backtrackLevel,
                  maxbl |-> loc.maxbl]
    BY <1>1, AnalysisNow
  <1>3. /\ loc'.c = loc.c /\ loc'.j = loc.j + 1 /\ loc'.learnt = L /\ loc'.pathC = loc.pathC
        /\ loc'.index = loc.index /\ loc'.backtrackLevel = loc.backtrackLevel
        /\ loc'.maxbl = loc.maxbl
    <2> HIDE DEF c
    <2> QED BY <1>1, <1>2
  <1>4. PICK k \in DOMAIN trail :
          /\ trail[k] = NotLit(q) /\ VarAt(trail, k) = LitToVar(q) /\ NotLit(trail[k]) = q
          /\ Lev(trail, level, k) = level[LitToVar(q)]
    BY <1>1, AnalysedLiteral
  <1>5. q \in Lit /\ LitToVar(q) \in Var
    BY <1>1, AnalysedLiteral
  <1>6. ASSUME NEW m \in Models(formula), SatLit(m, q)
        PROVE  \/ \E i \in 2 .. Len(L) : SatLit(m, L[i])
               \/ \E p \in C : SatLit(m, NotLit(trail[p]))
    <2>1. level[LitToVar(q)] # 0
      <3> SUFFICES ASSUME level[LitToVar(q)] = 0 PROVE FALSE
        OBVIOUS
      <3>1. SatLit(m, NotLit(q))
        BY <1>4 DEF IInv, Follows
      <3>2. m \in [Var -> BOOLEAN]
        BY DEF Models
      <3> QED BY <1>5, <1>6, <3>1, <3>2, SatNegation
    <2>2. Noted(trail, level, LitToVar(q), DecisionLevel, L)
      BY <1>1, <1>2, <1>5, <2>1 DEF Analysing
    <2>3. PICK p \in DOMAIN trail :
            /\ VarAt(trail, p) = LitToVar(q)
            /\ Lev(trail, level, p) # DecisionLevel => \E i \in 2 .. Len(L) : L[i] = NotLit(trail[p])
      BY <2>2 DEF Noted
    <2>4. p = k
      BY <1>4, <2>3 DEF IInv, Assigned
    <2>5. CASE Lev(trail, level, p) = DecisionLevel
      <3>1. p \in C
        BY <1>1, <2>1, <2>3, <2>5 DEF Counted
      <3> QED BY <1>4, <1>6, <2>4, <3>1
    <2>6. CASE Lev(trail, level, p) # DecisionLevel
      BY <1>4, <1>6, <2>3, <2>4, <2>6
    <2> QED BY <2>5, <2>6
  <1>7. Resolved(formula, trail, L, C, c, loc.j + 1)
    <2> SUFFICES ASSUME NEW m \in Models(formula)
                 PROVE  \/ \E i \in 2 .. Len(L) : SatLit(m, L[i])
                        \/ \E p \in C : SatLit(m, NotLit(trail[p]))
                        \/ \E i \in DOMAIN c : i >= loc.j + 1 /\ SatLit(m, c[i])
      BY DEF Resolved
    <2>1. \/ \E i \in 2 .. Len(L) : SatLit(m, L[i])
          \/ \E p \in C : SatLit(m, NotLit(trail[p]))
          \/ \E i \in DOMAIN c : i >= loc.j /\ SatLit(m, c[i])
      BY <1>2 DEF Analysing, Resolved
    <2>2. ASSUME NEW i \in DOMAIN c, i >= loc.j, SatLit(m, c[i])
          PROVE  \/ \E h \in 2 .. Len(L) : SatLit(m, L[h])
                 \/ \E p \in C : SatLit(m, NotLit(trail[p]))
                 \/ \E h \in DOMAIN c : h >= loc.j + 1 /\ SatLit(m, c[h])
      <3>1. CASE i = loc.j
        BY <1>6, <2>2, <3>1
      <3>2. CASE i # loc.j
        <4>1. i \in Nat
          BY <1>2, Clauses
        <4>2. i >= loc.j + 1
          BY <1>2, <2>2, <3>2, <4>1
        <4> QED BY <2>2, <4>2
      <3> QED BY <3>1, <3>2
    <2> QED BY <2>1, <2>2
  <1>8. \A i \in DOMAIN c : i >= loc.j + 1 => FalseBefore(trail, c[i], loc.index + 1)
    <2>1. \A i \in DOMAIN c : i \in Nat
      BY <1>2, Clauses
    <2>2. \A i \in DOMAIN c : i >= loc.j + 1 => i >= loc.j
      BY <1>2, <2>1
    <2> QED BY <1>2, <2>2 DEF Analysing
  <1>9. loc.j + 1 > 0
    BY <1>2
  <1>10. Analysing(loc', seen)
    BY <1>2, <1>3, <1>7, <1>8, <1>9 DEF Analysing
  <1> QED BY <1>1, <1>10, AnalysisNext

\* A literal that is seen is counted, or learnt.
LEMMA AnalysisSees ==
  ASSUME IInv, SeeLiteral
  PROVE  Analysis'
  <1> DEFINE c == clauses[loc.c]
             q == c[loc.j]
             v == LitToVar(q)
             D == DecisionLevel
             C == Counted(trail, level, seen, D)
             E == Counted(trail, level, seen', D)
             L == loc.learnt
             n == Len(L)
             b == loc.backtrackLevel
  <1>1. /\ pc = "analyze" /\ pc' = "analyze" /\ loc.j <= Len(c)
        /\ UNCHANGED <<formula, clauses, trail, level, trailLevels>>
        /\ seen[v] = 0 /\ level[v] > 0 /\ seen' = [seen EXCEPT ![v] = 1]
        /\ loc' = CASE level[v] = D -> [loc EXCEPT !.j = @ + 1, !.pathC = @ + 1]
                    [] level[v] # D /\ level[v] > b ->
                         [loc EXCEPT !.j = @ + 1, !.learnt = Append(@, q),
                                     !.backtrackLevel = level[v], !.maxbl = n + 1]
                    [] OTHER -> [loc EXCEPT !.j = @ + 1, !.learnt = Append(@, q)]
    BY DEF SeeLiteral
  <1>2. /\ Analysing(loc, seen) /\ c \in Clause /\ loc.j \in Nat /\ loc.j > 0 /\ L \in Seq(Lit)
        /\ L # <<>> /\ loc.index \in Nat /\ loc.pathC \in Nat /\ b \in Nat /\ D \in Nat
        /\ loc = [c |-> loc.c, j |-> loc.j, learnt |-> loc.learnt, pathC |-> loc.pathC,
                  index |-> loc.index, backtrackLevel |-> loc.backtrackLevel,
                  maxbl |-> loc.maxbl]
    BY <1>1, AnalysisNow
  <1>3. PICK k \in DOMAIN trail :
          /\ k <= loc.index
          /\ trail[k] = NotLit(q) /\ VarAt(trail, k) = v /\ NotLit(trail[k]) = q
          /\ Lev(trail, level, k) = level[v]
    BY <1>1, AnalysedLiteral
  <1>4. q \in Lit /\ v \in Var
    BY <1>1, AnalysedLiteral
  <1>5. level[v] \in Nat /\ level[v] <= D
    <2>1. Lev(trail, level, k) \in 0 .. Len(trailLevels) /\ Len(trailLevels) \in Nat
      BY Sequences DEF IInv, Levels, OfLevel
    <2> QED BY <1>3, <2>1 DEF DecisionLevel
  <1>6. /\ \A u \in Var : seen'[u] = IF u = v THEN 1 ELSE seen[u]
    BY <1>1, <1>4 DEF IInv, Types
  <1>7. \A p \in DOMAIN trail : VarAt(trail, p) \in Var /\ (VarAt(trail, p) = v => p = k)
    BY <1>3, Sequences DEF IInv, Assigned
  <1> HIDE DEF v
  <1>8. E = IF level[v] = D THEN C \cup {k} ELSE C
    <2>1. \A p \in DOMAIN trail : p # k => seen'[VarAt(trail, p)] = seen[VarAt(trail, p)]
      BY <1>6, <1>7
    <2>2. seen'[VarAt(trail, k)] = 1 /\ seen[VarAt(trail, k)] = 0 /\ Lev(trail, level, k) = level[v]
      BY <1>1, <1>3, <1>4, <1>6
    <2> HIDE DEF D
    <2> QED BY <2>1, <2>2 DEF Counted
  <1>9. k \notin C
    BY <1>1, <1>3 DEF Counted
  <1>10. ASSUME NEW M, n <= Len(M), \A i \in 2 .. n : M[i] = L[i],
                level[v] # D => \E i \in 2 .. Len(M) : M[i] = q
         PROVE  \A u \in Var : seen'[u] = 1 => Noted(trail, level, u, D, M)
    <2> TAKE u \in Var
    <2>1. CASE u = v
      <3>1. Lev(trail, level, k) > 0 /\ VarAt(trail, k) = u
        BY <1>1, <1>3, <2>1
      <3>2. Lev(trail, level, k) # D => \E i \in 2 .. Len(M) : M[i] = NotLit(trail[k])
        BY <1>3, <1>10
      <3> QED BY <3>1, <3>2 DEF Noted
    <2>2. CASE u # v /\ seen'[u] = 1
      <3>1. Noted(trail, level, u, D, L)
        BY <1>2, <1>6, <2>2 DEF Analysing
      <3>2. PICK p \in DOMAIN trail :
              /\ VarAt(trail, p) = u /\ Lev(trail, level, p) > 0
              /\ Lev(trail, level, p) # D => \E i \in 2 .. n : L[i] = NotLit(trail[p])
        BY <3>1 DEF Noted
      <3>3. \A i \in 2 .. n : i \in 2 .. Len(M)
        <4>1. n \in Nat
          BY <1>2
        <4> HIDE DEF n
        <4> QED BY <1>10, <4>1
      <3>4. Lev(trail, level, p) # D => \E i \in 2 .. Len(M) : M[i] = NotLit(trail[p])
        BY <1>10, <3>2, <3>3
      <3> QED BY <3>2, <3>4 DEF Noted
    <2> QED BY <2>1, <2>2
  <1>11. \A i \in DOMAIN c : i >= loc.j + 1 => FalseBefore(trail, c[i], loc.index + 1)
    <2>1. \A i \in DOMAIN c : i \in Nat
      BY <1>2, Clauses
    <2>2. \A i \in DOMAIN c : i >= loc.j + 1 => i >= loc.j
      BY <1>2, <2>1
    <2> QED BY <1>2, <2>2 DEF Analysing
  <1>12. ASSUME NEW m \in Models(formula)
         PROVE  \/ \E i \in 2 .. n : SatLit(m, L[i])
                \/ \E p \in C : SatLit(m, NotLit(trail[p]))
                \/ \E i \in DOMAIN c : i >= loc.j + 1 /\ SatLit(m, c[i])
                \/ SatLit(m, q)
    <2>1. \/ \E i \in 2 .. n : SatLit(m, L[i])
          \/ \E p \in C : SatLit(m, NotLit(trail[p]))
          \/ \E i \in DOMAIN c : i >= loc.j /\ SatLit(m, c[i])
      BY <1>2 DEF Analysing, Resolved
    <2>2. ASSUME NEW i \in DOMAIN c, i >= loc.j, SatLit(m, c[i]), ~SatLit(m, q)
          PROVE  i >= loc.j + 1
      <3>1. i \in Nat /\ i # loc.j
        BY <1>2, <2>2, Clauses
      <3> QED BY <1>2, <2>2, <3>1
    <2> QED BY <2>1, <2>2
  <1>13. loc.j + 1 > 0 /\ n \in Nat /\ n > 0
    BY <1>2
  <1>14. CASE level[v] = D
    <2>1. loc' = [loc EXCEPT !.j = @ + 1, !.pathC = @ + 1]
      BY <1>1, <1>14
    <2>2. /\ loc'.c = loc.c /\ loc'.j = loc.j + 1 /\ loc'.learnt = L /\ loc'.pathC = loc.pathC + 1
          /\ loc'.index = loc.index /\ loc'.backtrackLevel = b /\ loc'.maxbl = loc.maxbl
      BY <1>2, <2>1
    <2>3. E = C \cup {k}
      BY <1>8, <1>14
    <2>4. Cardinality(E) = loc.pathC + 1
      <3>1. IsFiniteSet(C) /\ Cardinality(C) = loc.pathC
        BY <1>2, CountedIsFinite DEF IInv, Analysing
      <3> HIDE DEF C, E
      <3> QED BY <1>9, <2>3, <3>1, FS_AddElement
    <2>5. \A p \in E : p <= loc.index
      BY <1>2, <1>3, <2>3 DEF Analysing
    <2>6. Resolved(formula, trail, L, E, c, loc.j + 1)
      <3> SUFFICES ASSUME NEW m \in Models(formula)
                   PROVE  \/ \E i \in 2 .. n : SatLit(m, L[i])
                          \/ \E p \in E : SatLit(m, NotLit(trail[p]))
                          \/ \E i \in DOMAIN c : i >= loc.j + 1 /\ SatLit(m, c[i])
        BY DEF Resolved
      <3>1. SatLit(m, q) => \E p \in E : SatLit(m, NotLit(trail[p]))
        BY <1>3, <2>3
      <3>2. \A p \in C : p \in E
        BY <2>3
      <3> HIDE DEF C, E
      <3> QED BY <1>12, <3>1, <3>2
    <2>7. \A u \in Var : seen'[u] = 1 => Noted(trail, level, u, D, L)
      <3>1. n <= n
        BY <1>13
      <3> QED BY <1>10, <1>14, <3>1
    <2> HIDE DEF E, c
    <2>8. Analysing(loc', seen')
      BY <1>2, <1>11, <1>13, <2>2, <2>4, <2>5, <2>6, <2>7 DEF Analysing, E, c
    <2> QED BY <1>1, <2>8, AnalysisNext
  <1>15. CASE level[v] # D
    <2> DEFINE M == Append(L, q)
               high == level[v] > b
    <2>1. loc' = IF high THEN [loc EXCEPT !.j = @ + 1, !.learnt = M,
                                          !.backtrackLevel = level[v], !.maxbl = n + 1]
                 ELSE [loc EXCEPT !.j = @ + 1, !.learnt = M]
      BY <1>1, <1>15
    <2>2. /\ M \in Seq(Lit) /\ Len(M) = n + 1 /\ M[n + 1] = q
          /\ \A i \in 1 .. n : M[i] = L[i]
      BY <1>2, <1>4
    <2> HIDE DEF M, high, n
    <2>3. /\ loc'.c = loc.c /\ loc'.j = loc.j + 1 /\ loc'.learnt = M /\ loc'.pathC = loc.pathC
          /\ loc'.index = loc.index
          /\ loc'.backtrackLevel = (IF high THEN level[v] ELSE b)
          /\ loc'.maxbl = (IF high THEN n + 1 ELSE loc.maxbl)
      BY <1>2, <2>1
    <2>4. E = C
      BY <1>8, <1>15
    <2>5. n + 1 \in 2 .. Len(M) /\ Len(M) # 1 /\ \A i \in 2 .. n : i \in 2 .. Len(M) /\ M[i] = L[i]
      BY <1>13, <2>2
    <2>6. M # <<>>
      BY <2>2, <2>5
    <2> DEFINE B == IF high THEN level[v] ELSE b
    <2>7. B \in Nat /\ b <= B /\ level[v] <= B /\ B < D
      <3>1. b < D
        BY <1>2 DEF Analysing
      <3>2. level[v] < D
        BY <1>2, <1>5, <1>15
      <3> QED BY <1>2, <1>5, <3>1, <3>2 DEF high
    <2>8. \A i \in 2 .. Len(M) : Lower(trail, level, M[i], B)
      <3> TAKE i \in 2 .. Len(M)
      <3>1. CASE i = n + 1
        <4>1. level[v] \in 1 .. B
          BY <1>1, <1>5, <2>7
        <4> QED BY <1>3, <2>2, <3>1, <4>1 DEF Lower
      <3>2. CASE i # n + 1
        <4>1. i \in 2 .. n /\ M[i] = L[i]
          BY <1>13, <2>2, <3>2
        <4>2. Lower(trail, level, L[i], b)
          BY <1>2, <4>1 DEF Analysing, n
        <4>3. \A x \in 1 .. b : x \in 1 .. B
          BY <1>2, <2>7
        <4> HIDE DEF B
        <4> QED BY <4>1, <4>2, <4>3 DEF Lower
      <3> QED BY <3>1, <3>2
    <2>9. loc'.maxbl \in 2 .. Len(M) /\ Highest(trail, level, M[loc'.maxbl], B)
      <3>1. CASE high
        BY <1>3, <2>2, <2>3, <2>5, <3>1 DEF Highest
      <3>2. CASE ~high
        <4>1. n # 1
          <5> SUFFICES ASSUME n = 1 PROVE FALSE
            OBVIOUS
          <5>1. b = 0
            BY <1>2 DEF Analysing, n
          <5> QED BY <1>1, <1>5, <3>2, <5>1 DEF high
        <4>2. loc.maxbl \in 2 .. n /\ Highest(trail, level, L[loc.maxbl], b)
          BY <1>2, <4>1 DEF Analysing, n
        <4> QED BY <2>3, <2>5, <3>2, <4>2
      <3> QED BY <3>1, <3>2
    <2>10. Resolved(formula, trail, M, C, c, loc.j + 1)
      <3> SUFFICES ASSUME NEW m \in Models(formula)
                   PROVE  \/ \E i \in 2 .. Len(M) : SatLit(m, M[i])
                          \/ \E p \in C : SatLit(m, NotLit(trail[p]))
                          \/ \E i \in DOMAIN c : i >= loc.j + 1 /\ SatLit(m, c[i])
        BY DEF Resolved
      <3>1. SatLit(m, q) => \E i \in 2 .. Len(M) : SatLit(m, M[i])
        BY <2>2, <2>5
      <3>2. (\E i \in 2 .. n : SatLit(m, L[i])) => \E i \in 2 .. Len(M) : SatLit(m, M[i])
        BY <2>5
      <3> HIDE DEF C, c
      <3> QED BY <1>12, <3>1, <3>2
    <2>11. \A u \in Var : seen'[u] = 1 => Noted(trail, level, u, D, M)
      <3>1. n <= Len(M) /\ \A i \in 2 .. n : M[i] = L[i]
        BY <1>13, <2>2, <2>5
      <3>2. \E i \in 2 .. Len(M) : M[i] = q
        BY <2>2, <2>5
      <3> QED BY <1>10, <3>1, <3>2
    <2> HIDE DEF E, c, B
    <2>12. loc'.backtrackLevel = B
      BY <2>3 DEF B
    <2>13. /\ D > 0 /\ loc.c # None /\ loc.index <= Len(trail)
           /\ \A p \in C : p <= loc.index
           /\ loc.pathC = Cardinality(C)
      BY <1>2 DEF Analysing
    <2>14. Analysing(loc', seen')
      BY <1>11, <1>13, <2>3, <2>4, <2>5, <2>6, <2>7, <2>8, <2>9, <2>10, <2>11, <2>12, <2>13
      DEF Analysing, E, c
    <2> QED BY <1>1, <2>14, AnalysisNext
  <1> QED BY <1>14, <1>15

\* The last counted literal has a reason: it is not the decision of its level.
LEMMA LastHasReason ==
  ASSUME IInv, pc = "analyze", loc.pathC > 1
  PROVE  LET v == VarAt(trail, LastSeen)
         IN  /\ v \in Var /\ reason[v] # None /\ reason[v] \in DOMAIN clauses
             /\ Implied(trail, LastSeen, clauses[reason[v]])
  <1> DEFINE v == VarAt(trail, LastSeen)
             C == Counted(trail, level, seen, DecisionLevel)
             D == Len(trailLevels)
  <1>1. loc.pathC > 0
    BY AnalysisNow
  <1>2. /\ LastSeen \in DOMAIN trail /\ LastSeen \in Nat /\ LastSeen \in C
        /\ \A q \in DOMAIN trail : q <= loc.index /\ seen[VarAt(trail, q)] = 1 => q <= LastSeen
    BY <1>1, LastSeenIsCounted
  <1>3. /\ Analysing(loc, seen) /\ IsFiniteSet(C) /\ Cardinality(C) = loc.pathC
    BY AnalysisNow, CountedIsFinite DEF IInv, Analysing
  <1>4. PICK p \in C : p # LastSeen
    <2> SUFFICES ASSUME \A p \in C : p = LastSeen PROVE FALSE
      OBVIOUS
    <2> HIDE DEF C
    <2>1. C = {LastSeen}
      BY <1>2
    <2>2. Cardinality(C) = 1
      BY <2>1, FS_Singleton
    <2> QED BY <1>3, <2>2
  <1>5. /\ p \in DOMAIN trail /\ p <= loc.index /\ seen[VarAt(trail, p)] = 1
        /\ Lev(trail, level, p) = D /\ p \in Nat
    BY <1>3, <1>4, Sequences DEF Analysing, Counted, DecisionLevel, IInv
  <1>6. p < LastSeen
    <2>1. p <= LastSeen
      BY <1>2, <1>5
    <2> QED BY <1>2, <1>4, <1>5, <2>1
  <1>7. Lev(trail, level, LastSeen) = D /\ D > 0 /\ trailLevels[D] \in Nat
    <2>1. Lev(trail, level, LastSeen) = D /\ D > 0 /\ D \in Nat
      BY <1>2, <1>3, Sequences DEF Counted, Analysing, DecisionLevel, IInv
    <2>2. D \in DOMAIN trailLevels
      BY <2>1, Sequences DEF IInv
    <2> QED BY <2>1, <2>2, Sequences DEF IInv
  <1>8. trailLevels[D] < p
    <2>1. OfLevel(trail, trailLevels, p, Lev(trail, level, p))
      BY <1>5 DEF IInv, Levels
    <2> QED BY <1>5, <1>7, <2>1 DEF OfLevel
  <1>9. v \in Var
    BY <1>2, Sequences DEF IInv
  <1>10. reason[v] # None
    <2> SUFFICES ASSUME reason[v] = None PROVE FALSE
      OBVIOUS
    <2>1. Decided(trail, level, trailLevels, LastSeen)
      BY <1>2 DEF IInv, Reasons
    <2>2. LastSeen = trailLevels[D] + 1
      BY <1>7, <2>1 DEF Decided
    <2> HIDE DEF D, C
    <2> QED BY <1>2, <1>5, <1>6, <1>7, <1>8, <2>2
  <1>11. Implied(trail, LastSeen, clauses[reason[v]])
    BY <1>2, <1>10 DEF IInv, Reasons
  <1>12. reason[v] \in DOMAIN clauses
    <2>1. reason[v] \in 0 .. Len(clauses)
      BY <1>9 DEF IInv, Types
    <2>2. Len(clauses) \in Nat /\ DOMAIN clauses = 1 .. Len(clauses)
      BY Sequences DEF IInv
    <2> HIDE DEF v
    <2> QED BY <1>10, <2>1, <2>2 DEF None
  <1> QED BY <1>9, <1>10, <1>11, <1>12

\* The resolution with the reason of the last counted literal.
LEMMA AnalysisResolves ==
  ASSUME IInv, ResolveReason
  PROVE  Analysis'
  <1> DEFINE v == VarAt(trail, LastSeen)
             r == reason[v]
             c == clauses[r]
             D == DecisionLevel
             C == Counted(trail, level, seen, D)
             E == Counted(trail, level, seen', D)
             L == loc.learnt
  <1>1. /\ pc = "analyze" /\ pc' = "analyze" /\ loc.j > Len(clauses[loc.c]) /\ loc.pathC > 1
        /\ UNCHANGED <<formula, clauses, trail, level, trailLevels>>
        /\ seen' = [seen EXCEPT ![v] = 0]
        /\ loc' = [loc EXCEPT !.index = LastSeen - 1, !.pathC = @ - 1, !.c = r, !.j = 2]
    BY DEF ResolveReason, assignVars, VarAt
  <1>2. /\ Analysing(loc, seen) /\ loc.pathC \in Nat /\ loc.index \in Nat /\ loc.j \in Nat
        /\ loc.c \in DOMAIN clauses /\ clauses[loc.c] \in Clause
        /\ loc = [c |-> loc.c, j |-> loc.j, learnt |-> loc.learnt, pathC |-> loc.pathC,
                  index |-> loc.index, backtrackLevel |-> loc.backtrackLevel,
                  maxbl |-> loc.maxbl]
    BY <1>1, AnalysisNow
  <1>3. /\ LastSeen \in DOMAIN trail /\ LastSeen \in Nat /\ LastSeen > 0
        /\ LastSeen <= loc.index /\ LastSeen \in C
        /\ \A q \in DOMAIN trail : q <= loc.index /\ seen[VarAt(trail, q)] = 1 => q <= LastSeen
    <2>1. loc.pathC > 0
      BY <1>1, <1>2
    <2> QED BY <1>1, <2>1, LastSeenIsCounted
  <1>4. /\ v \in Var /\ r # None /\ r \in DOMAIN clauses /\ Implied(trail, LastSeen, c)
    BY <1>1, LastHasReason
  <1>5. c \in Clause
    BY <1>4, Sequences DEF IInv
  <1>6. /\ loc'.c = r /\ loc'.j = 2 /\ loc'.learnt = L /\ loc'.pathC = loc.pathC - 1
        /\ loc'.index = LastSeen - 1 /\ loc'.backtrackLevel = loc.backtrackLevel
        /\ loc'.maxbl = loc.maxbl
    <2> HIDE DEF r
    <2> QED BY <1>1, <1>2
  <1>7. \A u \in Var : seen'[u] = IF u = v THEN 0 ELSE seen[u]
    BY <1>1, <1>4 DEF IInv, Types
  <1>8. E = C \ {LastSeen}
    <2>1. \A p \in DOMAIN trail : VarAt(trail, p) \in Var /\ (VarAt(trail, p) = v => p = LastSeen)
      BY <1>3, Sequences DEF IInv, Assigned
    <2>2. \A p \in DOMAIN trail : p # LastSeen => seen'[VarAt(trail, p)] = seen[VarAt(trail, p)]
      BY <1>7, <2>1
    <2>3. seen'[VarAt(trail, LastSeen)] = 0
      BY <1>4, <1>7
    <2> QED BY <2>2, <2>3 DEF Counted
  <1>9. Cardinality(E) = loc.pathC - 1
    <2>1. IsFiniteSet(C) /\ Cardinality(C) = loc.pathC
      BY <1>2, CountedIsFinite DEF IInv, Analysing
    <2> HIDE DEF C, E
    <2> QED BY <1>3, <1>8, <2>1, FS_RemoveElement
  <1>10. \A p \in E : p <= LastSeen - 1
    <2> TAKE p \in E
    <2>1. p \in C /\ p # LastSeen
      BY <1>8
    <2>2. p \in DOMAIN trail /\ p \in Nat /\ p <= loc.index /\ seen[VarAt(trail, p)] = 1
      BY <1>2, <2>1, Sequences DEF Counted, Analysing, IInv
    <2>3. p <= LastSeen
      BY <1>3, <2>2
    <2> QED BY <1>3, <2>1, <2>2, <2>3
  <1>11. \A u \in Var : seen'[u] = 1 => Noted(trail, level, u, D, L)
    BY <1>2, <1>7 DEF Analysing
  <1>12. \A i \in DOMAIN c : i >= 2 => FalseBefore(trail, c[i], (LastSeen - 1) + 1)
    <2>1. (LastSeen - 1) + 1 = LastSeen
      BY <1>3
    <2>2. \A i \in DOMAIN c : i >= 2 => i \in 2 .. Len(c)
      BY <1>5, Clauses
    <2> QED BY <1>4, <2>1, <2>2 DEF Implied
  <1>13. \A i \in DOMAIN clauses[loc.c] : ~(i >= loc.j)
    <2> DEFINE s == Len(clauses[loc.c])
    <2>1. DOMAIN clauses[loc.c] = 1 .. s /\ s \in Nat /\ loc.j > s
      BY <1>1, <1>2, Clauses
    <2> HIDE DEF s
    <2>2. \A i \in 1 .. s : ~(i >= loc.j)
      BY <1>2, <2>1
    <2> QED BY <2>1, <2>2
  <1>14. Resolved(formula, trail, L, E, c, 2)
    <2> SUFFICES ASSUME NEW m \in Models(formula)
                 PROVE  \/ \E i \in 2 .. Len(L) : SatLit(m, L[i])
                        \/ \E p \in E : SatLit(m, NotLit(trail[p]))
                        \/ \E i \in DOMAIN c : i >= 2 /\ SatLit(m, c[i])
      BY DEF Resolved
    <2>1. \/ \E i \in 2 .. Len(L) : SatLit(m, L[i])
          \/ \E p \in C : SatLit(m, NotLit(trail[p]))
      BY <1>2, <1>13 DEF Analysing, Resolved
    <2>2. ASSUME NEW p \in C, SatLit(m, NotLit(trail[p]))
          PROVE  \/ \E q \in E : SatLit(m, NotLit(trail[q]))
                 \/ \E i \in DOMAIN c : i >= 2 /\ SatLit(m, c[i])
      <3>1. CASE p # LastSeen
        BY <1>8, <2>2, <3>1
      <3>2. CASE p = LastSeen
        <4>1. Sat(m, c)
          BY <1>4 DEF IInv, Follows
        <4>2. PICK i \in DOMAIN c : SatLit(m, c[i])
          BY <4>1 DEF Sat
        <4>3. i # 1
          <5> SUFFICES ASSUME i = 1 PROVE FALSE
            OBVIOUS
          <5>1. SatLit(m, trail[LastSeen])
            BY <1>4, <4>2 DEF Implied
          <5>2. trail[LastSeen] \in Lit /\ m \in [Var -> BOOLEAN]
            BY <1>3, Sequences DEF IInv, Models
          <5> QED BY <2>2, <3>2, <5>1, <5>2, SatNegation
        <4>4. i >= 2
          BY <1>5, <4>3, Clauses
        <4> QED BY <4>2, <4>4
      <3> QED BY <3>1, <3>2
    <2> QED BY <2>1, <2>2
  <1>15. /\ D > 0 /\ L # <<>> /\ LastSeen - 1 <= Len(trail)
         /\ loc.backtrackLevel < D
         /\ \A i \in 2 .. Len(L) : Lower(trail, level, L[i], loc.backtrackLevel)
         /\ IF Len(L) = 1 THEN loc.backtrackLevel = 0
            ELSE /\ loc.maxbl \in 2 .. Len(L)
                 /\ Highest(trail, level, L[loc.maxbl], loc.backtrackLevel)
    <2>1. loc.index <= Len(trail)
      BY <1>2 DEF Analysing
    <2>2. LastSeen - 1 <= Len(trail)
      BY <1>2, <1>3, <2>1, Sequences DEF IInv
    <2> QED BY <1>2, <2>2 DEF Analysing
  <1> HIDE DEF E, L, r
  <1>16. 2 > 0
    OBVIOUS
  <1>17. Analysing(loc', seen')
    BY <1>4, <1>6, <1>9, <1>10, <1>11, <1>12, <1>14, <1>15, <1>16 DEF Analysing, E
  <1> QED BY <1>1, <1>17, AnalysisNext

\* FindUip ends the analysis with all marks erased.
LEMMA AnalysisEnds ==
  ASSUME IInv, FindUip
  PROVE  Analysis'
  <1> DEFINE d == [loc.learnt EXCEPT ![1] = NotLit(trail[LastSeen])]
  <1>1. /\ pc' = "cancel"
        /\ seen' = [v \in Var |-> IF \E k \in DOMAIN d : LitToVar(d[k]) = v THEN 0 ELSE seen[v]]
    BY DEF FindUip
  <1>2. ASSUME NEW v \in Var PROVE seen'[v] = 0
    <2>1. seen[v] \in {0, 1}
      BY DEF IInv, Types
    <2>2. seen[v] = 1 => \E k \in DOMAIN d : LitToVar(d[k]) = v
      BY UipSeen
    <2> HIDE DEF d
    <2> QED BY <1>1, <2>1, <2>2
  <1> QED BY <1>1, <1>2 DEF Analysis, Analysing

\* Every step keeps the invariant of the analysis.
LEMMA AnalysisKept ==
  ASSUME IInv, Next
  PROVE  Analysis'
  <1>1. CASE ClauseEmpty /\ pc' = "analyze"
    BY <1>1, AnalysisStarts
  <1>2. CASE SkipLiteral \/ SeeLiteral \/ ResolveReason \/ FindUip
    BY <1>2, AnalysisSkips, AnalysisSees, AnalysisResolves, AnalysisEnds
  <1>3. CASE ~(\/ ClauseEmpty /\ pc' = "analyze"
               \/ SkipLiteral \/ SeeLiteral \/ ResolveReason \/ FindUip)
    <2>1. seen' = seen /\ pc # "analyze" /\ pc' # "analyze"
      BY <1>3
      DEF Next, BuildClause, Exit, EndOfBuild, UndoLiteral, EndOfCancel, StartSearch,
          ContinueSearch, BudgetSpent, TakeLiteral, NothingToPropagate, ClauseSatisfied,
          MoveWatch, ClauseUnit, ClauseEmpty, EndOfWatches, Learn, DropAssigned, Decide,
          AllAssigned, Inspecting, analyzeVars
    <2> QED BY <2>1 DEF IInv, Analysis, Analysing
  <1> QED BY <1>1, <1>2, <1>3

-----------------------------------------------------------------------------
(***************************************************************************)
(* The invariant holds at first and every step keeps it.                   *)
(***************************************************************************)
LEMMA FirstClauses ==
  ASSUME Init
  PROVE  /\ formula \in Formulas /\ formula \in Seq(Clause) /\ clauses = formula
  BY CdclAssumption DEF Init, Clause

\* The types at first.
LEMMA FirstTypes ==
  ASSUME Init
  PROVE  Types
  <1>1. formula \in Formulas /\ formula \in Seq(Clause) /\ clauses = formula
    BY FirstClauses
  <1>2. Len(clauses) \in Nat /\ 0 \in 0 .. Len(clauses)
    BY <1>1
  <1>3. NbVars \in Nat /\ NbVars > 0 /\ 0 \in 0 .. NbVars
    BY CdclAssumption
  <1>4. watches \in [Lit -> Seq(1 .. Len(clauses))]
    <2>1. <<>> \in Seq(1 .. Len(clauses))
      OBVIOUS
    <2>2. watches = [l \in Lit |-> <<>>]
      BY DEF Init
    <2> QED BY <2>1, <2>2
  <1>5. scores \in Rankings
    <2>1. scores = [v \in Var |-> 0] /\ 0 \in 0 .. NbVars - 1
      BY <1>3 DEF Init
    <2>2. scores \in [Var -> 0 .. NbVars - 1] /\ \A v \in Var : scores[v] = 0
      BY <2>1
    <2>3. \A v \in Var : ~(scores[v] > 0)
      BY <2>2
    <2> QED BY <2>2, <2>3 DEF Rankings
  <1>6. loc \in Locals
    <2>1. <<>> \in Seq(Lit) /\ loc = NoLocals
      BY DEF Init
    <2> QED BY <1>2, <2>1 DEF NoLocals, Locals, None
  <1>7. /\ values \in [Var -> {False, True, Undef}] /\ level \in [Var -> 0 .. NbVars]
        /\ reason \in [Var -> 0 .. Len(clauses)] /\ polarity \in [Var -> {0, 1}]
        /\ seen \in [Var -> {0, 1}]
    BY <1>2, <1>3 DEF Init, None
  <1>8. /\ trail \in Seq(Lit) /\ trailLevels \in Seq(Nat)
        /\ toPropagate \in Nat /\ pc \in Pcs /\ wlPos \in Nat \ {0} /\ answer = Unknown
    BY DEF Init, Pcs
  <1> QED BY <1>1, <1>4, <1>5, <1>6, <1>7, <1>8 DEF Types

\* The invariant at first.
LEMMA FirstInvariant ==
  ASSUME Init
  PROVE  IInv
  <1>1. Types
    BY FirstTypes
  <1>2. /\ trail = <<>> /\ trailLevels = <<>> /\ toPropagate = 0 /\ pc = "build" /\ wlPos = 1
        /\ loc = NoLocals /\ answer = Unknown /\ clauses = formula
        /\ watches = [l \in Lit |-> <<>>] /\ varHeap = EmptyHeap(Var)
        /\ values = [v \in Var |-> Undef] /\ scores = [v \in Var |-> 0]
        /\ seen = [v \in Var |-> 0]
    BY DEF Init
  <1>3. DOMAIN trail = {} /\ DOMAIN trailLevels = {} /\ Len(trailLevels) = 0 /\ Len(trail) = 0
    BY <1>2
  <1>4. ~Started
    BY <1>2 DEF Started
  <1>5. Assigned
    BY <1>2, <1>3 DEF Assigned
  <1>6. Levels
    BY <1>2, <1>3 DEF Levels
  <1>7. Reasons
    BY <1>3 DEF Reasons
  <1>8. Queue
    BY <1>2, <1>3 DEF Queue, DecisionLevel
  <1>9. HeapOK
    <2>1. varHeap = [heap |-> <<>>, indices |-> [n \in Var |-> Absent]]
      BY <1>2 DEF EmptyHeap
    <2>2. DOMAIN varHeap.heap = {} /\ varHeap.heap \in Seq(Var) /\ \A n \in Var : varHeap.indices[n] = Absent
      BY <2>1
    <2>3. Indexed(varHeap)
      BY <2>1, <2>2 DEF Indexed, InHeap, Absent
    <2>4. Ordered(varHeap, scores)
      BY <2>2 DEF Ordered
    <2>5. \A v \in Var : scores[v] = 0
      BY <1>2
    <2> QED BY <1>4, <2>3, <2>4, <2>5 DEF HeapOK
  <1>10. Originals
    <2>1. Len(formula) <= Len(clauses)
      BY <1>2, FirstClauses
    <2>2. \A k \in DOMAIN formula : SameLiterals(formula[k], clauses[k])
      BY <1>2 DEF SameLiterals
    <2> QED BY <2>1, <2>2 DEF Originals
  <1>11. Lists
    <2> SUFFICES ASSUME NEW l \in Lit, NEW k \in DOMAIN clauses
                 PROVE  Cardinality(Occurrences(watches[l], k))
                        = IF k < wlPos THEN Cardinality(Places(clauses[k], l)) ELSE 0
      BY <1>4 DEF Lists
    <2>1. ~(k < wlPos)
      BY <1>1, <1>2, Sequences
    <2>2. Occurrences(watches[l], k) = {}
      BY <1>2 DEF Occurrences
    <2> QED BY <2>1, <2>2, FS_EmptySet
  <1>12. Watches
    BY <1>2, <1>3 DEF Watches, Watched
  <1>13. Unary
    <2>1. \A k \in DOMAIN clauses : ~(k < wlPos)
      BY <1>1, <1>2, Sequences
    <2> QED BY <1>4, <2>1 DEF Unary
  <1>14. Follows
    BY <1>2, <1>3 DEF Follows, Models
  <1>15. Analysis
    BY <1>2 DEF Analysis, Analysing
  <1>16. Learning
    BY <1>2 DEF Learning
  <1>17. Unanswered
    BY <1>2 DEF Unanswered
  <1> QED BY <1>1, <1>5, <1>6, <1>7, <1>8, <1>9, <1>10, <1>11, <1>12, <1>13, <1>14,
             <1>15, <1>16, <1>17 DEF IInv

\* A step keeps the invariant.
LEMMA NextInvariant ==
  ASSUME IInv, Next
  PROVE  IInv'
  BY TypesKept, AssignedKept, LevelsKept, ReasonsKept, QueueKept, HeapOKKept, OriginalsKept,
     ListsKept, WatchesKept, UnaryKept, FollowsKept, AnalysisKept, LearningKept,
     UnansweredKept DEF IInv

\* So does a step that changes nothing.
LEMMA StutterInvariant ==
  ASSUME IInv, UNCHANGED vars
  PROVE  IInv'
  <1> USE DEF IInv, vars, assignVars, analyzeVars
  <1>1. Types'
    BY DEF Types, Locals
  <1>2. Assigned' /\ Levels' /\ Reasons' /\ Queue'
    BY DEF Assigned, Levels, Reasons, Queue, DecisionLevel, Jumps, KeptTrail
  <1>3. HeapOK' /\ Originals' /\ Lists' /\ Unary' /\ Follows'
    BY DEF HeapOK, Started, Originals, Lists, Unary, Follows
  <1>4. Watches'
    BY DEF Watches, Propagated, Jumps, KeptTrail, DecisionLevel, WatchList, LitToPropagate
  <1>5. Analysis'
    BY DEF Analysis, Analysing, DecisionLevel
  <1>6. Learning'
    BY DEF Learning, Jumps, KeptTrail, DecisionLevel
  <1>7. Unanswered'
    BY DEF Unanswered
  <1> QED BY <1>1, <1>2, <1>3, <1>4, <1>5, <1>6, <1>7

\* The invariant holds of every behaviour, for every number of variables, every set of formulas and
\* every budget of conflicts.
THEOREM Invariance == Spec => []IInv
  <1>1. Init => IInv
    BY FirstInvariant
  <1>2. IInv /\ [Next]_vars => IInv'
    BY NextInvariant, StutterInvariant
  <1> QED BY <1>1, <1>2, PTL DEF Spec

-----------------------------------------------------------------------------
(***************************************************************************)
(* What the invariant says of the properties of Cdcl.                      *)
(***************************************************************************)
\* A variable of the trail is at one place, which Position gives.
LEMMA PositionIs ==
  ASSUME Assigned, NEW k \in DOMAIN trail
  PROVE  Position(LitToVar(trail[k])) = k
  <1> DEFINE v == LitToVar(trail[k])
             p == CHOOSE j \in DOMAIN trail : LitToVar(trail[j]) = v
  <1>1. p \in DOMAIN trail /\ LitToVar(trail[p]) = v
    OBVIOUS
  <1>2. p = k
    BY <1>1 DEF Assigned, VarAt
  <1> QED BY <1>2 DEF Position

\* HeapIsSound follows from the invariant.
LEMMA HeapFollows ==
  ASSUME IInv
  PROVE  HeapIsSound
  <1> SUFFICES ASSUME Started
               PROVE  /\ IsHeap(varHeap, scores)
                      /\ \A v \in Var : values[v] = Undef => InHeap(varHeap, v)
    BY DEF HeapIsSound
  <1>1. /\ Indexed(varHeap) /\ Ordered(varHeap, scores)
        /\ \A v \in Var : values[v] = Undef => InHeap(varHeap, v)
    BY DEF IInv, HeapOK
  <1>2. IsHeap(varHeap, scores)
    <2>1. DOMAIN varHeap.indices = Var
      BY <1>1 DEF Indexed
    <2> QED BY <1>1, <2>1 DEF Indexed, Ordered, IsHeap
  <1> QED BY <1>1, <1>2

\* So does TypeOK.
LEMMA TypesFollow ==
  ASSUME IInv
  PROVE  TypeOK
  <1>1. Types
    BY DEF IInv
  <1>2. pc # "cancel" => toPropagate <= Len(trail)
    BY DEF IInv, Queue
  <1> QED BY <1>1, <1>2 DEF Types, TypeOK, Pcs

\* The levels opened before the place k of the trail.
LEMMA LevelIsCount ==
  ASSUME IInv, NEW k \in DOMAIN trail
  PROVE  Lev(trail, level, k) = Cardinality({d \in DOMAIN trailLevels : trailLevels[d] < k})
  <1> DEFINE D == Lev(trail, level, k)
             n == Len(trailLevels)
             S == {d \in DOMAIN trailLevels : trailLevels[d] < k}
  <1>1. /\ n \in Nat /\ DOMAIN trailLevels = 1 .. n /\ k \in Nat
        /\ \A d \in 1 .. n : trailLevels[d] \in Nat
    BY Sequences DEF IInv
  <1>2. D \in 0 .. n /\ (D > 0 => trailLevels[D] < k) /\ (D < n => k <= trailLevels[D + 1])
    BY DEF IInv, Levels, OfLevel
  <1>3. \A d, e \in 1 .. n : d < e => trailLevels[d] < trailLevels[e]
    BY <1>1 DEF IInv, Levels
  <1> HIDE DEF D, n
  <1>4. ASSUME NEW d \in 1 .. n PROVE trailLevels[d] < k <=> d <= D
    <2>1. CASE d = D
      BY <1>2, <2>1
    <2>2. CASE d < D
      <3>1. D \in 1 .. n
        BY <1>1, <1>2, <2>2
      <3> QED BY <1>1, <1>2, <1>3, <2>2, <3>1
    <2>3. CASE d = D + 1
      BY <1>1, <1>2, <2>3
    <2>4. CASE d > D + 1
      <3>1. D + 1 \in 1 .. n /\ D < n
        BY <1>1, <1>2, <2>4
      <3>2. trailLevels[D + 1] < trailLevels[d]
        BY <1>3, <2>4, <3>1
      <3> QED BY <1>1, <1>2, <2>4, <3>1, <3>2
    <2> QED BY <1>1, <1>2, <2>1, <2>2, <2>3, <2>4
  <1>5. S = 1 .. D
    BY <1>1, <1>2, <1>4
  <1>6. Cardinality(1 .. D) = D
    <2>1. 1 \in Int /\ D \in Int /\ D \in Nat
      BY <1>1, <1>2
    <2> QED BY <2>1, FS_Interval
  <1> QED BY <1>5, <1>6 DEF D

\* TrailIsSound: the values, levels and reasons of _analyze (pysat.py:206).
LEMMA TrailFollows ==
  ASSUME IInv
  PROVE  TrailIsSound
  <1>1. Types /\ Assigned /\ Reasons
    BY DEF IInv
  <1>2. ASSUME NEW v \in Var
        PROVE  Cardinality({k \in DOMAIN trail : LitToVar(trail[k]) = v})
               = IF values[v] = Undef THEN 0 ELSE 1
    <2> DEFINE S == {k \in DOMAIN trail : LitToVar(trail[k]) = v}
    <2>1. CASE values[v] = Undef
      <3>1. \A k \in DOMAIN trail : values[VarAt(trail, k)] # Undef
        BY <1>1 DEF Assigned, Making, True, False, Undef
      <3>2. S = {}
        BY <2>1, <3>1 DEF VarAt
      <3> QED BY <2>1, <3>2, FS_EmptySet
    <2>2. CASE values[v] # Undef
      <3>1. PICK k \in DOMAIN trail : LitToVar(trail[k]) = v
        BY <1>1, <2>2 DEF Assigned, VarAt
      <3>2. S = {k}
        BY <1>1, <3>1 DEF Assigned, VarAt
      <3> QED BY <2>2, <3>2, FS_Singleton
    <2> QED BY <2>1, <2>2
  <1>3. ASSUME NEW k \in DOMAIN trail
        PROVE  /\ ValueLit(trail[k]) = True
               /\ level[LitToVar(trail[k])]
                  = Cardinality({d \in DOMAIN trailLevels : trailLevels[d] < k})
    <2>1. trail[k] \in Lit
      BY <1>1, Sequences
    <2>2. OnTrail(trail, trail[k])
      BY DEF OnTrail
    <2>3. ValueLit(trail[k]) = True
      BY <1>1, <2>1, <2>2, ValueOfLiteral
    <2> QED BY <2>3, LevelIsCount DEF Lev
  <1>4. ASSUME NEW k \in DOMAIN trail, reason[LitToVar(trail[k])] # None
        PROVE  LET c == clauses[reason[LitToVar(trail[k])]]
               IN  /\ c[1] = trail[k]
                   /\ \A i \in 2 .. Len(c) : /\ ValueLit(c[i]) = False
                                             /\ Position(LitToVar(c[i])) < k
    <2> DEFINE r == reason[LitToVar(trail[k])]
               c == clauses[r]
    <2>1. Implied(trail, k, c)
      BY <1>1, <1>4 DEF Reasons, VarAt
    <2>2. c \in Clause
      <3>1. VarAt(trail, k) \in Var /\ DOMAIN clauses = 1 .. Len(clauses) /\ Len(clauses) \in Nat
        BY <1>1, Sequences
      <3>2. r \in 0 .. Len(clauses)
        BY <1>1, <3>1 DEF Types, VarAt
      <3>3. r \in DOMAIN clauses
        BY <1>4, <3>1, <3>2 DEF None
      <3> QED BY <1>1, <3>3, Sequences
    <2> HIDE DEF c, r
    <2>3. ASSUME NEW i \in 2 .. Len(c)
          PROVE  ValueLit(c[i]) = False /\ Position(LitToVar(c[i])) < k
      <3>1. PICK j \in DOMAIN trail : j < k /\ trail[j] = NotLit(c[i])
        BY <2>1 DEF Implied, FalseBefore
      <3>2. c[i] \in Lit
        BY <2>2, Clauses
      <3>3. LitToVar(trail[j]) = LitToVar(c[i])
        BY <3>1, <3>2, Literals
      <3>4. OnTrail(trail, NotLit(c[i]))
        BY <3>1 DEF OnTrail
      <3>5. ValueLit(c[i]) = False
        BY <1>1, <3>2, <3>4, ValueOfLiteral
      <3>6. Position(LitToVar(c[i])) = j
        BY <1>1, <3>3, PositionIs
      <3> QED BY <3>1, <3>5, <3>6
    <2>4. c[1] = trail[k]
      BY <2>1 DEF Implied
    <2> QED BY <2>3, <2>4 DEF c, r
  <1>5. TypeOK
    BY TypesFollow
  <1> QED BY <1>2, <1>3, <1>4, <1>5 DEF TrailIsSound

\* WatchesAreSound: the lists and the pairs of watched literals.
LEMMA WatchesFollow ==
  ASSUME IInv
  PROVE  WatchesAreSound
  <1>1. Types /\ Assigned /\ Lists /\ Watches
    BY DEF IInv
  <1>2. Started =>
          \A l \in Lit, k \in DOMAIN clauses :
            Cardinality({i \in DOMAIN watches[l] : watches[l][i] = k})
            = Cardinality({i \in {1, 2} \cap DOMAIN clauses[k] : clauses[k][i] = NotLit(l)})
    BY <1>1 DEF Lists, Occurrences, Places
  <1>3. ASSUME pc \in {"search", "propagate", "decide", "restart"},
               NEW k \in DOMAIN clauses, Len(clauses[k]) > 1, NEW i \in {1, 2},
               ValueLit(clauses[k][i]) = False,
               Position(LitToVar(clauses[k][i])) <= toPropagate
        PROVE  /\ ValueLit(clauses[k][3 - i]) = True
               /\ level[LitToVar(clauses[k][3 - i])] <= level[LitToVar(clauses[k][i])]
    <2> DEFINE c == clauses[k]
    <2>1. Propagated = toPropagate
      BY <1>3 DEF Propagated
    <2>2. Watched(trail, level, c, toPropagate)
      BY <1>1, <1>3, <2>1 DEF Watches
    <2>3. c \in Clause
      BY <1>1, Sequences
    <2>4. i \in DOMAIN c /\ 3 - i \in DOMAIN c /\ 3 - i \in {1, 2}
      BY <1>3, <2>3, Clauses
    <2> HIDE DEF c
    <2>5. c[i] \in Lit /\ c[3 - i] \in Lit
      BY <2>3, <2>4, Clauses
    <2>6. PICK j \in DOMAIN trail : trail[j] = NotLit(c[i])
      BY <1>1, <1>3, <2>5, ValueOfLiteral DEF OnTrail, c
    <2>7. LitToVar(trail[j]) = LitToVar(c[i])
      BY <2>5, <2>6, Literals
    <2>8. Position(LitToVar(c[i])) = j
      BY <1>1, <2>7, PositionIs
    <2>9. TrueBy(trail, level, c[3 - i], Lev(trail, level, j))
      BY <1>3, <2>2, <2>6, <2>8 DEF Watched, c
    <2>10. PICK h \in DOMAIN trail : trail[h] = c[3 - i] /\ Lev(trail, level, h) <= Lev(trail, level, j)
      BY <2>9 DEF TrueBy
    <2>11. OnTrail(trail, c[3 - i])
      BY <2>10 DEF OnTrail
    <2>12. ValueLit(c[3 - i]) = True
      BY <1>1, <2>5, <2>11, ValueOfLiteral
    <2>13. level[LitToVar(c[3 - i])] <= level[LitToVar(c[i])]
      BY <2>7, <2>10 DEF Lev
    <2> QED BY <2>12, <2>13 DEF c
  <1> QED BY <1>2, <1>3 DEF WatchesAreSound

\* The oracle and the invariant speak of the same assignments.
LEMMA SameModels ==
  /\ \A f : Oracle!Models(f) = Models(f)
  /\ \A m, c : Oracle!Satisfies(m, c) = Sat(m, c)
  /\ \A m, l : Oracle!Satisfies(m, <<l>>) = SatLit(m, l)
  <1>1. \A l : Oracle!LitToVar(l) = LitToVar(l) /\ Oracle!SignLit(l) = SignLit(l)
    BY DEF Oracle!LitToVar, LitToVar, Oracle!SignLit, SignLit
  <1>2. Oracle!Assignments = [Var -> BOOLEAN]
    BY DEF Oracle!Assignments, Oracle!Var, Var
  <1>3. \A m, c : Oracle!Satisfies(m, c) = Sat(m, c)
    BY <1>1 DEF Oracle!Satisfies, Sat, SatLit
  <1>4. \A f : Oracle!Models(f) = Models(f)
    BY <1>2, <1>3 DEF Oracle!Models, Models
  <1>5. ASSUME NEW m, NEW l PROVE Oracle!Satisfies(m, <<l>>) = SatLit(m, l)
    <2>1. DOMAIN <<l>> = {1} /\ <<l>>[1] = l
      OBVIOUS
    <2>2. Sat(m, <<l>>) = SatLit(m, l)
      BY <2>1 DEF Sat, SatLit
    <2> QED BY <1>3, <2>2
  <1> QED BY <1>3, <1>4, <1>5

\* LearntsFollow: what is learnt is a consequence of the formula.
LEMMA ConsequencesFollow ==
  ASSUME IInv
  PROVE  LearntsFollow
  <1>1. Follows
    BY DEF IInv
  <1> QED BY <1>1, SameModels DEF Follows, LearntsFollow, Lev

-----------------------------------------------------------------------------
(***************************************************************************)
(* The solver implements a decision procedure.                             *)
(***************************************************************************)
\* A literal of the trail is true in the assignment that is answered.
LEMMA AnsweredLiteral ==
  ASSUME IInv, NEW l \in Lit, OnTrail(trail, l)
  PROVE  SatLit([v \in Var |-> values[v] = True], l)
  <1>1. Types /\ Assigned
    BY DEF IInv
  <1>2. LitToVar(l) \in Var /\ SignLit(l) \in {0, 1}
    BY Literals
  <1>3. values[LitToVar(l)] = Making(l)
    BY <1>1 DEF Assigned, OnTrail, VarAt
  <1>4. (values[LitToVar(l)] = True) = (SignLit(l) = 0)
    BY <1>2, <1>3 DEF Making, True, False
  <1> QED BY <1>2, <1>4 DEF SatLit

\* An empty heap means that every variable has a value.
LEMMA AllHaveValues ==
  ASSUME IInv, AllAssigned
  PROVE  \A v \in Var : values[v] # Undef
  <1>1. /\ Indexed(varHeap) /\ varHeap.heap = <<>>
        /\ \A v \in Var : values[v] = Undef => InHeap(varHeap, v)
    BY DEF IInv, HeapOK, AllAssigned, Started
  <1>2. DOMAIN varHeap.heap = {}
    BY <1>1
  <1>3. \A v \in Var : ~InHeap(varHeap, v)
    BY <1>1, <1>2 DEF Indexed
  <1> QED BY <1>1, <1>3

\* Then, everything being propagated, each clause has a literal that is true.
LEMMA ClausesAreTrue ==
  ASSUME IInv, AllAssigned, NEW k \in DOMAIN clauses
  PROVE  \E i \in DOMAIN clauses[k] : clauses[k][i] \in Lit /\ OnTrail(trail, clauses[k][i])
  <1> DEFINE c == clauses[k]
  <1>1. Types /\ Assigned /\ Watches /\ Unary /\ Queue /\ pc = "decide"
    BY DEF IInv, AllAssigned
  <1>2. c \in Clause
    BY <1>1, Sequences
  <1>3. Len(c) > 1 => Watched(trail, level, c, toPropagate)
    BY <1>1 DEF Watches, Propagated
  <1>4. Len(c) = 1 => TrueBy(trail, level, c[1], 0)
    BY <1>1 DEF Unary, Started
  <1>5. toPropagate = Len(trail) /\ DOMAIN trail = 1 .. Len(trail) /\ Len(trail) \in Nat
    BY <1>1, Sequences DEF Queue
  <1> HIDE DEF c
  <1>6. 1 \in DOMAIN c /\ c[1] \in Lit /\ Len(c) \in Nat /\ Len(c) > 0
    BY <1>2, Clauses
  <1>7. CASE Len(c) = 1
    <2>1. OnTrail(trail, c[1])
      BY <1>4, <1>7 DEF TrueBy, OnTrail
    <2> QED BY <1>6, <2>1 DEF c
  <1>8. CASE Len(c) > 1
    <2>1. 2 \in DOMAIN c /\ c[2] \in Lit
      BY <1>2, <1>8, Clauses
    <2>2. CASE OnTrail(trail, c[1])
      BY <1>6, <2>2 DEF c
    <2>3. CASE ~OnTrail(trail, c[1])
      <3>1. ValueLit(c[1]) # Undef
        BY <1>1, <1>6, AllHaveValues, ValueOfLiteral, Literals
      <3>2. OnTrail(trail, NotLit(c[1]))
        BY <1>1, <1>6, <2>3, <3>1, ValueOfLiteral
      <3>3. PICK j \in DOMAIN trail : trail[j] = NotLit(c[1])
        BY <3>2 DEF OnTrail
      <3>4. j <= toPropagate
        BY <1>5
      <3>5. TrueBy(trail, level, c[3 - 1], Lev(trail, level, j))
        BY <1>3, <1>8, <3>3, <3>4 DEF Watched
      <3>6. OnTrail(trail, c[2])
        BY <3>5 DEF TrueBy, OnTrail
      <3> QED BY <2>1, <3>6 DEF c
    <2> QED BY <2>2, <2>3
  <1>9. Len(c) = 1 \/ Len(c) > 1
    BY <1>6
  <1> QED BY <1>7, <1>8, <1>9, Zenon

\* The assignment that is answered is a model of the formula.
LEMMA AnswerSatisfies ==
  ASSUME IInv, AllAssigned
  PROVE  answer = Unknown /\ answer' \in Models(formula)
  <1> DEFINE m == [v \in Var |-> values[v] = True]
  <1>1. Types /\ Originals /\ pc = "decide" /\ answer' = m
    BY DEF IInv, AllAssigned
  <1>2. answer = Unknown
    BY <1>1 DEF IInv, Unanswered
  <1>3. m \in [Var -> BOOLEAN]
    OBVIOUS
  <1>4. \A l \in Lit : OnTrail(trail, l) => SatLit(m, l)
    BY AnsweredLiteral
  <1> HIDE DEF m
  <1>5. ASSUME NEW k \in DOMAIN formula PROVE Sat(m, formula[k])
    <2>1. formula \in Seq(Clause)
      BY <1>1, CdclAssumption DEF Types, Clause
    <2>2. k \in DOMAIN clauses
      <3>1. /\ DOMAIN formula = 1 .. Len(formula) /\ Len(formula) \in Nat
            /\ DOMAIN clauses = 1 .. Len(clauses) /\ Len(clauses) \in Nat
        BY <1>1, <2>1, Sequences
      <3>2. Len(formula) <= Len(clauses)
        BY <1>1 DEF Originals
      <3> QED BY <3>1, <3>2
    <2>3. Sat(m, clauses[k])
      BY <1>4, <2>2, ClausesAreTrue DEF Sat
    <2>4. SameLiterals(clauses[k], formula[k])
      BY <1>1 DEF Originals, SameLiterals
    <2> QED BY <2>3, <2>4, SatSame
  <1>6. m \in Models(formula)
    BY <1>3, <1>5 DEF Models
  <1> QED BY <1>1, <1>2, <1>6

\* A clause that is false at level 0 leaves the formula no model.
LEMMA UnsatIsRight ==
  ASSUME IInv, ClauseEmpty, DecisionLevel = 0
  PROVE  answer = Unknown /\ Models(formula) = {}
  <1>1. Types /\ Assigned /\ Levels /\ Queue /\ Unary /\ Follows /\ pc = "watch"
    BY DEF IInv, ClauseEmpty, Inspecting
  <1>2. answer = Unknown
    BY <1>1 DEF IInv, Unanswered
  <1>3. Inspecting /\ NewWatches = {} /\ ValueLit(Inspected[1]) = False
    BY DEF ClauseEmpty
  <1>4. Inspected \in Clause
    BY <1>1, <1>3, InspectedClause
  <1>5. ASSUME NEW i \in DOMAIN Inspected
        PROVE  Inspected[i] \in Lit /\ OnTrail(trail, NotLit(Inspected[i]))
    <2>1. Inspected[i] \in Lit /\ DOMAIN Inspected = 1 .. Len(Inspected) /\ Len(Inspected) \in Nat
      BY <1>4, Clauses
    <2>2. i = 1 \/ i \in 2 .. Len(Inspected)
      BY <2>1
    <2>3. CASE i = 1
      BY <1>1, <1>3, <2>1, <2>3, ValueOfLiteral
    <2>4. CASE i \in 2 .. Len(Inspected)
      BY <1>3, <2>1, <2>4, InspectedFalse
    <2> QED BY <2>2, <2>3, <2>4
  <1>6. \A p \in DOMAIN trail : Lev(trail, level, p) = 0
    <2> TAKE p \in DOMAIN trail
    <2>1. Lev(trail, level, p) \in 0 .. Len(trailLevels) /\ Len(trailLevels) = 0
      BY <1>1 DEF Levels, OfLevel, DecisionLevel
    <2> QED BY <2>1
  <1>7. ASSUME NEW m \in Models(formula) PROVE FALSE
    <2>1. m \in [Var -> BOOLEAN]
      BY DEF Models
    <2>2. PICK i \in DOMAIN Inspected : SatLit(m, Inspected[i])
      BY <1>3, InspectedFollows DEF Sat
    <2>3. PICK p \in DOMAIN trail : trail[p] = NotLit(Inspected[i])
      BY <1>5 DEF OnTrail
    <2>4. SatLit(m, NotLit(Inspected[i]))
      BY <1>1, <1>6, <2>3 DEF Follows
    <2> QED BY <1>5, <2>1, <2>2, <2>4, SatNegation
  <1> QED BY <1>2, <1>7

\* No other step answers.
LEMMA AnswerStays ==
  ASSUME Next, ~AllAssigned, ~(ClauseEmpty /\ DecisionLevel = 0)
  PROVE  formula' = formula /\ answer' = answer
  <1> USE DEF analyzeVars, assignVars
  <1>1. CASE BuildClause \/ Exit \/ EndOfBuild \/ UndoLiteral \/ EndOfCancel
    BY <1>1 DEF BuildClause, Exit, EndOfBuild, UndoLiteral, EndOfCancel
  <1>2. CASE StartSearch \/ ContinueSearch \/ BudgetSpent \/ TakeLiteral \/ NothingToPropagate
    BY <1>2 DEF StartSearch, ContinueSearch, BudgetSpent, TakeLiteral, NothingToPropagate
  <1>3. CASE ClauseSatisfied \/ MoveWatch \/ ClauseUnit \/ EndOfWatches
    BY <1>3 DEF ClauseSatisfied, MoveWatch, ClauseUnit, EndOfWatches
  <1>4. CASE ClauseEmpty
    BY <1>4 DEF ClauseEmpty
  <1>5. CASE SkipLiteral \/ SeeLiteral \/ ResolveReason \/ FindUip \/ Learn
    BY <1>5 DEF SkipLiteral, SeeLiteral, ResolveReason, FindUip, Learn
  <1>6. CASE DropAssigned \/ Decide
    BY <1>6 DEF DropAssigned, Decide
  <1> QED BY <1>1, <1>2, <1>3, <1>4, <1>5, <1>6, Zenon DEF Next

\* The initial states of the solver are those of the oracle.
LEMMA FirstIsOracle ==
  ASSUME Init
  PROVE  Oracle!Init
  BY DEF Init, Oracle!Init

\* A step of the solver is an answer of the oracle or nothing to it.
LEMMA StepIsOracle ==
  ASSUME IInv, Next
  PROVE  Oracle!Answer \/ UNCHANGED <<formula, answer>>
  <1>1. CASE AllAssigned
    <2>1. answer = Unknown /\ answer' \in Models(formula) /\ formula' = formula
      BY <1>1, AnswerSatisfies DEF AllAssigned
    <2>2. Models(formula) # {}
      BY <2>1
    <2> QED BY <2>1, <2>2, SameModels DEF Oracle!Answer
  <1>2. CASE ClauseEmpty /\ DecisionLevel = 0
    <2>1. answer = Unknown /\ Models(formula) = {}
      BY <1>2, UnsatIsRight
    <2>2. answer' = Unsat /\ formula' = formula
      BY <1>2 DEF ClauseEmpty
    <2> QED BY <2>1, <2>2, SameModels DEF Oracle!Answer
  <1>3. CASE ~AllAssigned /\ ~(ClauseEmpty /\ DecisionLevel = 0)
    BY <1>3, AnswerStays
  <1> QED BY <1>1, <1>2, <1>3

-----------------------------------------------------------------------------
(***************************************************************************)
(* The theorems.                                                           *)
(***************************************************************************)
\* The heap of the variables is in order, for every formula and whatever the
\* bumps, removals and insertions of the solver (pysat.py:76-133).
THEOREM HeapCorrect == Spec => []HeapIsSound
  <1>1. IInv => HeapIsSound
    BY HeapFollows
  <1> QED BY <1>1, Invariance, PTL

\* The trail is the assignment, with its levels and reasons, which is what the
\* analysis relies on (pysat.py:206).
THEOREM TrailCorrect == Spec => []TrailIsSound
  <1>1. IInv => TrailIsSound
    BY TrailFollows
  <1> QED BY <1>1, Invariance, PTL

\* A clause whose watched literal is false and propagated has the other one
\* true, after every backjump and every learnt clause (pysat.py:87, 215).
THEOREM WatchesCorrect == Spec => []WatchesAreSound
  <1>1. IInv => WatchesAreSound
    BY WatchesFollow
  <1> QED BY <1>1, Invariance, PTL

\* Each learnt clause and each literal of level 0 is a consequence of the
\* formula (pysat.py:206-215).
THEOREM LearningCorrect == Spec => []LearntsFollow
  <1>1. IInv => LearntsFollow
    BY ConsequencesFollow
  <1> QED BY <1>1, Invariance, PTL

\* The solver implements Decider: what it answers is a model of the formula,
\* or that there is none (pysat.py:283-351).
THEOREM Correctness == Spec => ImplementsDecider
  <1>1. Init => Oracle!Init
    BY FirstIsOracle
  <1>2. IInv /\ [Next]_vars => [Oracle!Answer]_<<formula, answer>>
    <2>1. CASE IInv /\ Next
      BY <2>1, StepIsOracle
    <2>2. CASE UNCHANGED vars
      BY <2>2 DEF vars
    <2> QED BY <2>1, <2>2
  <1> QED BY <1>1, <1>2, Invariance, PTL DEF Spec, Oracle!Spec, ImplementsDecider
=============================================================================
