------------------------------- MODULE SatHeap -------------------------------
(***************************************************************************)
(* The heap of variables of the CDCL solver (pysat/src/satheapq.py): a     *)
(* binary heap that knows where each of its elements is, so that the       *)
(* solver can move a variable whose score grew.                            *)
(*                                                                         *)
(* A heap is a record: `heap' is the array (its positions start at 1 here  *)
(* and at 0 in the code, so the parent of i is i \div 2) and indices[n] is *)
(* the position of n, Absent where the code has -1.  The comparison of the *)
(* solver is score[x] > score[y] (pysat.py:47).                            *)
(***************************************************************************)
EXTENDS Naturals, Sequences

Absent == 0

EmptyHeap(Elem) == [heap |-> <<>>, indices |-> [n \in Elem |-> Absent]]

InHeap(h, n) == h.indices[n] # Absent

(***************************************************************************)
(* A loop that starts at position i and goes on to next[k] from k, until   *)
(* that is Absent, goes through the smallest set of positions that has i   *)
(* and, with k, next[k].                                                   *)
(***************************************************************************)
Path(next, i) ==
  LET Goes(S) == i \in S /\ \A k \in S : next[k] # Absent => next[k] \in S
      closed  == {S \in SUBSET DOMAIN next : Goes(S)}
  IN  {k \in DOMAIN next : \A S \in closed : k \in S}

(***************************************************************************)
(* The element at i goes to the end of the path, and each of the others    *)
(* comes one step back; the positions of all of them are written.          *)
(***************************************************************************)
Slide(h, i, next) ==
  LET path   == Path(next, i)
      from   == [k \in path |-> h.heap[IF next[k] = Absent THEN i ELSE next[k]]]
  IN  [heap    |-> [k \in DOMAIN h.heap |-> IF k \in path THEN from[k] ELSE h.heap[k]],
       indices |-> [n \in DOMAIN h.indices |->
                      IF \E k \in path : from[k] = n
                      THEN CHOOSE k \in path : from[k] = n
                      ELSE h.indices[n]]]

\* The element at i rises over the parents it precedes.
PercolateUp(h, i, score) ==
  Slide(h, i,
        [k \in DOMAIN h.heap |->
           IF k > 1 /\ score[h.heap[i]] > score[h.heap[k \div 2]]
           THEN k \div 2 ELSE Absent])

\* The child of k that precedes the other one.
BestChild(h, k, score) ==
  IF /\ 2 * k + 1 <= Len(h.heap)
     /\ score[h.heap[2 * k + 1]] > score[h.heap[2 * k]]
  THEN 2 * k + 1 ELSE 2 * k

\* The element at i sinks under the best child as long as that precedes it.
PercolateDown(h, i, score) ==
  Slide(h, i,
        [k \in DOMAIN h.heap |->
           IF /\ 2 * k <= Len(h.heap)
              /\ score[h.heap[BestChild(h, k, score)]] > score[h.heap[i]]
           THEN BestChild(h, k, score) ELSE Absent])

(* Mutant: the wrong way. *)
DecreaseDown(h, n, score) == PercolateDown(h, h.indices[n], score)

\* The score of n grew.
Decrease(h, n, score) == PercolateUp(h, h.indices[n], score)

\* n is appended and rises.
Insert(h, n, score) ==
  LET last == Len(h.heap) + 1
  IN  PercolateUp([heap    |-> Append(h.heap, n),
                   indices |-> [h.indices EXCEPT ![n] = last]], last, score)

\* The first element leaves, the last one takes its place and sinks.
RemoveMin(h, score) ==
  LET size == Len(h.heap)
      last == h.heap[size]
      cut  == [heap    |-> [k \in 1 .. size - 1 |-> IF k = 1 THEN last ELSE h.heap[k]],
               indices |-> [[h.indices EXCEPT ![last] = 1] EXCEPT ![h.heap[1]] = Absent]]
  IN  IF size > 2 THEN PercolateDown(cut, 1, score) ELSE cut

(***************************************************************************)
(* What the operations must keep: indices is the inverse of the array, and *)
(* no element precedes its parent.                                         *)
(***************************************************************************)
IsHeap(h, score) ==
  /\ \A n \in DOMAIN h.indices :
       IF InHeap(h, n) THEN h.indices[n] \in DOMAIN h.heap /\ h.heap[h.indices[n]] = n
                       ELSE \A k \in DOMAIN h.heap : h.heap[k] # n
  /\ \A k \in DOMAIN h.heap :
       /\ h.indices[h.heap[k]] = k
       /\ k > 1 => score[h.heap[k \div 2]] >= score[h.heap[k]]
=============================================================================
