-------------------------------- MODULE Cdcl --------------------------------
(***************************************************************************)
(* The CDCL solver of pysat (pysat/src/pysat.py, with the literals of      *)
(* sattypes.py and the heap of satheapq.py): _search with its restarts,    *)
(* _propagate by two watched literals, _analyze to the first unique        *)
(* implication point, _cancelUntil, _pickBranchLit.                        *)
(*                                                                         *)
(* One action per turn of a loop of the code: a literal taken from the     *)
(* propagation queue, a watched clause inspected, a literal of a clause    *)
(* looked at by the analysis, a variable taken from the heap.              *)
(*                                                                         *)
(* The scores are abstracted to the order they put on the variables: a     *)
(* bump adds the same positive number to the score of a variable, which    *)
(* raises it by an unknown number of ranks; rescaling keeps the order.     *)
(* A clause is named by its place in `clauses' (the initial ones, then the *)
(* learnt ones), None is 0.                                                *)
(***************************************************************************)
EXTENDS Naturals, FiniteSets, SequencesExt, SatHeap

CONSTANTS
  NbVars,      \* number of variables
  Formulas,    \* the formulas given to the solver: sequences of clauses
  Budget(_),   \* conflicts allowed to the n-th call of _search (maxConflicts)
  Unknown,     \* lit_Undef as a status
  Unsat        \* lit_False as a status

VARIABLES
  formula,     \* the clauses that were added
  clauses,     \* the clauses as arrays: _clauses, then _learnts
  watches,     \* for each literal, the clauses to inspect when it gets true
  values, level, reason, polarity, seen, scores, varHeap,
  trail,       \* literals in the order of their assignment
  trailLevels, \* length of the trail when each level was opened
  toPropagate, \* _trailIndexToPropagate
  restarts, conflictC,
  pc,          \* where the solver is
  wlPos,       \* position in the list of watches
  loc,         \* the local variables of _analyze
  answer       \* status of solve, finalModel when it is lit_True

assignVars  == <<values, level, reason, polarity, varHeap, trail, trailLevels,
                 toPropagate>>
analyzeVars == <<seen, scores, loc>>
vars == <<formula, clauses, watches, assignVars, analyzeVars, restarts,
          conflictC, pc, wlPos, answer>>

-----------------------------------------------------------------------------
Var == 0 .. NbVars - 1
Lit == 0 .. 2 * NbVars - 1

\* addClause refuses a clause without literals: its maximum does not exist.
ASSUME CdclAssumption ==
  /\ NbVars \in Nat \ {0}
  /\ Formulas \subseteq Seq(Seq(Lit) \ {<<>>})
  /\ Unknown # Unsat /\ {Unknown, Unsat} \cap [Var -> BOOLEAN] = {}

LitToVar(l) == l \div 2
SignLit(l)  == l % 2
NotLit(l)   == IF SignLit(l) = 0 THEN l + 1 ELSE l - 1
VarToLit(v, sign) == 2 * v + sign

False == 0
True  == 1
Undef == 2
None  == 0

ValueLit(l) ==
  LET value == values[LitToVar(l)]
  IN  CASE value = Undef                     -> Undef
        [] value # Undef /\ SignLit(l) = 1 -> 1 - value
        [] OTHER                             -> value

DecisionLevel == Len(trailLevels)

\* Value that makes the literal l true.
Making(l) == IF SignLit(l) = 1 THEN False ELSE True

(***************************************************************************)
(* Rankings stand for scores: what matters is who is before whom.          *)
(***************************************************************************)
Rankings ==
  {r \in [Var -> 0 .. NbVars - 1] :
     \A v \in Var : r[v] > 0 => \E u \in Var : r[u] + 1 = r[v]}

\* v rises by some number of ranks and nobody else moves.
Bumped(v) ==
  {r \in Rankings :
     /\ \A u, w \in Var \ {v} : r[u] <= r[w] <=> scores[u] <= scores[w]
     /\ \A u \in Var \ {v} : /\ scores[u] <= scores[v] => r[u] <= r[v]
                             /\ scores[u] < scores[v]  => r[u] < r[v]}

NoLocals == [c |-> None, j |-> 0, learnt |-> <<>>, pathC |-> 0, index |-> 0,
             backtrackLevel |-> 0, maxbl |-> 0]

-----------------------------------------------------------------------------
Init ==
  /\ formula \in Formulas
  /\ clauses = formula
  /\ watches = [l \in Lit |-> <<>>]
  /\ values = [v \in Var |-> Undef]
  /\ level = [v \in Var |-> 0]
  /\ reason = [v \in Var |-> None]
  /\ polarity = [v \in Var |-> 1]
  /\ seen = [v \in Var |-> 0]
  /\ scores = [v \in Var |-> 0]
  /\ varHeap = EmptyHeap(Var)
  /\ trail = <<>> /\ trailLevels = <<>> /\ toPropagate = 0
  /\ restarts = 0 /\ conflictC = 0
  /\ pc = "build" /\ wlPos = 1 /\ loc = NoLocals
  /\ answer = Unknown

(* Mutant: the level of the literal is not written. *)
EnqueueNoLevel(l, r) ==
  /\ values' = [values EXCEPT ![LitToVar(l)] = Making(l)]
  /\ reason' = [reason EXCEPT ![LitToVar(l)] = r]
  /\ trail' = Append(trail, l)
  /\ UNCHANGED level

\* _uncheckedEnqueue(l, r) at the present level.
Enqueue(l, r) ==
  /\ values' = [values EXCEPT ![LitToVar(l)] = Making(l)]
  /\ reason' = [reason EXCEPT ![LitToVar(l)] = r]
  /\ level' = [level EXCEPT ![LitToVar(l)] = DecisionLevel]
  /\ trail' = Append(trail, l)

(***************************************************************************)
(* buildDataStructure: each clause is watched by its first two literals,   *)
(* and a unary one goes to the trail too.  A second unary clause on the    *)
(* same variable makes the program exit.  Then every variable is inserted  *)
(* in the heap in turn: no score is above another, none rises.             *)
(***************************************************************************)
\* The lists of watches once clause number k, which is c, is in them.
Attached(c, k) ==
  IF Len(c) = 1 THEN [watches EXCEPT ![NotLit(c[1])] = Append(@, k)]
  ELSE [[watches EXCEPT ![NotLit(c[1])] = Append(@, k)]
                 EXCEPT ![NotLit(c[2])] = Append(@, k)]

BuildClause ==
  /\ pc = "build"
  /\ wlPos <= Len(clauses)
  /\ LET c == clauses[wlPos]
     IN  /\ Len(c) = 1 => ValueLit(c[1]) = Undef
         /\ watches' = Attached(c, wlPos)
         /\ IF Len(c) = 1 THEN Enqueue(c[1], None)
                          ELSE UNCHANGED <<values, level, reason, trail>>
  /\ wlPos' = wlPos + 1
  /\ UNCHANGED <<formula, clauses, polarity, varHeap, trailLevels, toPropagate,
                 analyzeVars, restarts, conflictC, pc, answer>>

Exit ==
  /\ pc = "build"
  /\ wlPos <= Len(clauses)
  /\ Len(clauses[wlPos]) = 1 /\ ValueLit(clauses[wlPos][1]) # Undef
  /\ pc' = "exit"
  /\ UNCHANGED <<formula, clauses, watches, assignVars, analyzeVars, restarts,
                 conflictC, wlPos, answer>>

HeapOfAll == [heap    |-> [k \in 1 .. NbVars |-> k - 1],
              indices |-> [v \in Var |-> v + 1]]

EndOfBuild ==
  /\ pc = "build"
  /\ wlPos > Len(clauses)
  /\ varHeap' = HeapOfAll
  /\ wlPos' = 1
  /\ pc' = "restart"
  /\ UNCHANGED <<formula, clauses, watches, values, level, reason, polarity, trail,
                 trailLevels, toPropagate, analyzeVars, restarts, conflictC, answer>>

(***************************************************************************)
(* _cancelUntil(loc.backtrackLevel): one literal of the trail at a time,   *)
(* from the last one, then the levels.  What comes next depends on the     *)
(* caller: a clause to learn, the end of solve, or a restart.              *)
(***************************************************************************)
Jumps == DecisionLevel > loc.backtrackLevel
KeptTrail == trailLevels[loc.backtrackLevel + 1]

UndoLiteral ==
  /\ pc = "cancel"
  /\ Jumps /\ Len(trail) > KeptTrail
  /\ LET l == Last(trail)
         v == LitToVar(l)
     IN  /\ polarity' = [polarity EXCEPT ![v] = SignLit(l)]
         /\ values' = [values EXCEPT ![v] = Undef]
         /\ varHeap' = IF InHeap(varHeap, v) THEN varHeap
                                             ELSE Insert(varHeap, v, scores)
  /\ trail' = Front(trail)
  /\ UNCHANGED <<formula, clauses, watches, level, reason, trailLevels, toPropagate,
                 analyzeVars, restarts, conflictC, pc, wlPos, answer>>

(* Mutant: the queue goes on from where it was. *)
EndOfCancelQueueKept ==
  /\ pc = "cancel"
  /\ Jumps => Len(trail) = KeptTrail
  /\ trailLevels' = IF Jumps THEN SubSeq(trailLevels, 1, loc.backtrackLevel)
                             ELSE trailLevels
  /\ pc' = CASE loc.learnt # <<>> -> "learn"
             [] loc.learnt = <<>> /\ answer # Unknown -> "done"
             [] OTHER -> "restart"
  /\ UNCHANGED <<formula, clauses, watches, values, level, reason, polarity, varHeap,
                 trail, toPropagate, analyzeVars, restarts, conflictC, wlPos, answer>>

EndOfCancel ==
  /\ pc = "cancel"
  /\ Jumps => Len(trail) = KeptTrail
  /\ toPropagate' = IF Jumps THEN KeptTrail ELSE toPropagate
  /\ trailLevels' = IF Jumps THEN SubSeq(trailLevels, 1, loc.backtrackLevel)
                             ELSE trailLevels
  /\ pc' = CASE loc.learnt # <<>> -> "learn"
             [] loc.learnt = <<>> /\ answer # Unknown -> "done"
             [] OTHER -> "restart"
  /\ UNCHANGED <<formula, clauses, watches, values, level, reason, polarity, varHeap,
                 trail, analyzeVars, restarts, conflictC, wlPos, answer>>

-----------------------------------------------------------------------------
(***************************************************************************)
(* solve and the head of the loop of _search.                              *)
(***************************************************************************)
StartSearch ==
  /\ pc = "restart"
  /\ restarts' = restarts + 1
  /\ conflictC' = 0
  /\ pc' = "search"
  /\ UNCHANGED <<formula, clauses, watches, assignVars, analyzeVars, wlPos, answer>>

ContinueSearch ==
  /\ pc = "search"
  /\ conflictC < Budget(restarts)
  /\ pc' = "propagate"
  /\ UNCHANGED <<formula, clauses, watches, assignVars, analyzeVars, restarts,
                 conflictC, wlPos, answer>>

BudgetSpent ==
  /\ pc = "search"
  /\ conflictC >= Budget(restarts)
  /\ pc' = "cancel"
  /\ UNCHANGED <<formula, clauses, watches, assignVars, analyzeVars, restarts,
                 conflictC, wlPos, answer>>

-----------------------------------------------------------------------------
(***************************************************************************)
(* _propagate.                                                             *)
(***************************************************************************)
LitToPropagate == trail[toPropagate]
WatchList == watches[LitToPropagate]

TakeLiteral ==
  /\ pc = "propagate"
  /\ toPropagate < Len(trail)
  /\ toPropagate' = toPropagate + 1
  /\ pc' = "watch"
  /\ wlPos' = 1
  /\ UNCHANGED <<formula, clauses, watches, values, level, reason, polarity, varHeap,
                 trail, trailLevels, analyzeVars, restarts, conflictC, answer>>

NothingToPropagate ==
  /\ pc = "propagate"
  /\ toPropagate >= Len(trail)
  /\ pc' = "decide"
  /\ UNCHANGED <<formula, clauses, watches, assignVars, analyzeVars, restarts,
                 conflictC, wlPos, answer>>

\* The inspected clause, the false literal put in its second place.
Inspected ==
  LET c == clauses[WatchList[wlPos]]
  IN  IF c[1] = NotLit(LitToPropagate)
      THEN [[c EXCEPT ![1] = c[2]] EXCEPT ![2] = NotLit(LitToPropagate)]
      ELSE c

\* Literals of the inspected clause that could be watched instead.
NewWatches == {k \in 3 .. Len(Inspected) : ValueLit(Inspected[k]) # False}

Inspecting ==
  /\ pc = "watch"
  /\ wlPos <= Len(WatchList)

ClauseSatisfied ==
  /\ Inspecting
  /\ ValueLit(Inspected[1]) = True
  /\ clauses' = [clauses EXCEPT ![WatchList[wlPos]] = Inspected]
  /\ wlPos' = wlPos + 1
  /\ UNCHANGED <<formula, watches, assignVars, analyzeVars, restarts, conflictC, pc,
                 answer>>

\* The entry leaves this list (the loop of the code leaves a hole in it and
\* closes it when it ends) for the one of the new watched literal.
MoveWatch ==
  /\ Inspecting
  /\ ValueLit(Inspected[1]) # True
  /\ NewWatches # {}
  /\ LET c == WatchList[wlPos]
         k == CHOOSE i \in NewWatches : \A j \in NewWatches : i <= j
         l == Inspected[k]
     IN  /\ clauses' = [clauses EXCEPT ![c] =
                          [[Inspected EXCEPT ![k] = Inspected[2]] EXCEPT ![2] = l]]
         /\ watches' = [[watches EXCEPT ![LitToPropagate] = RemoveAt(@, wlPos)]
                                 EXCEPT ![NotLit(l)] = Append(@, c)]
  /\ UNCHANGED <<formula, assignVars, analyzeVars, restarts, conflictC, pc, wlPos,
                 answer>>

ClauseUnit ==
  /\ Inspecting
  /\ ValueLit(Inspected[1]) = Undef
  /\ NewWatches = {}
  /\ clauses' = [clauses EXCEPT ![WatchList[wlPos]] = Inspected]
  /\ Enqueue(Inspected[1], WatchList[wlPos])
  /\ wlPos' = wlPos + 1
  /\ UNCHANGED <<formula, watches, polarity, varHeap, trailLevels, toPropagate,
                 analyzeVars, restarts, conflictC, pc, answer>>

\* _analyze starts: `index' is the end of the trail, `p' is None as long as
\* nothing was resolved (loc.j = 1 at the start, 2 in the reasons).
ClauseEmpty ==
  /\ Inspecting
  /\ ValueLit(Inspected[1]) = False
  /\ NewWatches = {}
  /\ clauses' = [clauses EXCEPT ![WatchList[wlPos]] = Inspected]
  /\ toPropagate' = Len(trail)
  /\ conflictC' = conflictC + 1
  /\ IF DecisionLevel = 0
     THEN /\ pc' = "done"
          /\ answer' = Unsat
          /\ UNCHANGED loc
     ELSE /\ pc' = "analyze"
          /\ loc' = [NoLocals EXCEPT !.c = WatchList[wlPos], !.j = 1,
                                     !.learnt = <<0>>, !.index = Len(trail)]
          /\ UNCHANGED answer
  /\ wlPos' = 1
  /\ UNCHANGED <<formula, watches, values, level, reason, polarity, varHeap, trail,
                 trailLevels, seen, scores, restarts>>

EndOfWatches ==
  /\ pc = "watch"
  /\ wlPos > Len(WatchList)
  /\ pc' = "propagate"
  /\ wlPos' = 1
  /\ UNCHANGED <<formula, clauses, watches, assignVars, analyzeVars, restarts,
                 conflictC, answer>>

-----------------------------------------------------------------------------
(***************************************************************************)
(* _analyze: the literals of the clause are counted if they belong to the  *)
(* present level, else learnt; then the last counted literal of the trail  *)
(* is replaced by its reason, until it is the only one.                    *)
(***************************************************************************)
SkipLiteral ==
  /\ pc = "analyze"
  /\ loc.j <= Len(clauses[loc.c])
  /\ LET v == LitToVar(clauses[loc.c][loc.j])
     IN  seen[v] = 1 \/ level[v] = 0
  /\ loc' = [loc EXCEPT !.j = @ + 1]
  /\ UNCHANGED <<formula, clauses, watches, assignVars, seen, scores, restarts,
                 conflictC, pc, wlPos, answer>>

SeeLiteral ==
  /\ pc = "analyze"
  /\ loc.j <= Len(clauses[loc.c])
  /\ LET q == clauses[loc.c][loc.j]
         v == LitToVar(q)
     IN  /\ seen[v] = 0
         /\ level[v] > 0
         /\ seen' = [seen EXCEPT ![v] = 1]
         /\ scores' \in Bumped(v)
         /\ varHeap' = IF InHeap(varHeap, v) THEN Decrease(varHeap, v, scores')
                                             ELSE varHeap
         /\ loc' = CASE level[v] = DecisionLevel ->
                          [loc EXCEPT !.j = @ + 1, !.pathC = @ + 1]
                     [] level[v] # DecisionLevel /\ level[v] > loc.backtrackLevel ->
                          [loc EXCEPT !.j = @ + 1, !.learnt = Append(@, q),
                                      !.backtrackLevel = level[v],
                                      !.maxbl = Len(loc.learnt) + 1]
                     [] OTHER ->
                          [loc EXCEPT !.j = @ + 1, !.learnt = Append(@, q)]
  /\ UNCHANGED <<formula, clauses, watches, values, level, reason, polarity, trail,
                 trailLevels, toPropagate, restarts, conflictC, pc, wlPos, answer>>

\* Place of the last literal of the trail, at or before index, that was seen.
LastSeen ==
  LET places == {k \in 1 .. loc.index : seen[LitToVar(trail[k])] = 1}
  IN  CHOOSE k \in places : \A i \in places : i <= k

ResolveReason ==
  /\ pc = "analyze"
  /\ loc.j > Len(clauses[loc.c])
  /\ loc.pathC > 1
  /\ LET v == LitToVar(trail[LastSeen])
     IN  /\ seen' = [seen EXCEPT ![v] = 0]
         /\ loc' = [loc EXCEPT !.index = LastSeen - 1, !.pathC = @ - 1,
                               !.c = reason[v], !.j = 2]
  /\ UNCHANGED <<formula, clauses, watches, assignVars, scores, restarts, conflictC,
                 pc, wlPos, answer>>

(* Mutant: the clause is watched by its first two literals as they were learnt. *)
AsLearnt(c, maxbl) == c

\* The literal of the highest level goes to the second place, to be watched.
Arranged(c, maxbl) ==
  IF Len(c) > 1 THEN [[c EXCEPT ![maxbl] = c[2]] EXCEPT ![2] = c[maxbl]] ELSE c

(* Mutant: the tags of the learnt literals stay. *)
FindUipTagsLeft ==
  /\ pc = "analyze"
  /\ loc.j > Len(clauses[loc.c])
  /\ loc.pathC = 1
  /\ LET p == trail[LastSeen]
     IN  /\ seen' = [seen EXCEPT ![LitToVar(p)] = 0]
         /\ loc' = [NoLocals EXCEPT
                      !.learnt = Arranged([loc.learnt EXCEPT ![1] = NotLit(p)], loc.maxbl),
                      !.backtrackLevel = loc.backtrackLevel]
  /\ pc' = "cancel"
  /\ UNCHANGED <<formula, clauses, watches, assignVars, scores, restarts, conflictC,
                 wlPos, answer>>

FindUip ==
  /\ pc = "analyze"
  /\ loc.j > Len(clauses[loc.c])
  /\ loc.pathC = 1
  /\ LET c == [loc.learnt EXCEPT ![1] = NotLit(trail[LastSeen])]
     IN  /\ seen' = [v \in Var |-> IF \E k \in DOMAIN c : LitToVar(c[k]) = v
                                   THEN 0 ELSE seen[v]]
         /\ loc' = [NoLocals EXCEPT !.learnt = Arranged(c, loc.maxbl),
                                    !.backtrackLevel = loc.backtrackLevel]
  /\ pc' = "cancel"
  /\ UNCHANGED <<formula, clauses, watches, assignVars, scores, restarts, conflictC,
                 wlPos, answer>>

\* After the backjump: the learnt clause is attached (a unary one is not
\* kept) and its first literal enqueued.
Learn ==
  LET c   == loc.learnt
      new == Len(clauses) + 1
  IN
  /\ pc = "learn"
  /\ IF Len(c) = 1
     THEN /\ Enqueue(c[1], None)
          /\ UNCHANGED <<clauses, watches>>
     ELSE /\ Enqueue(c[1], new)
          /\ clauses' = Append(clauses, c)
          /\ watches' = Attached(c, new)
  /\ loc' = NoLocals
  /\ pc' = "search"
  /\ UNCHANGED <<formula, polarity, varHeap, trailLevels, toPropagate, seen, scores,
                 restarts, conflictC, wlPos, answer>>

-----------------------------------------------------------------------------
(***************************************************************************)
(* _pickBranchLit and the decision: assigned variables are dropped from    *)
(* the heap until one is not, or the heap is empty.                        *)
(***************************************************************************)
(* Mutant: the first variable is looked at, not taken. *)
PeekAssigned ==
  /\ pc = "decide"
  /\ varHeap.heap # <<>>
  /\ values[varHeap.heap[1]] # Undef
  /\ UNCHANGED vars

DropAssigned ==
  /\ pc = "decide"
  /\ varHeap.heap # <<>>
  /\ values[varHeap.heap[1]] # Undef
  /\ varHeap' = RemoveMin(varHeap, scores)
  /\ UNCHANGED <<formula, clauses, watches, values, level, reason, polarity, trail,
                 trailLevels, toPropagate, analyzeVars, restarts, conflictC, pc,
                 wlPos, answer>>

Decide ==
  /\ pc = "decide"
  /\ varHeap.heap # <<>>
  /\ LET v == varHeap.heap[1]
         l == VarToLit(v, polarity[v])
     IN  /\ values[v] = Undef
         /\ varHeap' = RemoveMin(varHeap, scores)
         /\ trailLevels' = Append(trailLevels, Len(trail))
         /\ values' = [values EXCEPT ![v] = Making(l)]
         /\ reason' = [reason EXCEPT ![v] = None]
         /\ level' = [level EXCEPT ![v] = DecisionLevel + 1]
         /\ trail' = Append(trail, l)
  /\ pc' = "search"
  /\ UNCHANGED <<formula, clauses, watches, polarity, toPropagate, analyzeVars,
                 restarts, conflictC, wlPos, answer>>

\* lit_True: solve copies the values and cancels everything.
AllAssigned ==
  /\ pc = "decide"
  /\ varHeap.heap = <<>>
  /\ answer' = [v \in Var |-> values[v] = True]
  /\ pc' = "cancel"
  /\ UNCHANGED <<formula, clauses, watches, assignVars, analyzeVars, restarts,
                 conflictC, wlPos>>

-----------------------------------------------------------------------------
Next ==
  \/ BuildClause \/ Exit \/ EndOfBuild
  \/ UndoLiteral \/ EndOfCancel
  \/ StartSearch \/ ContinueSearch \/ BudgetSpent
  \/ TakeLiteral \/ NothingToPropagate
  \/ ClauseSatisfied \/ MoveWatch \/ ClauseUnit \/ ClauseEmpty \/ EndOfWatches
  \/ SkipLiteral \/ SeeLiteral \/ ResolveReason \/ FindUip \/ Learn
  \/ DropAssigned \/ Decide \/ AllAssigned

Spec == Init /\ [][Next]_vars

\* One thread, which nothing stops.
FairSpec == Spec /\ WF_vars(Next)

-----------------------------------------------------------------------------
(***************************************************************************)
(* Properties.                                                             *)
(***************************************************************************)
Started == pc \notin {"build", "exit"}

Position(v) == CHOOSE k \in DOMAIN trail : LitToVar(trail[k]) = v

TypeOK ==
  /\ pc \in {"build", "exit", "restart", "search", "propagate", "watch", "analyze",
             "cancel", "learn", "decide", "done"}
  /\ values \in [Var -> {False, True, Undef}]
  /\ level \in [Var -> 0 .. NbVars]
  /\ reason \in [Var -> 0 .. Len(clauses)]
  /\ polarity \in [Var -> {0, 1}]
  /\ seen \in [Var -> {0, 1}]
  /\ scores \in Rankings
  /\ trail \in Seq(Lit)
  /\ toPropagate \in Nat /\ (pc # "cancel" => toPropagate <= Len(trail))
  /\ answer \in {Unknown, Unsat} \cup [Var -> BOOLEAN]

(***************************************************************************)
(* The trail is the assignment: a variable has a value exactly when it is  *)
(* on the trail, once, at its level; and the reason of a literal is a      *)
(* clause that begins with it and whose other literals were made false     *)
(* before it.  This is what _analyze relies on when it resolves            *)
(* (pysat.py:206), and what _cancelUntil, the enqueues of _propagate and   *)
(* _search and the swaps of watched literals must keep.                    *)
(***************************************************************************)
TrailIsSound ==
  /\ TypeOK
  /\ \A v \in Var : Cardinality({k \in DOMAIN trail : LitToVar(trail[k]) = v})
                    = IF values[v] = Undef THEN 0 ELSE 1
  /\ \A k \in DOMAIN trail :
       LET v == LitToVar(trail[k])
       IN  /\ ValueLit(trail[k]) = True
           /\ level[v] = Cardinality({d \in DOMAIN trailLevels : trailLevels[d] < k})
           /\ reason[v] # None =>
                LET c == clauses[reason[v]]
                IN  /\ c[1] = trail[k]
                    /\ \A i \in 2 .. Len(c) : /\ ValueLit(c[i]) = False
                                              /\ Position(LitToVar(c[i])) < k

(***************************************************************************)
(* The watched literals: a clause is in the lists of the negations of its  *)
(* first two literals and in no other, and when one of the two is false    *)
(* and was propagated, the other one is true and does not get unassigned   *)
(* before it.  A clause that loses this is not seen when it becomes unit   *)
(* or empty.  The invariant must survive backjumps that do not touch the   *)
(* lists (pysat.py:87) and the attachment of a learnt clause, whose second *)
(* literal must be of the level that is jumped to (pysat.py:215).          *)
(***************************************************************************)
WatchesAreSound ==
  /\ Started =>
       \A l \in Lit, k \in DOMAIN clauses :
         Cardinality({i \in DOMAIN watches[l] : watches[l][i] = k})
         = Cardinality({i \in {1, 2} \cap DOMAIN clauses[k] : clauses[k][i] = NotLit(l)})
  /\ pc \in {"search", "propagate", "decide", "restart"} =>
       \A k \in DOMAIN clauses : Len(clauses[k]) > 1 =>
         \A i \in {1, 2} :
           LET false == LitToVar(clauses[k][i])
               other == clauses[k][3 - i]
           IN  (ValueLit(clauses[k][i]) = False /\ Position(false) <= toPropagate)
               => /\ ValueLit(other) = True
                  /\ level[LitToVar(other)] <= level[false]

\* What the formula means, and what it is to answer it.
Oracle == INSTANCE Decider

(***************************************************************************)
(* What the solver learns follows from the formula: each clause it has and *)
(* each literal of level 0 is true in every model of the formula, although *)
(* _analyze resolves reasons in an order that backjumps and bumps change   *)
(* (pysat.py:206-215).                                                     *)
(***************************************************************************)
LearntsFollow ==
  \A m \in Oracle!Models(formula) :
    /\ \A k \in DOMAIN clauses : Oracle!Satisfies(m, clauses[k])
    /\ \A k \in DOMAIN trail :
         level[LitToVar(trail[k])] = 0 => Oracle!Satisfies(m, <<trail[k]>>)

(***************************************************************************)
(* Once the search has started, the heap is in the order of the scores and *)
(* holds every variable without a value, although the bumps of _varBump,   *)
(* the lazy removals of _pickBranchLit and the insertions of _cancelUntil  *)
(* each change the heap or its order (pysat.py:76-133).                    *)
(***************************************************************************)
HeapIsSound ==
  Started => /\ IsHeap(varHeap, scores)
             /\ \A v \in Var : values[v] = Undef => InHeap(varHeap, v)

(***************************************************************************)
(* The solver answers what a decision procedure must: the model it gives   *)
(* satisfies every clause, and it says unsatisfiable of no formula that    *)
(* has a model, whatever it learnt, forgot and restarted before            *)
(* (pysat.py:283-351).                                                     *)
(***************************************************************************)
ImplementsDecider == Oracle!Spec

(***************************************************************************)
(* It answers every formula it accepts: each conflict teaches something,   *)
(* so that restarts, even after one conflict each, do not go on for ever,  *)
(* whatever the heuristics choose.                                         *)
(***************************************************************************)
Terminates == <>(pc \in {"done", "exit"})
=============================================================================
