------------------------------- MODULE Decider -------------------------------
(***************************************************************************)
(* What a SAT solver promises, whatever it does in between: it answers at  *)
(* most once, with an assignment that satisfies every clause, or with      *)
(* UNSAT, and then no assignment does.                                     *)
(*                                                                         *)
(* A literal is 2v for the variable v and 2v+1 for its negation, as in     *)
(* pysat/src/sattypes.py; a clause is a sequence of literals.              *)
(***************************************************************************)
EXTENDS Naturals, Sequences

CONSTANTS NbVars, Formulas, Unknown, Unsat

VARIABLES formula, answer

Var == 0 .. NbVars - 1

Assignments == [Var -> BOOLEAN]

LitToVar(l) == l \div 2
SignLit(l)  == l % 2

\* The assignment m makes one of the literals of c true.
Satisfies(m, c) == \E k \in DOMAIN c : m[LitToVar(c[k])] = (SignLit(c[k]) = 0)

Models(f) == {m \in Assignments : \A k \in DOMAIN f : Satisfies(m, f[k])}

Init == formula \in Formulas /\ answer = Unknown

Answer ==
  /\ answer = Unknown
  /\ answer' \in IF Models(formula) = {} THEN {Unsat} ELSE Models(formula)
  /\ UNCHANGED formula

Spec == Init /\ [][Answer]_<<formula, answer>>
=============================================================================
