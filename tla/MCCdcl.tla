------------------------------- MODULE MCCdcl -------------------------------
(***************************************************************************)
(* Cdcl on small formulas of four variables: a, b, c, d are 0, 1, 2, 3 and *)
(* a literal is 2v, or 2v+1 for the negation.                              *)
(***************************************************************************)
EXTENDS Cdcl, FiniteSetsExt

\* Every set of five clauses of two of the literals of a, b and c, with two
\* clauses that make d depend on them: satisfiable or not, with units that
\* are learnt at level 0, restarts and backjumps over a level.
Binary == {<<l, m>> \in (0 .. 5) \X (0 .. 5) : l < m /\ LitToVar(l) # LitToVar(m)}

Random == {SetToSeq(s) \o << <<7, 0>>, <<6, 1, 4>> >> : s \in kSubset(5, Binary)}

\* A chain of implications under a unary clause, satisfiable.
Chain == << <<0>>, <<1, 2>>, <<3, 4>>, <<5, 6, 1>> >>

\* A contradiction that appears at level 0, and a literal given twice.
Level0 == << <<0>>, <<2, 2>>, <<1, 3>>, <<6, 7>> >>

\* The unary clauses contradict each other: buildDataStructure gives up.
Clash == << <<6>>, <<7>> >>

\* The phase is false first: once a, b and c are, d is forced both ways, and
\* what is learnt has literals of three levels, in every order; then each of
\* them is refuted in turn, or not.
Orders == {p \in [1 .. 3 -> {0, 2, 4}] : \A l \in {0, 2, 4} : \E k \in 1 .. 3 : p[k] = l}

Deep == {<<p \o <<6>>, <<0, 2, 4, 7>> >> \o r :
           p \in Orders, r \in {<< <<1, 3>>, <<1, 5>>, <<3, 5>> >>,
                                << <<0, 2, 5, 6>>, <<0, 3, 6>> >>}}

MCFormulas == Random \cup Deep \cup {Chain, Level0, Clash}

MCBudget(n) == n
=============================================================================
