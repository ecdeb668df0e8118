----------------------------- MODULE MCController -----------------------------
(***************************************************************************)
(* Controller with sets of clients, views and fishes without an order.     *)
(***************************************************************************)
EXTENDS Controller, TLC

Symmetry == Permutations(Client) \cup Permutations(View) \cup Permutations(Fish)
=============================================================================
