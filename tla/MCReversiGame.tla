---------------------------- MODULE MCReversiGame ---------------------------
EXTENDS AlphaBeta

\* Whole games on a board of size 3, the first moves on a board of size 4.
MCMaxMoves == 3 :> 9 @@ 4 :> 3
=============================================================================
