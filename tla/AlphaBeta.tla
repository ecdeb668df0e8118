----------------------------- MODULE AlphaBeta ------------------------------
(***************************************************************************)
(* What the alpha-beta search of ReversiGame must return: minimax.         *)
(***************************************************************************)
EXTENDS ReversiGame

\* The count of successive passes, which pop does not bring back, changes neither
\* the rules nor the heuristics: a position is a board without it.
Forget(b) == [b EXCEPT !.successivePass = 0]

Position(size) ==
  {b \in [size : {size}, board : [Cell(size) -> Player \cup {EMPTY}], nb : [Player -> Int],
          nextPlayer : Player,
          stack : Seq([player : Player, move : Int \X Int, tiles : SUBSET (Int \X Int)]),
          successivePass : {0}] :
     \A p \in Player : b.nb[p] = Cardinality({c \in Cell(size) : b.board[c] = p})}

Greatest(values) == CHOOSE v \in values : \A w \in values : w <= v
Least(values)    == CHOOSE v \in values : \A w \in values : v <= w

\* minimax without any cut, for the given player and its heuristic; a node is a
\* position and whether it is the player's turn.
Minimax(kind, player, size) ==
  LET value[depth \in Nat] ==
        [node \in Position(size) \X BOOLEAN |->
           LET b      == node[1]
               values == {value[depth - 1][<<Forget(Push(b, move)), ~node[2]>>] :
                            move \in LegalMoves(b)}
           IN  IF depth = 0 \/ IsGameOver(b) THEN Heuristique(kind, b, player)
               ELSE IF node[2] THEN Greatest(values) ELSE Least(values)]
  IN  value

\* The minimax of the player whose turn it is.
Minimaxes == Minimax(heuristic[Turn], Turn, ref.size)

(***************************************************************************)
(* alphabeta cuts without loss (README.md:12): a search that ends in time  *)
(* returns the minimax value of the position, and has popped all it pushed *)
(* from its board, the count of passes apart.                              *)
(***************************************************************************)
ValueIsMinimax ==
  phase = "explore" /\ result # None /\ frames = <<>> =>
    /\ result.value = Minimaxes[deepness][<<Forget(own[Turn]), TRUE>>]
    /\ Forget(board) = Forget(own[Turn])

(***************************************************************************)
(* ... and the move that has this value (README.md:12, 28).                *)
(***************************************************************************)
MoveIsBest ==
  phase = "explore" /\ result # None /\ frames = <<>> =>
    Minimaxes[deepness - 1][<<Forget(Push(own[Turn], result.move)), FALSE>>] = result.value
=============================================================================
