------------------------------ MODULE Reversi -------------------------------
(***************************************************************************)
(* The Board of Reversi.py as a value: the rules, push and pop.            *)
(*                                                                         *)
(* A move is a cell, or Pass; the player of a move is always the one whose *)
(* turn it is, as the assertion of push has it.                            *)
(***************************************************************************)
EXTENDS Integers, Sequences, FiniteSets, SequencesExt

EMPTY == 0
BLACK == 1
WHITE == 2

Player == {BLACK, WHITE}
Cell(size) == (0 .. size - 1) \X (0 .. size - 1)
Pass == <<-1, -1>>

\* _flip
Flip(player) == IF player = BLACK THEN WHITE ELSE BLACK

\* Board(boardsize)
NewBoard(size) ==
  LET middle == size \div 2
  IN  [size |-> size,
       board |-> [c \in Cell(size) |->
                    IF c \in {<<middle - 1, middle - 1>>, <<middle, middle>>} THEN BLACK
                    ELSE IF c \in {<<middle - 1, middle>>, <<middle, middle - 1>>} THEN WHITE
                    ELSE EMPTY],
       nb |-> [p \in Player |-> 2],
       nextPlayer |-> BLACK,
       stack |-> <<>>,
       successivePass |-> 0]

-----------------------------------------------------------------------------
Directions == ((-1 .. 1) \X (-1 .. 1)) \ {<<0, 0>>}

Along(c, d, k) == <<c[1] + k * d[1], c[2] + k * d[2]>>

\* In the direction d, k - 1 pieces of the other player, then the player's.
Closes(board, player, c, d, k) ==
  /\ Along(c, d, k) \in DOMAIN board /\ board[Along(c, d, k)] = player
  /\ \A j \in 1 .. k - 1 : board[Along(c, d, j)] = Flip(player)

\* testAndBuild_ValidMove
TilesToFlip(size, board, player, c) ==
  UNION {UNION {{Along(c, d, j) : j \in 1 .. k - 1} :
                k \in {k \in 2 .. size - 1 : Closes(board, player, c, d, k)}} :
         d \in Directions}

\* lazyTest_ValidMove
ValidCells(b, player) ==
  {c \in DOMAIN b.board : b.board[c] = EMPTY /\ TilesToFlip(b.size, b.board, player, c) # {}}

AtLeastOneLegalMove(b, player) == ValidCells(b, player) # {}

IsValidMove(b, player, move) ==
  IF move = Pass THEN ~AtLeastOneLegalMove(b, player) ELSE move \in ValidCells(b, player)

IsGameOver(b) == \A player \in Player : ~AtLeastOneLegalMove(b, player)

\* legal_moves, and their order: line by line.
LegalMoves(b) == LET valid == ValidCells(b, b.nextPlayer) IN IF valid = {} THEN {Pass} ELSE valid

Precedes(c, d) == c[1] < d[1] \/ (c[1] = d[1] /\ c[2] <= d[2])

FirstOf(moves) == CHOOSE c \in moves : \A d \in moves : Precedes(c, d)

-----------------------------------------------------------------------------
\* The pieces of `tiles' change sides.
Flipped(board, tiles) == [c \in DOMAIN board |-> IF c \in tiles THEN Flip(board[c]) ELSE board[c]]

\* The board b once its fields have changed; its size does not.
Changed(b, board, nb, player, stack, passes) ==
  [size |-> b.size, board |-> board, nb |-> nb, nextPlayer |-> player, stack |-> stack,
   successivePass |-> passes]

Played(player, move, tiles) == [player |-> player, move |-> move, tiles |-> tiles]

Push(b, move) ==
  LET player == b.nextPlayer
      tiles  == TilesToFlip(b.size, b.board, player, move)
      n      == Cardinality(tiles)
  IN  IF move = Pass
      THEN Changed(b, b.board, b.nb, Flip(player), Append(b.stack, Played(player, move, {})),
                   b.successivePass + 1)
      ELSE Changed(b, [Flipped(b.board, tiles) EXCEPT ![move] = player],
                   [p \in Player |-> IF p = player THEN b.nb[p] + 1 + n ELSE b.nb[p] - n],
                   Flip(player), Append(b.stack, Played(player, move, tiles)), 0)

\* MUTANT of Pop: only the counter of the player is brought back.
PopOneCounter(b) ==
  LET top == Last(b.stack)
      n   == Cardinality(top.tiles)
  IN  IF top.tiles = {}
      THEN Changed(b, b.board, b.nb, top.player, Front(b.stack), b.successivePass - 1)
      ELSE Changed(b, [Flipped(b.board, top.tiles) EXCEPT ![top.move] = EMPTY],
                   [b.nb EXCEPT ![top.player] = @ - 1 - n],
                   top.player, Front(b.stack), b.successivePass)

\* A move does not bring back the count of successive passes.
Pop(b) ==
  LET top == Last(b.stack)
      n   == Cardinality(top.tiles)
  IN  IF top.tiles = {}
      THEN Changed(b, b.board, b.nb, top.player, Front(b.stack), b.successivePass - 1)
      ELSE Changed(b, [Flipped(b.board, top.tiles) EXCEPT ![top.move] = EMPTY],
                   [p \in Player |-> IF p = top.player THEN b.nb[p] - 1 - n ELSE b.nb[p] + n],
                   top.player, Front(b.stack), b.successivePass)
=============================================================================
