---------------------------- MODULE ReversiGame -----------------------------
(***************************************************************************)
(* A game of Reversi: the referee (localGame.py), two players with a board *)
(* of their own (CR_Player.py), and their search, an iterative deepening   *)
(* of alpha-beta (CR_ai.py) on a copy of the board, which the end of the   *)
(* time given to a move interrupts by an exception.                        *)
(*                                                                         *)
(* The recursion of alphabeta is a stack of frames; `result' is what the   *)
(* last call returned, until its caller takes it.                          *)
(***************************************************************************)
EXTENDS Reversi

CONSTANTS
  Heuristics,    \* the heuristics a player may be given
  StartDepth,    \* the first deepness of deepen (5)
  LastDepth,     \* the moves of a game (96): the deepness is at most what is left
  MaxMoves,      \* bound: MaxMoves[n] moves are played on a board of size n
  Inf,           \* float('+inf')
  None

ASSUME GameAssumption ==
  /\ Heuristics \subseteq {"basic", "victory", "forcing_basic"}
  /\ StartDepth \in Nat \ {0} /\ LastDepth \in Nat
  /\ \A size \in DOMAIN MaxMoves : size \in Nat \ {0, 1} /\ MaxMoves[size] \in Nat
  /\ Inf \in Nat \ {0}   \* and no score of a heuristic exceeds it
  /\ LastDepth <= Inf /\ \A size \in DOMAIN MaxMoves : size * size <= Inf
  /\ None \notin [value : Int, move : (Int \X Int) \cup {None}]

VARIABLES
  ref,       \* the referee's board
  own,       \* own[p]: the board of player p
  heuristic, \* heuristic[p]: that of the AI of player p
  phase,     \* where the game is
  deepness,  \* the deepness of the current iteration of deepen
  best,      \* the move of the last iteration that ended, in deepen
  board,     \* the copy the explorer works on
  frames,    \* the calls of alphabeta, innermost last
  result     \* [value, move] of the call that has returned, or None

vars == <<ref, own, heuristic, phase, deepness, best, board, frames, result>>
search == <<deepness, best, board, frames, result>>

-----------------------------------------------------------------------------
Smaller(a, b) == IF a < b THEN a ELSE b
Greater(a, b) == IF a < b THEN b ELSE a

Score(b, player) == b.nb[player] - b.nb[Flip(player)]

Heuristique(kind, b, player) ==
  CASE kind = "basic" -> Score(b, player)
    [] kind = "victory" ->
         IF ~IsGameOver(b) \/ Score(b, player) = 0 THEN 0
         ELSE IF Score(b, player) > 0 THEN Inf ELSE -Inf
    [] kind = "forcing_basic" ->
         IF player = b.nextPlayer THEN Len(b.stack) ELSE -Len(b.stack)

-----------------------------------------------------------------------------
Turn == ref.nextPlayer

AllMovesPlayed == Len(ref.stack) >= MaxMoves[ref.size]

Init ==
  /\ \E size \in DOMAIN MaxMoves :
       /\ ref = NewBoard(size)
       /\ own = [p \in Player |-> NewBoard(size)]
       /\ board = NewBoard(size)
  /\ heuristic \in [Player -> Heuristics]
  /\ phase = "referee"
  /\ deepness = 0
  /\ best = Pass
  /\ frames = <<>>
  /\ result = None

\* The loop of the referee; getPlayerMove asks final_player, i.e. deepen, which
\* starts from a move chosen at random.
AskMove ==
  /\ phase = "referee"
  /\ ~IsGameOver(ref) /\ ~AllMovesPlayed
  /\ IF IsGameOver(own[Turn])
     THEN best' = Pass /\ phase' = "answer" /\ UNCHANGED deepness
     ELSE /\ best' \in LegalMoves(own[Turn])
          /\ deepness' = StartDepth
          /\ phase' = "deepen"
  /\ UNCHANGED <<ref, own, heuristic, board, frames, result>>

EndOfGame ==
  /\ phase = "referee"
  /\ IsGameOver(ref)
  /\ phase' = "over"
  /\ UNCHANGED <<ref, own, heuristic, search>>

-----------------------------------------------------------------------------
\* A call of alphabeta that is in time: a leaf returns its score at once.
Call(b, depth, alpha, beta, callers) ==
  /\ board' = b
  /\ IF IsGameOver(b) \/ depth <= 0
     THEN /\ result' = [value |-> Heuristique(heuristic[Turn], b, Turn), move |-> None]
          /\ frames' = callers
     ELSE /\ result' = None
          /\ frames' = Append(callers,
               [deepness |-> depth, alpha |-> alpha, beta |-> beta,
                value |-> IF depth % 2 # deepness % 2 THEN Inf ELSE -Inf,
                moves |-> LegalMoves(b), move |-> None])

\* The value of the loop on the moves of a frame: the opponent's is a minimum.
IsMin(frame) == frame.deepness % 2 # deepness % 2

\* deepen calls the explorer on a copy of the board.
NextDepth ==
  /\ phase = "deepen"
  /\ deepness <= LastDepth - Len(own[Turn].stack)
  /\ Call(own[Turn], deepness, -Inf, Inf, <<>>)
  /\ phase' = "explore"
  /\ UNCHANGED <<ref, own, heuristic, deepness, best>>

AllDepthsDone ==
  /\ phase = "deepen"
  /\ deepness > LastDepth - Len(own[Turn].stack)
  /\ phase' = "answer"
  /\ UNCHANGED <<ref, own, heuristic, search>>

\* The next move of the innermost call.
Try ==
  /\ phase = "explore" /\ result = None
  /\ LET top   == Last(frames)
         move  == FirstOf(top.moves)
         frame == [top EXCEPT !.move = move, !.moves = @ \ {move}]
     IN  \E b \in {Push(board, move)} :
           Call(b, top.deepness - 1, top.alpha, top.beta, Append(Front(frames), frame))
  /\ UNCHANGED <<ref, own, heuristic, phase, deepness, best>>

\* MUTANT of TimeIsUp: no deepcopy, the explorer worked on the player's board.
TimeIsUpOnOwnBoard ==
  /\ phase = "deepen" \/ (phase = "explore" /\ result = None)
  /\ phase = "deepen" => deepness <= LastDepth - Len(own[Turn].stack)
  /\ phase' = "answer"
  /\ own' = [own EXCEPT ![Turn] = board]
  /\ board' = own[Turn] /\ frames' = <<>> /\ result' = None
  /\ UNCHANGED <<ref, heuristic, deepness, best>>

\* alphabeta raises ExplorationException at any of its calls: the search and
\* its board are lost.
TimeIsUp ==
  /\ phase = "deepen" \/ (phase = "explore" /\ result = None)
  /\ phase = "deepen" => deepness <= LastDepth - Len(own[Turn].stack)
  /\ phase' = "answer"
  /\ board' = own[Turn] /\ frames' = <<>> /\ result' = None
  /\ UNCHANGED <<ref, own, heuristic, deepness, best>>

\* The call is over: what it returns to the call before, or to deepen.
Return(frame, value) ==
  /\ result' = [value |-> value, move |-> frame.move]
  /\ frames' = Front(frames)

\* MUTANT of Back: the moves of the opponent cut as the player's do.
BackCutsAlike ==
  /\ phase = "explore" /\ result # None /\ frames # <<>>
  /\ board' = Pop(board)
  /\ LET top   == Last(frames)
         value == IF IsMin(top) THEN Smaller(top.value, result.value)
                                ELSE Greater(top.value, result.value)
         cut   == top.beta <= value
     IN  IF cut \/ top.moves = {}
         THEN Return(top, value)
         ELSE /\ result' = None
              /\ frames' = [frames EXCEPT ![Len(frames)] =
                   [top EXCEPT !.value = value,
                               !.alpha = IF IsMin(top) THEN @ ELSE Greater(@, value),
                               !.beta = IF IsMin(top) THEN Smaller(@, value) ELSE @]]
  /\ UNCHANGED <<ref, own, heuristic, phase, deepness, best>>

\* The caller takes the value of the call that has returned: it pops the move,
\* and either returns (a cut, or the last move) or goes on with a closer bound.
Back ==
  /\ phase = "explore" /\ result # None /\ frames # <<>>
  /\ board' = Pop(board)
  /\ LET top   == Last(frames)
         value == IF IsMin(top) THEN Smaller(top.value, result.value)
                                ELSE Greater(top.value, result.value)
         cut   == IF IsMin(top) THEN value <= top.alpha ELSE top.beta <= value
     IN  IF cut \/ top.moves = {}
         THEN Return(top, value)
         ELSE /\ result' = None
              /\ frames' = [frames EXCEPT ![Len(frames)] =
                   [top EXCEPT !.value = value,
                               !.alpha = IF IsMin(top) THEN @ ELSE Greater(@, value),
                               !.beta = IF IsMin(top) THEN Smaller(@, value) ELSE @]]
  /\ UNCHANGED <<ref, own, heuristic, phase, deepness, best>>

\* MUTANT of DepthDone: the deepness stays the same.
DepthStays ==
  /\ phase = "explore" /\ result # None /\ frames = <<>>
  /\ best' = result.move
  /\ result' = None
  /\ phase' = "deepen"
  /\ UNCHANGED <<ref, own, heuristic, deepness, board, frames>>

\* The explorer returns its move to deepen.
DepthDone ==
  /\ phase = "explore" /\ result # None /\ frames = <<>>
  /\ best' = result.move
  /\ deepness' = deepness + 1
  /\ result' = None
  /\ phase' = "deepen"
  /\ UNCHANGED <<ref, own, heuristic, board, frames>>

-----------------------------------------------------------------------------
\* The player pushes its move, the referee checks it and pushes it, the other
\* player asserts that it is valid and pushes it.
Answer ==
  /\ phase = "answer"
  /\ LET color    == Turn
         opponent == Flip(color)
     IN  IF /\ IsValidMove(ref, color, best)
            /\ IsGameOver(own[opponent]) \/ IsValidMove(own[opponent], color, best)
         THEN /\ phase' = "referee"
              /\ ref' = Push(ref, best)
              /\ own' = [p \in Player |->
                           IF IsGameOver(own[p]) THEN own[p] ELSE Push(own[p], best)]
         ELSE phase' = "illegal" /\ UNCHANGED <<ref, own>>
  /\ UNCHANGED <<heuristic, search>>

-----------------------------------------------------------------------------
Next ==
  \/ AskMove \/ EndOfGame
  \/ NextDepth \/ AllDepthsDone \/ Try \/ TimeIsUp \/ Back \/ DepthDone
  \/ Answer

Spec == Init /\ [][Next]_vars

\* One thread, which goes on until the game is over; the clock may let every
\* search end.
FairSpec == Spec /\ WF_vars(Next)

-----------------------------------------------------------------------------
(***************************************************************************)
(* Properties.                                                             *)
(***************************************************************************)
Boards == {ref, board} \cup {own[p] : p \in Player}

TypeOK ==
  /\ \A b \in Boards : /\ b.board \in [Cell(ref.size) -> Player \cup {EMPTY}]
                       /\ b.nextPlayer \in Player
  /\ phase \in {"referee", "deepen", "explore", "answer", "over", "illegal"}
  /\ best \in Cell(ref.size) \cup {Pass}

(***************************************************************************)
(* The referee's board and the two players' stay the same, move after      *)
(* move, whatever the searches did between two moves and wherever the      *)
(* clock stopped them; so no move is ever refused and no assertion fails.  *)
(***************************************************************************)
BoardsAgree ==
  /\ TypeOK
  /\ phase # "illegal"
  /\ \A p \in Player : own[p] = ref

(***************************************************************************)
(* _nbBLACK and _nbWHITE, which push and pop change by the pieces they     *)
(* turn, are the numbers of pieces on every board, the explorer's in the   *)
(* middle of a search included: the heuristics and the winner are read     *)
(* from them.                                                              *)
(***************************************************************************)
CountersAreRight ==
  \A b \in Boards, p \in Player : b.nb[p] = Cardinality({c \in Cell(b.size) : b.board[c] = p})

(***************************************************************************)
(* The game ends: each search comes to its end within its deepness, on     *)
(* time or not, and nobody passes for ever.                                *)
(***************************************************************************)
GameEnds == <>(phase = "over" \/ (phase = "referee" /\ AllMovesPlayed))
=============================================================================
