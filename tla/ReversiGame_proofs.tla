-------------------------- MODULE ReversiGame_proofs -------------------------
(***************************************************************************)
(* For boards of any size, any deepness and any number of moves: push      *)
(* keeps the counters of pieces right, pop takes back what push did, the   *)
(* boards of the referee and of the players agree, every counter of pieces *)
(* is right, and alpha-beta returns the minimax value.                     *)
(***************************************************************************)
EXTENDS AlphaBeta, FiniteSetTheorems, SequenceTheorems, WellFoundedInduction, TLAPS

-----------------------------------------------------------------------------
(* The board: lemmas about Reversi, whatever the game does with it.          *)

Pieces(b, p) == {c \in Cell(b.size) : b.board[c] = p}

Entry == [player : Player, move : Int \X Int, tiles : SUBSET (Int \X Int)]

BoardRecord ==
  [size : Nat, board : UNION {[Cell(n) -> 0 .. 2] : n \in Nat}, nb : [Player -> Int],
   nextPlayer : Player, stack : Seq(Entry), successivePass : Int]

(* A board whose counters are the numbers of its pieces.                     *)
Sound(b) ==
  /\ b \in BoardRecord
  /\ b.board \in [Cell(b.size) -> 0 .. 2]
  /\ \A p \in Player : b.nb[p] = Cardinality(Pieces(b, p))

(* A board without its count of successive passes, the one thing that pop    *)
(* does not bring back.                                                      *)
Plain(b) == <<b.size, b.board, b.nb, b.nextPlayer, b.stack>>

-----------------------------------------------------------------------------
(* The cells of a board are finitely many.                                   *)
LEMMA CellsFinite ==
  ASSUME NEW size \in Nat
  PROVE  IsFiniteSet(Cell(size))
  <1>1. IsFiniteSet(0 .. size - 1)
    BY FS_Interval
  <1> QED BY <1>1, FS_Product DEF Cell

(* The pieces of a colour on a sound board are finitely many.                *)
LEMMA PiecesFinite ==
  ASSUME NEW b \in BoardRecord, NEW p
  PROVE  IsFiniteSet(Pieces(b, p)) /\ Cardinality(Pieces(b, p)) \in Nat
  <1>1. b.size \in Nat
    BY DEF BoardRecord
  <1>2. IsFiniteSet(Cell(b.size)) /\ Pieces(b, p) \subseteq Cell(b.size)
    BY <1>1, CellsFinite DEF Pieces
  <1> QED BY <1>2, FS_Subset, FS_CardinalityType

(* Two boards that differ in the count of passes only have the same moves,   *)
(* and are sound together.                                                   *)
LEMMA PlainSame ==
  ASSUME NEW b \in BoardRecord, NEW c \in BoardRecord, Plain(b) = Plain(c)
  PROVE  /\ LegalMoves(b) = LegalMoves(c)
         /\ IsGameOver(b) <=> IsGameOver(c)
         /\ Sound(b) <=> Sound(c)
  <1>1. /\ b.size = c.size /\ b.board = c.board /\ b.nb = c.nb
        /\ b.nextPlayer = c.nextPlayer
    BY DEF Plain
  <1>2. \A p : ValidCells(b, p) = ValidCells(c, p)
    BY <1>1 DEF ValidCells
  <1>3. \A p : Pieces(b, p) = Pieces(c, p)
    BY <1>1 DEF Pieces
  <1>4. LegalMoves(b) = LegalMoves(c)
    BY <1>1, <1>2 DEF LegalMoves
  <1>5. IsGameOver(b) <=> IsGameOver(c)
    BY <1>2 DEF IsGameOver, AtLeastOneLegalMove
  <1>6. Sound(b) <=> Sound(c)
    BY <1>1, <1>3 DEF Sound
  <1> QED BY <1>4, <1>5, <1>6

-----------------------------------------------------------------------------
(* The other player, again the first one.                                    *)
LEMMA FlipFacts ==
  ASSUME NEW p \in Player
  PROVE  Flip(p) \in Player /\ Flip(p) # p /\ Flip(Flip(p)) = p /\ p \in 1 .. 2
  BY DEF Flip, Player, BLACK, WHITE

(* The cells between two cells of the board, in one of the eight directions, *)
(* are on the board.                                                         *)
LEMMA BetweenOnBoard ==
  ASSUME NEW size \in Nat, NEW c \in Cell(size), NEW d \in Directions,
         NEW k \in Nat, NEW j \in 1 .. k - 1, Along(c, d, k) \in Cell(size)
  PROVE  Along(c, d, j) \in Cell(size)
  <1>1. ASSUME NEW a \in 0 .. size - 1, NEW way \in -1 .. 1, a + k * way \in 0 .. size - 1
        PROVE  a + j * way \in 0 .. size - 1
    <2>1. CASE way = -1
      BY <1>1, <2>1
    <2>2. CASE way = 0
      BY <1>1, <2>2
    <2>3. CASE way = 1
      BY <1>1, <2>3
    <2> QED BY <2>1, <2>2, <2>3
  <1>2. /\ c[1] \in 0 .. size - 1 /\ c[2] \in 0 .. size - 1
        /\ d[1] \in -1 .. 1 /\ d[2] \in -1 .. 1
    BY DEF Cell, Directions
  <1>3. c[1] + k * d[1] \in 0 .. size - 1 /\ c[2] + k * d[2] \in 0 .. size - 1
    BY DEF Along, Cell
  <1>4. c[1] + j * d[1] \in 0 .. size - 1 /\ c[2] + j * d[2] \in 0 .. size - 1
    BY <1>1, <1>2, <1>3
  <1> QED BY <1>4 DEF Along, Cell

(* A move turns pieces of the other player only. (Reversi.py:60-88)          *)
LEMMA TilesAreTheirs ==
  ASSUME NEW b, Sound(b), NEW p \in Player, NEW m \in Cell(b.size)
  PROVE  /\ TilesToFlip(b.size, b.board, p, m) \subseteq Pieces(b, Flip(p))
         /\ IsFiniteSet(TilesToFlip(b.size, b.board, p, m))
         /\ Cardinality(TilesToFlip(b.size, b.board, p, m)) \in Nat
  <1> DEFINE tiles == TilesToFlip(b.size, b.board, p, m)
  <1>1. b \in BoardRecord /\ b.size \in Nat /\ DOMAIN b.board = Cell(b.size)
    BY DEF Sound, BoardRecord
  <1>2. ASSUME NEW t \in tiles PROVE t \in Pieces(b, Flip(p))
    <2>1. PICK d \in Directions, k \in 2 .. b.size - 1 :
            /\ Along(m, d, k) \in DOMAIN b.board
            /\ \A j \in 1 .. k - 1 : b.board[Along(m, d, j)] = Flip(p)
            /\ \E j \in 1 .. k - 1 : t = Along(m, d, j)
      BY DEF TilesToFlip, Closes
    <2>2. PICK j \in 1 .. k - 1 : t = Along(m, d, j)
      BY <2>1
    <2>3. k \in Nat
      BY <1>1
    <2>4. t \in Cell(b.size)
      BY <1>1, <2>1, <2>2, <2>3, BetweenOnBoard
    <2> QED BY <2>1, <2>2, <2>4 DEF Pieces
  <1>3. IsFiniteSet(Pieces(b, Flip(p)))
    BY <1>1, PiecesFinite
  <1>4. tiles \subseteq Pieces(b, Flip(p))
    BY <1>2
  <1> HIDE DEF tiles
  <1>5. IsFiniteSet(tiles) /\ Cardinality(tiles) \in Nat
    BY <1>3, <1>4, FS_Subset, FS_CardinalityType
  <1> QED BY <1>4, <1>5 DEF tiles

(* A legal move that is not Pass is an empty cell and turns something.       *)
LEMMA MoveFacts ==
  ASSUME NEW b, Sound(b), NEW m \in LegalMoves(b), m # Pass
  PROVE  /\ m \in Cell(b.size) /\ m \in Int \X Int /\ b.board[m] = EMPTY
         /\ TilesToFlip(b.size, b.board, b.nextPlayer, m) # {}
  <1>1. DOMAIN b.board = Cell(b.size) /\ b.size \in Nat
    BY DEF Sound, BoardRecord
  <1>2. m \in ValidCells(b, b.nextPlayer)
    BY DEF LegalMoves
  <1>3. m \in Cell(b.size) /\ b.board[m] = EMPTY
        /\ TilesToFlip(b.size, b.board, b.nextPlayer, m) # {}
    BY <1>1, <1>2 DEF ValidCells
  <1>4. m \in Int \X Int
    BY <1>1, <1>3 DEF Cell
  <1> QED BY <1>3, <1>4

(* push keeps a board sound: the pieces that a legal move puts and turns are *)
(* those it counts. (Reversi.py:143-165)                                     *)
LEMMA PushSound ==
  ASSUME NEW b, Sound(b), NEW m \in LegalMoves(b)
  PROVE  Sound(Push(b, m)) /\ Push(b, m).size = b.size
  <1> DEFINE p == b.nextPlayer
             tiles == TilesToFlip(b.size, b.board, p, m)
             n == Cardinality(tiles)
             b2 == Push(b, m)
  <1>1. /\ b \in BoardRecord /\ b.size \in Nat /\ p \in Player /\ Flip(p) \in Player
        /\ b.nb \in [Player -> Int] /\ b.stack \in Seq(Entry) /\ b.successivePass \in Int
        /\ b.board \in [Cell(b.size) -> 0 .. 2]
        /\ \A q \in Player : b.nb[q] = Cardinality(Pieces(b, q))
    BY FlipFacts DEF Sound, BoardRecord
  <1>2. CASE m = Pass
    <2> DEFINE e == Played(p, m, {})
    <2>1. b2 = Changed(b, b.board, b.nb, Flip(p), Append(b.stack, e), b.successivePass + 1)
      BY <1>2 DEF Push
    <2>2. e \in Entry
      BY <1>1, <1>2 DEF Entry, Pass, Played
    <2>3. Append(b.stack, e) \in Seq(Entry) /\ b.successivePass + 1 \in Int
      BY <1>1, <2>2, AppendProperties
    <2> HIDE DEF e
    <2>4. /\ b2 \in BoardRecord /\ b2.size = b.size /\ b2.board = b.board /\ b2.nb = b.nb
      BY <1>1, <2>1, <2>3 DEF Changed, BoardRecord
    <2> HIDE DEF b2
    <2>5. \A q : Pieces(b2, q) = Pieces(b, q)
      BY <2>4 DEF Pieces
    <2>6. Sound(b2)
      BY <1>1, <2>4, <2>5 DEF Sound
    <2> QED BY <2>4, <2>6 DEF b2
  <1>3. CASE m # Pass
    <2> DEFINE e == Played(p, m, tiles)
               cells == [Flipped(b.board, tiles) EXCEPT ![m] = p]
               nb == [q \in Player |-> IF q = p THEN b.nb[q] + 1 + n ELSE b.nb[q] - n]
    <2>1. b2 = Changed(b, cells, nb, Flip(p), Append(b.stack, e), 0)
      BY <1>3 DEF Push
    <2>2. /\ m \in Cell(b.size) /\ m \in Int \X Int /\ b.board[m] = EMPTY
          /\ p # EMPTY /\ Flip(p) # EMPTY /\ Flip(p) # p /\ Flip(Flip(p)) = p
      BY <1>1, <1>3, MoveFacts, FlipFacts DEF EMPTY
    <2>3. tiles \subseteq Pieces(b, Flip(p)) /\ IsFiniteSet(tiles) /\ n \in Nat
      BY <1>1, <2>2, TilesAreTheirs
    <2>4. tiles \subseteq Int \X Int
      BY <1>1, <2>3 DEF Pieces, Cell
    <2> HIDE DEF tiles
    <2>5. e \in Entry
      BY <1>1, <2>2, <2>4 DEF Entry, Played
    <2>6. Append(b.stack, e) \in Seq(Entry)
      BY <1>1, <2>5, AppendProperties
    <2>7. \A c \in Cell(b.size) : cells[c] = IF c = m THEN p
                                             ELSE IF c \in tiles THEN p ELSE b.board[c]
      <3>1. \A c \in tiles : b.board[c] = Flip(p)
        BY <2>3 DEF Pieces
      <3> QED BY <1>1, <2>2, <3>1 DEF Flipped
    <2>8. cells \in [Cell(b.size) -> 0 .. 2]
      <3>1. p \in 0 .. 2
        BY <1>1, FlipFacts
      <3>2. DOMAIN cells = Cell(b.size) /\ cells = [c \in Cell(b.size) |-> cells[c]]
        BY <1>1 DEF Flipped
      <3> HIDE DEF cells
      <3>3. \A c \in Cell(b.size) : cells[c] \in 0 .. 2
        BY <1>1, <2>7, <3>1
      <3> QED BY <3>2, <3>3
    <2>9. nb \in [Player -> Int]
      BY <1>1, <2>3
    <2> HIDE DEF e, cells, nb, n
    <2>10. /\ b2 \in BoardRecord /\ b2.size = b.size /\ b2.board = cells /\ b2.nb = nb
      BY <1>1, <2>1, <2>6, <2>8, <2>9 DEF Changed, BoardRecord
    <2> HIDE DEF b2, p
    <2>11. nb[p] = Cardinality(Pieces(b2, p))
      <3>1. Pieces(b2, p) = (Pieces(b, p) \cup tiles) \cup {m}
        BY <2>2, <2>3, <2>7, <2>10 DEF Pieces
      <3>2. Pieces(b, p) \cap tiles = {} /\ m \notin Pieces(b, p) \cup tiles
        BY <2>2, <2>3 DEF Pieces
      <3>3. IsFiniteSet(Pieces(b, p)) /\ Cardinality(Pieces(b, p)) \in Nat
        BY <1>1, PiecesFinite
      <3>4. /\ IsFiniteSet(Pieces(b, p) \cup tiles)
            /\ Cardinality(Pieces(b, p) \cup tiles)
                 = Cardinality(Pieces(b, p)) + n - Cardinality(Pieces(b, p) \cap tiles)
        BY <2>3, <3>3, FS_Union DEF n
      <3>5. Cardinality(Pieces(b, p) \cap tiles) = 0
        BY <3>2, FS_EmptySet
      <3>6. Cardinality(Pieces(b2, p)) = Cardinality(Pieces(b, p) \cup tiles) + 1
        BY <3>1, <3>2, <3>4, FS_AddElement
      <3>7. nb[p] = b.nb[p] + 1 + n /\ b.nb[p] = Cardinality(Pieces(b, p))
        BY <1>1 DEF nb
      <3> QED BY <2>3, <3>3, <3>4, <3>5, <3>6, <3>7
    <2>12. ASSUME NEW q \in Player, q # p PROVE nb[q] = Cardinality(Pieces(b2, q))
      <3>1. q = Flip(p)
        BY <1>1, <2>12, FlipFacts DEF Player, Flip
      <3>2. Pieces(b2, q) = Pieces(b, q) \ tiles
        BY <2>2, <2>3, <2>7, <2>10, <3>1 DEF Pieces
      <3>3. IsFiniteSet(Pieces(b, q)) /\ Cardinality(Pieces(b, q)) \in Nat
        BY <1>1, PiecesFinite
      <3>4. Cardinality(Pieces(b, q) \ tiles)
              = Cardinality(Pieces(b, q)) - Cardinality(Pieces(b, q) \cap tiles)
        BY <3>3, FS_Difference
      <3>5. Pieces(b, q) \cap tiles = tiles
        BY <2>3, <3>1
      <3>6. nb[q] = b.nb[q] - n /\ b.nb[q] = Cardinality(Pieces(b, q))
        BY <1>1, <2>12 DEF nb
      <3> QED BY <3>2, <3>4, <3>5, <3>6 DEF n
    <2>13. Sound(b2)
      BY <2>8, <2>10, <2>11, <2>12 DEF Sound
    <2> QED BY <2>10, <2>13 DEF b2
  <1> QED BY <1>2, <1>3

(* What the last entry of the stack is after one is added.                   *)
LEMMA StackTop ==
  ASSUME NEW s \in Seq(Entry), NEW e \in Entry
  PROVE  Last(Append(s, e)) = e /\ Front(Append(s, e)) = s
  <1>1. /\ Append(s, e) \in Seq(Entry) /\ Len(Append(s, e)) = Len(s) + 1
        /\ Append(s, e)[Len(s) + 1] = e
        /\ \A i \in 1 .. Len(s) : Append(s, e)[i] = s[i]
    BY AppendProperties
  <1>2. Len(s) \in Nat
    BY LenProperties
  <1>3. Last(Append(s, e)) = e
    BY <1>1, <1>2 DEF Last
  <1>4. Front(Append(s, e)) = s
    BY <1>1, <1>2 DEF Front
  <1> QED BY <1>3, <1>4

(* push does not read the count of passes to change the rest.                *)
LEMMA PushPlain ==
  ASSUME NEW b \in BoardRecord, NEW c \in BoardRecord, Plain(b) = Plain(c), NEW m
  PROVE  Plain(Push(b, m)) = Plain(Push(c, m))
  <1>1. /\ b.size = c.size /\ b.board = c.board /\ b.nb = c.nb
        /\ b.nextPlayer = c.nextPlayer /\ b.stack = c.stack
    BY DEF Plain
  <1> QED BY <1>1 DEF Plain, Push, Changed

(* pop takes back what push did to a sound board, the count of passes apart. *)
(* (Reversi.py:143-183)                                                      *)
THEOREM PopUndoesPush ==
  ASSUME NEW b, Sound(b), NEW m \in LegalMoves(b),
         NEW c \in BoardRecord, Plain(c) = Plain(Push(b, m))
  PROVE  Pop(c) \in BoardRecord /\ Plain(Pop(c)) = Plain(b)
  <1> DEFINE p == b.nextPlayer
             tiles == TilesToFlip(b.size, b.board, p, m)
             n == Cardinality(tiles)
  <1>1. /\ b \in BoardRecord /\ b.size \in Nat /\ p \in Player /\ Flip(p) \in Player
        /\ b.nb \in [Player -> Int] /\ b.stack \in Seq(Entry)
        /\ b.board \in [Cell(b.size) -> 0 .. 2] /\ c.successivePass \in Int
        /\ c.stack \in Seq(Entry)
    BY FlipFacts DEF Sound, BoardRecord
  <1>2. CASE m = Pass
    <2> DEFINE e == Played(p, m, {})
    <2>1. /\ c.size = b.size /\ c.board = b.board /\ c.nb = b.nb
          /\ c.stack = Append(b.stack, e)
      BY <1>2 DEF Push, Changed, Plain
    <2>2. e \in Entry /\ e.tiles = {} /\ e.player = p
      BY <1>1, <1>2 DEF Entry, Pass, Played
    <2> HIDE DEF e
    <2>3. Last(c.stack) = e /\ Front(c.stack) = b.stack
      BY <1>1, <2>1, <2>2, StackTop
    <2>4. Pop(c) = Changed(c, c.board, c.nb, p, b.stack, c.successivePass - 1)
      BY <2>2, <2>3 DEF Pop
    <2>5. Pop(c) \in BoardRecord
      BY <1>1, <2>1, <2>4 DEF Changed, BoardRecord
    <2> QED BY <2>1, <2>4, <2>5 DEF Plain, Changed
  <1>3. CASE m # Pass
    <2> DEFINE e == Played(p, m, tiles)
               cells == [Flipped(b.board, tiles) EXCEPT ![m] = p]
               nb == [q \in Player |-> IF q = p THEN b.nb[q] + 1 + n ELSE b.nb[q] - n]
               cells2 == [Flipped(cells, tiles) EXCEPT ![m] = EMPTY]
               nb2 == [q \in Player |-> IF q = p THEN nb[q] - 1 - n ELSE nb[q] + n]
    <2>1. /\ c.size = b.size /\ c.board = cells /\ c.nb = nb
          /\ c.stack = Append(b.stack, e)
      BY <1>3 DEF Push, Changed, Plain
    <2>2. /\ m \in Cell(b.size) /\ m \in Int \X Int /\ b.board[m] = EMPTY /\ tiles # {}
          /\ p # EMPTY /\ Flip(p) # EMPTY /\ Flip(p) # p /\ Flip(Flip(p)) = p
      BY <1>1, <1>3, MoveFacts, FlipFacts DEF EMPTY
    <2>3. tiles \subseteq Pieces(b, Flip(p)) /\ n \in Nat
      BY <1>1, <2>2, TilesAreTheirs
    <2>4. tiles \subseteq Int \X Int
      BY <1>1, <2>3 DEF Pieces, Cell
    <2> HIDE DEF tiles
    <2>5. e \in Entry /\ e.tiles = tiles /\ e.player = p /\ e.move = m
      BY <1>1, <2>2, <2>4 DEF Entry, Played
    <2>6. cells2 = b.board
      <3>1. \A t \in tiles : b.board[t] = Flip(p)
        BY <2>3 DEF Pieces
      <3>2. \A t \in Cell(b.size) : cells[t] = IF t = m \/ t \in tiles THEN p ELSE b.board[t]
        BY <1>1, <2>2, <3>1 DEF Flipped
      <3>3. DOMAIN cells = Cell(b.size)
        BY <1>1 DEF Flipped
      <3> HIDE DEF cells
      <3>4. \A t \in Cell(b.size) : cells2[t] = b.board[t]
        BY <2>2, <3>1, <3>2, <3>3 DEF Flipped
      <3>5. DOMAIN cells2 = Cell(b.size) /\ cells2 = [t \in Cell(b.size) |-> cells2[t]]
        BY <3>3 DEF Flipped
      <3>6. b.board = [t \in Cell(b.size) |-> b.board[t]]
        BY <1>1
      <3> QED BY <3>4, <3>5, <3>6
    <2>7. nb2 = b.nb
      BY <1>1, <2>3
    <2> HIDE DEF e, cells, nb, n
    <2>8. Last(c.stack) = e /\ Front(c.stack) = b.stack
      BY <1>1, <2>1, <2>5, StackTop
    <2>9. Pop(c) = Changed(c, cells2, nb2, p, b.stack, c.successivePass)
      BY <2>1, <2>2, <2>5, <2>8 DEF Pop, n
    <2> HIDE DEF cells2, nb2
    <2>10. Pop(c) \in BoardRecord
      BY <1>1, <2>1, <2>6, <2>7, <2>9 DEF Changed, BoardRecord
    <2> QED BY <2>1, <2>6, <2>7, <2>9, <2>10 DEF Plain, Changed
  <1> QED BY <1>2, <1>3

-----------------------------------------------------------------------------
(* A set of natural numbers has a least element.                             *)
LEMMA LeastNatural ==
  ASSUME NEW T \in SUBSET Nat, T # {}
  PROVE  \E x \in T : \A y \in T : x <= y
  <1> DEFINE R == {s \in Nat \X Nat : s[1] < s[2]}
  <1>1. OpToRel(<, Nat) = R
    BY DEF OpToRel
  <1>2. IsWellFoundedOn(R, Nat)
    BY <1>1, NatLessThanWellFounded, Zenon
  <1> HIDE DEF R
  <1>3. PICK x \in T : \A y \in T : ~ (<<y, x>> \in R)
    BY <1>2, WFMin, Zenon
  <1>4. ASSUME NEW y \in T PROVE x <= y
    <2>1. <<y, x>> \in Nat \X Nat /\ <<y, x>> \notin R
      BY <1>3
    <2>2. ~ (y < x)
      BY <2>1 DEF R
    <2> QED BY <2>2
  <1> QED BY <1>4

(* Induction on a set of natural numbers.                                    *)
LEMMA SetInduction ==
  ASSUME NEW T, 0 \in T, \A n \in Nat : n \in T => n + 1 \in T
  PROVE  \A n \in Nat : n \in T
  <1> SUFFICES ASSUME Nat \ T # {} PROVE FALSE
    OBVIOUS
  <1>1. PICK x \in Nat \ T : \A y \in Nat \ T : x <= y
    BY LeastNatural
  <1>2. x # 0 /\ x - 1 \in Nat /\ ~ (x <= x - 1) /\ x - 1 + 1 = x
    BY <1>1
  <1>3. x - 1 \in T
    BY <1>1, <1>2
  <1> QED BY <1>1, <1>2, <1>3

(* A step can be repeated for ever: the function of what it gives exists.    *)
LEMMA Iterates ==
  ASSUME NEW X, NEW base \in X, NEW step \in [X -> X]
  PROVE  \E g \in [Nat -> X] : g[0] = base /\ \A n \in Nat : g[n + 1] = step[g[n]]
  <1> DEFINE Start(n) == {g \in [0 .. n -> X] :
                            g[0] = base /\ \A k \in Nat : k < n => g[k + 1] = step[g[k]]}
             Some == {n \in Nat : Start(n) # {}}
  <1>1. \A n \in Nat : Start(n) # {}
    <2>1. 0 \in Some
      <3>1. [k \in 0 .. 0 |-> base] \in Start(0)
        OBVIOUS
      <3> QED BY <3>1
    <2>2. ASSUME NEW n \in Nat, n \in Some PROVE n + 1 \in Some
      <3>1. PICK g \in [0 .. n -> X] : g[0] = base /\ \A k \in Nat : k < n => g[k + 1] = step[g[k]]
        BY <2>2
      <3> DEFINE h == [k \in 0 .. n + 1 |-> IF k = n + 1 THEN step[g[n]] ELSE g[k]]
      <3>2. h \in [0 .. n + 1 -> X]
        BY <3>1
      <3>3. h[0] = base /\ \A k \in Nat : k < n + 1 => h[k + 1] = step[h[k]]
        <4>1. h[0] = base
          BY <3>1
        <4>2. ASSUME NEW k \in Nat, k < n + 1 PROVE h[k + 1] = step[h[k]]
          <5>1. CASE k = n
            BY <5>1
          <5>2. CASE k # n
            <6>1. k < n /\ k + 1 \in 0 .. n + 1 /\ k + 1 # n + 1 /\ k \in 0 .. n + 1 /\ k # n + 1
              BY <4>2, <5>2
            <6> QED BY <3>1, <6>1
          <5> QED BY <5>1, <5>2
        <4> QED BY <4>1, <4>2
      <3>4. h \in Start(n + 1)
        BY <3>2, <3>3
      <3> QED BY <3>4
    <2>3. \A n \in Nat : n \in Some
      <3> HIDE DEF Some
      <3> QED BY <2>1, <2>2, SetInduction
    <2> QED BY <2>3
  <1>2. ASSUME NEW n \in Nat, NEW m \in Nat, n <= m, NEW g \in Start(n), NEW h \in Start(m)
        PROVE  g[n] = h[n]
    <2> DEFINE Same == {k \in Nat : k <= n => g[k] = h[k]}
    <2>1. 0 \in Same
      OBVIOUS
    <2>2. ASSUME NEW k \in Nat, k \in Same PROVE k + 1 \in Same
      <3> SUFFICES ASSUME k + 1 <= n PROVE g[k + 1] = h[k + 1]
        OBVIOUS
      <3>1. k < n /\ k < m /\ g[k] = h[k]
        BY <1>2, <2>2
      <3> QED BY <3>1
    <2>3. \A k \in Nat : k \in Same
      <3> HIDE DEF Same
      <3> QED BY <2>1, <2>2, SetInduction
    <2> QED BY <2>3
  <1> DEFINE G(n) == CHOOSE g : g \in Start(n)
             f == [n \in Nat |-> G(n)[n]]
  <1>3. \A n \in Nat : G(n) \in Start(n)
    BY <1>1
  <1>4. \A n \in Nat : G(n) \in [0 .. n -> X] /\ G(n)[0] = base
                       /\ \A k \in Nat : k < n => G(n)[k + 1] = step[G(n)[k]]
    BY <1>3
  <1>5. \A n \in Nat : G(n)[n] = G(n + 1)[n]
    <2> SUFFICES ASSUME NEW n \in Nat PROVE G(n)[n] = G(n + 1)[n]
      OBVIOUS
    <2>1. n + 1 \in Nat /\ n <= n + 1
      OBVIOUS
    <2> HIDE DEF G, Start
    <2> QED BY <1>2, <1>3, <2>1
  <1> HIDE DEF G, Start
  <1>6. f \in [Nat -> X]
    BY <1>4
  <1>7. f[0] = base /\ \A n \in Nat : f[n + 1] = step[f[n]]
    <2>1. ASSUME NEW n \in Nat PROVE f[n + 1] = step[f[n]]
      <3>1. n + 1 \in Nat /\ n < n + 1
        OBVIOUS
      <3>2. G(n + 1)[n + 1] = step[G(n + 1)[n]]
        BY <1>4, <3>1
      <3> QED BY <1>5, <3>1, <3>2
    <2> QED BY <1>4, <2>1
  <1> QED BY <1>6, <1>7

(* The same of every set, start and step, with what is iterated named.       *)
IteratesOf(g, X, base, step) ==
  g \in [Nat -> X] /\ g[0] = base /\ \A n \in Nat : g[n + 1] = step[g[n]]

LEMMA IteratesNamed ==
  \A X : \A base \in X : \A step \in [X -> X] : \E g : IteratesOf(g, X, base, step)
  <1> SUFFICES ASSUME NEW X, NEW base \in X, NEW step \in [X -> X]
               PROVE  \E g : IteratesOf(g, X, base, step)
    OBVIOUS
  <1>1. PICK g \in [Nat -> X] : g[0] = base /\ \A n \in Nat : g[n + 1] = step[g[n]]
    BY Iterates
  <1>2. IteratesOf(g, X, base, step)
    BY <1>1 DEF IteratesOf
  <1> QED BY <1>2

(* The greatest and the least of finitely many numbers.                      *)
LEMMA FiniteExtremes ==
  ASSUME NEW S, IsFiniteSet(S), S # {}, NEW f \in [S -> Int]
  PROVE  /\ \E x \in S : \A y \in S : f[y] <= f[x]
         /\ \E x \in S : \A y \in S : f[x] <= f[y]
  <1> DEFINE Tops(g, n) == \E k \in 1 .. n : \A l \in 1 .. n : g[l] <= g[k]
             Bottoms(g, n) == \E k \in 1 .. n : \A l \in 1 .. n : g[k] <= g[l]
             T == {n \in Nat : n = 0 \/ \A g \in [1 .. n -> Int] : Tops(g, n) /\ Bottoms(g, n)}
  <1>1. \A n \in Nat : n \in T
    <2>1. 0 \in T
      OBVIOUS
    <2>2. ASSUME NEW n \in Nat, n \in T PROVE n + 1 \in T
      <3> SUFFICES ASSUME NEW g \in [1 .. n + 1 -> Int] PROVE Tops(g, n + 1) /\ Bottoms(g, n + 1)
        <4> HIDE DEF Tops, Bottoms
        <4> QED OBVIOUS
      <3>1. CASE n = 0
        BY <3>1
      <3>2. CASE n # 0
        <4> DEFINE h == [k \in 1 .. n |-> g[k]]
        <4>1. h \in [1 .. n -> Int] /\ \A k \in 1 .. n : h[k] = g[k]
          OBVIOUS
        <4>2. Tops(h, n) /\ Bottoms(h, n)
          BY <2>2, <3>2, <4>1
        <4>3. PICK a \in 1 .. n : \A l \in 1 .. n : h[l] <= h[a]
          BY <4>2
        <4>4. PICK b \in 1 .. n : \A l \in 1 .. n : h[b] <= h[l]
          BY <4>2
        <4> HIDE DEF h
        <4> DEFINE m == n + 1
        <4>5. \A l \in 1 .. m : l \in 1 .. n \/ l = m
          OBVIOUS
        <4>6. a \in 1 .. m /\ b \in 1 .. m /\ m \in 1 .. m
          OBVIOUS
        <4>7. \A l \in 1 .. m : g[l] \in Int
          OBVIOUS
        <4> HIDE DEF m
        <4>8. \A l \in 1 .. n : g[l] <= g[a] /\ g[b] <= g[l]
          BY <4>1, <4>3, <4>4
        <4> DEFINE top == IF g[m] <= g[a] THEN a ELSE m
                   bottom == IF g[b] <= g[m] THEN b ELSE m
        <4>9. top \in 1 .. m /\ bottom \in 1 .. m
          BY <4>6
        <4>10. ASSUME NEW l \in 1 .. m PROVE g[l] <= g[top] /\ g[bottom] <= g[l]
          <5>1. g[l] \in Int /\ g[a] \in Int /\ g[b] \in Int /\ g[m] \in Int
            BY <4>6, <4>7
          <5>2. l = m \/ (g[l] <= g[a] /\ g[b] <= g[l])
            BY <4>5, <4>8
          <5>3. g[top] = IF g[m] <= g[a] THEN g[a] ELSE g[m]
            OBVIOUS
          <5>4. g[bottom] = IF g[b] <= g[m] THEN g[b] ELSE g[m]
            OBVIOUS
          <5> HIDE DEF top, bottom
          <5> QED BY <5>1, <5>2, <5>3, <5>4
        <4> HIDE DEF top, bottom
        <4>11. /\ \E k \in 1 .. m : \A l \in 1 .. m : g[l] <= g[k]
               /\ \E k \in 1 .. m : \A l \in 1 .. m : g[k] <= g[l]
          BY <4>9, <4>10
        <4> QED BY <4>11 DEF m
      <3> QED BY <3>1, <3>2
    <2> HIDE DEF T
    <2> QED BY <2>1, <2>2, SetInduction
  <1>2. PICK n \in Nat : ExistsSurjection(1 .. n, S)
    BY FS_NatSurjection
  <1>3. PICK s \in [1 .. n -> S] : \A x \in S : \E k \in 1 .. n : s[k] = x
    BY <1>2 DEF ExistsSurjection, Surjection
  <1>4. n # 0
    BY <1>3
  <1> DEFINE g == [k \in 1 .. n |-> f[s[k]]]
  <1>5. g \in [1 .. n -> Int]
    OBVIOUS
  <1>6. /\ \E k \in 1 .. n : \A l \in 1 .. n : g[l] <= g[k]
        /\ \E k \in 1 .. n : \A l \in 1 .. n : g[k] <= g[l]
    BY <1>1, <1>4, <1>5
  <1> QED BY <1>3, <1>6

(* The first of the legal moves, line by line, is one of them.               *)
LEMMA FirstIsOne ==
  ASSUME NEW b, Sound(b), NEW moves \in SUBSET LegalMoves(b), moves # {}
  PROVE  FirstOf(moves) \in moves
  <1>1. CASE ValidCells(b, b.nextPlayer) = {}
    BY <1>1 DEF LegalMoves, FirstOf, Precedes, Pass
  <1>2. CASE ValidCells(b, b.nextPlayer) # {}
    <2> DEFINE row == {c[1] : c \in moves}
    <2>1. /\ moves \subseteq Cell(b.size)
          /\ b.size \in Nat
      BY <1>2 DEF LegalMoves, ValidCells, Sound, BoardRecord
    <2>2. \A c \in moves : c[1] \in Nat /\ c[2] \in Nat
      BY <2>1 DEF Cell
    <2>3. row \in SUBSET Nat /\ row # {}
      BY <2>2
    <2>4. PICK x \in row : \A y \in row : x <= y
      BY <2>3, LeastNatural
    <2> DEFINE column == {c[2] : c \in {c \in moves : c[1] = x}}
    <2>5. column \in SUBSET Nat /\ column # {}
      BY <2>2, <2>4
    <2>6. PICK y \in column : \A z \in column : y <= z
      BY <2>5, LeastNatural
    <2>7. PICK c \in moves : c[1] = x /\ c[2] = y
      BY <2>6
    <2>8. \A d \in moves : Precedes(c, d)
      <3> SUFFICES ASSUME NEW d \in moves PROVE Precedes(c, d)
        OBVIOUS
      <3>1. x <= d[1]
        BY <2>4
      <3>2. d[1] = x => y <= d[2]
        BY <2>6
      <3> QED BY <2>2, <2>7, <3>1, <3>2 DEF Precedes
    <2> QED BY <2>7, <2>8 DEF FirstOf
  <1> QED BY <1>1, <1>2

(* There is always a legal move, if only to pass.                            *)
LEMMA SomeMove ==
  ASSUME NEW b
  PROVE  LegalMoves(b) # {}
  BY DEF LegalMoves

-----------------------------------------------------------------------------
(* Minimax: the recursive function of AlphaBeta exists and is what its       *)
(* equation says.                                                            *)

Tree(size) == Position(size) \X BOOLEAN

Child(node, move) == <<Forget(Push(node[1], move)), ~node[2]>>

Kinds == {"basic", "victory", "forcing_basic"}

(* The value of a node that is no leaf, from those of the nodes below.       *)
IsBest(mine, v, moves, below) ==
  IF mine THEN (\A m \in moves : below[m] <= v) /\ (\E m \in moves : below[m] = v)
          ELSE (\A m \in moves : v <= below[m]) /\ (\E m \in moves : below[m] = v)

(* val gives each node its minimax value, at each depth.                     *)
Solves(val, kind, player, size) ==
  \A depth \in Nat, node \in Tree(size) :
    /\ val[depth][node] \in Int
    /\ IF depth = 0 \/ IsGameOver(node[1])
       THEN val[depth][node] = Heuristique(kind, node[1], player)
       ELSE IsBest(node[2], val[depth][node], LegalMoves(node[1]),
                   [m \in LegalMoves(node[1]) |-> val[depth - 1][Child(node, m)]])

(* A position is a sound board.                                              *)
LEMMA PositionIsSound ==
  ASSUME NEW size \in Nat, NEW b \in Position(size)
  PROVE  Sound(b) /\ b.size = size /\ b.successivePass = 0
  <1>1. /\ b.size = size /\ b.board \in [Cell(size) -> Player \cup {EMPTY}]
        /\ b.nb \in [Player -> Int] /\ b.nextPlayer \in Player /\ b.stack \in Seq(Entry)
        /\ b.successivePass = 0
        /\ b = [size |-> b.size, board |-> b.board, nb |-> b.nb, nextPlayer |-> b.nextPlayer,
                stack |-> b.stack, successivePass |-> b.successivePass]
        /\ \A p \in Player : b.nb[p] = Cardinality({c \in Cell(size) : b.board[c] = p})
    BY DEF Position, Entry
  <1>2. Player \cup {EMPTY} = 0 .. 2
    BY DEF Player, EMPTY, BLACK, WHITE
  <1>3. b.board \in [Cell(size) -> 0 .. 2]
    BY <1>1, <1>2
  <1>4. b \in BoardRecord
    BY <1>1, <1>3 DEF BoardRecord
  <1> QED BY <1>1, <1>3, <1>4 DEF Sound, Pieces

(* A sound board is a position, its count of passes forgotten.               *)
LEMMA ForgetFacts ==
  ASSUME NEW b, Sound(b)
  PROVE  /\ Forget(b) \in Position(b.size)
         /\ Plain(Forget(b)) = Plain(b) /\ Forget(b) \in BoardRecord /\ b \in BoardRecord
  <1>1. /\ b \in BoardRecord /\ b.size \in Nat
        /\ b.nb \in [Player -> Int] /\ b.nextPlayer \in Player /\ b.stack \in Seq(Entry)
        /\ b.board \in [Cell(b.size) -> 0 .. 2]
        /\ \A p \in Player : b.nb[p] = Cardinality({c \in Cell(b.size) : b.board[c] = p})
    BY DEF Sound, BoardRecord, Pieces
  <1>2. Forget(b) = [size |-> b.size, board |-> b.board, nb |-> b.nb, nextPlayer |-> b.nextPlayer,
                     stack |-> b.stack, successivePass |-> 0]
    BY <1>1 DEF Forget, BoardRecord
  <1>3. Player \cup {EMPTY} = 0 .. 2
    BY DEF Player, EMPTY, BLACK, WHITE
  <1>4. b.board \in [Cell(b.size) -> Player \cup {EMPTY}]
    BY <1>1, <1>3
  <1>5. Forget(b) \in Position(b.size)
    BY <1>1, <1>2, <1>4 DEF Position, Entry
  <1>6. Plain(Forget(b)) = Plain(b)
    BY <1>2 DEF Plain
  <1>7. Forget(b) \in BoardRecord
    BY <1>1, <1>5, PositionIsSound DEF Sound
  <1> QED BY <1>1, <1>5, <1>6, <1>7

(* Boards that differ in the count of passes only are the same position.     *)
LEMMA SamePosition ==
  ASSUME NEW b \in BoardRecord, NEW c \in BoardRecord, Plain(b) = Plain(c)
  PROVE  Forget(b) = Forget(c)
  <1>1. /\ b.size = c.size /\ b.board = c.board /\ b.nb = c.nb
        /\ b.nextPlayer = c.nextPlayer /\ b.stack = c.stack
    BY DEF Plain
  <1>2. \A B : \A d \in [size : Nat, board : B, nb : [Player -> Int], nextPlayer : Player,
                        stack : Seq(Entry), successivePass : Int] :
          Forget(d) = [size |-> d.size, board |-> d.board, nb |-> d.nb, nextPlayer |-> d.nextPlayer,
                       stack |-> d.stack, successivePass |-> 0]
    BY DEF Forget
  <1>3. /\ Forget(b) = [size |-> b.size, board |-> b.board, nb |-> b.nb, nextPlayer |-> b.nextPlayer,
                        stack |-> b.stack, successivePass |-> 0]
        /\ Forget(c) = [size |-> c.size, board |-> c.board, nb |-> c.nb, nextPlayer |-> c.nextPlayer,
                        stack |-> c.stack, successivePass |-> 0]
    <2> DEFINE B == UNION {[Cell(n) -> 0 .. 2] : n \in Nat}
    <2>1. /\ b \in [size : Nat, board : B, nb : [Player -> Int], nextPlayer : Player,
                   stack : Seq(Entry), successivePass : Int]
          /\ c \in [size : Nat, board : B, nb : [Player -> Int], nextPlayer : Player,
                   stack : Seq(Entry), successivePass : Int]
      BY Zenon DEF BoardRecord
    <2> HIDE DEF B
    <2> QED BY <1>2, <2>1, Zenon
  <1> QED BY <1>1, <1>3

(* A legal move leads to another node.                                       *)
LEMMA ChildIsNode ==
  ASSUME NEW size \in Nat, NEW node \in Tree(size), NEW m \in LegalMoves(node[1])
  PROVE  Child(node, m) \in Tree(size)
  <1>1. node[1] \in Position(size) /\ node[2] \in BOOLEAN
    BY DEF Tree
  <1>2. Sound(node[1]) /\ node[1].size = size
    BY <1>1, PositionIsSound
  <1>3. Sound(Push(node[1], m)) /\ Push(node[1], m).size = size
    BY <1>2, PushSound
  <1>4. Forget(Push(node[1], m)) \in Position(size)
    BY <1>3, ForgetFacts
  <1> QED BY <1>1, <1>4 DEF Tree, Child

(* The legal moves are finitely many.                                        *)
LEMMA MovesFinite ==
  ASSUME NEW b, Sound(b)
  PROVE  IsFiniteSet(LegalMoves(b))
  <1>1. b.size \in Nat /\ DOMAIN b.board = Cell(b.size)
    BY DEF Sound, BoardRecord
  <1>2. IsFiniteSet(Cell(b.size)) /\ IsFiniteSet({Pass})
    BY <1>1, CellsFinite, FS_Singleton
  <1>3. ValidCells(b, b.nextPlayer) \in SUBSET Cell(b.size)
    BY <1>1 DEF ValidCells
  <1>4. IsFiniteSet(ValidCells(b, b.nextPlayer))
    BY <1>2, <1>3, FS_Subset
  <1> QED BY <1>2, <1>4 DEF LegalMoves

(* A heuristic gives a number. (CR_ai.py:133-148)                            *)
LEMMA HeuristiqueType ==
  ASSUME NEW kind \in Kinds, NEW b \in BoardRecord, NEW p \in Player
  PROVE  Heuristique(kind, b, p) \in Int
  <1>1. Score(b, p) \in Int
    BY FlipFacts DEF Score, BoardRecord
  <1>2. Len(b.stack) \in Nat
    BY DEF BoardRecord
  <1>3. CASE kind = "basic"
    BY <1>1, <1>3 DEF Heuristique
  <1>4. CASE kind = "victory"
    BY <1>4, GameAssumption DEF Heuristique
  <1>5. CASE kind = "forcing_basic"
    BY <1>2, <1>5 DEF Heuristique
  <1> QED BY <1>3, <1>4, <1>5 DEF Kinds

(* ... and does not read the count of passes.                                *)
LEMMA HeuristiquePlain ==
  ASSUME NEW kind, NEW p, NEW b \in BoardRecord, NEW c \in BoardRecord, Plain(b) = Plain(c)
  PROVE  Heuristique(kind, b, p) = Heuristique(kind, c, p)
  <1>1. b.nb = c.nb /\ b.nextPlayer = c.nextPlayer /\ b.stack = c.stack
    BY DEF Plain
  <1>2. IsGameOver(b) <=> IsGameOver(c)
    BY PlainSame
  <1>3. Score(b, p) = Score(c, p)
    BY <1>1 DEF Score
  <1> QED BY <1>1, <1>2, <1>3 DEF Heuristique

(* The best of the values below a node exists.                               *)
LEMMA BestExists ==
  ASSUME NEW S, IsFiniteSet(S), S # {}, NEW f \in [S -> Int], NEW mine \in BOOLEAN,
         NEW values, values = {f[m] : m \in S}, NEW v,
         v = IF mine THEN Greatest(values) ELSE Least(values)
  PROVE  v \in Int /\ IsBest(mine, v, S, f)
  <1>1. CASE mine
    <2>1. PICK x \in S : \A y \in S : f[y] <= f[x]
      BY FiniteExtremes
    <2>2. f[x] \in values /\ \A w \in values : w <= f[x]
      BY <2>1
    <2>3. Greatest(values) \in values /\ \A w \in values : w <= Greatest(values)
      BY <2>2 DEF Greatest
    <2> QED BY <1>1, <2>3 DEF IsBest
  <1>2. CASE ~mine
    <2>1. PICK x \in S : \A y \in S : f[x] <= f[y]
      BY FiniteExtremes
    <2>2. f[x] \in values /\ \A w \in values : f[x] <= w
      BY <2>1
    <2>3. Least(values) \in values /\ \A w \in values : Least(values) <= w
      BY <2>2 DEF Least
    <2> QED BY <1>2, <2>3 DEF IsBest
  <1> QED BY <1>1, <1>2

(* The body of the recursive function, from the values one less deep.        *)
Layer(kind, player, size, depth, below) ==
  [node \in Tree(size) |->
     IF depth = 0 \/ IsGameOver(node[1]) THEN Heuristique(kind, node[1], player)
     ELSE IF node[2] THEN Greatest({below[Child(node, m)] : m \in LegalMoves(node[1])})
          ELSE Least({below[Child(node, m)] : m \in LegalMoves(node[1])})]

(* What one layer is when the one below is known.                            *)
LEMMA LayerFacts ==
  ASSUME NEW kind \in Kinds, NEW player \in Player, NEW size \in Nat, NEW depth \in Nat,
         NEW below, depth > 0 => below \in [Tree(size) -> Int],
         NEW node \in Tree(size), NEW v, v = Layer(kind, player, size, depth, below)[node]
  PROVE  /\ v \in Int
         /\ IF depth = 0 \/ IsGameOver(node[1])
            THEN v = Heuristique(kind, node[1], player)
            ELSE IsBest(node[2], v, LegalMoves(node[1]),
                        [m \in LegalMoves(node[1]) |-> below[Child(node, m)]])
  <1>1. node[1] \in Position(size) /\ node[2] \in BOOLEAN
    BY DEF Tree
  <1>2. Sound(node[1]) /\ node[1] \in BoardRecord
    BY <1>1, PositionIsSound DEF Sound
  <1>3. CASE depth = 0 \/ IsGameOver(node[1])
    <2>1. v = Heuristique(kind, node[1], player)
      BY <1>3 DEF Layer
    <2> QED BY <1>2, <1>3, <2>1, HeuristiqueType
  <1>4. CASE ~(depth = 0 \/ IsGameOver(node[1]))
    <2> DEFINE S == LegalMoves(node[1])
               f == [m \in S |-> below[Child(node, m)]]
               values == {f[m] : m \in S}
    <2>1. values = {below[Child(node, m)] : m \in LegalMoves(node[1])}
      OBVIOUS
    <2>2. v = IF node[2] THEN Greatest(values) ELSE Least(values)
      BY <1>4, <2>1 DEF Layer
    <2>3. \A m \in S : Child(node, m) \in Tree(size)
      BY ChildIsNode
    <2>4. f \in [S -> Int]
      BY <1>4, <2>3
    <2>5. IsFiniteSet(S) /\ S # {}
      BY <1>2, MovesFinite, SomeMove
    <2> HIDE DEF S, f
    <2>6. v \in Int /\ IsBest(node[2], v, S, f)
      BY <1>1, <2>2, <2>4, <2>5, BestExists
    <2> QED BY <1>4, <2>6 DEF S, f
  <1> QED BY <1>3, <1>4

(* minimax is defined at every depth, by the equation that defines it.       *)
THEOREM MinimaxSolves ==
  ASSUME NEW kind \in Kinds, NEW player \in Player, NEW size \in Nat
  PROVE  Solves(Minimax(kind, player, size), kind, player, size)
  <1> DEFINE X == [Tree(size) -> Int]
             L(depth, below) == Layer(kind, player, size, depth, below)
             base == L(0, {})
             step == [below \in X |-> L(1, below)]
             M == Minimax(kind, player, size)
  <1>1. ASSUME NEW depth \in Nat, NEW below, depth > 0 => below \in X
        PROVE  L(depth, below) \in X
    <2>1. \A node \in Tree(size) : L(depth, below)[node] \in Int
      BY <1>1, LayerFacts
    <2>2. L(depth, below) = [node \in Tree(size) |-> L(depth, below)[node]]
      BY DEF Layer
    <2> HIDE DEF L
    <2> QED BY <2>1, <2>2
  <1>2. base \in X /\ \A below \in X : \A depth \in Nat : L(depth, below) \in X
    <2> HIDE DEF L, X
    <2> QED BY <1>1 DEF base
  <1>3. step \in [X -> X]
    <2> HIDE DEF L, X
    <2> QED BY <1>2
  <1>4. PICK g : g \in [Nat -> X] /\ g[0] = base /\ \A n \in Nat : g[n + 1] = step[g[n]]
    <2>1. base \in X
      BY <1>2
    <2>2. PICK g : IteratesOf(g, X, base, step)
      <3> HIDE DEF X, base, step
      <3> QED BY <2>1, <1>3, IteratesNamed, Zenon
    <2> HIDE DEF X, base, step
    <2> QED BY <2>2, Zenon DEF IteratesOf
  <1>5. /\ \A n \in Nat : \A below : n # 0 => L(n, below) = L(1, below)
        /\ \A below, below2 : L(0, below) = L(0, below2)
    BY DEF Layer
  <1>6. g = [n \in Nat |-> L(n, g[n - 1])]
    <2>1. ASSUME NEW n \in Nat PROVE g[n] = L(n, g[n - 1])
      <3>1. CASE n = 0
        BY <1>4, <3>1 DEF Layer
      <3>2. CASE n # 0
        <4>1. n - 1 \in Nat /\ n - 1 + 1 = n
          BY <3>2
        <4>2. g[n] = step[g[n - 1]] /\ g[n - 1] \in X
          BY <1>4, <4>1
        <4> HIDE DEF L, X
        <4> QED BY <1>5, <3>2, <4>2
      <3> QED BY <3>1, <3>2
    <2> HIDE DEF L
    <2> QED BY <1>4, <2>1
  <1>7. M = [n \in Nat |-> L(n, M[n - 1])]
    <2> DEFINE Body(h) == [n \in Nat |-> L(n, h[n - 1])]
    <2>1. M = CHOOSE h : h = Body(h)
      BY DEF Minimax, Layer, Tree, Child
    <2>2. g = Body(g)
      BY <1>6
    <2> HIDE DEF Body, M
    <2>3. M = Body(M)
      BY <2>1, <2>2
    <2> QED BY <2>3 DEF Body
  <1> HIDE DEF M
  <1>8. \A n \in Nat : M[n] = L(n, M[n - 1])
    BY <1>7
  <1>9. \A n \in Nat : M[n] \in X
    <2> DEFINE T == {n \in Nat : M[n] \in X}
    <2>1. 0 \in T
      <3>1. M[0] = base
        BY <1>8 DEF Layer
      <3> HIDE DEF X, base
      <3> QED BY <1>2, <3>1
    <2>2. ASSUME NEW n \in Nat, n \in T PROVE n + 1 \in T
      <3>1. M[n + 1] = L(n + 1, M[n]) /\ n + 1 \in Nat
        <4>1. n + 1 \in Nat /\ n + 1 - 1 = n
          OBVIOUS
        <4> HIDE DEF L
        <4> QED BY <1>8, <4>1
      <3> HIDE DEF L, X
      <3> QED BY <1>2, <2>2, <3>1
    <2> HIDE DEF T
    <2>3. \A n \in Nat : n \in T
      BY <2>1, <2>2, SetInduction
    <2> QED BY <2>3 DEF T
  <1>10. ASSUME NEW depth \in Nat, NEW node \in Tree(size)
         PROVE  /\ M[depth][node] \in Int
                /\ IF depth = 0 \/ IsGameOver(node[1])
                   THEN M[depth][node] = Heuristique(kind, node[1], player)
                   ELSE IsBest(node[2], M[depth][node], LegalMoves(node[1]),
                               [m \in LegalMoves(node[1]) |-> M[depth - 1][Child(node, m)]])
    <2>1. depth > 0 => M[depth - 1] \in X
      BY <1>9
    <2>2. M[depth][node] = L(depth, M[depth - 1])[node]
      BY <1>8
    <2> QED BY <2>1, <2>2, LayerFacts
  <1> QED BY <1>10 DEF Solves, M

-----------------------------------------------------------------------------
(* The values that alphabeta bounds.                                         *)

(* Whose turn it is `depth' moves above the leaves of a search of depth d0.  *)
Mine(d0, depth) == depth % 2 = d0 % 2

(* The minimax value of a position of that search.                           *)
Value(val, d0, b, depth) == val[depth][<<Forget(b), Mine(d0, depth)>>]

(* The turn alternates.                                                      *)
LEMMA TurnsAlternate ==
  ASSUME NEW d0 \in Int, NEW depth \in Int
  PROVE  Mine(d0, depth - 1) <=> ~Mine(d0, depth)
  BY DEF Mine

(* Those of the positions one move below.                                    *)
Below(val, d0, b, depth) ==
  [m \in LegalMoves(b) |-> Value(val, d0, Push(b, m), depth - 1)]

(* The value of a position is the score of a leaf, or the best of those      *)
(* below.                                                                    *)
Valued(val, kind, player, d0, b, depth) ==
  /\ Value(val, d0, b, depth) \in Int
  /\ IF depth = 0 \/ IsGameOver(b)
     THEN Value(val, d0, b, depth) = Heuristique(kind, b, player)
     ELSE /\ Below(val, d0, b, depth) \in [LegalMoves(b) -> Int]
          /\ IsBest(Mine(d0, depth), Value(val, d0, b, depth), LegalMoves(b),
                    Below(val, d0, b, depth))

(* Minimax gives each position of a search such a value.                     *)
LEMMA NodeValue ==
  ASSUME NEW val, NEW kind \in Kinds, NEW player \in Player, NEW size,
         Solves(val, kind, player, size), NEW b, Sound(b), b.size = size,
         NEW d0 \in Int, NEW depth \in Nat
  PROVE  Valued(val, kind, player, d0, b, depth)
  <1> DEFINE node == <<Forget(b), Mine(d0, depth)>>
             below == Below(val, d0, b, depth)
  <1>1. /\ b \in BoardRecord /\ Forget(b) \in BoardRecord /\ Forget(b) \in Position(b.size)
        /\ Plain(Forget(b)) = Plain(b) /\ b.size \in Nat
    BY ForgetFacts DEF Sound, BoardRecord
  <1>2. /\ LegalMoves(Forget(b)) = LegalMoves(b) /\ (IsGameOver(Forget(b)) <=> IsGameOver(b))
        /\ Heuristique(kind, Forget(b), player) = Heuristique(kind, b, player)
    BY <1>1, PlainSame, HeuristiquePlain
  <1>3. /\ node \in Tree(b.size) /\ node[1] = Forget(b) /\ node[2] = Mine(d0, depth)
        /\ Value(val, d0, b, depth) = val[depth][node]
    BY <1>1 DEF Tree, Value, Mine
  <1>4. /\ val[depth][node] \in Int
        /\ IF depth = 0 \/ IsGameOver(node[1])
           THEN val[depth][node] = Heuristique(kind, node[1], player)
           ELSE IsBest(node[2], val[depth][node], LegalMoves(node[1]),
                       [m \in LegalMoves(node[1]) |-> val[depth - 1][Child(node, m)]])
    BY <1>3 DEF Solves
  <1>5. ASSUME NEW m \in LegalMoves(b), depth # 0
        PROVE  /\ val[depth - 1][Child(node, m)] = Value(val, d0, Push(b, m), depth - 1)
               /\ Value(val, d0, Push(b, m), depth - 1) \in Int
    <2>1. Plain(Push(Forget(b), m)) = Plain(Push(b, m))
      BY <1>1, PushPlain
    <2>2. Push(b, m) \in BoardRecord /\ Push(Forget(b), m) \in BoardRecord
      <3>1. Sound(Forget(b))
        BY <1>1, PlainSame
      <3> QED BY <1>2, <3>1, PushSound DEF Sound
    <2>3. Forget(Push(Forget(b), m)) = Forget(Push(b, m))
      BY <2>1, <2>2, SamePosition
    <2>4. Mine(d0, depth - 1) = ~Mine(d0, depth)
      BY TurnsAlternate DEF Mine
    <2>5. Child(node, m) = <<Forget(Push(b, m)), Mine(d0, depth - 1)>>
      BY <1>3, <2>3, <2>4 DEF Child
    <2>6. Child(node, m) \in Tree(b.size) /\ depth - 1 \in Nat
      BY <1>1, <1>2, <1>3, <1>5, ChildIsNode
    <2>7. val[depth - 1][Child(node, m)] \in Int
      BY <2>6 DEF Solves
    <2> QED BY <2>5, <2>7 DEF Value
  <1>6. ASSUME ~(depth = 0 \/ IsGameOver(b))
        PROVE  /\ below \in [LegalMoves(b) -> Int]
               /\ IsBest(Mine(d0, depth), Value(val, d0, b, depth), LegalMoves(b), below)
    <2>1. below \in [LegalMoves(b) -> Int]
      BY <1>5, <1>6 DEF Below
    <2>2. [m \in LegalMoves(node[1]) |-> val[depth - 1][Child(node, m)]] = below
      BY <1>2, <1>3, <1>5, <1>6 DEF Below
    <2> HIDE DEF below, node
    <2> QED BY <1>2, <1>3, <1>4, <1>6, <2>1, <2>2
  <1> HIDE DEF node, below
  <1>7. Value(val, d0, b, depth) \in Int
    BY <1>3, <1>4
  <1>8. CASE depth = 0 \/ IsGameOver(b)
    BY <1>2, <1>3, <1>4, <1>7, <1>8 DEF Valued
  <1>9. CASE ~(depth = 0 \/ IsGameOver(b))
    BY <1>6, <1>7, <1>9 DEF Valued, below
  <1> QED BY <1>8, <1>9

(* The number of pieces of a player is at most that of the cells.            *)
LEMMA PiecesBound ==
  ASSUME NEW b, Sound(b), NEW p \in Player
  PROVE  b.nb[p] \in 0 .. b.size * b.size
  <1>1. b \in BoardRecord /\ b.size \in Nat /\ b.nb[p] = Cardinality(Pieces(b, p))
    BY DEF Sound, BoardRecord
  <1> DEFINE S == 0 .. b.size - 1
  <1>2. IsFiniteSet(S) /\ Cardinality(S) = b.size
    <2>1. 0 \in Int /\ b.size - 1 \in Int /\ (0 <= b.size - 1 \/ b.size = 0)
      BY <1>1
    <2>2. IsFiniteSet(S) /\ Cardinality(S) = IF 0 > b.size - 1 THEN 0 ELSE b.size - 1 - 0 + 1
      BY <2>1, FS_Interval
    <2> HIDE DEF S
    <2> QED BY <1>1, <2>1, <2>2
  <1>3. Cell(b.size) = S \X S
    BY DEF Cell
  <1> HIDE DEF S
  <1>4. Cardinality(Cell(b.size)) = b.size * b.size /\ IsFiniteSet(Cell(b.size))
    BY <1>2, <1>3, FS_Product
  <1>5. Pieces(b, p) \subseteq Cell(b.size)
    BY DEF Pieces
  <1>6. Cardinality(Pieces(b, p)) <= b.size * b.size
    BY <1>4, <1>5, FS_Subset
  <1> QED BY <1>1, <1>6, PiecesFinite

(* No score exceeds Inf on a board of this size.                             *)
ScoresFit(size) == size * size <= Inf

(* No heuristic exceeds Inf, on a board of the game.                         *)
LEMMA HeuristiqueBound ==
  ASSUME NEW kind \in Kinds, NEW player \in Player, NEW b, Sound(b),
         ScoresFit(b.size), Len(b.stack) <= Inf
  PROVE  -Inf <= Heuristique(kind, b, player) /\ Heuristique(kind, b, player) <= Inf
  <1>1. Inf \in Nat \ {0}
    BY GameAssumption
  <1>2. -Inf <= Score(b, player) /\ Score(b, player) <= Inf
    <2>1. Flip(player) \in Player
      BY FlipFacts
    <2>2. /\ b.nb[player] \in 0 .. b.size * b.size
          /\ b.nb[Flip(player)] \in 0 .. b.size * b.size
      BY <2>1, PiecesBound
    <2>3. b.size \in Nat /\ b.size * b.size \in Nat
      BY DEF Sound, BoardRecord
    <2>4. \A n \in Nat : n <= Inf => \A x, y \in 0 .. n : -Inf <= x - y /\ x - y <= Inf
      BY <1>1
    <2>5. /\ -Inf <= b.nb[player] - b.nb[Flip(player)]
          /\ b.nb[player] - b.nb[Flip(player)] <= Inf
      BY <2>2, <2>3, <2>4 DEF ScoresFit
    <2> QED BY <2>5 DEF Score
  <1>3. Len(b.stack) \in Nat
    BY DEF Sound, BoardRecord
  <1>4. CASE kind = "basic"
    BY <1>2, <1>4 DEF Heuristique
  <1>5. CASE kind = "victory"
    BY <1>1, <1>5 DEF Heuristique
  <1>6. CASE kind = "forcing_basic"
    BY <1>1, <1>3, <1>6 DEF Heuristique
  <1> QED BY <1>4, <1>5, <1>6 DEF Kinds

(* The number of moves that led to a position.                               *)
Height(b) == Len(b.stack)

(* A move adds one entry to the stack.                                       *)
LEMMA PushStack ==
  ASSUME NEW b, Sound(b), NEW m
  PROVE  Height(Push(b, m)) = Height(b) + 1 /\ Height(b) \in Nat
  <1>1. /\ \A e : Len(Append(b.stack, e)) = Len(b.stack) + 1
        /\ Len(b.stack) \in Nat
    BY DEF Sound, BoardRecord
  <1> QED BY <1>1 DEF Push, Changed, Height

(* No value of a search within the moves of a game exceeds Inf.              *)
LEMMA ValuesBound ==
  ASSUME NEW val, NEW kind \in Kinds, NEW player \in Player, NEW size \in Nat,
         Solves(val, kind, player, size), ScoresFit(size), NEW d0 \in Int
  PROVE  \A depth \in Nat : \A b :
           Sound(b) /\ b.size = size /\ Height(b) + depth <= Inf =>
             -Inf <= Value(val, d0, b, depth) /\ Value(val, d0, b, depth) <= Inf
  <1> DEFINE Bounded(b, depth) ==
               -Inf <= Value(val, d0, b, depth) /\ Value(val, d0, b, depth) <= Inf
             P(b, depth) == Sound(b) /\ b.size = size /\ Height(b) + depth <= Inf
             T == {depth \in Nat : \A b : P(b, depth) => Bounded(b, depth)}
  <1>1. Inf \in Nat
    BY GameAssumption
  <1>2. ASSUME NEW b, NEW depth \in Nat, P(b, depth), depth = 0 \/ IsGameOver(b)
        PROVE  Bounded(b, depth)
    <2>1. Height(b) \in Nat
      BY <1>2, PushStack
    <2>2. Height(b) <= Inf
      BY <1>1, <1>2, <2>1
    <2>3. Sound(b) /\ b.size = size
      BY <1>2
    <2>4. Value(val, d0, b, depth) = Heuristique(kind, b, player)
      <3>1. Valued(val, kind, player, d0, b, depth)
        BY <2>3, NodeValue
      <3> QED BY <1>2, <3>1 DEF Valued
    <2> QED BY <1>2, <2>2, <2>4, HeuristiqueBound DEF Height
  <1>3. ASSUME NEW depth \in Nat, depth \in T, NEW b, P(b, depth + 1), ~IsGameOver(b)
        PROVE  Bounded(b, depth + 1)
    <2>1. depth + 1 \in Nat /\ depth + 1 # 0 /\ depth + 1 - 1 = depth
      OBVIOUS
    <2>2. PICK m \in LegalMoves(b) :
            Value(val, d0, Push(b, m), depth + 1 - 1) = Value(val, d0, b, depth + 1)
      <3>1. Sound(b) /\ b.size = size
        BY <1>3
      <3>2. ~(depth + 1 = 0 \/ IsGameOver(b))
        BY <1>3, <2>1
      <3>3. Valued(val, kind, player, d0, b, depth + 1)
        BY <2>1, <3>1, NodeValue
      <3> QED BY <3>2, <3>3 DEF Valued, IsBest, Below
    <2>3. Sound(Push(b, m)) /\ Push(b, m).size = size
      BY <1>3, PushSound
    <2>4. Height(Push(b, m)) + depth <= Inf
      <3>1. Height(b) \in Nat /\ Height(Push(b, m)) = Height(b) + 1
        BY <1>3, PushStack
      <3>2. Height(b) + (depth + 1) <= Inf
        BY <1>3
      <3> QED BY <1>1, <3>1, <3>2
    <2>5. Bounded(Push(b, m), depth)
      BY <1>3, <2>3, <2>4
    <2> QED BY <2>1, <2>2, <2>5
  <1> HIDE DEF Bounded, P
  <1>4. 0 \in T
    BY <1>2
  <1>5. ASSUME NEW depth \in Nat, depth \in T PROVE depth + 1 \in T
    BY <1>2, <1>3, <1>5
  <1> HIDE DEF T
  <1>6. \A depth \in Nat : depth \in T
    BY <1>4, <1>5, SetInduction
  <1> QED BY <1>6 DEF T, P, Bounded

-----------------------------------------------------------------------------
(* What alphabeta knows of the values.                                       *)

(* v stands for the value w in the window (alpha, beta): it is w inside, and *)
(* on the same side as w outside.                                            *)
Within(v, w, alpha, beta) == (v < beta => w <= v) /\ (v > alpha => v <= w)

(* A call with the window (a0, b0) that has tried some of its moves, whose   *)
(* values are in c: `value' is that of the loop of the player (CR_ai.py:43-  *)
(* 62) ...                                                                   *)
SureMax(moves, c, a0, b0, alpha, beta, value, tried) ==
  /\ beta = b0 /\ alpha = Greater(a0, value) /\ value < b0
  /\ \A m \in tried : c[m] <= value
  /\ value > a0 => \E m \in moves : value <= c[m]

(* ... or of the opponent. (CR_ai.py:63-83)                                  *)
SureMin(moves, c, a0, b0, alpha, beta, value, tried) ==
  /\ alpha = a0 /\ beta = Smaller(b0, value) /\ a0 < value
  /\ \A m \in tried : value <= c[m]
  /\ value < b0 => \E m \in moves : c[m] <= value

(* One more value keeps the loop of the player sure, or ends it with a value *)
(* that stands for the best one ...                                          *)
TakenMax(moves, c, a0, b0, alpha, beta, next, tried) ==
  /\ next < beta => SureMax(moves, c, a0, b0, Greater(alpha, next), beta, next, tried)
  /\ beta <= next \/ moves \subseteq tried =>
       \A w \in Int : IsBest(TRUE, w, moves, c) => Within(next, w, a0, b0)

(* ... and so for the loop of the opponent.                                  *)
TakenMin(moves, c, a0, b0, alpha, beta, next, tried) ==
  /\ alpha < next => SureMin(moves, c, a0, b0, alpha, Smaller(beta, next), next, tried)
  /\ next <= alpha \/ moves \subseteq tried =>
       \A w \in Int : IsBest(FALSE, w, moves, c) => Within(next, w, a0, b0)

(* A value that the player takes. (CR_ai.py:47-62)                           *)
LEMMA BackMax ==
  ASSUME NEW moves, NEW c \in [moves -> Int], NEW a0 \in Int, NEW b0 \in Int,
         NEW alpha \in Int, NEW beta \in Int, NEW value \in Int, NEW tried \in SUBSET moves,
         SureMax(moves, c, a0, b0, alpha, beta, value, tried),
         NEW m \in moves, NEW v \in Int, Within(v, c[m], alpha, beta),
         NEW next \in Int, next = Greater(value, v)
  PROVE  TakenMax(moves, c, a0, b0, alpha, beta, next, tried \cup {m})
  <1>1. beta = b0 /\ alpha = Greater(a0, value) /\ value < b0
    BY DEF SureMax
  <1>2. next > a0 => \E x \in moves : next <= c[x]
    <2>1. CASE v <= value
      BY <2>1 DEF SureMax, Greater
    <2>2. CASE value < v
      <3>1. next = v
        BY <2>2 DEF Greater
      <3>2. next > a0 => v > alpha
        BY <1>1, <2>2, <3>1 DEF Greater
      <3> QED BY <3>1, <3>2 DEF Within
    <2> QED BY <2>1, <2>2
  <1>3. next < beta => \A x \in tried \cup {m} : c[x] <= next
    <2> SUFFICES ASSUME next < beta, NEW x \in tried \cup {m} PROVE c[x] <= next
      OBVIOUS
    <2>1. value <= next /\ v <= next /\ v < beta
      BY DEF Greater
    <2>2. CASE x = m
      BY <2>1, <2>2 DEF Within
    <2>3. CASE x \in tried
      <3>1. c[x] <= value /\ c[x] \in Int
        BY <2>3 DEF SureMax
      <3> QED BY <2>1, <3>1
    <2> QED BY <2>2, <2>3
  <1>4. next < beta => SureMax(moves, c, a0, b0, Greater(alpha, next), beta, next, tried \cup {m})
    <2>1. Greater(alpha, next) = Greater(a0, next)
      BY <1>1 DEF Greater
    <2> QED BY <1>1, <1>2, <1>3, <2>1 DEF SureMax
  <1>5. ASSUME beta <= next \/ moves \subseteq tried \cup {m}, NEW w \in Int,
               IsBest(TRUE, w, moves, c)
        PROVE  Within(next, w, a0, b0)
    <2>1. (\A x \in moves : c[x] <= w) /\ \E x \in moves : c[x] = w
      BY <1>5 DEF IsBest
    <2>2. next < b0 => w <= next
      BY <1>1, <1>3, <1>5, <2>1
    <2>3. next > a0 => next <= w
      BY <1>2, <2>1
    <2> QED BY <2>2, <2>3 DEF Within
  <1> QED BY <1>4, <1>5 DEF TakenMax

(* A value that the opponent takes. (CR_ai.py:67-83)                         *)
LEMMA BackMin ==
  ASSUME NEW moves, NEW c \in [moves -> Int], NEW a0 \in Int, NEW b0 \in Int,
         NEW alpha \in Int, NEW beta \in Int, NEW value \in Int, NEW tried \in SUBSET moves,
         SureMin(moves, c, a0, b0, alpha, beta, value, tried),
         NEW m \in moves, NEW v \in Int, Within(v, c[m], alpha, beta),
         NEW next \in Int, next = Smaller(value, v)
  PROVE  TakenMin(moves, c, a0, b0, alpha, beta, next, tried \cup {m})
  <1>1. alpha = a0 /\ beta = Smaller(b0, value) /\ a0 < value
    BY DEF SureMin
  <1>2. next < b0 => \E x \in moves : c[x] <= next
    <2>1. CASE value <= v
      BY <2>1 DEF SureMin, Smaller
    <2>2. CASE v < value
      <3>1. next = v
        BY <2>2 DEF Smaller
      <3>2. next < b0 => v < beta
        BY <1>1, <2>2, <3>1 DEF Smaller
      <3> QED BY <3>1, <3>2 DEF Within
    <2> QED BY <2>1, <2>2
  <1>3. alpha < next => \A x \in tried \cup {m} : next <= c[x]
    <2> SUFFICES ASSUME alpha < next, NEW x \in tried \cup {m} PROVE next <= c[x]
      OBVIOUS
    <2>1. next <= value /\ next <= v /\ alpha < v
      BY DEF Smaller
    <2>2. CASE x = m
      BY <2>1, <2>2 DEF Within
    <2>3. CASE x \in tried
      <3>1. value <= c[x] /\ c[x] \in Int
        BY <2>3 DEF SureMin
      <3> QED BY <2>1, <3>1
    <2> QED BY <2>2, <2>3
  <1>4. alpha < next => SureMin(moves, c, a0, b0, alpha, Smaller(beta, next), next, tried \cup {m})
    <2>1. Smaller(beta, next) = Smaller(b0, next)
      BY <1>1 DEF Smaller
    <2> QED BY <1>1, <1>2, <1>3, <2>1 DEF SureMin
  <1>5. ASSUME next <= alpha \/ moves \subseteq tried \cup {m}, NEW w \in Int,
               IsBest(FALSE, w, moves, c)
        PROVE  Within(next, w, a0, b0)
    <2>1. (\A x \in moves : w <= c[x]) /\ \E x \in moves : c[x] = w
      BY <1>5 DEF IsBest
    <2>2. next > a0 => next <= w
      BY <1>1, <1>3, <1>5, <2>1
    <2>3. next < b0 => w <= next
      BY <1>2, <2>1
    <2> QED BY <2>2, <2>3 DEF Within
  <1> QED BY <1>4, <1>5 DEF TakenMin

-----------------------------------------------------------------------------
(* The game.                                                                 *)
Frame == [deepness : Int, alpha : Int, beta : Int, value : Int,
          moves : SUBSET (Int \X Int), move : (Int \X Int) \cup {None}]

Result == [value : Int, move : (Int \X Int) \cup {None}]

(* h[k] is the position that the k-th call explores; the first n calls have  *)
(* pushed the move they are trying.                                          *)
Linked(root, h, fs, n) ==
  /\ h \in [Nat -> BoardRecord] /\ fs \in Seq(Frame)
  /\ h[1] = root
  /\ \A k \in 1 .. Len(fs) : /\ Sound(h[k]) /\ h[k].size = root.size
                              /\ fs[k].moves \subseteq LegalMoves(h[k])
  /\ \A k \in 1 .. n : fs[k].move \in LegalMoves(h[k]) /\ h[k + 1] = Push(h[k], fs[k].move)

(* The window that the k-th call was given.                                  *)
Low(fs, k)  == IF k = 1 THEN -Inf ELSE fs[k - 1].alpha
High(fs, k) == IF k = 1 THEN Inf ELSE fs[k - 1].beta

(* A call with the window (a0, b0), on the position p and `depth' moves      *)
(* above the leaves, is sure of what its frame says.                         *)
Sure(val, d0, p, depth, a0, b0, f, tried) ==
  /\ depth > 0 /\ f.deepness = depth /\ ~IsGameOver(p)
  /\ -Inf <= a0 /\ a0 < b0 /\ b0 <= Inf
  /\ IF Mine(d0, depth)
     THEN SureMax(LegalMoves(p), Below(val, d0, p, depth), a0, b0, f.alpha, f.beta, f.value, tried)
     ELSE SureMin(LegalMoves(p), Below(val, d0, p, depth), a0, b0, f.alpha, f.beta, f.value, tried)

(* The moves of the k-th call whose value is known; the first n calls have   *)
(* one more under way.                                                       *)
Tried(h, fs, n, k) ==
  LegalMoves(h[k]) \ (fs[k].moves \cup (IF k <= n THEN {fs[k].move} ELSE {}))

SureAt(val, d0, h, fs, n, k) ==
  Sure(val, d0, h[k], d0 - k + 1, Low(fs, k), High(fs, k), fs[k], Tried(h, fs, n, k))

Exact(val, d0, h, fs, n) == \A k \in 1 .. Len(fs) : SureAt(val, d0, h, fs, n, k)

(* v stands for the value of the position after the last move pushed.        *)
Stands(val, d0, h, fs, v) ==
  \E n \in Nat :
    /\ n = Len(fs)
    /\ Within(v, Value(val, d0, h[n + 1], d0 - n), Low(fs, n + 1), High(fs, n + 1))

(* A call is at work on the position h[n].                                   *)
Waiting(root, val, d0, h, bd, fs) ==
  /\ fs # <<>> /\ fs[Len(fs)].moves # {}
  /\ Linked(root, h, fs, Len(fs) - 1)
  /\ Exact(val, d0, h, fs, Len(fs) - 1)
  /\ Plain(bd) = Plain(h[Len(fs)])

(* A call has returned from the position after the last move pushed.         *)
Returned(root, val, d0, h, bd, fs, res) ==
  /\ res \in Result
  /\ fs = <<>> => res.move \in LegalMoves(root)
  /\ Linked(root, h, fs, Len(fs))
  /\ Exact(val, d0, h, fs, Len(fs))
  /\ Stands(val, d0, h, fs, res.value)
  /\ Plain(bd) = Plain(h[Len(fs) + 1])

(* The board of the explorer is the position of the call at work, the moves  *)
(* that its caller will pop are those that were pushed, and each call is     *)
(* sure of its bounds on the values.                                         *)
Exploration(root, val, d0, bd, fs, res) ==
  \E h \in [Nat -> BoardRecord] :
    IF res = None THEN Waiting(root, val, d0, h, bd, fs)
                  ELSE Returned(root, val, d0, h, bd, fs, res)

BoardsInv ==
  /\ Sound(ref)
  /\ Sound(board) /\ board.size = ref.size
  /\ ref.size \in DOMAIN MaxMoves
  /\ own = [p \in Player |-> ref]
  /\ phase \in {"referee", "deepen", "explore", "answer", "over"}

SearchInv ==
  /\ heuristic \in [Player -> Kinds]
  /\ deepness \in Nat /\ (phase \in {"deepen", "explore"} => deepness > 0)
  /\ best \in Cell(ref.size) \cup {Pass}
  /\ phase \in {"deepen", "explore", "answer"} => best \in LegalMoves(ref) /\ ~IsGameOver(ref)
  /\ phase = "explore" =>
       /\ Exploration(ref, Minimaxes, deepness, board, frames, result)
       /\ deepness <= LastDepth - Len(ref.stack)

IInv == BoardsInv /\ SearchInv

-----------------------------------------------------------------------------
(* Two things make a set of two.                                             *)
LEMMA TwoElements ==
  ASSUME NEW x, NEW y, x # y
  PROVE  Cardinality({x, y}) = 2
  <1>1. IsFiniteSet({x}) /\ Cardinality({x}) = 1
    BY FS_Singleton
  <1>2. y \notin {x} /\ {x, y} = {x} \cup {y}
    OBVIOUS
  <1> QED BY <1>1, <1>2, FS_AddElement

(* The board at the beginning: two pieces of each colour.                    *)
(* (Reversi.py:15-30)                                                        *)
LEMMA NewBoardSound ==
  ASSUME NEW size \in Nat \ {0, 1}
  PROVE  Sound(NewBoard(size)) /\ NewBoard(size).size = size
  <1> DEFINE b == NewBoard(size)
             m == size \div 2
             black == {<<m - 1, m - 1>>, <<m, m>>}
             white == {<<m - 1, m>>, <<m, m - 1>>}
             cells == [c \in Cell(size) |-> IF c \in black THEN BLACK
                                            ELSE IF c \in white THEN WHITE ELSE EMPTY]
  <1>1. m \in Nat /\ 1 <= m /\ m <= size - 1
    OBVIOUS
  <1> HIDE DEF m
  <1>2. black \subseteq Cell(size) /\ white \subseteq Cell(size) /\ black \cap white = {}
    BY <1>1 DEF Cell
  <1>3. Cardinality(black) = 2 /\ Cardinality(white) = 2
    <2>1. <<m - 1, m - 1>> # <<m, m>> /\ <<m - 1, m>> # <<m, m - 1>>
      BY <1>1
    <2> QED BY <2>1, TwoElements
  <1> HIDE DEF black, white
  <1>4. cells \in [Cell(size) -> 0 .. 2]
    BY DEF BLACK, WHITE, EMPTY
  <1>5. /\ b.size = size /\ b.board = cells /\ b.nb = [p \in Player |-> 2]
        /\ b.nextPlayer = BLACK /\ b.stack = <<>> /\ b.successivePass = 0
    BY DEF NewBoard, m, black, white
  <1>6. b = [size |-> size, board |-> cells, nb |-> [p \in Player |-> 2],
             nextPlayer |-> BLACK, stack |-> <<>>, successivePass |-> 0]
    BY DEF NewBoard, m, black, white
  <1>7. Pieces(b, BLACK) = black /\ Pieces(b, WHITE) = white
    BY <1>2, <1>5 DEF Pieces, BLACK, WHITE, EMPTY
  <1> HIDE DEF cells
  <1>8. b \in BoardRecord
    <2>1. <<>> \in Seq(Entry) /\ BLACK \in Player /\ [p \in Player |-> 2] \in [Player -> Int]
      BY DEF Player
    <2> HIDE DEF b
    <2> QED BY <1>4, <1>6, <2>1 DEF BoardRecord
  <1> HIDE DEF b
  <1>9. \A p \in Player : b.nb[p] = Cardinality(Pieces(b, p))
    BY <1>3, <1>5, <1>7 DEF Player
  <1> QED BY <1>4, <1>5, <1>8, <1>9 DEF Sound, b

(* The legal moves are pairs of numbers; Pass is no cell.                    *)
LEMMA MovesAreCells ==
  ASSUME NEW b, Sound(b)
  PROVE  /\ LegalMoves(b) \subseteq Int \X Int
         /\ LegalMoves(b) \subseteq Cell(b.size) \cup {Pass}
  <1>1. b.size \in Nat /\ DOMAIN b.board = Cell(b.size)
    BY DEF Sound, BoardRecord
  <1>2. LegalMoves(b) \subseteq Cell(b.size) \cup {Pass}
    BY <1>1 DEF LegalMoves, ValidCells
  <1>3. Cell(b.size) \subseteq Int \X Int /\ Pass \in Int \X Int
    BY <1>1 DEF Cell, Pass
  <1> QED BY <1>2, <1>3

(* All the calls but the innermost one.                                      *)
LEMMA FrontFacts ==
  ASSUME NEW fs \in Seq(Frame), fs # <<>>
  PROVE  /\ Front(fs) \in Seq(Frame) /\ Len(Front(fs)) = Len(fs) - 1
         /\ \A k \in 1 .. Len(fs) - 1 : Front(fs)[k] = fs[k]
  <1>1. Len(fs) \in Nat /\ Len(fs) >= 1
    BY LenProperties, EmptySeq
  <1>2. \A k \in 1 .. Len(fs) - 1 : fs[k] \in Frame
    BY <1>1, ElementOfSeq
  <1> DEFINE m == Len(fs) - 1
             sub == SubSeq(fs, 1, m)
  <1>3. m \in Nat /\ \A i \in 1 .. m : fs[i] \in Frame
    BY <1>1, <1>2
  <1> HIDE DEF m
  <1>4. /\ sub \in Seq(Frame)
        /\ Len(sub) = IF 1 <= m THEN m - 1 + 1 ELSE 0
        /\ \A i \in 1 .. m - 1 + 1 : sub[i] = fs[1 + i - 1]
    BY <1>3, SubSeqProperties
  <1>5. ASSUME NEW k \in 1 .. m PROVE sub[k] = fs[k]
    <2>1. k \in 1 .. m - 1 + 1 /\ 1 + k - 1 = k
      BY <1>3
    <2> QED BY <1>4, <2>1
  <1> HIDE DEF sub
  <1>6. Len(sub) = m
    BY <1>3, <1>4
  <1> QED BY <1>4, <1>5, <1>6 DEF Front, sub, m

(* The values known so far are about the frame, its parent and the position. *)
LEMMA SureAtSame ==
  ASSUME NEW val, NEW d0, NEW h, NEW fs, NEW n, NEW k \in Nat \ {0}, SureAt(val, d0, h, fs, n, k),
         NEW g, NEW gs, NEW i, g[k] = h[k], gs[k] = fs[k], k # 1 => gs[k - 1] = fs[k - 1],
         k <= i <=> k <= n
  PROVE  SureAt(val, d0, g, gs, i, k)
  <1>1. Tried(g, gs, i, k) = Tried(h, fs, n, k)
    BY DEF Tried
  <1>2. Low(gs, k) = Low(fs, k) /\ High(gs, k) = High(fs, k)
    BY DEF Low, High
  <1> QED BY <1>1, <1>2 DEF SureAt

(* The bounds of a frame are numbers.                                        *)
LEMMA WindowType ==
  ASSUME NEW fs \in Seq(Frame), NEW k \in 1 .. Len(fs) + 1
  PROVE  Low(fs, k) \in Int /\ High(fs, k) \in Int
  <1>1. Inf \in Int /\ -Inf \in Int
    BY GameAssumption
  <1>2. CASE k = 1
    BY <1>1, <1>2 DEF Low, High
  <1>3. CASE k # 1
    <2>1. Len(fs) \in Nat
      BY LenProperties
    <2>2. k - 1 \in 1 .. Len(fs)
      BY <1>3, <2>1
    <2>3. fs[k - 1] \in Frame
      BY <2>2, ElementOfSeq
    <2>4. fs[k - 1].alpha \in Int /\ fs[k - 1].beta \in Int
      BY <2>3 DEF Frame
    <2> QED BY <1>3, <2>4 DEF Low, High
  <1> QED BY <1>2, <1>3

(* A new call is sure: it has tried nothing. (CR_ai.py:36-41)                *)
LEMMA NewFrameSure ==
  ASSUME NEW val, NEW d0 \in Int, NEW p, ~IsGameOver(p), NEW depth \in Int, depth > 0,
         NEW a0 \in Int, NEW b0 \in Int, -Inf <= a0, a0 < b0, b0 <= Inf,
         NEW f, f.deepness = depth, f.alpha = a0, f.beta = b0,
         f.value = IF depth % 2 # d0 % 2 THEN Inf ELSE -Inf
  PROVE  Sure(val, d0, p, depth, a0, b0, f, {})
  <1>1. Inf \in Int
    BY GameAssumption
  <1>2. CASE Mine(d0, depth)
    <2>1. f.value = -Inf
      BY <1>2 DEF Mine
    <2>2. SureMax(LegalMoves(p), Below(val, d0, p, depth), a0, b0, f.alpha, f.beta, f.value, {})
      BY <1>1, <2>1 DEF SureMax, Greater
    <2> QED BY <1>2, <2>2 DEF Sure
  <1>3. CASE ~Mine(d0, depth)
    <2>1. f.value = Inf
      BY <1>3 DEF Mine
    <2>2. SureMin(LegalMoves(p), Below(val, d0, p, depth), a0, b0, f.alpha, f.beta, f.value, {})
      BY <1>1, <2>1 DEF SureMin, Smaller
    <2> QED BY <1>3, <2>2 DEF Sure
  <1> QED BY <1>2, <1>3

(* The window that a call gives to the calls below is not empty.             *)
LEMMA SureWindow ==
  ASSUME NEW val, NEW d0, NEW p, NEW depth, NEW a0 \in Int, NEW b0 \in Int, NEW f \in Frame,
         NEW tried, Sure(val, d0, p, depth, a0, b0, f, tried)
  PROVE  -Inf <= f.alpha /\ f.alpha < f.beta /\ f.beta <= Inf
  <1>1. /\ Inf \in Int /\ f.alpha \in Int /\ f.beta \in Int /\ f.value \in Int
        /\ -Inf <= a0 /\ a0 < b0 /\ b0 <= Inf
    BY GameAssumption DEF Frame, Sure
  <1>2. CASE Mine(d0, depth)
    <2>1. f.beta = b0 /\ f.alpha = Greater(a0, f.value) /\ f.value < b0
      BY <1>2 DEF Sure, SureMax
    <2> QED BY <1>1, <2>1 DEF Greater
  <1>3. CASE ~Mine(d0, depth)
    <2>1. f.alpha = a0 /\ f.beta = Smaller(b0, f.value) /\ a0 < f.value
      BY <1>3 DEF Sure, SureMin
    <2> QED BY <1>1, <2>1 DEF Smaller
  <1> QED BY <1>2, <1>3

(* A call that takes a value goes on with the frame g, sure of its bounds,   *)
(* or returns a value that stands for its own.                               *)
Taken(val, d0, p, depth, a0, b0, f, g, tried) ==
  LET cut == IF Mine(d0, depth) THEN f.beta <= g.value ELSE g.value <= f.alpha
  IN  /\ ~cut => Sure(val, d0, p, depth, a0, b0, g, tried)
      /\ cut \/ LegalMoves(p) \subseteq tried =>
           \A w \in Int : IsBest(Mine(d0, depth), w, LegalMoves(p), Below(val, d0, p, depth)) =>
                            Within(g.value, w, a0, b0)

(* So it is with what alphabeta does of a value. (CR_ai.py:47-83)            *)
LEMMA BackSure ==
  ASSUME NEW val, NEW d0, NEW p, NEW depth, NEW a0 \in Int, NEW b0 \in Int, NEW f \in Frame,
         NEW tried \in SUBSET LegalMoves(p), Sure(val, d0, p, depth, a0, b0, f, tried),
         Below(val, d0, p, depth) \in [LegalMoves(p) -> Int],
         NEW m \in LegalMoves(p), NEW v \in Int,
         Within(v, Below(val, d0, p, depth)[m], f.alpha, f.beta),
         NEW next \in Int,
         next = IF Mine(d0, depth) THEN Greater(f.value, v) ELSE Smaller(f.value, v),
         NEW g, g.deepness = f.deepness, g.value = next,
         g.alpha = IF Mine(d0, depth) THEN Greater(f.alpha, next) ELSE f.alpha,
         g.beta = IF Mine(d0, depth) THEN f.beta ELSE Smaller(f.beta, next)
  PROVE  Taken(val, d0, p, depth, a0, b0, f, g, tried \cup {m})
  <1> DEFINE moves == LegalMoves(p)
             c == Below(val, d0, p, depth)
             alpha == f.alpha
             beta == f.beta
             value == f.value
  <1>1. alpha \in Int /\ beta \in Int /\ value \in Int
    BY DEF Frame
  <1>2. /\ c \in [moves -> Int] /\ tried \in SUBSET moves /\ m \in moves
        /\ Within(v, c[m], alpha, beta)
    OBVIOUS
  <1>3. CASE Mine(d0, depth)
    <2>1. SureMax(moves, c, a0, b0, alpha, beta, value, tried)
      BY <1>3 DEF Sure
    <2>2. next = Greater(value, v) /\ g.alpha = Greater(alpha, next) /\ g.beta = beta
      BY <1>3
    <2>3. Mine(d0, depth) = TRUE
      BY <1>3 DEF Mine
    <2> HIDE DEF moves, c, alpha, beta, value
    <2>4. TakenMax(moves, c, a0, b0, alpha, beta, next, tried \cup {m})
      BY <1>1, <1>2, <2>1, <2>2, BackMax
    <2>5. beta <= next \/ next < beta
      BY <1>1
    <2>6. next < beta => Sure(val, d0, p, depth, a0, b0, g, tried \cup {m})
      BY <1>3, <2>2, <2>4 DEF Sure, TakenMax, moves, c, alpha, beta
    <2> QED BY <1>3, <2>3, <2>4, <2>5, <2>6 DEF Taken, TakenMax, moves, c, alpha, beta
  <1>4. CASE ~Mine(d0, depth)
    <2>1. SureMin(moves, c, a0, b0, alpha, beta, value, tried)
      BY <1>4 DEF Sure
    <2>2. next = Smaller(value, v) /\ g.alpha = alpha /\ g.beta = Smaller(beta, next)
      BY <1>4
    <2>3. Mine(d0, depth) = FALSE
      BY <1>4 DEF Mine
    <2> HIDE DEF moves, c, alpha, beta, value
    <2>4. TakenMin(moves, c, a0, b0, alpha, beta, next, tried \cup {m})
      BY <1>1, <1>2, <2>1, <2>2, BackMin
    <2>5. next <= alpha \/ alpha < next
      BY <1>1
    <2>6. alpha < next => Sure(val, d0, p, depth, a0, b0, g, tried \cup {m})
      BY <1>4, <2>2, <2>4 DEF Sure, TakenMin, moves, c, alpha, beta
    <2> QED BY <1>4, <2>3, <2>4, <2>5, <2>6 DEF Taken, TakenMin, moves, c, alpha, beta
  <1> QED BY <1>3, <1>4

(* A call starts on the position after the last move pushed: it is at work   *)
(* there, or returns the score of a leaf. (CR_ai.py:24-41)                   *)
LEMMA CallExplores ==
  ASSUME SearchInv, ref.nextPlayer \in Player,
         NEW val, Solves(val, heuristic[Turn], Turn, ref.size),
         NEW h \in [Nat -> BoardRecord], NEW fs, NEW n \in Nat, n = Len(fs),
         Linked(ref, h, fs, n), Exact(val, deepness, h, fs, n),
         NEW b, Sound(b), b.size = ref.size, Plain(b) = Plain(h[n + 1]),
         NEW depth \in Nat, depth = deepness - n, NEW alpha \in Int, NEW beta \in Int,
         alpha = Low(fs, n + 1), beta = High(fs, n + 1),
         -Inf <= alpha, alpha < beta, beta <= Inf,
         fs = <<>> => ~IsGameOver(b) /\ depth > 0,
         Call(b, depth, alpha, beta, fs)
  PROVE  board' = b /\ Exploration(ref, val, deepness, board', frames', result')
  <1>1. board' = b /\ b \in BoardRecord /\ fs \in Seq(Frame) /\ deepness \in Nat
    BY DEF Call, Sound, Linked, SearchInv
  <1>2. heuristic[Turn] \in Kinds /\ Turn \in Player
    BY DEF SearchInv, Turn
  <1>3. /\ h[n + 1] \in BoardRecord /\ LegalMoves(b) = LegalMoves(h[n + 1])
        /\ Sound(h[n + 1]) /\ h[n + 1].size = ref.size
        /\ (IsGameOver(b) <=> IsGameOver(h[n + 1]))
    <2>1. h[n + 1] \in BoardRecord
      OBVIOUS
    <2>2. h[n + 1].size = b.size
      BY DEF Plain
    <2> QED BY <1>1, <2>1, <2>2, PlainSame
  <1>4. CASE IsGameOver(b) \/ depth <= 0
    <2> DEFINE v == Heuristique(heuristic[Turn], b, Turn)
    <2>1. v \in Int
      BY <1>1, <1>2, HeuristiqueType
    <2>2. Value(val, deepness, h[n + 1], depth) = v
      <3>1. Valued(val, heuristic[Turn], Turn, deepness, h[n + 1], depth)
        BY <1>1, <1>2, <1>3, NodeValue
      <3>2. depth = 0 \/ IsGameOver(h[n + 1])
        BY <1>3, <1>4
      <3>3. v = Heuristique(heuristic[Turn], h[n + 1], Turn)
        BY <1>1, <1>3, HeuristiquePlain
      <3> HIDE DEF v
      <3> QED BY <3>1, <3>2, <3>3 DEF Valued
    <2> HIDE DEF v
    <2>3. frames' = fs /\ result' = [value |-> v, move |-> None]
      BY <1>4 DEF Call, v
    <2>4. result' \in Result /\ result'.value = v
      BY <2>1, <2>3 DEF Result
    <2>5. result' # None
      BY <2>4, GameAssumption DEF Result
    <2>6. fs # <<>>
      BY <1>4
    <2>7. Stands(val, deepness, h, frames', result'.value)
      BY <2>1, <2>2, <2>3, <2>4 DEF Stands, Within
    <2>8. Returned(ref, val, deepness, h, board', frames', result')
      BY <1>1, <2>3, <2>4, <2>6, <2>7 DEF Returned
    <2> QED BY <2>5, <2>8, <1>1 DEF Exploration
  <1>5. CASE ~(IsGameOver(b) \/ depth <= 0)
    <2> DEFINE value == IF depth % 2 # deepness % 2 THEN Inf ELSE -Inf
               frame == [deepness |-> depth, alpha |-> alpha, beta |-> beta, value |-> value,
                         moves |-> LegalMoves(b), move |-> None]
    <2>1. value \in Int
      BY GameAssumption
    <2>2. Sure(val, deepness, h[n + 1], depth, alpha, beta, frame, {})
      BY <1>1, <1>3, <1>5, NewFrameSure
    <2> HIDE DEF value
    <2>3. frame \in Frame /\ frame.moves = LegalMoves(b)
      BY <2>1, MovesAreCells DEF Frame
    <2>4. frames' = Append(fs, frame) /\ result' = None
      BY <1>5 DEF Call, value
    <2> HIDE DEF frame
    <2>5. /\ frames' \in Seq(Frame) /\ Len(frames') = n + 1
          /\ frames'[n + 1] = frame /\ frames' # <<>>
          /\ \A k \in 1 .. n : frames'[k] = fs[k]
      BY <1>1, <2>3, <2>4, AppendProperties
    <2>6. Linked(ref, h, frames', n)
      <3>1. ASSUME NEW k \in 1 .. Len(frames')
            PROVE  /\ Sound(h[k]) /\ h[k].size = ref.size
                   /\ frames'[k].moves \subseteq LegalMoves(h[k])
        <4>1. CASE k = n + 1
          BY <1>3, <2>3, <2>5, <4>1
        <4>2. CASE k # n + 1
          <5>1. k \in 1 .. n
            BY <2>5, <4>2
          <5> QED BY <2>5, <5>1 DEF Linked
        <4> QED BY <4>1, <4>2
      <3>2. ASSUME NEW k \in 1 .. n
            PROVE  frames'[k].move \in LegalMoves(h[k]) /\ h[k + 1] = Push(h[k], frames'[k].move)
        BY <2>5 DEF Linked
      <3>3. h[1] = ref
        BY DEF Linked
      <3> QED BY <2>5, <3>1, <3>2, <3>3 DEF Linked
    <2>7. Exact(val, deepness, h, frames', n)
      <3> SUFFICES ASSUME NEW k \in 1 .. Len(frames') PROVE SureAt(val, deepness, h, frames', n, k)
        BY DEF Exact
      <3>1. CASE k = n + 1
        <4>1. Low(frames', k) = alpha /\ High(frames', k) = beta
          <5>1. n = 0 \/ n \in 1 .. n
            OBVIOUS
          <5>2. n + 1 - 1 = n
            OBVIOUS
          <5> QED BY <2>5, <3>1, <5>1, <5>2 DEF Low, High
        <4>2. Tried(h, frames', n, k) = {}
          BY <1>3, <2>3, <2>5, <3>1 DEF Tried
        <4>3. deepness - k + 1 = depth
          BY <1>1, <3>1
        <4> QED BY <2>2, <2>5, <3>1, <4>1, <4>2, <4>3 DEF SureAt
      <3>2. CASE k # n + 1
        <4>1. k \in 1 .. n /\ k \in Nat \ {0} /\ (k # 1 => k - 1 \in 1 .. n)
          BY <2>5, <3>2
        <4>2. SureAt(val, deepness, h, fs, n, k)
          BY <4>1 DEF Exact
        <4>3. frames'[k] = fs[k] /\ (k # 1 => frames'[k - 1] = fs[k - 1])
          BY <2>5, <4>1
        <4> QED BY <4>1, <4>2, <4>3, SureAtSame
      <3> QED BY <3>1, <3>2
    <2>8. frames'[Len(frames')].moves # {}
      BY <2>3, <2>5, SomeMove
    <2>9. Len(frames') - 1 = n
      BY <2>5
    <2>10. Waiting(ref, val, deepness, h, board', frames')
      BY <1>1, <2>5, <2>6, <2>7, <2>8, <2>9 DEF Waiting
    <2> QED BY <1>1, <2>4, <2>10 DEF Exploration
  <1> QED BY <1>4, <1>5

(* Minimax, for the player whose turn it is.                                 *)
LEMMA MinimaxesSolve ==
  ASSUME IInv
  PROVE  /\ Solves(Minimaxes, heuristic[Turn], Turn, ref.size)
         /\ heuristic[Turn] \in Kinds /\ Turn \in Player /\ ref.size \in Nat
  <1>1. heuristic[Turn] \in Kinds /\ Turn \in Player /\ ref.size \in Nat
    BY DEF IInv, BoardsInv, SearchInv, Turn, Sound, BoardRecord
  <1> QED BY <1>1, MinimaxSolves DEF Minimaxes

(* The next move is pushed, and the call below explores it. (CR_ai.py:43-47) *)
LEMMA TryExplores ==
  ASSUME IInv, Try
  PROVE  /\ Sound(board') /\ board'.size = ref.size
         /\ Exploration(ref, Minimaxes, deepness, board', frames', result')
  <1> DEFINE n == Len(frames)
             top == Last(frames)
             move == FirstOf(top.moves)
             frame == [top EXCEPT !.move = move, !.moves = @ \ {move}]
             fs == Append(Front(frames), frame)
             b == Push(board, move)
  <1>1. PICK h \in [Nat -> BoardRecord] : Waiting(ref, Minimaxes, deepness, h, board, frames)
    BY DEF IInv, SearchInv, Try, Exploration
  <1>2. /\ frames \in Seq(Frame) /\ frames # <<>> /\ n \in Nat /\ n >= 1
        /\ top = frames[n] /\ top \in Frame /\ top.moves # {}
        /\ board \in BoardRecord /\ Plain(board) = Plain(h[n]) /\ h[n] \in BoardRecord
        /\ top.moves \subseteq LegalMoves(h[n])
    <2>1. frames \in Seq(Frame) /\ frames # <<>> /\ n \in Nat /\ n >= 1
      BY <1>1, LenProperties, EmptySeq DEF Waiting, Linked
    <2>2. top = frames[n] /\ frames[n] \in Frame
      BY <2>1, ElementOfSeq DEF Last
    <2> QED BY <1>1, <2>1, <2>2 DEF Waiting, Linked, IInv, BoardsInv, Sound
  <1>3. LegalMoves(board) = LegalMoves(h[n]) /\ Sound(board) /\ Sound(h[n])
    BY <1>2, PlainSame DEF IInv, BoardsInv
  <1>4. move \in top.moves /\ move \in LegalMoves(board) /\ move \in Int \X Int
    BY <1>2, <1>3, FirstIsOne, MovesAreCells
  <1> HIDE DEF move
  <1>5. /\ frame \in Frame /\ frame.move = move /\ frame.moves = top.moves \ {move}
        /\ frame.deepness = top.deepness /\ frame.value = top.value
        /\ frame.alpha = top.alpha /\ frame.beta = top.beta
    BY <1>2, <1>4 DEF Frame
  <1> HIDE DEF frame
  <1>6. /\ fs \in Seq(Frame) /\ Len(fs) = n /\ fs[n] = frame
        /\ \A k \in 1 .. n - 1 : fs[k] = frames[k]
    <2>1. /\ Front(frames) \in Seq(Frame) /\ Len(Front(frames)) = n - 1
          /\ \A k \in 1 .. n - 1 : Front(frames)[k] = frames[k]
      BY <1>2, FrontFacts
    <2> QED BY <1>2, <1>5, <2>1, AppendProperties
  <1> HIDE DEF fs
  <1> DEFINE g == [h EXCEPT ![n + 1] = Push(h[n], move)]
  <1>7. /\ Sound(b) /\ b.size = ref.size /\ b \in BoardRecord
        /\ Push(h[n], move) \in BoardRecord
    BY <1>2, <1>3, <1>4, PushSound DEF IInv, BoardsInv, Sound
  <1>8. /\ g \in [Nat -> BoardRecord] /\ g[n + 1] = Push(h[n], move)
        /\ \A k \in 1 .. n : g[k] = h[k]
    BY <1>2, <1>7
  <1> HIDE DEF g
  <1>9. Linked(ref, g, fs, n)
    <2>1. g[1] = ref
      BY <1>1, <1>2, <1>8 DEF Waiting, Linked
    <2>2. ASSUME NEW k \in 1 .. n
          PROVE  Sound(g[k]) /\ g[k].size = ref.size /\ fs[k].moves \subseteq LegalMoves(g[k])
      <3>1. CASE k = n
        BY <1>1, <1>2, <1>5, <1>6, <1>8, <3>1 DEF Waiting, Linked
      <3>2. CASE k # n
        <4>1. k \in 1 .. n - 1
          BY <1>2, <3>2
        <4> QED BY <1>1, <1>6, <1>8, <4>1 DEF Waiting, Linked
      <3> QED BY <3>1, <3>2
    <2>3. ASSUME NEW k \in 1 .. n
          PROVE  fs[k].move \in LegalMoves(g[k]) /\ g[k + 1] = Push(g[k], fs[k].move)
      <3>1. CASE k = n
        BY <1>2, <1>3, <1>4, <1>5, <1>6, <1>8, <3>1
      <3>2. CASE k # n
        <4>1. k \in 1 .. n - 1 /\ k + 1 \in 1 .. n
          BY <1>2, <3>2
        <4> QED BY <1>1, <1>6, <1>8, <4>1 DEF Waiting, Linked
      <3> QED BY <3>1, <3>2
    <2> QED BY <1>6, <1>8, <2>1, <2>2, <2>3 DEF Linked
  <1>10. Plain(b) = Plain(g[n + 1])
    BY <1>2, <1>8, PushPlain
  <1>11. deepness \in Nat /\ SureAt(Minimaxes, deepness, h, frames, n - 1, n)
    BY <1>1, <1>2 DEF Waiting, Exact, IInv, SearchInv
  <1>12. SureAt(Minimaxes, deepness, g, fs, n, n)
    <2>1. Tried(h, frames, n - 1, n) = Tried(g, fs, n, n)
      BY <1>2, <1>4, <1>5, <1>6, <1>8 DEF Tried
    <2>2. Low(fs, n) = Low(frames, n) /\ High(fs, n) = High(frames, n)
      <3>1. n = 1 \/ n - 1 \in 1 .. n - 1
        <4>1. n \in Nat /\ n >= 1
          BY <1>2
        <4> HIDE DEF n
        <4> QED BY <4>1
      <3> QED BY <1>6, <3>1 DEF Low, High
    <2> QED BY <1>2, <1>5, <1>6, <1>8, <1>11, <2>1, <2>2 DEF SureAt, Sure
  <1>13. Exact(Minimaxes, deepness, g, fs, n)
    <2> SUFFICES ASSUME NEW k \in 1 .. n PROVE SureAt(Minimaxes, deepness, g, fs, n, k)
      BY <1>6 DEF Exact
    <2>1. CASE k = n
      BY <1>12, <2>1
    <2>2. CASE k # n
      <3>1. /\ k \in Nat \ {0} /\ k \in 1 .. n - 1 /\ (k # 1 => k - 1 \in 1 .. n - 1)
            /\ (k <= n <=> k <= n - 1) /\ k \in 1 .. n
        BY <1>2, <2>2
      <3>2. SureAt(Minimaxes, deepness, h, frames, n - 1, k)
        BY <1>1, <1>2, <3>1 DEF Waiting, Exact
      <3>3. g[k] = h[k] /\ fs[k] = frames[k] /\ (k # 1 => fs[k - 1] = frames[k - 1])
        BY <1>6, <1>8, <3>1
      <3> QED BY <3>1, <3>2, <3>3, SureAtSame
    <2> QED BY <2>1, <2>2
  <1>14. /\ top.deepness - 1 \in Nat /\ top.deepness - 1 = deepness - n
         /\ top.alpha = Low(fs, n + 1) /\ top.beta = High(fs, n + 1)
         /\ top.alpha \in Int /\ top.beta \in Int
         /\ -Inf <= top.alpha /\ top.alpha < top.beta /\ top.beta <= Inf
    <2>1. top.alpha \in Int /\ top.beta \in Int /\ top.deepness \in Int
      BY <1>2 DEF Frame
    <2>2. Low(frames, n) \in Int /\ High(frames, n) \in Int
      <3>1. n \in 1 .. Len(frames) + 1
        BY <1>2
      <3> QED BY <1>2, <3>1, WindowType
    <2>3. -Inf <= top.alpha /\ top.alpha < top.beta /\ top.beta <= Inf
      BY <1>2, <1>11, <2>2, SureWindow DEF SureAt
    <2>4. top.deepness > 0 /\ top.deepness = deepness - n + 1
      BY <1>2, <1>11 DEF SureAt, Sure
    <2>5. top.alpha = Low(fs, n + 1) /\ top.beta = High(fs, n + 1)
      <3>1. n + 1 # 1 /\ n + 1 - 1 = n
        BY <1>2
      <3> QED BY <1>5, <1>6, <3>1 DEF Low, High
    <2>6. top.deepness - 1 \in Nat /\ top.deepness - 1 = deepness - n
      BY <1>2, <1>11, <2>1, <2>4
    <2> QED BY <2>1, <2>3, <2>5, <2>6
  <1> HIDE DEF b
  <1>15. Call(b, top.deepness - 1, top.alpha, top.beta, fs)
    BY DEF Try, b, fs, frame, move
  <1>16. fs # <<>>
    BY <1>2, <1>6
  <1>17. ref.nextPlayer \in Player /\ SearchInv
    BY DEF IInv, BoardsInv, Sound, BoardRecord
  <1>18. Solves(Minimaxes, heuristic[Turn], Turn, ref.size)
    BY MinimaxesSolve
  <1> HIDE DEF top, n
  <1>19. board' = b /\ Exploration(ref, Minimaxes, deepness, board', frames', result')
    BY <1>2, <1>6, <1>7, <1>8, <1>9, <1>10, <1>13, <1>14, <1>15, <1>16, <1>17, <1>18, CallExplores
  <1> QED BY <1>7, <1>19

(* A caller takes the value of the call below and pops its move, whatever    *)
(* the cut. (CR_ai.py:47-83)                                                 *)
LEMMA BackExplores ==
  ASSUME IInv, Back
  PROVE  /\ Sound(board') /\ board'.size = ref.size
         /\ Exploration(ref, Minimaxes, deepness, board', frames', result')
  <1> DEFINE n == Len(frames)
             top == Last(frames)
             value == IF IsMin(top) THEN Smaller(top.value, result.value)
                                    ELSE Greater(top.value, result.value)
             alpha == IF IsMin(top) THEN top.alpha ELSE Greater(top.alpha, value)
             beta == IF IsMin(top) THEN Smaller(top.beta, value) ELSE top.beta
             cut == IF IsMin(top) THEN value <= top.alpha ELSE top.beta <= value
             frame == [top EXCEPT !.value = value, !.alpha = alpha, !.beta = beta]
  <1>1. PICK h \in [Nat -> BoardRecord] : Returned(ref, Minimaxes, deepness, h, board, frames, result)
    BY DEF IInv, SearchInv, Back, Exploration
  <1>2. /\ frames \in Seq(Frame) /\ frames # <<>> /\ n \in Nat /\ n >= 1
        /\ top = frames[n] /\ top \in Frame /\ result \in Result
        /\ board \in BoardRecord /\ Plain(board) = Plain(h[n + 1]) /\ h[n] \in BoardRecord
        /\ h[n + 1] = Push(h[n], top.move) /\ top.move \in LegalMoves(h[n])
        /\ h[n + 1] \in BoardRecord
    <2>1. frames \in Seq(Frame) /\ frames # <<>> /\ n \in Nat /\ n >= 1
      BY <1>1, LenProperties, EmptySeq DEF Returned, Linked, Back
    <2>2. top = frames[n] /\ frames[n] \in Frame
      BY <2>1, ElementOfSeq DEF Last
    <2> QED BY <1>1, <2>1, <2>2 DEF Returned, Linked, IInv, BoardsInv, Sound
  <1>3. Sound(h[n])
    BY <1>1, <1>2 DEF Returned, Linked
  <1>4. board' = Pop(board) /\ Pop(board) \in BoardRecord /\ Plain(Pop(board)) = Plain(h[n])
    BY <1>2, <1>3, PopUndoesPush DEF Back
  <1>5. Sound(board') /\ board'.size = ref.size
    <2>1. h[n].size = ref.size
      BY <1>1, <1>2 DEF Returned, Linked
    <2>2. board'.size = h[n].size
      BY <1>4 DEF Plain
    <2> QED BY <1>2, <1>3, <1>4, <2>1, <2>2, PlainSame
  <1>6. value \in Int /\ alpha \in Int /\ beta \in Int
    <2>1. /\ top.value \in Int /\ result.value \in Int
          /\ top.alpha \in Int /\ top.beta \in Int
      BY <1>2 DEF Frame, Result
    <2>2. value \in Int
      BY <2>1 DEF Smaller, Greater
    <2> HIDE DEF value
    <2> QED BY <2>1, <2>2 DEF Smaller, Greater
  <1> DEFINE depth == deepness - n + 1
             tried == Tried(h, frames, n, n)
             low == Low(frames, n)
             high == High(frames, n)
             c == Below(Minimaxes, deepness, h[n], depth)
  <1>7. /\ deepness \in Nat /\ depth \in Nat /\ depth > 0 /\ top.deepness = depth
        /\ ~IsGameOver(h[n]) /\ low \in Int /\ high \in Int
        /\ Sure(Minimaxes, deepness, h[n], depth, low, high, top, tried)
        /\ (IsMin(top) <=> ~Mine(deepness, depth))
    <2>1. deepness \in Nat /\ SureAt(Minimaxes, deepness, h, frames, n, n)
      BY <1>1, <1>2 DEF Returned, Exact, IInv, SearchInv
    <2>2. n \in 1 .. Len(frames) + 1
      BY <1>2
    <2>3. low \in Int /\ high \in Int
      BY <1>2, <2>2, WindowType
    <2>4. Sure(Minimaxes, deepness, h[n], depth, low, high, top, tried)
      BY <1>2, <2>1 DEF SureAt
    <2>5. depth > 0 /\ top.deepness = depth /\ ~IsGameOver(h[n])
      BY <2>4 DEF Sure
    <2>6. depth \in Nat
      BY <1>2, <2>1, <2>5
    <2> HIDE DEF depth
    <2> QED BY <2>1, <2>3, <2>4, <2>5, <2>6 DEF IsMin, Mine
  <1>8. /\ Value(Minimaxes, deepness, h[n], depth) \in Int
        /\ c \in [LegalMoves(h[n]) -> Int]
        /\ IsBest(Mine(deepness, depth), Value(Minimaxes, deepness, h[n], depth),
                  LegalMoves(h[n]), c)
    <2>1. h[n].size = ref.size
      BY <1>1, <1>2 DEF Returned, Linked
    <2> HIDE DEF depth, n
    <2>2. Valued(Minimaxes, heuristic[Turn], Turn, deepness, h[n], depth)
      BY <1>3, <1>7, <2>1, MinimaxesSolve, NodeValue
    <2> QED BY <1>7, <2>2 DEF Valued
  <1>9. Within(result.value, c[top.move], top.alpha, top.beta)
    <2>1. Within(result.value, Value(Minimaxes, deepness, h[n + 1], deepness - n),
                 Low(frames, n + 1), High(frames, n + 1))
      BY <1>1 DEF Returned, Stands
    <2>2. Low(frames, n + 1) = top.alpha /\ High(frames, n + 1) = top.beta
      <3>1. n + 1 # 1 /\ n + 1 - 1 = n
        BY <1>2
      <3> QED BY <1>2, <3>1 DEF Low, High
    <2>3. depth - 1 = deepness - n
      BY <1>2, <1>7
    <2>4. c[top.move] = Value(Minimaxes, deepness, h[n + 1], deepness - n)
      BY <1>2, <2>3 DEF Below
    <2> QED BY <2>1, <2>2, <2>4
  <1>10. /\ value = IF Mine(deepness, depth) THEN Greater(top.value, result.value)
                                            ELSE Smaller(top.value, result.value)
         /\ alpha = IF Mine(deepness, depth) THEN Greater(top.alpha, value) ELSE top.alpha
         /\ beta = IF Mine(deepness, depth) THEN top.beta ELSE Smaller(top.beta, value)
         /\ cut <=> IF Mine(deepness, depth) THEN top.beta <= value ELSE value <= top.alpha
    <2> HIDE DEF depth
    <2> QED BY <1>7
  <1>11. result.value \in Int /\ tried \in SUBSET LegalMoves(h[n])
    BY <1>2 DEF Result, Tried
  <1> HIDE DEF value, alpha, beta, cut
  <1>12. frame \in Frame /\ frame.moves = top.moves /\ frame.move = top.move
         /\ frame.deepness = top.deepness /\ frame.value = value
         /\ frame.alpha = alpha /\ frame.beta = beta
    <2> DEFINE f1 == [top EXCEPT !.value = value]
               f2 == [f1 EXCEPT !.alpha = alpha]
               f3 == [f2 EXCEPT !.beta = beta]
    <2>1. frame = f3
      OBVIOUS
    <2>2. /\ f1 \in Frame /\ f1.moves = top.moves /\ f1.move = top.move
          /\ f1.deepness = top.deepness /\ f1.value = value
      BY <1>2, <1>6 DEF Frame
    <2> HIDE DEF f1
    <2>3. /\ f2 \in Frame /\ f2.moves = top.moves /\ f2.move = top.move
          /\ f2.deepness = top.deepness /\ f2.value = value /\ f2.alpha = alpha
      BY <1>6, <2>2 DEF Frame
    <2> HIDE DEF f2
    <2>4. /\ f3 \in Frame /\ f3.moves = top.moves /\ f3.move = top.move
          /\ f3.deepness = top.deepness /\ f3.value = value /\ f3.alpha = alpha /\ f3.beta = beta
      BY <1>6, <2>3 DEF Frame
    <2> QED BY <2>1, <2>4
  <1> HIDE DEF frame
  <1> DEFINE now == tried \cup {top.move}
  <1>13. Taken(Minimaxes, deepness, h[n], depth, low, high, top, frame, now)
    <2> HIDE DEF depth, tried, low, high, c
    <2>1. /\ frame.deepness = top.deepness /\ frame.value = value
          /\ frame.alpha = IF Mine(deepness, depth) THEN Greater(top.alpha, value) ELSE top.alpha
          /\ frame.beta = IF Mine(deepness, depth) THEN top.beta ELSE Smaller(top.beta, value)
      BY <1>10, <1>12
    <2>2. value = IF Mine(deepness, depth) THEN Greater(top.value, result.value)
                                           ELSE Smaller(top.value, result.value)
      BY <1>10
    <2>3. /\ Below(Minimaxes, deepness, h[n], depth) \in [LegalMoves(h[n]) -> Int]
          /\ Within(result.value, Below(Minimaxes, deepness, h[n], depth)[top.move],
                    top.alpha, top.beta)
      BY <1>8, <1>9 DEF c
    <2> HIDE DEF n, top
    <2> QED BY <1>2, <1>6, <1>7, <1>11, <2>1, <2>2, <2>3, BackSure
  <1>14. /\ ~cut => Sure(Minimaxes, deepness, h[n], depth, low, high, frame, now)
         /\ cut \/ LegalMoves(h[n]) \subseteq now =>
              Within(value, Value(Minimaxes, deepness, h[n], depth), low, high)
    <2> HIDE DEF depth, tried, low, high, now
    <2> QED BY <1>8, <1>10, <1>12, <1>13 DEF Taken, c
  <1>15. /\ LegalMoves(h[n]) \ top.moves \subseteq now
         /\ now \subseteq LegalMoves(h[n])
    BY <1>2 DEF Tried
  <1>16. ASSUME NEW k \in 1 .. n - 1, NEW fs, \A i \in 1 .. n - 1 : fs[i] = frames[i]
         PROVE  SureAt(Minimaxes, deepness, h, fs, n - 1, k)
    <2>1. /\ k \in Nat \ {0} /\ k \in 1 .. n /\ (k # 1 => k - 1 \in 1 .. n - 1)
          /\ (k <= n - 1 <=> k <= n)
      BY <1>2
    <2>2. SureAt(Minimaxes, deepness, h, frames, n, k)
      BY <1>1, <2>1 DEF Returned, Exact
    <2>3. fs[k] = frames[k] /\ (k # 1 => fs[k - 1] = frames[k - 1])
      BY <1>16, <2>1
    <2> HIDE DEF n
    <2> QED BY <2>1, <2>2, <2>3, SureAtSame
  <1>17. CASE cut \/ top.moves = {}
    <2>1. result' = [value |-> value, move |-> top.move] /\ frames' = Front(frames)
      BY <1>17 DEF Back, Return, cut, value
    <2>2. result' \in Result /\ result'.move = top.move /\ result'.value = value
      BY <1>2, <1>6, <2>1 DEF Result, Frame
    <2>3. result' # None
      BY <2>2, GameAssumption DEF Result
    <2>4. /\ frames' \in Seq(Frame) /\ Len(frames') = n - 1
          /\ \A k \in 1 .. n - 1 : frames'[k] = frames[k]
      BY <1>2, <2>1, FrontFacts
    <2>5. frames' = <<>> => result'.move \in LegalMoves(ref)
      <3> SUFFICES ASSUME frames' = <<>> PROVE result'.move \in LegalMoves(ref)
        OBVIOUS
      <3>1. n = 1
        BY <1>2, <2>4, EmptySeq
      <3> QED BY <1>1, <1>2, <2>2, <3>1 DEF Returned, Linked
    <2>6. Linked(ref, h, frames', n - 1)
      BY <1>1, <1>2, <2>4 DEF Returned, Linked
    <2>7. Exact(Minimaxes, deepness, h, frames', n - 1)
      <3> HIDE DEF n
      <3> QED BY <1>16, <2>4 DEF Exact
    <2>8. Stands(Minimaxes, deepness, h, frames', result'.value)
      <3>1. Within(value, Value(Minimaxes, deepness, h[n], depth), low, high)
        BY <1>14, <1>15, <1>17
      <3>2. n - 1 \in Nat /\ n - 1 + 1 = n /\ deepness - (n - 1) = depth
        BY <1>2, <1>7
      <3>3. Low(frames', n) = low /\ High(frames', n) = high
        <4>1. n = 1 \/ n - 1 \in 1 .. n - 1
          <5>1. n \in Nat /\ n >= 1
            BY <1>2
          <5> HIDE DEF n
          <5> QED BY <5>1
        <4> QED BY <2>4, <4>1 DEF Low, High
      <3> HIDE DEF depth, low, high, n
      <3> QED BY <2>2, <2>4, <3>1, <3>2, <3>3 DEF Stands
    <2>9. Len(frames') + 1 = n
      BY <1>2, <2>4
    <2>10. Returned(ref, Minimaxes, deepness, h, board', frames', result')
      <3> HIDE DEF n
      <3> QED BY <1>2, <1>4, <2>2, <2>4, <2>5, <2>6, <2>7, <2>8, <2>9 DEF Returned
    <2> QED BY <1>5, <2>3, <2>10 DEF Exploration
  <1>18. CASE ~(cut \/ top.moves = {})
    <2>1. result' = None /\ frames' = [frames EXCEPT ![n] = frame]
      BY <1>18 DEF Back, frame, value, alpha, beta, cut
    <2>2. /\ frames' \in Seq(Frame) /\ Len(frames') = n /\ frames'[n] = frame
          /\ \A k \in 1 .. n - 1 : frames'[k] = frames[k]
      BY <1>2, <1>12, <2>1, ExceptSeq
    <2>3. Linked(ref, h, frames', n - 1)
      <3>1. ASSUME NEW k \in 1 .. n
            PROVE  /\ Sound(h[k]) /\ h[k].size = ref.size
                   /\ frames'[k].moves \subseteq LegalMoves(h[k])
        <4>1. k = n \/ k \in 1 .. n - 1
          BY <1>2
        <4> QED BY <1>1, <1>2, <1>12, <2>2, <4>1 DEF Returned, Linked
      <3> QED BY <1>1, <1>2, <2>2, <3>1 DEF Returned, Linked
    <2>4. SureAt(Minimaxes, deepness, h, frames', n - 1, n)
      <3>1. Sure(Minimaxes, deepness, h[n], depth, low, high, frame, now)
        BY <1>14, <1>18
      <3>2. Low(frames', n) = low /\ High(frames', n) = high
        <4>1. n = 1 \/ n - 1 \in 1 .. n - 1
          <5>1. n \in Nat /\ n >= 1
            BY <1>2
          <5> HIDE DEF n
          <5> QED BY <5>1
        <4> QED BY <2>2, <4>1 DEF Low, High
      <3>3. Tried(h, frames', n - 1, n) \subseteq now
        <4>1. Tried(h, frames', n - 1, n) = LegalMoves(h[n]) \ top.moves
          <5>1. ~(n <= n - 1)
            BY <1>2
          <5> QED BY <1>12, <2>2, <5>1 DEF Tried
        <4> QED BY <1>15, <4>1
      <3>4. Sure(Minimaxes, deepness, h[n], depth, low, high, frame, Tried(h, frames', n - 1, n))
        <4> HIDE DEF depth, low, high, now, n
        <4> QED BY <3>1, <3>3 DEF Sure, SureMax, SureMin
      <3> QED BY <2>2, <3>2, <3>4 DEF SureAt
    <2>5. Exact(Minimaxes, deepness, h, frames', n - 1)
      <3>1. \A k \in 1 .. n : k = n \/ k \in 1 .. n - 1
        BY <1>2
      <3> HIDE DEF n
      <3> QED BY <1>16, <2>2, <2>4, <3>1 DEF Exact
    <2>6. Waiting(ref, Minimaxes, deepness, h, board', frames')
      BY <1>2, <1>4, <1>12, <1>18, <2>2, <2>3, <2>5 DEF Waiting
    <2> QED BY <1>5, <2>1, <2>6 DEF Exploration
  <1> QED BY <1>5, <1>17, <1>18

-----------------------------------------------------------------------------
(* The game starts in the invariant.                                         *)
LEMMA InitInv == Init => IInv
  <1> SUFFICES ASSUME Init PROVE IInv
    OBVIOUS
  <1>1. PICK size \in DOMAIN MaxMoves :
          ref = NewBoard(size) /\ own = [p \in Player |-> NewBoard(size)] /\ board = NewBoard(size)
    BY DEF Init
  <1>2. size \in Nat \ {0, 1}
    BY GameAssumption
  <1>3. BoardsInv
    BY <1>1, <1>2, NewBoardSound DEF BoardsInv, Init
  <1>4. SearchInv
    BY GameAssumption DEF SearchInv, Init, Kinds
  <1> QED BY <1>3, <1>4 DEF IInv

(* The players' moves: the referee and the two players push the same legal   *)
(* move. (CR_Player.py:23-42, localGame.py:26-54)                            *)
LEMMA AnswerInv ==
  ASSUME IInv, Answer
  PROVE  IInv'
  <1>1. /\ phase = "answer" /\ Sound(ref) /\ ~IsGameOver(ref) /\ best \in LegalMoves(ref)
        /\ own = [p \in Player |-> ref] /\ ref.nextPlayer \in Player
    BY DEF IInv, BoardsInv, SearchInv, Answer, Sound, BoardRecord
  <1>2. IsValidMove(ref, Turn, best)
    <2>1. Pass \notin ValidCells(ref, Turn)
      <3>1. DOMAIN ref.board = Cell(ref.size) /\ ref.size \in Nat
        BY <1>1 DEF Sound, BoardRecord
      <3>2. Pass \notin Cell(ref.size)
        BY <3>1 DEF Pass, Cell
      <3> QED BY <3>1, <3>2 DEF ValidCells
    <2> QED BY <1>1, <2>1 DEF IsValidMove, LegalMoves, AtLeastOneLegalMove, Turn
  <1>3. /\ phase' = "referee" /\ ref' = Push(ref, best)
        /\ own' = [p \in Player |-> IF IsGameOver(own[p]) THEN own[p] ELSE Push(own[p], best)]
    <2>1. own[Flip(Turn)] = ref
      BY <1>1, FlipFacts DEF Turn
    <2> QED BY <1>2, <2>1 DEF Answer
  <1>4. own' = [p \in Player |-> ref']
    BY <1>1, <1>3
  <1>5. Sound(ref') /\ ref'.size = ref.size
    BY <1>1, <1>3, PushSound
  <1>6. UNCHANGED <<heuristic, search>>
    BY DEF Answer
  <1>7. BoardsInv'
    BY <1>3, <1>4, <1>5, <1>6 DEF IInv, BoardsInv, search
  <1>8. SearchInv'
    BY <1>3, <1>5, <1>6 DEF IInv, SearchInv, search
  <1> QED BY <1>7, <1>8 DEF IInv

(* A step of the search keeps the invariant, when its board does.            *)
LEMMA ExploreInv ==
  ASSUME IInv, phase' = "explore", deepness > 0, best \in LegalMoves(ref), ~IsGameOver(ref),
         UNCHANGED <<ref, own, heuristic, deepness, best>>,
         deepness <= LastDepth - Len(ref.stack), Sound(board'), board'.size = ref.size,
         Exploration(ref, Minimaxes, deepness, board', frames', result')
  PROVE  IInv'
  <1>1. BoardsInv'
    BY DEF IInv, BoardsInv
  <1>2. Minimaxes' = Minimaxes
    BY DEF Minimaxes, Turn
  <1>3. SearchInv'
    BY <1>2 DEF IInv, SearchInv
  <1> QED BY <1>1, <1>3 DEF IInv

(* Every step keeps the invariant.                                           *)
LEMMA StepInv == IInv /\ [Next]_vars => IInv'
  <1> SUFFICES ASSUME IInv, [Next]_vars PROVE IInv'
    OBVIOUS
  <1>1. /\ own = [p \in Player |-> ref] /\ ref.nextPlayer \in Player /\ own[Turn] = ref
        /\ Sound(ref) /\ ref \in BoardRecord
    BY DEF IInv, BoardsInv, Sound, BoardRecord, Turn
  <1>2. CASE AskMove
    <2>1. /\ ~IsGameOver(ref) /\ phase' = "deepen" /\ deepness' = StartDepth
          /\ best' \in LegalMoves(ref)
          /\ UNCHANGED <<ref, own, heuristic, board, frames, result>>
      BY <1>1, <1>2 DEF AskMove
    <2>2. best' \in Cell(ref.size) \cup {Pass}
      BY <1>1, <2>1, MovesAreCells
    <2>3. BoardsInv'
      BY <2>1 DEF IInv, BoardsInv
    <2>4. SearchInv'
      BY <2>1, <2>2, GameAssumption DEF IInv, SearchInv
    <2> QED BY <2>3, <2>4 DEF IInv
  <1>3. CASE EndOfGame
    BY <1>3 DEF IInv, BoardsInv, SearchInv, EndOfGame, search
  <1>4. CASE NextDepth
    <2>1. /\ SearchInv /\ deepness > 0 /\ deepness \in Int /\ best \in LegalMoves(ref)
          /\ ~IsGameOver(ref) /\ Inf \in Int /\ -Inf \in Int /\ deepness \in Nat
          /\ -Inf <= -Inf /\ -Inf < Inf /\ Inf <= Inf
      BY <1>4, GameAssumption DEF IInv, SearchInv, NextDepth
    <2> DEFINE h == [k \in Nat |-> ref]
    <2>2. h \in [Nat -> BoardRecord] /\ h[1] = ref
      BY <1>1
    <2> HIDE DEF h
    <2>3. <<>> \in Seq(Frame) /\ Len(<<>>) = 0
      OBVIOUS
    <2>4. /\ Linked(ref, h, <<>>, 0) /\ Plain(ref) = Plain(h[0 + 1])
          /\ Exact(Minimaxes, deepness, h, <<>>, 0)
      BY <2>2, <2>3 DEF Linked, Exact
    <2>5. Call(ref, deepness, -Inf, Inf, <<>>) /\ deepness <= LastDepth - Len(ref.stack)
      BY <1>1, <1>4 DEF NextDepth
    <2>6. -Inf = Low(<<>>, 0 + 1) /\ Inf = High(<<>>, 0 + 1)
      BY DEF Low, High
    <2>7. deepness = deepness - 0 /\ 0 \in Nat /\ 0 = Len(<<>>)
      BY <2>1, <2>3
    <2>8. Solves(Minimaxes, heuristic[Turn], Turn, ref.size)
      BY MinimaxesSolve
    <2>9. board' = ref /\ Exploration(ref, Minimaxes, deepness, board', frames', result')
      BY <1>1, <2>1, <2>2, <2>4, <2>5, <2>6, <2>7, <2>8, CallExplores
    <2> QED BY <1>1, <1>4, <2>1, <2>5, <2>9, ExploreInv DEF NextDepth
  <1>5. CASE AllDepthsDone
    BY <1>5 DEF IInv, BoardsInv, SearchInv, AllDepthsDone, search
  <1>6. CASE Try
    <2>1. /\ phase' = "explore" /\ deepness > 0 /\ best \in LegalMoves(ref) /\ ~IsGameOver(ref)
          /\ deepness <= LastDepth - Len(ref.stack)
          /\ UNCHANGED <<ref, own, heuristic, deepness, best>>
      BY <1>6 DEF IInv, SearchInv, Try
    <2> QED BY <1>6, <2>1, TryExplores, ExploreInv
  <1>7. CASE TimeIsUp
    <2>1. /\ phase' = "answer" /\ board' = ref /\ best \in LegalMoves(ref) /\ ~IsGameOver(ref)
          /\ UNCHANGED <<ref, own, heuristic, deepness, best>>
      BY <1>1, <1>7 DEF IInv, SearchInv, TimeIsUp
    <2> QED BY <1>1, <2>1 DEF IInv, BoardsInv, SearchInv
  <1>8. CASE Back
    <2>1. /\ phase' = "explore" /\ deepness > 0 /\ best \in LegalMoves(ref) /\ ~IsGameOver(ref)
          /\ deepness <= LastDepth - Len(ref.stack)
          /\ UNCHANGED <<ref, own, heuristic, deepness, best>>
      BY <1>8 DEF IInv, SearchInv, Back
    <2> QED BY <1>8, <2>1, BackExplores, ExploreInv
  <1>9. CASE DepthDone
    <2>1. PICK h \in [Nat -> BoardRecord] : Returned(ref, Minimaxes, deepness, h, board, frames, result)
      BY <1>9 DEF IInv, SearchInv, Exploration, DepthDone
    <2>2. /\ best' \in LegalMoves(ref) /\ ~IsGameOver(ref)
          /\ deepness' = deepness + 1 /\ phase' = "deepen" /\ deepness \in Nat
          /\ UNCHANGED <<ref, own, heuristic, board, frames>>
      BY <1>9, <2>1 DEF DepthDone, Returned, IInv, SearchInv
    <2>3. best' \in Cell(ref.size) \cup {Pass}
      BY <1>1, <2>2, MovesAreCells
    <2>4. BoardsInv'
      BY <2>2 DEF IInv, BoardsInv
    <2>5. SearchInv'
      BY <2>2, <2>3 DEF IInv, SearchInv
    <2> QED BY <2>4, <2>5 DEF IInv
  <1>10. CASE Answer
    BY <1>10, AnswerInv
  <1>11. CASE UNCHANGED vars
    <2>1. UNCHANGED <<ref, own, heuristic, phase, deepness, best, board, frames, result>>
      BY <1>11 DEF vars
    <2>2. Minimaxes' = Minimaxes
      BY <2>1 DEF Minimaxes, Turn
    <2>3. BoardsInv'
      BY <2>1 DEF IInv, BoardsInv
    <2>4. SearchInv'
      BY <2>1, <2>2 DEF IInv, SearchInv
    <2> QED BY <2>3, <2>4 DEF IInv
  <1> QED BY <1>2, <1>3, <1>4, <1>5, <1>6, <1>7, <1>8, <1>9, <1>10, <1>11 DEF Next

(* IInv is an invariant of the game.                                         *)
THEOREM Invariant == Spec => []IInv
  BY InitInv, StepInv, PTL DEF Spec

-----------------------------------------------------------------------------
(* The referee's board and the players' stay the same and no move is         *)
(* refused, wherever the clock stopped the searches.                         *)
THEOREM TheBoardsAgree == Spec => []BoardsAgree
  <1>1. IInv => BoardsAgree
    <2> SUFFICES ASSUME IInv PROVE BoardsAgree
      OBVIOUS
    <2>1. \A p \in Player : own[p] = ref
      BY DEF IInv, BoardsInv
    <2>2. \A b \in Boards : Sound(b) /\ b.size = ref.size
      BY <2>1 DEF IInv, BoardsInv, Boards
    <2>3. Player \cup {EMPTY} = 0 .. 2
      BY DEF Player, EMPTY, BLACK, WHITE
    <2>4. TypeOK
      BY <2>2, <2>3 DEF IInv, BoardsInv, SearchInv, TypeOK, Sound, BoardRecord
    <2> QED BY <2>1, <2>4 DEF IInv, BoardsInv, BoardsAgree
  <1> QED BY <1>1, Invariant, PTL

(* The counters of pieces are right on every board, the explorer's in the    *)
(* middle of a search included.                                              *)
THEOREM TheCountersAreRight == Spec => []CountersAreRight
  <1>1. IInv => CountersAreRight
    BY DEF IInv, BoardsInv, Boards, CountersAreRight, Sound, Pieces
  <1> QED BY <1>1, Invariant, PTL

-----------------------------------------------------------------------------
(* A search that ends in time returns the minimax value: the window of the   *)
(* first call is that of all numbers, which no value exceeds.                *)
(* (README.md:12, CR_ai.py:24-83)                                            *)
LEMMA EndIsMinimax ==
  ASSUME IInv
  PROVE  ValueIsMinimax
  <1> SUFFICES ASSUME phase = "explore", result # None, frames = <<>>
               PROVE  /\ result.value = Minimaxes[deepness][<<Forget(own[Turn]), TRUE>>]
                      /\ Forget(board) = Forget(own[Turn])
    BY DEF ValueIsMinimax
  <1>1. PICK h \in [Nat -> BoardRecord] :
          Returned(ref, Minimaxes, deepness, h, board, frames, result)
    BY DEF IInv, SearchInv, Exploration
  <1>2. /\ Sound(ref) /\ ref \in BoardRecord /\ board \in BoardRecord /\ own[Turn] = ref
        /\ deepness \in Nat /\ deepness <= LastDepth - Len(ref.stack)
        /\ ref.size \in DOMAIN MaxMoves /\ result.value \in Int
    <2>1. Turn \in Player
      BY MinimaxesSolve
    <2> QED BY <1>1, <2>1 DEF IInv, BoardsInv, SearchInv, Sound, Returned, Result
  <1>3. Len(frames) = 0 /\ 0 + 1 = 1 /\ deepness - 0 = deepness
    BY <1>2
  <1>4. h[1] = ref
    BY <1>1 DEF Returned, Linked
  <1> DEFINE w == Value(Minimaxes, deepness, ref, deepness)
  <1>5. Within(result.value, w, -Inf, Inf)
    <2>1. Within(result.value, Value(Minimaxes, deepness, h[0 + 1], deepness - 0),
                 Low(frames, 0 + 1), High(frames, 0 + 1))
      BY <1>1, <1>3 DEF Returned, Stands
    <2> QED BY <1>3, <1>4, <2>1 DEF Low, High
  <1>6. w \in Int /\ -Inf <= w /\ w <= Inf
    <2>1. Valued(Minimaxes, heuristic[Turn], Turn, deepness, ref, deepness)
      BY <1>2, MinimaxesSolve, NodeValue
    <2>2. Height(ref) + deepness <= Inf
      <3>1. Height(ref) \in Nat /\ deepness <= LastDepth - Height(ref)
        BY <1>2, PushStack DEF Height
      <3>2. LastDepth \in Nat /\ Inf \in Nat /\ LastDepth <= Inf
        BY GameAssumption
      <3> QED BY <1>2, <3>1, <3>2
    <2>3. ScoresFit(ref.size)
      BY <1>2, GameAssumption DEF ScoresFit
    <2>4. \A depth \in Nat : \A b :
            Sound(b) /\ b.size = ref.size /\ Height(b) + depth <= Inf =>
              /\ -Inf <= Value(Minimaxes, deepness, b, depth)
              /\ Value(Minimaxes, deepness, b, depth) <= Inf
      BY <1>2, <2>3, MinimaxesSolve, ValuesBound
    <2>5. -Inf <= w /\ w <= Inf
      BY <1>2, <2>2, <2>4
    <2> QED BY <2>1, <2>5 DEF Valued
  <1>7. result.value = w
    <2>1. Inf \in Nat
      BY GameAssumption
    <2> HIDE DEF w
    <2> QED BY <1>2, <1>5, <1>6, <2>1 DEF Within
  <1>8. w = Minimaxes[deepness][<<Forget(own[Turn]), TRUE>>]
    <2>1. Mine(deepness, deepness) = TRUE
      BY DEF Mine
    <2> QED BY <1>2, <2>1 DEF Value
  <1>9. Forget(board) = Forget(own[Turn])
    <2>1. Plain(board) = Plain(ref)
      BY <1>1, <1>3, <1>4 DEF Returned
    <2> QED BY <1>2, <2>1, SamePosition
  <1> QED BY <1>7, <1>8, <1>9

(* alphabeta cuts without loss: a search that ends in time returns the value *)
(* that minimax without a cut gives the position, for every size of the      *)
(* board, every deepness and every heuristic, and has popped from its board  *)
(* all that it pushed. (README.md:12, CR_ai.py:24-83)                        *)
THEOREM SearchIsMinimax == Spec => []ValueIsMinimax
  <1>1. IInv => ValueIsMinimax
    BY EndIsMinimax
  <1> QED BY <1>1, Invariant, PTL
=============================================================================
