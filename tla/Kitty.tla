-------------------------------- MODULE Kitty --------------------------------
(***************************************************************************)
(* KittyWonderland: the turns of the game (src/game.c), the moves on the   *)
(* torus (src/board.c) and the effects of the cards (src/cards.c).         *)
(*                                                                         *)
(* An entity is its address: die frees it, puppy allocates one, which may  *)
(* be an address that was freed, and a friend keeps the address of its     *)
(* target whatever became of it.  `mem' holds what the addresses point to. *)
(*                                                                         *)
(* Mana is abstracted: a player may or may not have a card it can pay, a   *)
(* friend is `ready' when its mana reaches the cost of its card, and       *)
(* `regen' is FALSE when its mana_regen is 0.  The hands and the decks are *)
(* abstracted to the card that is played.  Life is counted in units of 5   *)
(* points, rounded up.                                                     *)
(***************************************************************************)
EXTENDS Integers, Sequences, FiniteSets, Functions, SequencesExt, FiniteSetsExt

CONSTANTS
  Addr,         \* addresses malloc gives: bounds the entities alive together
  NPlayers,     \* N_PLAYERS
  Rows, Columns, \* BOARD_SIZE, which need not be the same in a small instance
  PlayerRange,  \* PLAYER_MOVE_RANGE
  FriendRange,  \* FRIEND_MOVE_RANGE
  PlayerLife,   \* life of a player, in units
  MaxLife,      \* bound: panacea does not lift a life above it
  Lifespan,     \* turns a friend stays
  MaxTurns,     \* bound: turns played
  MaxStones,    \* bound: occupied cells that stone leaves
  FriendCards,  \* bound: the cards friends draw
  None

ASSUME KittyAssumption ==
  /\ NPlayers \in 2 .. Cardinality(Addr) /\ NPlayers <= Rows * Columns
  /\ IsFiniteSet(Addr)
  /\ {Rows, Columns, PlayerRange, FriendRange, Lifespan, MaxTurns} \subseteq Nat \ {0}
  /\ MaxLife \in Nat /\ PlayerLife \in 1 .. MaxLife
  /\ FriendCards \subseteq {"mind", "panacea", "razor", "hell", "stone", "puppy"}
  /\ None \notin Addr

VARIABLES
  mem,       \* what each address points to
  entities,  \* the addresses of the n_players + n_friends living entities
  board,     \* 1 where the cell is occupied
  cells,     \* the cell each entity chose, in move_entities
  i,         \* the index of the current loop
  phase,     \* the current loop of play_game
  turn,      \* n_turns
  winner     \* the entity declared at the end

vars == <<mem, entities, board, cells, i, phase, turn, winner>>

-----------------------------------------------------------------------------
Cell  == (0 .. Rows - 1) \X (0 .. Columns - 1)

\* Bound: the least life.  A panacea, one a turn, brings nobody back from it.
DeadForGood == -3

Entity == [type : {"player", "friend"}, life : DeadForGood .. MaxLife, pos : Cell, regen : BOOLEAN,
           ready : BOOLEAN, card : FriendCards \cup {None}, target : Addr \cup {None},
           lifespan : Int]

Alive == ToSet(entities)
Players == {e \in Alive : mem[e].type = "player"}
Friends == {e \in Alive : mem[e].type = "friend"}

Free(c) == board[c] = 0

\* The four neighbours of a cell; the edges meet (mod).
Neighbours(c) ==
  LET Shift(a, way, size) == (a + way + size) % size
  IN  {<<Shift(c[1], way, Rows), c[2]>> : way \in {-1, 1}}
        \cup {<<c[1], Shift(c[2], way, Columns)>> : way \in {-1, 1}}

\* find_reachable_cells: by at most `range' moves, each to a free cell.
Reachable(start, range) ==
  LET Reached[k \in Nat] ==
        IF k = 0 THEN {}
        ELSE LET before == Reached[k - 1]
             IN  before \cup {c \in UNION {Neighbours(d) : d \in before \cup {start}} : Free(c)}
  IN  {c \in Cell : c \in Reached[range]}

Distance(c, d) ==
  LET OneAxe(a, b, size) == LET gap == IF a > b THEN a - b ELSE b - a
                            IN  IF gap < size - gap THEN gap ELSE size - gap
  IN  OneAxe(c[1], d[1], Rows) + OneAxe(c[2], d[2], Columns)

-----------------------------------------------------------------------------
\* What a freed address points to: nothing that may be relied upon.
Freed == [type |-> "player", life |-> 0, pos |-> <<0, 0>>, regen |-> FALSE,
          ready |-> FALSE, card |-> None, target |-> None, lifespan |-> 0]

\* play_game up to its loop, with init_board; any addresses are as good, and
\* the torus looks the same from the cell of the first player.
Init ==
  /\ entities = CHOOSE players \in Injection(1 .. NPlayers, Addr) : TRUE
  /\ \E pos \in Injection(1 .. NPlayers, Cell) :
       /\ pos[1] = <<0, 0>>
       /\ board = [c \in Cell |-> IF c \in Range(pos) THEN 1 ELSE 0]
       /\ mem = [a \in Addr |->
            IF a \in ToSet(entities)
            THEN [Freed EXCEPT !.life = PlayerLife, !.regen = TRUE,
                               !.pos = pos[CHOOSE k \in 1 .. NPlayers : entities[k] = a]]
            ELSE Freed]
  /\ cells = <<>>
  /\ i = 1
  /\ phase = "choose"
  /\ turn = 1
  /\ winner = None

Goto(p) == phase' = p /\ i' = 1
Step == i' = i + 1 /\ UNCHANGED phase

InLoop(p) == phase = p /\ i <= Len(entities)
LoopEnds(p) == phase = p /\ i > Len(entities)

(***************************************************************************)
(* die(k): the friends whose target it was are left with a turn to live,   *)
(* its address is freed, the last entity takes its place.                  *)
(***************************************************************************)
\* MUTANT of Orphaned: the friends keep their regeneration of mana.
OrphanedArmed(dead) ==
  [a \in Addr |-> CASE a = dead -> Freed
                    [] a \in Friends \ {dead} /\ mem[a].target = dead ->
                         [mem[a] EXCEPT !.lifespan = 1, !.ready = FALSE]
                    [] OTHER -> mem[a]]

Orphaned(dead) ==
  [a \in Addr |-> CASE a = dead -> Freed
                    [] a \in Friends \ {dead} /\ mem[a].target = dead ->
                         [mem[a] EXCEPT !.lifespan = 1, !.ready = FALSE, !.regen = FALSE]
                    [] OTHER -> mem[a]]

\* MUTANT of Without: n_players and n_friends are not decremented.
StillCounted(k) == [j \in 1 .. Len(entities) |->
                      IF j = k THEN Last(entities) ELSE entities[j]]

Without(k) == [j \in 1 .. Len(entities) - 1 |->
                 IF j = k THEN Last(entities) ELSE entities[j]]

Die(k) ==
  /\ mem' = Orphaned(entities[k])
  /\ entities' = Without(k)

-----------------------------------------------------------------------------
(***************************************************************************)
(* move_entities, first loop: everyone chooses a cell on the board as it   *)
(* was at the start of the turn.                                           *)
(***************************************************************************)
Self == entities[i]

Choose(c) ==
  /\ cells' = Append(cells, c)
  /\ Step
  /\ UNCHANGED <<mem, entities, board, turn, winner>>

FriendStays == mem[Self].type = "friend" /\ (mem[Self].ready \/ ~mem[Self].regen)

StayHere ==
  /\ InLoop("choose") /\ FriendStays
  /\ Choose(mem[Self].pos)

PlayerChooses ==
  /\ InLoop("choose") /\ mem[Self].type = "player"
  /\ \E c \in Reachable(mem[Self].pos, PlayerRange) : Choose(c)

\* One of the reachable cells that are the closest to the target.
FriendChooses ==
  /\ InLoop("choose") /\ mem[Self].type = "friend" /\ ~FriendStays
  /\ LET reach  == Reachable(mem[Self].pos, FriendRange)
         target == mem[mem[Self].target].pos
     IN  \E c \in reach : /\ \A d \in reach : Distance(c, target) <= Distance(d, target)
                          /\ Choose(c)

\* No cell to go to: the entity dies, its cell stays occupied, and the index
\* is that of the entity that takes its place.
DieTrapped ==
  /\ InLoop("choose") /\ ~FriendStays
  /\ Reachable(mem[Self].pos, IF mem[Self].type = "player" THEN PlayerRange
                                                           ELSE FriendRange) = {}
  /\ Die(i)
  /\ UNCHANGED <<board, cells, i, phase, turn, winner>>

EndOfChoices ==
  /\ LoopEnds("choose")
  /\ Goto("move")
  /\ UNCHANGED <<mem, entities, board, cells, turn, winner>>

\* Second loop: an entity moves as soon as another one chose another cell.
MoveEntity ==
  /\ InLoop("move")
  /\ IF \E j \in 1 .. Len(entities) : j # i /\ cells[j] # cells[i]
     THEN /\ board' = [[board EXCEPT ![mem[Self].pos] = 0] EXCEPT ![cells[i]] = 1]
          /\ mem' = [mem EXCEPT ![Self].pos = cells[i]]
     ELSE UNCHANGED <<board, mem>>
  /\ Step
  /\ UNCHANGED <<entities, cells, turn, winner>>

\* move_entities can make players die: then nobody plays.
EndOfMoves ==
  /\ LoopEnds("move")
  /\ cells' = <<>>
  /\ Goto(IF Cardinality(Players) > 1 THEN "play" ELSE "display")
  /\ UNCHANGED <<mem, entities, board, turn, winner>>

-----------------------------------------------------------------------------
(***************************************************************************)
(* play_turn and apply_card: a player pays a card of its hand and takes    *)
(* anybody else for target, or has none it can pay; a friend plays its     *)
(* card on its target when it is ready, and may be ready again at once.    *)
(***************************************************************************)
Casts(card, target) ==
  CASE mem[Self].type = "player" -> target \in Alive \ {Self}
    [] mem[Self].type = "friend" -> /\ mem[Self].ready
                                    /\ card = mem[Self].card
                                    /\ target = mem[Self].target

\* The caster once it has paid.
Paid == IF mem[Self].type = "player" THEN {mem}
        ELSE {[mem EXCEPT ![Self].ready = ready] : ready \in BOOLEAN}

PlayNothing ==
  /\ InLoop("play")
  /\ mem[Self].type = "friend" => ~mem[Self].ready
  /\ Step
  /\ UNCHANGED <<mem, entities, board, cells, turn, winner>>

\* think and steal change nothing but mana and its regeneration, which steal
\* leaves positive.
PlayMind ==
  /\ InLoop("play")
  /\ \E target \in Addr : Casts("mind", target)
  /\ mem' \in Paid
  /\ Step
  /\ UNCHANGED <<entities, board, cells, turn, winner>>

PlayPanacea ==
  /\ InLoop("play")
  /\ \E target \in Addr : Casts("panacea", target)
  /\ mem[Self].life + 2 <= MaxLife
  /\ \E paid \in Paid : mem' = [paid EXCEPT ![Self].life = @ + 2]
  /\ Step
  /\ UNCHANGED <<entities, board, cells, turn, winner>>

\* razor takes 10 points, hell leaves -50.
PlayAttack ==
  /\ InLoop("play")
  /\ \E card \in {"razor", "hell"}, target \in Addr, paid \in Paid :
       /\ Casts(card, target)
       /\ mem' = [paid EXCEPT ![target].life =
                    IF card = "hell" \/ @ - 2 < DeadForGood THEN DeadForGood ELSE @ - 2]
  /\ Step
  /\ UNCHANGED <<entities, board, cells, turn, winner>>

\* A free cell next to the target, if there is one, gets occupied.
PlayStone ==
  /\ InLoop("play")
  /\ Cardinality({c \in Cell : ~Free(c)}) < Len(entities) + MaxStones
  /\ \E target \in Addr :
       /\ Casts("stone", target)
       /\ LET near == Reachable(mem[target].pos, 1)
          IN  IF near = {} THEN UNCHANGED board
              ELSE \E c \in near : board' = [board EXCEPT ![c] = 1]
  /\ mem' \in Paid
  /\ Step
  /\ UNCHANGED <<entities, cells, turn, winner>>

\* A friend appears next to the caster, if a cell is free, at any address
\* that is not in use; bound: not if every address is.
PlayPuppy ==
  /\ InLoop("play")
  /\ \E target \in Addr, paid \in Paid :
       /\ Casts("puppy", target)
       /\ LET near == Reachable(mem[Self].pos, 1)
          IN  IF near = {}
              THEN mem' = paid /\ UNCHANGED <<entities, board>>
              ELSE \E c \in near, a \in Addr \ Alive, card \in FriendCards :
                     /\ mem' = [paid EXCEPT ![a] =
                          [type |-> "friend", life |-> 1, pos |-> c, regen |-> TRUE,
                           ready |-> FALSE, card |-> card, target |-> target,
                           lifespan |-> Lifespan]]
                     /\ entities' = Append(entities, a)
                     /\ board' = [board EXCEPT ![c] = 1]
  /\ Step
  /\ UNCHANGED <<cells, turn, winner>>

\* generate_mana and decay_friends.
EndOfPlays ==
  /\ LoopEnds("play")
  /\ \E ready \in SUBSET {f \in Friends : mem[f].regen} :
       mem' = [a \in Addr |-> IF a \in Friends
                              THEN [mem[a] EXCEPT !.ready = @ \/ a \in ready,
                                                  !.lifespan = @ - 1]
                              ELSE mem[a]]
  /\ Goto("purge")
  /\ UNCHANGED <<entities, board, cells, turn, winner>>

-----------------------------------------------------------------------------
\* purge_the_dead: the cell of a friend whose time is over becomes free, that
\* of an entity that has no life left does not.
Expired == mem[Self].type = "friend" /\ mem[Self].lifespan = 0

\* MUTANT of PurgeEntity: no `i--' after a death.
PurgeSkips ==
  /\ InLoop("purge")
  /\ IF Expired \/ mem[Self].life <= 0
     THEN /\ Die(i)
          /\ board' = IF Expired THEN [board EXCEPT ![mem[Self].pos] = 0] ELSE board
          /\ Step
     ELSE /\ Step
          /\ UNCHANGED <<mem, entities, board>>
  /\ UNCHANGED <<cells, turn, winner>>

PurgeEntity ==
  /\ InLoop("purge")
  /\ IF Expired \/ mem[Self].life <= 0
     THEN /\ Die(i)
          /\ board' = IF Expired THEN [board EXCEPT ![mem[Self].pos] = 0] ELSE board
          /\ UNCHANGED <<i, phase>>
     ELSE /\ Step
          /\ UNCHANGED <<mem, entities, board>>
  /\ UNCHANGED <<cells, turn, winner>>

EndOfPurge ==
  /\ LoopEnds("purge")
  /\ Goto("display")
  /\ UNCHANGED <<mem, entities, board, cells, turn, winner>>

\* The end of the turn: one player or none, and the game is over.
NextTurn ==
  /\ phase = "display"
  /\ Cardinality(Players) > 1
  /\ turn < MaxTurns
  /\ turn' = turn + 1
  /\ Goto("choose")
  /\ UNCHANGED <<mem, entities, board, cells, winner>>

EndOfGame ==
  /\ phase = "display"
  /\ Cardinality(Players) <= 1
  /\ winner' = IF Players = {} THEN None ELSE entities[1]
  /\ Goto("over")
  /\ UNCHANGED <<mem, entities, board, cells, turn>>

-----------------------------------------------------------------------------
Next ==
  \/ StayHere \/ PlayerChooses \/ FriendChooses \/ DieTrapped \/ EndOfChoices
  \/ MoveEntity \/ EndOfMoves
  \/ PlayNothing \/ PlayMind \/ PlayPanacea \/ PlayAttack \/ PlayStone
  \/ PlayPuppy \/ EndOfPlays
  \/ PurgeEntity \/ EndOfPurge \/ NextTurn \/ EndOfGame

Spec == Init /\ [][Next]_vars

\* One thread, which nothing stops.
FairSpec == Spec /\ WF_vars(Next)

-----------------------------------------------------------------------------
(***************************************************************************)
(* Properties.                                                             *)
(***************************************************************************)
TypeOK ==
  /\ mem \in [Addr -> Entity]
  /\ entities \in Seq(Addr)
  /\ board \in [Cell -> {0, 1}]
  /\ phase \in {"choose", "move", "play", "purge", "display", "over"}

(***************************************************************************)
(* A friend that may still move or cast has a living target: die disarms   *)
(* those of the entity it frees, and nothing arms them again, so that the  *)
(* reads of entity->target at board.c:138 and game.c:5 are of an entity in *)
(* the game.  Entities die in two places of the turn, friends die while    *)
(* being targets, and a freed address comes back with another entity.      *)
(***************************************************************************)
ArmedFriendsHaveTargets ==
  /\ TypeOK
  /\ \A f \in Friends : (mem[f].regen \/ mem[f].ready) => mem[f].target \in Alive

(***************************************************************************)
(* Who is displayed at the end of a turn is alive: the array holds each    *)
(* entity once, none without life and no friend whose time is over         *)
(* although purge_the_dead changes the array it goes through, and die the  *)
(* time that is left to the friends of the dead, during the loop.          *)
(***************************************************************************)
ShownAreAlive ==
  /\ IsInjective(entities)
  /\ phase = "display" =>
       \A e \in Alive : /\ mem[e].life > 0
                        /\ e \in Friends => mem[e].lifespan > 0

(***************************************************************************)
(* Every turn comes to its end, though each of its loops runs over an      *)
(* array that shrinks or grows meanwhile; apply_card always finds a target *)
(* that is not the caster (game.c:11 draws until it does).                 *)
(***************************************************************************)
TurnsEnd == (phase # "display" /\ phase # "over") ~> (phase = "display")

(***************************************************************************)
(* What rapport.tex:271 says of the moves: the players that chose the same *)
(* cell stay where they are.                                               *)
(***************************************************************************)
ContestedCellsAreLeft ==
  [][\A k \in 1 .. Len(entities) :
       (phase = "move" /\ \E j \in 1 .. Len(entities) : j # k /\ cells[j] = cells[k])
       => mem'[entities[k]].pos = mem[entities[k]].pos]_vars
=============================================================================
