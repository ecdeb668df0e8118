# Verification of the ENSEIRB-MATMECA projects

The repository collects six independent student programs. This directory holds
TLA+ models of their core logic, the TLC configurations that check them and
the TLAPS proofs about them. `PROJECT.json` maps every definition of a model to
the lines of code it stands for. In this file `cthread/`, `life/`, `aquarium/`,
`kitty/`, `pysat/` and `reversi/` abbreviate the directories

| short | directory under `src/` |
|---|---|
| `cthread/` | `System Programming/Final Project: Reimplementation of the cthread library/` |
| `life/` | `Parallel Computing/Final Project: The Game of Life/fichiers/` |
| `aquarium/` | `Computer Networks/Final Project: Client-Server architecture/` |
| `kitty/` | `Software Engineering/Semester Final Project: KittyWonderland card game/` |
| `pysat/` | `Artificial Intelligence/Project: SAT-solver/pysat/` |
| `reversi/` | `Artificial Intelligence/Final Project: AI for Reversi/` |

## 1. Inventory

**cthread** - a user-level thread library (`src/thread.c`). *State*: the run
queue and the queue of finished threads (two TAILQs), per thread a status, a
context and a stack, per mutex a flag. *Operations*: create, yield, join, exit,
mutex lock and unlock, `free_all` by `atexit`, and with `PREEMPTION` a handler
of SIGALRM that yields. *Interactions*: everything runs on one kernel thread;
control moves only where the library jumps to the head of the queue (or in the
signal handler). *Hard*: the head of the queue is taken for the running thread
everywhere; joins reorder the queue; spinning waiters; the last exit; a signal
inside the library. *Correct if*: the queues partition the threads, the head is
the thread that runs, nothing leaks or is freed too early, mutexes exclude,
joins and locks end.

**life: scheduler, distrib, barrier** - the synchronisation of the threaded
kernels. `src/scheduler.c`: a ring of tasks, a mutex and a condition for each
worker and a counter of unfinished tasks; create, wait, finalize.
`src/pthread_distrib.c` and `src/pthread_barrier.c`: a counter of arrived
threads, a phase, a condition (and the next element to hand out).
*Interactions*: `src/mandel.c` is the only client. *Hard*: wakeups that come too
early, too late or for nothing, the counter and the rings updated in two
critical sections, threads that are late to leave a barrier, counters that wrap.
*Correct if*: every task or element is computed exactly once per round, rounds
do not overlap, nobody sleeps for ever, workers are stopped before their memory
is freed.

**life: kernels and main loop** - `src/vie.c` (sequential, tiled, OpenMP and
OpenCL versions of the rule, with flags that say which tiles changed),
`src/mandel.c` (pixels), `src/main.c` (alternates compute and refresh). *Hard*:
a tile must not be skipped while a neighbour changes, flags exchanged by
`refresh_img` only, `change` accumulated by several threads. *Correct if*: every
version computes the generations of the game of life, and announces a stable
image when, and only when, it is stable. Graphics, OpenCL and monitoring are I/O.

**aquarium: controller** (`controller/src`) - a server with three threads. *State*:
the poll array, the views (each linked to a socket or free), the fishes, the
list of observers. *Operations*: accept, hello, ping, add/del/start fish,
getFishes once or continuously, log out; load, save, add, del view from the
keyboard; a broadcast every 5 s; a disconnection after a silence.
*Interactions*: the main loop, the broadcast thread and the timeout thread share
all of it, and only the observers have a mutex. *Hard*: closing a socket while
another thread uses it, a view deleted while a client is linked to it, the
observers' list, the poll array that moves. *Correct if*: a view is linked to at
most one open connection, an observer is served until it leaves, a client that
pings is not disconnected, saving and loading agree.

**aquarium: view** (`view/src`, Java) - Protocol (requests and answers on one
socket), Client (a ping timer and a polling thread), Parser, Data (the fishes),
Display and Container (painting). *Hard*: several threads share the socket and
may read each other's answers; its `ping` is not the one the controller knows. *Correct if*: each request gets its own answer
and the fishes shown are those of the controller.

**kitty** - a card game played by the computer (`src/game.c`, `board.c`,
`cards.c`, `deck.c`, `entity.c`). *State*: the array of entities (players and
their friends, with pointers to targets), the board, a deck and hand for each
player. *Operations*: a turn = simultaneous moves, one card each, mana, decay,
purge. *Hard*: entities removed from the array while it is traversed, pointers
to freed entities, the rule of collisions, the end of the game. *Correct if*: no
freed entity is used, no two entities share a cell, the game ends.

**pysat** - a CDCL solver (`src/pysat.py`) with watched literals, VSIDS in an
indexed heap (`satheapq.py`), a bounded queue and a simpler DPLL solver.
*Hard*: the trail, levels, reasons and watches are right only together; a
backjump touches them lazily. *Correct if*: SAT comes with a model, UNSAT only
for unsatisfiable formulas, every learnt clause is implied, the search ends.

**reversi** - the rules (`Reversi.py`: push, pop, legal moves), alpha-beta with
iterative deepening under a time limit (`CR_ai.py`), an opening library, an
arena. *Correct if*: pop undoes push, alpha-beta returns the value and a move of
minimax, the move is legal.

Every component is listed with its status in `PROJECT.json`, and under `hazards`
what is hard to test in it, at its line, with the properties that cover it.

## 2. Plan

Modules, in the order in which they were written; all of them exist.

1. `Cthread`, `Cthread_proofs` and `CthreadPreempt`: the thread library.
2. `TaskPool` (abstract) and `Scheduler`, `PhasedWork` (abstract), `Distrib` and
   `Barrier`, each with its proofs: synchronisation of the kernels.
3. `Controller`, `MCController`, `Controller_proofs`: the aquarium server with its
   three threads, the observers, the views and the fishes.
4. `Life` (abstract), `Vie`, `MCVie`, `Vie_proofs`: the versions of the kernel and
   the loops of `main`.
5. `Kitty`, `Kitty_proofs`: the turns of the game.
6. `Decider` (abstract), `SatHeap`, `Cdcl`, `MCCdcl`, `Cdcl_proofs`: the search of
   pysat.
7. `Reversi`, `ReversiGame`, `AlphaBeta`, `MCReversiGame`, `ReversiGame_proofs`:
   rules, game, search.

What composes what: `Scheduler` instantiates `TaskPool`, `Distrib` and `Barrier`
instantiate `PhasedWork`, `Vie` instantiates `Life`, `Cdcl` instantiates
`Decider`, each as the specification it implements. `Cdcl` works on the heap of
`SatHeap`; `ReversiGame` puts the boards of `Reversi` in the hands of a referee,
two players and a search, and `AlphaBeta` adds what the search must return: minimax,
as a function that is recursive in the depth, so that theorems can be stated about it.

What could come next: the Java view, whose threads share a socket; the positions
that `save` writes and `load` reads; the DPLL solver against `Decider`; the cache
of `ImpregnableBoard` (CR_ai.py:324).

## 3. The modules

### Cthread (cthread/src/thread.c without PREEMPTION)

`cpu` is the thread whose stack executes, `queue` and `finished` the two TAILQs,
`status`, `joining`, `locking` say where each thread is, `flag` is the flag of a
mutex, `holder` (history) who is between lock and unlock, `freed` what
`free_all` has freed. One call is one action, because nothing interrupts it, and
one turn of a loop that gives the processor away (`thread_join`,
`thread_mutex_lock`) is one action: `Create`, `Yield`, `Join`, `Exit`,
`ReturnFromMain`, `Lock`, `Unlock`. Client programs are arbitrary, with two
restrictions that every test obeys: a thread unlocks only what it holds and does
not lock a mutex twice. `thread_exit` of the last thread gives `setcontext` the
address of the context of no thread; glibc on Linux answers with an error, so
`exit(0)` follows and `free_all` runs on the stack of that thread, which it
frees unless the thread is main.

`CthreadPreempt` is `thread_yield` with `PREEMPTION`, cut where a signal may
arrive, for a fixed set of threads. A context is a point of a stack and can be
resumed once; resuming it twice is undefined behaviour and ends the model.

### TaskPool, Scheduler (life/src/scheduler.c, version `sched` of mandel.c)

A critical section is one action and `pthread_cond_wait` ends one. The client is
the main thread of `mandel.c`: it creates one task per tile, waits, calls zoom
and begins again; at the end `no_more_task`, joins and `free`. `ran` (history)
counts the executions of each task. `TaskPool` says what a pool with rounds
promises, and `Scheduler` implements it (`ImplementsPool`).

The wait of a worker is under an `if` (scheduler.c:122): after a wakeup that
nobody asked for it would execute its previous task again. POSIX allows such
wakeups, and with them every property fails at once, so the model of the
*workers* excludes them; this is a restriction of the result, not of the code.
The wait of the main thread is in a loop, and there the model has them.

### PhasedWork, Distrib, Barrier (life/src/pthread_distrib.c, pthread_barrier.c)

`PhasedWork` says what the kernels need: every element of a phase is computed
once, then a final function runs while nobody computes, then the next phase.
`Distrib` and `Barrier` model the two C files with the threads of mandel.c that
call them; the section before the wait and the test after it are an action each;
wakeups for nothing are included; `phase` wraps at `PhaseModulus` (2^32 in C).
The main thread is one of the threads: `CallCompute` is a call of `the_compute`,
which initialises the structure again, `Create(t)` starts the others one by one
while those that exist already work, `Created` lets the main thread begin its own
share, `Join` ends the call when all have ended. A thread that does not exist is
"absent".

### Life, Vie (life/src/vie.c and the loops of main.c)

`Life` is Conway's rule on a board whose border stays empty. `Vie` has the twelve
CPU versions: a version is its rule (`basic` or `no_jump`), its tiles, its
schedule (in sequence, OpenMP static or dynamic, tasks), whether it skips tiles
and whether it counts changes. `graphical` chooses between the two loops of
`main.c`: the one with a display handles the keys before each call (`Space` for
one step at a time, `update_refresh_rate`, `Quit`) and goes on turning when the
image is stable (`TurnStable`). Both go through `Call`, then for each iteration
`Treat` or `Skip` of every tile and `Swap`, then `Returned`, which
with a display refreshes the image and exchanges the flags. `cur` and `next` are
the two images, `before` and `after` the flags of the tiles. A tile only reads
`cur` and its overlap with the next one is written with the same values, so a
tile is one action; what the threads really share is `change |= ...`, which is
two (`Treat` reads it, `Store` writes it).

Seen while modelling: `omp_for_basic` and `omp_for_no_jump` call the sequential
functions; `omp_task_tuilee_opti` makes one iteration and returns 0, after which
`main` counts `refresh_rate` of them; without a display nobody exchanges the
flags, so nothing is skipped. Skipping is sound only while the refresh rate does
not exceed the side of a tile (a change travels one cell per iteration): with a
display, `seq_tuilee_opti` leaves the rule on 8 x 8 cells in tiles of side 2 with
a rate of 5. The keys can set such a rate. `ImplementsLife` is checked, and
proved, within this limit. It also needs images with an empty border, which all drawing functions
leave, and `DIM` divisible by `GRAIN`, without which cells are in no tile. The
tiles read row and column `DIM` of the image, whose values nobody uses.

### Controller (aquarium/controller/src: server.c, protocol.c, state.c, command.c)

The main thread is `main`: a program point, the entry of `fd_array` it handles
(`ind_socket`), and its locals. It goes around `Poll`, `Accept`, `Scan` for each
entry with an event, then `Command` (the operator), `Recv` and a request
(`Hello`/`Allocate`, `Ping`, `GetFishes`/`ListMine`,
`GetFishesContinously`/`Register`), `Send`, or the three steps of
`close_connection`. `bc` is the broadcast thread (`BroadcastBegin`,
`BroadcastList`, `BroadcastWrite` for each observer, with the mutex held) and `to`
the timeout thread (`TimeoutFind` to `TimeoutErase`, six steps for a client). They
share `fd` (`fd_array`), `views` (name, descriptor, is the ping late) and
`observers`, which is the sequence in front of the -1. `server` says whether the
process is up, left by `error`, killed by SIGPIPE or crashed on a null view.
`fishes` are the fishes of the aquarium with their names (`addFish`, `delFish`,
`startFish`).
`net`, `inbox` and `conn` are TCP and the table of descriptors, which gives a
closed descriptor again to the next client. `sent` is the set of requests that
occur in a run, one of the sets of the constant `Sents`: it bounds the
environment, never the server.

Time is abstract: `Silence` makes a ping late at any moment. Which request a
message is shows when it is read, so a client sends a bit and `Recv` chooses. A
client sends one message at a time (two that arrive together would be read as one)
and leaves by closing a socket it has read; an end of file reads as an empty
message, which is an unknown command (protocol.c:293 then writes one byte in
front of the buffer, which the model takes as harmless). `Write` never blocks:
clients read. A client that does not would stop the broadcast thread with the
mutex held, and with it the others. The tables' sizes (`fd_array`, 256 observers,
views) are not reached.

Left out: a thread that is interrupted between reading `fd_array[i].fd` and the
system call that uses it, or in the middle of a loop over the views; `load`, `add`
and `del` are one action.

### Kitty (kitty/src: game.c, board.c, cards.c, entity.c, deck.c)

An entity is its address. `mem` is what the addresses point to, `entities` the
array, `board` the occupied cells, `cells` what each entity chose in
`move_entities`, `i` and `phase` the loop of `play_game` that is running. One turn
of a loop is one action: `StayHere`, `PlayerChooses`, `FriendChooses`,
`DieTrapped`, then `MoveEntity`, then one action per effect of a card
(`PlayNothing` to `PlayPuppy`), `EndOfPlays` (mana and decay), `PurgeEntity`. `Die`
frees an address, which `PlayPuppy` may give again; a friend keeps the address of
its target. Mana is a bit (`ready`, `regen`), life counts in units of five points,
hands and decks are the card that is played.

Seen while modelling: an entity that is trapped leaves its cell occupied
(board.c:171), and two that move to one cell free it for both when one leaves;
the winner printed is the first entity of the array, which may be the friend of
somebody dead (game.c:136) where rapport.tex:196 speaks of the last player;
`display_puppy` prints the name of a target that may have been freed, and a friend
whose target died can find another entity at that address. The last does no harm
because `die` disarms it: that is `ArmedFriendsHaveTargets`.

### Decider, SatHeap, Cdcl (pysat/src/pysat.py, satheapq.py, sattypes.py)

`Decider` is a solver that answers once, with a model or with UNSAT. `Cdcl` goes
through the code one turn of a loop at a time; `pc` says in which: the clauses
that are attached (`BuildClause`, `Exit` at a second unary clause on a variable,
`EndOfBuild` with the heap), `StartSearch`, `ContinueSearch` or `BudgetSpent`, the propagation (`TakeLiteral`,
then for each clause of the watch list `ClauseSatisfied`, `MoveWatch`,
`ClauseUnit` or `ClauseEmpty`), the analysis (`SkipLiteral`, `SeeLiteral`,
`ResolveReason`, `FindUip`), the backjump (`UndoLiteral`, `EndOfCancel`), `Learn`,
`Decide` with the variables it drops from the heap, `AllAssigned`. Scores matter
only as an order, so a bump may raise a variable over any number of others; this
covers every decay and rescaling. `SatHeap` is the indexed heap with the order
that a bump changes before `decrease` repairs it. The loops of `_percolateUp` and
`_percolateDown` are a path of positions along which the elements come one step
back (`Slide`): the array and the positions that the loop writes, without its
turns, and without recursion, so that theorems can be stated about it.

### Reversi, ReversiGame, AlphaBeta (reversi/Reversi.py, CR_ai.py, CR_Player.py, localGame.py)

`Reversi` is the class `Board`: `Push`, `Pop`, `LegalMoves`, `IsGameOver`, as functions
of a record. `ReversiGame` is the referee, the two players with a board each, and
the search: `deepen` (`NextDepth`, `DepthDone`, `AllDepthsDone`) and `alphabeta`,
whose recursion is the stack `frames` (`Call`, `Try`, `Back`, `Return`). The clock may
raise the exception at every call (`TimeIsUp`). The three heuristics are the ones
that read the counters, the end of the game and the stack; the positional ones
are left out. `Inf` is `float('+inf')`, a constant that no score and no length of a game
exceeds. `AlphaBeta` defines `Minimax` over positions, which are boards whose count of
passes is forgotten. `pop` does not give `_successivePass` back its value, which is why
`ValueIsMinimax` and `PopUndoesPush` except it; every player works on a copy, so
it does not reach the game (`BoardsAgree`).

## 4. The runs

| run | bounds | what it shows |
|---|---|---|
| `cthread` | 4 threads, 1 mutex | queues, thread_self, mutual exclusion, first come first served, joins and locks end |
| `cthread_preempt` | 3 threads, 2 nested calls | violation: an alarm between unmasking and the switch saves a context in the wrong thread |
| `scheduler` | 3 workers, rings of 4, 3 rounds of 3 tasks | counters, wakeups, order, refinement of TaskPool, end |
| `distrib` | 4 threads, 3 elements, 3 phases, modulus 2, any number of calls | counts, sharing, refinement of PhasedWork, each call returns |
| `barrier` | 4 threads, 3 phases, modulus 2, any number of calls | refinement of PhasedWork, each call returns |
| `vie` | 6 x 6 cells, 9 tiles, 2 threads, rates 1 and 2, 6 iterations, 3 images | every version computes the game of life and misses no stable image |
| `controller` | 2 clients, 2 views, 2 fishes, 1 observer, every request in one of two sets, symmetry | views are linked once and given back, names differ, descriptors are not confused, only a timeout makes the server exit |
| `controller_live` | 2 clients, 1 view, 2 observers; hello and operator, or observers only | requests are handled, observers served, silent clients disconnected |
| `kitty` | 2 players, torus of 1 x 5, 4 addresses, 3 turns | no freed target is used, the dead leave the array, every turn ends |
| `cdcl` | 4 variables, 807 formulas, n conflicts before the n-th restart | trail, watches, heap and learnt clauses, refinement of Decider, end |
| `reversi` | 3 x 3 (whole games) and 4 x 4 (3 moves), deepness 2 to 5 | the boards agree, counters, the value of minimax, end |
| `reversi_move` | as `reversi`, one heuristic | violation: the move returned need not be the best one |

*Why the bounds are enough.* Four threads make a queue in which a joiner, its
target, a lock holder and a bystander are all different; a second mutex would
add only clients that deadlock by themselves. In `scheduler` the rings wrap
several times (up to nine tasks go to one worker through four slots), three
rounds make a task of round 1 late for round 3, and `Cpus` mixes tasks dealt
round robin with tasks for a fixed worker. Modulus 2 is the worst case of the
wrapping phase: a thread that slept through two phases would see its own value
again; three phases and four threads let one be late while two others meet.

In `vie` the middle tile has eight neighbours, the image `Mover` lets tiles rest
for two iterations and then change, `Corner` becomes stable and `Block` is; six
iterations are three calls, so the flags are exchanged while the image changes.
Two threads suffice to lose an update of `change`.

Two clients of the controller are enough for a descriptor to be given again while
the timeout thread still has its number, and for one to lose what the other
gives up. The liveness run takes two sets of requests apart, because liveness
with all requests, two views and two observers would be some ten million states;
those about fishes and `log` end in the same `Send` or close as the ones it has.
Symmetry is used in `controller` only, which checks invariants.

In `kitty` a player and two friends, one of them a friend's target, can be in the
array when one in the middle dies, and its address is given again to
another friend. `FriendCards` is `razor` only: the friends of the run attack, the
players play every card. One unit of life makes every attack deadly.

In `cdcl` the formulas are all sets of five binary clauses over three variables
with two clauses that tie in a fourth, a chain under a unit, a contradiction at
level 0, two contradicting units, and formulas whose learnt clauses have
literals of three levels in every order. They contain satisfiable and
unsatisfiable ones, restarts, learnt units and jumps over a level.

`Inf` is 1000, far above the 16 points of a board of 4 x 4. In `reversi` the small board has games with passes and with a side that has lost
every piece, the larger one has turns of several pieces in one move and cuts in
both kinds of nodes. The deepness exceeds what is left of a game, so searches
reach its end.

`CHECK_DEADLOCK FALSE` is set where the program ends or where the run looks for one
violation. `distrib` and `barrier`, whose main thread can always make another call,
are checked for deadlock.

*Beside the listed runs* stand five configurations that show what goes wrong
where the code breaks no sentence of a document, or where the reader may want to
see it; each ends in a counterexample:

| command | what it shows |
|---|---|
| `tlc -config CthreadLastExit.cfg Cthread` | the last exit frees the stack in use (thread.c:236-238) |
| `tlc -config SchedulerOverflow.cfg Scheduler` | more than `WORK_QUEUE - 1` tasks for one worker: the assertion fails (scheduler.c:72) |
| `tlc -config ControllerObserver.cfg Controller` | a departure removes another client's observer (protocol.c:178) |
| `tlc -config KittyCollision.cfg Kitty` | players that chose the same cell move all the same when a third one chose another cell (board.c:186; rapport.tex:271, test_board.c:67) |
| `tlc -config VieChange.cfg MCVie` | two threads store `change` in turn and a stable image is announced that is not (vie.c:321) |

*Fairness.* `Cthread`: the loops inside the library go on turning while their
thread has the processor (weak), and a client thread that gets the processor in
its own code again and again finally exits (strong: it may spend any number of
turns before). `Scheduler`, `Distrib`, `Barrier`: the operating system runs every
thread that is not waiting (weak, for each thread, the main one with its creations
and joins included), tasks and computations end. Nothing says that the main
program calls `the_compute` again.
Mutexes need nothing more: sections are atomic here and always leave the mutex.
`Kitty`, `Cdcl`, `ReversiGame`: one thread that goes on (weak, for `Next`); the
choices inside it, of cells, cards, bumps and of the moment the clock stops a
search, are not fair at all.

`Controller`: each of the three threads runs (weak); a thread that asks for the
mutex gets it (strong: the broadcast thread sleeps five seconds without it, and
the model, which has no time, would else let it come back at once each time).
Nothing is assumed of clients and operator.

*Precondition of the requests of Controller.* `RequestsAreHandled` assumes that two
entries of `fd_array` never share a descriptor. They do when a client is accepted
between lines 261 and 262 of protocol.c (close, then fd = -1): poll reports its
message for both entries, the first one reads it and the main thread waits in
`read` for the second. `DescriptorsAreRight` says that nothing of the kind happens
before the timeout thread has disconnected somebody. Afterwards it can, and with
three clients worse follows: the main thread closes, for one of the two entries,
the descriptor that the other one still has. What always holds is its first part,
that an open descriptor is in `fd_array`.

*Preconditions of the liveness of Cthread.* `JoinReturns` assumes that in the end
joins do not form a circle and that nobody waits for a mutex. The second is
needed: a joiner pulls its target to the head at each turn, and if the target
spins on a mutex whose holder stands in the queue, joiner and target alternate
for ever. `LockObtained` assumes that no finished thread holds the mutex and
that nobody joins, for the same reason.

## 5. The findings

* `cthread_preempt`: thread.c:187. SIGALRM is unmasked before `swapcontext`: an
  alarm in between yields once more and saves the context of the wrong thread.
* `reversi_move`: CR_ai.py:88. `alphabeta` keeps the best value but returns the
  last move it tried. A move that ends in a cut is the best so far, but a node
  whose loop runs to its end returns whatever came last, and `deepen` plays it.
  The value is right (`ValueIsMinimax`), the move is not.

Seen in the model of the controller, without a document that says otherwise: a
request that races the timeout makes `read` or `write` fail and ends the server
(`ExitsOnlyByTimeout` says that nothing else does); `hello` in the same race
leaves a view linked to a closed descriptor (hence `~timedOut` in
`DescriptorsAreRight`, with what section 4 says of descriptors that are shared); an observer without a view makes `get_fishes_by_socket` read
through a null pointer once there is a fish. What the five configurations above
show, and the remarks under `Vie`, `Kitty` and `Reversi` in section 3, are of the
same kind.

## 6. The proofs

`Cthread_proofs` - for every set of threads and mutexes. The inductive invariant
`IInv` joins `TypeOK`, `CpuIsHead`, `QueuesPartitionThreads`, `NothingLeaked` and
`MutualExclusion`: that `Join` finds its target in the queue needs the partition,
that the switch goes to a thread needs the queue not to be empty, and both need
that the caller is the head. Lemmas on sequences (rotation, moving an element to
the head, append, tail) say that the operators keep the elements and their being
linked once, and what they do to the order of the others (`RotateOrder`,
`MoveToHeadOrder`, `AppendOrder`, `TailOrder`): only the element that is moved
passes any other. Theorems: `TypeCorrect`, `SelfIsRight`, `NoThreadLost`,
`AllIsFreed`, `LockIsExclusive`, and `FirstComeFirstServed`, the action property
`NoOvertaking`, which follows from the lemmas on order in the steps that `IInv`
allows.

`Scheduler_proofs` - for every number of workers, tasks and rounds, rings of any
size and any use of `cpu`. Until the assertion fails, `IInv` says what the counters
count (`Counts`: `nbTask` is the number of tasks handed over, in a ring or running,
and `todo` the distance from `d` to `f`), what holds at each point of the main thread
(`Control`), of a worker (`Workers`: a woken one has a task or an order to stop,
which is where wakeups for nothing would do harm), which slots hold which tasks
(`Rings`: created, not started, all different) and which tasks have run (`Runs`).
The lemmas on rings say what one step of `d` or `f` modulo `WORK_QUEUE` does to the
slots in use, and that the ring is empty only if `d = f`. Theorems: `Invariant`,
`CounterIsRight`, `WakeupsAreKept`, `StoppedBeforeFree`, and `Refines`, the
refinement of `TaskPool`, for which `ZeroIsDone` says that with `nbTask = 0` every
task of the round has ended.

`NeverWaitsAlone` (same module): while the main thread waits, a worker is active, and
while it waits for the end of one worker that one is. It adds to `IInv` the invariant
`Told`, that who has been told to stop keeps knowing it.

`Separate` (same module): in every behaviour of the scheduler, by `Refines`, the
rounds do not overlap: while a task of a round has not ended no task of another
one starts. `FirstInFirstOut` is the action property `WorkerIsFIFO`. It needs a second
inductive invariant, `Fifo`: from `d` on, each ring holds its tasks in the order of
their creation, and what its worker has taken is older than all of them.

`Distrib_proofs` - for every number of threads, elements and iterations and every
modulus greater than 1. `IInv` adds to the checked invariants where a thread can
be in its last iteration. The key lemma `LastIsAlone`: when a thread finds no
element and `count + 1 = limit`, every other thread waits in this phase, so
nobody computes and nobody is late; hence no thread is ever more than one phase
behind, which is why wrapping does no harm. `NobodyIsLeft` says that between two
calls nobody is in the barrier, so that setting `phase` back is safe. That no
thread is a whole iteration ahead is `TurnInv`: all threads are in the same
iteration, counting one that is late to leave the barrier as in the next.
`Refines` is the refinement of `PhasedWork`, step by step. `NeverAllAsleep` says that
until all have ended, some thread computes, calls the barrier or is about to leave
it. It needs that who sleeps does so for the current phase (`NobodyOversleeps`), that
all threads are created before the main thread computes, and again `TurnInv`: no
thread has ended while another one waits for its iteration.

The second half of `Distrib_proofs` is about `Barrier`, which it instantiates with the
same constants and variables. `BarrierIInv` is `TypeOK`, `CountIsArrived`, that a
thread which has not ended has an iteration left and that nobody is in the barrier
between two calls; `BarrierOthersWait`: when `count + 1 = limit` in a thread's
call, every other one waits in this phase. Theorems `BarrierTypeCorrect`,
`BarrierCountIsRight`, `BarrierRefines`, the refinement of `PhasedWork`, and
`BarrierNeverAllAsleep`, with the same turns as in `Distrib` (`BarrierAwake`).

`Kitty_proofs` - for every torus, set of addresses, number of players, range and
length of life. `IInv` is `TypeOK`, `Shape` (the array holds each entity once, the
index and the chosen cells fit the loop), `Armed` (who may act has a living
target) and `Lives` (loop by loop, who may be without life or out of time: during
the purge, only those behind the index). `DieEffect` says what removing an entity
does to all of them; that `i` stays where it is after a death is what `Lives`
needs. Theorems: `Invariant`, `TargetsAreAlive`, `NoDeadIsShown` and `TurnsAdvance`, the
measure by which turns end: each step goes on to a later loop or leaves less to go
through. In the loop of the cards, where puppies make the array longer, what shrinks
is the set of places from the index on that may play a card, or, when it stays the
same, the way to go.

`ReversiGame_proofs` - for boards of any size, any deepness and any number of moves.
`PushSound`: a legal push keeps the counters right, because the pieces it turns are
all the opponent's (`TilesAreTheirs`). `PopUndoesPush`: pop gives back the pieces,
counters, player and stack. The invariant of the game is `BoardsInv` and `SearchInv`:
there is a path `h` of positions from the board of the player whose turn it is, one
for each call of `alphabeta`, each reached from the one before by the move its caller
is trying, and the explorer's board is the last one. Hence every pop takes back the
right move.

`SearchIsMinimax` needs three more things.

* *Minimax exists.* A recursive function is a `CHOOSE`: nothing is known of it until
  some function satisfies its equation. `Iterates` makes one by repeating a step
  (with `SetInduction`, an induction over a set of numbers, as no induction theorem
  of the library can be cited), `FiniteExtremes` gives finite sets of values their
  greatest and least, and `MinimaxSolves` concludes that `Minimax` satisfies the equation
  `Solves` at every depth. The rest uses `Solves` only.
* *What a call knows.* `Within(v, w, alpha, beta)`: v is at most (at least) the value w,
  unless it is at least beta (at most alpha). Each frame is `Sure`: in the loop of the
  player `value` is below beta, alpha is the greater of `value` and of the alpha the call
  was given, no move that was tried has a greater value, and some move has a value as
  great, if `value` exceeds the alpha of the call; dually for the opponent. That the
  parity of `deepness` tells the two loops apart, as in the code, is
  `TurnsAlternate`. `BackMax` and `BackMin` say that one more value keeps a loop sure,
  and that at a cut or after the last move `value` is `Within` the window of the call.
  TLC checked this strengthened invariant on the run `reversi` before it was proved.
* *The first window is wide enough.* It is (-Inf, Inf), and `ValuesBound` says that no
  value of minimax exceeds it: a score is at most the number of cells
  (`PiecesBound`), and a search stays within the moves of a game.

Theorems: `PopUndoesPush`, `MinimaxSolves`, `Invariant`, `TheBoardsAgree`,
`TheCountersAreRight`, `SearchIsMinimax`.

`Vie_proofs` - for every size of image and of tiles, number of threads, set of
images, limit of iterations and every use of the keys. The flags of a call say in
which tiles the two images may differ; a difference spreads by one cell per
iteration. So the invariant says that in iteration `it` the images are equal, and
the rule changes nothing, outside of `Dirty(version, before, it)`, the cells
within `it` cells of a flagged tile; a tile that is skipped has no such cell as
long as `it` does not exceed its side, and its cells need not be written. For the
tiles that were treated `next` is the rule applied to `cur`, their flags say where it
changed something, and `change`, stored or pending, is never true for nothing.
`VieTypes` needs no hypothesis. `FixpointsFound` and `VersionsImplementLife` have
`[]RateFits`, which says that while tiles are skipped between two refreshes the rate
does not exceed the side of a tile; without it they are false (section 3).
`SmallRatesFit` gives `[]RateFits` when neither `-r` nor a key sets a larger rate.

`Controller_proofs` - for every number of clients, views, fishes, observers and every
set of requests. `IInv` has `TypeOK`, that views and fishes differ, `Descriptors`
(an open descriptor is one accepted connection and stands in `fd_array`; if the
timeout thread has closed one that was given again, in two entries),
`Remembered` (what a thread has read still holds when it acts on it: the main
thread allocates a view only to a connection that has none, there is room for the
observer, the broadcast thread is within the list) and `Undisturbed` (before the first
timeout: the entries are open and differ, linked views have an entry, the entries
that poll has reported are open, and the one that is handled is not to be handled
again). Theorems: `Invariant`, `TheAquariumIsSound`, `TheDescriptorsAreRight`,
`OnlyTheTimeoutExits`. TLC was run on every conjunct before it was proved.

`Cdcl_proofs` - for every number of variables, every set of formulas without empty
clauses, every budget of conflicts and all scores. None of the checked invariants
is inductive alone, the data structures being right only together. `IInv` has

* `Assigned`, `Levels`, `Reasons`: the trail is the assignment, the levels cut it
  in order, a literal without a reason opens its level, and one with a reason
  comes after the negations of the other literals of that clause;
* `Watches`: if a watched literal is false within the first `Propagated` places of
  the trail, the other one is true at no higher level. `Propagated` is
  `_trailIndexToPropagate` between two propagations, one less inside of one, and
  the start of the level that goes away during an analysis or a backjump: there
  the conflict has set the index to the end although not everything was
  propagated;
* `Lists` (a clause is once in the lists of its first two literals; it is proved
  by counting through `Append` and `RemoveAt`), `Originals` (the permutations of
  a clause keep its literals), `Unary`, `Queue`, `HeapOK`;
* `Follows`: what is learnt holds in every model of the formula;
* `Analysing`, the invariant of `_analyze`: the learnt literals, the seen literals of
  the level of the conflict and the part of the reason not yet looked at form a
  clause that follows from the formula and is false; `pathC` counts the seen ones,
  all at or before `index`, and `maxbl` is the place of a literal of the level to go
  back to. Hence `LastSeen` exists, has a reason while `pathC` is above 1
  (`LastHasReason`: a decision is the first of its level), and what `FindUip`
  leaves is a consequence whose first literal alone is undone by the backjump
  (`Learning`).

`InspectedClause` to `AppendedClause` say in which ways a step changes trail and
clauses, `SlideKeeps`, `DecreaseKeeps`, `InsertKeeps` and `RemoveMinKeeps` that the
heap stays in order. Theorems: `Invariance`, and from it `HeapCorrect`,
`TrailCorrect`, `WatchesCorrect`, `LearningCorrect` and `Correctness`, the refinement
of `Decider`: with an empty heap everything has a value and is propagated, so that
each clause has a true literal; a clause that is false at level 0 would be false in
a model. That the solver ends (`Terminates`) is left to TLC.

*Assumptions* are those named in the modules (`ThreadAssumption`,
`SchedulerAssumption`, ...), which TLC evaluates in the runs.

*Only model-checked*: liveness, which is out of the provers' reach, and what the runs
that expect a violation say. Of the liveness the proofs have the safety half where it
could be stated: `TurnsAdvance` for `TurnsEnd`, `NeverWaitsAlone` for `Terminates` of
`Scheduler`, `NeverAllAsleep` and `BarrierNeverAllAsleep` for the two `Returns`; TLC
checked each of them on the constants of its run before it was proved. Every invariant and every action property of the
passing runs, and every refinement, is a theorem as well.

## 7. Not modelled

* The Java view. The controller's side of its requests is in `Controller`, with
  clients that send what they like.
* The positions and movements of the fishes of the controller: no thread uses them
  to decide anything; `save` and `load` of positions are file I/O.
* `th.c`, an older copy of `thread.c` that is not built, and under `PREEMPTION` the
  calls create and exit: they change the queue with the signal unmasked, and an
  alarm inside a TAILQ macro is undefined from its first step.
* The computation of pixels in `mandel.c` (floating point), graphics, OpenCL,
  monitoring, options and scripts (I/O without a protocol).
* `SatBoundedQueue`, which the solver does not use, and the DPLL solver.
* The positional heuristics, the opening library (a file computed off line by the
  same search) and `fight.py`, which plays many games.
* Test programs; they are the source of what clients do and of what functions
  promise.
