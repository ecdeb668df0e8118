--------------------------------- MODULE Vie ---------------------------------
(***************************************************************************)
(* The kernel vie (vie.c) in all its CPU versions, and the two loops of    *)
(* main that call it, with the keys of the one that has a display.  An     *)
(* image is the set of its cells that are alive: the colours of the live   *)
(* cells are abstracted.                                                   *)
(*                                                                         *)
(* The tiles of an iteration only read cur_img, and two tiles that overlap *)
(* write the same value of next_img: a tile is treated in one step, by one *)
(* of Threads workers, in an order that the schedule of the version        *)
(* leaves open.  What the workers share is `change |= ...', which OpenMP   *)
(* does not make atomic: the value they read and the value they write are  *)
(* two steps.                                                              *)
(***************************************************************************)
EXTENDS Integers, FiniteSets, FiniteSetsExt

CONSTANTS DIM, GRAIN,      \* side of the image, tiles on a side
          Threads,         \* number of OpenMP threads
          Images,          \* what the draw functions leave in cur_img
          RefreshRate,     \* option -r
          KeyRates,        \* the rates that the user may set: bound
          DoPause,         \* option -p
          MaxIter          \* option -i; 0 for no limit

tab_refresh_rate == <<1, 2, 5, 10, 100, 1000, 10000, 100000>>

ASSUME VieAssumption ==
    /\ DIM \in Nat /\ GRAIN \in Nat \ {0} /\ DIM % GRAIN = 0
    /\ Threads \in Nat \ {0} /\ RefreshRate \in Nat \ {0} /\ MaxIter \in Nat
    /\ KeyRates \subseteq {tab_refresh_rate[k] : k \in 1 .. 8}
    /\ DoPause \in BOOLEAN
    /\ Images \subseteq SUBSET ((1 .. DIM - 2) \X (1 .. DIM - 2))

VARIABLES
    version,      \* the_compute
    graphical,    \* graphics_display_enabled()
    refresh_rate, i_refresh_rate,
    step,         \* main waits for a key before it goes on
    cur, next,    \* cur_img, next_img
    before,       \* need_to_change_before: the flags of the tiles
    after,        \* need_to_change_after
    phase,        \* "main", "tiles", "returned" or "over"
    it,           \* the iteration of the call of the_compute
    todo,         \* the tiles of the iteration that nobody has taken
    change,       \* the shared variable change
    pending,      \* what a worker will store in change: no value or one
    n,            \* what the_compute returned
    iterations, stable

keys == <<refresh_rate, i_refresh_rate, step>>
vars == <<version, graphical, keys, cur, next, before, after, phase, it, todo,
          change, pending, n, iterations, stable>>

Workers == 0 .. Threads - 1
Master == 0
NoStore == {}

-----------------------------------------------------------------------------
(* The state of a cell: is it alive in next_img? *)

Inside(c) == 0 < c[1] /\ c[1] < DIM - 1 /\ 0 < c[2] /\ c[2] < DIM - 1

Square(c) == (c[1] - 1 .. c[1] + 1) \X (c[2] - 1 .. c[2] + 1)

compute_new_state_basic(img, c) ==
    LET count == Cardinality(Square(c) \cap img) - (IF c \in img THEN 1 ELSE 0)
    IN  IF c \in img THEN count = 2 \/ count = 3 ELSE count = 3

compute_new_state_no_jump(img, c) ==
    LET is_alive_before == c \in img
        count == Cardinality(Square(c) \cap img)
                     - (IF is_alive_before THEN 1 ELSE 0)
    IN  count = 3 \/ (is_alive_before /\ count = 2)

\* next_img after a tile whose live cells are alive, and whether the tile
\* changed something: area is what lies in rows i_d to i_f, columns j_d to j_f
Tile(area, alive) ==
    LET computed == {c \in area : Inside(c)}
    IN  [image |-> (next \ computed) \cup alive, change |-> alive # computed \cap cur]

traiter_tuile_basic(area) ==
    Tile(area, {c \in area : Inside(c) /\ compute_new_state_basic(cur, c)})

traiter_tuile_no_jump(area) ==
    Tile(area, {c \in area : Inside(c) /\ compute_new_state_no_jump(cur, c)})

-----------------------------------------------------------------------------
(* The versions: the rule, the tiles, who treats them, whether tiles are   *)
(* skipped, and whether the version iterates until change stays 0.         *)

Version(rule, grain, schedule, skips, counts) ==
    [rule |-> rule, grain |-> grain, schedule |-> schedule,
     skips |-> skips, counts |-> counts]

seq_basic == Version("basic", 1, "sequence", FALSE, TRUE)
seq_no_jump == Version("no_jump", 1, "sequence", FALSE, TRUE)
seq_tuilee == Version("no_jump", GRAIN, "sequence", FALSE, TRUE)
seq_tuilee_opti == Version("no_jump", GRAIN, "sequence", TRUE, TRUE)
\* The tiles of these two are those of the sequential versions: the functions
\* traiter_tuile_omp_for_* are never called
omp_for_basic == Version("basic", 1, "sequence", FALSE, TRUE)
omp_for_no_jump == Version("no_jump", 1, "sequence", FALSE, TRUE)
omp_for_tuilee == Version("no_jump", GRAIN, "dynamic", FALSE, TRUE)
omp_for_tuilee_static == Version("no_jump", GRAIN, "static", FALSE, TRUE)
omp_for_tuilee_opti == Version("no_jump", GRAIN, "dynamic", TRUE, TRUE)
omp_for_tuilee_opti_static == Version("no_jump", GRAIN, "static", TRUE, TRUE)
omp_task_tuilee == Version("no_jump", GRAIN, "task", FALSE, TRUE)
\* One iteration however many are asked for, and change is not computed
omp_task_tuilee_opti == Version("no_jump", GRAIN, "task", FALSE, FALSE)

Versions == {seq_basic, seq_no_jump, seq_tuilee, seq_tuilee_opti,
             omp_for_basic, omp_for_no_jump, omp_for_tuilee,
             omp_for_tuilee_static, omp_for_tuilee_opti,
             omp_for_tuilee_opti_static, omp_task_tuilee,
             omp_task_tuilee_opti}

Sequential == version.schedule = "sequence"

\* Tile t of a version is the pair t \div grain, t % grain
TilesOf(v) == 0 .. v.grain * v.grain - 1

\* A tile ends with the first row and the first column of the next one; the
\* only tile of the versions without tiles ends with the image
Area(v, t) ==
    LET size == DIM \div v.grain
        last(k) == IF v.grain = 1 THEN DIM - 1 ELSE (k + 1) * size
        i == t \div v.grain
        j == t % v.grain
    IN  (i * size .. last(i)) \X (j * size .. last(j))

\* The tiles that the schedule lets worker w take now
Takes(w) ==
    CASE Sequential -> IF w = Master THEN {Min(todo)} ELSE {}
      [] version.schedule = "dynamic" -> {Min(todo)}
      [] version.schedule = "static" ->
            LET own == {t \in todo : t % Threads = w}
            IN  IF own = {} THEN {} ELSE {Min(own)}
      [] version.schedule = "task" -> todo

-----------------------------------------------------------------------------
(* The flags of the tiles *)

Flags == [0 .. GRAIN * GRAIN - 1 -> BOOLEAN]

\* A mutant: only the tile itself is looked at
OwnFlagOnly(t) == before[t]

has_changed_tuilee_opti(t) ==
    \E a, b \in -1 .. 1 :
        LET i == t \div GRAIN + a
            j == (t % GRAIN) + b
        IN  /\ 0 <= i /\ i < GRAIN /\ 0 <= j /\ j < GRAIN
            /\ before[i * GRAIN + j]

vie_init == [t \in 0 .. GRAIN * GRAIN - 1 |-> TRUE]

vie_refresh_img ==
    /\ before' = after
    /\ after' = [t \in 0 .. GRAIN * GRAIN - 1 |-> FALSE]

\* What main passes to the_compute
Rate == IF ~graphical /\ MaxIter # 0 THEN MaxIter ELSE refresh_rate

Init ==
    /\ version \in Versions
    /\ graphical \in BOOLEAN
    /\ refresh_rate = RefreshRate /\ i_refresh_rate = 0
    /\ step = (graphical /\ DoPause)
    /\ cur \in Images /\ next = {}
    /\ before = vie_init /\ after = vie_init
    /\ phase = "main" /\ it = 0 /\ todo = {}
    /\ change = FALSE /\ pending = [w \in Workers |-> NoStore]
    /\ n = 0 /\ iterations = 0 /\ stable = FALSE

-----------------------------------------------------------------------------
(* main: the keys.  The loop of the events ends when none is left, unless   *)
(* step; it begins again after each call, and turns when the image is stable. *)

Waiting == graphical /\ phase = "main"

Rest == <<version, graphical, cur, next, before, after, it, todo, change,
          pending, n, iterations>>

Space ==
    /\ Waiting
    /\ step' = ~step
    /\ UNCHANGED <<refresh_rate, i_refresh_rate, phase, stable, Rest>>

\* p is 1 for the key up, -1 for the key down.  The option -r does not move
\* the index: the first key up after it always gives the rate 2
update_refresh_rate(p) ==
    /\ Waiting
    /\ ~(i_refresh_rate = 0 /\ p < 0) /\ ~(i_refresh_rate = 7 /\ p > 0)
    /\ i_refresh_rate' = i_refresh_rate + p
    /\ refresh_rate' = tab_refresh_rate[i_refresh_rate + p + 1]
    /\ refresh_rate' \in KeyRates
    /\ UNCHANGED <<step, phase, stable, Rest>>

\* Escape, or the window is closed
Quit ==
    /\ Waiting
    /\ phase' = "over"
    /\ UNCHANGED <<keys, stable, Rest>>

\* Nothing is left to compute: the loop turns until the user quits
TurnStable ==
    /\ Waiting /\ stable /\ ~step
    /\ step' = DoPause
    /\ UNCHANGED <<refresh_rate, i_refresh_rate, phase, stable, Rest>>

-----------------------------------------------------------------------------
(* main calls the_compute *)

GoesOn == phase = "main" /\ ~stable /\ ~step

Limit == MaxIter # 0 /\ iterations >= MaxIter

\* Without a display the loop of main ends when the image is stable
Finished == IF graphical THEN "main" ELSE "over"

Stop ==
    /\ GoesOn /\ Limit
    /\ stable' = TRUE
    /\ phase' = Finished
    /\ step' = (graphical /\ DoPause)
    /\ UNCHANGED <<refresh_rate, i_refresh_rate, Rest>>

\* A mutant: change is declared before the loop
ChangeKept ==
    /\ todo' = TilesOf(version)
    /\ change' = (change /\ phase = "tiles")
    /\ phase' = "tiles"

StartIteration ==
    /\ todo' = TilesOf(version)
    /\ change' = FALSE
    /\ phase' = "tiles"

Call ==
    /\ GoesOn /\ ~Limit
    /\ it' = 1
    /\ StartIteration
    /\ UNCHANGED <<version, graphical, keys, cur, next, before, after, pending,
                   n, iterations, stable>>

\* After the call main counts the iterations, decides whether to go on and,
\* with a display, refreshes the image
Returned ==
    /\ phase = "returned"
    /\ iterations' = iterations + (IF n > 0 THEN n ELSE Rate)
    /\ stable' = (n > 0)
    /\ phase' = IF n > 0 THEN Finished ELSE "main"
    /\ step' = (graphical /\ DoPause)
    /\ IF graphical THEN vie_refresh_img ELSE UNCHANGED <<before, after>>
    /\ UNCHANGED <<version, graphical, refresh_rate, i_refresh_rate, cur, next,
                   it, todo, change, pending, n>>

-----------------------------------------------------------------------------
(* One iteration *)

\* Worker w treats tile t.  In a parallel version it has then read change and
\* has not written it yet; the read commutes with the tile
Treat(w, t) ==
    /\ phase = "tiles" /\ t \in todo /\ pending[w] = NoStore
    /\ t \in Takes(w)
    /\ version.skips => has_changed_tuilee_opti(t)
    /\ todo' = todo \ {t}
    /\ \E done \in {IF version.rule = "basic"
                    THEN traiter_tuile_basic(Area(version, t))
                    ELSE traiter_tuile_no_jump(Area(version, t))} :
          /\ next' = done.image
          /\ after' = IF version.skips \/ ~version.counts
                      THEN [after EXCEPT ![t] = done.change] ELSE after
          /\ change' = IF Sequential THEN change \/ done.change ELSE change
          /\ pending' = IF Sequential \/ ~version.counts THEN pending
                        ELSE [pending EXCEPT ![w] = {change \/ done.change}]
    /\ UNCHANGED <<version, graphical, keys, cur, before, phase, it, n, iterations,
                   stable>>

Skip(w, t) ==
    /\ phase = "tiles" /\ t \in todo /\ pending[w] = NoStore
    /\ t \in Takes(w)
    /\ version.skips /\ ~has_changed_tuilee_opti(t)
    /\ todo' = todo \ {t}
    /\ UNCHANGED <<version, graphical, keys, cur, next, before, after, phase, it,
                   change, pending, n, iterations, stable>>

Store(w) ==
    /\ change' \in pending[w]
    /\ pending' = [pending EXCEPT ![w] = NoStore]
    /\ UNCHANGED <<version, graphical, keys, cur, next, before, after, phase, it,
                   todo, n, iterations, stable>>

\* The barrier that ends the parallel loop, swap_images and the test of change
Swap ==
    /\ phase = "tiles" /\ todo = {}
    /\ \A w \in Workers : pending[w] = NoStore
    /\ cur' = next /\ next' = cur
    /\ \/ /\ version.counts /\ change /\ it < Rate
          /\ it' = it + 1 /\ StartIteration
          /\ UNCHANGED n
       \/ /\ ~(version.counts /\ change /\ it < Rate)
          /\ n' = IF version.counts /\ ~change THEN it ELSE 0
          /\ phase' = "returned"
          /\ UNCHANGED <<it, todo, change>>
    /\ UNCHANGED <<version, graphical, keys, before, after, pending,
                   iterations, stable>>

Next ==
    \/ Space \/ update_refresh_rate(1) \/ update_refresh_rate(-1)
    \/ Quit \/ TurnStable
    \/ Stop \/ Call \/ Returned \/ Swap
    \/ \E w \in Workers, t \in todo : Treat(w, t) \/ Skip(w, t)
    \/ \E w \in Workers : Store(w)

Spec == Init /\ [][Next]_vars

-----------------------------------------------------------------------------
Life == INSTANCE Life WITH Dim <- DIM, image <- cur

TypeOK ==
    /\ version \in Versions /\ graphical \in BOOLEAN
    /\ cur \in SUBSET Life!Interior /\ next \in SUBSET Life!Interior
    /\ before \in Flags /\ after \in Flags
    /\ phase \in {"main", "tiles", "returned", "over"}
    /\ refresh_rate \in Nat \ {0} /\ i_refresh_rate \in 0 .. 7
    /\ step \in BOOLEAN
    /\ it \in Nat /\ todo \subseteq TilesOf(version)
    /\ change \in BOOLEAN /\ pending \in [Workers -> SUBSET BOOLEAN]
    /\ n \in Nat /\ iterations \in Nat /\ stable \in BOOLEAN

\* The comment above every version: it returns the number of iterations made
\* before the image was stable, or 0.  When a call returns (vie.c:104, 227,
\* 327, 391): a sequential version announces stability exactly when its last
\* iteration changed nothing, tiles that it skipped included; a parallel one
\* that counts never misses it, whatever the order of the stores in change.
FixpointsAreFound ==
    /\ TypeOK
    /\ phase = "returned" =>
          /\ version.counts /\ cur = next => n > 0
          /\ Sequential /\ n > 0 => cur = next

\* The other half for all versions: stability is only announced when it is
\* reached.  Two threads that store change in turn break it (vie.c:321).
StableImagesOnly == phase = "returned" /\ n > 0 => cur = next

\* Every version computes the game of life: each swap of the images is one
\* step of the rule, for skipped tiles and any order of the others.
ImplementsLife == Life!Spec
=============================================================================
