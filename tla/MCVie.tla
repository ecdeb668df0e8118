-------------------------------- MODULE MCVie --------------------------------
(* Images of the game of life for a board of 6 rows and columns *)
EXTENDS Vie

Blocks == {i \in 1 .. DIM - 3 : i % 4 = 1}

draw_stable == {<<i + a, j + b>> : i, j \in Blocks, a, b \in {0, 1}}

\* Two outcomes of draw_random.  The first becomes a block in one iteration
Corner == {<<1, 1>>, <<1, 2>>, <<2, 1>>}

\* Leaves tiles out of two iterations that then change; stable after 5
Mover == {<<1, 1>>, <<1, 2>>, <<2, 1>>, <<2, 2>>, <<2, 3>>}

MCImages == {draw_stable, Corner, Mover}
=============================================================================
