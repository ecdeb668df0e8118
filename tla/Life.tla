-------------------------------- MODULE Life --------------------------------
(***************************************************************************)
(* What every version of the kernel vie promises: the successive images of *)
(* Conway's game of life on a board of Dim rows and columns whose border   *)
(* stays empty.  An image is the set of its cells that are alive.          *)
(***************************************************************************)
EXTENDS Integers, FiniteSets

CONSTANTS Dim, Images

VARIABLE image

Interior == (1 .. Dim - 2) \X (1 .. Dim - 2)

Around(c) == ((c[1] - 1 .. c[1] + 1) \X (c[2] - 1 .. c[2] + 1)) \ {c}

Survivors(img) == {c \in img : Cardinality(Around(c) \cap img) \in {2, 3}}

Births(img) == {c \in Interior \ img : Cardinality(Around(c) \cap img) = 3}

Init == image \in Images

Next == image' = Survivors(image) \cup Births(image)

Spec == Init /\ [][Next]_image
=============================================================================
