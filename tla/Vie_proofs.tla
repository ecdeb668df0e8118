------------------------------ MODULE Vie_proofs ------------------------------
(***************************************************************************)
(* The versions of the kernel vie implement the game of life for every     *)
(* size of image and of tiles, every number of threads and every option:   *)
(* the tiles that a version skips would have been computed as they are,    *)
(* as long as a call makes no more iterations than a tile has rows.        *)
(*                                                                         *)
(* The argument: the flags of a call say in which tiles the two images     *)
(* differ when it begins; a difference spreads by one cell per iteration;  *)
(* so in iteration k the images differ and change only within k cells of a *)
(* flagged tile, and a tile none of whose neighbours has its flag is       *)
(* farther than that.                                                      *)
(***************************************************************************)
EXTENDS Vie, FiniteSetTheorems, TLAPS

(* The rate does not exceed the side of a tile while the tiles are skipped *)
(* between two refreshes of the display. *)
RateFits == version.skips /\ graphical => refresh_rate <= DIM \div GRAIN

Rule(img) == Life!Survivors(img) \cup Life!Births(img)

Interior == Life!Interior

Box(c, k) == (c[1] - k .. c[1] + k) \X (c[2] - k .. c[2] + k)

(* The cells all of whose tiles have their flag. *)
Flagged(v, flags) ==
  {c \in Interior : \A t \in TilesOf(v) : c \in Area(v, t) => flags[t]}

(* Where the images may differ, or change, in iteration k of a call. *)
Dirty(v, flags, k) == {c \in Interior : Box(c, k) \cap Flagged(v, flags) # {}}

SameAt(a, b, c) == c \in a <=> c \in b

Calm(img, other, dirty) ==
  \A c \in Interior \ dirty : SameAt(img, Rule(img), c) /\ SameAt(img, other, c)

Inner(t) == {c \in Area(version, t) : Inside(c)}

(* What is known in each phase. *)
UntouchedFlags == ~graphical => \A t \in 0 .. GRAIN * GRAIN - 1 : before[t]

InMain == phase = "main" /\ version.skips => Calm(cur, next, Dirty(version, before, 1))

InTiles ==
  phase = "tiles" =>
    /\ it \in 1 .. Rate
    /\ version.skips => Calm(cur, next, Dirty(version, before, it))
    /\ \A t \in TilesOf(version) \ todo : \A c \in Interior :
         c \in Area(version, t) =>
           /\ SameAt(next, Rule(cur), c)
           /\ version.skips /\ ~after[t] => SameAt(cur, Rule(cur), c)
           /\ Sequential /\ ~change => SameAt(cur, Rule(cur), c)
    /\ change \/ (\E w \in Workers : TRUE \in pending[w]) => Rule(cur) # cur

InReturned ==
  phase = "returned" =>
    /\ cur = Rule(next)
    /\ version.skips =>
         \A c \in Interior : ~SameAt(cur, next, c) => c \in Flagged(version, after)
    /\ version.counts /\ cur = next => n > 0
    /\ Sequential /\ n > 0 => cur = next

NothingPending ==
  phase # "tiles" \/ Sequential => \A w \in Workers : pending[w] = NoStore

Inv == TypeOK /\ UntouchedFlags /\ NothingPending /\ InMain /\ InTiles /\ InReturned

-----------------------------------------------------------------------------
(* Arithmetic: rows, columns and tiles. *)

LEMMA Division ==
  ASSUME NEW a \in Nat, NEW b \in Nat \ {0}
  PROVE  /\ a \div b \in Nat /\ a % b \in 0 .. b - 1
         /\ a = b * (a \div b) + (a % b)
  OBVIOUS

LEMMA Numbering ==
  ASSUME NEW g \in Nat \ {0}, NEW i \in 0 .. g - 1, NEW j \in 0 .. g - 1
  PROVE  /\ i * g + j \in 0 .. g * g - 1
         /\ (i * g + j) \div g = i /\ (i * g + j) % g = j
  <1>1. i * g + j \in Nat
    OBVIOUS
  <1>2. (i + 1) * g <= g * g
    OBVIOUS
  <1>3. i * g + j < g * g
    BY <1>2
  <1>4. (i * g + j) \div g = i /\ (i * g + j) % g = j
    OBVIOUS
  <1> QED
    BY <1>1, <1>3, <1>4

LEMMA Coordinates ==
  ASSUME NEW g \in Nat \ {0}, NEW t \in 0 .. g * g - 1
  PROVE  t \div g \in 0 .. g - 1 /\ t % g \in 0 .. g - 1
  <1> t \in Nat
    OBVIOUS
  <1>1. t \div g \in Nat /\ t % g \in 0 .. g - 1 /\ t = g * (t \div g) + (t % g)
    BY Division
  <1>2. ASSUME t \div g >= g PROVE FALSE
    <2>1. g * (t \div g) >= g * g
      BY <1>1, <1>2
    <2> QED
      BY <1>1, <2>1
  <1> QED
    BY <1>1, <1>2

-----------------------------------------------------------------------------
(* The rule. *)

LEMMA InteriorIs ==
  \A c : c \in Interior <=> c \in Int \X Int /\ Inside(c)
  BY VieAssumption DEF Interior, Life!Interior, Inside

LEMMA SquareIsFinite ==
  ASSUME NEW c \in Int \X Int
  PROVE  IsFiniteSet(Square(c))
  <1>1. IsFiniteSet(c[1] - 1 .. c[1] + 1) /\ IsFiniteSet(c[2] - 1 .. c[2] + 1)
    BY FS_Interval
  <1> QED
    BY <1>1, FS_Product DEF Square

LEMMA SameCardinality == \A S : Life!Cardinality(S) = Cardinality(S)
  BY DEF Life!Cardinality, Cardinality

LEMMA Counting ==
  ASSUME NEW c \in Int \X Int, NEW img
  PROVE  /\ Cardinality(Life!Around(c) \cap img) \in Nat
         /\ Cardinality(Square(c) \cap img) - (IF c \in img THEN 1 ELSE 0)
              = Cardinality(Life!Around(c) \cap img)
  <1>1. IsFiniteSet(Square(c) \cap img)
    BY SquareIsFinite, FS_Subset
  <1>2. c \in Square(c)
    BY DEF Square
  <1>3. Life!Around(c) \cap img = (Square(c) \cap img) \ {c}
    BY DEF Life!Around, Square
  <1>4. Cardinality(Square(c) \cap img) \in Nat
    BY <1>1, FS_CardinalityType
  <1>5. IsFiniteSet((Square(c) \cap img) \ {c})
    BY <1>1, FS_Subset
  <1>6. Cardinality((Square(c) \cap img) \ {c}) \in Nat
    BY <1>5, FS_CardinalityType
  <1>7. CASE c \in img
    <2>1. c \in Square(c) \cap img
      BY <1>2, <1>7
    <2>2. Cardinality((Square(c) \cap img) \ {c}) = Cardinality(Square(c) \cap img) - 1
      BY <2>1, <1>1, FS_RemoveElement
    <2> QED
      BY <2>2, <1>3, <1>4, <1>6, <1>7
  <1>8. CASE c \notin img
    <2>1. (Square(c) \cap img) \ {c} = Square(c) \cap img
      BY <1>8
    <2> QED
      BY <2>1, <1>3, <1>4, <1>8
  <1> QED
    BY <1>7, <1>8

(* The two functions that compute a cell apply the rule. *)
LEMMA RulesAgree ==
  ASSUME NEW img \in SUBSET Interior, NEW c \in Interior
  PROVE  /\ compute_new_state_basic(img, c) <=> c \in Rule(img)
         /\ compute_new_state_no_jump(img, c) <=> c \in Rule(img)
  <1> DEFINE around == Cardinality(Life!Around(c) \cap img)
  <1>1. c \in Int \X Int
    BY InteriorIs
  <1>2. /\ around \in Nat
        /\ Cardinality(Square(c) \cap img) - (IF c \in img THEN 1 ELSE 0) = around
    BY <1>1, Counting
  <1>3. c \in Rule(img) <=> IF c \in img THEN around \in {2, 3} ELSE around = 3
    <2>1. c \in Life!Survivors(img) <=> c \in img /\ around \in {2, 3}
      BY SameCardinality DEF Life!Survivors
    <2>2. c \in Life!Births(img) <=> c \in Interior \ img /\ around = 3
      BY SameCardinality DEF Life!Births, Interior
    <2> QED
      BY <2>1, <2>2 DEF Rule
  <1>4. compute_new_state_basic(img, c) <=>
          IF c \in img THEN around = 2 \/ around = 3 ELSE around = 3
    BY <1>2 DEF compute_new_state_basic
  <1>5. compute_new_state_no_jump(img, c) <=>
          around = 3 \/ (c \in img /\ around = 2)
    BY <1>2 DEF compute_new_state_no_jump
  <1> HIDE DEF around
  <1> QED
    BY <1>3, <1>4, <1>5

LEMMA RuleInside ==
  ASSUME NEW img \in SUBSET Interior
  PROVE  Rule(img) \subseteq Interior
  BY DEF Rule, Life!Survivors, Life!Births, Interior

(* The next state of a cell depends on its square only. *)
LEMMA RuleIsLocal ==
  ASSUME NEW a \in SUBSET Interior, NEW b \in SUBSET Interior, NEW c \in Interior,
         \A d \in Square(c) \cap Interior : SameAt(a, b, d)
  PROVE  SameAt(Rule(a), Rule(b), c)
  <1>1. c \in Int \X Int
    BY InteriorIs
  <1>2. c \in Square(c)
    BY <1>1 DEF Square
  <1>3. SameAt(a, b, c)
    BY <1>2
  <1>4. Life!Around(c) \cap a = Life!Around(c) \cap b
    BY DEF Life!Around, Square, SameAt
  <1> QED
    BY <1>3, <1>4 DEF SameAt, Rule, Life!Survivors, Life!Births, Interior

-----------------------------------------------------------------------------
(* The tiles. *)

Side == DIM \div version.grain

(* Row (or column) r is one of those of the tiles of row (or column) i. *)
Band(i, r) ==
  i * Side <= r /\ r <= (IF version.grain = 1 THEN DIM - 1 ELSE (i + 1) * Side)

LEMMA VersionFacts ==
  ASSUME version \in Versions
  PROVE  /\ version.grain \in {1, GRAIN}
         /\ version.skips => version.grain = GRAIN
         /\ version.skips => version.counts
         /\ version.skips \in BOOLEAN /\ version.counts \in BOOLEAN
         /\ Sequential => version.counts
  <1> DEFINE Right(v) ==
        /\ v.grain \in {1, GRAIN} /\ v.skips \in BOOLEAN /\ v.counts \in BOOLEAN
        /\ v.skips => v.grain = GRAIN /\ v.counts
        /\ v.schedule = "sequence" => v.counts
  <1>1. Right(seq_basic) /\ Right(seq_no_jump) /\ Right(seq_tuilee) /\ Right(seq_tuilee_opti)
    BY DEF Version, seq_basic, seq_no_jump, seq_tuilee, seq_tuilee_opti
  <1>2. /\ Right(omp_for_basic) /\ Right(omp_for_no_jump) /\ Right(omp_for_tuilee)
        /\ Right(omp_for_tuilee_static)
    BY DEF Version, omp_for_basic, omp_for_no_jump, omp_for_tuilee, omp_for_tuilee_static
  <1>3. /\ Right(omp_for_tuilee_opti) /\ Right(omp_for_tuilee_opti_static)
        /\ Right(omp_task_tuilee) /\ Right(omp_task_tuilee_opti)
    BY DEF Version, omp_for_tuilee_opti, omp_for_tuilee_opti_static, omp_task_tuilee,
           omp_task_tuilee_opti
  <1> HIDE DEF Right
  <1>4. Right(version)
    BY <1>1, <1>2, <1>3 DEF Versions
  <1> QED
    BY <1>4 DEF Right, Sequential

LEMMA SideFacts ==
  ASSUME version \in Versions
  PROVE  /\ version.grain \in Nat \ {0} /\ Side \in Nat
         /\ version.grain * Side = DIM
         /\ version.grain = GRAIN => Side = DIM \div GRAIN
  <1>1. version.grain \in {1, GRAIN}
    BY VersionFacts
  <1>2. GRAIN \in Nat \ {0} /\ DIM \in Nat /\ DIM % GRAIN = 0
    BY VieAssumption
  <1>3. DIM \div GRAIN \in Nat /\ DIM = GRAIN * (DIM \div GRAIN) + (DIM % GRAIN)
    BY <1>2, Division
  <1>4. CASE version.grain = 1
    BY <1>2, <1>4 DEF Side
  <1>5. CASE version.grain = GRAIN
    BY <1>2, <1>3, <1>5 DEF Side
  <1> QED
    BY <1>1, <1>4, <1>5

LEMMA TileFacts ==
  ASSUME version \in Versions, NEW t \in TilesOf(version)
  PROVE  /\ t \div version.grain \in 0 .. version.grain - 1
         /\ t % version.grain \in 0 .. version.grain - 1
         /\ \A c \in Interior : c \in Area(version, t) <=>
              Band(t \div version.grain, c[1]) /\ Band(t % version.grain, c[2])
  <1>1. version.grain \in Nat \ {0} /\ Side \in Nat
    BY SideFacts
  <1>2. t \div version.grain \in 0 .. version.grain - 1 /\ t % version.grain \in 0 .. version.grain - 1
    BY <1>1, Coordinates DEF TilesOf
  <1>3. ASSUME NEW c \in Interior
        PROVE  c \in Area(version, t) <=>
                 Band(t \div version.grain, c[1]) /\ Band(t % version.grain, c[2])
    <2> DEFINE last(k) == IF version.grain = 1 THEN DIM - 1 ELSE (k + 1) * Side
               i == t \div version.grain
               j == t % version.grain
    <2>1. c \in Int \X Int
      BY InteriorIs
    <2>2. Area(version, t) = (i * Side .. last(i)) \X (j * Side .. last(j))
      BY DEF Area, Side
    <2>3. /\ i * Side \in Int /\ last(i) \in Int
          /\ j * Side \in Int /\ last(j) \in Int
      BY <1>1, <1>2, VieAssumption
    <2>4. /\ Band(i, c[1]) <=> i * Side <= c[1] /\ c[1] <= last(i)
          /\ Band(j, c[2]) <=> j * Side <= c[2] /\ c[2] <= last(j)
      BY DEF Band
    <2> HIDE DEF last, i, j
    <2>5. c \in Area(version, t) <=> Band(i, c[1]) /\ Band(j, c[2])
      BY <2>1, <2>2, <2>3, <2>4
    <2> QED
      BY <2>5 DEF i, j
  <1> QED
    BY <1>2, <1>3

(* Every row of the interior is in a band, and has one next to any band    *)
(* that it is not farther from than the side of a tile.                    *)
LEMMA BandOf ==
  ASSUME version \in Versions, NEW r \in 1 .. DIM - 2
  PROVE  \E i \in 0 .. version.grain - 1 : Band(i, r)
  <1>1. /\ version.grain \in Nat \ {0} /\ Side \in Nat
        /\ version.grain * Side = DIM /\ DIM \in Nat
    BY SideFacts, VieAssumption
  <1>2. Side # 0 /\ r \in Nat
    BY <1>1
  <1>3. /\ r \div Side \in Nat /\ r % Side \in 0 .. Side - 1
        /\ r = Side * (r \div Side) + (r % Side)
    BY <1>1, <1>2, Division
  <1> DEFINE i == r \div Side
  <1>4. i * Side <= r /\ r <= (i + 1) * Side
    BY <1>1, <1>3
  <1>5. ASSUME i >= version.grain PROVE FALSE
    <2>1. i * Side >= version.grain * Side
      BY <1>1, <1>3, <1>5
    <2> QED
      BY <2>1, <1>1, <1>4
  <1>6. i \in 0 .. version.grain - 1
    BY <1>1, <1>3, <1>5
  <1>7. Band(i, r)
    BY <1>1, <1>4 DEF Band
  <1> QED
    BY <1>6, <1>7

LEMMA BandNear ==
  ASSUME version \in Versions, version.grain = GRAIN,
         NEW i \in 0 .. GRAIN - 1, NEW q \in 1 .. DIM - 2, NEW r \in 1 .. DIM - 2,
         Band(i, q), q - Side <= r, r <= q + Side
  PROVE  \E a \in -1 .. 1 : 0 <= i + a /\ i + a < GRAIN /\ Band(i + a, r)
  <1>1. /\ GRAIN \in Nat \ {0} /\ Side \in Nat
        /\ GRAIN * Side = DIM /\ DIM \in Nat
    BY SideFacts, VieAssumption
  <1>2. CASE GRAIN = 1
    <2>1. Band(i + 0, r) /\ 0 <= i + 0 /\ i + 0 < GRAIN
      BY <1>1, <1>2 DEF Band
    <2> QED
      BY <2>1
  <1>3. CASE GRAIN # 1
    <2>1. i * Side <= q /\ q <= (i + 1) * Side
      BY <1>3 DEF Band
    <2>2. /\ (i - 1) * Side = i * Side - Side /\ (i + 1) * Side = i * Side + Side
          /\ (i + 2) * Side = i * Side + Side + Side
          /\ i * Side \in Int
      BY <1>1
    <2> DEFINE base == i * Side
    <2>6. /\ base \in Int /\ base <= q /\ q <= base + Side
          /\ (i + (-1)) * Side = base - Side /\ ((i + (-1)) + 1) * Side = base
          /\ (i + 1) * Side = base + Side /\ ((i + 1) + 1) * Side = base + Side + Side
      BY <1>1, <2>1, <2>2
    <2> HIDE DEF base
    <2>3. CASE r < i * Side
      <3>1. i # 0
        BY <2>3, <1>1
      <3>2. Band(i + (-1), r)
        BY <1>1, <2>6, <2>3, <1>3 DEF Band, base
      <3>3. -1 \in -1 .. 1 /\ 0 <= i + (-1) /\ i + (-1) < GRAIN
        BY <3>1, <1>1
      <3> QED
        BY <3>2, <3>3
    <2>4. CASE i * Side <= r /\ r <= (i + 1) * Side
      <3>1. Band(i + 0, r)
        BY <2>2, <2>4, <1>3 DEF Band
      <3>2. 0 \in -1 .. 1 /\ 0 <= i + 0 /\ i + 0 < GRAIN
        BY <1>1
      <3> QED
        BY <3>1, <3>2
    <2>5. CASE (i + 1) * Side < r
      <3>1. i + 1 # GRAIN
        BY <2>5, <1>1
      <3>2. Band(i + 1, r)
        BY <1>1, <2>6, <2>5, <1>3 DEF Band
      <3>3. 1 \in -1 .. 1 /\ 0 <= i + 1 /\ i + 1 < GRAIN
        BY <3>1, <1>1
      <3> QED
        BY <3>2, <3>3
    <2>7. r < i * Side \/ (i * Side <= r /\ r <= (i + 1) * Side) \/ (i + 1) * Side < r
      BY <1>1, <2>2
    <2> QED
      BY <2>3, <2>4, <2>5, <2>7
  <1> QED
    BY <1>2, <1>3

(* The tiles of a version cover the interior. *)
LEMMA Covered ==
  ASSUME version \in Versions, NEW c \in Interior
  PROVE  \E t \in TilesOf(version) : c \in Area(version, t)
  <1>1. c \in Int \X Int /\ c[1] \in 1 .. DIM - 2 /\ c[2] \in 1 .. DIM - 2
    BY InteriorIs, VieAssumption DEF Inside
  <1>2. PICK i \in 0 .. version.grain - 1 : Band(i, c[1])
    BY <1>1, BandOf
  <1>3. PICK j \in 0 .. version.grain - 1 : Band(j, c[2])
    BY <1>1, BandOf
  <1> DEFINE t == i * version.grain + j
  <1>4. version.grain \in Nat \ {0}
    BY SideFacts
  <1>5. t \in TilesOf(version) /\ t \div version.grain = i /\ t % version.grain = j
    BY <1>4, Numbering DEF TilesOf
  <1> HIDE DEF t
  <1>6. c \in Area(version, t)
    BY <1>2, <1>3, <1>5, TileFacts
  <1> QED
    BY <1>5, <1>6

(* A tile that is skipped is far from what has changed. *)
LEMMA SkippedIsClean ==
  ASSUME version \in Versions, version.skips, NEW t \in TilesOf(version),
         ~has_changed_tuilee_opti(t), NEW k \in Nat, k <= DIM \div GRAIN,
         NEW c \in Interior, c \in Area(version, t)
  PROVE  c \notin Dirty(version, before, k)
  <1> SUFFICES ASSUME c \in Dirty(version, before, k) PROVE FALSE
    OBVIOUS
  <1>1. /\ version.grain = GRAIN /\ GRAIN \in Nat \ {0}
        /\ Side = DIM \div GRAIN /\ Side \in Nat
    BY VersionFacts, SideFacts
  <1>2. c \in Int \X Int /\ c[1] \in 1 .. DIM - 2 /\ c[2] \in 1 .. DIM - 2
    BY InteriorIs, VieAssumption DEF Inside
  <1>3. PICK d \in Flagged(version, before) : d \in Box(c, k)
    BY DEF Dirty
  <1>4. /\ d \in Interior
        /\ \A u \in TilesOf(version) : d \in Area(version, u) => before[u]
    BY DEF Flagged
  <1>5. d \in Int \X Int /\ d[1] \in 1 .. DIM - 2 /\ d[2] \in 1 .. DIM - 2
    BY <1>4, InteriorIs, VieAssumption DEF Inside
  <1>6. /\ c[1] - Side <= d[1] /\ d[1] <= c[1] + Side
        /\ c[2] - Side <= d[2] /\ d[2] <= c[2] + Side
    BY <1>1, <1>2, <1>3, <1>5 DEF Box
  <1> DEFINE i == t \div GRAIN
             j == t % GRAIN
  <1>7. i \in 0 .. GRAIN - 1 /\ j \in 0 .. GRAIN - 1 /\ Band(i, c[1]) /\ Band(j, c[2])
    BY <1>1, TileFacts
  <1> HIDE DEF i, j
  <1>8. PICK a \in -1 .. 1 : 0 <= i + a /\ i + a < GRAIN /\ Band(i + a, d[1])
    BY <1>1, <1>2, <1>5, <1>6, <1>7, BandNear
  <1>9. PICK b \in -1 .. 1 : 0 <= j + b /\ j + b < GRAIN /\ Band(j + b, d[2])
    BY <1>1, <1>2, <1>5, <1>6, <1>7, BandNear
  <1> DEFINE u == (i + a) * GRAIN + (j + b)
  <1>10. i + a \in 0 .. GRAIN - 1 /\ j + b \in 0 .. GRAIN - 1
    BY <1>1, <1>7, <1>8, <1>9
  <1>11. u \in TilesOf(version) /\ u \div GRAIN = i + a /\ u % GRAIN = j + b
    BY <1>1, <1>10, Numbering DEF TilesOf
  <1>12. ~before[u]
    BY <1>8, <1>9 DEF has_changed_tuilee_opti, i, j, u
  <1> HIDE DEF u
  <1>13. d \in Area(version, u)
    BY <1>1, <1>4, <1>8, <1>9, <1>11, TileFacts
  <1> QED
    BY <1>4, <1>11, <1>12, <1>13

-----------------------------------------------------------------------------
(* What the steps do. *)

LEMMA InnerIs ==
  \A t, c : c \in Inner(t) <=> c \in Interior /\ c \in Area(version, t)
  <1> TAKE t, c
  <1>1. c \in Area(version, t) => c \in Int \X Int
    BY DEF Area
  <1> QED
    BY <1>1, InteriorIs DEF Inner

(* Whatever its rule, a tile stores the next generation of its cells, and  *)
(* it has changed if that is not the present one.                          *)
LEMMA TreatStores ==
  ASSUME TypeOK, NEW w \in Workers, NEW t \in todo, Treat(w, t)
  PROVE  \E ch \in BOOLEAN :
           /\ ch <=> \E c \in Inner(t) : ~SameAt(cur, Rule(cur), c)
           /\ next' = (next \ Inner(t)) \cup (Inner(t) \cap Rule(cur))
           /\ after' = IF version.skips \/ ~version.counts
                       THEN [after EXCEPT ![t] = ch] ELSE after
           /\ change' = IF Sequential THEN change \/ ch ELSE change
           /\ pending' = IF Sequential \/ ~version.counts THEN pending
                         ELSE [pending EXCEPT ![w] = {change \/ ch}]
  <1> DEFINE alive == Inner(t) \cap Rule(cur)
             done == [image |-> (next \ Inner(t)) \cup alive, change |-> alive # Inner(t) \cap cur]
  <1>1. cur \in SUBSET Interior
    BY DEF TypeOK, Interior
  <1>2. traiter_tuile_basic(Area(version, t)) = done
    <2>1. {c \in Area(version, t) : Inside(c) /\ compute_new_state_basic(cur, c)} = alive
      BY <1>1, InnerIs, RulesAgree DEF Inner
    <2> QED
      BY <2>1 DEF traiter_tuile_basic, Tile, Inner
  <1>3. traiter_tuile_no_jump(Area(version, t)) = done
    <2>1. {c \in Area(version, t) : Inside(c) /\ compute_new_state_no_jump(cur, c)} = alive
      BY <1>1, InnerIs, RulesAgree DEF Inner
    <2> QED
      BY <2>1 DEF traiter_tuile_no_jump, Tile, Inner
  <1>4. /\ next' = done.image
        /\ after' = IF version.skips \/ ~version.counts
                    THEN [after EXCEPT ![t] = done.change] ELSE after
        /\ change' = IF Sequential THEN change \/ done.change ELSE change
        /\ pending' = IF Sequential \/ ~version.counts THEN pending
                      ELSE [pending EXCEPT ![w] = {change \/ done.change}]
    BY <1>2, <1>3 DEF Treat
  <1>5. done.change <=> \E c \in Inner(t) : ~SameAt(cur, Rule(cur), c)
    BY DEF SameAt
  <1>6. done.change \in BOOLEAN /\ done.image = (next \ Inner(t)) \cup alive
    OBVIOUS
  <1> HIDE DEF done
  <1> QED
    BY <1>4, <1>5, <1>6

LEMMA TypePreserved == TypeOK /\ [Next]_vars => TypeOK'
  <1> SUFFICES ASSUME TypeOK, [Next]_vars PROVE TypeOK'
    OBVIOUS
  <1> USE VieAssumption
  <1>1. CASE UNCHANGED vars
    BY <1>1 DEF TypeOK, vars, keys, Rate, TilesOf, Flags
  <1>2. CASE Space \/ Quit \/ TurnStable \/ Stop
    BY <1>2 DEF TypeOK, Space, Quit, TurnStable, Stop, Rest, keys, TilesOf, Finished, Flags
  <1>3. ASSUME NEW p \in {1, -1}, update_refresh_rate(p) PROVE TypeOK'
    <2>1. i_refresh_rate' \in 0 .. 7
      BY <1>3 DEF TypeOK, update_refresh_rate
    <2>2. tab_refresh_rate[i_refresh_rate' + 1] \in Nat \ {0}
      <3>1. \A k \in 1 .. 8 : tab_refresh_rate[k] \in Nat \ {0}
        BY DEF tab_refresh_rate
      <3> QED
        BY <2>1, <3>1
    <2>3. refresh_rate' \in Nat \ {0}
      BY <1>3, <2>2 DEF update_refresh_rate
    <2> QED
      BY <1>3, <2>1, <2>3 DEF TypeOK, update_refresh_rate, Rest, TilesOf, Flags
  <1>4. CASE Call
    BY <1>4 DEF TypeOK, Call, StartIteration, keys, TilesOf, Flags
  <1>5. CASE Returned
    <2>1. iterations' \in Nat /\ stable' \in BOOLEAN /\ step' \in BOOLEAN
      BY <1>5 DEF TypeOK, Returned, Rate
    <2>2. before' \in Flags /\ after' \in Flags
      BY <1>5 DEF TypeOK, Returned, Flags, vie_refresh_img
    <2>3. phase' \in {"main", "tiles", "returned", "over"}
      BY <1>5 DEF Returned, Finished
    <2> QED
      BY <1>5, <2>1, <2>2, <2>3 DEF TypeOK, Returned, TilesOf
  <1>6. CASE Swap
    <2>1. /\ cur' \in SUBSET Life!Interior /\ next' \in SUBSET Life!Interior
          /\ UNCHANGED <<version, graphical, keys, before, after, pending, iterations, stable>>
      BY <1>6 DEF Swap, TypeOK
    <2>2. /\ it' \in Nat /\ todo' \subseteq TilesOf(version) /\ change' \in BOOLEAN
          /\ phase' \in {"main", "tiles", "returned", "over"} /\ n' \in Nat
      <3>1. CASE version.counts /\ change /\ it < Rate
        <4>1. it' = it + 1 /\ StartIteration /\ n' = n
          BY <1>6, <3>1 DEF Swap
        <4>2. it' \in Nat
          BY <4>1 DEF TypeOK
        <4>3. n' \in Nat
          BY <4>1 DEF TypeOK
        <4>4. todo' \subseteq TilesOf(version)
          BY <4>1 DEF StartIteration
        <4>5. change' \in BOOLEAN 
          BY <4>1 DEF StartIteration
        <4> QED
          BY <4>1, <4>2, <4>3, <4>4, <4>5 DEF StartIteration
      <3>2. CASE ~(version.counts /\ change /\ it < Rate)
        <4>1. /\ n' = (IF version.counts /\ ~change THEN it ELSE 0)
              /\ phase' = "returned" /\ UNCHANGED <<it, todo, change>>
          BY <1>6, <3>2 DEF Swap
        <4> QED
          BY <4>1 DEF TypeOK
      <3> QED
        BY <3>1, <3>2
    <2> QED
      BY <2>1, <2>2 DEF TypeOK, keys, TilesOf, Flags
  <1>7. ASSUME NEW w \in Workers, NEW t \in todo, Treat(w, t) PROVE TypeOK'
    <2>1. PICK ch \in BOOLEAN :
            /\ next' = (next \ Inner(t)) \cup (Inner(t) \cap Rule(cur))
            /\ after' = IF version.skips \/ ~version.counts
                        THEN [after EXCEPT ![t] = ch] ELSE after
            /\ change' = IF Sequential THEN change \/ ch ELSE change
            /\ pending' = IF Sequential \/ ~version.counts THEN pending
                          ELSE [pending EXCEPT ![w] = {change \/ ch}]
      BY <1>7, TreatStores
    <2>2. next' \in SUBSET Interior
      BY <2>1, InnerIs DEF TypeOK, Interior
    <2>3. after' \in Flags
      BY <2>1 DEF TypeOK, Flags
    <2>4. change' \in BOOLEAN /\ pending' \in [Workers -> SUBSET BOOLEAN]
      BY <2>1 DEF TypeOK
    <2> QED
      BY <1>7, <2>2, <2>3, <2>4 DEF TypeOK, Treat, keys, TilesOf, Interior, Flags
  <1>8. ASSUME NEW w \in Workers, NEW t \in todo, Skip(w, t) PROVE TypeOK'
    BY <1>8 DEF TypeOK, Skip, keys, TilesOf, Flags
  <1>9. ASSUME NEW w \in Workers, Store(w) PROVE TypeOK'
    BY <1>9 DEF TypeOK, Store, keys, TilesOf, NoStore, Flags
  <1> QED
    BY <1>1, <1>2, <1>3, <1>4, <1>5, <1>6, <1>7, <1>8, <1>9 DEF Next

-----------------------------------------------------------------------------
(* Where the images may differ. *)

LEMMA Reflexive ==
  ASSUME NEW c \in Interior, NEW k \in Nat
  PROVE  c \in Box(c, k)
  BY InteriorIs DEF Box

(* With every flag, everything may differ. *)
LEMMA AllDirty ==
  ASSUME version \in Versions, version.skips, NEW k \in Nat,
         \A t \in 0 .. GRAIN * GRAIN - 1 : before[t]
  PROVE  Interior \subseteq Dirty(version, before, k)
  <1>1. version.grain = GRAIN
    BY VersionFacts
  <1>2. Flagged(version, before) = Interior
    BY <1>1 DEF Flagged, TilesOf
  <1> QED
    BY <1>2, Reflexive DEF Dirty

(* In one iteration a difference spreads by one cell. *)
LEMMA Spread ==
  ASSUME NEW k \in Nat, NEW c \in Interior, c \notin Dirty(version, before, k + 1),
         NEW d \in Square(c) \cap Interior
  PROVE  d \notin Dirty(version, before, k)
  <1>1. c \in Int \X Int /\ d \in Int \X Int
    BY InteriorIs
  <1>2. /\ c[1] - 1 <= d[1] /\ d[1] <= c[1] + 1
        /\ c[2] - 1 <= d[2] /\ d[2] <= c[2] + 1
    BY <1>1 DEF Square
  <1>3. Box(d, k) \subseteq Box(c, k + 1)
    BY <1>1, <1>2 DEF Box
  <1> QED
    BY <1>3 DEF Dirty

LEMMA InSquare == \A c \in Interior : c \in Square(c)
  BY InteriorIs DEF Square

(* Two images of the interior that agree everywhere are the same. *)
LEMMA SameImages ==
  ASSUME NEW a \in SUBSET Interior, NEW b \in SUBSET Interior,
         \A c \in Interior : SameAt(a, b, c)
  PROVE  a = b
  BY DEF SameAt

-----------------------------------------------------------------------------
(* The invariant holds at the beginning and in the phases of main. *)

LEMMA InvAtInit == Init => Inv
  <1> SUFFICES ASSUME Init PROVE Inv
    OBVIOUS
  <1> USE VieAssumption
  <1>1. TypeOK
    <2>1. cur \in SUBSET Life!Interior
      BY DEF Init, Life!Interior
    <2>2. before \in Flags /\ after \in Flags
      BY DEF Init, vie_init, Flags
    <2> QED
      <3>1. refresh_rate \in Nat \ {0} /\ i_refresh_rate \in 0 .. 7 /\ step \in BOOLEAN
        BY DEF Init
      <3>2. pending \in [Workers -> SUBSET BOOLEAN] /\ todo \subseteq TilesOf(version)
        BY DEF Init, NoStore
      <3>3. /\ version \in Versions /\ graphical \in BOOLEAN
            /\ next \in SUBSET Life!Interior /\ phase \in {"main", "tiles", "returned", "over"}
            /\ change \in BOOLEAN /\ stable \in BOOLEAN
            /\ it \in Nat /\ n \in Nat /\ iterations \in Nat
        BY DEF Init
      <3> QED
        BY <2>1, <2>2, <3>1, <3>2, <3>3 DEF TypeOK
  <1>2. UntouchedFlags /\ NothingPending /\ InTiles /\ InReturned
    BY DEF Init, UntouchedFlags, NothingPending, InTiles, InReturned, vie_init
  <1>3. InMain
    <2> SUFFICES ASSUME version.skips PROVE Calm(cur, next, Dirty(version, before, 1))
      BY DEF InMain
    <2>1. Interior \subseteq Dirty(version, before, 1)
      <3>1. \A t \in 0 .. GRAIN * GRAIN - 1 : before[t]
        BY DEF Init, vie_init
      <3> QED
        BY <1>1, <3>1, AllDirty DEF TypeOK
    <2> QED
      BY <2>1 DEF Calm
  <1> QED
    BY <1>1, <1>2, <1>3 DEF Inv

LEMMA InvStutters ==
  ASSUME Inv, UNCHANGED <<version, graphical, cur, next, before, after, it, todo, change,
                          pending, n>>,
         \/ UNCHANGED <<phase, refresh_rate>>
         \/ phase = "main" /\ phase' \in {"main", "over"},
         TypeOK'
  PROVE  Inv'
  <1>2. UntouchedFlags' /\ NothingPending'
    BY DEF Inv, UntouchedFlags, NothingPending, Sequential, Workers, NoStore
  <1>3. InMain'
    BY DEF Inv, InMain
  <1>4. InTiles'
    BY DEF Inv, InTiles, Rate, Sequential, Workers
  <1>5. InReturned'
    BY DEF Inv, InReturned, Sequential
  <1> QED
    BY <1>2, <1>3, <1>4, <1>5 DEF Inv

LEMMA InvAtKeys ==
  ASSUME Inv, TypeOK',
         \/ Space \/ Quit \/ TurnStable \/ Stop
         \/ update_refresh_rate(1) \/ update_refresh_rate(-1)
  PROVE  Inv'
  BY InvStutters DEF Space, Quit, TurnStable, Stop, update_refresh_rate, Rest, keys,
     Waiting, GoesOn, Finished

LEMMA InvAtCall ==
  ASSUME Inv, TypeOK', Call
  PROVE  Inv'
  <1>1. /\ phase = "main" /\ phase' = "tiles" /\ it' = 1
        /\ todo' = TilesOf(version) /\ ~change'
        /\ UNCHANGED <<version, graphical, cur, next, before, after, pending, refresh_rate>>
    BY DEF Call, GoesOn, StartIteration, keys
  <1>3. UntouchedFlags' /\ NothingPending'
    BY <1>1 DEF Inv, UntouchedFlags, NothingPending, Sequential, Workers, NoStore
  <1>4. InMain' /\ InReturned'
    BY <1>1 DEF InMain, InReturned
  <1>5. InTiles'
    <2>1. Rate' = Rate /\ Rate \in Nat \ {0}
      BY <1>1, VieAssumption DEF Inv, TypeOK, Rate
    <2>2. it' \in 1 .. Rate'
      BY <1>1, <2>1
    <2>3. version.skips => Calm(cur', next', Dirty(version', before', it'))
      BY <1>1 DEF Inv, InMain
    <2>4. TilesOf(version') \ todo' = {}
      BY <1>1
    <2>5. ~change' /\ \A w \in Workers : pending'[w] = {}
      BY <1>1 DEF Inv, NothingPending, NoStore
    <2> QED
      BY <1>1, <2>2, <2>3, <2>4, <2>5 DEF InTiles, Workers
  <1> QED
    BY <1>3, <1>4, <1>5 DEF Inv

LEMMA InvAtReturned ==
  ASSUME Inv, TypeOK', Returned
  PROVE  Inv'
  <1>1. /\ phase = "returned" /\ phase' \in {"main", "over"}
        /\ IF graphical THEN before' = after ELSE before' = before
        /\ UNCHANGED <<version, graphical, cur, next, pending>>
    BY DEF Returned, Finished, vie_refresh_img
  <1>2. UntouchedFlags' /\ NothingPending'
    BY <1>1 DEF Inv, UntouchedFlags, NothingPending, Sequential, Workers, NoStore
  <1>3. InTiles' /\ InReturned'
    BY <1>1 DEF InTiles, InReturned
  <1>4. InMain'
    <2> SUFFICES ASSUME version.skips, NEW c \in Interior, c \notin Dirty(version', before', 1)
                 PROVE  SameAt(cur, Rule(cur), c) /\ SameAt(cur, next, c)
      BY <1>1 DEF InMain, Calm, SameAt
    <2>1. /\ cur \in SUBSET Interior /\ next \in SUBSET Interior /\ version \in Versions
          /\ graphical \in BOOLEAN
      BY DEF Inv, TypeOK, Interior
    <2>2. c \in Interior /\ c \in Box(c, 1)
      BY Reflexive
    <2>3. CASE graphical
      <3>1. Box(c, 1) \cap Flagged(version, after) = {}
        BY <1>1, <2>3 DEF Dirty, Flagged, Interior
      <3>2. ASSUME NEW d \in Square(c) \cap Interior PROVE SameAt(cur, next, d)
        <4>1. d \in Box(c, 1)
          BY DEF Square, Box
        <4> QED
          BY <1>1, <3>1, <4>1 DEF Inv, InReturned
      <3>3. SameAt(Rule(cur), Rule(next), c)
        BY <2>1, <3>2, RuleIsLocal
      <3>4. cur = Rule(next)
        BY <1>1 DEF Inv, InReturned
      <3>5. SameAt(cur, next, c)
        BY <3>2, InSquare
      <3> QED
        BY <3>3, <3>4, <3>5 DEF SameAt
    <2>4. CASE ~graphical
      <3>1. \A t \in 0 .. GRAIN * GRAIN - 1 : before[t]
        BY <2>4 DEF Inv, UntouchedFlags
      <3>2. Interior \subseteq Dirty(version, before, 1)
        BY <2>1, <3>1, AllDirty
      <3>3. Dirty(version', before', 1) = Dirty(version, before, 1)
        BY <1>1, <2>4
      <3> QED
        BY <3>2, <3>3
    <2> QED
      BY <2>1, <2>3, <2>4
  <1> QED
    BY <1>2, <1>3, <1>4 DEF Inv

-----------------------------------------------------------------------------
(* The tiles of an iteration. *)

LEMMA InvAtTreat ==
  ASSUME Inv, TypeOK', NEW w \in Workers, NEW t \in todo, Treat(w, t)
  PROVE  Inv'
  <1> USE DEF Inv
  <1>1. /\ phase = "tiles" /\ todo' = todo \ {t} /\ pending[w] = NoStore
        /\ UNCHANGED <<version, graphical, cur, before, phase, it, refresh_rate>>
    BY DEF Treat, keys
  <1>2. PICK ch \in BOOLEAN :
           /\ ch <=> \E c \in Inner(t) : ~SameAt(cur, Rule(cur), c)
           /\ next' = (next \ Inner(t)) \cup (Inner(t) \cap Rule(cur))
           /\ after' = IF version.skips \/ ~version.counts
                       THEN [after EXCEPT ![t] = ch] ELSE after
           /\ change' = IF Sequential THEN change \/ ch ELSE change
           /\ pending' = IF Sequential \/ ~version.counts THEN pending
                         ELSE [pending EXCEPT ![w] = {change \/ ch}]
    BY TreatStores
  <1>3. /\ version \in Versions /\ after \in Flags /\ pending \in [Workers -> SUBSET BOOLEAN]
        /\ change \in BOOLEAN /\ t \in TilesOf(version)
    BY DEF TypeOK
  <1>4. \A c : c \in Inner(t) <=> c \in Interior /\ c \in Area(version, t)
    BY InnerIs
  <1>5. UntouchedFlags' /\ InMain' /\ InReturned'
    BY <1>1 DEF UntouchedFlags, InMain, InReturned
  <1>6. NothingPending'
    BY <1>1, <1>2 DEF NothingPending, Sequential, Workers, NoStore
  <1>7. Rate' = Rate /\ it' \in 1 .. Rate'
    BY <1>1 DEF Rate, InTiles
  <1>8. version.skips => Calm(cur, next', Dirty(version, before, it))
    <2> SUFFICES ASSUME version.skips, NEW c \in Interior \ Dirty(version, before, it)
                 PROVE  SameAt(cur, Rule(cur), c) /\ SameAt(cur, next', c)
      BY DEF Calm
    <2>1. SameAt(cur, Rule(cur), c) /\ SameAt(cur, next, c)
      BY <1>1 DEF InTiles, Calm
    <2> QED
      BY <1>2, <2>1 DEF SameAt
  <1>9. ASSUME NEW u \in TilesOf(version) \ todo', NEW c \in Interior, c \in Area(version, u)
        PROVE  /\ SameAt(next', Rule(cur), c)
               /\ version.skips /\ ~after'[u] => SameAt(cur, Rule(cur), c)
               /\ Sequential /\ ~change' => SameAt(cur, Rule(cur), c)
    <2>1. CASE u = t
      <3>1. c \in Inner(t)
        BY <1>4, <1>9, <2>1
      <3>2. SameAt(next', Rule(cur), c)
        BY <3>1, <1>2 DEF SameAt
      <3>3. ~ch => SameAt(cur, Rule(cur), c)
        BY <3>1, <1>2
      <3>4. version.skips => after'[t] = ch
        <4> SUFFICES ASSUME version.skips PROVE after'[t] = ch
          OBVIOUS
        <4>1. t \in 0 .. GRAIN * GRAIN - 1
          BY <1>3, VersionFacts DEF TilesOf
        <4> QED
          BY <1>2, <1>3, <4>1 DEF Flags
      <3>5. Sequential /\ ~change' => ~ch
        BY <1>2
      <3> QED
        BY <2>1, <3>2, <3>3, <3>4, <3>5
    <2>2. CASE u # t
      <3>1. u \in TilesOf(version) \ todo
        BY <1>1, <2>2
      <3>2. /\ SameAt(next, Rule(cur), c)
            /\ version.skips /\ ~after[u] => SameAt(cur, Rule(cur), c)
            /\ Sequential /\ ~change => SameAt(cur, Rule(cur), c)
        BY <1>1, <1>9, <3>1 DEF InTiles
      <3>3. SameAt(next', Rule(cur), c)
        BY <1>2, <3>2 DEF SameAt
      <3>4. after'[u] = after[u]
        BY <1>2, <1>3, <2>2 DEF Flags
      <3>5. Sequential /\ ~change' => ~change
        BY <1>2
      <3> QED
        BY <3>2, <3>3, <3>4, <3>5
    <2> QED
      BY <2>1, <2>2
  <1>10. change' \/ (\E v \in Workers : TRUE \in pending'[v]) => Rule(cur) # cur
    <2>1. ch => Rule(cur) # cur
      BY <1>2 DEF SameAt
    <2>2. change \/ (\E v \in Workers : TRUE \in pending[v]) => Rule(cur) # cur
      BY <1>1 DEF InTiles
    <2>3. change' => change \/ ch
      BY <1>2
    <2>4. ASSUME NEW v \in Workers, TRUE \in pending'[v]
          PROVE  change \/ ch \/ TRUE \in pending[v]
      <3>1. CASE Sequential \/ ~version.counts
        BY <1>2, <2>4, <3>1
      <3>2. CASE ~(Sequential \/ ~version.counts)
        <4>1. pending' = [pending EXCEPT ![w] = {change \/ ch}]
          BY <1>2, <3>2
        <4>2. CASE v = w
          BY <1>3, <2>4, <4>1, <4>2
        <4>3. CASE v # w
          BY <1>3, <2>4, <4>1, <4>3
        <4> QED
          BY <4>2, <4>3
      <3> QED
        BY <3>1, <3>2
    <2> QED
      BY <2>1, <2>2, <2>3, <2>4
  <1>11. InTiles'
    BY <1>1, <1>7, <1>8, <1>9, <1>10 DEF InTiles, Sequential, Workers
  <1> QED
    BY <1>5, <1>6, <1>11

LEMMA InvAtSkip ==
  ASSUME Inv, TypeOK', RateFits, NEW w \in Workers, NEW t \in todo, Skip(w, t)
  PROVE  Inv'
  <1> USE DEF Inv
  <1>1. /\ phase = "tiles" /\ todo' = todo \ {t}
        /\ version.skips /\ ~has_changed_tuilee_opti(t)
        /\ UNCHANGED <<version, graphical, cur, next, before, after, phase, it, change,
                       pending, refresh_rate>>
    BY DEF Skip, keys
  <1>2. version \in Versions /\ t \in TilesOf(version) /\ graphical \in BOOLEAN
    BY DEF TypeOK
  <1>3. version.grain = GRAIN /\ GRAIN \in Nat \ {0}
    BY <1>1, <1>2, VersionFacts, VieAssumption
  <1>4. graphical
    <2> SUFFICES ASSUME ~graphical PROVE FALSE
      BY <1>2
    <2> DEFINE i == t \div GRAIN
               j == t % GRAIN
    <2>1. i \in 0 .. GRAIN - 1 /\ j \in 0 .. GRAIN - 1
      BY <1>2, <1>3, TileFacts
    <2>2. i * GRAIN + j \in 0 .. GRAIN * GRAIN - 1
      BY <1>3, <2>1, Numbering
    <2>3. before[(i + 0) * GRAIN + (j + 0)]
      BY <2>1, <2>2 DEF UntouchedFlags
    <2>4. 0 \in -1 .. 1 /\ 0 <= i + 0 /\ i + 0 < GRAIN /\ 0 <= j + 0 /\ j + 0 < GRAIN
      BY <1>3, <2>1
    <2> QED
      BY <1>1, <2>3, <2>4 DEF has_changed_tuilee_opti
  <1>5. it \in Nat /\ it <= DIM \div GRAIN
    <2>1. it \in 1 .. Rate /\ Rate = refresh_rate
      BY <1>1, <1>4 DEF InTiles, Rate
    <2>2. refresh_rate <= DIM \div GRAIN /\ refresh_rate \in Nat
      BY <1>1, <1>4 DEF RateFits, TypeOK
    <2>3. DIM \div GRAIN \in Nat
      BY VieAssumption, Division
    <2> QED
      BY <2>1, <2>2, <2>3
  <1>6. ASSUME NEW c \in Interior, c \in Area(version, t)
        PROVE  SameAt(cur, Rule(cur), c) /\ SameAt(next, Rule(cur), c)
    <2>1. c \notin Dirty(version, before, it)
      BY <1>1, <1>2, <1>5, <1>6, SkippedIsClean
    <2> QED
      BY <1>1, <2>1 DEF InTiles, Calm, SameAt
  <1>7. UntouchedFlags' /\ NothingPending' /\ InMain' /\ InReturned'
    BY <1>1 DEF UntouchedFlags, NothingPending, InMain, InReturned, Sequential, Workers
  <1>8. InTiles'
    <2>1. ASSUME NEW u \in TilesOf(version) \ todo', NEW c \in Interior, c \in Area(version, u)
          PROVE  /\ SameAt(next, Rule(cur), c)
                 /\ version.skips /\ ~after[u] => SameAt(cur, Rule(cur), c)
                 /\ Sequential /\ ~change => SameAt(cur, Rule(cur), c)
      <3>1. CASE u = t
        BY <1>6, <2>1, <3>1
      <3>2. CASE u # t
        BY <1>1, <2>1, <3>2 DEF InTiles
      <3> QED
        BY <3>1, <3>2
    <2>2. /\ it \in 1 .. Rate
          /\ version.skips => Calm(cur, next, Dirty(version, before, it))
          /\ change \/ (\E v \in Workers : TRUE \in pending[v]) => Rule(cur) # cur
          /\ Rate' = Rate
      BY <1>1 DEF InTiles, Rate
    <2> QED
      BY <1>1, <2>1, <2>2 DEF InTiles, Sequential, Workers
  <1> QED
    BY <1>7, <1>8

LEMMA InvAtStore ==
  ASSUME Inv, TypeOK', NEW w \in Workers, Store(w)
  PROVE  Inv'
  <1> USE DEF Inv
  <1>1. /\ change' \in pending[w] /\ pending' = [pending EXCEPT ![w] = NoStore]
        /\ UNCHANGED <<version, graphical, cur, next, before, after, phase, it, todo, n,
                       refresh_rate>>
    BY DEF Store, keys
  <1>2. phase = "tiles" /\ ~Sequential
    BY <1>1 DEF NothingPending, NoStore
  <1>3. pending \in [Workers -> SUBSET BOOLEAN]
    BY DEF TypeOK
  <1>4. UntouchedFlags' /\ NothingPending' /\ InMain' /\ InReturned'
    BY <1>1, <1>2 DEF UntouchedFlags, NothingPending, InMain, InReturned, Sequential, Workers
  <1>5. change' \/ (\E v \in Workers : TRUE \in pending'[v])
          => \E v \in Workers : TRUE \in pending[v]
    <2>1. change' => TRUE \in pending[w]
      BY <1>1, <1>3
    <2>2. \A v \in Workers : TRUE \in pending'[v] => TRUE \in pending[v]
      BY <1>1, <1>3 DEF NoStore
    <2> QED
      BY <2>1, <2>2
  <1>6. InTiles'
    <2>1. Rate' = Rate
      BY <1>1 DEF Rate
    <2>2. Sequential' = Sequential
      BY <1>1 DEF Sequential
    <2> QED
      BY <1>1, <1>2, <1>5, <2>1, <2>2 DEF InTiles, Workers
  <1> QED
    BY <1>4, <1>6

(* When all the tiles are done, next_img is the next generation. *)
LEMMA AllTilesDone ==
  ASSUME Inv, phase = "tiles", todo = {}
  PROVE  /\ next = Rule(cur)
         /\ Sequential /\ ~change => cur = Rule(cur)
  <1>1. cur \in SUBSET Interior /\ next \in SUBSET Interior /\ version \in Versions
    BY DEF Inv, TypeOK, Interior
  <1>2. Rule(cur) \in SUBSET Interior
    BY <1>1, RuleInside
  <1>3. \A c \in Interior : /\ SameAt(next, Rule(cur), c)
                            /\ Sequential /\ ~change => SameAt(cur, Rule(cur), c)
    <2> TAKE c \in Interior
    <2>1. PICK t \in TilesOf(version) : c \in Area(version, t)
      BY <1>1, Covered
    <2> QED
      BY <2>1 DEF Inv, InTiles
  <1> QED
    BY <1>1, <1>2, <1>3, SameImages

LEMMA InvAtSwap ==
  ASSUME Inv, TypeOK', Swap
  PROVE  Inv'
  <1> USE DEF Inv
  <1>1. /\ phase = "tiles" /\ todo = {} /\ \A w \in Workers : pending[w] = NoStore
        /\ cur' = next /\ next' = cur
        /\ UNCHANGED <<version, graphical, before, after, pending, refresh_rate>>
    BY DEF Swap, keys
  <1>2. next = Rule(cur) /\ (Sequential /\ ~change => cur = Rule(cur))
    BY <1>1, AllTilesDone
  <1>3. UntouchedFlags' /\ NothingPending'
    BY <1>1 DEF UntouchedFlags, NothingPending, Sequential, Workers
  <1>4. /\ cur \in SUBSET Interior /\ next \in SUBSET Interior /\ version \in Versions
        /\ it \in Nat
    BY DEF TypeOK, Interior
  <1>5. CASE version.counts /\ change /\ it < Rate
    <2>1. it' = it + 1 /\ todo' = TilesOf(version) /\ ~change' /\ phase' = "tiles"
      <3>1. it' = it + 1 /\ StartIteration
        BY <1>5 DEF Swap
      <3> QED
        BY <3>1 DEF StartIteration
    <2>2. Rate' = Rate /\ it' \in 1 .. Rate'
      <3>1. Rate' = Rate /\ Rate \in Nat
        BY <1>1, VieAssumption DEF Rate, TypeOK
      <3> QED
        BY <1>4, <1>5, <2>1, <3>1
    <2>3. version.skips => Calm(next, cur, Dirty(version, before, it + 1))
      <3> SUFFICES ASSUME version.skips, NEW c \in Interior \ Dirty(version, before, it + 1)
                   PROVE  SameAt(next, Rule(next), c) /\ SameAt(next, cur, c)
        BY DEF Calm
      <3>1. \A d \in Square(c) \cap Interior : SameAt(cur, Rule(cur), d)
        <4> TAKE d \in Square(c) \cap Interior
        <4>1. d \notin Dirty(version, before, it)
          BY <1>4, Spread
        <4> QED
          BY <1>1, <4>1 DEF InTiles, Calm
      <3>2. \A d \in Square(c) \cap Interior : SameAt(cur, next, d)
        BY <1>2, <3>1
      <3>3. SameAt(Rule(cur), Rule(next), c)
        BY <1>4, <3>2, RuleIsLocal
      <3>4. SameAt(cur, next, c)
        BY <3>2, InSquare
      <3> QED
        BY <1>2, <3>3, <3>4 DEF SameAt
    <2>4. InTiles'
      BY <1>1, <2>1, <2>2, <2>3 DEF InTiles, Workers, NoStore
    <2>5. InMain' /\ InReturned'
      BY <2>1 DEF InMain, InReturned
    <2> QED
      BY <1>3, <2>4, <2>5
  <1>6. CASE ~(version.counts /\ change /\ it < Rate)
    <2>1. /\ n' = (IF version.counts /\ ~change THEN it ELSE 0)
          /\ phase' = "returned"
      BY <1>6 DEF Swap
    <2>2. version.skips =>
             \A c \in Interior : ~SameAt(next, cur, c) => c \in Flagged(version, after)
      <3> SUFFICES ASSUME version.skips, NEW c \in Interior, ~SameAt(next, cur, c)
                   PROVE  c \in Flagged(version, after)
        OBVIOUS
      <3>1. ASSUME NEW t \in TilesOf(version), c \in Area(version, t) PROVE after[t]
        <4>1. ~SameAt(cur, Rule(cur), c)
          BY <1>2 DEF SameAt
        <4> QED
          BY <1>1, <3>1, <4>1 DEF InTiles
      <3> QED
        BY <3>1 DEF Flagged
    <2>3. version.counts /\ next = cur => n' > 0
      <3> SUFFICES ASSUME version.counts, next = cur PROVE n' > 0
        OBVIOUS
      <3>1. ~change
        BY <1>1, <1>2 DEF InTiles
      <3>2. it > 0
        BY <1>1, <1>4 DEF InTiles
      <3> QED
        BY <2>1, <3>1, <3>2
    <2>4. Sequential /\ n' > 0 => next = cur
      BY <1>2, <2>1
    <2>5. InReturned'
      BY <1>1, <1>2, <2>1, <2>2, <2>3, <2>4 DEF InReturned, Sequential
    <2>6. InMain' /\ InTiles'
      BY <2>1 DEF InMain, InTiles
    <2> QED
      BY <1>3, <2>5, <2>6
  <1> QED
    BY <1>5, <1>6

-----------------------------------------------------------------------------

LEMMA InvIsInductive == Inv /\ RateFits /\ [Next]_vars => Inv'
  <1> SUFFICES ASSUME Inv, RateFits, [Next]_vars PROVE Inv'
    OBVIOUS
  <1>1. TypeOK'
    BY TypePreserved DEF Inv
  <1>2. CASE UNCHANGED vars
    BY <1>1, <1>2, InvStutters DEF vars, keys
  <1>3. CASE \/ Space \/ Quit \/ TurnStable \/ Stop
             \/ update_refresh_rate(1) \/ update_refresh_rate(-1)
    BY <1>1, <1>3, InvAtKeys
  <1>4. CASE Call
    BY <1>1, <1>4, InvAtCall
  <1>5. CASE Returned
    BY <1>1, <1>5, InvAtReturned
  <1>6. CASE Swap
    BY <1>1, <1>6, InvAtSwap
  <1>7. CASE \E w \in Workers, t \in todo : Treat(w, t)
    BY <1>1, <1>7, InvAtTreat
  <1>8. CASE \E w \in Workers, t \in todo : Skip(w, t)
    BY <1>1, <1>8, InvAtSkip
  <1>9. CASE \E w \in Workers : Store(w)
    BY <1>1, <1>9, InvAtStore
  <1> QED
    BY <1>2, <1>3, <1>4, <1>5, <1>6, <1>7, <1>8, <1>9 DEF Next

(* The types of the kernel's and main's variables. *)
THEOREM VieTypes == Spec => []TypeOK
  <1>1. Init => TypeOK
    BY InvAtInit DEF Inv
  <1> QED
    BY <1>1, TypePreserved, PTL DEF Spec

(* The rate fits when neither the option nor a key sets a larger one.      *)
THEOREM SmallRatesFit ==
  ASSUME \A r \in KeyRates \cup {RefreshRate} : r <= DIM \div GRAIN
  PROVE  Spec => []RateFits
  <1> DEFINE Chosen == refresh_rate \in KeyRates \cup {RefreshRate}
  <1>1. Init => Chosen
    BY DEF Init
  <1>2. Chosen /\ [Next]_vars => Chosen'
    BY DEF Next, vars, keys, Rest, Space, update_refresh_rate, Quit, TurnStable, Stop, Call,
       Returned, Treat, Skip, Store, Swap
  <1>3. Chosen => RateFits
    BY DEF RateFits
  <1> QED
    BY <1>1, <1>2, <1>3, PTL DEF Spec

(* As long as the rate fits, a sequential version announces that the image *)
(* is stable exactly when it is, and a parallel one that counts never      *)
(* misses it (vie.c:104, 227, 327, 391).                                   *)
THEOREM FixpointsFound == Spec /\ []RateFits => []FixpointsAreFound
  <1>1. Inv => FixpointsAreFound
    BY DEF Inv, InReturned, FixpointsAreFound
  <1> QED
    BY <1>1, InvAtInit, InvIsInductive, PTL DEF Spec

(* As long as the rate fits, every version of the kernel implements the    *)
(* game of life: each swap of the images is one generation of the whole    *)
(* board, whichever tiles are skipped and in whatever order the threads    *)
(* treat the others.                                                       *)
THEOREM VersionsImplementLife == Spec /\ []RateFits => ImplementsLife
  <1>1. Init => Life!Init
    BY DEF Init, Life!Init
  <1>2. Inv /\ [Next]_vars => [Life!Next]_cur
    <2> SUFFICES ASSUME Inv, [Next]_vars PROVE [Life!Next]_cur
      OBVIOUS
    <2>1. CASE Swap
      <3>1. next = Rule(cur) /\ cur' = next
        BY <2>1, AllTilesDone DEF Swap
      <3> QED
        BY <3>1 DEF Life!Next, Rule
    <2>2. CASE cur' = cur
      BY <2>2
    <2>3. Swap \/ cur' = cur
      BY DEF Next, vars, Space, update_refresh_rate, Quit, TurnStable, Stop, Rest, Call,
         Returned, Treat, Skip, Store
    <2> QED
      BY <2>1, <2>2, <2>3
  <1> QED
    BY <1>1, <1>2, InvAtInit, InvIsInductive, PTL DEF Spec, ImplementsLife, Life!Spec

===============================================================================
