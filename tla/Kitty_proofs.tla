---------------------------- MODULE Kitty_proofs -----------------------------
(***************************************************************************)
(* For any number of players, any board and any addresses: no friend that  *)
(* may act has a target that was freed, whoever is displayed is alive, and *)
(* every step of a turn takes it nearer to its end.                        *)
(***************************************************************************)
EXTENDS Kitty, FiniteSetTheorems, SequenceTheorems, TLAPS

(* The array of entities holds each one once, the index stays in the array   *)
(* or one past it, and each entity has chosen a cell when its move comes.    *)
Shape ==
  /\ IsInjective(entities)
  /\ cells \in Seq(Cell)
  /\ i \in 1 .. Len(entities) + 1
  /\ phase = "choose" => Len(cells) = i - 1
  /\ phase = "move" => Len(cells) = Len(entities)
  /\ phase \in {"play", "purge", "display"} => cells = <<>>

Armed == \A f \in Friends : (mem[f].regen \/ mem[f].ready) => mem[f].target \in Alive

(* An entity that a purge would leave.                                       *)
Living(e) == mem[e].life > 0 /\ (mem[e].type = "friend" => mem[e].lifespan > 0)

(* The lives and the times left, loop by loop: a purge has been through the  *)
(* entities in front of its index.                                           *)
Lives ==
  /\ phase \in {"choose", "move", "display"} => \A e \in Alive : Living(e)
  /\ phase = "play" => \A e \in Friends : mem[e].lifespan > 0
  /\ phase = "purge" => /\ \A e \in Friends : mem[e].lifespan >= 0
                        /\ \A j \in 1 .. i - 1 : Living(entities[j])

IInv == TypeOK /\ Shape /\ Armed /\ Lives

-----------------------------------------------------------------------------
(* What is kept at a freed address has the type of an entity.                *)
LEMMA FreedType == Freed \in Entity
  <1>1. <<0, 0>> \in Cell
    BY KittyAssumption DEF Cell
  <1>2. 0 \in DeadForGood .. MaxLife
    BY KittyAssumption DEF DeadForGood
  <1> QED BY <1>1, <1>2 DEF Freed, Entity

(* The changes the turn makes to an entity leave an entity.                  *)
LEMMA ChangeType ==
  ASSUME NEW e \in Entity
  PROVE  /\ \A life \in DeadForGood .. MaxLife : [e EXCEPT !.life = life] \in Entity
         /\ \A pos \in Cell : [e EXCEPT !.pos = pos] \in Entity
         /\ \A time \in Int : [e EXCEPT !.lifespan = time] \in Entity
         /\ \A ready \in BOOLEAN : [e EXCEPT !.ready = ready] \in Entity
         /\ [e EXCEPT !.regen = FALSE] \in Entity
         /\ [e EXCEPT !.lifespan = 1, !.ready = FALSE, !.regen = FALSE] \in Entity
  <1>1. \A life \in DeadForGood .. MaxLife : [e EXCEPT !.life = life] \in Entity
    BY DEF Entity
  <1>2. \A pos \in Cell : [e EXCEPT !.pos = pos] \in Entity
    BY DEF Entity
  <1>3. ASSUME NEW d \in Entity PROVE \A time \in Int : [d EXCEPT !.lifespan = time] \in Entity
    BY DEF Entity
  <1>4. ASSUME NEW d \in Entity PROVE \A ready \in BOOLEAN : [d EXCEPT !.ready = ready] \in Entity
    BY DEF Entity
  <1>5. ASSUME NEW d \in Entity PROVE [d EXCEPT !.regen = FALSE] \in Entity
    BY DEF Entity
  <1>6. [e EXCEPT !.lifespan = 1, !.ready = FALSE, !.regen = FALSE] \in Entity
    <2>1. [e EXCEPT !.lifespan = 1, !.ready = FALSE, !.regen = FALSE]
            = [[[e EXCEPT !.lifespan = 1] EXCEPT !.ready = FALSE] EXCEPT !.regen = FALSE]
      OBVIOUS
    <2>2. [e EXCEPT !.lifespan = 1] \in Entity
      BY <1>3
    <2>3. [[e EXCEPT !.lifespan = 1] EXCEPT !.ready = FALSE] \in Entity
      BY <2>2, <1>4
    <2> QED BY <2>1, <2>3, <1>5
  <1> QED BY <1>1, <1>2, <1>3, <1>4, <1>5, <1>6

(* die(k) (game.c:58): the array loses entities[k] only, in front of k it is *)
(* as it was, and the friends that lose their target are disarmed.           *)
LEMMA DieEffect ==
  ASSUME TypeOK, IsInjective(entities), Armed, NEW k \in 1 .. Len(entities), Die(k)
  PROVE  /\ entities' \in Seq(Addr) /\ Len(entities') = Len(entities) - 1
         /\ IsInjective(entities')
         /\ Alive' = Alive \ {entities[k]}
         /\ \A j \in 1 .. k - 1 : j <= Len(entities') => entities'[j] = entities[j]
         /\ mem' \in [Addr -> Entity]
         /\ \A a \in Alive' : /\ mem'[a].type = mem[a].type
                              /\ mem'[a].life = mem[a].life
                              /\ mem'[a].lifespan \in {mem[a].lifespan, 1}
         /\ Armed'
  <1> DEFINE n == Len(entities)
             dead == entities[k]
  <1>1. n \in Nat \ {0} /\ DOMAIN entities = 1 .. n /\ \A j \in 1 .. n : entities[j] \in Addr
    BY DEF TypeOK
  <1>2. /\ entities' = [j \in 1 .. n - 1 |-> IF j = k THEN entities[n] ELSE entities[j]]
        /\ mem' = Orphaned(dead)
    BY DEF Die, Without, Last
  <1>3. entities' \in Seq(Addr) /\ Len(entities') = n - 1
    <2>1. n - 1 \in Nat /\ entities' \in [1 .. n - 1 -> Addr]
      BY <1>1, <1>2
    <2>2. entities' \in Seq(Addr)
      BY <2>1, SeqDef
    <2>3. DOMAIN entities' = 1 .. n - 1
      BY <2>1
    <2> QED BY <2>1, <2>2, <2>3, LenProperties
  <1>4. IsInjective(entities')
    BY <1>1, <1>2 DEF IsInjective
  <1>5. Alive' = Alive \ {dead}
    <2>1. ASSUME NEW a \in Alive' PROVE a \in Alive \ {dead}
      BY <2>1, <1>1, <1>2 DEF Alive, ToSet, IsInjective
    <2>2. ASSUME NEW a \in Alive \ {dead} PROVE a \in Alive'
      <3>1. PICK j \in 1 .. n : a = entities[j]
        BY <2>2, <1>1 DEF Alive, ToSet
      <3>2. j # k
        BY <3>1, <2>2
      <3>3. CASE j = n
        <4>1. k \in 1 .. n - 1 /\ entities'[k] = a
          BY <3>1, <3>2, <3>3, <1>1, <1>2
        <4> QED BY <4>1, <1>2 DEF Alive, ToSet
      <3>4. CASE j # n
        <4>1. j \in 1 .. n - 1
          <5>1. n \in Nat /\ j \in 1 .. n
            BY <1>1
          <5> HIDE DEF n
          <5> QED BY <5>1, <3>4
        <4>2. entities'[j] = a
          BY <4>1, <3>1, <3>2, <1>2
        <4> QED BY <4>1, <4>2, <1>2 DEF Alive, ToSet
      <3> QED BY <3>3, <3>4
    <2> QED BY <2>1, <2>2
  <1>6. \A j \in 1 .. k - 1 : j <= Len(entities') => entities'[j] = entities[j]
    BY <1>1, <1>2, <1>3
  <1> DEFINE orphan(a) == a \in Friends \ {dead} /\ mem[a].target = dead
  <1>7. ASSUME NEW a \in Addr
        PROVE mem'[a] = IF a = dead THEN Freed
                        ELSE IF orphan(a)
                        THEN [mem[a] EXCEPT !.lifespan = 1, !.ready = FALSE, !.regen = FALSE]
                        ELSE mem[a]
    BY <1>2 DEF Orphaned
  <1>8. mem' \in [Addr -> Entity]
    <2>1. ASSUME NEW a \in Addr PROVE mem'[a] \in Entity
      <3>1. mem[a] \in Entity
        BY DEF TypeOK
      <3>2. [mem[a] EXCEPT !.lifespan = 1, !.ready = FALSE, !.regen = FALSE] \in Entity
        BY <3>1, ChangeType
      <3> QED BY <3>1, <3>2, <1>7, FreedType
    <2>2. mem' = [a \in Addr |-> mem'[a]]
      BY <1>2 DEF Orphaned
    <2> QED BY <2>1, <2>2
  <1> HIDE DEF dead
  <1>9. Alive \subseteq Addr
    BY <1>1 DEF Alive, ToSet
  <1>10. ASSUME NEW a \in Alive'
         PROVE  /\ mem'[a].type = mem[a].type
                /\ mem'[a].life = mem[a].life
                /\ mem'[a].lifespan \in {mem[a].lifespan, 1}
    <2>1. a \in Addr /\ a # dead /\ mem[a] \in Entity
      BY <1>5, <1>9 DEF TypeOK
    <2> QED BY <2>1, <1>7 DEF Entity
  <1>11. Armed'
    <2> SUFFICES ASSUME NEW f \in Friends', mem'[f].regen \/ mem'[f].ready
                 PROVE  mem'[f].target \in Alive'
      BY DEF Armed
    <2>1. f \in Alive' /\ f \in Alive /\ f \in Addr /\ f # dead /\ mem[f] \in Entity
      BY <1>5, <1>9 DEF Friends, TypeOK
    <2>2. f \in Friends
      BY <2>1, <1>10 DEF Friends
    <2>3. CASE mem[f].target = dead
      <3>1. mem'[f] = [mem[f] EXCEPT !.lifespan = 1, !.ready = FALSE, !.regen = FALSE]
        BY <2>1, <2>2, <2>3, <1>7
      <3>2. mem'[f].regen = FALSE /\ mem'[f].ready = FALSE
        BY <3>1, <2>1 DEF Entity
      <3> QED BY <3>2
    <2>4. CASE mem[f].target # dead
      <3>1. mem'[f] = mem[f]
        BY <2>1, <2>4, <1>7
      <3>2. mem[f].target \in Alive
        BY <3>1, <2>2 DEF Armed
      <3> QED BY <3>1, <3>2, <2>4, <1>5
    <2> QED BY <2>3, <2>4
  <1> QED BY <1>3, <1>4, <1>5, <1>6, <1>8, <1>10, <1>11 DEF dead

(* The players stand on cells of their own, with life.                       *)
LEMMA InitInv == Init => IInv
  <1> SUFFICES ASSUME Init PROVE IInv
    OBVIOUS
  <1>1. entities \in Injection(1 .. NPlayers, Addr)
    <2>1. Cardinality(Addr) \in Nat /\ ExistsBijection(1 .. Cardinality(Addr), Addr)
      BY KittyAssumption, FS_CardinalityType
    <2>2. PICK f \in Bijection(1 .. Cardinality(Addr), Addr) : TRUE
      BY <2>1 DEF ExistsBijection
    <2>3. f \in [1 .. Cardinality(Addr) -> Addr] /\ IsInjective(f)
      BY <2>2 DEF Bijection, Injection
    <2>4. \A k \in 1 .. NPlayers : k \in 1 .. Cardinality(Addr)
      BY <2>1, KittyAssumption
    <2>5. [k \in 1 .. NPlayers |-> f[k]] \in Injection(1 .. NPlayers, Addr)
      BY <2>3, <2>4 DEF Injection, IsInjective
    <2> QED BY <2>5 DEF Init
  <1>2. /\ NPlayers \in Nat /\ entities \in [1 .. NPlayers -> Addr] /\ IsInjective(entities)
    <2>1. NPlayers \in Nat
      <3>1. Cardinality(Addr) \in Nat
        BY KittyAssumption, FS_CardinalityType
      <3> QED BY <3>1, KittyAssumption
    <2> QED BY <1>1, <2>1 DEF Injection
  <1>3. entities \in Seq(Addr) /\ Len(entities) = NPlayers /\ DOMAIN entities = 1 .. NPlayers
    BY <1>2, SeqDef, LenProperties
  <1>4. PICK pos \in Injection(1 .. NPlayers, Cell) :
          /\ board = [c \in Cell |-> IF c \in Range(pos) THEN 1 ELSE 0]
          /\ mem = [a \in Addr |->
               IF a \in ToSet(entities)
               THEN [Freed EXCEPT !.life = PlayerLife, !.regen = TRUE,
                                  !.pos = pos[CHOOSE k \in 1 .. NPlayers : entities[k] = a]]
               ELSE Freed]
    BY DEF Init
  <1>5. ASSUME NEW a \in Addr
        PROVE  /\ mem[a] \in Entity
               /\ mem[a].type = "player"
               /\ a \in Alive => mem[a].life > 0
    <2>1. CASE a \notin ToSet(entities)
      <3>1. mem[a] = Freed
        BY <1>4, <2>1
      <3>2. a \notin Alive
        BY <2>1 DEF Alive
      <3> QED BY <3>1, <3>2, FreedType DEF Freed
    <2>2. CASE a \in ToSet(entities)
      <3> DEFINE k == CHOOSE k \in 1 .. NPlayers : entities[k] = a
                 c == pos[k]
      <3>1. k \in 1 .. NPlayers
        BY <2>2, <1>3 DEF ToSet
      <3>2. c \in Cell
        BY <3>1 DEF Injection
      <3>3. mem[a] = [Freed EXCEPT !.life = PlayerLife, !.regen = TRUE, !.pos = c]
        BY <1>4, <2>2
      <3> HIDE DEF c
      <3>4. mem[a] = [type |-> "player", life |-> PlayerLife, pos |-> c, regen |-> TRUE,
                      ready |-> FALSE, card |-> None, target |-> None, lifespan |-> 0]
        BY <3>3 DEF Freed
      <3>5. PlayerLife \in DeadForGood .. MaxLife /\ PlayerLife > 0
        BY KittyAssumption DEF DeadForGood
      <3>6. mem[a] \in Entity
        BY <3>2, <3>4, <3>5 DEF Entity
      <3> QED BY <3>4, <3>5, <3>6
    <2> QED BY <2>1, <2>2
  <1>6. Alive \subseteq Addr
    BY <1>3 DEF Alive, ToSet
  <1>7. TypeOK
    <2>1. mem \in [Addr -> Entity]
      BY <1>4, <1>5
    <2>2. board \in [Cell -> {0, 1}]
      BY <1>4
    <2> QED BY <2>1, <2>2, <1>3 DEF TypeOK, Init
  <1>8. Shape
    <2>1. cells = <<>> /\ i = 1 /\ phase = "choose"
      BY DEF Init
    <2>2. cells \in Seq(Cell) /\ Len(cells) = 0 /\ i \in 1 .. Len(entities) + 1
      BY <2>1, <1>2, <1>3
    <2> QED BY <2>1, <2>2, <1>2 DEF Shape
  <1>9. Friends = {}
    BY <1>5, <1>6 DEF Friends
  <1>10. Armed
    BY <1>9 DEF Armed
  <1>11. Lives
    BY <1>5, <1>6, <1>9 DEF Lives, Living, Init
  <1> QED BY <1>7, <1>8, <1>10, <1>11 DEF IInv

-----------------------------------------------------------------------------
(* A step that changes no entity's type, target or place in the array, and   *)
(* arms nobody, leaves the targets alive.                                    *)
LEMMA StillArmed ==
  ASSUME Armed, entities' = entities,
         \A a \in Alive : /\ mem'[a].type = mem[a].type
                          /\ mem'[a].target = mem[a].target
                          /\ mem'[a].regen \/ mem'[a].ready => mem[a].regen \/ mem[a].ready
  PROVE  Alive' = Alive /\ Friends' = Friends /\ Armed'
  <1>1. Alive' = Alive
    BY DEF Alive
  <1>2. Friends' = Friends
    BY <1>1 DEF Friends
  <1>3. \A f \in Friends : f \in Alive
    BY DEF Friends
  <1> QED BY <1>1, <1>2, <1>3 DEF Armed

(* Who is in the array has an address, and so has the entity at the index.   *)
LEMMA AliveType ==
  ASSUME TypeOK, Shape
  PROVE  /\ Alive \subseteq Addr
         /\ \A j \in 1 .. Len(entities) : entities[j] \in Alive
         /\ \A a \in Alive : mem[a] \in Entity
         /\ Len(entities) \in Nat
         /\ i <= Len(entities) => Self \in Alive
  <1>1. Len(entities) \in Nat /\ DOMAIN entities = 1 .. Len(entities)
    BY DEF TypeOK
  <1>2. \A j \in 1 .. Len(entities) : entities[j] \in Alive
    BY <1>1 DEF Alive, ToSet
  <1>3. Alive \subseteq Addr
    BY <1>1 DEF Alive, ToSet, TypeOK
  <1>4. \A a \in Alive : mem[a] \in Entity
    BY <1>3 DEF TypeOK
  <1>5. i <= Len(entities) => i \in 1 .. Len(entities)
    BY <1>1 DEF Shape
  <1> QED BY <1>1, <1>2, <1>3, <1>4, <1>5 DEF Self

(* Paying for a card changes whether the caster is ready, and only a friend  *)
(* that was ready. (game.c:5)                                                *)
LEMMA PaidEffect ==
  ASSUME IInv, InLoop("play"), NEW card, NEW target \in Addr, Casts(card, target),
         NEW paid \in Paid
  PROVE  /\ paid \in [Addr -> Entity]
         /\ \A a \in Addr : /\ paid[a].type = mem[a].type
                            /\ paid[a].life = mem[a].life
                            /\ paid[a].lifespan = mem[a].lifespan
                            /\ paid[a].target = mem[a].target
                            /\ paid[a].regen = mem[a].regen
                            /\ paid[a].ready => mem[a].ready
  <1>1. Self \in Alive /\ Self \in Addr /\ mem[Self] \in Entity /\ mem \in [Addr -> Entity]
    BY AliveType DEF IInv, InLoop, TypeOK
  <1>2. CASE mem[Self].type = "player"
    BY <1>1, <1>2 DEF Paid
  <1>3. CASE mem[Self].type # "player"
    <2>1. mem[Self].type = "friend"
      BY <1>1, <1>3 DEF Entity
    <2>2. mem[Self].ready
      BY <2>1 DEF Casts
    <2>3. PICK ready \in BOOLEAN : paid = [mem EXCEPT ![Self].ready = ready]
      BY <1>3 DEF Paid
    <2> DEFINE s == [mem[Self] EXCEPT !.ready = ready]
    <2>4. s \in Entity
      BY <1>1, ChangeType
    <2>5. /\ s.type = mem[Self].type /\ s.life = mem[Self].life
          /\ s.lifespan = mem[Self].lifespan /\ s.target = mem[Self].target
          /\ s.regen = mem[Self].regen /\ (s.ready => mem[Self].ready)
      BY <1>1, <2>2 DEF Entity
    <2>6. paid = [mem EXCEPT ![Self] = s]
      BY <2>3
    <2> HIDE DEF s
    <2>7. \A a \in Addr : paid[a] = IF a = Self THEN s ELSE mem[a]
      BY <2>6, <1>1
    <2>8. paid \in [Addr -> Entity]
      BY <2>4, <2>6, <1>1
    <2> QED BY <2>5, <2>7, <2>8
  <1> QED BY <1>2, <1>3

(* A card that was paid and then changes lives at most.                      *)
LEMMA PlayInv ==
  ASSUME IInv, InLoop("play"), NEW card, NEW target \in Addr, Casts(card, target),
         NEW paid \in Paid,
         mem' \in [Addr -> Entity],
         \A a \in Addr : \E life \in DeadForGood .. MaxLife :
            mem'[a] = [paid[a] EXCEPT !.life = life],
         board' \in [Cell -> {0, 1}],
         Step, UNCHANGED <<entities, cells, turn, winner>>
  PROVE  IInv'
  <1>1. /\ paid \in [Addr -> Entity]
        /\ \A a \in Addr : /\ paid[a].type = mem[a].type
                           /\ paid[a].lifespan = mem[a].lifespan
                           /\ paid[a].target = mem[a].target
                           /\ paid[a].regen = mem[a].regen
                           /\ paid[a].ready => mem[a].ready
    BY PaidEffect
  <1>2. ASSUME NEW a \in Addr
        PROVE  /\ mem'[a].type = mem[a].type
               /\ mem'[a].lifespan = mem[a].lifespan
               /\ mem'[a].target = mem[a].target
               /\ mem'[a].regen \/ mem'[a].ready => mem[a].regen \/ mem[a].ready
    <2>1. PICK life \in DeadForGood .. MaxLife : mem'[a] = [paid[a] EXCEPT !.life = life]
      OBVIOUS
    <2>2. paid[a] \in Entity
      BY <1>1
    <2>3. /\ mem'[a].type = paid[a].type /\ mem'[a].lifespan = paid[a].lifespan
          /\ mem'[a].target = paid[a].target /\ mem'[a].regen = paid[a].regen
          /\ mem'[a].ready = paid[a].ready
      BY <2>1, <2>2 DEF Entity
    <2> QED BY <2>3, <1>1
  <1>3. Alive \subseteq Addr /\ Len(entities) \in Nat
    BY AliveType DEF IInv
  <1>4. Alive' = Alive /\ Friends' = Friends /\ Armed'
    BY <1>2, <1>3, StillArmed DEF IInv
  <1>5. TypeOK'
    BY DEF IInv, TypeOK, Step
  <1>6. i' \in 1 .. Len(entities) + 1 /\ phase' = "play"
    BY <1>3 DEF IInv, Shape, Step, InLoop
  <1>7. Shape'
    BY <1>6 DEF IInv, Shape, InLoop
  <1>8. Lives'
    <2>1. \A e \in Friends : e \in Addr
      BY <1>3 DEF Friends
    <2> QED BY <1>2, <1>4, <1>6, <2>1 DEF IInv, Lives, InLoop
  <1> QED BY <1>4, <1>5, <1>7, <1>8 DEF IInv

(* A card that was paid and then changes the life of one entity at most.     *)
LEMMA OneLifeInv ==
  ASSUME IInv, InLoop("play"), NEW card, NEW target \in Addr, Casts(card, target),
         NEW paid \in Paid, NEW hit \in Addr, NEW life \in DeadForGood .. MaxLife,
         mem' = paid \/ mem' = [paid EXCEPT ![hit].life = life],
         board' \in [Cell -> {0, 1}],
         Step, UNCHANGED <<entities, cells, turn, winner>>
  PROVE  IInv'
  <1>1. paid \in [Addr -> Entity]
    BY PaidEffect
  <1> DEFINE s == [paid[hit] EXCEPT !.life = life]
  <1>2. s \in Entity
    BY <1>1, ChangeType
  <1>3. mem' = paid \/ mem' = [paid EXCEPT ![hit] = s]
    OBVIOUS
  <1>4. ASSUME NEW a \in Addr
        PROVE  \E new \in DeadForGood .. MaxLife : paid[a] = [paid[a] EXCEPT !.life = new]
    <2>1. paid[a] \in Entity
      BY <1>1
    <2>2. paid[a].life \in DeadForGood .. MaxLife
      BY <2>1 DEF Entity
    <2>3. paid[a] = [paid[a] EXCEPT !.life = paid[a].life]
      BY <2>1 DEF Entity
    <2> QED BY <2>2, <2>3
  <1>5. \A a \in Addr : \E new \in DeadForGood .. MaxLife :
           mem'[a] = [paid[a] EXCEPT !.life = new]
    <2>1. CASE mem' = paid
      BY <2>1, <1>4
    <2>2. CASE mem' = [paid EXCEPT ![hit] = s]
      <3>1. \A a \in Addr : mem'[a] = IF a = hit THEN s ELSE paid[a]
        BY <2>2, <1>1
      <3> QED BY <3>1, <1>4
    <2> QED BY <1>3, <2>1, <2>2
  <1> HIDE DEF s
  <1>6. mem' \in [Addr -> Entity]
    BY <1>1, <1>2, <1>3
  <1> QED BY <1>5, <1>6, PlayInv

(* An entity has chosen a cell.                                              *)
LEMMA ChooseInv ==
  ASSUME IInv, InLoop("choose"), NEW c \in Cell, Choose(c)
  PROVE  IInv'
  <1>1. Len(entities) \in Nat /\ cells \in Seq(Cell) /\ Len(cells) = i - 1
    BY AliveType DEF IInv, Shape, InLoop
  <1>2. cells' \in Seq(Cell) /\ Len(cells') = Len(cells) + 1
    BY <1>1 DEF Choose
  <1>3. /\ i \in 1 .. Len(entities) + 1 /\ i <= Len(entities) /\ i' = i + 1
        /\ phase = "choose" /\ phase' = "choose"
    BY DEF IInv, Shape, InLoop, Choose, Step
  <1>4. entities' = entities /\ mem' = mem /\ board' = board
    BY DEF Choose
  <1>5. TypeOK'
    BY <1>3, <1>4 DEF IInv, TypeOK
  <1>6. Shape'
    BY <1>1, <1>2, <1>3, <1>4 DEF IInv, Shape
  <1>7. Alive' = Alive /\ Friends' = Friends /\ Armed'
    BY <1>4, StillArmed DEF IInv
  <1>8. Lives'
    BY <1>3, <1>4, <1>7 DEF IInv, Lives, Living
  <1> QED BY <1>5, <1>6, <1>7, <1>8 DEF IInv

(* Each loop of a turn, and the deaths in two of them, keep the invariant.   *)
LEMMA StepInv == IInv /\ [Next]_vars => IInv'
  <1> SUFFICES ASSUME IInv, [Next]_vars PROVE IInv'
    OBVIOUS
  <1>0. /\ TypeOK /\ Shape /\ Armed /\ Lives
        /\ Len(entities) \in Nat /\ Alive \subseteq Addr
        /\ \A a \in Alive : mem[a] \in Entity
        /\ \A j \in 1 .. Len(entities) : entities[j] \in Alive
        /\ \A e \in Friends : e \in Alive /\ e \in Addr
        /\ i <= Len(entities) => Self \in Alive /\ Self \in Addr
    BY AliveType DEF IInv, Friends
  <1>1. CASE StayHere
    <2>1. mem[Self].pos \in Cell
      BY <1>1, <1>0 DEF StayHere, InLoop, Entity
    <2> QED BY <1>1, <2>1, ChooseInv DEF StayHere
  <1>2. CASE PlayerChooses
    <2>1. PICK c \in Reachable(mem[Self].pos, PlayerRange) : Choose(c)
      BY <1>2 DEF PlayerChooses
    <2>2. c \in Cell
      BY DEF Reachable
    <2> QED BY <1>2, <2>1, <2>2, ChooseInv DEF PlayerChooses
  <1>3. CASE FriendChooses
    <2>1. PICK c \in Reachable(mem[Self].pos, FriendRange) : Choose(c)
      BY <1>3 DEF FriendChooses
    <2>2. c \in Cell
      BY DEF Reachable
    <2> QED BY <1>3, <2>1, <2>2, ChooseInv DEF FriendChooses
  <1>4. CASE DieTrapped
    <2>1. i \in 1 .. Len(entities) /\ Die(i) /\ phase = "choose" /\ IsInjective(entities)
      BY <1>4, <1>0 DEF DieTrapped, InLoop, Shape
    <2>2. UNCHANGED <<board, cells, i, phase, turn, winner>>
      BY <1>4 DEF DieTrapped
    <2>3. /\ entities' \in Seq(Addr) /\ Len(entities') = Len(entities) - 1
          /\ IsInjective(entities') /\ Alive' = Alive \ {entities[i]}
          /\ mem' \in [Addr -> Entity] /\ Armed'
          /\ \A a \in Alive' : /\ mem'[a].type = mem[a].type
                               /\ mem'[a].life = mem[a].life
                               /\ mem'[a].lifespan \in {mem[a].lifespan, 1}
      BY <1>0, <2>1, DieEffect
    <2>4. TypeOK'
      BY <1>0, <2>2, <2>3 DEF TypeOK
    <2>5. Shape'
      BY <1>0, <2>1, <2>2, <2>3 DEF Shape
    <2>6. ASSUME NEW e \in Alive'
          PROVE  mem'[e].life > 0 /\ (mem'[e].type = "friend" => mem'[e].lifespan > 0)
      BY <1>0, <2>1, <2>3 DEF Lives, Living
    <2>7. Lives'
      <3>1. phase' = "choose"
        BY <2>1, <2>2
      <3> QED BY <3>1, <2>6 DEF Lives, Living
    <2> QED BY <2>3, <2>4, <2>5, <2>7 DEF IInv
  <1>5. CASE EndOfChoices
    <2>1. /\ phase = "choose" /\ phase' = "move" /\ i' = 1 /\ ~(i <= Len(entities))
          /\ UNCHANGED <<mem, entities, board, cells, turn, winner>>
      BY <1>5, <1>0 DEF EndOfChoices, LoopEnds, Goto, Shape
    <2>2. Len(cells) = Len(entities)
      BY <1>0, <2>1 DEF Shape
    <2>3. Shape'
      BY <1>0, <2>1, <2>2 DEF Shape
    <2>4. TypeOK'
      BY <1>0, <2>1 DEF TypeOK
    <2>5. Alive' = Alive /\ Friends' = Friends /\ Armed'
      BY <1>0, <2>1, StillArmed
    <2>6. Lives'
      BY <1>0, <2>1, <2>5 DEF Lives, Living
    <2> QED BY <2>3, <2>4, <2>5, <2>6 DEF IInv
  <1>6. CASE MoveEntity
    <2>1. /\ phase = "move" /\ phase' = "move" /\ i <= Len(entities) /\ i' = i + 1
          /\ UNCHANGED <<entities, cells, turn, winner>>
      BY <1>6 DEF MoveEntity, InLoop, Step
    <2>2. i \in 1 .. Len(entities) /\ Self \in Addr /\ Len(cells) = Len(entities) /\ cells \in Seq(Cell)
      BY <1>0, <2>1 DEF Shape
    <2>3. cells[i] \in Cell
      BY <1>0, <2>2
    <2> DEFINE s == [mem[Self] EXCEPT !.pos = cells[i]]
    <2>4. /\ s \in Entity /\ s.type = mem[Self].type /\ s.life = mem[Self].life
          /\ s.lifespan = mem[Self].lifespan /\ s.target = mem[Self].target
          /\ s.regen = mem[Self].regen /\ s.ready = mem[Self].ready
      <3>1. mem[Self] \in Entity
        BY <2>2, <1>0 DEF TypeOK
      <3>2. s \in Entity
        BY <3>1, <2>3, ChangeType
      <3> QED BY <3>1, <3>2 DEF Entity
    <2>5. mem' = mem \/ mem' = [mem EXCEPT ![Self] = s]
      BY <1>6 DEF MoveEntity
    <2>6. board' \in [Cell -> {0, 1}]
      BY <1>6, <1>0 DEF MoveEntity, TypeOK
    <2> HIDE DEF s
    <2>7. mem' \in [Addr -> Entity]
      BY <1>0, <2>2, <2>4, <2>5 DEF TypeOK
    <2>8. \A a \in Addr : /\ mem'[a].type = mem[a].type /\ mem'[a].life = mem[a].life
                          /\ mem'[a].lifespan = mem[a].lifespan
                          /\ mem'[a].target = mem[a].target
                          /\ mem'[a].regen = mem[a].regen
                          /\ mem'[a].ready = mem[a].ready
      <3>1. CASE mem' = mem
        BY <3>1
      <3>2. CASE mem' = [mem EXCEPT ![Self] = s]
        <4>1. \A a \in Addr : mem'[a] = IF a = Self THEN s ELSE mem[a]
          BY <3>2, <1>0 DEF TypeOK
        <4> QED BY <4>1, <2>4
      <3> QED BY <2>5, <3>1, <3>2
    <2>9. TypeOK'
      BY <1>0, <2>1, <2>6, <2>7 DEF TypeOK
    <2>10. Shape'
      BY <1>0, <2>1, <2>2 DEF Shape
    <2>11. Alive' = Alive /\ Friends' = Friends /\ Armed'
      BY <1>0, <2>1, <2>8, StillArmed
    <2>12. Lives'
      BY <1>0, <2>1, <2>8, <2>11 DEF Lives, Living
    <2> QED BY <2>9, <2>10, <2>11, <2>12 DEF IInv
  <1>7. CASE EndOfMoves
    <2>1. /\ phase = "move" /\ phase' \in {"play", "display"} /\ i' = 1 /\ cells' = <<>>
          /\ UNCHANGED <<mem, entities, board, turn, winner>>
      BY <1>7 DEF EndOfMoves, LoopEnds, Goto
    <2>2. TypeOK'
      BY <1>0, <2>1 DEF TypeOK
    <2>3. Shape'
      BY <1>0, <2>1 DEF Shape
    <2>4. Alive' = Alive /\ Friends' = Friends /\ Armed'
      BY <1>0, <2>1, StillArmed
    <2>5. ASSUME NEW e \in Alive PROVE Living(e)
      BY <1>0, <2>1 DEF Lives
    <2>6. ASSUME NEW e \in Alive' PROVE Living(e)'
      BY <2>1, <2>4, <2>5 DEF Living
    <2>7. ASSUME NEW e \in Friends' PROVE mem'[e].lifespan > 0
      <3>1. e \in Alive /\ mem[e].type = "friend"
        BY <2>4 DEF Friends
      <3> QED BY <3>1, <2>1, <2>5 DEF Living
    <2>8. Lives'
      BY <2>1, <2>6, <2>7 DEF Lives, Living
    <2> QED BY <2>2, <2>3, <2>4, <2>8 DEF IInv
  <1>8. CASE PlayNothing
    <2>1. /\ phase = "play" /\ phase' = "play" /\ i <= Len(entities) /\ i' = i + 1
          /\ UNCHANGED <<mem, entities, board, cells, turn, winner>>
      BY <1>8 DEF PlayNothing, InLoop, Step
    <2>2. TypeOK'
      BY <1>0, <2>1 DEF TypeOK
    <2>3. Shape'
      BY <1>0, <2>1 DEF Shape
    <2>4. Alive' = Alive /\ Friends' = Friends /\ Armed'
      BY <1>0, <2>1, StillArmed
    <2>5. Lives'
      BY <1>0, <2>1, <2>4 DEF Lives, Living
    <2> QED BY <2>2, <2>3, <2>4, <2>5 DEF IInv
  <1>9. CASE PlayMind
    <2>1. PICK target \in Addr : Casts("mind", target)
      BY <1>9 DEF PlayMind
    <2>2. 0 \in DeadForGood .. MaxLife
      BY KittyAssumption DEF DeadForGood
    <2>3. /\ InLoop("play") /\ mem' \in Paid /\ Step
          /\ UNCHANGED <<entities, board, cells, turn, winner>>
      BY <1>9 DEF PlayMind
    <2>4. board' \in [Cell -> {0, 1}]
      BY <2>3, <1>0 DEF TypeOK
    <2>5. PICK paid \in Paid : mem' = paid
      BY <2>3
    <2> QED BY <2>1, <2>2, <2>3, <2>4, <2>5, OneLifeInv
  <1>10. CASE PlayPanacea
    <2>1. PICK target \in Addr : Casts("panacea", target)
      BY <1>10 DEF PlayPanacea
    <2>2. PICK paid \in Paid : mem' = [paid EXCEPT ![Self].life = @ + 2]
      BY <1>10 DEF PlayPanacea
    <2>3. /\ InLoop("play") /\ Step /\ mem[Self].life + 2 <= MaxLife
          /\ UNCHANGED <<entities, board, cells, turn, winner>>
      BY <1>10 DEF PlayPanacea
    <2>4. Self \in Alive /\ Self \in Addr /\ board' \in [Cell -> {0, 1}]
      BY <2>3, <1>0 DEF TypeOK, InLoop
    <2>5. paid[Self].life = mem[Self].life /\ mem[Self].life \in DeadForGood .. MaxLife
      BY <2>1, <2>3, <2>4, <1>0, PaidEffect DEF Entity
    <2>6. paid[Self].life + 2 \in DeadForGood .. MaxLife
      BY <2>3, <2>5, KittyAssumption DEF DeadForGood
    <2>7. mem' = [paid EXCEPT ![Self].life = paid[Self].life + 2]
      BY <2>2
    <2> QED BY <2>1, <2>3, <2>4, <2>6, <2>7, OneLifeInv
  <1>11. CASE PlayAttack
    <2>1. PICK card \in {"razor", "hell"}, target \in Addr, paid \in Paid :
             /\ Casts(card, target)
             /\ mem' = [paid EXCEPT ![target].life =
                          IF card = "hell" \/ @ - 2 < DeadForGood THEN DeadForGood ELSE @ - 2]
      BY <1>11 DEF PlayAttack
    <2>2. /\ InLoop("play") /\ Step
          /\ UNCHANGED <<entities, board, cells, turn, winner>>
      BY <1>11 DEF PlayAttack
    <2>3. board' \in [Cell -> {0, 1}]
      BY <2>2, <1>0 DEF TypeOK
    <2> DEFINE life == IF card = "hell" \/ paid[target].life - 2 < DeadForGood
                       THEN DeadForGood ELSE paid[target].life - 2
    <2>4. mem' = [paid EXCEPT ![target].life = life]
      BY <2>1
    <2>5. paid[target].life \in DeadForGood .. MaxLife
      <3>1. paid[target] \in Entity
        BY <2>1, <2>2, PaidEffect
      <3> QED BY <3>1 DEF Entity
    <2>6. life \in DeadForGood .. MaxLife
      BY <2>5, KittyAssumption DEF DeadForGood
    <2> HIDE DEF life
    <2> QED BY <2>1, <2>2, <2>3, <2>4, <2>6, OneLifeInv
  <1>12. CASE PlayStone
    <2>1. PICK target \in Addr :
             /\ Casts("stone", target)
             /\ LET near == Reachable(mem[target].pos, 1)
                IN  IF near = {} THEN UNCHANGED board
                    ELSE \E c \in near : board' = [board EXCEPT ![c] = 1]
      BY <1>12 DEF PlayStone
    <2>2. /\ InLoop("play") /\ mem' \in Paid /\ Step
          /\ UNCHANGED <<entities, cells, turn, winner>>
      BY <1>12 DEF PlayStone
    <2>3. board' \in [Cell -> {0, 1}]
      <3>1. board \in [Cell -> {0, 1}]
        BY <1>0 DEF TypeOK
      <3>2. UNCHANGED board \/ \E c \in Reachable(mem[target].pos, 1) : board' = [board EXCEPT ![c] = 1]
        BY <2>1
      <3> QED BY <3>1, <3>2
    <2>4. 0 \in DeadForGood .. MaxLife
      BY KittyAssumption DEF DeadForGood
    <2>5. PICK paid \in Paid : mem' = paid
      BY <2>2
    <2> QED BY <2>1, <2>2, <2>3, <2>4, <2>5, OneLifeInv
  <1>13. CASE PlayPuppy
    <2>1. PICK target \in Addr, paid \in Paid :
             /\ Casts("puppy", target)
             /\ LET near == Reachable(mem[Self].pos, 1)
                IN  IF near = {}
                    THEN mem' = paid /\ UNCHANGED <<entities, board>>
                    ELSE \E c \in near, a \in Addr \ Alive, card \in FriendCards :
                           /\ mem' = [paid EXCEPT ![a] =
                                [type |-> "friend", life |-> 1, pos |-> c, regen |-> TRUE,
                                 ready |-> FALSE, card |-> card, target |-> target,
                                 lifespan |-> Lifespan]]
                           /\ entities' = Append(entities, a)
                           /\ board' = [board EXCEPT ![c] = 1]
      BY <1>13 DEF PlayPuppy
    <2>2. InLoop("play") /\ Step /\ UNCHANGED <<cells, turn, winner>>
      BY <1>13 DEF PlayPuppy
    <2>3. CASE Reachable(mem[Self].pos, 1) = {}
      <3>1. mem' = paid /\ UNCHANGED <<entities, board>>
        BY <2>1, <2>3
      <3>2. board' \in [Cell -> {0, 1}]
        BY <3>1, <1>0 DEF TypeOK
      <3>3. 0 \in DeadForGood .. MaxLife
        BY KittyAssumption DEF DeadForGood
      <3> QED BY <2>1, <2>2, <3>1, <3>2, <3>3, OneLifeInv
    <2>4. CASE Reachable(mem[Self].pos, 1) # {}
      <3>1. PICK c \in Reachable(mem[Self].pos, 1), a \in Addr \ Alive, card \in FriendCards :
               /\ mem' = [paid EXCEPT ![a] =
                    [type |-> "friend", life |-> 1, pos |-> c, regen |-> TRUE,
                     ready |-> FALSE, card |-> card, target |-> target,
                     lifespan |-> Lifespan]]
               /\ entities' = Append(entities, a)
               /\ board' = [board EXCEPT ![c] = 1]
        BY <2>1, <2>4
      <3> DEFINE new == [type |-> "friend", life |-> 1, pos |-> c, regen |-> TRUE,
                         ready |-> FALSE, card |-> card, target |-> target,
                         lifespan |-> Lifespan]
      <3>2. new \in Entity
        <4>1. c \in Cell
          BY DEF Reachable
        <4>2. 1 \in DeadForGood .. MaxLife /\ Lifespan \in Int
          BY KittyAssumption DEF DeadForGood
        <4> QED BY <4>1, <4>2 DEF Entity
      <3>3. /\ new.type = "friend" /\ new.target = target /\ new.lifespan > 0
        BY KittyAssumption
      <3>4. mem' = [paid EXCEPT ![a] = new]
        BY <3>1
      <3> HIDE DEF new
      <3>5. /\ paid \in [Addr -> Entity]
            /\ \A b \in Addr : /\ paid[b].type = mem[b].type
                               /\ paid[b].lifespan = mem[b].lifespan
                               /\ paid[b].target = mem[b].target
                               /\ paid[b].regen = mem[b].regen
                               /\ paid[b].ready => mem[b].ready
        BY <2>1, <2>2, PaidEffect
      <3>6. /\ mem' \in [Addr -> Entity]
            /\ mem'[a] = new
            /\ \A b \in Alive : mem'[b] = paid[b]
        BY <3>2, <3>4, <3>5, <1>0
      <3>7. target \in Alive
        <4>1. CASE mem[Self].type = "player"
          BY <4>1, <2>1 DEF Casts
        <4>2. CASE mem[Self].type # "player"
          <5>1. Self \in Alive /\ mem[Self].type = "friend"
            BY <4>2, <2>2, <1>0 DEF InLoop, Entity
          <5>2. Self \in Friends /\ mem[Self].ready /\ target = mem[Self].target
            BY <5>1, <2>1 DEF Casts, Friends
          <5> QED BY <5>2, <1>0 DEF Armed
        <4> QED BY <4>1, <4>2
      <3>8. /\ entities' \in Seq(Addr) /\ Len(entities') = Len(entities) + 1
            /\ \A j \in 1 .. Len(entities) : entities'[j] = entities[j]
            /\ entities'[Len(entities) + 1] = a
        BY <3>1, <1>0, AppendProperties DEF TypeOK
      <3>9. /\ DOMAIN entities = 1 .. Len(entities)
            /\ DOMAIN entities' = 1 .. Len(entities) + 1
        BY <3>8, <1>0 DEF TypeOK
      <3>10. Alive' = Alive \cup {a}
        <4>1. ASSUME NEW b \in Alive' PROVE b \in Alive \cup {a}
          <5>1. PICK j \in 1 .. Len(entities) + 1 : b = entities'[j]
            BY <4>1, <3>9 DEF Alive, ToSet
          <5>2. CASE j = Len(entities) + 1
            BY <5>1, <5>2, <3>8
          <5>3. CASE j # Len(entities) + 1
            <6>1. j \in 1 .. Len(entities)
              BY <5>3, <1>0
            <6> QED BY <6>1, <5>1, <3>8, <1>0
          <5> QED BY <5>2, <5>3
        <4>2. a \in Alive'
          <5>1. Len(entities) + 1 \in 1 .. Len(entities) + 1
            BY <1>0
          <5> QED BY <5>1, <3>8, <3>9 DEF Alive, ToSet
        <4>3. ASSUME NEW b \in Alive PROVE b \in Alive'
          <5>1. PICK j \in 1 .. Len(entities) : b = entities[j]
            BY <3>9 DEF Alive, ToSet
          <5>2. j \in 1 .. Len(entities) + 1 /\ b = entities'[j]
            BY <5>1, <3>8, <1>0
          <5> QED BY <5>2, <3>9 DEF Alive, ToSet
        <4> QED BY <4>1, <4>2, <4>3
      <3>11. IsInjective(entities')
        <4> SUFFICES ASSUME NEW j \in 1 .. Len(entities) + 1, NEW k \in 1 .. Len(entities) + 1,
                            entities'[j] = entities'[k]
                     PROVE  j = k
          BY <3>9 DEF IsInjective
        <4>1. CASE j \in 1 .. Len(entities) /\ k \in 1 .. Len(entities)
          BY <4>1, <3>8, <3>9, <1>0 DEF Shape, IsInjective
        <4>2. CASE j = Len(entities) + 1 /\ k \in 1 .. Len(entities)
          BY <4>2, <3>8, <1>0
        <4>3. CASE k = Len(entities) + 1 /\ j \in 1 .. Len(entities)
          BY <4>3, <3>8, <1>0
        <4> QED BY <4>1, <4>2, <4>3, <1>0
      <3>12. phase = "play" /\ phase' = "play" /\ i' = i + 1
        BY <2>2 DEF InLoop, Step
      <3>13. TypeOK'
        <4>1. board' \in [Cell -> {0, 1}]
          BY <3>1, <1>0 DEF TypeOK
        <4> QED BY <4>1, <3>6, <3>8, <3>12 DEF TypeOK
      <3>14. Shape'
        BY <3>8, <3>11, <3>12, <2>2, <1>0 DEF Shape
      <3>15. Armed'
        <4> SUFFICES ASSUME NEW f \in Friends', mem'[f].regen \/ mem'[f].ready
                     PROVE  mem'[f].target \in Alive \cup {a}
          BY <3>10 DEF Armed
        <4>1. CASE f = a
          BY <4>1, <3>3, <3>6, <3>7
        <4>2. CASE f # a
          <5>1. f \in Alive /\ f \in Addr /\ mem'[f] = paid[f]
            BY <4>2, <3>6, <3>10, <1>0 DEF Friends
          <5>2. f \in Friends
            BY <5>1, <3>5 DEF Friends
          <5>3. mem[f].regen \/ mem[f].ready
            BY <5>1, <3>5
          <5> QED BY <5>1, <5>2, <5>3, <3>5, <1>0 DEF Armed
        <4> QED BY <4>1, <4>2
      <3>16. Lives'
        <4>1. ASSUME NEW e \in Friends' PROVE mem'[e].lifespan > 0
          <5>1. CASE e = a
            BY <5>1, <3>3, <3>6
          <5>2. CASE e # a
            <6>1. e \in Alive /\ e \in Addr /\ mem'[e] = paid[e]
              BY <5>2, <3>6, <3>10, <1>0 DEF Friends
            <6>2. e \in Friends
              BY <6>1, <3>5 DEF Friends
            <6> QED BY <6>1, <6>2, <3>5, <3>12, <1>0 DEF Lives
          <5> QED BY <5>1, <5>2
        <4> QED BY <4>1, <3>12 DEF Lives
      <3> QED BY <3>13, <3>14, <3>15, <3>16 DEF IInv
    <2> QED BY <2>3, <2>4
  <1>14. CASE EndOfPlays
    <2>1. PICK ready \in SUBSET {f \in Friends : mem[f].regen} :
             mem' = [a \in Addr |-> IF a \in Friends
                                    THEN [mem[a] EXCEPT !.ready = @ \/ a \in ready,
                                                        !.lifespan = @ - 1]
                                    ELSE mem[a]]
      BY <1>14 DEF EndOfPlays
    <2>2. /\ phase = "play" /\ phase' = "purge" /\ i' = 1
          /\ UNCHANGED <<entities, board, cells, turn, winner>>
      BY <1>14 DEF EndOfPlays, LoopEnds, Goto
    <2>3. ASSUME NEW a \in Addr
          PROVE  /\ mem'[a] \in Entity
                 /\ mem'[a].type = mem[a].type
                 /\ mem'[a].target = mem[a].target
                 /\ mem'[a].regen \/ mem'[a].ready => mem[a].regen \/ mem[a].ready
                 /\ mem'[a].lifespan = IF a \in Friends THEN mem[a].lifespan - 1
                                       ELSE mem[a].lifespan
      <3>1. mem[a] \in Entity
        BY <1>0 DEF TypeOK
      <3>2. CASE a \notin Friends
        <4>1. mem'[a] = mem[a]
          BY <2>1, <3>2
        <4> QED BY <4>1, <3>1, <3>2
      <3>3. CASE a \in Friends
        <4> DEFINE r == mem[a].ready \/ a \in ready
                   l == mem[a].lifespan - 1
                   e == [mem[a] EXCEPT !.ready = r]
        <4>1. r \in BOOLEAN /\ l \in Int
          BY <3>1 DEF Entity
        <4>2. r => mem[a].regen \/ mem[a].ready
          BY <2>1
        <4>3. mem'[a] = [mem[a] EXCEPT !.ready = r, !.lifespan = l]
          BY <2>1, <3>3
        <4> HIDE DEF r, l
        <4>4. mem'[a] = [e EXCEPT !.lifespan = l]
          BY <4>3
        <4>5. /\ e \in Entity /\ e.type = mem[a].type /\ e.target = mem[a].target
              /\ e.regen = mem[a].regen /\ e.ready = r
          <5>1. e \in Entity
            BY <4>1, <3>1, ChangeType
          <5> QED BY <5>1, <3>1 DEF Entity
        <4> HIDE DEF e
        <4>6. /\ mem'[a] \in Entity /\ mem'[a].type = e.type /\ mem'[a].target = e.target
              /\ mem'[a].regen = e.regen /\ mem'[a].ready = e.ready /\ mem'[a].lifespan = l
          <5>1. mem'[a] \in Entity
            BY <4>1, <4>4, <4>5, ChangeType
          <5> QED BY <5>1, <4>4, <4>5 DEF Entity
        <4> QED BY <4>2, <4>5, <4>6, <3>3 DEF l
      <3> QED BY <3>2, <3>3
    <2>4. mem' \in [Addr -> Entity]
      BY <2>1, <2>3
    <2>5. TypeOK'
      BY <2>2, <2>4, <1>0 DEF TypeOK
    <2>6. Shape'
      BY <2>2, <1>0 DEF Shape
    <2>7. Alive' = Alive /\ Friends' = Friends /\ Armed'
      BY <2>2, <2>3, <1>0, StillArmed
    <2>8. Lives'
      <3>1. ASSUME NEW e \in Friends PROVE mem'[e].lifespan >= 0
        <4>1. mem[e].lifespan > 0 /\ mem[e].lifespan \in Int
          BY <2>2, <1>0 DEF Lives, Entity
        <4> QED BY <4>1, <2>3, <1>0
      <3> QED BY <3>1, <2>2, <2>7 DEF Lives
    <2> QED BY <2>5, <2>6, <2>7, <2>8 DEF IInv
  <1>15. CASE PurgeEntity
    <2>1. /\ phase = "purge" /\ phase' = "purge" /\ i \in 1 .. Len(entities)
          /\ UNCHANGED <<cells, turn, winner>>
      BY <1>15, <1>0 DEF PurgeEntity, InLoop, Step, Shape
    <2>2. CASE Expired \/ mem[Self].life <= 0
      <3>1. Die(i) /\ i' = i /\ IsInjective(entities)
        BY <1>15, <2>2, <1>0 DEF PurgeEntity, Shape
      <3>2. /\ entities' \in Seq(Addr) /\ Len(entities') = Len(entities) - 1
            /\ IsInjective(entities') /\ Alive' = Alive \ {entities[i]}
            /\ \A j \in 1 .. i - 1 : j <= Len(entities') => entities'[j] = entities[j]
            /\ mem' \in [Addr -> Entity] /\ Armed'
            /\ \A a \in Alive' : /\ mem'[a].type = mem[a].type
                                 /\ mem'[a].life = mem[a].life
                                 /\ mem'[a].lifespan \in {mem[a].lifespan, 1}
        BY <1>0, <2>1, <3>1, DieEffect
      <3>3. board' \in [Cell -> {0, 1}]
        BY <1>15, <2>2, <1>0 DEF PurgeEntity, TypeOK
      <3>4. TypeOK'
        BY <2>1, <3>2, <3>3 DEF TypeOK
      <3>5. Shape'
        BY <2>1, <3>1, <3>2, <1>0 DEF Shape
      <3>6. ASSUME NEW e \in Friends' PROVE mem'[e].lifespan >= 0
        <4>1. e \in Alive' /\ e \in Friends
          BY <3>2, <3>6 DEF Friends
        <4> QED BY <4>1, <3>2, <2>1, <1>0 DEF Lives
      <3>7. ASSUME NEW j \in 1 .. i - 1 PROVE Living(entities[j])'
        <4>1. j \in 1 .. Len(entities') /\ j \in 1 .. Len(entities)
          BY <2>1, <3>2, <1>0
        <4>2. entities'[j] = entities[j] /\ Living(entities[j])
          BY <4>1, <3>2, <2>1, <1>0 DEF Lives
        <4>3. entities'[j] \in Alive'
          <5>1. DOMAIN entities' = 1 .. Len(entities')
            BY <3>2
          <5> QED BY <4>1, <5>1 DEF Alive, ToSet
        <4> QED BY <4>2, <4>3, <3>2 DEF Living
      <3>8. Lives'
        BY <2>1, <3>1, <3>6, <3>7 DEF Lives
      <3> QED BY <3>2, <3>4, <3>5, <3>8 DEF IInv
    <2>3. CASE ~(Expired \/ mem[Self].life <= 0)
      <3>1. i' = i + 1 /\ UNCHANGED <<mem, entities, board>>
        BY <1>15, <2>3 DEF PurgeEntity, Step
      <3>2. TypeOK'
        BY <2>1, <3>1, <1>0 DEF TypeOK
      <3>3. Shape'
        BY <2>1, <3>1, <1>0 DEF Shape
      <3>4. Alive' = Alive /\ Friends' = Friends /\ Armed'
        BY <3>1, <1>0, StillArmed
      <3>5. Living(entities[i])
        <4>1. Self = entities[i] /\ Self \in Alive /\ mem[Self] \in Entity
          BY <2>1, <1>0 DEF Self
        <4>2. mem[Self].life > 0
          BY <4>1, <2>3 DEF Entity, DeadForGood
        <4>3. ASSUME mem[Self].type = "friend" PROVE mem[Self].lifespan > 0
          <5>1. mem[Self].lifespan # 0 /\ mem[Self].lifespan \in Int
            BY <4>1, <4>3, <2>3 DEF Expired, Entity
          <5>2. mem[Self].lifespan >= 0
            BY <4>1, <4>3, <2>1, <1>0 DEF Lives, Friends
          <5> QED BY <5>1, <5>2
        <4> QED BY <4>1, <4>2, <4>3 DEF Living
      <3>6. \A j \in 1 .. i : Living(entities[j])
        BY <3>5, <2>1, <1>0 DEF Lives
      <3>7. Lives'
        <4>1. \A j \in 1 .. i' - 1 : Living(entities[j])'
          BY <3>1, <3>6, <2>1 DEF Living
        <4>2. \A e \in Friends' : mem'[e].lifespan >= 0
          BY <3>1, <3>4, <2>1, <1>0 DEF Lives
        <4> QED BY <4>1, <4>2, <2>1 DEF Lives
      <3> QED BY <3>2, <3>3, <3>4, <3>7 DEF IInv
    <2> QED BY <2>2, <2>3
  <1>16. CASE EndOfPurge
    <2>1. /\ phase = "purge" /\ phase' = "display" /\ i' = 1 /\ i > Len(entities)
          /\ UNCHANGED <<mem, entities, board, cells, turn, winner>>
      BY <1>16 DEF EndOfPurge, LoopEnds, Goto
    <2>2. TypeOK'
      BY <2>1, <1>0 DEF TypeOK
    <2>3. Shape'
      BY <2>1, <1>0 DEF Shape
    <2>4. Alive' = Alive /\ Friends' = Friends /\ Armed'
      BY <2>1, <1>0, StillArmed
    <2>5. ASSUME NEW e \in Alive PROVE Living(e)
      <3>1. DOMAIN entities = 1 .. Len(entities)
        BY <1>0 DEF TypeOK
      <3>2. PICK j \in 1 .. Len(entities) : e = entities[j]
        BY <3>1 DEF Alive, ToSet
      <3>3. j \in 1 .. i - 1
        BY <2>1, <1>0 DEF Shape
      <3> QED BY <3>2, <3>3, <2>1, <1>0 DEF Lives
    <2>6. Lives'
      BY <2>1, <2>4, <2>5 DEF Lives, Living
    <2> QED BY <2>2, <2>3, <2>4, <2>6 DEF IInv
  <1>17. CASE NextTurn
    <2>1. /\ phase = "display" /\ phase' = "choose" /\ i' = 1
          /\ UNCHANGED <<mem, entities, board, cells, winner>>
      BY <1>17 DEF NextTurn, Goto
    <2>2. TypeOK'
      BY <2>1, <1>0 DEF TypeOK
    <2>3. Shape'
      BY <2>1, <1>0 DEF Shape
    <2>4. Alive' = Alive /\ Friends' = Friends /\ Armed'
      BY <2>1, <1>0, StillArmed
    <2>5. Lives'
      BY <2>1, <2>4, <1>0 DEF Lives, Living
    <2> QED BY <2>2, <2>3, <2>4, <2>5 DEF IInv
  <1>18. CASE EndOfGame
    <2>1. /\ phase' = "over" /\ i' = 1 /\ UNCHANGED <<mem, entities, board, cells, turn>>
      BY <1>18 DEF EndOfGame, Goto
    <2>2. TypeOK'
      BY <2>1, <1>0 DEF TypeOK
    <2>3. Shape'
      BY <2>1, <1>0 DEF Shape
    <2>4. Alive' = Alive /\ Friends' = Friends /\ Armed'
      BY <2>1, <1>0, StillArmed
    <2>5. Lives'
      BY <2>1 DEF Lives
    <2> QED BY <2>2, <2>3, <2>4, <2>5 DEF IInv
  <1>19. CASE UNCHANGED vars
    <2>1. UNCHANGED <<mem, entities, board, cells, i, phase, turn, winner>>
      BY <1>19 DEF vars
    <2>2. TypeOK' /\ Shape'
      BY <2>1, <1>0 DEF TypeOK, Shape
    <2>3. Alive' = Alive /\ Friends' = Friends /\ Armed'
      BY <2>1, <1>0, StillArmed
    <2>4. Lives'
      BY <2>1, <2>3, <1>0 DEF Lives, Living
    <2> QED BY <2>2, <2>3, <2>4 DEF IInv
  <1> QED BY <1>1, <1>2, <1>3, <1>4, <1>5, <1>6, <1>7, <1>8, <1>9, <1>10, <1>11, <1>12,
             <1>13, <1>14, <1>15, <1>16, <1>17, <1>18, <1>19 DEF Next

-----------------------------------------------------------------------------
(* The strengthened invariant holds of every behaviour.                      *)
THEOREM Invariant == Spec => []IInv
  <1>1. Init => IInv
    BY InitInv
  <1>2. IInv /\ [Next]_vars => IInv'
    BY StepInv
  <1> QED BY <1>1, <1>2, PTL DEF Spec

(* No friend that may move or cast has a target that was freed: board.c:138  *)
(* and game.c:5 read entities of the game only.                              *)
THEOREM TargetsAreAlive == Spec => []ArmedFriendsHaveTargets
  <1>1. IInv => ArmedFriendsHaveTargets
    BY DEF IInv, Armed, ArmedFriendsHaveTargets
  <1> QED BY <1>1, Invariant, PTL

(* The array holds each entity once, and who is displayed at the end of a    *)
(* turn has life and, for a friend, time left (game.c:73).                   *)
THEOREM NoDeadIsShown == Spec => []ShownAreAlive
  <1>1. IInv => ShownAreAlive
    <2> SUFFICES ASSUME IInv PROVE ShownAreAlive
      OBVIOUS
    <2>1. IsInjective(entities) /\ Lives
      BY DEF IInv, Shape
    <2>2. \A e \in Friends : mem[e].type = "friend"
      BY DEF Friends
    <2> QED BY <2>1, <2>2 DEF ShownAreAlive, Lives, Living
  <1> QED BY <1>1, Invariant, PTL

-----------------------------------------------------------------------------
(* What each loop of a turn still has to go through, and in the loop of the  *)
(* cards the places of those that may play one, from the index on.           *)
ToGo == Len(entities) + 1 - i

Casting == {j \in i .. Len(entities) :
              mem[entities[j]].type = "player" \/ mem[entities[j]].ready}

Later == {<<"choose", "move">>, <<"move", "play">>, <<"move", "display">>,
          <<"play", "purge">>, <<"purge", "display">>}

(***************************************************************************)
(* Every step of a turn takes it nearer to its end, whatever is done to    *)
(* the array meanwhile: it goes on to a later loop, or what the loop has   *)
(* left shrinks.  A puppy makes the array as much longer as the index      *)
(* advances; but it takes one that may play a card away, and who appears   *)
(* may not (game.c:73).  What shrinks cannot do so for ever: this is why   *)
(* turns end, however many friends are drawn.                              *)
(***************************************************************************)
TurnAdvances ==
  [][phase \notin {"display", "over"} =>
       \/ <<phase, phase'>> \in Later
       \/ /\ phase' = phase
          /\ ToGo' \in Nat
          /\ IF phase = "play"
             THEN /\ Casting' \subseteq Casting
                  /\ Casting' # Casting \/ ToGo' < ToGo
             ELSE ToGo' < ToGo]_vars

(* A step of the loop of the cards that leaves the array as it is and makes  *)
(* nobody ready.                                                             *)
LEMMA PlayAdvances ==
  ASSUME IInv, InLoop("play"), Step, entities' = entities,
         \A a \in Addr : /\ mem'[a].type = mem[a].type
                         /\ mem'[a].ready => mem[a].ready
  PROVE  ToGo' \in Nat /\ ToGo' < ToGo /\ Casting' \subseteq Casting
  <1>1. /\ Len(entities) \in Nat /\ i \in 1 .. Len(entities) /\ i' = i + 1
        /\ \A j \in 1 .. Len(entities) : entities[j] \in Addr
    BY AliveType DEF IInv, Shape, InLoop, Step
  <1>2. ToGo' \in Nat /\ ToGo' < ToGo
    BY <1>1 DEF ToGo
  <1>3. ASSUME NEW j \in Casting' PROVE j \in Casting
    <2>1. /\ j \in i + 1 .. Len(entities)
          /\ mem'[entities[j]].type = "player" \/ mem'[entities[j]].ready
      BY <1>1 DEF Casting
    <2>2. j \in i .. Len(entities) /\ j \in 1 .. Len(entities)
      BY <1>1, <2>1
    <2>3. mem[entities[j]].type = "player" \/ mem[entities[j]].ready
      BY <1>1, <2>1, <2>2
    <2> QED BY <2>2, <2>3 DEF Casting
  <1> QED BY <1>2, <1>3

(* A puppy takes the place of its player from those that may play a card,    *)
(* and is not one of them itself.                                            *)
LEMMA PuppyAdvances ==
  ASSUME IInv, InLoop("play"), Step,
         NEW target \in Addr, NEW paid \in Paid, Casts("puppy", target),
         NEW a \in Addr \ Alive, NEW new, new.type = "friend", new.ready = FALSE,
         mem' = [paid EXCEPT ![a] = new], entities' = Append(entities, a)
  PROVE  ToGo' \in Nat /\ Casting' \subseteq Casting /\ Casting' # Casting
  <1>1. /\ Len(entities) \in Nat /\ i \in 1 .. Len(entities) /\ i' = i + 1
        /\ \A j \in 1 .. Len(entities) : entities[j] \in Addr /\ entities[j] \in Alive
        /\ Self = entities[i] /\ Self \in Alive /\ mem[Self] \in Entity
    BY AliveType DEF IInv, Shape, InLoop, Step, Self
  <1>2. /\ paid \in [Addr -> Entity]
        /\ \A b \in Addr : paid[b].type = mem[b].type /\ (paid[b].ready => mem[b].ready)
    BY PaidEffect
  <1>3. /\ Len(entities') = Len(entities) + 1
        /\ \A j \in 1 .. Len(entities) : entities'[j] = entities[j]
        /\ entities'[Len(entities) + 1] = a
    BY <1>1, AppendProperties DEF IInv, TypeOK
  <1>4. ToGo' \in Nat
    BY <1>1, <1>3 DEF ToGo
  <1>5. mem'[a] = new /\ \A b \in Alive : b \in Addr => mem'[b] = paid[b]
    BY <1>2
  <1>6. ASSUME NEW j \in Casting' PROVE j \in Casting
    <2>1. /\ j \in i + 1 .. Len(entities) + 1
          /\ mem'[entities'[j]].type = "player" \/ mem'[entities'[j]].ready
      BY <1>1, <1>3 DEF Casting
    <2>2. j # Len(entities) + 1
      BY <1>3, <1>5, <2>1
    <2>3. j \in i .. Len(entities) /\ j \in 1 .. Len(entities)
      BY <1>1, <2>1, <2>2
    <2>4. mem[entities[j]].type = "player" \/ mem[entities[j]].ready
      BY <1>1, <1>2, <1>3, <1>5, <2>1, <2>3
    <2> QED BY <2>3, <2>4 DEF Casting
  <1>7. i \in Casting
    <2>1. mem[Self].type = "player" \/ mem[Self].ready
      <3>1. mem[Self].type \in {"player", "friend"}
        BY <1>1 DEF Entity
      <3> QED BY <3>1 DEF Casts
    <2> QED BY <1>1, <2>1 DEF Casting
  <1>8. i \notin Casting'
    BY <1>1 DEF Casting
  <1> QED BY <1>4, <1>6, <1>7, <1>8

(* The step of a loop that only goes to the next entity.                     *)
LEMMA StepAdvances ==
  ASSUME IInv, NEW p, InLoop(p), Step, entities' = entities
  PROVE  phase' = phase /\ ToGo' \in Nat /\ ToGo' < ToGo
  <1>1. Len(entities) \in Nat /\ i \in 1 .. Len(entities) /\ i' = i + 1 /\ phase' = phase
    BY AliveType DEF IInv, Shape, InLoop, Step
  <1> QED BY <1>1 DEF ToGo

(* A death: the index stays, the array is one shorter.                       *)
LEMMA DeathAdvances ==
  ASSUME IInv, NEW p, InLoop(p), Die(i), UNCHANGED <<i, phase>>
  PROVE  phase' = phase /\ ToGo' \in Nat /\ ToGo' < ToGo
  <1>1. Len(entities) \in Nat /\ i \in 1 .. Len(entities)
    BY AliveType DEF IInv, Shape, InLoop
  <1>2. Len(entities') = Len(entities) - 1
    BY <1>1, DieEffect DEF IInv, Shape
  <1> QED BY <1>1, <1>2 DEF ToGo

(* The turn gets nearer to its end with every step.                          *)
THEOREM TurnsAdvance == Spec => TurnAdvances
  <1> DEFINE A == phase \notin {"display", "over"} =>
                    \/ <<phase, phase'>> \in Later
                    \/ /\ phase' = phase
                       /\ ToGo' \in Nat
                       /\ IF phase = "play"
                          THEN /\ Casting' \subseteq Casting
                               /\ Casting' # Casting \/ ToGo' < ToGo
                          ELSE ToGo' < ToGo
  <1>1. ASSUME IInv, Next PROVE A
    <2> SUFFICES ASSUME phase \notin {"display", "over"} PROVE A
      OBVIOUS
    <2>1. CASE StayHere \/ PlayerChooses \/ FriendChooses
      <3>1. InLoop("choose") /\ Step /\ entities' = entities
        BY <2>1 DEF StayHere, PlayerChooses, FriendChooses, Choose
      <3>2. phase = "choose"
        BY <3>1 DEF InLoop
      <3>3. phase' = phase /\ ToGo' \in Nat /\ ToGo' < ToGo
        BY <1>1, <3>1, StepAdvances
      <3> QED BY <3>2, <3>3
    <2>2. CASE DieTrapped
      <3>1. InLoop("choose") /\ Die(i) /\ UNCHANGED <<i, phase>>
        BY <2>2 DEF DieTrapped
      <3>2. phase = "choose"
        BY <3>1 DEF InLoop
      <3>3. phase' = phase /\ ToGo' \in Nat /\ ToGo' < ToGo
        BY <1>1, <3>1, DeathAdvances
      <3> QED BY <3>2, <3>3
    <2>3. CASE EndOfChoices \/ EndOfMoves \/ EndOfPlays \/ EndOfPurge
      BY <2>3 DEF EndOfChoices, EndOfMoves, EndOfPlays, EndOfPurge, LoopEnds, Goto, Later
    <2>4. CASE MoveEntity
      <3>1. InLoop("move") /\ Step /\ entities' = entities
        BY <2>4 DEF MoveEntity
      <3>2. phase = "move"
        BY <3>1 DEF InLoop
      <3>3. phase' = phase /\ ToGo' \in Nat /\ ToGo' < ToGo
        BY <1>1, <3>1, StepAdvances
      <3> QED BY <3>2, <3>3
    <2>5. ASSUME InLoop("play"), Step, entities' = entities,
                 \A a \in Addr : /\ mem'[a].type = mem[a].type
                                 /\ mem'[a].ready => mem[a].ready
          PROVE  A
      <3>1. phase = "play" /\ phase' = "play"
        BY <2>5 DEF InLoop, Step
      <3>2. ToGo' \in Nat /\ ToGo' < ToGo /\ Casting' \subseteq Casting
        BY <1>1, <2>5, PlayAdvances
      <3> QED BY <3>1, <3>2
    <2>6. ASSUME NEW target \in Addr, NEW card, Casts(card, target), InLoop("play"), Step,
                 entities' = entities, mem' \in Paid
          PROVE  A
      <3>1. \A a \in Addr : mem'[a].type = mem[a].type /\ (mem'[a].ready => mem[a].ready)
        BY <1>1, <2>6, PaidEffect
      <3> QED BY <2>5, <2>6, <3>1
    <2>7. ASSUME NEW target \in Addr, NEW card, Casts(card, target), InLoop("play"), Step,
                 entities' = entities, NEW paid \in Paid, NEW e \in Addr,
                 NEW life, mem' = [paid EXCEPT ![e].life = life]
          PROVE  A
      <3>1. /\ paid \in [Addr -> Entity]
            /\ \A a \in Addr : paid[a].type = mem[a].type /\ (paid[a].ready => mem[a].ready)
        BY <1>1, <2>7, PaidEffect
      <3> DEFINE d == [paid[e] EXCEPT !.life = life]
      <3>2. d.type = paid[e].type /\ d.ready = paid[e].ready
        BY <3>1 DEF Entity
      <3>3. mem' = [paid EXCEPT ![e] = d]
        BY <2>7
      <3> HIDE DEF d
      <3>4. \A a \in Addr : mem'[a] = IF a = e THEN d ELSE paid[a]
        BY <3>1, <3>3
      <3>5. \A a \in Addr : mem'[a].type = mem[a].type /\ (mem'[a].ready => mem[a].ready)
        BY <3>1, <3>2, <3>4
      <3> QED BY <2>5, <2>7, <3>5
    <2>8. CASE PlayNothing
      <3>1. InLoop("play") /\ Step /\ entities' = entities /\ mem' = mem
        BY <2>8 DEF PlayNothing
      <3> QED BY <2>5, <3>1
    <2>9. CASE PlayMind
      <3>1. PICK target \in Addr : Casts("mind", target)
        BY <2>9 DEF PlayMind
      <3>2. InLoop("play") /\ Step /\ entities' = entities /\ mem' \in Paid
        BY <2>9 DEF PlayMind
      <3> QED BY <2>6, <3>1, <3>2
    <2>10. CASE PlayStone
      <3>1. PICK target \in Addr : Casts("stone", target)
        BY <2>10 DEF PlayStone
      <3>2. InLoop("play") /\ Step /\ entities' = entities /\ mem' \in Paid
        BY <2>10 DEF PlayStone
      <3> QED BY <2>6, <3>1, <3>2
    <2>11. CASE PlayPanacea
      <3>1. PICK target \in Addr : Casts("panacea", target)
        BY <2>11 DEF PlayPanacea
      <3>2. PICK paid \in Paid : mem' = [paid EXCEPT ![Self].life = @ + 2]
        BY <2>11 DEF PlayPanacea
      <3>3. InLoop("play") /\ Step /\ entities' = entities
        BY <2>11 DEF PlayPanacea
      <3>4. Self \in Addr
        BY <1>1, <3>3, AliveType DEF IInv, InLoop
      <3> QED BY <2>7, <3>1, <3>2, <3>3, <3>4
    <2>12. CASE PlayAttack
      <3>1. PICK card \in {"razor", "hell"}, target \in Addr, paid \in Paid :
               /\ Casts(card, target)
               /\ mem' = [paid EXCEPT ![target].life =
                            IF card = "hell" \/ @ - 2 < DeadForGood THEN DeadForGood ELSE @ - 2]
        BY <2>12 DEF PlayAttack
      <3>2. InLoop("play") /\ Step /\ entities' = entities
        BY <2>12 DEF PlayAttack
      <3> QED BY <2>7, <3>1, <3>2
    <2>13. CASE PlayPuppy
      <3>1. PICK target \in Addr, paid \in Paid :
               /\ Casts("puppy", target)
               /\ LET near == Reachable(mem[Self].pos, 1)
                  IN  IF near = {}
                      THEN mem' = paid /\ UNCHANGED <<entities, board>>
                      ELSE \E c \in near, a \in Addr \ Alive, card \in FriendCards :
                             /\ mem' = [paid EXCEPT ![a] =
                                  [type |-> "friend", life |-> 1, pos |-> c, regen |-> TRUE,
                                   ready |-> FALSE, card |-> card, target |-> target,
                                   lifespan |-> Lifespan]]
                             /\ entities' = Append(entities, a)
                             /\ board' = [board EXCEPT ![c] = 1]
        BY <2>13 DEF PlayPuppy
      <3>2. InLoop("play") /\ Step /\ phase = "play" /\ phase' = "play"
        BY <2>13 DEF PlayPuppy, InLoop, Step
      <3>3. CASE Reachable(mem[Self].pos, 1) = {}
        <4>1. mem' = paid /\ entities' = entities
          BY <3>1, <3>3
        <4> QED BY <2>6, <3>1, <3>2, <4>1
      <3>4. CASE Reachable(mem[Self].pos, 1) # {}
        <4>1. PICK c \in Reachable(mem[Self].pos, 1), a \in Addr \ Alive, card \in FriendCards :
                 /\ mem' = [paid EXCEPT ![a] =
                      [type |-> "friend", life |-> 1, pos |-> c, regen |-> TRUE,
                       ready |-> FALSE, card |-> card, target |-> target,
                       lifespan |-> Lifespan]]
                 /\ entities' = Append(entities, a)
          BY <3>1, <3>4
        <4> DEFINE new == [type |-> "friend", life |-> 1, pos |-> c, regen |-> TRUE,
                           ready |-> FALSE, card |-> card, target |-> target,
                           lifespan |-> Lifespan]
        <4>2. new.type = "friend" /\ new.ready = FALSE /\ mem' = [paid EXCEPT ![a] = new]
          BY <4>1
        <4> HIDE DEF new
        <4>3. ToGo' \in Nat /\ Casting' \subseteq Casting /\ Casting' # Casting
          BY <1>1, <3>1, <3>2, <4>1, <4>2, PuppyAdvances
        <4> QED BY <3>2, <4>3
      <3> QED BY <3>3, <3>4
    <2>14. CASE PurgeEntity
      <3>1. InLoop("purge") /\ phase = "purge"
        BY <2>14 DEF PurgeEntity, InLoop
      <3>2. \/ Die(i) /\ UNCHANGED <<i, phase>>
            \/ Step /\ entities' = entities
        BY <2>14 DEF PurgeEntity
      <3>3. phase' = phase /\ ToGo' \in Nat /\ ToGo' < ToGo
        BY <1>1, <3>1, <3>2, DeathAdvances, StepAdvances
      <3> QED BY <3>1, <3>3
    <2>15. CASE NextTurn \/ EndOfGame
      BY <2>15 DEF NextTurn, EndOfGame
    <2> HIDE DEF A
    <2> QED BY <1>1, <2>1, <2>2, <2>3, <2>4, <2>8, <2>9, <2>10, <2>11, <2>12, <2>13, <2>14,
               <2>15 DEF Next
  <1>2. IInv /\ [Next]_vars => [A]_vars
    BY <1>1
  <1> QED BY <1>2, Invariant, PTL DEF Spec, TurnAdvances
=============================================================================
