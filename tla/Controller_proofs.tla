-------------------------- MODULE Controller_proofs --------------------------
(***************************************************************************)
(* For any number of clients, views, fishes and observers: views and       *)
(* fishes are distinct, no descriptor is forgotten, and only the timeout   *)
(* thread brings the server down by an error.                              *)
(***************************************************************************)
EXTENDS Controller, FiniteSetTheorems, SequenceTheorems, WellFoundedInduction, TLAPS

IsLinked(f) == \E k \in DOMAIN views : views[k].fd = f

ViewsDiffer ==
  \A j, k \in DOMAIN views : j # k =>
    /\ views[j].id # views[k].id
    /\ views[j].fd # Closed => views[j].fd # views[k].fd

FishesDiffer ==
  \A j, k \in DOMAIN fishes : j # k => fishes[j].name # fishes[k].name

(* The connections that were accepted.                                       *)
Accepted == {c \in Client : net[c] \notin {"new", "backlog"}}

(* A descriptor is one connection that was accepted and not closed; and an   *)
(* open one is in fd_array, twice if the timeout thread, which has closed    *)
(* it, has yet to erase it while it was given to somebody else.              *)
Descriptors ==
  /\ \A f \in Fd : conn[f] # None => net[conn[f]] \in {"up", "gone", "reset"}
  /\ \A f, g \in Fd : conn[f] = conn[g] /\ f # g => conn[f] = None
  /\ used = Cardinality(Accepted)
  /\ \A s \in Slot : fd[s] # Closed => s <= used + 1
  /\ \A f \in Fd : conn[f] # None => \E s \in Slot : fd[s] = f
  /\ to.at # "scan" => to.slot <= used + 1
  /\ to.at = "erase" /\ IsOpen(fd[to.slot]) =>
       \E s \in Slot : s # to.slot /\ fd[s] = fd[to.slot]

(* What a thread remembers is still true when it acts on it.                 *)
Remembered ==
  /\ main.at = "allocate" => MyFd = Closed \/ ~IsLinked(MyFd)
  /\ main.at = "getFishesContinously" => Len(observers) < MaxObservers
  /\ main.at = "register" => main.i < MaxObservers
  /\ bc.at # "asleep" => bc.i < Len(observers)

Busy == main.at \notin {"accept", "scan", "command"}
Ready == (events.hup \cup events.in) \ {1}

(* Before the timeout thread has disconnected anybody.                       *)
Undisturbed ==
  ~timedOut =>
    /\ to.at = "scan"
    /\ \A s \in Slot : fd[s] # Closed => IsOpen(fd[s])
    /\ \A s, t \in Slot : s # t /\ fd[s] = fd[t] => fd[s] = Closed
    /\ \A k \in DOMAIN views : views[k].fd # Closed => Linked(views[k].fd)
    /\ \A s \in Ready : IsOpen(fd[s])
    /\ Busy => IsOpen(MyFd) /\ main.slot \notin Ready
    /\ main.at \in {"unregister", "close"} => ~IsLinked(MyFd)
    /\ server # "exited"

IInv == TypeOK /\ ViewsDiffer /\ FishesDiffer /\ Descriptors /\ Remembered /\ Undisturbed

-----------------------------------------------------------------------------
(* Constants and lists.                                                      *)

LEMMA Numbers ==
  /\ Cardinality(Client) \in Nat \ {0}
  /\ Slot \subseteq Nat /\ 2 \in Slot /\ 1 \notin Slot
  /\ Fd \subseteq Nat /\ Closed \notin Fd /\ Fd = 3 .. 2 + Cardinality(Client)
  /\ Slot = 2 .. 1 + Cardinality(Client)
  <1>1. Cardinality(Client) \in Nat
    BY ControllerAssumption, FS_CardinalityType
  <1>2. Cardinality(Client) # 0
    BY ControllerAssumption, FS_EmptySet
  <1> QED BY <1>1, <1>2 DEF Slot, Fd, Closed

(* Min and Max are the least and the greatest of a set of naturals.          *)
LEMMA LeastNatural ==
  ASSUME NEW S \in SUBSET Nat, S # {}
  PROVE  Min(S) \in S /\ \A y \in S : Min(S) <= y
  <1> DEFINE R == {s \in Nat \X Nat : s[1] < s[2]}
  <1>1. OpToRel(<, Nat) = R
    BY DEF OpToRel
  <1>2. IsWellFoundedOn(R, Nat)
    BY <1>1, NatLessThanWellFounded, Zenon
  <1> HIDE DEF R
  <1>3. PICK x \in S : \A y \in S : ~ (<<y, x>> \in R)
    BY <1>2, WFMin, Zenon
  <1>4. ASSUME NEW y \in S PROVE x <= y
    <2>1. <<y, x>> \in Nat \X Nat /\ <<y, x>> \notin R
      BY <1>3
    <2>2. ~ (y < x)
      BY <2>1 DEF R
    <2> QED BY <2>2
  <1> QED BY <1>4 DEF Min

LEMMA GreatestNatural ==
  ASSUME NEW n \in Nat, NEW S \in SUBSET (0 .. n), S # {}
  PROVE  Max(S) \in S
  <1> DEFINE T == {m \in 0 .. n : n - m \in S}
  <1>1. T \in SUBSET Nat /\ T # {}
    <2>1. PICK x \in S : TRUE
      OBVIOUS
    <2>2. x \in 0 .. n /\ n - x \in 0 .. n /\ n - (n - x) = x
      BY <2>1
    <2>3. n - (n - x) \in S
      BY <2>1, <2>2
    <2>4. n - x \in T
      BY <2>2, <2>3
    <2>5. T \in SUBSET Nat
      OBVIOUS
    <2> HIDE DEF T
    <2> QED BY <2>4, <2>5
  <1>2. Min(T) \in T /\ \A y \in T : Min(T) <= y
    <2> HIDE DEF T
    <2> QED BY <1>1, LeastNatural
  <1>3. PICK m \in 0 .. n : n - m \in S /\ \A y \in T : m <= y
    BY <1>2
  <1>4. ASSUME NEW y \in S PROVE y <= n - m
    <2>1. y \in 0 .. n /\ n - y \in 0 .. n /\ n - (n - y) = y
      OBVIOUS
    <2>2. m <= n - y
      BY <2>1, <1>3
    <2> QED BY <2>1, <2>2, <1>3
  <1> HIDE DEF T
  <1>5. \E x \in S : \A y \in S : y <= x
    BY <1>3, <1>4
  <1> QED BY <1>5 DEF Max

(* The view of a descriptor is the first with it, if there is one.           *)
LEMMA ViewOfFacts ==
  ASSUME TypeOK, NEW f
  PROVE  /\ ViewOf(f) \in 0 .. Len(views)
         /\ ViewOf(f) # 0 => ViewOf(f) \in DOMAIN views /\ views[ViewOf(f)].fd = f
         /\ ViewOf(f) = 0 => ~IsLinked(f)
  <1> DEFINE S == {k \in 1 .. Len(views) : views[k].fd = f}
  <1>1. Len(views) \in Nat /\ DOMAIN views = 1 .. Len(views)
    BY DEF TypeOK
  <1>2. ViewOf(f) = IF S # {} THEN Min(S) ELSE 0
    BY DEF ViewOf, SelectInSeq
  <1>3. S # {} => Min(S) \in S
    <2>1. S \in SUBSET Nat
      BY <1>1
    <2> HIDE DEF S
    <2> QED BY <2>1, LeastNatural
  <1>4. S = {} => ~IsLinked(f)
    BY <1>1 DEF IsLinked
  <1> QED BY <1>1, <1>2, <1>3, <1>4

-----------------------------------------------------------------------------
(* The views: no step but Allocate links a descriptor to a view.             *)

Loses ==
  /\ views' \in Seq(ViewRecord) /\ ViewsDiffer'
  /\ \A f \in Fd : IsLinked(f)' => IsLinked(f)

LEMMA SameViews ==
  ASSUME TypeOK, ViewsDiffer, UNCHANGED views PROVE Loses
  BY DEF Loses, ViewsDiffer, IsLinked, TypeOK

(* The views of vs are those of before, or not linked.                       *)
LEMMA KeptOrClosed ==
  ASSUME TypeOK, ViewsDiffer, views' \in Seq(ViewRecord), DOMAIN views' = DOMAIN views,
         \A k \in DOMAIN views : /\ views'[k].id = views[k].id
                                 /\ views'[k].fd \in {views[k].fd, Closed}
  PROVE  Loses
  <1>1. ViewsDiffer'
    BY DEF ViewsDiffer
  <1>2. ASSUME NEW f \in Fd, IsLinked(f)' PROVE IsLinked(f)
    <2>1. PICK k \in DOMAIN views : views'[k].fd = f
      BY <1>2 DEF IsLinked
    <2> QED BY <2>1, Numbers DEF IsLinked
  <1> QED BY <1>1, <1>2 DEF Loses

LEMMA FreeViewLoses ==
  ASSUME TypeOK, ViewsDiffer, NEW f, FreeView(f)
  PROVE  Loses /\ (f # Closed => ~IsLinked(f)')
  <1> DEFINE g(k) == IF views[k].fd = f THEN [views[k] EXCEPT !.fd = Closed, !.late = FALSE]
                                        ELSE views[k]
  <1>1. Len(views) \in Nat /\ DOMAIN views = 1 .. Len(views)
        /\ \A k \in DOMAIN views : views[k] \in ViewRecord
    BY DEF TypeOK
  <1>2. views' = [k \in DOMAIN views |-> g(k)]
    BY DEF FreeView
  <1>3. \A k \in DOMAIN views : /\ g(k) \in ViewRecord /\ g(k).id = views[k].id
                                /\ g(k).fd = IF views[k].fd = f THEN Closed ELSE views[k].fd
    BY <1>1 DEF ViewRecord
  <1> HIDE DEF g
  <1>4. /\ views' \in Seq(ViewRecord) /\ DOMAIN views' = DOMAIN views
        /\ \A k \in DOMAIN views : /\ views'[k].id = views[k].id
                                   /\ views'[k].fd = IF views[k].fd = f THEN Closed ELSE views[k].fd
    BY <1>1, <1>2, <1>3
  <1>5. Loses
    BY <1>4, KeptOrClosed
  <1>6. f # Closed => ~IsLinked(f)'
    BY <1>4 DEF IsLinked
  <1> QED BY <1>5, <1>6

(* Another name or time for a view, the same connection.                     *)
LEMMA LateLoses ==
  ASSUME TypeOK, ViewsDiffer, NEW k \in DOMAIN views, NEW b \in BOOLEAN,
         views' = [views EXCEPT ![k].late = b]
  PROVE  Loses
  <1>1. Len(views) \in Nat /\ DOMAIN views = 1 .. Len(views) /\ views \in Seq(ViewRecord)
        /\ \A j \in DOMAIN views : views[j] \in ViewRecord
    BY DEF TypeOK
  <1>2. /\ [views[k] EXCEPT !.late = b] \in ViewRecord
        /\ [views[k] EXCEPT !.late = b].id = views[k].id
        /\ [views[k] EXCEPT !.late = b].fd = views[k].fd
    BY <1>1 DEF ViewRecord
  <1> DEFINE v == [views[k] EXCEPT !.late = b]
  <1>3. views' = [views EXCEPT ![k] = v] /\ v \in ViewRecord /\ v.id = views[k].id /\ v.fd = views[k].fd
    BY <1>2
  <1> HIDE DEF v
  <1>4. /\ views' \in Seq(ViewRecord) /\ DOMAIN views' = DOMAIN views
        /\ \A j \in DOMAIN views : views'[j] = IF j = k THEN v ELSE views[j]
    BY <1>1, <1>3
  <1>5. \A j \in DOMAIN views : views'[j].id = views[j].id /\ views'[j].fd = views[j].fd
    BY <1>3, <1>4
  <1> QED BY <1>4, <1>5, KeptOrClosed

LEMMA PingLoses ==
  ASSUME TypeOK, ViewsDiffer, Ping PROVE Loses
  <1> DEFINE g(k) == IF k = MyView THEN [views[k] EXCEPT !.late = FALSE] ELSE views[k]
  <1>1. Len(views) \in Nat /\ DOMAIN views = 1 .. Len(views)
        /\ \A k \in DOMAIN views : views[k] \in ViewRecord
    BY DEF TypeOK
  <1>2. views' = [k \in DOMAIN views |-> g(k)]
    BY DEF Ping
  <1>3. \A k \in DOMAIN views : /\ g(k) \in ViewRecord /\ g(k).id = views[k].id /\ g(k).fd = views[k].fd
    BY <1>1 DEF ViewRecord
  <1> HIDE DEF g
  <1>4. /\ views' \in Seq(ViewRecord) /\ DOMAIN views' = DOMAIN views
        /\ \A k \in DOMAIN views : views'[k].id = views[k].id /\ views'[k].fd = views[k].fd
    BY <1>1, <1>2, <1>3
  <1> QED BY <1>4, KeptOrClosed

LEMMA AddViewLoses ==
  ASSUME TypeOK, ViewsDiffer, NEW id \in View, AddView(id) PROVE Loses
  <1>1. Len(views) \in Nat /\ DOMAIN views = 1 .. Len(views)
    BY DEF TypeOK
  <1>2. NewView(id) \in ViewRecord /\ NewView(id).fd = Closed /\ NewView(id).id = id
    BY DEF NewView, ViewRecord
  <1>3. /\ views' \in Seq(ViewRecord) /\ DOMAIN views' = 1 .. Len(views) + 1
        /\ views'[Len(views) + 1] = NewView(id)
        /\ \A k \in 1 .. Len(views) : views'[k] = views[k] /\ views[k].id # id
    BY <1>1, <1>2 DEF AddView, TypeOK
  <1>4. ViewsDiffer'
    BY <1>1, <1>2, <1>3 DEF ViewsDiffer
  <1>5. ASSUME NEW f \in Fd, IsLinked(f)' PROVE IsLinked(f)
    <2>1. PICK k \in 1 .. Len(views) + 1 : views'[k].fd = f
      BY <1>3, <1>5 DEF IsLinked
    <2>2. k \in 1 .. Len(views)
      BY <2>1, <1>1, <1>2, <1>3, Numbers
    <2> QED BY <2>1, <2>2, <1>1, <1>3 DEF IsLinked
  <1> QED BY <1>3, <1>4, <1>5 DEF Loses

(* The last element takes the place of the k-th.                             *)
LEMMA LastReplaces ==
  ASSUME NEW S, NEW l \in Seq(S), NEW k \in DOMAIN l
  PROVE  LET m == Front([l EXCEPT ![k] = Last(l)])
         IN  /\ m \in Seq(S) /\ DOMAIN m = 1 .. Len(l) - 1
             /\ \A j \in 1 .. Len(l) - 1 : m[j] = IF j = k THEN l[Len(l)] ELSE l[j]
  <1> DEFINE r == [l EXCEPT ![k] = Last(l)]
             n == Len(l) - 1
  <1>1. Len(l) \in Nat \ {0} /\ DOMAIN l = 1 .. Len(l) /\ l[Len(l)] \in S /\ n \in Nat
    OBVIOUS
  <1>2. r \in Seq(S) /\ Len(r) = Len(l) /\ DOMAIN r = DOMAIN l
        /\ \A j \in DOMAIN l : r[j] = IF j = k THEN l[Len(l)] ELSE l[j]
    BY <1>1 DEF Last
  <1>3. Front(r) = SubSeq(r, 1, n)
    BY <1>2 DEF Front
  <1> HIDE DEF r
  <1>4. /\ SubSeq(r, 1, n) \in Seq(S) /\ Len(SubSeq(r, 1, n)) = n
        /\ \A j \in 1 .. n : SubSeq(r, 1, n)[j] = r[j]
    <2>1. /\ Len(SubSeq(r, 1, n)) = IF 1 <= n THEN n - 1 + 1 ELSE 0
          /\ SubSeq(r, 1, n) \in Seq(S)
          /\ \A j \in 1 .. n - 1 + 1 : SubSeq(r, 1, n)[j] = r[1 + j - 1]
      BY <1>1, <1>2, SubSeqProperties
    <2> QED BY <2>1, <1>1
  <1>5. DOMAIN SubSeq(r, 1, n) = 1 .. n
    BY <1>1, <1>4
  <1>6. \A j \in 1 .. n : SubSeq(r, 1, n)[j] = IF j = k THEN l[Len(l)] ELSE l[j]
    BY <1>1, <1>2, <1>4
  <1> QED BY <1>3, <1>4, <1>5, <1>6 DEF r

LEMMA RemoveViewLoses ==
  ASSUME TypeOK, ViewsDiffer, NEW id \in View, RemoveView(id) PROVE Loses
  <1>1. Len(views) \in Nat /\ DOMAIN views = 1 .. Len(views) /\ views \in Seq(ViewRecord)
    BY DEF TypeOK
  <1>2. PICK k \in DOMAIN views : views' = Front([views EXCEPT ![k] = Last(views)])
    BY DEF RemoveView
  <1>3. /\ views' \in Seq(ViewRecord) /\ DOMAIN views' = 1 .. Len(views) - 1
        /\ \A j \in DOMAIN views' : views'[j] = IF j = k THEN views[Len(views)] ELSE views[j]
    BY <1>1, <1>2, LastReplaces
  <1>4. ViewsDiffer'
    BY <1>1, <1>3 DEF ViewsDiffer
  <1>5. ASSUME NEW f \in Fd, IsLinked(f)' PROVE IsLinked(f)
    <2>1. PICK j \in DOMAIN views' : views'[j].fd = f
      BY <1>5 DEF IsLinked
    <2> QED BY <2>1, <1>1, <1>3 DEF IsLinked
  <1> QED BY <1>3, <1>4, <1>5 DEF Loses

LEMMA LoadLoses ==
  ASSUME TypeOK, Load PROVE Loses
  <1>1. PICK n \in 0 .. Cardinality(View) : \E ids \in [1 .. n -> View] :
          /\ \A j, k \in 1 .. n : ids[j] = ids[k] => j = k
          /\ views' = [k \in 1 .. n |-> NewView(ids[k])]
    BY DEF Load
  <1>2. PICK ids \in [1 .. n -> View] :
          /\ \A j, k \in 1 .. n : ids[j] = ids[k] => j = k
          /\ views' = [k \in 1 .. n |-> NewView(ids[k])]
    BY <1>1
  <1>3. n \in Nat
    BY <1>1, ControllerAssumption, FS_CardinalityType
  <1>4. \A k \in 1 .. n : NewView(ids[k]) \in ViewRecord /\ NewView(ids[k]).fd = Closed
                          /\ NewView(ids[k]).id = ids[k]
    BY DEF NewView, ViewRecord
  <1>5. views' \in Seq(ViewRecord) /\ DOMAIN views' = 1 .. n
        /\ \A k \in 1 .. n : views'[k].id = ids[k] /\ views'[k].fd = Closed
    BY <1>2, <1>3, <1>4
  <1>6. ViewsDiffer'
    BY <1>2, <1>5 DEF ViewsDiffer
  <1> QED BY <1>5, <1>6, Numbers DEF Loses, IsLinked

(* allocate_view links the descriptor to one view, or to none.               *)
LEMMA AllocateViewLinks ==
  ASSUME TypeOK, ViewsDiffer, NEW f \in Fd \cup {Closed}, NEW id \in Name,
         f = Closed \/ ~IsLinked(f), AllocateView(f, id)
  PROVE  /\ views' \in Seq(ViewRecord) /\ ViewsDiffer'
         /\ \A g \in Fd : g # f /\ IsLinked(g)' => IsLinked(g)
  <1>1. Len(views) \in Nat /\ DOMAIN views = 1 .. Len(views) /\ views \in Seq(ViewRecord)
        /\ \A k \in DOMAIN views : views[k] \in ViewRecord
    BY DEF TypeOK
  <1> DEFINE S == {k \in 1 .. Len(views) : views[k].id = id /\ views[k].fd = Closed}
             wanted == SelectInSeq(views, LAMBDA v : v.id = id /\ v.fd = Closed)
             free == IF wanted # 0 THEN wanted ELSE ViewOf(Closed)
  <1>2. wanted = IF S # {} THEN Min(S) ELSE 0
    BY DEF SelectInSeq
  <1>3. S # {} => Min(S) \in S
    <2>1. S \in SUBSET Nat
      BY <1>1
    <2> HIDE DEF S
    <2> QED BY <2>1, LeastNatural
  <1>4. wanted # 0 => wanted \in DOMAIN views /\ views[wanted].fd = Closed
    <2> HIDE DEF wanted
    <2> QED BY <1>1, <1>2, <1>3
  <1>5. views' = IF free = 0 THEN views ELSE [views EXCEPT ![free].fd = f, ![free].late = FALSE]
    BY DEF AllocateView
  <1> HIDE DEF wanted
  <1>6. free # 0 => free \in DOMAIN views /\ views[free].fd = Closed
    BY <1>4, ViewOfFacts
  <1> HIDE DEF free
  <1>7. CASE free = 0
    <2>1. views' = views
      BY <1>5, <1>7
    <2> QED BY <2>1, SameViews DEF Loses
  <1>8. CASE free # 0
    <2>1. [views[free] EXCEPT !.fd = f, !.late = FALSE] \in ViewRecord
          /\ [views[free] EXCEPT !.fd = f, !.late = FALSE].fd = f
          /\ [views[free] EXCEPT !.fd = f, !.late = FALSE].id = views[free].id
      BY <1>1, <1>6, <1>8 DEF ViewRecord
    <2>2. views' = [views EXCEPT ![free] = [views[free] EXCEPT !.fd = f, !.late = FALSE]]
      BY <1>1, <1>5, <1>6, <1>8 DEF ViewRecord
    <2>3. /\ views' \in Seq(ViewRecord) /\ DOMAIN views' = DOMAIN views
          /\ \A k \in DOMAIN views : /\ views'[k].id = views[k].id
                                     /\ views'[k].fd = IF k = free THEN f ELSE views[k].fd
      BY <2>1, <2>2, <1>1, <1>6, <1>8
    <2>4. ViewsDiffer'
      BY <2>3, <1>6, <1>8 DEF ViewsDiffer, IsLinked
    <2> QED BY <2>3, <2>4 DEF IsLinked
  <1> QED BY <1>7, <1>8

-----------------------------------------------------------------------------
(* The fishes.                                                               *)

LEMMA FishRequestDiffers ==
  ASSUME TypeOK, FishesDiffer, FishRequest
  PROVE  fishes' \in Seq(FishRecord) /\ FishesDiffer'
  <1>1. Len(fishes) \in Nat /\ DOMAIN fishes = 1 .. Len(fishes) /\ fishes \in Seq(FishRecord)
        /\ \A k \in DOMAIN fishes : fishes[k] \in FishRecord
    BY DEF TypeOK
  <1>2. ASSUME NEW name \in Fish, AddFish(name) PROVE fishes' \in Seq(FishRecord) /\ FishesDiffer'
    <2> DEFINE new == [name |-> name, started |-> FALSE]
    <2>1. new \in FishRecord /\ new.name = name /\ fishes' = Append(fishes, new)
      BY <1>2 DEF FishRecord, AddFish
    <2> HIDE DEF new
    <2>2. /\ fishes' \in Seq(FishRecord) /\ DOMAIN fishes' = 1 .. Len(fishes) + 1
          /\ fishes'[Len(fishes) + 1] = new
          /\ \A k \in 1 .. Len(fishes) : fishes'[k] = fishes[k] /\ fishes[k].name # name
      BY <1>1, <1>2, <2>1 DEF AddFish, HasFish
    <2> QED BY <1>1, <2>1, <2>2 DEF FishesDiffer
  <1>3. ASSUME NEW name \in Fish, RemoveFish(name) PROVE fishes' \in Seq(FishRecord) /\ FishesDiffer'
    <2>1. PICK k \in DOMAIN fishes : fishes' = Front([fishes EXCEPT ![k] = Last(fishes)])
      BY <1>3 DEF RemoveFish
    <2>2. /\ fishes' \in Seq(FishRecord) /\ DOMAIN fishes' = 1 .. Len(fishes) - 1
          /\ \A j \in 1 .. Len(fishes) - 1 :
               fishes'[j] = IF j = k THEN fishes[Len(fishes)] ELSE fishes[j]
      BY <1>1, <2>1, LastReplaces
    <2> QED BY <1>1, <2>2 DEF FishesDiffer
  <1>4. ASSUME NEW name \in Fish, StartFish(name) PROVE fishes' \in Seq(FishRecord) /\ FishesDiffer'
    <2>1. PICK k \in DOMAIN fishes : fishes' = [fishes EXCEPT ![k].started = TRUE]
      BY <1>4 DEF StartFish
    <2> DEFINE v == [fishes[k] EXCEPT !.started = TRUE]
    <2>2. fishes' = [fishes EXCEPT ![k] = v] /\ v \in FishRecord /\ v.name = fishes[k].name
      BY <1>1, <2>1 DEF FishRecord
    <2> HIDE DEF v
    <2>3. /\ fishes' \in Seq(FishRecord) /\ DOMAIN fishes' = DOMAIN fishes
          /\ \A j \in DOMAIN fishes : fishes'[j] = IF j = k THEN v ELSE fishes[j]
      BY <1>1, <2>2
    <2>4. \A j \in DOMAIN fishes : fishes'[j].name = fishes[j].name
      BY <2>2, <2>3
    <2> QED BY <2>3, <2>4 DEF FishesDiffer
  <1>5. CASE UNCHANGED fishes
    BY <1>1, <1>5 DEF FishesDiffer
  <1> QED BY <1>2, <1>3, <1>4, <1>5 DEF FishRequest

-----------------------------------------------------------------------------
(* What write, close and close_socket do.                                    *)

LEMMA MyFdType ==
  ASSUME TypeOK
  PROVE  MyFd \in Fd \cup {Closed} /\ fd[to.slot] \in Fd \cup {Closed}
  BY DEF TypeOK, MyFd

LEMMA WriteEffect ==
  ASSUME TypeOK, NEW f \in Fd \cup {Closed}, Write(f)
  PROVE  /\ server' \in {server, "killed"}
         /\ net' \in [Client -> {"new", "backlog", "up", "gone", "reset", "closed"}]
         /\ \A c \in Client : net'[c] = net[c] \/ (net[c] = "gone" /\ net'[c] = "reset")
  <1>1. CASE IsOpen(f)
    <2>1. conn[f] \in Client
      BY <1>1 DEF IsOpen, TypeOK
    <2> QED BY <1>1, <2>1 DEF Write, TypeOK
  <1>2. CASE ~IsOpen(f)
    BY <1>2 DEF Write, TypeOK
  <1> QED BY <1>1, <1>2

LEMMA CloseFdEffect ==
  ASSUME TypeOK, NEW f \in Fd \cup {Closed}, CloseFd(f)
  PROVE  /\ net' \in [Client -> {"new", "backlog", "up", "gone", "reset", "closed"}]
         /\ inbox' \in [Client -> BOOLEAN]
         /\ conn' \in [Fd -> Client \cup {None}]
         /\ \A g \in Fd : conn'[g] = IF g = f THEN None ELSE conn[g]
         /\ \A c \in Client : net'[c] = IF IsOpen(f) /\ c = conn[f] THEN "closed" ELSE net[c]
  <1>1. CASE IsOpen(f)
    <2>1. conn[f] \in Client /\ f \in Fd
      BY <1>1 DEF IsOpen, TypeOK
    <2> QED BY <1>1, <2>1 DEF CloseFd, TypeOK
  <1>2. CASE ~IsOpen(f)
    BY <1>2, Numbers DEF CloseFd, IsOpen, TypeOK
  <1> QED BY <1>1, <1>2

LEMMA CloseSocketEffect ==
  ASSUME TypeOK, NEW s, CloseSocket(s)
  PROVE  /\ observers' \in Seq(Slot) /\ Len(observers') <= Len(observers)
         /\ bc.at = "asleep"
  <1>1. Len(observers) \in Nat /\ observers \in Seq(Slot) /\ \A k \in 1 .. Len(observers) : observers[k] \in Slot
    BY DEF TypeOK
  <1>2. bc.at = "asleep"
    BY DEF CloseSocket, MutexIsFree
  <1>3. CASE observers = <<>>
    BY <1>1, <1>2, <1>3 DEF CloseSocket
  <1>4. CASE observers # <<>>
    <2> DEFINE S == {k \in 1 .. Len(observers) : observers[k] = s}
               last == SelectLastInSeq(observers, LAMBDA o : o = s)
               n == IF last = 0 THEN 1 ELSE last
    <2>1. last = IF S # {} THEN Max(S) ELSE 0
      BY DEF SelectLastInSeq
    <2>2. S # {} => Max(S) \in S
      <3>1. S \in SUBSET (0 .. Len(observers))
        BY <1>1
      <3> HIDE DEF S
      <3> QED BY <3>1, <1>1, GreatestNatural
    <2>3. last \in 0 .. Len(observers)
      <3> HIDE DEF last
      <3> QED BY <2>1, <2>2, <1>1
    <2>4. observers' = RemoveAt(observers, n)
      BY <1>4 DEF CloseSocket
    <2> HIDE DEF last
    <2>5. n \in 1 .. Len(observers)
      BY <2>3, <1>1, <1>4
    <2>6. observers' = SubSeq(observers, 1, n - 1) \o SubSeq(observers, n + 1, Len(observers))
      BY <2>4 DEF RemoveAt
    <2> HIDE DEF n
    <2>7. /\ SubSeq(observers, 1, n - 1) \in Seq(Slot) /\ Len(SubSeq(observers, 1, n - 1)) = n - 1
      BY <1>1, <2>5, SubSeqProperties
    <2>8. /\ SubSeq(observers, n + 1, Len(observers)) \in Seq(Slot)
          /\ Len(SubSeq(observers, n + 1, Len(observers))) = Len(observers) - n
      BY <1>1, <2>5, SubSeqProperties
    <2>9. observers' \in Seq(Slot) /\ Len(observers') = n - 1 + (Len(observers) - n)
      BY <2>6, <2>7, <2>8
    <2> QED BY <1>1, <1>2, <2>5, <2>9
  <1> QED BY <1>3, <1>4

LEMMA RegisterEffect ==
  ASSUME TypeOK, Remembered, Register
  PROVE  observers' \in Seq(Slot) /\ Len(observers') <= MaxObservers /\ bc.at = "asleep"
  <1>1. /\ Len(observers) \in Nat /\ observers \in Seq(Slot) /\ Len(observers) <= MaxObservers
        /\ main.i \in Nat /\ main.i < MaxObservers /\ main.slot \in Slot /\ MaxObservers \in Nat
    BY ControllerAssumption DEF TypeOK, Remembered, Register
  <1>2. bc.at = "asleep"
    BY DEF Register, MutexIsFree
  <1>3. CASE main.i <= Len(observers)
    <2>1. observers' = Append(SubSeq(observers, 1, main.i), main.slot)
      BY <1>3 DEF Register
    <2>2. \A k \in 1 .. main.i : observers[k] \in Slot
      BY <1>1, <1>3
    <2>3. SubSeq(observers, 1, main.i) \in Seq(Slot) /\ Len(SubSeq(observers, 1, main.i)) = main.i
      BY <1>1, <2>2, SubSeqProperties
    <2> QED BY <1>1, <1>2, <2>1, <2>3
  <1>4. CASE ~(main.i <= Len(observers))
    BY <1>1, <1>2, <1>4 DEF Register
  <1> QED BY <1>3, <1>4

-----------------------------------------------------------------------------
(* Which steps write a variable.                                             *)

MainStep ==
  \/ \E line \in BOOLEAN : Poll(line)
  \/ Accept \/ Scan \/ Command \/ Send \/ Error
  \/ \E r \in Request, id \in Name : Recv(r, id)
  \/ CloseFree \/ CloseUnregister \/ CloseEnd
  \/ Hello \/ Allocate \/ Ping \/ GetFishes \/ ListMine
  \/ GetFishesContinously \/ Register \/ FishRequest

OtherStep ==
  \/ BroadcastBegin \/ BroadcastList \/ BroadcastWrite
  \/ \E s \in Slot : TimeoutFind(s)
  \/ TimeoutBye \/ TimeoutFree \/ TimeoutUnregister \/ TimeoutClose \/ TimeoutErase
  \/ \E c \in Client : Connect(c) \/ Leave(c) \/ SendRequest(c)
  \/ \E k \in DOMAIN views : Silence(k)

LEMMA Steps == Next <=> server = "up" /\ UNCHANGED sent /\ (MainStep \/ OtherStep)
  <1>1. (\E line \in BOOLEAN : Poll(line)) <=> Poll(FALSE) \/ Poll(TRUE)
    OBVIOUS
  <1> QED BY <1>1, Zenon DEF Next, MainRuns, BroadcastRuns, TimeoutRuns, Environment, MainStep, OtherStep

LEMMA MainWrites ==
  ASSUME MainStep
  PROVE  /\ UNCHANGED <<bc, to, timedOut>>
         /\ \/ UNCHANGED views \/ Command \/ CloseFree \/ Allocate \/ Ping
         /\ \/ UNCHANGED fishes \/ Command \/ FishRequest
         /\ \/ UNCHANGED <<fd, conn>> \/ Accept \/ CloseEnd
         /\ \/ UNCHANGED used \/ Accept
         /\ \/ UNCHANGED observers \/ Register \/ CloseUnregister
         /\ \/ UNCHANGED net \/ Accept \/ Send \/ CloseEnd
         /\ \/ UNCHANGED inbox \/ CloseEnd \/ \E r \in Request, id \in Name : Recv(r, id)
         /\ \/ UNCHANGED events \/ Scan \/ \E line \in BOOLEAN : Poll(line)
         /\ \/ UNCHANGED server \/ ListMine \/ Send \/ Error
  BY DEF MainStep, Poll, Accept, Scan, Command, Send, Error, Recv, CloseFree, CloseUnregister,
         CloseEnd, Hello, Allocate, Ping, GetFishes, ListMine, GetFishesContinously, Register,
         FishRequest, Outside, clients, shared

LEMMA OthersWrite ==
  ASSUME OtherStep
  PROVE  /\ UNCHANGED <<main, used, fishes, events>>
         /\ \/ UNCHANGED views \/ TimeoutFree \/ \E k \in DOMAIN views : Silence(k)
         /\ \/ UNCHANGED fd \/ TimeoutErase
         /\ \/ UNCHANGED conn \/ TimeoutClose
         /\ \/ UNCHANGED observers \/ TimeoutUnregister
         /\ \/ UNCHANGED net \/ BroadcastWrite \/ TimeoutBye \/ TimeoutClose
            \/ \E c \in Client : Connect(c) \/ Leave(c)
         /\ \/ UNCHANGED inbox \/ TimeoutClose \/ \E c \in Client : SendRequest(c)
         /\ \/ UNCHANGED server \/ BroadcastList \/ BroadcastWrite \/ TimeoutBye
         /\ \/ UNCHANGED bc \/ BroadcastBegin \/ BroadcastList \/ BroadcastWrite
         /\ \/ UNCHANGED timedOut \/ \E s \in Slot : TimeoutFind(s)
         /\ \/ UNCHANGED to \/ TimeoutBye \/ TimeoutFree \/ TimeoutUnregister \/ TimeoutClose
            \/ TimeoutErase \/ \E s \in Slot : TimeoutFind(s)
  BY DEF OtherStep, BroadcastBegin, BroadcastList, BroadcastWrite, TimeoutFind, TimeoutBye,
         TimeoutFree, TimeoutUnregister, TimeoutClose, TimeoutErase, Connect, Leave, SendRequest,
         Silence, Server, clients, shared

-----------------------------------------------------------------------------
(* A connection that waits leaves a descriptor and an entry of fd_array free. *)
LEMMA AcceptEffect ==
  ASSUME TypeOK, Descriptors, Accept
  PROVE  \E c \in Client, f \in Fd :
           /\ net[c] = "backlog" /\ conn[f] = None /\ c \notin Accepted
           /\ net' = [net EXCEPT ![c] = "up"] /\ conn' = [conn EXCEPT ![f] = c]
           /\ used + 2 \in Slot /\ fd' = [fd EXCEPT ![used + 2] = f]
           /\ used' = used + 1 /\ used' \in 0 .. Cardinality(Client)
           /\ used' = Cardinality(Accepted')
  <1>1. PICK c \in Client : /\ net[c] = "backlog" /\ net' = [net EXCEPT ![c] = "up"]
                            /\ conn' = [conn EXCEPT ![Min({g \in Fd : conn[g] = None})] = c]
    BY DEF Accept
  <1> DEFINE free == {g \in Fd : conn[g] = None}
             f == Min(free)
             N == Cardinality(Client)
  <1>2. c \notin Accepted /\ Accepted \subseteq Client \ {c}
    BY <1>1 DEF Accepted
  <1>3. /\ IsFiniteSet(Client \ {c}) /\ Cardinality(Client \ {c}) = N - 1
        /\ IsFiniteSet(Accepted) /\ Cardinality(Accepted) <= N - 1 /\ N \in Nat \ {0}
        /\ Cardinality(Accepted) \in Nat
    <2>1. IsFiniteSet(Client \ {c}) /\ Cardinality(Client \ {c}) = N - 1
      BY ControllerAssumption, FS_RemoveElement
    <2>2. IsFiniteSet(Accepted) /\ Cardinality(Accepted) <= Cardinality(Client \ {c})
      BY <1>2, <2>1, FS_Subset
    <2> QED BY <2>1, <2>2, Numbers, FS_CardinalityType
  <1>4. free # {}
    <2> SUFFICES ASSUME free = {} PROVE FALSE
      OBVIOUS
    <2>1. \A g \in Fd : conn[g] \in Client \ {c}
      BY <1>1 DEF Descriptors, TypeOK
    <2>2. conn \in [Fd -> Client \ {c}]
      BY <2>1 DEF TypeOK
    <2>3. IsFiniteSet(Fd) /\ Cardinality(Fd) = N
      <3>1. 3 \in Int /\ 2 + N \in Int /\ Fd = 3 .. 2 + N
        BY <1>3, Numbers
      <3> QED BY <3>1, <1>3, FS_Interval
    <2>4. Cardinality(Client \ {c}) < Cardinality(Fd)
      BY <2>3, <1>3
    <2>5. \E x, y \in Fd : x # y /\ conn[x] = conn[y]
      BY <2>2, <2>3, <2>4, <1>3, FS_PigeonHole
    <2> QED BY <2>1, <2>5 DEF Descriptors
  <1>5. f \in Fd /\ conn[f] = None
    <2>1. free \in SUBSET Nat
      BY Numbers
    <2>2. f \in free
      <3> HIDE DEF free
      <3> QED BY <2>1, <1>4, LeastNatural
    <2> QED BY <2>2
  <1>6. used + 2 \in Slot /\ used + 1 \in 0 .. N /\ used \in Nat
    BY <1>3, Numbers DEF Descriptors
  <1>7. fd' = [fd EXCEPT ![used + 2] = f] /\ used' = used + 1
    BY DEF Accept
  <1>8. Cardinality(Accepted') = used + 1
    <2>1. Accepted' = Accepted \cup {c}
      BY <1>1 DEF Accepted, TypeOK
    <2>2. Cardinality(Accepted \cup {c}) = Cardinality(Accepted) + 1
      BY <1>2, <1>3, FS_AddElement
    <2> QED BY <2>1, <2>2 DEF Descriptors
  <1> HIDE DEF f
  <1> QED BY <1>1, <1>2, <1>5, <1>6, <1>7, <1>8 DEF f

-----------------------------------------------------------------------------
(* Views and fishes.                                                         *)

LEMMA ViewsStep ==
  ASSUME IInv, Next
  PROVE  /\ views' \in Seq(ViewRecord) /\ ViewsDiffer'
         /\ \A f \in Fd : IsLinked(f)' => IsLinked(f) \/ (Allocate /\ f = MyFd)
         /\ CloseFree /\ MyFd # Closed => ~IsLinked(MyFd)'
  <1> USE DEF IInv
  <1>1. CASE UNCHANGED views \/ CloseFree \/ TimeoutFree
    <2>1. CloseFree => FreeView(MyFd)
      BY DEF CloseFree
    <2>2. TimeoutFree => FreeView(fd[to.slot])
      BY DEF TimeoutFree
    <2>3. Loses /\ (CloseFree /\ MyFd # Closed => ~IsLinked(MyFd)')
      <3>1. CASE CloseFree
        <4>1. \A f \in Fd \cup {Closed} : FreeView(f) => Loses /\ (f # Closed => ~IsLinked(f)')
          BY FreeViewLoses
        <4>2. Loses /\ (MyFd # Closed => \A f \in Fd : f = MyFd => ~IsLinked(f)')
          BY <4>1, <2>1, <3>1, MyFdType
        <4>3. MyFd # Closed => MyFd \in Fd
          BY MyFdType
        <4>4. UNCHANGED fd /\ main'.slot = main.slot
          BY <3>1 DEF CloseFree, GoTo, TypeOK
        <4>5. MyFd' = MyFd
          BY <4>4 DEF MyFd
        <4> QED BY <4>2, <4>3, <4>5 DEF IsLinked
      <3>2. CASE TimeoutFree
        <4>1. Loses
          BY <2>2, <3>2, MyFdType, FreeViewLoses
        <4>2. ~CloseFree
          BY <3>2 DEF TimeoutFree, CloseFree, GoTo, TypeOK
        <4> QED BY <4>1, <4>2
      <3>3. CASE UNCHANGED views /\ ~CloseFree
        BY <3>3, SameViews
      <3> QED BY <1>1, <3>1, <3>2, <3>3
    <2> QED BY <2>3 DEF Loses
  <1>2. CASE Command
    <2>1. Loses
      BY <1>2, AddViewLoses, RemoveViewLoses, LoadLoses, SameViews DEF Command
    <2> QED BY <2>1, <1>2 DEF Loses, Command, CloseFree
  <1>3. CASE Allocate
    <2>1. MyFd = Closed \/ ~IsLinked(MyFd)
      BY <1>3 DEF Allocate, Remembered
    <2>2. AllocateView(MyFd, main.id) /\ main.id \in Name /\ MyFd \in Fd \cup {Closed}
      BY <1>3, MyFdType DEF Allocate, TypeOK
    <2>3. /\ views' \in Seq(ViewRecord) /\ ViewsDiffer'
          /\ \A g \in Fd : g # MyFd /\ IsLinked(g)' => IsLinked(g)
      BY <2>1, <2>2, AllocateViewLinks
    <2> QED BY <2>3, <1>3 DEF Allocate, CloseFree
  <1>4. CASE Ping
    <2>1. Loses
      BY <1>4, PingLoses
    <2> QED BY <2>1, <1>4 DEF Loses, Ping, CloseFree
  <1>5. ASSUME NEW k \in DOMAIN views, Silence(k)
        PROVE  Loses /\ UNCHANGED main
    BY <1>5, LateLoses DEF Silence
  <1>6. CASE \E k \in DOMAIN views : Silence(k)
    <2>1. Loses /\ UNCHANGED main
      BY <1>6, <1>5
    <2>2. ~CloseFree
      BY <2>1 DEF CloseFree, GoTo, TypeOK
    <2> QED BY <2>1, <2>2 DEF Loses
  <1> QED BY <1>1, <1>2, <1>3, <1>4, <1>6, Steps, MainWrites, OthersWrite

LEMMA FishesStep ==
  ASSUME IInv, Next
  PROVE  fishes' \in Seq(FishRecord) /\ FishesDiffer'
  <1> USE DEF IInv
  <1>1. CASE UNCHANGED fishes
    BY <1>1 DEF FishesDiffer, TypeOK
  <1>2. CASE FishRequest
    BY <1>2, FishRequestDiffers
  <1>3. CASE Command /\ fishes' # fishes
    <2>1. fishes' = <<>>
      BY <1>3 DEF Command, Load
    <2> QED BY <2>1 DEF FishesDiffer
  <1> QED BY <1>1, <1>2, <1>3, Steps, MainWrites, OthersWrite

-----------------------------------------------------------------------------
(* The types.                                                                *)

LEMMA ServerTypes ==
  ASSUME IInv, Next
  PROVE  /\ server' \in {"up", "exited", "crashed", "killed"}
         /\ net' \in [Client -> {"new", "backlog", "up", "gone", "reset", "closed"}]
         /\ inbox' \in [Client -> BOOLEAN]
  <1> USE DEF IInv
  <1>1. CASE Send
    <2>1. Write(MyFd) /\ UNCHANGED inbox
      BY <1>1 DEF Send
    <2> QED BY <2>1, MyFdType, WriteEffect DEF TypeOK
  <1>2. CASE BroadcastWrite
    <2>1. Write(fd[Served]) /\ UNCHANGED inbox
      BY <1>2 DEF BroadcastWrite
    <2>2. fd[Served] \in Fd \cup {Closed}
      BY <1>2 DEF BroadcastWrite, Served, TypeOK, Remembered
    <2> QED BY <2>1, <2>2, WriteEffect DEF TypeOK
  <1>3. CASE TimeoutBye
    <2>1. Write(fd[to.slot]) /\ UNCHANGED inbox
      BY <1>3 DEF TimeoutBye
    <2> QED BY <2>1, MyFdType, WriteEffect DEF TypeOK
  <1>4. CASE CloseEnd \/ TimeoutClose
    <2>1. (CloseFd(MyFd) \/ CloseFd(fd[to.slot])) /\ UNCHANGED server
      BY <1>4 DEF CloseEnd, TimeoutClose
    <2> QED BY <2>1, MyFdType, CloseFdEffect DEF TypeOK
  <1>5. CASE Accept
    BY <1>5, AcceptEffect DEF Accept, TypeOK
  <1>6. ASSUME NEW r \in Request, NEW id \in Name, Recv(r, id)
        PROVE  inbox' \in [Client -> BOOLEAN] /\ UNCHANGED <<net, server>>
    BY <1>6 DEF Recv, TypeOK
  <1>7. ASSUME NEW c \in Client, Connect(c) \/ Leave(c) \/ SendRequest(c)
        PROVE  /\ server' = server /\ inbox' \in [Client -> BOOLEAN]
               /\ net' \in [Client -> {"new", "backlog", "up", "gone", "reset", "closed"}]
    BY <1>7 DEF Connect, Leave, SendRequest, Server, TypeOK
  <1>8. CASE ListMine \/ BroadcastList \/ Error
    BY <1>8 DEF ListMine, BroadcastList, Error, List, Outside, clients, TypeOK
  <1>9. CASE UNCHANGED <<server, net, inbox>>
    BY <1>9 DEF TypeOK
  <1>10. \/ UNCHANGED <<server, net, inbox>>
         \/ Send \/ BroadcastWrite \/ TimeoutBye \/ CloseEnd \/ TimeoutClose \/ Accept
         \/ \E r \in Request, id \in Name : Recv(r, id)
         \/ \E c \in Client : Connect(c) \/ Leave(c) \/ SendRequest(c)
         \/ ListMine \/ BroadcastList \/ Error
    BY Steps, MainWrites, OthersWrite, Zenon
  <1>11. CASE \E r \in Request, id \in Name : Recv(r, id)
    BY <1>6, <1>11 DEF TypeOK
  <1>12. CASE \E c \in Client : Connect(c) \/ Leave(c) \/ SendRequest(c)
    BY <1>7, <1>12 DEF TypeOK
  <1> QED BY <1>1, <1>2, <1>3, <1>4, <1>5, <1>8, <1>9, <1>10, <1>11, <1>12

LEMMA DescriptorTypes ==
  ASSUME IInv, Next
  PROVE  /\ fd' \in [Slot -> Fd \cup {Closed}]
         /\ conn' \in [Fd -> Client \cup {None}]
         /\ used' \in 0 .. Cardinality(Client)
         /\ observers' \in Seq(Slot) /\ Len(observers') <= MaxObservers
  <1> USE DEF IInv
  <1>1. CASE Accept
    <2>1. UNCHANGED observers
      BY <1>1 DEF Accept
    <2>2. PICK c \in Client, f \in Fd :
            /\ conn' = [conn EXCEPT ![f] = c] /\ fd' = [fd EXCEPT ![used + 2] = f]
            /\ used' \in 0 .. Cardinality(Client)
      BY <1>1, AcceptEffect
    <2> QED BY <2>1, <2>2 DEF TypeOK
  <1>2. CASE CloseEnd
    <2>1. CloseFd(MyFd) /\ fd' = [fd EXCEPT ![main.slot] = Closed] /\ UNCHANGED <<used, observers>>
      BY <1>2 DEF CloseEnd
    <2> QED BY <2>1, MyFdType, CloseFdEffect DEF TypeOK
  <1>3. CASE TimeoutClose
    <2>1. CloseFd(fd[to.slot]) /\ UNCHANGED <<fd, used, observers>>
      BY <1>3 DEF TimeoutClose
    <2> QED BY <2>1, MyFdType, CloseFdEffect DEF TypeOK
  <1>4. CASE TimeoutErase
    BY <1>4 DEF TimeoutErase, TypeOK
  <1>5. CASE CloseUnregister \/ TimeoutUnregister
    <2>1. (CloseSocket(main.slot) \/ CloseSocket(to.slot)) /\ UNCHANGED <<fd, conn, used>>
      BY <1>5 DEF CloseUnregister, TimeoutUnregister
    <2>2. observers' \in Seq(Slot) /\ Len(observers') <= Len(observers)
      BY <2>1, CloseSocketEffect
    <2>3. Len(observers) \in Nat /\ Len(observers) <= MaxObservers /\ Len(observers') \in Nat /\ MaxObservers \in Nat
      BY <2>2, ControllerAssumption DEF TypeOK
    <2> QED BY <2>1, <2>2, <2>3 DEF TypeOK
  <1>6. CASE Register
    <2>1. UNCHANGED <<fd, conn, used>>
      BY <1>6 DEF Register, Outside
    <2> QED BY <1>6, <2>1, RegisterEffect DEF TypeOK
  <1>7. CASE UNCHANGED <<fd, conn, used, observers>>
    BY <1>7 DEF TypeOK
  <1>8. \/ UNCHANGED <<fd, conn, used, observers>>
        \/ Accept \/ CloseEnd \/ TimeoutClose \/ TimeoutErase
        \/ CloseUnregister \/ TimeoutUnregister \/ Register
    BY Steps, MainWrites, OthersWrite, Zenon
  <1> QED BY <1>1, <1>2, <1>3, <1>4, <1>5, <1>6, <1>7, <1>8

(* The next entry with an event.                                             *)
LEMMA ScanEffect ==
  ASSUME TypeOK, Scan
  PROVE  \E s \in events.hup \cup events.in :
           /\ s = 1 \/ s \in Slot
           /\ events' = [hup |-> events.hup \ {s}, in |-> events.in \ {s}]
           /\ main' = [main EXCEPT !.at = CASE s \in events.hup -> "free"
                                            [] s = 1 -> "command"
                                            [] OTHER -> "recv",
                                   !.slot = IF s = 1 THEN @ ELSE s]
           /\ s = 1 => s \notin events.hup
  <1> DEFINE S == events.hup \cup events.in
             s == Min(S)
  <1>1. events.hup \subseteq Slot /\ events.in \subseteq {1} \cup Slot
    BY DEF TypeOK
  <1>2. s \in S
    <2>1. S \in SUBSET Nat /\ S # {}
      BY <1>1, Numbers DEF Scan
    <2> HIDE DEF S
    <2> QED BY <2>1, LeastNatural
  <1>3. /\ events' = Handled(s)
        /\ main' = [main EXCEPT !.at = CASE s \in events.hup -> "free"
                                         [] s = 1 -> "command"
                                         [] OTHER -> "recv",
                                !.slot = IF s = 1 THEN @ ELSE s]
    BY DEF Scan
  <1> HIDE DEF s
  <1> QED BY <1>1, <1>2, <1>3, Numbers DEF Handled

Places == Request \cup {"accept", "scan", "command", "recv", "allocate", "list", "register", "send",
                        "free", "unregister", "close"}

LEMMA MainTypes ==
  ASSUME IInv, Next
  PROVE  main' \in [at : Places, slot : Slot, id : Name, i : 0 .. MaxObservers]
  <1> USE DEF IInv
  <1> DEFINE T == [at : Places, slot : Slot, id : Name, i : 0 .. MaxObservers]
  <1>0. main \in T /\ 2 \in Slot /\ None \in Name /\ 0 \in 0 .. MaxObservers
    BY Numbers, ControllerAssumption DEF TypeOK, Places, Name
  <1>a. /\ \A p \in Places : [main EXCEPT !.at = p] \in T
        /\ \A p \in Places : [main EXCEPT !.at = p, !.slot = 2] \in T
        /\ \A p \in Places : [main EXCEPT !.at = p, !.id = None] \in T
    BY <1>0
  <1>1. CASE Scan
    <2>1. PICK s \in events.hup \cup events.in :
           /\ s = 1 \/ s \in Slot
           /\ main' = [main EXCEPT !.at = CASE s \in events.hup -> "free"
                                            [] s = 1 -> "command"
                                            [] OTHER -> "recv",
                                   !.slot = IF s = 1 THEN @ ELSE s]
      BY <1>1, ScanEffect
    <2>2. (CASE s \in events.hup -> "free" [] s = 1 -> "command" [] OTHER -> "recv") \in Places
      BY DEF Places
    <2>3. (IF s = 1 THEN main.slot ELSE s) \in Slot
      BY <2>1, <1>0
    <2> QED BY <1>0, <2>1, <2>2, <2>3
  <1>2. ASSUME NEW line \in BOOLEAN, Poll(line) PROVE main' \in T
    <2>1. \E p \in Places : main' = [main EXCEPT !.at = p]
      BY <1>2 DEF Poll, GoTo, Places
    <2> QED BY <2>1, <1>a
  <1>3. ASSUME NEW r \in Request, NEW id \in Name, Recv(r, id) PROVE main' \in T
    BY <1>3, <1>0 DEF Recv, Places
  <1>4. CASE Accept \/ Command \/ Send \/ CloseFree \/ CloseUnregister \/ CloseEnd \/ Ping
             \/ GetFishes \/ ListMine \/ FishRequest
    <2>1. \E p \in Places : \/ main' = [main EXCEPT !.at = p]
                            \/ main' = [main EXCEPT !.at = p, !.slot = 2]
      BY <1>4 DEF Accept, Command, Send, CloseFree, CloseUnregister, CloseEnd, Ping, GetFishes,
                  ListMine, FishRequest, GoTo, ToScan, Places
    <2> QED BY <2>1, <1>a
  <1>5. CASE Hello \/ Allocate
    <2>1. \E p \in Places : \/ main' = [main EXCEPT !.at = p]
                            \/ main' = [main EXCEPT !.at = p, !.id = None]
      BY <1>5 DEF Hello, Allocate, Places
    <2> QED BY <2>1, <1>a
  <1>6. CASE Error \/ OtherStep
    BY <1>0, <1>6, OthersWrite DEF Error
  <1>7. CASE Register
    BY <1>0, <1>7 DEF Register, Places
  <1>8. CASE GetFishesContinously
    <2>1. Len(observers) \in 0 .. MaxObservers
      BY ControllerAssumption DEF TypeOK
    <2> QED BY <1>0, <1>8, <2>1 DEF GetFishesContinously, Places
  <1> QED BY <1>1, <1>2, <1>3, <1>4, <1>5, <1>6, <1>7, <1>8, Steps DEF MainStep

LEMMA ThreadTypes ==
  ASSUME IInv, Next
  PROVE  /\ events' \in [hup : SUBSET Slot, in : SUBSET ({1} \cup Slot)]
         /\ bc' \in [at : {"asleep", "list", "write"}, i : 0 .. MaxObservers]
         /\ to' \in [at : {"scan", "bye", "free", "unregister", "close", "erase"}, slot : Slot]
         /\ timedOut' \in BOOLEAN
  <1> USE DEF IInv
  <1>1. events' \in [hup : SUBSET Slot, in : SUBSET ({1} \cup Slot)]
    <2>1. CASE Scan
      <3>1. PICK s \in events.hup \cup events.in :
              events' = [hup |-> events.hup \ {s}, in |-> events.in \ {s}]
        BY <2>1, ScanEffect
      <3>2. events.hup \subseteq Slot /\ events.in \subseteq {1} \cup Slot
        BY DEF TypeOK
      <3> QED BY <3>1, <3>2
    <2>2. ASSUME NEW line \in BOOLEAN, Poll(line)
          PROVE  events' \in [hup : SUBSET Slot, in : SUBSET ({1} \cup Slot)]
      BY <2>2 DEF Poll
    <2> QED BY <2>1, <2>2, Steps, MainWrites, OthersWrite DEF TypeOK
  <1>2. bc' \in [at : {"asleep", "list", "write"}, i : 0 .. MaxObservers]
    <2>1. /\ bc \in [at : {"asleep", "list", "write"}, i : 0 .. MaxObservers]
          /\ Len(observers) \in 0 .. MaxObservers
      BY ControllerAssumption DEF TypeOK
    <2>2. CASE BroadcastBegin \/ BroadcastList
      BY <2>1, <2>2, ControllerAssumption DEF BroadcastBegin, BroadcastList
    <2>3. CASE BroadcastWrite
      <3>1. bc.i < Len(observers)
        BY <2>3 DEF BroadcastWrite, Remembered
      <3> QED BY <3>1, <2>1, <2>3, ControllerAssumption DEF BroadcastWrite, NextServed
    <2> QED BY <2>1, <2>2, <2>3, Steps, MainWrites, OthersWrite
  <1>3. to' \in [at : {"scan", "bye", "free", "unregister", "close", "erase"}, slot : Slot]
    <2>1. to \in [at : {"scan", "bye", "free", "unregister", "close", "erase"}, slot : Slot] /\ 2 \in Slot
      BY Numbers DEF TypeOK
    <2>2. ASSUME NEW s \in Slot, TimeoutFind(s)
          PROVE  to' \in [at : {"scan", "bye", "free", "unregister", "close", "erase"}, slot : Slot]
      BY <2>2 DEF TimeoutFind
    <2> QED BY <2>1, <2>2, Steps, MainWrites, OthersWrite
      DEF TimeoutBye, TimeoutFree, TimeoutUnregister, TimeoutClose, TimeoutErase, ToGoTo
  <1>4. timedOut' \in BOOLEAN
    BY Steps, MainWrites, OthersWrite DEF TypeOK, TimeoutFind
  <1> QED BY <1>1, <1>2, <1>3, <1>4

LEMMA TypeStep == IInv /\ Next => TypeOK'
  <1> SUFFICES ASSUME IInv, Next PROVE TypeOK'
    OBVIOUS
  <1>1. sent' \in Sents
    BY Steps DEF IInv, TypeOK
  <1> QED BY <1>1, ServerTypes, DescriptorTypes, MainTypes, ThreadTypes, ViewsStep, FishesStep
          DEF TypeOK, Places

-----------------------------------------------------------------------------
(* The descriptors.                                                          *)

(* A step that neither accepts nor closes a connection.                      *)
LEMMA DescriptorsStay ==
  ASSUME TypeOK, Descriptors, UNCHANGED <<fd, conn, used>>,
         \A c \in Client :
           /\ net'[c] \in {"new", "backlog"} <=> net[c] \in {"new", "backlog"}
           /\ net[c] \in {"up", "gone", "reset"} => net'[c] \in {"up", "gone", "reset"},
         \/ UNCHANGED to
         \/ to'.at # "erase" /\ (to'.at # "scan" => to'.slot <= used + 1)
  PROVE  Descriptors'
  <1>1. Accepted' = Accepted
    BY DEF Accepted
  <1>2. \A f \in Fd : conn[f] # None => conn[f] \in Client
    BY DEF TypeOK
  <1>3. \A f : IsOpen(f)' <=> IsOpen(f)
    BY DEF IsOpen
  <1> QED BY <1>1, <1>2, <1>3 DEF Descriptors, IsOpen

LEMMA DescriptorsAfterAccept ==
  ASSUME TypeOK, Descriptors, Accept PROVE Descriptors'
  <1>1. PICK c \in Client, f \in Fd :
           /\ net[c] = "backlog" /\ conn[f] = None /\ c \notin Accepted
           /\ net' = [net EXCEPT ![c] = "up"] /\ conn' = [conn EXCEPT ![f] = c]
           /\ used + 2 \in Slot /\ fd' = [fd EXCEPT ![used + 2] = f]
           /\ used' = used + 1 /\ used' = Cardinality(Accepted')
    BY AcceptEffect
  <1>2. UNCHANGED to /\ used \in Nat /\ Slot \subseteq Nat /\ Fd \subseteq Nat /\ Closed \notin Fd
    BY Numbers DEF Accept, TypeOK
  <1>3. /\ \A g \in Fd : conn'[g] = IF g = f THEN c ELSE conn[g]
        /\ \A s \in Slot : fd'[s] = IF s = used + 2 THEN f ELSE fd[s]
        /\ \A b \in Client : net'[b] = IF b = c THEN "up" ELSE net[b]
        /\ \A g \in Fd : conn[g] # None => conn[g] \in Client
        /\ c # None
    BY <1>1, ControllerAssumption DEF TypeOK
  <1>4. \A g \in Fd : conn[g] # c
    BY <1>1, <1>3 DEF Descriptors
  <1>5. fd[used + 2] = Closed
    BY <1>1, <1>2 DEF Descriptors
  <1>6. \A g \in Fd : conn'[g] # None => net'[conn'[g]] \in {"up", "gone", "reset"}
    BY <1>3, <1>4 DEF Descriptors
  <1>7. \A g, h \in Fd : conn'[g] = conn'[h] /\ g # h => conn'[g] = None
    BY <1>3, <1>4 DEF Descriptors
  <1>8. \A s \in Slot : fd'[s] # Closed => s <= used' + 1
    BY <1>1, <1>2, <1>3 DEF Descriptors
  <1>9. \A g \in Fd : conn'[g] # None => \E s \in Slot : fd'[s] = g
    BY <1>1, <1>2, <1>3, <1>5 DEF Descriptors
  <1>10. to'.at # "scan" => to'.slot <= used' + 1
    <2>1. to.slot \in Nat /\ (to.at # "scan" => to.slot <= used + 1)
      BY <1>2 DEF Descriptors, TypeOK
    <2> QED BY <1>1, <1>2, <2>1
  <1>11. ASSUME to'.at = "erase", IsOpen(fd[to.slot])'
         PROVE  \E s \in Slot : s # to.slot /\ fd'[s] = fd'[to.slot]
    <2>1. to.slot \in Slot /\ to.slot <= used + 1 /\ to.slot # used + 2
      BY <1>2, <1>11 DEF Descriptors, TypeOK
    <2>2. fd'[to.slot] = fd[to.slot] /\ to'.slot = to.slot
      BY <1>2, <1>3, <2>1
    <2>3. CASE fd[to.slot] = f
      BY <1>1, <1>3, <2>1, <2>2, <2>3
    <2>4. CASE fd[to.slot] # f
      <3>1. IsOpen(fd[to.slot])
        <4>1. fd'[to.slot] # Closed /\ conn'[fd'[to.slot]] # None
          BY <1>11, <2>2 DEF IsOpen
        <4>2. fd[to.slot] \in Fd
          BY <2>1, <2>2, <4>1 DEF TypeOK
        <4> QED BY <1>3, <2>2, <2>4, <4>1, <4>2 DEF IsOpen
      <3>2. PICK s \in Slot : s # to.slot /\ fd[s] = fd[to.slot]
        BY <1>2, <1>11, <3>1 DEF Descriptors
      <3>3. s # used + 2
        BY <1>5, <3>1, <3>2 DEF IsOpen
      <3> QED BY <1>3, <2>2, <3>2, <3>3
    <2> QED BY <2>3, <2>4
  <1> QED BY <1>1, <1>2, <1>6, <1>7, <1>8, <1>9, <1>10, <1>11 DEF Descriptors

(* close: the connection is in no descriptor any more.                       *)
LEMMA ClosedIsForgotten ==
  ASSUME TypeOK, Descriptors, NEW f \in Fd \cup {Closed}, CloseFd(f)
  PROVE  /\ \A g \in Fd : conn'[g] # None => net'[conn'[g]] \in {"up", "gone", "reset"}
         /\ \A g, h \in Fd : conn'[g] = conn'[h] /\ g # h => conn'[g] = None
         /\ Accepted' = Accepted
  <1>1. /\ \A g \in Fd : conn'[g] = IF g = f THEN None ELSE conn[g]
        /\ \A c \in Client : net'[c] = IF IsOpen(f) /\ c = conn[f] THEN "closed" ELSE net[c]
    BY CloseFdEffect
  <1>2. \A g \in Fd : conn[g] # None => conn[g] \in Client
    BY DEF TypeOK
  <1>3. \A g \in Fd : conn'[g] # None => net'[conn'[g]] \in {"up", "gone", "reset"}
    BY <1>1, <1>2 DEF Descriptors, IsOpen
  <1>4. \A g, h \in Fd : conn'[g] = conn'[h] /\ g # h => conn'[g] = None
    BY <1>1 DEF Descriptors
  <1>5. Accepted' = Accepted
    <2>1. IsOpen(f) => f \in Fd /\ net[conn[f]] \in {"up", "gone", "reset"}
      BY DEF IsOpen, Descriptors
    <2> QED BY <1>1, <2>1 DEF Accepted
  <1> QED BY <1>3, <1>4, <1>5

LEMMA DescriptorsAfterClose ==
  ASSUME TypeOK, Descriptors, CloseEnd PROVE Descriptors'
  <1>1. /\ CloseFd(MyFd) /\ fd' = [fd EXCEPT ![main.slot] = Closed] /\ UNCHANGED <<used, to>>
        /\ MyFd \in Fd \cup {Closed} /\ main.slot \in Slot /\ to.slot \in Slot /\ Closed \notin Fd
    BY MyFdType, Numbers DEF CloseEnd, TypeOK
  <1>2. /\ \A g \in Fd : conn'[g] = IF g = MyFd THEN None ELSE conn[g]
        /\ \A s \in Slot : fd'[s] = IF s = main.slot THEN Closed ELSE fd[s]
        /\ fd[main.slot] = MyFd
    BY <1>1, CloseFdEffect DEF TypeOK, MyFd
  <1>3. \A s \in Slot : fd'[s] # Closed => s <= used' + 1
    BY <1>1, <1>2 DEF Descriptors
  <1>4. \A g \in Fd : conn'[g] # None => \E s \in Slot : fd'[s] = g
    BY <1>2 DEF Descriptors
  <1>5. to'.at # "scan" => to'.slot <= used' + 1
    BY <1>1 DEF Descriptors
  <1>6. ASSUME to'.at = "erase", IsOpen(fd[to.slot])'
        PROVE  \E s \in Slot : s # to.slot /\ fd'[s] = fd'[to.slot]
    <2>1. /\ fd'[to.slot] = fd[to.slot] /\ fd[to.slot] # MyFd /\ IsOpen(fd[to.slot])
      BY <1>1, <1>2, <1>6 DEF IsOpen, TypeOK
    <2>2. PICK s \in Slot : s # to.slot /\ fd[s] = fd[to.slot]
      BY <1>1, <1>6, <2>1 DEF Descriptors
    <2>3. s # main.slot
      BY <1>2, <2>1, <2>2
    <2> QED BY <1>2, <2>1, <2>2, <2>3
  <1>7. /\ \A g \in Fd : conn'[g] # None => net'[conn'[g]] \in {"up", "gone", "reset"}
        /\ \A g, h \in Fd : conn'[g] = conn'[h] /\ g # h => conn'[g] = None
        /\ used' = Cardinality(Accepted')
    BY <1>1, ClosedIsForgotten DEF Descriptors
  <1> QED BY <1>1, <1>3, <1>4, <1>5, <1>6, <1>7 DEF Descriptors

LEMMA DescriptorsAfterTimeout ==
  ASSUME TypeOK, Descriptors, TimeoutClose \/ TimeoutErase PROVE Descriptors'
  <1>1. CASE TimeoutClose
    <2>1. /\ CloseFd(fd[to.slot]) /\ UNCHANGED <<fd, used>>
          /\ to'.slot = to.slot /\ to.at = "close"
          /\ fd[to.slot] \in Fd \cup {Closed} /\ Closed \notin Fd
      BY <1>1, MyFdType, Numbers DEF TimeoutClose, ToGoTo, TypeOK
    <2>2. \A g \in Fd : conn'[g] = IF g = fd[to.slot] THEN None ELSE conn[g]
      BY <2>1, CloseFdEffect
    <2>3. ~IsOpen(fd[to.slot])' /\ to'.slot = to.slot /\ to.slot <= used + 1
      BY <2>1, <2>2 DEF IsOpen, Descriptors
    <2>4. \A g \in Fd : conn'[g] # None => \E s \in Slot : fd'[s] = g
      BY <2>1, <2>2 DEF Descriptors
    <2>5. /\ \A g \in Fd : conn'[g] # None => net'[conn'[g]] \in {"up", "gone", "reset"}
          /\ \A g, h \in Fd : conn'[g] = conn'[h] /\ g # h => conn'[g] = None
          /\ used' = Cardinality(Accepted')
      BY <2>1, ClosedIsForgotten DEF Descriptors
    <2> QED BY <2>1, <2>3, <2>4, <2>5 DEF Descriptors
  <1>2. CASE TimeoutErase
    <2>1. /\ UNCHANGED <<conn, used, net>> /\ to' = [at |-> "scan", slot |-> 2] /\ to.at = "erase"
          /\ fd' = [fd EXCEPT ![to.slot] = Closed] /\ to.slot \in Slot /\ Closed \notin Fd
      BY <1>2, Numbers DEF TimeoutErase, clients, TypeOK
    <2>2. \A s \in Slot : fd'[s] = IF s = to.slot THEN Closed ELSE fd[s]
      BY <2>1 DEF TypeOK
    <2>3. Accepted' = Accepted
      BY <2>1 DEF Accepted
    <2>4. ASSUME NEW g \in Fd, conn'[g] # None PROVE \E s \in Slot : fd'[s] = g
      <3>1. PICK s \in Slot : fd[s] = g
        BY <2>1, <2>4 DEF Descriptors
      <3>2. CASE s = to.slot
        <4>1. IsOpen(fd[to.slot])
          BY <2>1, <2>4, <3>1, <3>2 DEF IsOpen
        <4>2. PICK t \in Slot : t # to.slot /\ fd[t] = fd[to.slot]
          BY <2>1, <4>1 DEF Descriptors
        <4> QED BY <2>2, <3>1, <3>2, <4>2
      <3>3. CASE s # to.slot
        BY <2>2, <3>1, <3>3
      <3> QED BY <3>2, <3>3
    <2>5. \A s \in Slot : fd'[s] # Closed => s <= used' + 1
      BY <2>1, <2>2 DEF Descriptors
    <2> QED BY <2>1, <2>3, <2>4, <2>5 DEF Descriptors
  <1> QED BY <1>1, <1>2

LEMMA DescriptorsStep ==
  ASSUME IInv, Next PROVE Descriptors'
  <1> USE DEF IInv
  <1>1. CASE Accept
    BY <1>1, DescriptorsAfterAccept
  <1>2. CASE CloseEnd
    BY <1>2, DescriptorsAfterClose
  <1>3. CASE TimeoutClose \/ TimeoutErase
    BY <1>3, DescriptorsAfterTimeout
  <1>4. CASE ~Accept /\ ~CloseEnd /\ ~TimeoutClose /\ ~TimeoutErase
    <2>1. UNCHANGED <<fd, conn, used>>
      BY <1>4, Steps, MainWrites, OthersWrite
    <2>2. \A c \in Client :
           /\ net'[c] \in {"new", "backlog"} <=> net[c] \in {"new", "backlog"}
           /\ net[c] \in {"up", "gone", "reset"} => net'[c] \in {"up", "gone", "reset"}
      <3>1. CASE Send \/ BroadcastWrite \/ TimeoutBye
        <4>1. PICK f \in Fd \cup {Closed} : Write(f)
          <5>1. BroadcastWrite => fd[Served] \in Fd \cup {Closed}
            BY DEF BroadcastWrite, Served, TypeOK, Remembered
          <5> QED BY <3>1, <5>1, MyFdType DEF Send, BroadcastWrite, TimeoutBye
        <4>2. \A c \in Client : net'[c] = net[c] \/ (net[c] = "gone" /\ net'[c] = "reset")
          BY <4>1, WriteEffect
        <4> QED BY <4>2
      <3>2. ASSUME NEW c \in Client, Connect(c) \/ Leave(c)
            PROVE \A b \in Client :
                    \/ net'[b] = net[b]
                    \/ net[b] = "new" /\ net'[b] = "backlog"
                    \/ net[b] = "up" /\ net'[b] = "gone"
        BY <3>2 DEF Connect, Leave, TypeOK
      <3>3. CASE \E c \in Client : Connect(c) \/ Leave(c)
        BY <3>2, <3>3
      <3>4. CASE UNCHANGED net
        BY <3>4
      <3> QED BY <1>4, <3>1, <3>3, <3>4, Steps, MainWrites, OthersWrite
    <2>3. \/ UNCHANGED to
          \/ to'.at # "erase" /\ (to'.at # "scan" => to'.slot <= used + 1)
      <3>1. ASSUME NEW s \in Slot, TimeoutFind(s)
            PROVE  to'.at # "erase" /\ to'.slot <= used + 1
        BY <3>1 DEF TimeoutFind, Late, Descriptors
      <3>2. CASE TimeoutBye \/ TimeoutFree \/ TimeoutUnregister
        BY <3>2 DEF TimeoutBye, TimeoutFree, TimeoutUnregister, ToGoTo, Descriptors, TypeOK
      <3> QED BY <1>4, <3>1, <3>2, Steps, MainWrites, OthersWrite
    <2> QED BY <2>1, <2>2, <2>3, DescriptorsStay
  <1> QED BY <1>1, <1>2, <1>3, <1>4

-----------------------------------------------------------------------------
(* Where the main thread comes from.                                         *)

LEMMA Arrivals ==
  ASSUME TypeOK, MainStep
  PROVE  /\ main'.at = "allocate" => Hello \/ Error
         /\ main'.at = "getFishesContinously" =>
              Error \/ \E r \in Request, id \in Name : Recv(r, id)
         /\ main'.at = "register" => GetFishesContinously \/ Error
         /\ main'.at = "unregister" => CloseFree \/ Error
         /\ main'.at = "close" => CloseUnregister \/ Error
         /\ main'.at \notin {"accept", "scan", "command"} =>
              Scan \/ (Busy /\ main'.slot = main.slot)
  <1> USE DEF TypeOK
  <1>1. CASE Accept \/ Command \/ CloseEnd \/ \E line \in BOOLEAN : Poll(line)
    BY <1>1 DEF Accept, Command, CloseEnd, Poll, GoTo, ToScan
  <1>2. CASE Scan
    <2>1. main'.at \in {"free", "command", "recv"}
      BY <1>2 DEF Scan
    <2> QED BY <1>2, <2>1
  <1>3. CASE Error
    BY <1>3 DEF Error, Busy
  <1>4. CASE Send
    BY <1>4 DEF Send, GoTo, ToScan, Busy
  <1>5. ASSUME NEW r \in Request, NEW id \in Name, Recv(r, id)
        PROVE  main'.at \in Request /\ Busy /\ main'.slot = main.slot
    BY <1>5 DEF Recv, Busy
  <1>6. CASE \E r \in Request, id \in Name : Recv(r, id)
    BY <1>5, <1>6 DEF Request
  <1>7. CASE CloseFree \/ CloseUnregister \/ Ping \/ GetFishes \/ ListMine \/ FishRequest
    BY <1>7 DEF CloseFree, CloseUnregister, Ping, GetFishes, ListMine, FishRequest, GoTo, Busy
  <1>8. CASE Hello \/ Allocate \/ GetFishesContinously \/ Register
    BY <1>8 DEF Hello, Allocate, GetFishesContinously, Register, Busy
  <1> QED BY <1>1, <1>2, <1>3, <1>4, <1>6, <1>7, <1>8 DEF MainStep

-----------------------------------------------------------------------------
(* What is remembered.                                                       *)

LEMMA RememberedStep ==
  ASSUME IInv, Next PROVE Remembered'
  <1> USE DEF IInv
  <1>0. Len(observers) \in Nat /\ Closed \notin Fd /\ MyFd \in Fd \cup {Closed}
    BY MyFdType, Numbers DEF TypeOK
  <1>1. OtherStep => MyFd' \in {MyFd, Closed}
    <2>1. OtherStep => UNCHANGED main /\ (UNCHANGED fd \/ TimeoutErase)
      BY OthersWrite
    <2>2. TimeoutErase => fd' = [fd EXCEPT ![to.slot] = Closed]
      BY DEF TimeoutErase
    <2> QED BY <2>1, <2>2 DEF MyFd, TypeOK
  <1>2. ASSUME main'.at = "allocate" PROVE MyFd' = Closed \/ ~IsLinked(MyFd)'
    <2>1. CASE Hello
      <3>1. MyView = 0 /\ UNCHANGED <<views, fd>> /\ main'.slot = main.slot
        BY <2>1, <1>2 DEF Hello, Outside, TypeOK
      <3>2. ~IsLinked(MyFd)
        BY <3>1, ViewOfFacts DEF MyView
      <3> QED BY <3>1, <3>2 DEF IsLinked, MyFd
    <2>2. CASE Error
      BY <2>2, <1>2 DEF Error, Remembered, IsLinked, MyFd, shared
    <2>3. CASE OtherStep
      <3>1. UNCHANGED main /\ ~Allocate
        BY <2>3, OthersWrite DEF Allocate, TypeOK
      <3>2. MyFd = Closed \/ ~IsLinked(MyFd)
        BY <1>2, <3>1 DEF Remembered
      <3>3. \A f \in Fd : f = MyFd => ~IsLinked(f)'
        BY <3>1, <3>2, <1>0, ViewsStep
      <3> QED BY <1>0, <1>1, <2>3, <3>3 DEF IsLinked
    <2> QED BY <2>1, <2>2, <2>3, <1>2, Steps, Arrivals
  <1>3. ASSUME main'.at = "getFishesContinously" PROVE Len(observers') < MaxObservers
    <2>1. ASSUME NEW r \in Request, NEW id \in Name, Recv(r, id) PROVE Len(observers') < MaxObservers
      BY <2>1, <1>3 DEF Recv, TypeOK, shared
    <2>2. CASE Error
      BY <2>2, <1>3 DEF Error, Remembered, shared
    <2>3. CASE OtherStep
      <3>1. Len(observers) < MaxObservers
        BY <2>3, <1>3, OthersWrite DEF Remembered
      <3>2. TimeoutUnregister => observers' \in Seq(Slot) /\ Len(observers') <= Len(observers)
        BY CloseSocketEffect DEF TimeoutUnregister
      <3> QED BY <1>0, <2>3, <3>1, <3>2, OthersWrite, ControllerAssumption
    <2> QED BY <2>1, <2>2, <2>3, <1>3, Steps, Arrivals
  <1>4. ASSUME main'.at = "register" PROVE main'.i < MaxObservers
    <2>1. CASE GetFishesContinously
      BY <2>1 DEF GetFishesContinously, Remembered, TypeOK
    <2>2. CASE Error \/ OtherStep
      BY <2>2, <1>4, OthersWrite DEF Error, Remembered
    <2> QED BY <2>1, <2>2, <1>4, Steps, Arrivals
  <1>5. ASSUME bc'.at # "asleep" PROVE bc'.i < Len(observers')
    <2>1. CASE BroadcastBegin
      <3>1. observers # <<>> /\ UNCHANGED observers /\ bc'.i = 0
        BY <2>1 DEF BroadcastBegin, shared
      <3>2. Len(observers) # 0
        BY <3>1 DEF TypeOK
      <3> QED BY <1>0, <3>1, <3>2
    <2>4. CASE BroadcastList
      BY <2>4 DEF BroadcastList, Remembered, shared, TypeOK
    <2>2. CASE BroadcastWrite
      <3>1. bc.i < Len(observers) /\ UNCHANGED observers /\ bc' = NextServed /\ bc.i \in Nat
        BY <2>2 DEF BroadcastWrite, Remembered, shared, TypeOK
      <3> QED BY <1>0, <1>5, <3>1 DEF NextServed
    <2>3. CASE UNCHANGED bc
      <3>1. CASE Register \/ CloseUnregister \/ TimeoutUnregister
        BY <1>5, <2>3, <3>1 DEF Register, CloseUnregister, TimeoutUnregister, CloseSocket, MutexIsFree
      <3>2. CASE UNCHANGED observers
        BY <1>5, <2>3, <3>2 DEF Remembered
      <3> QED BY <3>1, <3>2, Steps, MainWrites, OthersWrite
    <2> QED BY <2>1, <2>2, <2>3, <2>4, Steps, MainWrites, OthersWrite
  <1> QED BY <1>2, <1>3, <1>4, <1>5 DEF Remembered

-----------------------------------------------------------------------------
(* Before the timeout thread has disconnected anybody.                       *)

(* Only the main thread changes the descriptors then.                        *)
LEMMA OnlyMain ==
  ASSUME IInv, Next, ~timedOut'
  PROVE  /\ ~timedOut /\ UNCHANGED to /\ to.at = "scan"
         /\ UNCHANGED <<fd, conn>> \/ Accept \/ CloseEnd
         /\ OtherStep => UNCHANGED <<fd, conn, main, events>>
  <1>1. ~timedOut /\ to.at = "scan"
    BY Steps, MainWrites, OthersWrite DEF TimeoutFind, IInv, TypeOK, Undisturbed
  <1>2. ~TimeoutErase /\ ~TimeoutClose /\ ~TimeoutBye /\ ~TimeoutFree /\ ~TimeoutUnregister
    BY <1>1 DEF TimeoutErase, TimeoutClose, TimeoutBye, TimeoutFree, TimeoutUnregister
  <1>3. ~ \E s \in Slot : TimeoutFind(s)
    BY DEF TimeoutFind
  <1> QED BY <1>1, <1>2, <1>3, Steps, MainWrites, OthersWrite

LEMMA OpenAndDistinct ==
  ASSUME IInv, Next, ~timedOut'
  PROVE  /\ \A s \in Slot : fd'[s] # Closed => IsOpen(fd[s])'
         /\ \A s, t \in Slot : s # t /\ fd'[s] = fd'[t] => fd'[s] = Closed
         /\ \A f \in Fd : Linked(f) /\ ~(CloseEnd /\ f = MyFd) => Linked(f)'
         /\ \A s \in Ready : IsOpen(fd[s])'
  <1> USE DEF IInv
  <1>1. ~timedOut
    BY OnlyMain
  <1>2. /\ \A s \in Slot : fd[s] # Closed => IsOpen(fd[s])
        /\ \A s, t \in Slot : s # t /\ fd[s] = fd[t] => fd[s] = Closed
        /\ \A s \in Ready : IsOpen(fd[s])
        /\ Ready \subseteq Slot
    BY <1>1 DEF Undisturbed, TypeOK, Ready
  <1>3. CASE UNCHANGED <<fd, conn>>
    <2>1. \A f : IsOpen(f)' <=> IsOpen(f)
      BY <1>3 DEF IsOpen
    <2> QED BY <1>2, <1>3, <2>1 DEF IsOpen, Linked
  <1>4. CASE Accept
    <2>1. PICK c \in Client, f \in Fd :
           /\ conn[f] = None /\ conn' = [conn EXCEPT ![f] = c]
           /\ used + 2 \in Slot /\ fd' = [fd EXCEPT ![used + 2] = f]
      BY <1>4, AcceptEffect
    <2>2. /\ \A g \in Fd : conn'[g] = IF g = f THEN c ELSE conn[g]
          /\ \A s \in Slot : fd'[s] = IF s = used + 2 THEN f ELSE fd[s]
          /\ \A s \in Slot : fd[s] \in Fd \cup {Closed}
          /\ c # None /\ Closed \notin Fd
      BY <2>1, Numbers, ControllerAssumption DEF TypeOK
    <2>3. \A s \in Slot : fd[s] # f
      BY <1>2, <2>1, <2>2 DEF IsOpen
    <2>4. fd[used + 2] = Closed
      <3>1. used \in Nat /\ used + 2 \in Nat
        BY Numbers DEF TypeOK
      <3> QED BY <2>1, <3>1 DEF Descriptors
    <2>5. \A s \in Slot : fd'[s] # Closed => IsOpen(fd[s])'
      BY <1>2, <2>2, <2>3 DEF IsOpen
    <2>6. \A s, t \in Slot : s # t /\ fd'[s] = fd'[t] => fd'[s] = Closed
      BY <1>2, <2>2, <2>3
    <2>7. \A g \in Fd : Linked(g) => Linked(g)'
      BY <2>2, <2>4 DEF Linked, IsOpen
    <2>8. \A s \in Ready : IsOpen(fd[s])'
      BY <1>2, <2>2, <2>4, <2>5 DEF IsOpen
    <2> QED BY <2>5, <2>6, <2>7, <2>8
  <1>5. CASE CloseEnd
    <2>1. /\ CloseFd(MyFd) /\ fd' = [fd EXCEPT ![main.slot] = Closed] /\ Busy
          /\ MyFd \in Fd \cup {Closed} /\ main.slot \in Slot /\ Closed \notin Fd
      BY <1>5, MyFdType, Numbers DEF CloseEnd, TypeOK, Busy
    <2>2. /\ \A g \in Fd : conn'[g] = IF g = MyFd THEN None ELSE conn[g]
          /\ \A s \in Slot : fd'[s] = IF s = main.slot THEN Closed ELSE fd[s]
          /\ \A s \in Slot : fd[s] \in Fd \cup {Closed}
          /\ fd[main.slot] = MyFd
      BY <2>1, CloseFdEffect DEF TypeOK, MyFd
    <2>3. IsOpen(MyFd) /\ main.slot \notin Ready
      BY <1>1, <2>1 DEF Undisturbed
    <2>4. \A s \in Slot : s # main.slot => fd[s] # MyFd
      BY <1>2, <2>1, <2>2, <2>3 DEF IsOpen
    <2>5. \A s \in Slot : fd'[s] # Closed => IsOpen(fd[s])'
      BY <1>2, <2>2, <2>4 DEF IsOpen
    <2>6. \A s, t \in Slot : s # t /\ fd'[s] = fd'[t] => fd'[s] = Closed
      BY <1>2, <2>2
    <2>7. \A g \in Fd : Linked(g) /\ g # MyFd => Linked(g)'
      BY <2>2, <1>5 DEF Linked, IsOpen
    <2>8. \A s \in Ready : IsOpen(fd[s])'
      BY <1>2, <2>2, <2>3, <2>5 DEF IsOpen
    <2> QED BY <2>5, <2>6, <2>7, <2>8, <1>5
  <1> QED BY <1>3, <1>4, <1>5, OnlyMain

LEMMA UndisturbedStep ==
  ASSUME IInv, Next PROVE Undisturbed'
  <1> SUFFICES ASSUME ~timedOut' PROVE Undisturbed'
    BY DEF Undisturbed
  <1> USE DEF IInv
  <1>0. /\ ~timedOut /\ to'.at = "scan"
        /\ \A k \in DOMAIN views : views[k].fd # Closed => Linked(views[k].fd)
        /\ \A s \in Ready : IsOpen(fd[s])
        /\ Busy => IsOpen(MyFd) /\ main.slot \notin Ready
        /\ main.at \in {"unregister", "close"} => ~IsLinked(MyFd)
        /\ server # "exited"
        /\ MyFd \in Fd \cup {Closed} /\ Closed \notin Fd
    BY OnlyMain, MyFdType, Numbers DEF Undisturbed
  <1>1. \A f \in Fd : IsLinked(f)' => Linked(f)'
    <2> SUFFICES ASSUME NEW f \in Fd, IsLinked(f)' PROVE Linked(f)'
      OBVIOUS
    <2>1. Linked(f)
      <3>1. CASE IsLinked(f)
        BY <1>0, <3>1 DEF IsLinked
      <3>2. CASE Allocate /\ f = MyFd
        <4>1. IsOpen(MyFd)
          BY <1>0, <3>2 DEF Allocate, Busy
        <4> QED BY <3>2, <4>1 DEF Linked, MyFd, TypeOK
      <3> QED BY <3>1, <3>2, ViewsStep
    <2>2. ~(CloseEnd /\ f = MyFd)
      <3> SUFFICES ASSUME CloseEnd, f = MyFd PROVE FALSE
        OBVIOUS
      <3>1. ~IsLinked(MyFd) /\ UNCHANGED views
        BY <1>0 DEF CloseEnd
      <3> QED BY <3>1 DEF IsLinked
    <2> QED BY <2>1, <2>2, OpenAndDistinct
  <1>2. (\A k \in DOMAIN views : views[k].fd # Closed => Linked(views[k].fd))'
    <2>1. \A k \in DOMAIN views' : views'[k].fd # Closed => \E f \in Fd : f = views'[k].fd /\ Linked(f)'
      <3> SUFFICES ASSUME NEW k \in DOMAIN views', views'[k].fd # Closed
                   PROVE  \E f \in Fd : f = views'[k].fd /\ Linked(f)'
        OBVIOUS
      <3>1. views'[k] \in ViewRecord
        BY ViewsStep
      <3>2. PICK f \in Fd : f = views'[k].fd
        BY <3>1 DEF ViewRecord
      <3> QED BY <1>1, <3>2 DEF IsLinked
    <2> QED BY <2>1 DEF Linked, IsOpen
  <1>3. \A s \in Ready' : IsOpen(fd[s])'
    <2>1. CASE UNCHANGED events
      BY <2>1, OpenAndDistinct DEF Ready
    <2>2. CASE Scan
      <3>1. Ready' \subseteq Ready
        <4>1. PICK s \in events.hup \cup events.in :
                events' = [hup |-> events.hup \ {s}, in |-> events.in \ {s}]
          BY <2>2, ScanEffect
        <4> QED BY <4>1 DEF Ready
      <3> QED BY <3>1, OpenAndDistinct
    <2>3. ASSUME NEW line \in BOOLEAN, Poll(line) PROVE \A s \in Ready' : IsOpen(fd[s])'
      <3>1. /\ events' = [hup |-> {s \in Slot : HungUp(s)},
                          in |-> {s \in Slot : Readable(s)} \cup (IF line THEN {1} ELSE {})]
            /\ UNCHANGED <<fd, conn>>
        BY <2>3 DEF Poll, shared
      <3>2. \A s \in Ready' : IsOpen(fd[s])
        BY <3>1 DEF Ready, HungUp, Readable
      <3> QED BY <3>1, <3>2 DEF IsOpen
    <2> QED BY <2>1, <2>2, <2>3, Steps, MainWrites, OthersWrite
  <1>4. Busy' => IsOpen(MyFd)' /\ main'.slot \notin Ready'
    <2> SUFFICES ASSUME Busy' PROVE IsOpen(MyFd)' /\ main'.slot \notin Ready'
      OBVIOUS
    <2>1. CASE Scan
      <3>1. PICK s \in events.hup \cup events.in :
              /\ s = 1 \/ s \in Slot
              /\ events' = [hup |-> events.hup \ {s}, in |-> events.in \ {s}]
              /\ main' = [main EXCEPT !.at = CASE s \in events.hup -> "free"
                                               [] s = 1 -> "command"
                                               [] OTHER -> "recv",
                                      !.slot = IF s = 1 THEN @ ELSE s]
              /\ s = 1 => s \notin events.hup
        BY <2>1, ScanEffect
      <3>2. s # 1
        BY <3>1 DEF Busy, TypeOK
      <3>3. main'.slot = s /\ s \in Ready /\ s \notin Ready'
        BY <3>1, <3>2 DEF Ready, TypeOK
      <3>4. UNCHANGED <<fd, conn>>
        BY <2>1 DEF Scan, shared
      <3> QED BY <1>0, <3>3, <3>4 DEF IsOpen, MyFd
    <2>2. CASE Busy /\ main'.slot = main.slot /\ ~Scan
      <3>1. ~Accept /\ ~CloseEnd
        BY <2>2 DEF Accept, CloseEnd, Busy, ToScan, TypeOK
      <3>2. UNCHANGED <<fd, conn>>
        BY <3>1, OnlyMain
      <3>3. ~ \E line \in BOOLEAN : Poll(line)
        BY <2>2 DEF Poll, Polls, Busy
      <3>4. UNCHANGED events
        BY <2>2, <3>3, Steps, MainWrites, OthersWrite
      <3> QED BY <1>0, <2>2, <3>2, <3>4 DEF IsOpen, MyFd, Ready
    <2>3. OtherStep => Busy /\ main'.slot = main.slot /\ ~Scan
      <3>1. OtherStep => UNCHANGED main
        BY OthersWrite
      <3>2. OtherStep => ~Scan
        BY <3>1 DEF Scan, Busy, TypeOK
      <3> QED BY <3>1, <3>2 DEF Busy
    <2>4. MainStep => Scan \/ (Busy /\ main'.slot = main.slot)
      BY Arrivals DEF Busy
    <2> QED BY <2>1, <2>2, <2>3, <2>4, Steps
  <1>5. main'.at \in {"unregister", "close"} => ~IsLinked(MyFd)'
    <2> SUFFICES ASSUME main'.at \in {"unregister", "close"} PROVE ~IsLinked(MyFd)'
      OBVIOUS
    <2>1. CASE CloseFree
      <3>1. MyFd # Closed
        BY <1>0, <2>1 DEF CloseFree, Busy, IsOpen
      <3> QED BY <2>1, <3>1, ViewsStep
    <2>2. CASE CloseUnregister
      <3>1. ~IsLinked(MyFd) /\ UNCHANGED <<views, fd>> /\ main'.slot = main.slot
        BY <1>0, <2>2 DEF CloseUnregister, GoTo, TypeOK
      <3> QED BY <3>1 DEF IsLinked, MyFd
    <2>3. CASE OtherStep
      <3>1. UNCHANGED <<main, fd>> /\ ~Allocate
        BY <2>3, OnlyMain DEF Allocate, TypeOK
      <3>2. ~IsLinked(MyFd) /\ MyFd # Closed
        BY <1>0, <3>1 DEF Busy, IsOpen
      <3>3. \A f \in Fd : f = MyFd => ~IsLinked(f)'
        BY <3>1, <3>2, ViewsStep
      <3>4. MyFd \in Fd /\ MyFd' = MyFd
        BY <1>0, <3>1, <3>2 DEF MyFd
      <3> QED BY <3>3, <3>4 DEF IsLinked
    <2>4. ~Error
      BY <1>0 DEF Error, Busy
    <2> QED BY <2>1, <2>2, <2>3, <2>4, Steps, Arrivals
  <1>6. server' # "exited"
    <2>1. ~Error
      BY <1>0 DEF Error, Busy
    <2>2. CASE UNCHANGED server
      BY <1>0, <2>2
    <2>3. CASE ListMine \/ BroadcastList
      BY <2>3 DEF ListMine, BroadcastList, List
    <2>4. CASE Send
      BY <1>0, <2>4, WriteEffect DEF Send
    <2>5. CASE BroadcastWrite
      <3>1. Write(fd[Served]) /\ fd[Served] \in Fd \cup {Closed}
        BY <2>5 DEF BroadcastWrite, Served, TypeOK, Remembered
      <3> QED BY <1>0, <3>1, WriteEffect
    <2>6. ~TimeoutBye
      BY <1>0, OnlyMain DEF TimeoutBye
    <2> QED BY <2>1, <2>2, <2>3, <2>4, <2>5, <2>6, Steps, MainWrites, OthersWrite
  <1> QED BY <1>0, <1>2, <1>3, <1>4, <1>5, <1>6, OpenAndDistinct DEF Undisturbed

-----------------------------------------------------------------------------
LEMMA InitInv == Init => IInv
  <1> SUFFICES ASSUME Init PROVE IInv
    OBVIOUS
  <1>1. TypeOK
    <2> USE DEF Init
    <2>1. /\ server \in {"up", "exited", "crashed", "killed"} /\ sent \in Sents
          /\ net \in [Client -> {"new", "backlog", "up", "gone", "reset", "closed"}]
          /\ inbox \in [Client -> BOOLEAN] /\ timedOut \in BOOLEAN
      OBVIOUS
    <2>2. /\ fd \in [Slot -> Fd \cup {Closed}]
          /\ conn \in [Fd -> Client \cup {None}]
          /\ used \in 0 .. Cardinality(Client)
      BY Numbers
    <2>3. /\ views \in Seq(ViewRecord) /\ fishes \in Seq(FishRecord)
          /\ observers \in Seq(Slot) /\ Len(observers) <= MaxObservers
          /\ events \in [hup : SUBSET Slot, in : SUBSET ({1} \cup Slot)]
      BY ControllerAssumption
    <2>4. 2 \in Slot /\ 0 \in 0 .. MaxObservers /\ None \in Name
      BY Numbers, ControllerAssumption DEF Name
    <2>5. main \in [at : Request \cup {"accept", "scan", "command", "recv",
                                       "allocate", "list", "register", "send",
                                       "free", "unregister", "close"},
                    slot : Slot, id : Name, i : 0 .. MaxObservers]
      BY <2>4
    <2>6. /\ bc \in [at : {"asleep", "list", "write"}, i : 0 .. MaxObservers]
          /\ to \in [at : {"scan", "bye", "free", "unregister", "close", "erase"}, slot : Slot]
      BY <2>4
    <2> QED BY <2>1, <2>2, <2>3, <2>5, <2>6 DEF TypeOK
  <1>2. Accepted = {} /\ used = Cardinality(Accepted)
    BY FS_EmptySet DEF Init, Accepted
  <1>3. ViewsDiffer /\ FishesDiffer /\ Remembered
    BY DEF Init, ViewsDiffer, FishesDiffer, Remembered
  <1>4. Descriptors
    BY <1>2 DEF Init, Descriptors, IsOpen
  <1>5. Undisturbed
    BY DEF Init, Undisturbed, Ready, Busy, IsOpen
  <1> QED BY <1>1, <1>3, <1>4, <1>5 DEF IInv

LEMMA StepInv == IInv /\ [Next]_vars => IInv'
  <1>1. ASSUME IInv, Next PROVE IInv'
    BY <1>1, TypeStep, ViewsStep, FishesStep, DescriptorsStep, RememberedStep, UndisturbedStep DEF IInv
  <1>2. ASSUME IInv, UNCHANGED vars PROVE IInv'
    BY <1>2 DEF IInv, vars, clients, shared, TypeOK, ViewsDiffer, FishesDiffer, Descriptors,
                Remembered, Undisturbed, Accepted, IsOpen, IsLinked, Linked, Busy, Ready, MyFd
  <1> QED BY <1>1, <1>2

(* The inductive invariant: the types and the distinct names; a descriptor   *)
(* is one accepted connection and in fd_array; what a thread has read and    *)
(* acts on later is still true; and before the first disconnection by the    *)
(* timeout thread nothing changes a descriptor under the main thread.        *)
THEOREM Invariant == Spec => []IInv
  BY InitInv, StepInv, PTL DEF Spec

(* No two views have one name or one connection and no two fishes one name,  *)
(* whatever the clients and the operator send. (state.c:57-121, 134-158)     *)
THEOREM TheAquariumIsSound == Spec => []AquariumIsSound
  <1>1. IInv => AquariumIsSound
    BY DEF IInv, AquariumIsSound, ViewsDiffer, FishesDiffer
  <1> QED BY <1>1, Invariant, PTL

(* A connection that is open is polled, and until the timeout thread has     *)
(* disconnected somebody fd_array holds open and different descriptors, and  *)
(* the views theirs. (server.c:87-109, protocol.c:240-273)                   *)
THEOREM TheDescriptorsAreRight == Spec => []DescriptorsAreRight
  <1>1. IInv => DescriptorsAreRight
    BY DEF IInv, DescriptorsAreRight, Descriptors, Undisturbed
  <1> QED BY <1>1, Invariant, PTL

(* Only the timeout thread makes a read or a write of the main thread fail.  *)
(* (server.c:160-167, 214-227; protocol.c:255-262)                           *)
THEOREM OnlyTheTimeoutExits == Spec => []ExitsOnlyByTimeout
  <1>1. IInv => ExitsOnlyByTimeout
    BY DEF IInv, ExitsOnlyByTimeout, Undisturbed, TypeOK
  <1> QED BY <1>1, Invariant, PTL
=============================================================================
