---------------------------- MODULE Atlas_proofs ----------------------------
(***************************************************************************)
(* Proofs about Atlas and Render, for any groups and resources, any grid,  *)
(* any hash and any number of changes of the estate, during the crawls and *)
(* between them: the report of two maps is about the estate, the layout is *)
(* stable, and the picture of every map is in order.                       *)
(*                                                                         *)
(* The invariant says what a crawl knows while the estate changes beside   *)
(* it (Watched), that a map which is written has a room for each group and *)
(* what was found there (Written), and that each of its rooms is where     *)
(* Place puts it beside the rooms before it (AllLaid).  The layout is a    *)
(* recursive function: LayoutExists shows that there is one, RingIsWhole   *)
(* and FreeCell that the search for a cell ends at one that is not taken.  *)
(***************************************************************************)
EXTENDS Render, FiniteSetTheorems, SequenceTheorems, WellFoundedInduction, TLAPS

-----------------------------------------------------------------------------
(* Sets of numbers *)

LEMMA LeastElement ==
  ASSUME NEW T \in SUBSET Nat, T # {}
  PROVE  \E m \in T : \A k \in T : m <= k
<1>1. PICK m \in T : \A k \in T : <<k, m>> \notin OpToRel(<, Nat)
  BY NatLessThanWellFounded, WFMin
<1>2. \A k \in T : ~(k < m)
  BY <1>1 DEF OpToRel
<1> QED
  BY <1>2

LEMMA MinIsIn ==
  ASSUME NEW T \in SUBSET Nat, T # {}
  PROVE  Min(T) \in T /\ \A k \in T : Min(T) <= k
BY LeastElement DEF Min

\* A finite set of numbers has a bound: the smallest subset without one would
\* have an element, and without it a bound.
LEMMA FiniteIsBounded ==
  ASSUME NEW D \in SUBSET Nat, IsFiniteSet(D)
  PROVE  \E n \in Nat : \A g \in D : g <= n
<1> DEFINE bounded(s) == \E n \in Nat : \A g \in s : g <= n
           sizes == {Cardinality(s) : s \in {t \in SUBSET D : ~bounded(t)}}
<1>1. \A s \in SUBSET D : IsFiniteSet(s) /\ Cardinality(s) \in Nat
  BY FS_Subset, FS_CardinalityType
<1>2. SUFFICES ASSUME ~bounded(D) PROVE FALSE
  OBVIOUS
<1>3. sizes \in SUBSET Nat /\ sizes # {}
  <2>1. Cardinality(D) \in sizes
    BY <1>2
  <2> QED
    BY <1>1, <2>1
<1>4. PICK m \in sizes : \A k \in sizes : m <= k
  BY <1>3, LeastElement
<1>5. PICK s \in SUBSET D : ~bounded(s) /\ m = Cardinality(s)
  OBVIOUS
<1>6. PICK x \in s : TRUE
  <2>1. bounded({})
    OBVIOUS
  <2> HIDE DEF bounded
  <2> QED
    BY <1>5, <2>1
<1>7. Cardinality(s \ {x}) = Cardinality(s) - 1
  BY <1>1, <1>5, FS_RemoveElement
<1>8. ~(m <= m - 1)
  BY <1>3, <1>4
<1>9. bounded(s \ {x})
  <2>1. Cardinality(s \ {x}) \notin sizes
    BY <1>4, <1>5, <1>7, <1>8
  <2> QED
    BY <1>5, <2>1
<1>10. PICK n \in Nat : \A g \in s \ {x} : g <= n
  BY <1>9
<1>11. \A g \in s : g <= n + x
  BY <1>10
<1>12. n + x \in Nat
  BY <1>6
<1> QED
  BY <1>5, <1>11, <1>12

-----------------------------------------------------------------------------
(* The layout *)

\* The cells of some rooms, each given those of the rooms before it.
IsLayout(f, D, home) ==
  f = [g \in D |-> Place(home[g], {f[h] : h \in {k \in D : k < g}})]

\* There is such a layout: one that is right up to room n - 1 makes one that is
\* right up to room n.
LEMMA LayoutExists ==
  ASSUME NEW D \in SUBSET Nat, IsFiniteSet(D), NEW home
  PROVE  \E f : IsLayout(f, D, home)
<1> DEFINE cell(f, g) == Place(home[g], {f[h] : h \in {k \in D : k < g}})
           upto(n, f) == /\ f = [g \in D |-> f[g]]
                         /\ \A g \in D : g <= n => f[g] = cell(f, g)
           fails == {n \in Nat : ~ \E f : upto(n, f)}
<1>1. ASSUME fails # {} PROVE FALSE
  <2>1. PICK m \in fails : \A k \in fails : m <= k
    BY <1>1, LeastElement
  <2>2. m \in Nat
    BY <2>1
  <2>3. \E f : /\ f = [g \in D |-> f[g]]
               /\ \A g \in D : g < m => f[g] = cell(f, g)
    <3>1. CASE m = 0
      <4> DEFINE f == [g \in D |-> 0]
      <4>1. f = [g \in D |-> f[g]] /\ \A g \in D : ~(g < m)
        BY <3>1
      <4> HIDE DEF f, cell
      <4> QED
        BY <4>1
    <3>2. CASE m # 0
      <4>1. m - 1 \in Nat /\ ~(m <= m - 1)
        BY <2>2, <3>2
      <4>2. PICK f : upto(m - 1, f)
        <5>1. m - 1 \notin fails
          BY <2>1, <4>1
        <5> HIDE DEF upto
        <5> QED
          BY <4>1, <5>1
      <4>3. \A g \in D : g < m => g <= m - 1
        BY <2>2
      <4> HIDE DEF cell
      <4> QED
        BY <4>2, <4>3
    <3> QED
      BY <3>1, <3>2
  <2>4. PICK f : /\ f = [g \in D |-> f[g]]
                 /\ \A g \in D : g < m => f[g] = cell(f, g)
    BY <2>3
  <2> DEFINE h == [g \in D |-> IF g < m THEN f[g] ELSE cell(f, g)]
  <2>5. ASSUME NEW g \in D, g <= m
        PROVE  h[g] = cell(h, g)
    <3>1. h[g] = cell(f, g)
      BY <2>4
    <3>2. \A k \in D : k < g => h[k] = f[k]
      BY <2>2, <2>5
    <3> HIDE DEF h
    <3>3. {h[k] : k \in {j \in D : j < g}} = {f[k] : k \in {j \in D : j < g}}
      BY <3>2
    <3> QED
      BY <3>1, <3>3
  <2>6. upto(m, h)
    <3>1. h = [g \in D |-> h[g]]
      OBVIOUS
    <3> HIDE DEF h, cell
    <3> QED
      BY <2>5, <3>1
  <2> HIDE DEF upto, h
  <2> QED
    BY <2>1, <2>6
<1>2. PICK n \in Nat : \A g \in D : g <= n
  BY FiniteIsBounded
<1>3. PICK f : upto(n, f)
  <2>1. n \notin fails
    BY <1>1
  <2> HIDE DEF upto
  <2> QED
    BY <2>1
<1>4. \A g \in D : f[g] = cell(f, g)
  BY <1>2, <1>3
<1>5. f = [g \in D |-> cell(f, g)]
  BY <1>3, <1>4
<1> QED
  BY <1>5 DEF IsLayout

LEMMA LayoutCells ==
  ASSUME Range(order) \in SUBSET Nat, IsFiniteSet(Range(order))
  PROVE  \A g \in Range(order) :
           Layout[g] = Place(Home(g, region[g]), {Layout[h] : h \in Earlier(g)})
<1> DEFINE D == Range(order)
           home == [g \in D |-> Home(g, region[g])]
           cells(f) == f = [g \in D |-> Place(Home(g, region[g]), {f[h] : h \in Earlier(g)})]
<1>1. Layout = CHOOSE f : cells(f)
  BY DEF Layout
<1>2. PICK f : IsLayout(f, D, home)
  BY LayoutExists
<1>3. cells(f)
  <2>1. \A g \in D : home[g] = Home(g, region[g]) /\ {k \in D : k < g} = Earlier(g)
    BY DEF Earlier
  <2> HIDE DEF home, D
  <2> QED
    BY <1>2, <2>1 DEF IsLayout, D
<1>4. cells(Layout)
  <2> HIDE DEF cells
  <2> QED
    BY <1>1, <1>3
<1> QED
  <2> HIDE DEF D
  <2> QED
    BY <1>4 DEF D

-----------------------------------------------------------------------------
(* The search for a free cell *)

Cells == Nat \X Nat

\* The ring has four sides; the first index of each side.
LEMMA RingSides ==
  ASSUME NEW d \in Nat, d >= 1
  PROVE  /\ RingOffsets(d) \in Seq(Int \X Int)
         /\ Len(RingOffsets(d)) = 8 * d
         /\ \A i \in 1..(2 * d + 1) : RingOffsets(d)[i] = <<i - 1 - d, -d>>
         /\ \A i \in 1..(2 * d) : RingOffsets(d)[2 * d + 1 + i] = <<d, i - d>>
         /\ \A i \in 1..(2 * d) : RingOffsets(d)[4 * d + 1 + i] = <<d - i, d>>
         /\ \A i \in 1..(2 * d - 1) : RingOffsets(d)[6 * d + 1 + i] = <<-d, d - i>>
<1> DEFINE top    == [i \in 1..(2 * d + 1) |-> <<i - 1 - d, -d>>]
           right  == [i \in 1..(2 * d) |-> <<d, i - d>>]
           bottom == [i \in 1..(2 * d) |-> <<d - i, d>>]
           left   == [i \in 1..(2 * d - 1) |-> <<-d, d - i>>]
<1>1. RingOffsets(d) = top \o right \o bottom \o left
  BY DEF RingOffsets
<1>2. /\ top \in Seq(Int \X Int) /\ Len(top) = 2 * d + 1
      /\ right \in Seq(Int \X Int) /\ Len(right) = 2 * d
      /\ bottom \in Seq(Int \X Int) /\ Len(bottom) = 2 * d
      /\ left \in Seq(Int \X Int) /\ Len(left) = 2 * d - 1
  <2>1. /\ \A i \in 1..(2 * d + 1) : <<i - 1 - d, -d>> \in Int \X Int
        /\ \A i \in 1..(2 * d) : <<d, i - d>> \in Int \X Int
        /\ \A i \in 1..(2 * d) : <<d - i, d>> \in Int \X Int
        /\ \A i \in 1..(2 * d - 1) : <<-d, d - i>> \in Int \X Int
    OBVIOUS
  <2>2. 2 * d + 1 \in Nat /\ 2 * d \in Nat /\ 2 * d - 1 \in Nat
    OBVIOUS
  <2> QED
    BY <2>1, <2>2
<1>3. /\ \A i \in 1..(2 * d + 1) : top[i] = <<i - 1 - d, -d>>
      /\ \A i \in 1..(2 * d) : right[i] = <<d, i - d>>
      /\ \A i \in 1..(2 * d) : bottom[i] = <<d - i, d>>
      /\ \A i \in 1..(2 * d - 1) : left[i] = <<-d, d - i>>
  OBVIOUS
<1> HIDE DEF top, right, bottom, left
<1> DEFINE P == Int \X Int
           two == 2 * d
           upTop == 2 * d + 1
           upRight == 4 * d + 1
           upBottom == 6 * d + 1
           three == 2 * d - 1
           all == 8 * d
<1>3a. /\ upRight = upTop + two /\ upBottom = upRight + two /\ all = upBottom + three
       /\ two \in Nat /\ upTop \in Nat /\ upRight \in Nat /\ upBottom \in Nat /\ three \in Nat
       /\ all \in Nat
  OBVIOUS
<1>3b. /\ top \in Seq(P) /\ Len(top) = upTop /\ right \in Seq(P) /\ Len(right) = two
       /\ bottom \in Seq(P) /\ Len(bottom) = two /\ left \in Seq(P) /\ Len(left) = three
  BY <1>2
<1> HIDE DEF P, two, upTop, upRight, upBottom, three, all
<1>4. /\ top \o right \in Seq(P) /\ Len(top \o right) = upRight
      /\ \A k \in 1..upRight :
           (top \o right)[k] = IF k <= upTop THEN top[k] ELSE right[k - upTop]
  <2>1. /\ top \o right \in Seq(P)
        /\ Len(top \o right) = Len(top) + Len(right)
        /\ \A k \in 1..(Len(top) + Len(right)) :
             (top \o right)[k] = IF k <= Len(top) THEN top[k] ELSE right[k - Len(top)]
    BY <1>3b, ConcatProperties
  <2> QED
    BY <1>3a, <1>3b, <2>1
<1>5. /\ top \o right \o bottom \in Seq(P) /\ Len(top \o right \o bottom) = upBottom
      /\ \A k \in 1..upBottom :
           (top \o right \o bottom)[k]
             = IF k <= upRight THEN (top \o right)[k] ELSE bottom[k - upRight]
  <2>1. /\ (top \o right) \o bottom \in Seq(P)
        /\ Len((top \o right) \o bottom) = Len(top \o right) + Len(bottom)
        /\ \A k \in 1..(Len(top \o right) + Len(bottom)) :
             ((top \o right) \o bottom)[k]
               = IF k <= Len(top \o right) THEN (top \o right)[k]
                 ELSE bottom[k - Len(top \o right)]
    BY <1>3b, <1>4, ConcatProperties
  <2> QED
    BY <1>3a, <1>3b, <1>4, <2>1
<1>6. /\ RingOffsets(d) \in Seq(P) /\ Len(RingOffsets(d)) = all
      /\ \A k \in 1..all :
           RingOffsets(d)[k]
             = IF k <= upBottom THEN (top \o right \o bottom)[k] ELSE left[k - upBottom]
  <2>1. /\ (top \o right \o bottom) \o left \in Seq(P)
        /\ Len((top \o right \o bottom) \o left) = Len(top \o right \o bottom) + Len(left)
        /\ \A k \in 1..(Len(top \o right \o bottom) + Len(left)) :
             ((top \o right \o bottom) \o left)[k]
               = IF k <= Len(top \o right \o bottom) THEN (top \o right \o bottom)[k]
                 ELSE left[k - Len(top \o right \o bottom)]
    BY <1>3b, <1>5, ConcatProperties
  <2> QED
    BY <1>1, <1>3a, <1>3b, <1>5, <2>1
<1> USE DEF P, two, upTop, upRight, upBottom, three, all
<1>7. ASSUME NEW i \in 1..(2 * d + 1)
      PROVE  RingOffsets(d)[i] = <<i - 1 - d, -d>>
  <2>1. i \in 1..(4 * d + 1) /\ i \in 1..(6 * d + 1) /\ i \in 1..(8 * d)
        /\ i <= 2 * d + 1 /\ i <= 4 * d + 1 /\ i <= 6 * d + 1
    OBVIOUS
  <2> QED
    BY <1>3, <1>4, <1>5, <1>6, <2>1
<1>8. ASSUME NEW i \in 1..(2 * d)
      PROVE  RingOffsets(d)[2 * d + 1 + i] = <<d, i - d>>
  <2> DEFINE k == 2 * d + 1 + i
  <2>1. k \in 1..(4 * d + 1) /\ k \in 1..(6 * d + 1) /\ k \in 1..(8 * d)
        /\ ~(k <= 2 * d + 1) /\ k <= 4 * d + 1 /\ k <= 6 * d + 1 /\ k - (2 * d + 1) = i
    OBVIOUS
  <2> HIDE DEF k
  <2>2. RingOffsets(d)[k] = right[i]
    BY <1>4, <1>5, <1>6, <2>1
  <2> QED
    BY <1>3, <2>2 DEF k
<1>9. ASSUME NEW i \in 1..(2 * d)
      PROVE  RingOffsets(d)[4 * d + 1 + i] = <<d - i, d>>
  <2> DEFINE k == 4 * d + 1 + i
  <2>1. k \in 1..(6 * d + 1) /\ k \in 1..(8 * d)
        /\ ~(k <= 4 * d + 1) /\ k <= 6 * d + 1 /\ k - (4 * d + 1) = i
    OBVIOUS
  <2> HIDE DEF k
  <2>2. RingOffsets(d)[k] = bottom[i]
    BY <1>5, <1>6, <2>1
  <2> QED
    BY <1>3, <2>2 DEF k
<1>10. ASSUME NEW i \in 1..(2 * d - 1)
       PROVE  RingOffsets(d)[6 * d + 1 + i] = <<-d, d - i>>
  <2> DEFINE k == 6 * d + 1 + i
  <2>1. k \in 1..(8 * d) /\ ~(k <= 6 * d + 1) /\ k - (6 * d + 1) = i
    OBVIOUS
  <2> HIDE DEF k
  <2>2. RingOffsets(d)[k] = left[i]
    BY <1>6, <2>1
  <2> QED
    BY <1>3, <2>2 DEF k
<1> QED
  BY <1>6, <1>7, <1>8, <1>9, <1>10

\* Every cell at distance d is on the ring.
LEMMA RingIsWhole ==
  ASSUME NEW d \in Nat, d >= 1, NEW x \in Int, NEW y \in Int,
         -d <= x, x <= d, -d <= y, y <= d, x = d \/ x = -d \/ y = d \/ y = -d
  PROVE  \E i \in DOMAIN RingOffsets(d) : RingOffsets(d)[i] = <<x, y>>
<1>1. DOMAIN RingOffsets(d) = 1..(8 * d)
  BY RingSides
<1>2. CASE y = -d
  <2>1. x + d + 1 \in 1..(2 * d + 1) /\ x + d + 1 \in 1..(8 * d) /\ (x + d + 1) - 1 - d = x
    OBVIOUS
  <2>2. RingOffsets(d)[x + d + 1] = <<(x + d + 1) - 1 - d, -d>>
    BY <2>1, RingSides
  <2> QED
    BY <1>1, <1>2, <2>1, <2>2
<1>3. CASE y # -d /\ x = d
  <2>1. y + d \in 1..(2 * d) /\ 2 * d + 1 + (y + d) \in 1..(8 * d) /\ (y + d) - d = y
    BY <1>3
  <2>2. RingOffsets(d)[2 * d + 1 + (y + d)] = <<d, (y + d) - d>>
    BY <2>1, RingSides
  <2> QED
    BY <1>1, <1>3, <2>1, <2>2
<1>4. CASE x # d /\ y = d
  <2>1. d - x \in 1..(2 * d) /\ 4 * d + 1 + (d - x) \in 1..(8 * d) /\ d - (d - x) = x
    BY <1>4
  <2>2. RingOffsets(d)[4 * d + 1 + (d - x)] = <<d - (d - x), d>>
    BY <2>1, RingSides
  <2> QED
    BY <1>1, <1>4, <2>1, <2>2
<1>5. CASE y # -d /\ y # d /\ x = -d
  <2>1. d - y \in 1..(2 * d - 1) /\ 6 * d + 1 + (d - y) \in 1..(8 * d) /\ d - (d - y) = y
    BY <1>5
  <2>2. RingOffsets(d)[6 * d + 1 + (d - y)] = <<-d, d - (d - y)>>
    BY <2>1, RingSides
  <2> QED
    BY <1>1, <1>5, <2>1, <2>2
<1>6. CASE y # -d /\ y # d /\ x # -d
  BY <1>3, <1>6
<1> QED
  BY <1>2, <1>3, <1>4, <1>5, <1>6

\* With fewer cells taken than there are in reach of a corner of the grid, the
\* search finds one that is not.
LEMMA FreeCell ==
  ASSUME NEW origin \in Cells, NEW occupied
  PROVE  /\ NearestFreeCell(origin, occupied) \in Cells
         /\ /\ origin \in occupied /\ IsFiniteSet(occupied)
            /\ Cardinality(occupied) < (Reach + 1) * (Reach + 1)
            => NearestFreeCell(origin, occupied) \notin occupied
<1> DEFINE at(d, i) == <<origin[1] + RingOffsets(d)[i][1], origin[2] + RingOffsets(d)[i][2]>>
           free(d)  == {i \in DOMAIN RingOffsets(d) :
                          /\ at(d, i)[1] >= 0 /\ at(d, i)[2] >= 0
                          /\ at(d, i) \notin occupied}
           rings    == {d \in 1..Reach : free(d) # {}}
           nearest  == at(Min(rings), Min(free(Min(rings))))
<1>1. NearestFreeCell(origin, occupied) = IF rings = {} THEN origin ELSE nearest
  BY DEF NearestFreeCell
<1>2. Reach \in Nat
  BY AtlasAssumption
<1>3. ASSUME NEW d \in 1..Reach
      PROVE  free(d) \subseteq Nat /\ \A i \in free(d) : at(d, i) \in Cells \ occupied
  <2>1. RingOffsets(d) \in Seq(Int \X Int) /\ DOMAIN RingOffsets(d) = 1..(8 * d)
    BY <1>2, RingSides
  <2>2. ASSUME NEW i \in DOMAIN RingOffsets(d)
        PROVE  at(d, i) \in Int \X Int
    <3>1. RingOffsets(d)[i] \in Int \X Int
      BY <2>1
    <3> QED
      BY <3>1 DEF Cells
  <2> HIDE DEF at
  <2>3. ASSUME NEW i \in free(d)
        PROVE  at(d, i) \in Cells \ occupied
    <3>1. at(d, i) \in Int \X Int
      BY <2>2
    <3>2. at(d, i)[1] \in Nat /\ at(d, i)[2] \in Nat
      BY <3>1
    <3>3. at(d, i) = <<at(d, i)[1], at(d, i)[2]>>
      BY <3>1
    <3>4. at(d, i) \in Cells
      BY <3>2, <3>3 DEF Cells
    <3> QED
      BY <3>4
  <2>4. free(d) \subseteq Nat
    BY <2>1
  <2> QED
    BY <2>3, <2>4
<1>4. rings # {} => nearest \in Cells \ occupied
  <2> HIDE DEF free, at
  <2>1. rings # {} => Min(rings) \in rings
    BY <1>2, MinIsIn
  <2>2. rings # {} => Min(free(Min(rings))) \in free(Min(rings))
    BY <1>2, <1>3, <2>1, MinIsIn
  <2> QED
    BY <1>2, <1>3, <2>1, <2>2
<1>5. ASSUME origin \in occupied, IsFiniteSet(occupied),
             Cardinality(occupied) < (Reach + 1) * (Reach + 1)
      PROVE  rings # {}
  <2> DEFINE across == origin[1]..(origin[1] + Reach)
             down   == origin[2]..(origin[2] + Reach)
  <2>1. /\ IsFiniteSet(across) /\ Cardinality(across) = Reach + 1
        /\ IsFiniteSet(down) /\ Cardinality(down) = Reach + 1
    <3>1. \A o \in Nat : IsFiniteSet(o..(o + Reach)) /\ Cardinality(o..(o + Reach)) = Reach + 1
      <4> SUFFICES ASSUME NEW o \in Nat
                   PROVE  IsFiniteSet(o..(o + Reach)) /\ Cardinality(o..(o + Reach)) = Reach + 1
        OBVIOUS
      <4>1. o \in Int /\ o + Reach \in Int /\ ~(o > o + Reach) /\ (o + Reach) - o + 1 = Reach + 1
        BY <1>2
      <4> QED
        BY <4>1, FS_Interval
    <3>2. origin[1] \in Nat /\ origin[2] \in Nat
      BY DEF Cells
    <3> QED
      BY <3>1, <3>2
  <2>2. PICK c \in across \X down : c \notin occupied
    <3> HIDE DEF across, down
    <3>1. SUFFICES ASSUME across \X down \subseteq occupied PROVE FALSE
      OBVIOUS
    <3>2. /\ Cardinality(across \X down) = Cardinality(across) * Cardinality(down)
          /\ Cardinality(across \X down) <= Cardinality(occupied)
      BY <1>5, <2>1, <3>1, FS_Product, FS_Subset
    <3>3. Cardinality(occupied) \in Nat /\ (Reach + 1) * (Reach + 1) \in Nat
      BY <1>2, <1>5, FS_CardinalityType
    <3>4. Cardinality(across) * Cardinality(down) = (Reach + 1) * (Reach + 1)
      BY <2>1
    <3> QED
      BY <1>5, <3>2, <3>3, <3>4
  <2> DEFINE x == c[1] - origin[1]
             y == c[2] - origin[2]
             d == IF x >= y THEN x ELSE y
  <2>2a. /\ origin[1] \in Nat /\ origin[2] \in Nat
         /\ c = <<c[1], c[2]>> /\ c[1] \in across /\ c[2] \in down
    BY DEF Cells
  <2>3. /\ x \in 0..Reach /\ y \in 0..Reach /\ d \in 0..Reach /\ (d = x \/ d = y)
        /\ x <= d /\ y <= d
    BY <1>2, <2>2a
  <2>4. c = <<origin[1] + x, origin[2] + y>> /\ c[1] >= 0 /\ c[2] >= 0
    <3>1. c[1] = origin[1] + x /\ c[2] = origin[2] + y /\ c[1] >= 0 /\ c[2] >= 0
      BY <1>2, <2>2a
    <3> HIDE DEF x, y
    <3> QED
      BY <2>2a, <3>1
  <2>5. d # 0
    <3>1. c # origin
      BY <1>5, <2>2
    <3>2. origin = <<origin[1], origin[2]>> /\ origin[1] \in Nat /\ origin[2] \in Nat
      BY DEF Cells
    <3> HIDE DEF x, y, d
    <3> QED
      BY <2>3, <2>4, <3>1, <3>2
  <2> HIDE DEF x, y, d
  <2>6. PICK i \in DOMAIN RingOffsets(d) : RingOffsets(d)[i] = <<x, y>>
    <3>1. /\ d \in Nat /\ d >= 1 /\ x \in Int /\ y \in Int
          /\ -d <= x /\ x <= d /\ -d <= y /\ y <= d /\ (x = d \/ x = -d \/ y = d \/ y = -d)
      BY <1>2, <2>3, <2>5
    <3> QED
      BY <3>1, RingIsWhole
  <2>7. at(d, i) = c
    BY <2>4, <2>6
  <2>8. i \in free(d)
    <3> HIDE DEF at
    <3> QED
      BY <2>2, <2>4, <2>7
  <2>9. d \in 1..Reach
    BY <1>2, <2>3, <2>5
  <2> HIDE DEF free
  <2> QED
    BY <2>8, <2>9
<1> HIDE DEF rings, nearest
<1> QED
  BY <1>1, <1>4, <1>5

LEMMA PlaceIsFree ==
  ASSUME NEW home \in Cells, NEW occupied
  PROVE  /\ Place(home, occupied) \in Cells
         /\ IsFiniteSet(occupied) /\ Cardinality(occupied) < (Reach + 1) * (Reach + 1)
              => Place(home, occupied) \notin occupied
BY FreeCell DEF Place

-----------------------------------------------------------------------------
(* The invariant *)

\* Functions on some of the elements of S.
Partial(S, T) == UNION {[D -> T] : D \in SUBSET S}

Estates == [groups : Partial(Groups, Regions), resources : Partial(Resources, Looks)]

Room == [id : Groups, region : Regions, cell : Cells, resources : Partial(Resources, Looks)]

TypeOK ==
  /\ groups \in Partial(Groups, Regions)
  /\ resources \in Partial(Resources, Looks)
  /\ fine \in Fines
  /\ order \in Seq(Groups)
  /\ region \in Partial(Groups, Regions)
  /\ found \in Partial(Groups, Partial(Resources, Looks))
  /\ crawling \in BOOLEAN
  /\ maps \in Seq(Seq(Room))
  /\ asOf \in Seq(Estates)
  /\ unlisted \in SUBSET Groups

\* A resource is in a group of its estate.
Housed(e) == \A x \in DOMAIN e.resources : GroupOf[x] \in DOMAIN e.groups

AllHoused ==
  /\ \A x \in DOMAIN resources : GroupOf[x] \in DOMAIN groups
  /\ \A k \in DOMAIN asOf : Housed(asOf[k])

Paired == Len(asOf) = Len(maps) + (IF crawling THEN 1 ELSE 0)

Same(x, xs, ys) ==
  /\ x \in DOMAIN xs <=> x \in DOMAIN ys
  /\ x \in DOMAIN xs => xs[x] = ys[x]

\* What was found in a group is in it, and right as far as it can be: if neither
\* changed and the group could be listed.
FoundIn(g, xs, then, changed, failed) ==
  /\ \A x \in DOMAIN xs : GroupOf[x] = g
  /\ \A x \in Resources :
       /\ GroupOf[x] = g /\ g \notin failed
       /\ <<"group", g>> \notin changed /\ <<"resource", x>> \notin changed
       => Same(x, xs, then.resources)

\* As long as a crawl is under way, whatever did not change is as it was.
Watched ==
  crawling =>
    LET then == asOf[Len(asOf)]
    IN  /\ region = then.groups
        /\ order \in SetToSeqs(DOMAIN region)
        /\ \A g \in Groups : <<"group", g>> \notin disturbed =>
             (g \in DOMAIN groups <=> g \in DOMAIN then.groups)
        /\ \A x \in Resources : <<"resource", x>> \notin disturbed =>
             Same(x, resources, then.resources)
        /\ \A g \in DOMAIN found : FoundIn(g, found[g], then, disturbed, unlisted)

\* A map has a room for each group that its crawl got, and what was found there.
IsMapOf(map, then, changed, failed) ==
  /\ Rooms(map) = DOMAIN then.groups
  /\ \A r, s \in Range(map) : r.id = s.id => r = s
  /\ IsInjective(map)
  /\ \A room \in Range(map) : FoundIn(room.id, room.resources, then, changed, failed)

Written == \A k \in DOMAIN maps : IsMapOf(maps[k], asOf[k], disturbed, unlisted)

\* Every room is where the rooms before it leave it.
IsLaid(map) ==
  \A room \in Range(map) :
    room.cell = Place(Home(room.id, room.region),
                      {s.cell : s \in {t \in Range(map) : t.id < room.id}})

AllLaid == \A k \in DOMAIN maps : IsLaid(maps[k])

IInv == TypeOK /\ AllHoused /\ Paired /\ Watched /\ Written /\ AllLaid

LEMMA PartialIs ==
  ASSUME NEW S, NEW T, NEW f
  PROVE  f \in Partial(S, T) <=>
           /\ DOMAIN f \subseteq S
           /\ f = [x \in DOMAIN f |-> f[x]]
           /\ \A x \in DOMAIN f : f[x] \in T
<1>1. ASSUME f \in Partial(S, T)
      PROVE  /\ DOMAIN f \subseteq S
             /\ f = [x \in DOMAIN f |-> f[x]]
             /\ \A x \in DOMAIN f : f[x] \in T
  <2>1. PICK D \in SUBSET S : f \in [D -> T]
    BY <1>1 DEF Partial
  <2> QED
    BY <2>1
<1>2. ASSUME DOMAIN f \subseteq S, f = [x \in DOMAIN f |-> f[x]], \A x \in DOMAIN f : f[x] \in T
      PROVE  f \in Partial(S, T)
  <2>1. f \in [DOMAIN f -> T]
    BY <1>2
  <2> QED
    BY <1>2, <2>1 DEF Partial
<1> QED
  BY <1>1, <1>2

LEMMA NonePartial ==
  ASSUME NEW S, NEW T
  PROVE  None \in Partial(S, T) /\ DOMAIN None = {}
<1>1. DOMAIN None = {} /\ None = [x \in DOMAIN None |-> None[x]]
  BY DEF None
<1> QED
  BY <1>1, PartialIs

LEMMA OneMore ==
  ASSUME NEW S, NEW T, NEW f \in Partial(S, T), NEW x \in S, NEW v \in T
  PROVE  [y \in DOMAIN f \cup {x} |-> IF y = x THEN v ELSE f[y]] \in Partial(S, T)
<1>1. /\ DOMAIN f \subseteq S /\ \A y \in DOMAIN f : f[y] \in T
  BY PartialIs
<1> DEFINE h == [y \in DOMAIN f \cup {x} |-> IF y = x THEN v ELSE f[y]]
<1>2. DOMAIN h \subseteq S /\ h = [y \in DOMAIN h |-> h[y]] /\ \A y \in DOMAIN h : h[y] \in T
  BY <1>1
<1> HIDE DEF h
<1>3. h \in Partial(S, T)
  BY <1>2, PartialIs
<1> QED
  BY <1>3 DEF h

LEMMA SomeLeft ==
  ASSUME NEW S, NEW T, NEW f \in Partial(S, T), NEW D \in SUBSET (DOMAIN f)
  PROVE  Restrict(f, D) \in Partial(S, T)
<1>1. /\ DOMAIN f \subseteq S /\ \A y \in DOMAIN f : f[y] \in T
  BY PartialIs
<1> DEFINE h == [y \in D |-> f[y]]
<1>2. DOMAIN h \subseteq S /\ h = [y \in DOMAIN h |-> h[y]] /\ \A y \in DOMAIN h : h[y] \in T
  BY <1>1
<1> HIDE DEF h
<1>3. h \in Partial(S, T)
  BY <1>2, PartialIs
<1> QED
  BY <1>3 DEF h, Restrict

\* A listing has every group once.
LEMMA ListingIsWhole ==
  ASSUME NEW S, IsFiniteSet(S), NEW s \in SetToSeqs(S)
  PROVE  /\ s \in Seq(S)
         /\ Range(s) = S
         /\ \A i, j \in DOMAIN s : s[i] = s[j] => i = j
<1> DEFINE n == Cardinality(S)
<1>1. n \in Nat
  BY FS_CardinalityType
<1>2. s \in [1..n -> S] /\ \A i, j \in 1..n : i # j => s[i] # s[j]
  BY DEF SetToSeqs
<1>3. s \in Seq(S) /\ DOMAIN s = 1..n
  BY <1>1, <1>2, SeqDef
<1>4. s \in Injection(1..n, S)
  BY <1>2 DEF Injection, IsInjective
<1>5. Cardinality(1..n) = n
  BY <1>1, FS_Interval
<1>6. s \in Surjection(1..n, S)
  BY <1>4, <1>5, FS_Injection
<1>7. Range(s) = S
  BY <1>3, <1>6 DEF Surjection, Range
<1> QED
  BY <1>2, <1>3, <1>7

LEMMA HomeIsCell ==
  ASSUME TypeOK, NEW g \in Groups, NEW r \in Regions
  PROVE  Home(g, r) \in Cells
<1>1. Bias[r] \in Nat \X Nat /\ WingSize \in Nat
  BY AtlasAssumption
<1>2. fine[<<g, r>>] \in Wing \X Wing
  BY AtlasAssumption DEF TypeOK
<1>3. Wing \subseteq Nat
  BY <1>1 DEF Wing
<1>4. \A a, b \in Nat : a * b \in Nat
  OBVIOUS
<1>5. /\ Bias[r][1] * WingSize \in Nat /\ Bias[r][2] * WingSize \in Nat
      /\ fine[<<g, r>>][1] \in Nat /\ fine[<<g, r>>][2] \in Nat
  BY <1>1, <1>2, <1>3, <1>4
<1> QED
  BY <1>5 DEF Home, Cells

-----------------------------------------------------------------------------
(* What is written *)

LEMMA GroupsAreFinite ==
  ASSUME NEW f \in Partial(Groups, Regions)
  PROVE  IsFiniteSet(DOMAIN f) /\ DOMAIN f \in SUBSET Groups
<1>1. DOMAIN f \in SUBSET Groups
  BY PartialIs
<1> QED
  BY <1>1, AtlasAssumption, FS_Subset

\* The map that a crawl writes in the end.
NewMap ==
  [i \in DOMAIN order |->
     [id |-> order[i], region |-> region[order[i]],
      cell |-> Layout[order[i]], resources |-> found[order[i]]]]

LEMMA NewMapIsSound ==
  ASSUME IInv, crawling, DOMAIN found = Range(order)
  PROVE  /\ NewMap \in Seq(Room)
         /\ IsMapOf(NewMap, asOf[Len(asOf)], disturbed, unlisted)
         /\ IsLaid(NewMap)
<1> DEFINE then == asOf[Len(asOf)]
           room(i) == [id |-> order[i], region |-> region[order[i]],
                       cell |-> Layout[order[i]], resources |-> found[order[i]]]
<1>1. /\ region = then.groups /\ order \in SetToSeqs(DOMAIN region)
      /\ \A g \in DOMAIN found : FoundIn(g, found[g], then, disturbed, unlisted)
  BY DEF IInv, Watched
<1>2. IsFiniteSet(DOMAIN region) /\ DOMAIN region \in SUBSET Groups
  BY GroupsAreFinite DEF IInv, TypeOK
<1>3. /\ order \in Seq(DOMAIN region) /\ Range(order) = DOMAIN region
      /\ \A i, j \in DOMAIN order : order[i] = order[j] => i = j
  BY <1>1, <1>2, ListingIsWhole
<1>4. \A g \in DOMAIN region : Layout[g] = Place(Home(g, region[g]), {Layout[h] : h \in Earlier(g)})
  <2>1. Range(order) \in SUBSET Nat /\ IsFiniteSet(Range(order))
    BY <1>2, <1>3, AtlasAssumption
  <2> QED
    BY <1>3, <2>1, LayoutCells
<1>5. \A i \in DOMAIN order : order[i] \in DOMAIN region
  BY <1>3
<1>6. \A g \in DOMAIN region : region[g] \in Regions
  BY PartialIs DEF IInv, TypeOK
<1>7. \A g \in DOMAIN region : Layout[g] \in Cells
  BY <1>2, <1>4, <1>6, HomeIsCell, PlaceIsFree DEF IInv
<1>8. \A g \in DOMAIN region : found[g] \in Partial(Resources, Looks)
  BY <1>3, PartialIs DEF IInv, TypeOK
<1>9. DOMAIN NewMap = DOMAIN order /\ \A i \in DOMAIN order : NewMap[i] = room(i)
  BY DEF NewMap
<1>10. \A i \in DOMAIN order :
         /\ room(i).id = order[i] /\ room(i).region = region[order[i]]
         /\ room(i).cell = Layout[order[i]] /\ room(i).resources = found[order[i]]
  OBVIOUS
<1>11. \A i \in DOMAIN order : room(i) \in Room
  BY <1>2, <1>5, <1>6, <1>7, <1>8 DEF Room
<1> HIDE DEF room
<1>12. NewMap \in Seq(Room)
  <2>1. DOMAIN order = 1..Len(order) /\ Len(order) \in Nat
    BY <1>3
  <2>2. NewMap \in [1..Len(order) -> Room]
    <3>1. NewMap = [i \in DOMAIN order |-> NewMap[i]]
      BY DEF NewMap
    <3> QED
      BY <1>9, <1>11, <2>1, <3>1
  <2> QED
    BY <2>1, <2>2, SeqDef
<1>13. /\ \A r \in Range(NewMap) : \E i \in DOMAIN order : r = room(i)
       /\ \A i \in DOMAIN order : room(i) \in Range(NewMap)
  BY <1>9 DEF Range
<1>14. IsMapOf(NewMap, then, disturbed, unlisted)
  <2>1. Rooms(NewMap) = DOMAIN then.groups
    <3>1. Rooms(NewMap) = {order[i] : i \in DOMAIN order}
      BY <1>10, <1>13 DEF Rooms
    <3> QED
      BY <1>1, <1>3, <3>1 DEF Range
  <2>2. \A r, s \in Range(NewMap) : r.id = s.id => r = s
    BY <1>3, <1>10, <1>13
  <2>3. \A i, j \in DOMAIN NewMap : NewMap[i] = NewMap[j] => i = j
    BY <1>3, <1>9, <1>10
  <2>4. \A r \in Range(NewMap) : FoundIn(r.id, r.resources, then, disturbed, unlisted)
    <3>1. \A i \in DOMAIN order : FoundIn(order[i], found[order[i]], then, disturbed, unlisted)
      BY <1>1, <1>3, <1>5
    <3> QED
      BY <1>10, <1>13, <3>1
  <2> QED
    BY <2>1, <2>2, <2>3, <2>4 DEF IsMapOf, IsInjective
<1>15. ASSUME NEW r \in Range(NewMap)
       PROVE  r.cell = Place(Home(r.id, r.region), {s.cell : s \in {t \in Range(NewMap) : t.id < r.id}})
  <2>1. PICK i \in DOMAIN order : r = room(i)
    BY <1>13
  <2>2. r.cell = Place(Home(r.id, r.region), {Layout[h] : h \in Earlier(r.id)})
    BY <1>4, <1>5, <1>10, <2>1
  <2>3. {Layout[h] : h \in Earlier(r.id)} = {s.cell : s \in {t \in Range(NewMap) : t.id < r.id}}
    <3>1. ASSUME NEW h \in Earlier(r.id)
          PROVE  \E s \in {t \in Range(NewMap) : t.id < r.id} : Layout[h] = s.cell
      <4>1. PICK j \in DOMAIN order : h = order[j] /\ h < r.id
        BY DEF Earlier, Range
      <4> QED
        BY <1>10, <1>13, <4>1
    <3>2. ASSUME NEW s \in Range(NewMap), s.id < r.id
          PROVE  \E h \in Earlier(r.id) : s.cell = Layout[h]
      <4>1. PICK j \in DOMAIN order : s = room(j)
        BY <1>13
      <4>2. order[j] \in Earlier(r.id)
        BY <1>10, <3>2, <4>1 DEF Earlier, Range
      <4> QED
        BY <1>10, <4>1, <4>2
    <3> QED
      BY <3>1, <3>2
  <2> QED
    BY <2>2, <2>3
<1> QED
  BY <1>12, <1>14, <1>15 DEF IsLaid

-----------------------------------------------------------------------------
(* The steps *)

LEMMA InitIInv == Init => IInv
<1> SUFFICES ASSUME Init PROVE IInv
  OBVIOUS
<1>1. TypeOK
  <2>1. \A S, T : \A f \in [S -> T] : f \in Partial(S, T)
    <3> SUFFICES ASSUME NEW S, NEW T, NEW f \in [S -> T] PROVE f \in Partial(S, T)
      OBVIOUS
    <3> QED
      BY PartialIs
  <2>2. groups \in Partial(Groups, Regions) /\ resources \in Partial(Resources, Looks)
    BY <2>1, AtlasAssumption DEF Init
  <2>3. /\ << >> \in Seq(Groups) /\ << >> \in Seq(Seq(Room)) /\ << >> \in Seq(Estates)
    OBVIOUS
  <2> QED
    BY <2>2, <2>3, NonePartial DEF Init, TypeOK
<1>2. AllHoused
  <2>1. DOMAIN groups = Groups /\ DOMAIN resources = Resources
    BY AtlasAssumption DEF Init
  <2> QED
    BY <2>1, AtlasAssumption DEF Init, AllHoused
<1>3. Paired
  BY DEF Init, Paired
<1>4. Watched /\ Written /\ AllLaid
  BY DEF Init, Watched, Written, AllLaid
<1> QED
  BY <1>1, <1>2, <1>3, <1>4 DEF IInv

\* A report is right about fewer things the more of them change or fail.
LEMMA FoundStays ==
  ASSUME NEW g, NEW xs, NEW then, NEW D, NEW U, NEW D2, NEW U2,
         FoundIn(g, xs, then, D, U), D \subseteq D2, U \subseteq U2
  PROVE  FoundIn(g, xs, then, D2, U2)
BY DEF FoundIn

LEMMA MapStays ==
  ASSUME NEW map, NEW then, NEW D, NEW U, NEW D2, NEW U2,
         IsMapOf(map, then, D, U), D \subseteq D2, U \subseteq U2
  PROVE  IsMapOf(map, then, D2, U2)
BY FoundStays DEF IsMapOf

LEMMA MapsStay ==
  ASSUME IInv, UNCHANGED <<fine, maps, asOf>>,
         disturbed \subseteq disturbed', unlisted \subseteq unlisted'
  PROVE  Written' /\ AllLaid'
<1>1. ASSUME NEW k \in DOMAIN maps
      PROVE  IsMapOf(maps[k], asOf[k], disturbed', unlisted')
  <2>1. IsMapOf(maps[k], asOf[k], disturbed, unlisted)
    BY DEF IInv, Written
  <2> QED
    BY <2>1, MapStays
<1>2. Written'
  BY <1>1 DEF Written
<1>3. AllLaid'
  BY DEF IInv, AllLaid, IsLaid, Home
<1> QED
  BY <1>2, <1>3

\* Whatever changes the estate, when it is under observation, disturbs it.
LEMMA EstateStep ==
  ASSUME IInv, NEW things, Change(things),
         groups' \in Partial(Groups, Regions), resources' \in Partial(Resources, Looks),
         \A x \in DOMAIN resources' : GroupOf[x] \in DOMAIN groups',
         \A g \in Groups : <<"group", g>> \notin things =>
           (g \in DOMAIN groups' <=> g \in DOMAIN groups),
         \A x \in Resources : <<"resource", x>> \notin things => Same(x, resources', resources)
  PROVE  IInv'
<1>1. /\ UNCHANGED <<fine, maps, asOf, unlisted, order, region, found, crawling>>
      /\ disturbed' = IF crawling THEN disturbed \cup things ELSE disturbed
  BY DEF Change, crawl
<1>2. disturbed \subseteq disturbed' /\ unlisted \subseteq unlisted'
  BY <1>1
<1>3. TypeOK'
  BY <1>1 DEF IInv, TypeOK
<1>4. AllHoused'
  BY <1>1 DEF IInv, AllHoused
<1>5. Paired'
  BY <1>1 DEF IInv, Paired
<1>6. Written' /\ AllLaid'
  BY <1>1, <1>2, MapsStay
<1>7. ASSUME crawling
      PROVE  Watched'
  <2> DEFINE then == asOf[Len(asOf)]
  <2>1. /\ region = then.groups
        /\ order \in SetToSeqs(DOMAIN region)
        /\ \A g \in Groups : <<"group", g>> \notin disturbed =>
             (g \in DOMAIN groups <=> g \in DOMAIN then.groups)
        /\ \A x \in Resources : <<"resource", x>> \notin disturbed =>
             Same(x, resources, then.resources)
        /\ \A g \in DOMAIN found : FoundIn(g, found[g], then, disturbed, unlisted)
    BY <1>7 DEF IInv, Watched
  <2>2. disturbed' = disturbed \cup things
    BY <1>1, <1>7
  <2>3. \A g \in Groups : <<"group", g>> \notin disturbed' =>
             (g \in DOMAIN groups' <=> g \in DOMAIN then.groups)
    BY <2>1, <2>2
  <2>4. \A x \in Resources : <<"resource", x>> \notin disturbed' =>
             Same(x, resources', then.resources)
    BY <2>1, <2>2 DEF Same
  <2>5. \A g \in DOMAIN found : FoundIn(g, found[g], then, disturbed', unlisted')
    BY <1>2, <2>1, FoundStays
  <2> QED
    BY <1>1, <2>1, <2>3, <2>4, <2>5 DEF Watched
<1>8. Watched'
  BY <1>1, <1>7 DEF Watched
<1> QED
  BY <1>3, <1>4, <1>5, <1>6, <1>8 DEF IInv

LEMMA OthersStep ==
  ASSUME IInv,
         \/ \E g \in Groups : DeleteGroup(g) \/ \E r \in Regions : CreateGroup(g, r)
         \/ \E x \in Resources : RemoveResource(x) \/ \E look \in Looks : Deploy(x, look)
  PROVE  IInv'
<1>1. /\ groups \in Partial(Groups, Regions) /\ resources \in Partial(Resources, Looks)
      /\ \A y \in DOMAIN resources : GroupOf[y] \in DOMAIN groups
      /\ DOMAIN groups \subseteq Groups /\ DOMAIN resources \subseteq Resources
  BY PartialIs DEF IInv, TypeOK, AllHoused
<1>2. ASSUME NEW g \in Groups, NEW r \in Regions, CreateGroup(g, r)
      PROVE  IInv'
  <2>1. /\ groups' = [h \in DOMAIN groups \cup {g} |-> IF h = g THEN r ELSE groups[h]]
        /\ resources' = resources /\ Change({<<"group", g>>})
    BY <1>2 DEF CreateGroup
  <2>2. groups' \in Partial(Groups, Regions) /\ DOMAIN groups' = DOMAIN groups \cup {g}
    BY <1>1, <2>1, OneMore
  <2>3. \A h \in Groups : <<"group", h>> \notin {<<"group", g>>} =>
          (h \in DOMAIN groups' <=> h \in DOMAIN groups)
    BY <2>2
  <2>4. \A y \in Resources : Same(y, resources', resources)
    BY <2>1 DEF Same
  <2> QED
    BY <1>1, <2>1, <2>2, <2>3, <2>4, EstateStep
<1>3. ASSUME NEW g \in Groups, DeleteGroup(g)
      PROVE  IInv'
  <2> DEFINE things == {<<"group", g>>} \cup {<<"resource", y>> : y \in Within(g)}
  <2>1. /\ groups' = Restrict(groups, DOMAIN groups \ {g})
        /\ resources' = Restrict(resources, DOMAIN resources \ Within(g))
        /\ Change(things)
    BY <1>3 DEF DeleteGroup
  <2>2. groups' \in Partial(Groups, Regions) /\ DOMAIN groups' = DOMAIN groups \ {g}
    BY <1>1, <2>1, SomeLeft DEF Restrict
  <2>3. /\ resources' \in Partial(Resources, Looks)
        /\ DOMAIN resources' = DOMAIN resources \ Within(g)
        /\ \A y \in DOMAIN resources' : resources'[y] = resources[y]
    BY <1>1, <2>1, SomeLeft DEF Restrict
  <2>4. \A h \in Groups : <<"group", h>> \notin things =>
          (h \in DOMAIN groups' <=> h \in DOMAIN groups)
    BY <2>2
  <2>5. \A y \in Resources : <<"resource", y>> \notin things => Same(y, resources', resources)
    <3> SUFFICES ASSUME NEW y \in Resources, <<"resource", y>> \notin things
                 PROVE  Same(y, resources', resources)
      OBVIOUS
    <3>1. y \notin Within(g)
      OBVIOUS
    <3> QED
      BY <2>3, <3>1 DEF Same
  <2>6. \A y \in DOMAIN resources' : GroupOf[y] \in DOMAIN groups'
    BY <1>1, <2>2, <2>3 DEF Within
  <2> HIDE DEF things
  <2> QED
    BY <2>1, <2>2, <2>3, <2>4, <2>5, <2>6, EstateStep
<1>4. ASSUME NEW x \in Resources, NEW look \in Looks, Deploy(x, look)
      PROVE  IInv'
  <2>1. /\ resources' = [y \in DOMAIN resources \cup {x} |-> IF y = x THEN look ELSE resources[y]]
        /\ groups' = groups /\ Change({<<"resource", x>>}) /\ GroupOf[x] \in DOMAIN groups
    BY <1>4 DEF Deploy
  <2>2. resources' \in Partial(Resources, Looks) /\ DOMAIN resources' = DOMAIN resources \cup {x}
    BY <1>1, <2>1, OneMore
  <2>3. \A y \in Resources : <<"resource", y>> \notin {<<"resource", x>>} =>
          Same(y, resources', resources)
    BY <2>1 DEF Same
  <2> QED
    BY <1>1, <2>1, <2>2, <2>3, EstateStep
<1>5. ASSUME NEW x \in Resources, RemoveResource(x)
      PROVE  IInv'
  <2>1. /\ resources' = Restrict(resources, DOMAIN resources \ {x})
        /\ groups' = groups /\ Change({<<"resource", x>>})
    BY <1>5 DEF RemoveResource
  <2>2. /\ resources' \in Partial(Resources, Looks)
        /\ DOMAIN resources' = DOMAIN resources \ {x}
        /\ \A y \in DOMAIN resources' : resources'[y] = resources[y]
    BY <1>1, <2>1, SomeLeft DEF Restrict
  <2>3. \A y \in Resources : <<"resource", y>> \notin {<<"resource", x>>} =>
          Same(y, resources', resources)
    BY <2>2 DEF Same
  <2> QED
    BY <1>1, <2>1, <2>2, <2>3, EstateStep
<1> QED
  BY <1>2, <1>3, <1>4, <1>5

LEMMA ListStep ==
  ASSUME IInv, ListGroups
  PROVE  IInv'
<1> DEFINE e == [groups |-> groups, resources |-> resources]
<1>1. /\ ~crawling /\ crawling' = TRUE
      /\ order' \in SetToSeqs(DOMAIN groups) /\ region' = groups /\ found' = None
      /\ asOf' = Append(asOf, e)
      /\ UNCHANGED <<groups, resources, fine, maps, disturbed, unlisted>>
  BY DEF ListGroups, estate
<1>2. asOf \in Seq(Estates) /\ Len(asOf) \in Nat
  BY DEF IInv, TypeOK
<1>3. e \in Estates /\ e.groups = groups /\ e.resources = resources
  BY DEF IInv, TypeOK, Estates
<1> HIDE DEF e
<1>4. /\ asOf' \in Seq(Estates) /\ Len(asOf') = Len(asOf) + 1
      /\ asOf'[Len(asOf')] = e
      /\ \A k \in DOMAIN asOf : asOf'[k] = asOf[k]
      /\ \A k \in DOMAIN asOf' : k \in DOMAIN asOf \/ asOf'[k] = e
  BY <1>1, <1>2, <1>3
<1>5. Len(asOf) = Len(maps)
  BY <1>1 DEF IInv, Paired, TypeOK
<1>6. TypeOK'
  <2>1. IsFiniteSet(DOMAIN groups) /\ DOMAIN groups \in SUBSET Groups
    BY GroupsAreFinite DEF IInv, TypeOK
  <2>2. order' \in Seq(Groups)
    <3>1. order' \in Seq(DOMAIN groups)
      BY <1>1, <2>1, ListingIsWhole
    <3> QED
      BY <2>1, <3>1
  <2> QED
    BY <1>1, <1>4, <2>2, NonePartial DEF IInv, TypeOK
<1>7. AllHoused'
  <2>1. Housed(e)
    BY <1>3 DEF IInv, AllHoused, Housed
  <2> QED
    BY <1>1, <1>4, <2>1 DEF IInv, AllHoused
<1>8. Paired'
  <2>1. Len(asOf') = Len(maps') + 1
    BY <1>1, <1>4, <1>5
  <2> QED
    BY <1>1, <2>1 DEF Paired
<1>9. Watched'
  <2>1. \A x \in Resources : Same(x, resources', e.resources)
    BY <1>1, <1>3 DEF Same
  <2>2. DOMAIN found' = {}
    BY <1>1, NonePartial
  <2> QED
    BY <1>1, <1>3, <1>4, <2>1, <2>2 DEF Watched
<1>10. Written'
  <2>1. \A k \in DOMAIN maps : k \in DOMAIN asOf
    BY <1>2, <1>5 DEF IInv, TypeOK
  <2> QED
    BY <1>1, <1>4, <2>1 DEF IInv, Written
<1>11. AllLaid'
  BY <1>1 DEF IInv, AllLaid, IsLaid, Home
<1> QED
  BY <1>6, <1>7, <1>8, <1>9, <1>10, <1>11 DEF IInv

\* What a listing, or a failed one, adds to what was found.
LEMMA FoundStep ==
  ASSUME IInv, NEW g \in Groups, ListResources(g) \/ ListFails(g)
  PROVE  IInv'
<1> DEFINE then == asOf[Len(asOf)]
<1>1. PICK xs : /\ crawling /\ Found(g, xs)
                /\ \/ xs = Restrict(resources, Within(g)) /\ unlisted' = unlisted
                      /\ g \in DOMAIN groups
                   \/ xs = None /\ unlisted' = unlisted \cup {g}
  BY DEF ListResources, ListFails, IsNext, seen
<1>2. UNCHANGED <<groups, resources, fine, order, region, crawling, maps, asOf, disturbed>>
  BY DEF ListResources, ListFails, estate, seen
<1>3. found' = [h \in DOMAIN found \cup {g} |-> IF h = g THEN xs ELSE found[h]]
  BY <1>1 DEF Found
<1>4. unlisted \subseteq unlisted' /\ unlisted' \in SUBSET Groups
  BY <1>1 DEF IInv, TypeOK
<1>5. /\ region = then.groups /\ order \in SetToSeqs(DOMAIN region)
      /\ \A h \in Groups : <<"group", h>> \notin disturbed =>
           (h \in DOMAIN groups <=> h \in DOMAIN then.groups)
      /\ \A x \in Resources : <<"resource", x>> \notin disturbed =>
           Same(x, resources, then.resources)
      /\ \A h \in DOMAIN found : FoundIn(h, found[h], then, disturbed, unlisted)
  BY <1>1 DEF IInv, Watched
<1>6. xs \in Partial(Resources, Looks)
  <2>1. Within(g) \in SUBSET (DOMAIN resources)
    BY DEF Within
  <2> QED
    BY <1>1, <2>1, SomeLeft, NonePartial DEF IInv, TypeOK
<1>7. FoundIn(g, xs, then, disturbed, unlisted')
  <2>1. CASE xs = Restrict(resources, Within(g))
    <3>1. /\ DOMAIN xs = Within(g)
          /\ \A x \in DOMAIN xs : xs[x] = resources[x]
      BY <2>1 DEF Restrict
    <3>2. \A x \in Resources : GroupOf[x] = g => Same(x, xs, resources)
      BY <3>1 DEF Same, Within
    <3> QED
      BY <1>5, <3>1, <3>2 DEF FoundIn, Same, Within
  <2>2. CASE xs = None /\ unlisted' = unlisted \cup {g}
    BY <2>2, NonePartial DEF FoundIn
  <2> QED
    BY <1>1, <2>1, <2>2
<1>8. TypeOK'
  <2>1. found' \in Partial(Groups, Partial(Resources, Looks))
    BY <1>3, <1>6, OneMore DEF IInv, TypeOK
  <2> QED
    BY <1>2, <1>4, <2>1 DEF IInv, TypeOK
<1>9. AllHoused' /\ Paired'
  BY <1>2 DEF IInv, AllHoused, Paired
<1>10. Watched'
  <2>1. \A h \in DOMAIN found' : FoundIn(h, found'[h], then, disturbed, unlisted')
    BY <1>3, <1>4, <1>5, <1>7, FoundStays
  <2> QED
    BY <1>2, <1>5, <2>1 DEF Watched
<1>11. Written' /\ AllLaid'
  BY <1>2, <1>4, MapsStay
<1> QED
  BY <1>8, <1>9, <1>10, <1>11 DEF IInv

LEMMA WriteStep ==
  ASSUME IInv, WriteSnapshot
  PROVE  IInv'
<1>1. /\ crawling /\ DOMAIN found = Range(order) /\ crawling' = FALSE
      /\ maps' = Append(maps, NewMap)
      /\ order' = << >> /\ region' = None /\ found' = None
      /\ UNCHANGED <<groups, resources, fine, asOf, disturbed, unlisted>>
  BY DEF WriteSnapshot, NewMap, estate, seen
<1>2. /\ NewMap \in Seq(Room)
      /\ IsMapOf(NewMap, asOf[Len(asOf)], disturbed, unlisted)
      /\ IsLaid(NewMap)
  BY <1>1, NewMapIsSound
<1>3. maps \in Seq(Seq(Room)) /\ Len(maps) \in Nat /\ Len(asOf) = Len(maps) + 1
  BY <1>1 DEF IInv, TypeOK, Paired
<1>4. /\ maps' \in Seq(Seq(Room)) /\ Len(maps') = Len(maps) + 1
      /\ \A k \in DOMAIN maps : maps'[k] = maps[k]
      /\ \A k \in DOMAIN maps' : k \in DOMAIN maps \/ (k = Len(maps) + 1 /\ maps'[k] = NewMap)
  BY <1>1, <1>2, <1>3
<1>5. TypeOK'
  <2>1. << >> \in Seq(Groups)
    OBVIOUS
  <2> QED
    BY <1>1, <1>4, <2>1, NonePartial DEF IInv, TypeOK
<1>6. AllHoused' /\ Watched'
  BY <1>1 DEF IInv, AllHoused, Watched
<1>7. Paired'
  <2>1. Len(asOf') = Len(maps')
    BY <1>1, <1>3, <1>4
  <2>2. Len(maps') \in Nat
    BY <1>3, <1>4
  <2> QED
    BY <1>1, <2>1, <2>2 DEF Paired
<1>8. Written'
  BY <1>1, <1>2, <1>3, <1>4 DEF IInv, Written
<1>9. AllLaid'
  <2>1. \A k \in DOMAIN maps' : IsLaid(maps'[k])
    BY <1>2, <1>4 DEF IInv, AllLaid
  <2> QED
    BY <1>1, <2>1 DEF AllLaid, IsLaid, Home
<1> QED
  BY <1>5, <1>6, <1>7, <1>8, <1>9 DEF IInv

LEMMA NextIInv ==
  ASSUME IInv, [Next]_vars
  PROVE  IInv'
<1>1. CASE Next
  BY <1>1, OthersStep, ListStep, FoundStep, WriteStep DEF Next
<1>2. CASE UNCHANGED vars
  BY <1>2 DEF vars, estate, crawl, seen, IInv, TypeOK, AllHoused, Paired, Watched, Written,
              AllLaid, IsLaid, Home
<1> QED
  BY <1>1, <1>2

LEMMA Invariance == Spec => []IInv
<1>1. IInv /\ [Next]_vars => IInv'
  BY NextIInv
<1> QED
  BY InitIInv, <1>1, PTL DEF Spec

\* Every variable has its type; a map is a sequence of rooms on cells of the grid.
THEOREM AtlasTypeOK == Spec => []TypeOK
<1> QED
  BY Invariance, PTL DEF IInv

-----------------------------------------------------------------------------
(* The report *)

\* What a written map says of a resource that stayed as it was: what was so when
\* the crawl began.
LEMMA FlattenIsTrue ==
  ASSUME IInv, NEW k \in DOMAIN maps, NEW x \in Resources,
         GroupOf[x] \notin unlisted,
         <<"group", GroupOf[x]>> \notin disturbed, <<"resource", x>> \notin disturbed
  PROVE  Same(x, Flatten(maps[k]), asOf[k].resources)
<1> DEFINE map == maps[k]
           then == asOf[k]
           has(room) == x \in DOMAIN room.resources
<1>1. IsMapOf(map, then, disturbed, unlisted)
  BY DEF IInv, Written
<1>2. k \in DOMAIN asOf
  BY DEF IInv, Paired, TypeOK
<1>3. Housed(then)
  BY <1>2 DEF IInv, AllHoused
<1>4. \A room \in Range(map) : FoundIn(room.id, room.resources, then, disturbed, unlisted)
  BY <1>1 DEF IsMapOf
<1>5. \A room \in Range(map) : room.id = GroupOf[x] => Same(x, room.resources, then.resources)
  BY <1>4 DEF FoundIn
<1>6. \A room \in Range(map) : has(room) => room.id = GroupOf[x]
  BY <1>4 DEF FoundIn
<1>7. /\ DOMAIN Flatten(map) = UNION {DOMAIN room.resources : room \in Range(map)}
      /\ x \in DOMAIN Flatten(map) =>
           Flatten(map)[x] = (CHOOSE room \in Range(map) : has(room)).resources[x]
  BY DEF Flatten
<1>8. x \in DOMAIN Flatten(map) <=> \E room \in Range(map) : has(room)
  BY <1>7
<1>9. ASSUME x \in DOMAIN then.resources
      PROVE  \E room \in Range(map) : has(room)
  <2>1. GroupOf[x] \in Rooms(map)
    BY <1>1, <1>3, <1>9 DEF Housed, IsMapOf
  <2>2. PICK room \in Range(map) : room.id = GroupOf[x]
    BY <2>1 DEF Rooms
  <2> QED
    BY <1>5, <1>9, <2>2 DEF Same
<1>10. ASSUME x \in DOMAIN Flatten(map)
       PROVE  /\ x \in DOMAIN then.resources
              /\ Flatten(map)[x] = then.resources[x]
  <2> DEFINE room == CHOOSE r \in Range(map) : has(r)
  <2>1. room \in Range(map) /\ has(room)
    BY <1>8, <1>10
  <2>2. Flatten(map)[x] = room.resources[x]
    BY <1>7, <1>10
  <2> HIDE DEF room
  <2>3. Same(x, room.resources, then.resources)
    BY <1>5, <1>6, <2>1
  <2> QED
    BY <2>1, <2>2, <2>3 DEF Same
<1> QED
  BY <1>8, <1>9, <1>10 DEF Same

\* The parts of the report, for one resource.
LEMMA DiffOf ==
  ASSUME NEW from, NEW to, NEW then, NEW now, NEW x,
         Same(x, from, then), Same(x, to, now)
  PROVE  /\ x \in DOMAIN to \ DOMAIN from <=> x \in DOMAIN now \ DOMAIN then
         /\ x \in DOMAIN from \ DOMAIN to <=> x \in DOMAIN then \ DOMAIN now
         /\ x \in {y \in DOMAIN from \cap DOMAIN to : from[y] # to[y]} <=>
              x \in DOMAIN then \cap DOMAIN now /\ then[x] # now[x]
BY DEF Same

\* The report of `azork crawl --diff` (diff_maps, dungeon/diff.rs) says of every
\* group and resource that nobody touched during a crawl what became of it
\* between the crawls, whatever else changed, and whenever.
THEOREM DiffsAreTrue == Spec => []ReportTrue
<1>1. ASSUME IInv PROVE ReportTrue
  <2> SUFFICES ASSUME Len(maps) = 2 PROVE ReportTrue
    BY DEF ReportTrue
  <2> DEFINE diff == DiffMaps(maps[1], maps[2])
             then == asOf[1]
             now  == asOf[2]
             still(x) == /\ <<"resource", x>> \notin disturbed
                         /\ <<"group", GroupOf[x]>> \notin disturbed
                         /\ GroupOf[x] \notin unlisted
             from == Flatten(maps[1])
             to == Flatten(maps[2])
  <2>1. 1 \in DOMAIN maps /\ 2 \in DOMAIN maps
    BY <1>1 DEF IInv, TypeOK
  <2>2. /\ diff.rooms_added = Rooms(maps[2]) \ Rooms(maps[1])
        /\ diff.rooms_removed = Rooms(maps[1]) \ Rooms(maps[2])
        /\ diff.resources_added = DOMAIN to \ DOMAIN from
        /\ diff.resources_removed = DOMAIN from \ DOMAIN to
        /\ diff.resources_changed = {y \in DOMAIN from \cap DOMAIN to : from[y] # to[y]}
    BY DEF DiffMaps
  <2>3. Rooms(maps[1]) = DOMAIN then.groups /\ Rooms(maps[2]) = DOMAIN now.groups
    BY <1>1, <2>1 DEF IInv, Written, IsMapOf
  <2>4. ASSUME NEW x \in Resources, still(x)
        PROVE  Same(x, from, then.resources) /\ Same(x, to, now.resources)
    BY <1>1, <2>1, <2>4, FlattenIsTrue
  <2> HIDE DEF diff, then, now, from, to
  <2>5. ASSUME NEW x \in Resources, still(x)
        PROVE  /\ x \in diff.resources_added <=> x \in DOMAIN now.resources \ DOMAIN then.resources
               /\ x \in diff.resources_removed <=> x \in DOMAIN then.resources \ DOMAIN now.resources
               /\ x \in diff.resources_changed <=>
                    /\ x \in DOMAIN then.resources \cap DOMAIN now.resources
                    /\ then.resources[x] # now.resources[x]
    BY <2>2, <2>4, <2>5, DiffOf
  <2>6. \A g : /\ g \in diff.rooms_added   <=> g \in DOMAIN now.groups \ DOMAIN then.groups
               /\ g \in diff.rooms_removed <=> g \in DOMAIN then.groups \ DOMAIN now.groups
    BY <2>2, <2>3
  <2> QED
    BY <2>5, <2>6 DEF ReportTrue, diff, then, now
<1> QED
  BY <1>1, Invariance, PTL

-----------------------------------------------------------------------------
(* The layout is stable *)

\* Two maps that are alike up to some group put the rooms so far in the same cells:
\* the first that they did not would be put by the same rule beside the same
\* rooms.
LEMMA SameCells ==
  ASSUME IInv, NEW j \in DOMAIN maps, NEW k \in DOMAIN maps, NEW id \in Nat,
         Before(maps[j], id) = Before(maps[k], id)
  PROVE  \A old \in Range(maps[j]), new \in Range(maps[k]) :
           old.id = new.id /\ old.id <= id => old.cell = new.cell
<1> DEFINE J == Range(maps[j])
           K == Range(maps[k])
           differ == {n \in Nat : n <= id /\ \E old \in J, new \in K :
                                    old.id = n /\ new.id = n /\ old.cell # new.cell}
<1>1. /\ \A r \in J : r \in Room /\ r.id \in Nat
      /\ \A r \in K : r \in Room /\ r.id \in Nat
  <2>1. maps[j] \in Seq(Room) /\ maps[k] \in Seq(Room)
    BY DEF IInv, TypeOK
  <2>2. Range(maps[j]) \subseteq Room /\ Range(maps[k]) \subseteq Room
    BY <2>1 DEF Range
  <2> QED
    BY <2>2, AtlasAssumption DEF Room
<1>2. /\ \A r \in J : r.cell = Place(Home(r.id, r.region), {s.cell : s \in {t \in J : t.id < r.id}})
      /\ \A r \in K : r.cell = Place(Home(r.id, r.region), {s.cell : s \in {t \in K : t.id < r.id}})
  BY DEF IInv, AllLaid, IsLaid
<1>3. /\ \A r, s \in J : r.id = s.id => r = s
      /\ \A r, s \in K : r.id = s.id => r = s
  BY DEF IInv, Written, IsMapOf
<1>4. /\ \A r \in J : r.id <= id => \E s \in K : s.id = r.id /\ s.region = r.region
      /\ \A r \in K : r.id <= id => \E s \in J : s.id = r.id /\ s.region = r.region
  <2>1. /\ \A r \in J : r.id <= id => <<r.id, r.region>> \in Before(maps[j], id)
        /\ \A r \in K : r.id <= id => <<r.id, r.region>> \in Before(maps[k], id)
    BY DEF Before
  <2>2. /\ \A p \in Before(maps[j], id) : \E s \in J : p = <<s.id, s.region>>
        /\ \A p \in Before(maps[k], id) : \E s \in K : p = <<s.id, s.region>>
    BY DEF Before
  <2>3. \A a, b, c, d : <<a, b>> = <<c, d>> => a = c /\ b = d
    OBVIOUS
  <2> HIDE DEF J, K
  <2>4. ASSUME NEW r \in J, r.id <= id
        PROVE  \E s \in K : s.id = r.id /\ s.region = r.region
    <3>1. <<r.id, r.region>> \in Before(maps[k], id)
      BY <2>1, <2>4
    <3>2. PICK s \in K : <<r.id, r.region>> = <<s.id, s.region>>
      BY <2>2, <3>1
    <3> QED
      BY <2>3, <3>2
  <2>5. ASSUME NEW r \in K, r.id <= id
        PROVE  \E s \in J : s.id = r.id /\ s.region = r.region
    <3>1. <<r.id, r.region>> \in Before(maps[j], id)
      BY <2>1, <2>5
    <3>2. PICK s \in J : <<r.id, r.region>> = <<s.id, s.region>>
      BY <2>2, <3>1
    <3> QED
      BY <2>3, <3>2
  <2> QED
    BY <2>4, <2>5
<1>5. ASSUME differ # {} PROVE FALSE
  <2>1. PICK n \in differ : \A m \in differ : n <= m
    BY <1>5, LeastElement
  <2>2. PICK old \in J, new \in K : old.id = n /\ new.id = n /\ old.cell # new.cell
    BY <2>1
  <2>3. n \in Nat /\ n <= id
    BY <2>1
  <2> HIDE DEF J, K
  <2>4. \A r \in J, s \in K : r.id < n /\ s.id = r.id => r.cell = s.cell
    <3>1. \A m \in Nat : m < n => m \notin differ /\ m <= id
      BY <2>1, <2>3
    <3> QED
      BY <1>1, <3>1
  <2>5. old.region = new.region
    BY <1>3, <1>4, <2>2, <2>3
  <2>6. {s.cell : s \in {t \in J : t.id < n}} = {s.cell : s \in {t \in K : t.id < n}}
    <3>1. \A r \in J : r.id < n => \E s \in K : s.id < n /\ s.cell = r.cell
      BY <1>1, <1>4, <2>3, <2>4
    <3>2. \A r \in K : r.id < n => \E s \in J : s.id < n /\ s.cell = r.cell
      BY <1>1, <1>4, <2>3, <2>4
    <3> QED
      BY <3>1, <3>2
  <2>7. old.cell = Place(Home(n, old.region), {s.cell : s \in {t \in J : t.id < n}})
    BY <1>2, <2>2
  <2>8. new.cell = Place(Home(n, new.region), {s.cell : s \in {t \in K : t.id < n}})
    BY <1>2, <2>2
  <2> QED
    BY <2>2, <2>5, <2>6, <2>7, <2>8
<1> QED
  BY <1>1, <1>5

\* A room moves on the map only for a reason (map.rs:472-473): resolve_room_collisions
\* puts it where it was as long as it, and the rooms before it in the order of
\* their ids, are there and in their regions, however az ordered the groups.
THEOREM LayoutIsStable == Spec => []LayoutStable
<1>1. ASSUME IInv PROVE LayoutStable
  <2> SUFFICES ASSUME NEW j \in DOMAIN maps, NEW k \in DOMAIN maps,
                      NEW old \in Range(maps[j]), NEW new \in Range(maps[k]),
                      old.id = new.id, Before(maps[j], old.id) = Before(maps[k], new.id)
               PROVE  old.cell = new.cell
    BY DEF LayoutStable
  <2>1. old.id \in Nat
    <3>1. maps[j] \in Seq(Room)
      BY <1>1 DEF IInv, TypeOK
    <3>2. old \in Room
      BY <3>1 DEF Range
    <3> QED
      BY <3>2, AtlasAssumption DEF Room
  <2>2. old.id <= old.id
    BY <2>1
  <2> QED
    BY <1>1, <2>1, <2>2, SameCells
<1> QED
  BY <1>1, Invariance, PTL

-----------------------------------------------------------------------------
(* The largest of some numbers, and division *)

LEMMA MaxIsIn ==
  ASSUME NEW T \in SUBSET Nat, T # {}, IsFiniteSet(T)
  PROVE  Max(T) \in T /\ \A k \in T : Max(T) >= k
<1>1. PICK n \in Nat : \A k \in T : k <= n
  BY FiniteIsBounded
<1> DEFINE below == {n - k : k \in T}
<1>2. below \in SUBSET Nat /\ below # {}
  <2>1. \A k \in T : n - k \in Nat
    BY <1>1
  <2>2. \E k \in T : n - k \in below
    OBVIOUS
  <2> QED
    BY <2>1, <2>2
<1>3. PICK m \in below : \A k \in below : m <= k
  BY <1>2, LeastElement
<1>4. PICK x \in T : m = n - x
  OBVIOUS
<1>5. ASSUME NEW y \in T PROVE x >= y
  <2>1. n - y \in below
    OBVIOUS
  <2>2. m <= n - y
    BY <1>3, <2>1
  <2> QED
    BY <1>4, <2>2
<1> QED
  BY <1>5 DEF Max

LEMMA MaxOfTwo ==
  ASSUME NEW a \in Nat, NEW b \in Nat
  PROVE  Max({a, b}) \in {a, b} /\ Max({a, b}) >= a /\ Max({a, b}) >= b
<1>1. IsFiniteSet({a} \cup {b}) /\ {a} \cup {b} = {a, b}
  BY FS_Singleton, FS_Union
<1> QED
  BY <1>1, MaxIsIn

LEMMA ImageIsFinite ==
  ASSUME NEW S, IsFiniteSet(S), NEW f
  PROVE  /\ IsFiniteSet({f[x] : x \in S})
         /\ Cardinality({f[x] : x \in S}) <= Cardinality(S)
<1> DEFINE T == {f[x] : x \in S}
           g == [x \in S |-> f[x]]
<1>1. g \in Surjection(S, T)
  BY DEF Surjection
<1> QED
  BY <1>1, FS_Surjection

LEMMA RemainderRange ==
  ASSUME NEW w \in Nat \ {0}, NEW i \in Nat
  PROVE  i % w \in 0..(w - 1)
OBVIOUS

LEMMA QuotientIsNat ==
  ASSUME NEW w \in Nat \ {0}, NEW i \in Nat
  PROVE  i \div w \in Nat
OBVIOUS

LEMMA Division ==
  ASSUME NEW w \in Nat \ {0}, NEW i \in Nat
  PROVE  i = w * (i \div w) + (i % w)
OBVIOUS

LEMMA Half ==
  ASSUME NEW i \in Nat
  PROVE  i \div 2 \in Nat /\ 2 * (i \div 2) <= i /\ i <= 2 * (i \div 2) + 1
OBVIOUS

\* A row further is a whole row further.
LEMMA RowsApart ==
  ASSUME NEW w \in Nat, NEW a \in Nat, NEW b \in Nat, a < b
  PROVE  /\ a * w \in Nat /\ b * w \in Nat
         /\ a * w + w <= b * w
<1>1. PICK d \in Nat : b = a + 1 + d
  <2>1. b - a - 1 \in Nat /\ b = a + 1 + (b - a - 1)
    OBVIOUS
  <2> QED
    BY <2>1
<1>2. b * w = a * w + w + d * w /\ d * w \in Nat /\ a * w \in Nat
  BY <1>1
<1> QED
  BY <1>2

-----------------------------------------------------------------------------
(* The shape of a room *)

\* As near to a square as may be: there is such a width.
LEMMA NearSquare ==
  ASSUME NEW k \in Nat \ {0}
  PROVE  \E c \in 1..k : c * c >= k /\ (c - 1) * (c - 1) < k
<1> DEFINE wide == {c \in 1..k : c * c >= k}
<1>1. k * k >= k
  OBVIOUS
<1>2. wide \in SUBSET Nat /\ wide # {}
  <2>1. k \in 1..k
    OBVIOUS
  <2>2. k \in wide
    BY <1>1, <2>1, Zenon
  <2>3. wide \in SUBSET Nat
    OBVIOUS
  <2> HIDE DEF wide
  <2> QED
    BY <2>2, <2>3
<1>3. PICK c \in wide : \A d \in wide : c <= d
  BY <1>2, LeastElement
<1>4. (c - 1) * (c - 1) < k
  <2>1. CASE c = 1
    BY <2>1
  <2>2. CASE c # 1
    <3>1. c - 1 \in 1..k /\ c - 1 \notin wide
      BY <1>3, <2>2
    <3>2. ~((c - 1) * (c - 1) >= k)
      BY <3>1
    <3>3. (c - 1) * (c - 1) \in Int
      BY <3>1
    <3> QED
      BY <3>2, <3>3
  <2> QED
    BY <2>1, <2>2
<1> QED
  BY <1>3, <1>4

Sizes == 0..(Bulk * Cardinality(Resources))

\* Its icons have as many rows as they need, and the walls are around them.
LEMMA ShapeHolds ==
  ASSUME NEW n \in Sizes
  PROVE  \E cols \in Nat \ {0}, rows \in Nat :
           /\ RoomLayout[n].cols = cols
           /\ RoomLayout[n].width \in Nat /\ RoomLayout[n].height \in Nat
           /\ RoomLayout[n].width >= 26 * cols + 18
           /\ RoomLayout[n].height >= 26 * rows + 40
           /\ \A i \in 0..(n - 1) : i \div cols < rows
<1> DEFINE k == Max({n, 1})
           cols == CHOOSE c \in 1..k : c * c >= k /\ (c - 1) * (c - 1) < k
           rows == (k + cols - 1) \div cols
           wide == Wall * 2 + RoomPadding * 2 + Times(cols, IconSize, IconGap)
           high == Wall * 2 + RoomHeader + RoomPadding + Times(rows, IconSize, IconGap)
<1>1. n \in Nat
  BY DEF Sizes
<1>2. k \in Nat \ {0} /\ k >= n
  BY <1>1, MaxOfTwo
<1>3. RoomLayout[n] = [cols |-> cols, width |-> Max({wide, RoomMinSize}),
                       height |-> Max({high, RoomMinSize})]
  BY DEF RoomLayout, Sizes
<1>4. cols \in Nat \ {0}
  <2> DEFINE square(c) == c * c >= k /\ (c - 1) * (c - 1) < k
  <2> HIDE DEF k
  <2>1. \E c \in 1..k : square(c)
    BY <1>2, NearSquare
  <2>2. cols = CHOOSE c \in 1..k : square(c)
    OBVIOUS
  <2> HIDE DEF square, cols
  <2>3. cols \in 1..k
    BY <2>1, <2>2
  <2> QED
    BY <1>2, <2>3
<1> HIDE DEF k, cols
<1>5. k + cols - 1 \in Nat
  BY <1>2, <1>4
<1>6. rows \in Nat /\ k + cols - 1 = cols * rows + ((k + cols - 1) % cols)
      /\ (k + cols - 1) % cols \in 0..(cols - 1)
  BY <1>4, <1>5, QuotientIsNat, RemainderRange, Division
<1>7. rows >= 1
  <2>1. rows # 0
    <3> SUFFICES ASSUME rows = 0 PROVE FALSE
      OBVIOUS
    <3> DEFINE rest == (k + cols - 1) % cols
    <3>1. cols * rows = 0
      BY <1>4
    <3> HIDE DEF rows, rest
    <3>2. k + cols - 1 = rest /\ rest <= cols - 1 /\ rest \in Int
      BY <1>4, <1>6, <3>1 DEF rest
    <3> QED
      BY <1>2, <1>4, <3>2
  <2> HIDE DEF rows
  <2> QED
    BY <1>6, <2>1
<1>8. ASSUME NEW i \in 0..(n - 1)
      PROVE  i \div cols < rows
  <2> DEFINE q == i \div cols
  <2>1. i \in Nat /\ i < k
    BY <1>1, <1>2
  <2>2. q \in Nat /\ i = cols * q + (i % cols) /\ i % cols \in 0..(cols - 1)
    BY <1>4, <2>1, QuotientIsNat, RemainderRange, Division
  <2> DEFINE rest == (k + cols - 1) % cols
             left == i % cols
  <2>3. SUFFICES ASSUME ~(q < rows) PROVE FALSE
    OBVIOUS
  <2> HIDE DEF q, rows, rest, left
  <2>4. q = rows \/ rows < q
    BY <1>6, <2>2, <2>3
  <2>5. rows * cols \in Nat /\ q * cols \in Nat /\ rows * cols <= q * cols
    BY <1>4, <1>6, <2>2, <2>4, RowsApart
  <2>6. cols * q = q * cols /\ cols * rows = rows * cols
    BY <1>4, <1>6, <2>2
  <2>7. left \in Int /\ left >= 0 /\ rest \in Int /\ rest <= cols - 1
        /\ i = q * cols + left /\ k + cols - 1 = rows * cols + rest
    BY <1>4, <1>6, <2>2, <2>6 DEF left, rest
  <2> QED
    BY <1>2, <1>4, <2>1, <2>5, <2>7
<1>9. wide = 26 * cols + 18 /\ high = 26 * rows + 40 /\ wide \in Nat /\ high \in Nat
      /\ RoomMinSize \in Nat
  <2> HIDE DEF rows
  <2>1. /\ Times(cols, IconSize, IconGap) = 26 * cols - 6
        /\ Times(rows, IconSize, IconGap) = 26 * rows - 6
    BY <1>4, <1>6 DEF Times, IconSize, IconGap
  <2> QED
    BY <1>4, <1>6, <1>7, <2>1 DEF Wall, RoomPadding, RoomHeader, RoomMinSize
<1> HIDE DEF rows, wide, high
<1>10. /\ Max({wide, RoomMinSize}) \in Nat /\ Max({wide, RoomMinSize}) >= wide
       /\ Max({high, RoomMinSize}) \in Nat /\ Max({high, RoomMinSize}) >= high
  BY <1>9, MaxOfTwo
<1>11. /\ RoomLayout[n].cols = cols /\ RoomLayout[n].width = Max({wide, RoomMinSize})
       /\ RoomLayout[n].height = Max({high, RoomMinSize})
  BY <1>3
<1> QED
  BY <1>4, <1>6, <1>8, <1>9, <1>10, <1>11

LEMMA SizesOfRooms == DOMAIN RoomLayout = Sizes
BY DEF RoomLayout, Sizes

\* Icons of one room, by the column and the row of each.
LEMMA IconsHold ==
  ASSUME NEW n \in Sizes
  PROVE  IconsFit[n]
<1>1. PICK cols \in Nat \ {0}, rows \in Nat :
        /\ RoomLayout[n].cols = cols
        /\ RoomLayout[n].width \in Nat /\ RoomLayout[n].height \in Nat
        /\ RoomLayout[n].width >= 26 * cols + 18
        /\ RoomLayout[n].height >= 26 * rows + 40
        /\ \A i \in 0..(n - 1) : i \div cols < rows
  BY ShapeHolds
<1> DEFINE icon(i) == Box(12 + (i % cols) * 26, 34 + (i \div cols) * 26, 20, 20)
           w == RoomLayout[n].width
           h == RoomLayout[n].height
<1>2. n \in Nat /\ \A i \in 0..(n - 1) : i \in Nat
  BY DEF Sizes
<1>3. \A i \in 0..(n - 1) :
        /\ i % cols \in Nat /\ i % cols <= cols - 1
        /\ i \div cols \in Nat /\ i \div cols <= rows - 1
        /\ i = cols * (i \div cols) + (i % cols)
  <2> SUFFICES ASSUME NEW i \in 0..(n - 1)
               PROVE  /\ i % cols \in Nat /\ i % cols <= cols - 1
                      /\ i \div cols \in Nat /\ i \div cols <= rows - 1
                      /\ i = cols * (i \div cols) + (i % cols)
    OBVIOUS
  <2>1. i \in Nat /\ i \div cols < rows
    BY <1>1, <1>2
  <2>2. i % cols \in 0..(cols - 1) /\ i \div cols \in Nat /\ i = cols * (i \div cols) + (i % cols)
    BY <2>1, RemainderRange, QuotientIsNat, Division
  <2> DEFINE q == i \div cols
             r == i % cols
  <2> HIDE DEF q, r
  <2>3. q \in Nat /\ q < rows /\ r \in 0..(cols - 1) => r \in Nat /\ r <= cols - 1 /\ q <= rows - 1
    OBVIOUS
  <2> QED
    BY <2>1, <2>2, <2>3 DEF q, r
<1>4. Icons[n] = {icon(i) : i \in 0..(n - 1)}
  <2>1. n \in DOMAIN RoomLayout
    BY SizesOfRooms
  <2>2. Wall + RoomPadding = 12 /\ Wall + RoomHeader = 34 /\ IconSize + IconGap = 26 /\ IconSize = 20
    BY DEF Wall, RoomPadding, RoomHeader, IconSize, IconGap
  <2>3. Icons[n] = {Box(Wall + RoomPadding + (i % RoomLayout[n].cols) * (IconSize + IconGap),
                        Wall + RoomHeader + (i \div RoomLayout[n].cols) * (IconSize + IconGap),
                        IconSize, IconSize) : i \in 0..(n - 1)}
    BY <2>1 DEF Icons
  <2>4. \A i \in 0..(n - 1) :
          Box(Wall + RoomPadding + (i % RoomLayout[n].cols) * (IconSize + IconGap),
              Wall + RoomHeader + (i \div RoomLayout[n].cols) * (IconSize + IconGap),
              IconSize, IconSize) = icon(i)
    BY <1>1, <2>2
  <2> HIDE DEF icon
  <2> QED
    BY <2>3, <2>4
<1>5. \A i \in 0..(n - 1) : /\ icon(i).x = 12 + (i % cols) * 26 /\ icon(i).w = 20
                            /\ icon(i).y = 34 + (i \div cols) * 26 /\ icon(i).h = 20
  BY DEF Box
<1>6. \A i \in 0..(n - 1) :
        /\ icon(i).x >= 12 /\ icon(i).x + icon(i).w <= w - 12
        /\ icon(i).y >= 34 /\ icon(i).y + icon(i).h <= h - 12
  <2> SUFFICES ASSUME NEW i \in 0..(n - 1)
               PROVE  /\ icon(i).x >= 12 /\ icon(i).x + icon(i).w <= w - 12
                      /\ icon(i).y >= 34 /\ icon(i).y + icon(i).h <= h - 12
    OBVIOUS
  <2> DEFINE q == i \div cols
             r == i % cols
  <2>1. /\ r \in Nat /\ r <= cols - 1 /\ q \in Nat /\ q <= rows - 1
        /\ icon(i).x = 12 + r * 26 /\ icon(i).w = 20
        /\ icon(i).y = 34 + q * 26 /\ icon(i).h = 20
    BY <1>3, <1>5
  <2>2. w \in Nat /\ h \in Nat /\ w >= 26 * cols + 18 /\ h >= 26 * rows + 40
    BY <1>1
  <2> HIDE DEF q, r, icon, w, h
  <2> QED
    BY <2>1, <2>2
<1>7. ASSUME NEW i \in 0..(n - 1), NEW j \in 0..(n - 1), icon(i) # icon(j)
      PROVE  Apart(icon(i), icon(j), 6)
  <2> DEFINE q == i \div cols
             r == i % cols
             p == j \div cols
             s == j % cols
  <2>1. /\ r \in Nat /\ q \in Nat /\ s \in Nat /\ p \in Nat
        /\ icon(i).x = 12 + r * 26 /\ icon(i).w = 20
        /\ icon(i).y = 34 + q * 26 /\ icon(i).h = 20
        /\ icon(j).x = 12 + s * 26 /\ icon(j).w = 20
        /\ icon(j).y = 34 + p * 26 /\ icon(j).h = 20
    BY <1>3, <1>5
  <2>2. q # p \/ r # s
    BY <1>7
  <2> HIDE DEF q, r, p, s, icon
  <2> QED
    BY <2>1, <2>2 DEF Apart
<1> HIDE DEF icon
<1>8. \A a \in Icons[n] :
          /\ a.x >= Wall + RoomPadding /\ a.x + a.w <= RoomLayout[n].width - Wall - RoomPadding
          /\ a.y >= Wall + RoomHeader  /\ a.y + a.h <= RoomLayout[n].height - Wall - RoomPadding
  <2>1. Wall + RoomPadding = 12 /\ Wall + RoomHeader = 34 /\ w - Wall - RoomPadding = w - 12
        /\ h - Wall - RoomPadding = h - 12
    BY <1>1 DEF Wall, RoomPadding, RoomHeader
  <2> QED
    BY <1>4, <1>6, <2>1
<1>9. \A a, b \in Icons[n] : a # b => Apart(a, b, IconGap)
  BY <1>4, <1>7 DEF IconGap
<1>10. n \in DOMAIN RoomLayout
  BY SizesOfRooms
<1> QED
  BY <1>8, <1>9, <1>10 DEF IconsFit

-----------------------------------------------------------------------------
(* The cells of a map *)

LEMMA RoomsOfMap ==
  ASSUME NEW map \in Seq(Room)
  PROVE  Range(map) \subseteq Room /\ IsFiniteSet(Range(map))
<1>1. Range(map) \subseteq Room
  BY DEF Range
<1>2. DOMAIN map = 1..Len(map) /\ Len(map) \in Nat
  OBVIOUS
<1>3. IsFiniteSet(DOMAIN map)
  BY <1>2, FS_Interval
<1>4. Range(map) = {map[i] : i \in DOMAIN map}
  BY DEF Range
<1> QED
  BY <1>1, <1>3, <1>4, ImageIsFinite

\* Two rooms never share a cell: when a room is placed fewer cells are taken than
\* there are in reach, for each other room takes one.
LEMMA CellsDiffer ==
  ASSUME TypeOK, NEW map \in Seq(Room), IsLaid(map),
         \A r, s \in Range(map) : r.id = s.id => r = s,
         NEW a \in Range(map), NEW b \in Range(map), a.id < b.id
  PROVE  a.cell # b.cell
<1> DEFINE before == {t \in Range(map) : t.id < b.id}
           ids    == {t.id : t \in before}
           cells  == {t.cell : t \in before}
           cellOf == [i \in ids |-> (CHOOSE t \in before : t.id = i).cell]
<1>1. \A t \in Range(map) : t \in Room /\ t.id \in Groups /\ t.id \in Nat
  BY RoomsOfMap, AtlasAssumption DEF Room
<1>2. b.id \in Groups /\ ids \subseteq Groups \ {b.id}
  BY <1>1
<1>3. IsFiniteSet(ids) /\ Cardinality(ids) < Cardinality(Groups)
  <2>1. IsFiniteSet(Groups) /\ Cardinality(Groups) \in Nat
    BY AtlasAssumption, FS_CardinalityType
  <2>2. IsFiniteSet(Groups \ {b.id}) /\ Cardinality(Groups \ {b.id}) = Cardinality(Groups) - 1
    BY <1>2, <2>1, FS_RemoveElement
  <2>3. IsFiniteSet(ids) /\ Cardinality(ids) <= Cardinality(Groups) - 1
    BY <1>2, <2>2, FS_Subset
  <2>4. Cardinality(ids) \in Nat
    BY <2>3, FS_CardinalityType
  <2> QED
    BY <2>1, <2>3, <2>4
<1>4. \A t \in before : t.id \in ids /\ cellOf[t.id] = t.cell
  <2> SUFFICES ASSUME NEW t \in before PROVE t.id \in ids /\ cellOf[t.id] = t.cell
    OBVIOUS
  <2>1. t.id \in ids
    OBVIOUS
  <2>2. cellOf[t.id] = (CHOOSE u \in before : u.id = t.id).cell
    BY <2>1
  <2>3. (CHOOSE u \in before : u.id = t.id) = t
    OBVIOUS
  <2> QED
    BY <2>1, <2>2, <2>3
<1>5. cells = {cellOf[i] : i \in ids}
  <2> HIDE DEF cellOf, before
  <2> QED
    BY <1>4
<1>6. IsFiniteSet(cells) /\ Cardinality(cells) < (Reach + 1) * (Reach + 1)
  <2>1. IsFiniteSet(cells) /\ Cardinality(cells) <= Cardinality(ids)
    <3> HIDE DEF cells, cellOf, ids
    <3> QED
      BY <1>3, <1>5, ImageIsFinite
  <2>2. Cardinality(ids) \in Nat /\ Cardinality(cells) \in Nat /\ Cardinality(Groups) \in Nat
    BY <1>3, <2>1, AtlasAssumption, FS_CardinalityType
  <2>3. Cardinality(Groups) <= (Reach + 1) * (Reach + 1) /\ Reach \in Nat
    BY AtlasAssumption
  <2>4. (Reach + 1) * (Reach + 1) \in Nat
    BY <2>3
  <2> HIDE DEF cells, ids
  <2> QED
    BY <1>3, <2>1, <2>2, <2>3, <2>4
<1>7. b.cell = Place(Home(b.id, b.region), cells)
  BY DEF IsLaid
<1>8. Home(b.id, b.region) \in Cells
  BY <1>1, HomeIsCell DEF Room
<1>9. b.cell \notin cells
  <2> HIDE DEF cells
  <2> QED
    BY <1>6, <1>7, <1>8, PlaceIsFree
<1> QED
  BY <1>9

\* The cells of a map are as large as its largest room and a corridor.
LEMMA CellHolds ==
  ASSUME NEW map \in Seq(Room)
  PROVE  /\ CellSize(map) \in Nat
         /\ \A room \in Range(map) :
              /\ Count(room) \in Sizes
              /\ Shape(room).width \in Nat /\ Shape(room).width + CorridorGap <= CellSize(map)
              /\ Shape(room).height \in Nat /\ Shape(room).height + CorridorGap <= CellSize(map)
<1> DEFINE widths  == {Shape(room).width : room \in Range(map)}
           heights == {Shape(room).height : room \in Range(map)}
           all     == {RoomMinSize} \cup widths \cup heights
<1>1. ASSUME NEW room \in Range(map)
      PROVE  Count(room) \in Sizes
  <2>1. room.resources \in Partial(Resources, Looks)
    BY RoomsOfMap DEF Room
  <2>2. DOMAIN room.resources \in SUBSET Resources
    BY <2>1, PartialIs
  <2>3. /\ Cardinality(DOMAIN room.resources) <= Cardinality(Resources)
        /\ Cardinality(DOMAIN room.resources) \in Nat /\ Cardinality(Resources) \in Nat
    BY <2>2, RenderAssumption, FS_Subset, FS_CardinalityType
  <2>4. \A m, n, k \in Nat : m <= n => k * m \in 0..(k * n)
    <3> SUFFICES ASSUME NEW m \in Nat, NEW n \in Nat, NEW k \in Nat, m <= n
                 PROVE  k * m \in 0..(k * n)
      OBVIOUS
    <3>1. n - m \in Nat /\ k * (n - m) \in Nat /\ k * m \in Nat /\ k * n \in Nat
      OBVIOUS
    <3>2. k * n = k * m + k * (n - m)
      OBVIOUS
    <3> QED
      BY <3>1, <3>2
  <2> QED
    BY <2>3, <2>4, RenderAssumption DEF Count, Sizes
<1>2. \A room \in Range(map) : Shape(room).width \in Nat /\ Shape(room).height \in Nat
  BY <1>1, ShapeHolds DEF Shape
<1>3. all \in SUBSET Nat /\ all # {}
  BY <1>2 DEF RoomMinSize
<1>4. IsFiniteSet(all)
  <2>1. IsFiniteSet(Range(map))
    BY RoomsOfMap
  <2>2. IsFiniteSet(widths)
    <3> DEFINE f == [room \in Range(map) |-> Shape(room).width]
    <3>1. widths = {f[room] : room \in Range(map)}
      OBVIOUS
    <3> HIDE DEF f, widths
    <3> QED
      BY <2>1, <3>1, ImageIsFinite
  <2>3. IsFiniteSet(heights)
    <3> DEFINE f == [room \in Range(map) |-> Shape(room).height]
    <3>1. heights = {f[room] : room \in Range(map)}
      OBVIOUS
    <3> HIDE DEF f, heights
    <3> QED
      BY <2>1, <3>1, ImageIsFinite
  <2> HIDE DEF widths, heights
  <2> QED
    BY <2>2, <2>3, FS_Singleton, FS_Union
<1>5. CellSize(map) = CorridorGap + Max(all)
  BY DEF CellSize
<1>6. \A room \in Range(map) : Shape(room).width \in all /\ Shape(room).height \in all
  OBVIOUS
<1> HIDE DEF all
<1>7. Max(all) \in Nat /\ \A k \in all : Max(all) >= k
  BY <1>3, <1>4, MaxIsIn
<1>8. CellSize(map) \in Nat /\ \A k \in all : k + CorridorGap <= CellSize(map)
  BY <1>3, <1>5, <1>7 DEF CorridorGap
<1> QED
  BY <1>1, <1>2, <1>6, <1>8

LEMMA FarHolds ==
  ASSUME NEW map \in Seq(Room), NEW i \in 1..2
  PROVE  LET far == Max({room.cell[i] : room \in Range(map)} \cup {0})
         IN  far \in Nat /\ \A room \in Range(map) : room.cell[i] \in Nat /\ room.cell[i] <= far
<1> DEFINE places == {room.cell[i] : room \in Range(map)}
           all    == places \cup {0}
           f      == [room \in Range(map) |-> room.cell[i]]
<1>1. Range(map) \subseteq Room /\ IsFiniteSet(Range(map))
  BY RoomsOfMap
<1>2. \A room \in Range(map) : room.cell[i] \in Nat
  <2>1. \A c \in Cells : c[1] \in Nat /\ c[2] \in Nat
    BY DEF Cells
  <2>2. i = 1 \/ i = 2
    OBVIOUS
  <2> QED
    BY <1>1, <2>1, <2>2 DEF Room
<1>3. places = {f[room] : room \in Range(map)}
  OBVIOUS
<1>4. all \in SUBSET Nat /\ all # {}
  BY <1>2
<1>5. IsFiniteSet(all)
  <2> HIDE DEF f, places
  <2>1. IsFiniteSet(places)
    BY <1>1, <1>3, ImageIsFinite
  <2>2. IsFiniteSet({0})
    BY FS_Singleton
  <2> QED
    BY <2>1, <2>2, FS_Union
<1>6. \A room \in Range(map) : room.cell[i] \in all
  OBVIOUS
<1> HIDE DEF all
<1>7. Max(all) \in Nat /\ \A k \in all : k <= Max(all)
  BY <1>4, <1>5, MaxIsIn
<1> QED
  BY <1>2, <1>6, <1>7 DEF all

-----------------------------------------------------------------------------
(* The picture *)

\* The part of the page that the cells are on.
Free(map) ==
  Box(MapMargin, MapMargin, Canvas(map).w - MapMargin * 2, Canvas(map).h - MapMargin * 2)

In(free, x, y) == x \in free.x..(free.x + free.w) /\ y \in free.y..(free.y + free.h)

OnWall(p, b) == p[1] \in {b.x, b.x + b.w} /\ p[2] \in b.y..(b.y + b.h)

IsBox(b) == b.x \in Nat /\ b.y \in Nat /\ b.w \in Nat /\ b.h \in Nat

\* A box that is on that part.
Inside(b, free) ==
  IsBox(b) /\ In(free, b.x, b.y) /\ In(free, b.x + b.w, b.y + b.h)

LEMMA FreeIs ==
  ASSUME NEW map \in Seq(Room)
  PROVE  \E far \in [1..2 -> Nat] :
           LET cell == CellSize(map)
           IN  /\ \A room \in Range(map) : \A i \in 1..2 :
                    room.cell[i] \in Nat /\ room.cell[i] <= far[i]
               /\ Free(map) = Box(96, 96, (far[1] + 1) * cell, (far[2] + 1) * cell)
               /\ Canvas(map).w = (far[1] + 1) * cell + 192
               /\ Canvas(map).h = (far[2] + 1) * cell + 192
<1> DEFINE far == [i \in 1..2 |-> Max({room.cell[i] : room \in Range(map)} \cup {0})]
           cell == CellSize(map)
<1>1. /\ \A i \in 1..2 : far[i] \in Nat
      /\ \A i \in 1..2 : \A room \in Range(map) : room.cell[i] \in Nat /\ room.cell[i] <= far[i]
  BY FarHolds
<1>2. /\ far[1] = Max({room.cell[1] : room \in Range(map)} \cup {0})
      /\ far[2] = Max({room.cell[2] : room \in Range(map)} \cup {0})
  OBVIOUS
<1>3. far \in [1..2 -> Nat]
  BY <1>1
<1> HIDE DEF far
<1>4. cell \in Nat /\ far[1] \in Nat /\ far[2] \in Nat
  BY <1>1, CellHolds
<1>5. /\ Canvas(map).w = (far[1] + 1) * cell + MapMargin * 2
      /\ Canvas(map).h = (far[2] + 1) * cell + MapMargin * 2
  BY <1>2 DEF Canvas
<1>6. MapMargin = 96 /\ MapMargin * 2 = 192
  BY DEF MapMargin
<1> HIDE DEF cell
<1>7. (far[1] + 1) * cell \in Nat /\ (far[2] + 1) * cell \in Nat
  BY <1>4
<1>8. /\ Canvas(map).w - MapMargin * 2 = (far[1] + 1) * cell
      /\ Canvas(map).h - MapMargin * 2 = (far[2] + 1) * cell
  BY <1>5, <1>6, <1>7
<1>9. Free(map) = Box(96, 96, (far[1] + 1) * cell, (far[2] + 1) * cell)
  BY <1>6, <1>8 DEF Free
<1>10. /\ Canvas(map).w = (far[1] + 1) * cell + 192
       /\ Canvas(map).h = (far[2] + 1) * cell + 192
  BY <1>5, <1>6
<1> WITNESS far \in [1..2 -> Nat]
<1> QED
  BY <1>1, <1>9, <1>10 DEF cell

\* A room is in its cell, with a corridor to spare.
LEMMA BoxInside ==
  ASSUME NEW map \in Seq(Room), NEW room \in Range(map)
  PROVE  Inside(RoomBox(CellSize(map), room), Free(map))
<1> DEFINE c == CellSize(map)
           b == RoomBox(c, room)
           w == Shape(room).width
           h == Shape(room).height
<1>1. PICK far \in [1..2 -> Nat] :
           /\ \A r \in Range(map) : \A i \in 1..2 :
                r.cell[i] \in Nat /\ r.cell[i] <= far[i]
           /\ Free(map) = Box(96, 96, (far[1] + 1) * c, (far[2] + 1) * c)
  BY FreeIs
<1>2. /\ c \in Nat /\ w \in Nat /\ w + 80 <= c /\ h \in Nat /\ h + 80 <= c
  BY CellHolds DEF CorridorGap
<1> DEFINE x == room.cell[1]
           y == room.cell[2]
           m == far[1] + 1
           n == far[2] + 1
<1>3. /\ x \in Nat /\ y \in Nat /\ m \in Nat /\ n \in Nat /\ x < m /\ y < n
  BY <1>1
<1>4. /\ b.x = x * c + 96 /\ b.y = y * c + 96 /\ b.w = w /\ b.h = h
  BY DEF RoomBox, Box, MapMargin
<1>5. /\ Free(map).x = 96 /\ Free(map).y = 96 /\ Free(map).w = m * c /\ Free(map).h = n * c
  BY <1>1 DEF Box
<1> HIDE DEF b, c, w, h, x, y, m, n
<1>6. /\ x * c \in Nat /\ m * c \in Nat /\ x * c + c <= m * c
      /\ y * c \in Nat /\ n * c \in Nat /\ y * c + c <= n * c
  BY <1>2, <1>3, RowsApart
<1> DEFINE xc == x * c
           yc == y * c
           mc == m * c
           nc == n * c
           f == Free(map)
<1>7. /\ xc \in Nat /\ mc \in Nat /\ xc + c <= mc /\ yc \in Nat /\ nc \in Nat /\ yc + c <= nc
      /\ b.x = xc + 96 /\ b.y = yc + 96 /\ b.w = w /\ b.h = h
      /\ f.x = 96 /\ f.y = 96 /\ f.w = mc /\ f.h = nc
  BY <1>4, <1>5, <1>6
<1> HIDE DEF xc, yc, mc, nc, f
<1>8. Inside(b, f)
  BY <1>2, <1>7 DEF Inside, In, IsBox
<1> QED
  BY <1>8 DEF b, c, f

\* Rooms in different cells are a corridor apart.
LEMMA BoxesApart ==
  ASSUME NEW map \in Seq(Room), NEW r \in Range(map), NEW s \in Range(map), r.cell # s.cell
  PROVE  Apart(RoomBox(CellSize(map), r), RoomBox(CellSize(map), s), CorridorGap)
<1> DEFINE c == CellSize(map)
           a == RoomBox(c, r)
           b == RoomBox(c, s)
<1> SUFFICES Apart(a, b, CorridorGap)
  OBVIOUS
<1>1. /\ c \in Nat
      /\ a.w \in Nat /\ a.w + 80 <= c /\ a.h \in Nat /\ a.h + 80 <= c
      /\ b.w \in Nat /\ b.w + 80 <= c /\ b.h \in Nat /\ b.h + 80 <= c
  BY CellHolds DEF CorridorGap, RoomBox, Box
<1>2. /\ a.x = r.cell[1] * c + 96 /\ a.y = r.cell[2] * c + 96
      /\ b.x = s.cell[1] * c + 96 /\ b.y = s.cell[2] * c + 96
  BY DEF RoomBox, Box, MapMargin
<1>3. /\ r.cell[1] \in Nat /\ r.cell[2] \in Nat /\ s.cell[1] \in Nat /\ s.cell[2] \in Nat
      /\ (r.cell[1] # s.cell[1] \/ r.cell[2] # s.cell[2])
  <2>1. r.cell \in Cells /\ s.cell \in Cells
    BY RoomsOfMap DEF Room
  <2>2. \A p, q \in Cells : /\ p[1] \in Nat /\ p[2] \in Nat
                            /\ p[1] = q[1] /\ p[2] = q[2] => p = q
    BY DEF Cells
  <2> QED
    BY <2>1, <2>2
<1> HIDE DEF a, b, c
<1> DEFINE rx == r.cell[1] * c
           ry == r.cell[2] * c
           sx == s.cell[1] * c
           sy == s.cell[2] * c
<1>4. \A m, n \in Nat : m < n => m * c + c <= n * c
  BY <1>1, RowsApart
<1>5. rx \in Nat /\ ry \in Nat /\ sx \in Nat /\ sy \in Nat
  <2>1. \A m \in Nat : m * c \in Nat
    BY <1>1
  <2> QED
    BY <1>3, <2>1
<1>6. rx + c <= sx \/ sx + c <= rx \/ ry + c <= sy \/ sy + c <= ry
  BY <1>3, <1>4
<1>7. a.x = rx + 96 /\ a.y = ry + 96 /\ b.x = sx + 96 /\ b.y = sy + 96
  BY <1>2
<1> HIDE DEF rx, ry, sx, sy
<1>8. \/ a.x + a.w + 80 <= b.x \/ b.x + b.w + 80 <= a.x
      \/ a.y + a.h + 80 <= b.y \/ b.y + b.h + 80 <= a.y
  <2>1. CASE rx + c <= sx
    <3>1. a.x + a.w + 80 <= b.x
      BY <1>1, <1>5, <1>7, <2>1
    <3> QED
      BY <3>1
  <2>2. CASE sx + c <= rx
    BY <1>1, <1>5, <1>7, <2>2
  <2>3. CASE ry + c <= sy
    <3>1. a.y + a.h + 80 <= b.y
      BY <1>1, <1>5, <1>7, <2>3
    <3> QED
      BY <3>1
  <2>4. CASE sy + c <= ry
    BY <1>1, <1>5, <1>7, <2>4
  <2> QED
    BY <1>6, <2>1, <2>2, <2>3, <2>4
<1> QED
  BY <1>8 DEF Apart, CorridorGap

\* A corridor leaves and enters by a wall, and bends between the doors.
LEMMA CorridorHolds ==
  ASSUME NEW free, IsBox(free), NEW a, NEW b, Inside(a, free), Inside(b, free)
  PROVE  LET path == Corridor(a, b)
         IN  /\ OnWall(path[1], a) /\ OnWall(path[4], b)
             /\ \A k \in DOMAIN path : In(free, path[k][1], path[k][2])
<1> DEFINE exit  == Door(a, b)
           entry == Door(b, a)
           mid   == (exit[1] + entry[1]) \div 2
           path  == Corridor(a, b)
           ah == a.h \div 2
           bh == b.h \div 2
<1>1. /\ a.x \in Nat /\ a.y \in Nat /\ a.w \in Nat /\ a.h \in Nat
      /\ b.x \in Nat /\ b.y \in Nat /\ b.w \in Nat /\ b.h \in Nat
  BY DEF Inside, IsBox
<1>2. /\ ah \in Nat /\ 2 * ah <= a.h /\ bh \in Nat /\ 2 * bh <= b.h
  BY <1>1, Half
<1>3. /\ exit[1] \in {a.x, a.x + a.w} /\ exit[2] = a.y + ah
      /\ entry[1] \in {b.x, b.x + b.w} /\ entry[2] = b.y + bh
  BY DEF Door, Middle
<1> HIDE DEF ah, bh, exit, entry
<1>4. /\ exit[1] \in Nat /\ exit[2] \in Nat /\ entry[1] \in Nat /\ entry[2] \in Nat
      /\ exit[2] \in a.y..(a.y + a.h) /\ entry[2] \in b.y..(b.y + b.h)
  BY <1>1, <1>2, <1>3
<1>5. OnWall(exit, a) /\ OnWall(entry, b)
  BY <1>3, <1>4 DEF OnWall
<1>6. /\ exit[1] \in free.x..(free.x + free.w) /\ exit[2] \in free.y..(free.y + free.h)
      /\ entry[1] \in free.x..(free.x + free.w) /\ entry[2] \in free.y..(free.y + free.h)
  BY <1>1, <1>3, <1>4 DEF Inside, In, IsBox
<1>7. exit[1] + entry[1] \in Nat
  BY <1>4
<1>8. mid \in Nat /\ 2 * mid <= exit[1] + entry[1] /\ exit[1] + entry[1] <= 2 * mid + 1
  BY <1>7, Half
<1> HIDE DEF mid
<1>9. mid \in free.x..(free.x + free.w)
  BY <1>4, <1>6, <1>8 DEF IsBox
<1>10. path = <<exit, <<mid, exit[2]>>, <<mid, entry[2]>>, entry>>
  BY DEF Corridor, exit, entry, mid
<1> HIDE DEF path
<1>11. /\ DOMAIN path = 1..4 /\ path[1] = exit /\ path[4] = entry
       /\ path[2][1] = mid /\ path[2][2] = exit[2] /\ path[3][1] = mid /\ path[3][2] = entry[2]
  BY <1>10
<1>12. \A k \in 1..4 : k = 1 \/ k = 2 \/ k = 3 \/ k = 4
  OBVIOUS
<1>13. \A k \in DOMAIN path : In(free, path[k][1], path[k][2])
  BY <1>6, <1>9, <1>11, <1>12 DEF In
<1> QED
  BY <1>5, <1>11, <1>13 DEF path

\* Torches, chest and dragon are in the margin of a page of any size.
LEMMA BorderHolds ==
  ASSUME NEW m \in Nat, NEW n \in Nat, NEW canvas, canvas.w = m + 192, canvas.h = n + 192,
         NEW d \in Decorations(canvas)
  PROVE  Apart(d, Box(96, 96, m, n), 0)
<1> DEFINE free == Box(96, 96, m, n)
           half == MapMargin \div 2
           chest == Box(half - 16, canvas.h - half - 16, 32, 32)
           dragon == Box(canvas.w - half - 40, half - 20, 40, 40)
<1>1. half = 48
  BY Half DEF MapMargin
<1>2. free.x = 96 /\ free.y = 96 /\ free.w = m /\ free.h = n
  BY DEF Box
<1> HIDE DEF half, free
<1>3. CASE d \in Torches(canvas)
  <2>1. PICK x, y : y \in {half - 10, canvas.h - half - 10} /\ d = Box(x - 5, y - 9, 10, 23)
    BY <1>3 DEF Torches, half
  <2>2. y = 38 \/ y = n + 134
    BY <1>1, <2>1
  <2>3. d.y = y - 9 /\ d.h = 23
    BY <2>1 DEF Box
  <2> QED
    BY <1>2, <2>2, <2>3 DEF Apart, free
<1>4. CASE d = chest
  <2>1. d.y = canvas.h - half - 16
    BY <1>4 DEF Box
  <2> QED
    BY <1>1, <1>2, <2>1 DEF Apart, free
<1>5. CASE d = dragon
  <2>1. d.y = half - 20 /\ d.h = 40
    BY <1>5 DEF Box
  <2> QED
    BY <1>1, <1>2, <2>1 DEF Apart, free
<1> HIDE DEF chest, dragon
<1>6. d \in Torches(canvas) \cup {chest, dragon}
  BY DEF Decorations, chest, dragon, half
<1> QED
  BY <1>3, <1>4, <1>5, <1>6 DEF free

LEMMA EdgesAreRooms ==
  ASSUME NEW map, NEW e \in Edges(map)
  PROVE  e[1] \in Range(map) /\ e[2] \in Range(map)
<1>1. PICK p \in (DOMAIN map) \X (DOMAIN map) : e = <<map[p[1]], map[p[2]]>>
  BY DEF Edges
<1>2. p[1] \in DOMAIN map /\ p[2] \in DOMAIN map
  OBVIOUS
<1> QED
  BY <1>1, <1>2 DEF Range

\* The picture that render_html draws of the last map is in order whatever the
\* map: no two rooms are closer than a corridor needs (no two share a cell, and a
\* cell holds the largest room), icons fit, corridors end in the walls of the
\* rooms they join and stay on the page, and the border art keeps off the rooms.
THEOREM PicturesAreSound == Spec => []PictureSound
<1>1. ASSUME IInv PROVE PictureSound
  <2> SUFFICES ASSUME maps # << >> PROVE PictureSound
    BY DEF PictureSound
  <2> DEFINE map    == Last(maps)
             cell   == CellSize(map)
             box    == [room \in Range(map) |-> RoomBox(cell, room)]
             canvas == Canvas(map)
             free   == Box(MapMargin, MapMargin, canvas.w - MapMargin * 2, canvas.h - MapMargin * 2)
             in(x, y)     == x \in free.x..(free.x + free.w) /\ y \in free.y..(free.y + free.h)
             onWall(p, b) == p[1] \in {b.x, b.x + b.w} /\ p[2] \in b.y..(b.y + b.h)
             n == Len(maps)
  <2>1. map = maps[n] /\ n \in DOMAIN maps
    BY <1>1 DEF IInv, TypeOK, Last
  <2>2. /\ map \in Seq(Room) /\ IsLaid(map)
        /\ \A r, s \in Range(map) : r.id = s.id => r = s
    BY <1>1, <2>1 DEF IInv, TypeOK, AllLaid, Written, IsMapOf
  <2> HIDE DEF n, map
  <2>3. \A r \in Range(map) : box[r] = RoomBox(CellSize(map), r)
    OBVIOUS
  <2>4. /\ free = Free(map)
        /\ \A x, y : in(x, y) <=> In(free, x, y)
        /\ \A p, b : onWall(p, b) <=> OnWall(p, b)
    BY DEF Free, In, OnWall
  <2>5. PICK far \in [1..2 -> Nat] :
          /\ free = Box(96, 96, (far[1] + 1) * cell, (far[2] + 1) * cell)
          /\ canvas.w = (far[1] + 1) * cell + 192
          /\ canvas.h = (far[2] + 1) * cell + 192
    BY <2>2, <2>4, FreeIs
  <2>6. (far[1] + 1) * cell \in Nat /\ (far[2] + 1) * cell \in Nat
    <3>1. cell \in Nat /\ far[1] + 1 \in Nat /\ far[2] + 1 \in Nat
      BY <2>2, CellHolds
    <3> QED
      BY <3>1
  <2>7. IsBox(free)
    BY <2>5, <2>6 DEF IsBox, Box
  <2>8. \A d \in Decorations(canvas) : Apart(d, free, 0)
    <3> DEFINE wide == (far[1] + 1) * cell
               high == (far[2] + 1) * cell
    <3>1. /\ wide \in Nat /\ high \in Nat /\ free = Box(96, 96, wide, high)
          /\ canvas.w = wide + 192 /\ canvas.h = high + 192
      BY <2>5, <2>6
    <3> HIDE DEF wide, high, free, canvas
    <3> QED
      BY <3>1, BorderHolds
  <2> HIDE DEF box, cell, canvas, free, in, onWall
  <2>9. \A r \in Range(map) : Inside(box[r], free)
    BY <2>2, <2>3, <2>4, BoxInside
  <2>10. \A r, s \in Range(map) : r # s => Apart(box[r], box[s], CorridorGap)
    <3> SUFFICES ASSUME NEW r \in Range(map), NEW s \in Range(map), r # s
                 PROVE  Apart(box[r], box[s], CorridorGap)
      OBVIOUS
    <3>1. r.id \in Nat /\ s.id \in Nat /\ r.id # s.id
      BY <2>2, RoomsOfMap, AtlasAssumption DEF Room
    <3>2. r.id < s.id \/ s.id < r.id
      BY <3>1
    <3>3. r.cell # s.cell
      BY <1>1, <2>2, <3>2, CellsDiffer DEF IInv
    <3> QED
      BY <2>2, <2>3, <3>3, BoxesApart
  <2>11. \A r \in Range(map) :
           /\ IconsFit[Count(r)]
           /\ in(box[r].x, box[r].y) /\ in(box[r].x + box[r].w, box[r].y + box[r].h)
    BY <2>2, <2>4, <2>9, CellHolds, IconsHold DEF Inside
  <2>12. \A e \in Edges(map) :
           LET path == Corridor(box[e[1]], box[e[2]])
           IN  /\ onWall(path[1], box[e[1]]) /\ onWall(path[4], box[e[2]])
               /\ \A k \in DOMAIN path : in(path[k][1], path[k][2])
    BY <2>4, <2>7, <2>9, EdgesAreRooms, CorridorHolds
  <2> QED
    BY <2>8, <2>10, <2>11, <2>12 DEF PictureSound, map, box, cell, canvas, free, in, onWall
<1> QED
  BY <1>1, Invariance, PTL
=============================================================================
