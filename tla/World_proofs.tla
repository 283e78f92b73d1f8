---------------------------- MODULE World_proofs ----------------------------
(***************************************************************************)
(* What is proved of the game, for any launch: a resource is in one place  *)
(* at most, none is deleted that is locked or out of sight, the Grue warns *)
(* first, the reports agree, and the world can be wandered.                *)
(*                                                                         *)
(* The invariant has what World::new gives to start with (Furnished), that *)
(* the player is in a room of it, and that the streak in the dark does not *)
(* outrun the warning.  That no resource is in two places is kept since    *)
(* commands only move or remove what is at one place of one sequence.      *)
(*                                                                         *)
(* That the world can be wandered is a matter of how it is built, and that *)
(* the reports agree one of any state whose rooms are finitely many: the   *)
(* score is a fold, of which facts are shown by induction over the subsets *)
(* of what it runs through (SubsetInduction), for want of a smallest       *)
(* counterexample.                                                         *)
(***************************************************************************)
EXTENDS World, SequenceTheorems, FiniteSetTheorems, WellFoundedInduction, TLAPS

Items == Rooms \X Nat

TypeOK ==
  /\ phase \in {"prompt", "grue", "over"}
  /\ game_over \in BOOLEAN /\ warned \in BOOLEAN
  /\ darkness_streak \in 0..StreakCap
  /\ inventory \in Seq(Items)
  /\ Rooms # {} => resources \in [Rooms -> Seq(Items)]

\* A game that is played has a world, and the player is in it; every way leads
\* to a room of it.
Placed ==
  /\ phase # "over" => current \in Rooms
  /\ \A r \in Rooms : \A d \in DOMAIN estate.exits[r] : estate.exits[r][d] \in Rooms

\* In the dark for a turn or more since the last light, or devoured: warned.
Warned ==
  /\ darkness_streak > 0 \/ game_over => warned
  /\ game_over => phase = "over"

IInv == TypeOK /\ Placed /\ Warned /\ EachInOnePlace

-----------------------------------------------------------------------------
(* Sets of numbers *)

LEMMA LeastElement ==
  ASSUME NEW T \in SUBSET Nat, T # {}
  PROVE  \E m \in T : \A k \in T : m <= k
<1>1. PICK m \in T : \A k \in T : <<k, m>> \notin OpToRel(<, Nat)
  BY NatLessThanWellFounded, WFMin
<1>2. \A k \in T : ~(k < m)
  BY <1>1 DEF OpToRel
<1> QED
  BY <1>2

LEMMA MinIsIn ==
  ASSUME NEW T \in SUBSET Nat, T # {}
  PROVE  Min(T) \in T
BY LeastElement DEF Min

LEMMA GreatestElement ==
  ASSUME NEW T \in SUBSET Nat, T # {}, NEW n \in Nat, \A k \in T : k <= n
  PROVE  \E m \in T : \A k \in T : m >= k
<1> DEFINE below == {n - k : k \in T}
<1>1. below \in SUBSET Nat /\ below # {}
  <2>1. \A k \in T : n - k \in Nat
    OBVIOUS
  <2>2. \E k \in T : n - k \in below
    OBVIOUS
  <2> QED
    BY <2>1, <2>2
<1>2. PICK m \in below : \A k \in below : m <= k
  BY <1>1, LeastElement
<1>3. PICK x \in T : m = n - x
  OBVIOUS
<1>4. ASSUME NEW y \in T PROVE x >= y
  <2>1. n - y \in below
    OBVIOUS
  <2>2. m <= n - y
    BY <1>2, <2>1
  <2> QED
    BY <1>3, <2>2
<1> QED
  BY <1>4

LEMMA MaxIsIn ==
  ASSUME NEW T \in SUBSET Nat, T # {}, NEW n \in Nat, \A k \in T : k <= n
  PROVE  Max(T) \in T /\ \A k \in T : Max(T) >= k
BY GreatestElement DEF Max

-----------------------------------------------------------------------------
(* Sequences without repetitions *)

LEMMA RemoveAtProperties ==
  ASSUME NEW S, NEW s \in Seq(S), NEW i \in 1..Len(s)
  PROVE  /\ RemoveAt(s, i) \in Seq(S)
         /\ Len(RemoveAt(s, i)) = Len(s) - 1
         /\ \A k \in 1..(Len(s) - 1) :
              RemoveAt(s, i)[k] = IF k < i THEN s[k] ELSE s[k + 1]
<1> DEFINE left  == SubSeq(s, 1, i - 1)
           right == SubSeq(s, i + 1, Len(s))
<1>1. Len(s) \in Nat /\ \A k \in 1..Len(s) : s[k] \in S
  OBVIOUS
<1>2. /\ left \in Seq(S) /\ Len(left) = i - 1
      /\ \A k \in 1..(i - 1) : left[k] = s[k]
  BY <1>1, SubSeqProperties
<1>3. /\ right \in Seq(S) /\ Len(right) = Len(s) - i
      /\ \A k \in 1..(Len(s) - i) : right[k] = s[i + k]
  <2>1. \A k \in (i + 1)..Len(s) : s[k] \in S
    BY <1>1
  <2>2. /\ right \in Seq(S)
        /\ Len(right) = IF i + 1 <= Len(s) THEN Len(s) - (i + 1) + 1 ELSE 0
        /\ \A k \in 1..(Len(s) - (i + 1) + 1) : right[k] = s[i + 1 + k - 1]
    BY <1>1, <2>1, SubSeqProperties
  <2> QED
    BY <1>1, <2>2
<1> HIDE DEF left, right
<1>4. /\ left \o right \in Seq(S)
      /\ Len(left \o right) = Len(s) - 1
      /\ \A k \in 1..(Len(s) - 1) :
           (left \o right)[k] = IF k <= i - 1 THEN left[k] ELSE right[k - (i - 1)]
  <2>1. i \in Int /\ Len(left) + Len(right) = Len(s) - 1
    BY <1>1, <1>2, <1>3
  <2>2. /\ left \o right \in Seq(S)
        /\ Len(left \o right) = Len(left) + Len(right)
        /\ \A k \in 1..(Len(left) + Len(right)) :
             (left \o right)[k] = IF k <= Len(left) THEN left[k] ELSE right[k - Len(left)]
    BY <1>2, <1>3, ConcatProperties
  <2> QED
    BY <1>2, <2>1, <2>2
<1>5. ASSUME NEW k \in 1..(Len(s) - 1)
      PROVE  (left \o right)[k] = IF k < i THEN s[k] ELSE s[k + 1]
  <2>1. CASE k < i
    BY <1>1, <1>2, <1>4, <2>1
  <2>2. CASE k >= i
    <3>1. k - (i - 1) \in 1..(Len(s) - i)
      BY <1>1, <2>2
    <3>2. right[k - (i - 1)] = s[i + (k - (i - 1))]
      BY <1>3, <3>1
    <3>3. i + (k - (i - 1)) = k + 1 /\ ~(k <= i - 1)
      BY <2>2
    <3> QED
      BY <1>4, <2>2, <3>2, <3>3
  <2>3. k < i \/ k >= i
    BY <1>1
  <2> QED
    BY <2>1, <2>2, <2>3
<1> QED
  BY <1>4, <1>5 DEF RemoveAt, left, right

LEMMA RemoveAtKeeps ==
  ASSUME NEW S, NEW s \in Seq(S), NEW i \in 1..Len(s), IsInjective(s)
  PROVE  /\ RemoveAt(s, i) \in Seq(S) /\ IsInjective(RemoveAt(s, i))
         /\ Range(RemoveAt(s, i)) = Range(s) \ {s[i]}
<1> DEFINE t == RemoveAt(s, i)
<1>1. /\ t \in Seq(S) /\ Len(t) = Len(s) - 1 /\ Len(s) \in Nat
      /\ DOMAIN s = 1..Len(s) /\ DOMAIN t = 1..(Len(s) - 1)
      /\ \A k \in 1..(Len(s) - 1) : t[k] = IF k < i THEN s[k] ELSE s[k + 1]
  BY RemoveAtProperties
<1>2. \A j, k \in 1..Len(s) : s[j] = s[k] => j = k
  BY <1>1 DEF IsInjective
<1> HIDE DEF t
<1>3. IsInjective(t)
  BY <1>1, <1>2 DEF IsInjective
<1>4. ASSUME NEW k \in 1..(Len(s) - 1) PROVE t[k] \in Range(s) \ {s[i]}
  BY <1>1, <1>2 DEF Range
<1>5. ASSUME NEW j \in 1..Len(s), j # i PROVE s[j] \in Range(t)
  <2>1. CASE j < i
    BY <1>1, <2>1 DEF Range
  <2>2. CASE j > i
    <3>1. j - 1 \in 1..(Len(s) - 1) /\ t[j - 1] = s[j]
      BY <1>1, <2>2
    <3> QED
      BY <1>1, <3>1 DEF Range
  <2> QED
    BY <1>5, <2>1, <2>2
<1>6. Range(t) = Range(s) \ {s[i]}
  BY <1>1, <1>4, <1>5 DEF Range
<1> QED
  BY <1>1, <1>3, <1>6 DEF t

LEMMA AppendAdds ==
  ASSUME NEW S, NEW s \in Seq(S), NEW x \in S
  PROVE  /\ Append(s, x) \in Seq(S) /\ Range(Append(s, x)) = Range(s) \cup {x}
         /\ IsInjective(s) /\ x \notin Range(s) => IsInjective(Append(s, x))
<1> DEFINE t == Append(s, x)
<1>1. /\ t \in Seq(S) /\ Len(s) \in Nat /\ DOMAIN s = 1..Len(s)
      /\ DOMAIN t = 1..(Len(s) + 1)
      /\ \A k \in 1..Len(s) : t[k] = s[k]
      /\ t[Len(s) + 1] = x
  OBVIOUS
<1> HIDE DEF t
<1>2. Range(t) = Range(s) \cup {x}
  BY <1>1 DEF Range
<1>3. IsInjective(s) /\ x \notin Range(s) => IsInjective(t)
  BY <1>1 DEF IsInjective, Range
<1> QED
  BY <1>1, <1>2, <1>3 DEF t

\* What is found by a name is at a place of the sequence.
LEMMA FoundInside ==
  ASSUME NEW S, NEW s \in Seq(S), NEW word, FindByName(s, word) # 0
  PROVE  FindByName(s, word) \in 1..Len(s)
<1> DEFINE exact  == {i \in DOMAIN s : attrs[s[i]].name = word}
           prefix == {i \in DOMAIN s : word \in PrefixesOf[attrs[s[i]].name]}
<1>1. DOMAIN s = 1..Len(s) /\ Len(s) \in Nat
  OBVIOUS
<1>2. /\ exact \in SUBSET Nat /\ prefix \in SUBSET Nat
      /\ exact \subseteq 1..Len(s) /\ prefix \subseteq 1..Len(s)
  BY <1>1
<1>3. /\ exact # {} => FindByName(s, word) = Min(exact)
      /\ exact = {} /\ prefix # {} => FindByName(s, word) = Min(prefix)
      /\ exact # {} \/ prefix # {}
  <2>1. FindByName(s, word) = CASE exact # {} -> Min(exact)
                                [] exact = {} /\ prefix # {} -> Min(prefix)
                                [] OTHER -> 0
    BY DEF FindByName
  <2> HIDE DEF exact, prefix
  <2> QED
    BY <2>1
<1> HIDE DEF exact, prefix
<1> QED
  BY <1>2, <1>3, MinIsIn

-----------------------------------------------------------------------------
(* The world at first *)

\* The rooms a backend hands over: a sequence, and in each room another one.
RoomList(rooms) ==
  \E n \in Nat :
    /\ DOMAIN rooms = 1..n
    /\ \A i \in 1..n : \E m \in Nat : DOMAIN rooms[i].resources = 1..m

\* What the game needs of its world.
Furnished(e) ==
  /\ IsFiniteSet(e.rooms) /\ e.lit \subseteq e.rooms
  /\ e # NoEstate => e.start \in e.rooms
  /\ \A r \in e.rooms : \A d \in DOMAIN e.exits[r] : e.exits[r][d] \in e.rooms
  /\ e.rooms # {} => e.lying \in [e.rooms -> Seq(e.rooms \X Nat)]
  /\ \A r \in e.rooms : \A k \in DOMAIN e.lying[r] : e.lying[r][k] = <<r, k>>

LEMMA NoEstateFurnished == Furnished(NoEstate)
BY FS_EmptySet DEF Furnished, NoEstate

LEMMA WorldNewFurnished ==
  ASSUME NEW rooms, RoomList(rooms), NEW start
  PROVE  Furnished(WorldNew(rooms, start))
<1> DEFINE names   == {rooms[i].name : i \in DOMAIN rooms}
           index(r) == {i \in DOMAIN rooms : rooms[i].name = r}
           room(r) == rooms[Max(index(r))]
           objects == UNION {{r} \X DOMAIN room(r).resources : r \in names}
           new == [rooms |-> names, start |-> start,
                   exits |-> [r \in names |-> room(r).exits],
                   lit   |-> {r \in names : room(r).monitored},
                   lying |-> [r \in names |-> [k \in DOMAIN room(r).resources |-> <<r, k>>]],
                   attrs |-> [x \in objects |-> room(x[1]).resources[x[2]]]]
<1>1. WorldNew(rooms, start) =
        IF start \in names /\ \A r \in names : Range(room(r).exits) \subseteq names
        THEN new ELSE NoEstate
  BY DEF WorldNew
<1>2. SUFFICES ASSUME start \in names, \A r \in names : Range(room(r).exits) \subseteq names
               PROVE  Furnished(new)
  <2> HIDE DEF names, room, new
  <2> QED
    BY <1>1, NoEstateFurnished
<1>3. ASSUME NEW r \in names
      PROVE  \E m \in Nat : DOMAIN room(r).resources = 1..m
  <2>1. PICK n \in Nat :
          /\ DOMAIN rooms = 1..n
          /\ \A i \in 1..n : \E m \in Nat : DOMAIN rooms[i].resources = 1..m
    BY DEF RoomList
  <2>2. /\ index(r) \in SUBSET Nat /\ index(r) # {} /\ index(r) \subseteq 1..n
        /\ \A k \in index(r) : k <= n
    BY <2>1
  <2> HIDE DEF index
  <2>3. Max(index(r)) \in 1..n
    BY <2>2, MaxIsIn
  <2> QED
    BY <2>1, <2>3
<1>4. /\ new.rooms = names /\ new.start = start
      /\ new.exits = [r \in names |-> room(r).exits]
      /\ new.lying = [r \in names |-> [k \in DOMAIN room(r).resources |-> <<r, k>>]]
      /\ new.lit \subseteq names
  OBVIOUS
<1>4a. IsFiniteSet(names)
  <2>1. PICK n \in Nat : DOMAIN rooms = 1..n
    BY DEF RoomList
  <2>2. [i \in 1..n |-> rooms[i].name] \in Surjection(1..n, names)
    BY <2>1 DEF Surjection
  <2> QED
    BY <2>2, FS_Interval, FS_Surjection
<1> HIDE DEF names, room, new
<1>5. \A r \in names : \A d \in DOMAIN new.exits[r] : new.exits[r][d] \in names
  BY <1>2, <1>4 DEF Range
<1>6. ASSUME NEW r \in names
      PROVE  new.lying[r] \in Seq(names \X Nat)
  <2>1. PICK m \in Nat : DOMAIN room(r).resources = 1..m
    BY <1>3
  <2>2. new.lying[r] = [k \in 1..m |-> <<r, k>>]
    BY <1>4, <2>1
  <2>3. [k \in 1..m |-> <<r, k>>] \in [1..m -> names \X Nat]
    OBVIOUS
  <2> QED
    BY <2>2, <2>3, SeqDef
<1>7. new.lying \in [names -> Seq(names \X Nat)]
  BY <1>4, <1>6
<1>8. \A r \in names : \A k \in DOMAIN new.lying[r] : new.lying[r][k] = <<r, k>>
  BY <1>4
<1> QED
  BY <1>2, <1>4, <1>5, <1>7, <1>8, <1>4a DEF Furnished

LEMMA FixedFurnished == RoomList(FixedRooms)
<1>1. DOMAIN FixedRooms = 1..5
  BY DEF FixedRooms
<1>2. /\ DOMAIN FixedRooms[1].resources = 1..1
      /\ DOMAIN FixedRooms[2].resources = 1..2
      /\ DOMAIN FixedRooms[3].resources = 1..2
      /\ DOMAIN FixedRooms[4].resources = 1..1
      /\ DOMAIN FixedRooms[5].resources = 1..1
  BY DEF FixedRooms, NewRoom
<1>3. \A i \in 1..5 : i = 1 \/ i = 2 \/ i = 3 \/ i = 4 \/ i = 5
  OBVIOUS
<1> QED
  BY <1>1, <1>2, <1>3 DEF RoomList

LEMMA GeneratedFurnished ==
  ASSUME NEW size \in [resource_groups : Nat, resources_per_group : Nat], NEW draw
  PROVE  RoomList(GeneratedRooms(size, draw))
<1> DEFINE n == Max({size.resource_groups, 1})
           gen == GeneratedRooms(size, draw)
<1>1. n \in {size.resource_groups, 1}
  <2> DEFINE T == {size.resource_groups, 1}
  <2>1. /\ T \in SUBSET Nat /\ T # {} /\ size.resource_groups + 1 \in Nat
        /\ \A k \in T : k <= size.resource_groups + 1
    OBVIOUS
  <2> HIDE DEF T
  <2>2. Max(T) \in T
    BY <2>1, MaxIsIn
  <2> QED
    BY <2>2 DEF T
<1>2. n \in Nat /\ size.resources_per_group \in Nat
  BY <1>1
<1>3. DOMAIN gen = 1..n /\ \A k \in 1..n :
        gen[k].resources = [j \in 1..size.resources_per_group |-> draw[k][j]]
  BY DEF GeneratedRooms, NewRoom
<1>4. \A k \in 1..n : DOMAIN gen[k].resources = 1..size.resources_per_group
  BY <1>3
<1> QED
  BY <1>2, <1>3, <1>4 DEF RoomList

LEMMA AzFurnished ==
  ASSUME NEW listed \in Seq(STRING), NEW contents,
         \A i \in DOMAIN listed : contents[listed[i]] \in {Unavailable} \cup Seq(STRING)
  PROVE  RoomList(AzRooms(listed, contents))
<1> DEFINE n == Min({Len(listed), MaxRooms})
           groups == SubSeq(listed, 1, n)
           az == AzRooms(listed, contents)
<1>1. n \in Nat /\ n <= Len(listed)
  <2> DEFINE T == {Len(listed), MaxRooms}
  <2>1. T \in SUBSET Nat /\ T # {}
    BY EstateAssumption
  <2> HIDE DEF T
  <2>2. Min(T) \in T /\ \A k \in T : Min(T) <= k
    BY <2>1, LeastElement DEF Min
  <2> QED
    BY <2>1, <2>2 DEF T
<1>2. /\ DOMAIN groups = 1..n
      /\ \A i \in 1..n : groups[i] = listed[i]
  <2> HIDE DEF n
  <2>1. \A i \in 1..n : listed[i] \in STRING
    BY <1>1
  <2>2. /\ groups \in Seq(STRING) /\ Len(groups) = IF 1 <= n THEN n - 1 + 1 ELSE 0
        /\ \A i \in 1..(n - 1 + 1) : groups[i] = listed[1 + i - 1]
    BY <1>1, <2>1, SubSeqProperties
  <2>3. Len(groups) = n /\ n - 1 + 1 = n
    BY <1>1, <2>2
  <2> QED
    BY <1>1, <2>2, <2>3
<1>3. DOMAIN az = DOMAIN groups /\ \A i \in DOMAIN groups :
        az[i].resources = IF i > MaxResourceRooms \/ contents[groups[i]] = Unavailable THEN << >>
                          ELSE [k \in DOMAIN contents[groups[i]] |-> Plain(contents[groups[i]][k])]
  BY DEF AzRooms, NewRoom
<1> HIDE DEF n, groups, az
<1>4. ASSUME NEW i \in 1..n PROVE \E m \in Nat : DOMAIN az[i].resources = 1..m
  <2>1. contents[groups[i]] = Unavailable \/ contents[groups[i]] \in Seq(STRING)
    BY <1>1, <1>2
  <2>2. CASE az[i].resources = << >>
    <3>1. DOMAIN << >> = 1..0
      OBVIOUS
    <3> QED
      BY <2>2, <3>1
  <2>3. CASE /\ contents[groups[i]] \in Seq(STRING)
             /\ DOMAIN az[i].resources = DOMAIN contents[groups[i]]
    BY <2>3
  <2>4. az[i].resources = << >> \/ DOMAIN az[i].resources = DOMAIN contents[groups[i]]
    BY <1>2, <1>3
  <2>5. contents[groups[i]] = Unavailable => az[i].resources = << >>
    BY <1>2, <1>3
  <2> QED
    BY <2>1, <2>2, <2>3, <2>4, <2>5
<1> QED
  BY <1>1, <1>2, <1>3, <1>4 DEF RoomList, az

LEMMA WorldFurnished ==
  ASSUME NEW l \in Launches
  PROVE  Furnished(BuildWorld(l))
<1>1. IsLaunch(l)
  BY WorldAssumption
<1>2. CASE IsLive(l.id) /\ (l.listed = Unavailable \/ l.listed = << >>)
  BY <1>2, NoEstateFurnished DEF BuildWorld
<1>3. CASE IsLive(l.id) /\ ~(l.listed = Unavailable \/ l.listed = << >>)
  BY <1>1, <1>3, AzFurnished, WorldNewFurnished DEF BuildWorld, IsLaunch
<1>4. CASE ~IsLive(l.id) /\ l.size \in {Unset, Invalid}
  BY <1>4, FixedFurnished, WorldNewFurnished DEF BuildWorld
<1>5. CASE ~IsLive(l.id) /\ l.size \notin {Unset, Invalid}
  BY <1>1, <1>5, GeneratedFurnished, WorldNewFurnished DEF BuildWorld, IsLaunch
<1> QED
  BY <1>2, <1>3, <1>4, <1>5

LEMMA InitIInv == Init => IInv
<1> SUFFICES ASSUME Init PROVE IInv
  OBVIOUS
<1>1. Furnished(estate)
  BY WorldFurnished DEF Init
<1>2. << >> \in Seq(Items) /\ DOMAIN << >> = {}
  BY EmptySeq
<1>3. TypeOK
  <2>1. phase \in {"prompt", "over"} /\ game_over = FALSE /\ warned = FALSE
    BY DEF Init
  <2>2. darkness_streak \in 0..StreakCap /\ inventory \in Seq(Items)
    BY <1>2 DEF Init, StreakCap
  <2>3. Rooms # {} => resources \in [Rooms -> Seq(Items)]
    BY <1>1 DEF Init, Furnished, Rooms, Items
  <2> QED
    BY <2>1, <2>2, <2>3 DEF TypeOK
<1>4. Placed
  BY <1>1 DEF Init, Placed, Furnished, Rooms
<1>5. Warned
  BY DEF Init, Warned
<1>6. \A r \in Rooms : \A k \in DOMAIN resources[r] : resources[r][k] = <<r, k>>
  BY <1>1 DEF Init, Furnished, Rooms
<1>7. \A r \in Rooms : IsInjective(resources[r])
  BY <1>6 DEF IsInjective
<1>8. \A r, s \in Rooms : r # s => Range(resources[r]) \cap Range(resources[s]) = {}
  BY <1>6 DEF Range
<1>9. IsInjective(inventory) /\ Range(inventory) = {}
  BY <1>2 DEF Init, IsInjective, Range
<1>10. EachInOnePlace
  BY <1>7, <1>8, <1>9 DEF EachInOnePlace
<1> QED
  BY <1>3, <1>4, <1>5, <1>10 DEF IInv

-----------------------------------------------------------------------------
(* The world can be wandered *)

\* Quotient and remainder, and what a step along a row or a column does to them.
LEMMA RemainderRange ==
  ASSUME NEW w \in Nat \ {0}, NEW i \in Nat
  PROVE  i % w \in 0..(w - 1)
OBVIOUS

LEMMA QuotientIsNat ==
  ASSUME NEW w \in Nat \ {0}, NEW i \in Nat
  PROVE  i \div w \in Nat
OBVIOUS

LEMMA Division ==
  ASSUME NEW w \in Nat \ {0}, NEW i \in Nat
  PROVE  i = w * (i \div w) + (i % w)
OBVIOUS

LEMMA DivisionUnique ==
  ASSUME NEW w \in Nat \ {0}, NEW q \in Nat, NEW r \in 0..(w - 1)
  PROVE  (w * q + r) % w = r /\ (w * q + r) \div w = q
OBVIOUS

LEMMA OneFurther ==
  ASSUME NEW w \in Nat \ {0}, NEW i \in Nat, (i % w) + 1 < w
  PROVE  (i + 1) % w = (i % w) + 1
<1> DEFINE q == i \div w
           r == i % w
<1>1. i = w * q + r /\ q \in Nat /\ r \in 0..(w - 1)
  BY RemainderRange, QuotientIsNat, Division
<1>2. r + 1 \in 0..(w - 1) /\ i + 1 = w * q + (r + 1)
  BY <1>1
<1> HIDE DEF q, r
<1>3. (w * q + (r + 1)) % w = r + 1
  BY <1>1, <1>2, DivisionUnique
<1> QED
  BY <1>2, <1>3 DEF r

LEMMA OneBack ==
  ASSUME NEW w \in Nat \ {0}, NEW i \in Nat, i % w > 0
  PROVE  i - 1 \in Nat /\ (i - 1) % w = (i % w) - 1
<1> DEFINE q == i \div w
           r == i % w
<1>1. i = w * q + r /\ q \in Nat /\ r \in 0..(w - 1) /\ r > 0
  BY RemainderRange, QuotientIsNat, Division
<1> HIDE DEF q, r
<1>2. r - 1 \in 0..(w - 1) /\ i - 1 = w * q + (r - 1) /\ w * q \in Nat
  BY <1>1
<1>3. (w * q + (r - 1)) % w = r - 1
  BY <1>1, <1>2, DivisionUnique
<1>4. i - 1 \in Nat
  BY <1>1, <1>2
<1> QED
  BY <1>2, <1>3, <1>4 DEF r

LEMMA OneDown ==
  ASSUME NEW w \in Nat \ {0}, NEW i \in Nat
  PROVE  i + w \in Nat /\ (i + w) \div w = (i \div w) + 1
<1> DEFINE q == i \div w
           r == i % w
<1>1. i = w * q + r /\ q \in Nat /\ r \in 0..(w - 1)
  BY RemainderRange, QuotientIsNat, Division
<1> HIDE DEF q, r
<1>2. q + 1 \in Nat /\ i + w = w * (q + 1) + r
  BY <1>1
<1>3. (w * (q + 1) + r) \div w = q + 1
  BY <1>1, <1>2, DivisionUnique
<1> QED
  BY <1>2, <1>3 DEF q

LEMMA OneUp ==
  ASSUME NEW w \in Nat \ {0}, NEW i \in Nat, i \div w > 0
  PROVE  i - w \in Nat
<1> DEFINE q == i \div w
           r == i % w
<1>1. i = w * q + r /\ q \in Nat /\ r \in 0..(w - 1) /\ q > 0
  BY RemainderRange, QuotientIsNat, Division
<1> HIDE DEF q, r
<1>2. w * q >= w /\ w * q \in Nat
  BY <1>1
<1> QED
  BY <1>1, <1>2

\* A list of rooms that makes a world fit to be wandered: each has a name of its
\* own, the first is lit, a way leads back from behind each door, and to every
\* other room there is a door in a room before it.
Wandered(rooms) ==
  /\ \E n \in Nat \ {0} : DOMAIN rooms = 1..n
  /\ \A i, j \in DOMAIN rooms : rooms[i].name = rooms[j].name => i = j
  /\ rooms[1].monitored
  /\ \A i \in DOMAIN rooms : \A d \in DOMAIN rooms[i].exits :
       \E j \in DOMAIN rooms :
         /\ rooms[i].exits[d] = rooms[j].name
         /\ Opposite[d] \in DOMAIN rooms[j].exits
         /\ rooms[j].exits[Opposite[d]] = rooms[i].name
  /\ \A i \in DOMAIN rooms \ {1} : \E j \in DOMAIN rooms :
       j < i /\ rooms[i].name \in Range(rooms[j].exits)

\* EstateSound, of the world e.
Sound(e) ==
  /\ e # NoEstate
  /\ e.start \in e.lit
  /\ \A r \in e.rooms : \A d \in DOMAIN e.exits[r] :
       LET beyond == e.exits[e.exits[r][d]]
       IN  Opposite[d] \in DOMAIN beyond /\ beyond[Opposite[d]] = r
  /\ \A cut \in SUBSET (e.rooms \ {e.start}) :
       cut # {} => \E r \in e.rooms \ cut : Range(e.exits[r]) \cap cut # {}

LEMMA MaxOfOne ==
  ASSUME NEW i \in Nat
  PROVE  Max({i}) = i
<1>1. Max({i}) \in {i}
  <2> DEFINE T == {i}
  <2>1. T \in SUBSET Nat /\ T # {} /\ \A k \in T : k <= i
    OBVIOUS
  <2> HIDE DEF T
  <2> QED
    BY <2>1, MaxIsIn DEF T
<1> QED
  BY <1>1

\* World::new accepts such a list, and its world is sound.
LEMMA WanderedIsSound ==
  ASSUME NEW rooms, Wandered(rooms)
  PROVE  Sound(WorldNew(rooms, rooms[1].name))
<1> DEFINE names   == {rooms[i].name : i \in DOMAIN rooms}
           index(r) == {i \in DOMAIN rooms : rooms[i].name = r}
           room(r) == rooms[Max(index(r))]
           objects == UNION {{r} \X DOMAIN room(r).resources : r \in names}
           start == rooms[1].name
           new == [rooms |-> names, start |-> start,
                   exits |-> [r \in names |-> room(r).exits],
                   lit   |-> {r \in names : room(r).monitored},
                   lying |-> [r \in names |-> [k \in DOMAIN room(r).resources |-> <<r, k>>]],
                   attrs |-> [x \in objects |-> room(x[1]).resources[x[2]]]]
<1>1. WorldNew(rooms, start) =
        IF start \in names /\ \A r \in names : Range(room(r).exits) \subseteq names
        THEN new ELSE NoEstate
  BY DEF WorldNew
<1>2. PICK n \in Nat \ {0} : DOMAIN rooms = 1..n
  BY DEF Wandered
<1>3. ASSUME NEW i \in DOMAIN rooms PROVE room(rooms[i].name) = rooms[i]
  <2>1. index(rooms[i].name) = {i} /\ i \in Nat
    BY <1>2 DEF Wandered
  <2> HIDE DEF index
  <2> QED
    BY <2>1, MaxOfOne
<1>4. 1 \in DOMAIN rooms
  BY <1>2
<1>5. start \in names
  BY <1>4
<1> HIDE DEF room
<1>6. ASSUME NEW r \in names PROVE Range(room(r).exits) \subseteq names
  <2>1. PICK i \in DOMAIN rooms : r = rooms[i].name
    OBVIOUS
  <2>2. \A d \in DOMAIN rooms[i].exits : \E j \in DOMAIN rooms : rooms[i].exits[d] = rooms[j].name
    BY DEF Wandered
  <2> QED
    BY <1>3, <2>1, <2>2 DEF Range
<1>7. /\ new.rooms = names /\ new.start = start
      /\ new.exits = [r \in names |-> room(r).exits]
      /\ new.lit = {r \in names : room(r).monitored}
  OBVIOUS
<1>8. WorldNew(rooms, start) = new
  <2> HIDE DEF new, names, start
  <2> QED
    BY <1>1, <1>5, <1>6
<1> HIDE DEF new
<1>9. new # NoEstate
  <2>1. new.rooms # NoEstate.rooms
    BY <1>5, <1>7 DEF NoEstate
  <2> QED
    BY <2>1
<1>10. new.start \in new.lit
  <2>1. room(start) = rooms[1]
    BY <1>3, <1>4
  <2> QED
    BY <1>5, <1>7, <2>1 DEF Wandered
<1>11. \A i \in DOMAIN rooms : new.exits[rooms[i].name] = rooms[i].exits
  BY <1>3, <1>7
<1>12. ASSUME NEW r \in new.rooms, NEW d \in DOMAIN new.exits[r]
       PROVE  LET beyond == new.exits[new.exits[r][d]]
              IN  Opposite[d] \in DOMAIN beyond /\ beyond[Opposite[d]] = r
  <2>1. PICK i \in DOMAIN rooms : r = rooms[i].name
    BY <1>7
  <2>2. d \in DOMAIN rooms[i].exits /\ new.exits[r] = rooms[i].exits
    BY <1>11, <2>1
  <2>3. PICK j \in DOMAIN rooms :
          /\ rooms[i].exits[d] = rooms[j].name
          /\ Opposite[d] \in DOMAIN rooms[j].exits
          /\ rooms[j].exits[Opposite[d]] = rooms[i].name
    BY <2>2 DEF Wandered
  <2>4. new.exits[new.exits[r][d]] = rooms[j].exits
    BY <1>11, <2>2, <2>3
  <2> QED
    BY <2>1, <2>3, <2>4
<1>13. ASSUME NEW cut \in SUBSET (new.rooms \ {new.start}), cut # {}
       PROVE  \E r \in new.rooms \ cut : Range(new.exits[r]) \cap cut # {}
  <2> DEFINE places == {i \in DOMAIN rooms : rooms[i].name \in cut}
  <2>1. places \in SUBSET Nat /\ places # {}
    BY <1>2, <1>7, <1>13
  <2>2. PICK i \in places : \A k \in places : i <= k
    BY <2>1, LeastElement
  <2>3. i \in DOMAIN rooms \ {1} /\ rooms[i].name \in cut
    BY <1>7
  <2>4. PICK j \in DOMAIN rooms : j < i /\ rooms[i].name \in Range(rooms[j].exits)
    BY <2>3 DEF Wandered
  <2>5. j \notin places
    BY <1>2, <2>2, <2>4
  <2>6. rooms[j].name \in new.rooms \ cut /\ new.exits[rooms[j].name] = rooms[j].exits
    BY <1>7, <1>11, <2>5
  <2> QED
    BY <2>3, <2>4, <2>6
<1> QED
  BY <1>8, <1>9, <1>10, <1>12, <1>13 DEF Sound

\* The hand-authored estate.
LEMMA FixedWandered == Wandered(FixedRooms)
<1>1. DOMAIN FixedRooms = 1..5
  BY DEF FixedRooms
<1>2. \A i \in 1..5 : i = 1 \/ i = 2 \/ i = 3 \/ i = 4 \/ i = 5
  OBVIOUS
<1>3. /\ FixedRooms[1].name = "landing-rg" /\ FixedRooms[2].name = "web-rg"
      /\ FixedRooms[3].name = "data-rg" /\ FixedRooms[4].name = "identity-rg"
      /\ FixedRooms[5].name = "unmon-rg" /\ FixedRooms[1].monitored
  BY DEF FixedRooms, NewRoom
<1>4. /\ FixedRooms[1].exits = [north |-> "web-rg", east |-> "data-rg", down |-> "identity-rg"]
      /\ FixedRooms[2].exits = [south |-> "landing-rg", north |-> "unmon-rg"]
      /\ FixedRooms[3].exits = [west |-> "landing-rg"]
      /\ FixedRooms[4].exits = [up |-> "landing-rg"]
      /\ FixedRooms[5].exits = [south |-> "web-rg"]
  BY DEF FixedRooms, NewRoom
<1> DEFINE Back(i, d, j) == /\ FixedRooms[i].exits[d] = FixedRooms[j].name
                            /\ Opposite[d] \in DOMAIN FixedRooms[j].exits
                            /\ FixedRooms[j].exits[Opposite[d]] = FixedRooms[i].name
<1>5. /\ DOMAIN FixedRooms[1].exits = {"north", "east", "down"}
      /\ DOMAIN FixedRooms[2].exits = {"south", "north"}
      /\ DOMAIN FixedRooms[3].exits = {"west"}
      /\ DOMAIN FixedRooms[4].exits = {"up"}
      /\ DOMAIN FixedRooms[5].exits = {"south"}
  BY <1>4
<1>6. /\ Opposite["north"] = "south" /\ Opposite["south"] = "north"
      /\ Opposite["east"] = "west" /\ Opposite["west"] = "east"
      /\ Opposite["up"] = "down" /\ Opposite["down"] = "up"
  BY DEF Opposite
<1>7. /\ Back(1, "north", 2) /\ Back(1, "east", 3) /\ Back(1, "down", 4)
      /\ Back(2, "south", 1) /\ Back(2, "north", 5)
      /\ Back(3, "west", 1) /\ Back(4, "up", 1) /\ Back(5, "south", 2)
  BY <1>3, <1>4, <1>5, <1>6
<1>8. /\ FixedRooms[2].name \in Range(FixedRooms[1].exits)
      /\ FixedRooms[3].name \in Range(FixedRooms[1].exits)
      /\ FixedRooms[4].name \in Range(FixedRooms[1].exits)
      /\ FixedRooms[5].name \in Range(FixedRooms[2].exits)
  BY <1>3, <1>4 DEF Range
<1> HIDE DEF Back
<1>9. \A i \in 1..5 : \A d \in DOMAIN FixedRooms[i].exits : \E j \in 1..5 : Back(i, d, j)
  BY <1>2, <1>5, <1>7
<1>10. \A i, j \in 1..5 : FixedRooms[i].name = FixedRooms[j].name => i = j
  BY <1>2, <1>3
<1>11. \A i \in 1..5 \ {1} : \E j \in 1..5 :
         j < i /\ FixedRooms[i].name \in Range(FixedRooms[j].exits)
  <2>1. \A i \in 1..5 \ {1} : i = 2 \/ i = 3 \/ i = 4 \/ i = 5
    OBVIOUS
  <2> QED
    BY <1>8, <2>1
<1>12. 5 \in Nat \ {0}
  OBVIOUS
<1> QED
  BY <1>1, <1>3, <1>9, <1>10, <1>11, <1>12 DEF Wandered, Back

\* Generated ones, of any size: a door and the door back, by the arithmetic of
\* the grid.
LEMMA GridWidthPositive ==
  ASSUME NEW n \in Nat \ {0}
  PROVE  GridWidth(n) \in Nat \ {0}
<1> DEFINE wide == {w \in 1..n : w * w >= n}
<1>1. n * n >= n
  OBVIOUS
<1>2. wide \in SUBSET Nat /\ wide # {}
  <2>1. n \in 1..n
    OBVIOUS
  <2>2. n \in wide
    BY <1>1, <2>1, Zenon
  <2>3. wide \in SUBSET Nat
    OBVIOUS
  <2> HIDE DEF wide
  <2> QED
    BY <2>2, <2>3
<1>3. PICK w \in wide : \A k \in wide : w <= k
  BY <1>2, LeastElement
<1>4. (w - 1) * (w - 1) < n
  <2>1. CASE w = 1
    BY <2>1
  <2>2. CASE w # 1
    <3>1. w - 1 \in 1..n /\ w - 1 \notin wide
      BY <1>3, <2>2
    <3>2. ~((w - 1) * (w - 1) >= n)
      BY <3>1
    <3> QED
      BY <3>1, <3>2
  <2> QED
    BY <2>1, <2>2
<1>5. \E v \in 1..n : v * v >= n /\ (v - 1) * (v - 1) < n
  BY <1>4
<1>6. GridWidth(n) \in 1..n
  BY <1>5 DEF GridWidth
<1> QED
  BY <1>6

LEMMA GridDoors ==
  ASSUME NEW n \in Nat \ {0}, NEW i \in 0..(n - 1)
  PROVE  /\ \A d \in DOMAIN Grid(i, n) : \E j \in 0..(n - 1) :
              /\ Grid(i, n)[d] = RoomName(j)
              /\ Opposite[d] \in DOMAIN Grid(j, n)
              /\ Grid(j, n)[Opposite[d]] = RoomName(i)
         /\ i # 0 => \E j \in 0..(n - 1) : j < i /\ RoomName(i) \in Range(Grid(j, n))
<1> DEFINE w == GridWidth(n)
<1>1. w \in Nat \ {0}
  BY GridWidthPositive
<1>2. ASSUME NEW k \in 0..(n - 1)
      PROVE  /\ DOMAIN Grid(k, n) \subseteq {"east", "west", "south", "north"}
             /\ "east"  \in DOMAIN Grid(k, n) <=> (k % w) + 1 < w /\ k + 1 < n
             /\ "west"  \in DOMAIN Grid(k, n) <=> k % w > 0
             /\ "south" \in DOMAIN Grid(k, n) <=> k + w < n
             /\ "north" \in DOMAIN Grid(k, n) <=> k \div w > 0
             /\ "east"  \in DOMAIN Grid(k, n) => Grid(k, n)["east"]  = RoomName(k + 1)
             /\ "west"  \in DOMAIN Grid(k, n) => Grid(k, n)["west"]  = RoomName(k - 1)
             /\ "south" \in DOMAIN Grid(k, n) => Grid(k, n)["south"] = RoomName(k + w)
             /\ "north" \in DOMAIN Grid(k, n) => Grid(k, n)["north"] = RoomName(k - w)
  <2> DEFINE open == [east |-> (k % w) + 1 < w /\ k + 1 < n, west |-> k % w > 0,
                      south |-> k + w < n, north |-> k \div w > 0]
  <2>1. Grid(k, n) = [d \in {e \in DOMAIN open : open[e]} |-> RoomName(Beside(k, w)[d])]
    BY DEF Grid
  <2>2. DOMAIN Grid(k, n) = {e \in {"east", "west", "south", "north"} : open[e]}
    BY <2>1
  <2>3. \A d \in DOMAIN Grid(k, n) : Grid(k, n)[d] = RoomName(Beside(k, w)[d])
    BY <2>1
  <2>4. /\ open["east"] <=> (k % w) + 1 < w /\ k + 1 < n
        /\ open["west"] <=> k % w > 0
        /\ open["south"] <=> k + w < n
        /\ open["north"] <=> k \div w > 0
    OBVIOUS
  <2> HIDE DEF open, w
  <2>5. /\ Beside(k, w)["east"] = k + 1 /\ Beside(k, w)["west"] = k - 1
        /\ Beside(k, w)["south"] = k + w /\ Beside(k, w)["north"] = k - w
    BY DEF Beside
  <2> QED
    BY <2>2, <2>3, <2>4, <2>5
<1>3. /\ Opposite["north"] = "south" /\ Opposite["south"] = "north"
      /\ Opposite["east"] = "west" /\ Opposite["west"] = "east"
  BY DEF Opposite
<1> HIDE DEF w
<1> DEFINE Back(d, j) == /\ Grid(i, n)[d] = RoomName(j)
                         /\ Opposite[d] \in DOMAIN Grid(j, n)
                         /\ Grid(j, n)[Opposite[d]] = RoomName(i)
<1>4. i \in Nat
  OBVIOUS
<1>5. ASSUME "east" \in DOMAIN Grid(i, n) PROVE i + 1 \in 0..(n - 1) /\ Back("east", i + 1)
  <2>1. i + 1 \in 0..(n - 1) /\ (i + 1) % w = (i % w) + 1 /\ i % w \in Nat
    <3>1. (i % w) + 1 < w /\ i + 1 < n
      BY <1>2, <1>5
    <3>2. (i + 1) % w = (i % w) + 1 /\ i % w \in 0..(w - 1)
      BY <1>1, <1>4, <3>1, OneFurther, RemainderRange
    <3> QED
      BY <1>1, <1>4, <3>1, <3>2
  <2>2. "west" \in DOMAIN Grid(i + 1, n) /\ Grid(i + 1, n)["west"] = RoomName((i + 1) - 1)
    BY <1>2, <2>1
  <2>3. (i + 1) - 1 = i
    OBVIOUS
  <2> QED
    BY <1>2, <1>3, <1>5, <2>1, <2>2, <2>3
<1>6. ASSUME "west" \in DOMAIN Grid(i, n)
      PROVE  /\ i - 1 \in 0..(n - 1) /\ Back("west", i - 1)
             /\ RoomName(i) \in Range(Grid(i - 1, n))
  <2>1. i - 1 \in Nat /\ (i - 1) % w = (i % w) - 1 /\ i % w \in 0..(w - 1)
    BY <1>1, <1>2, <1>4, <1>6, OneBack, RemainderRange
  <2>2. i - 1 \in 0..(n - 1) /\ ((i - 1) % w) + 1 < w /\ (i - 1) + 1 < n /\ (i - 1) + 1 = i
    BY <1>1, <2>1
  <2>3. "east" \in DOMAIN Grid(i - 1, n) /\ Grid(i - 1, n)["east"] = RoomName(i)
    BY <1>2, <2>2
  <2> QED
    BY <1>2, <1>3, <1>6, <2>2, <2>3 DEF Range
<1>7. ASSUME "south" \in DOMAIN Grid(i, n) PROVE i + w \in 0..(n - 1) /\ Back("south", i + w)
  <2>1. i + w \in 0..(n - 1) /\ (i + w) \div w = (i \div w) + 1 /\ i \div w \in Nat
    <3>1. i + w < n
      BY <1>2, <1>7
    <3>2. (i + w) \div w = (i \div w) + 1 /\ i \div w \in Nat /\ i + w \in Nat
      BY <1>1, <1>4, OneDown, QuotientIsNat
    <3> QED
      BY <1>1, <3>1, <3>2
  <2>2. "north" \in DOMAIN Grid(i + w, n) /\ Grid(i + w, n)["north"] = RoomName((i + w) - w)
    BY <1>2, <2>1
  <2>3. (i + w) - w = i
    BY <1>1
  <2> QED
    BY <1>2, <1>3, <1>7, <2>1, <2>2, <2>3
<1>8. ASSUME "north" \in DOMAIN Grid(i, n)
      PROVE  /\ i - w \in 0..(n - 1) /\ i - w < i /\ Back("north", i - w)
             /\ RoomName(i) \in Range(Grid(i - w, n))
  <2>1. i - w \in Nat
    BY <1>1, <1>2, <1>4, <1>8, OneUp
  <2>2. i - w \in 0..(n - 1) /\ (i - w) + w < n /\ (i - w) + w = i /\ i - w < i
    BY <1>1, <2>1
  <2>3. "south" \in DOMAIN Grid(i - w, n) /\ Grid(i - w, n)["south"] = RoomName(i)
    BY <1>2, <2>2
  <2> QED
    BY <1>2, <1>3, <1>8, <2>2, <2>3 DEF Range
<1> HIDE DEF Back
<1>9. ASSUME NEW d \in DOMAIN Grid(i, n) PROVE \E j \in 0..(n - 1) : Back(d, j)
  <2>1. d \in {"east", "west", "south", "north"}
    BY <1>2
  <2> QED
    BY <1>5, <1>6, <1>7, <1>8, <2>1
<1>10. ASSUME i # 0
       PROVE  \E j \in 0..(n - 1) : j < i /\ RoomName(i) \in Range(Grid(j, n))
  <2>1. CASE "west" \in DOMAIN Grid(i, n)
    <3>1. i - 1 < i
      OBVIOUS
    <3> QED
      BY <1>6, <2>1, <3>1
  <2>2. CASE "north" \in DOMAIN Grid(i, n)
    BY <1>8, <2>2
  <2>3. "west" \in DOMAIN Grid(i, n) \/ "north" \in DOMAIN Grid(i, n)
    <3>1. i % w \in Nat /\ i \div w \in Nat /\ i = w * (i \div w) + (i % w)
      BY <1>1, <1>4, RemainderRange, QuotientIsNat, Division
    <3>2. CASE i % w > 0
      BY <1>2, <3>2
    <3>3. CASE i \div w > 0
      BY <1>2, <3>3
    <3>4. CASE i % w = 0 /\ i \div w = 0
      <4>1. w * 0 + 0 = 0
        BY <1>1
      <4> QED
        BY <1>10, <3>1, <3>4, <4>1
    <3> QED
      BY <3>1, <3>2, <3>3, <3>4
  <2> QED
    BY <2>1, <2>2, <2>3
<1> QED
  BY <1>9, <1>10 DEF Back

LEMMA SizeIsNat ==
  ASSUME NEW size \in [resource_groups : Nat, resources_per_group : Nat]
  PROVE  Max({size.resource_groups, 1}) \in Nat \ {0}
<1> DEFINE T == {size.resource_groups, 1}
<1>1. /\ T \in SUBSET Nat /\ T # {} /\ size.resource_groups + 1 \in Nat
      /\ \A k \in T : k <= size.resource_groups + 1
  OBVIOUS
<1>2. 1 \in T
  OBVIOUS
<1> HIDE DEF T
<1>3. Max(T) \in T /\ Max(T) >= 1
  BY <1>1, <1>2, MaxIsIn
<1> QED
  BY <1>1, <1>3 DEF T

LEMMA GeneratedWandered ==
  ASSUME NEW size \in [resource_groups : Nat, resources_per_group : Nat], NEW draw
  PROVE  /\ Wandered(GeneratedRooms(size, draw))
         /\ GeneratedRooms(size, draw)[1].name = RoomName(0)
<1> DEFINE n == Max({size.resource_groups, 1})
           gen == GeneratedRooms(size, draw)
<1>1. n \in Nat \ {0}
  BY SizeIsNat
<1>2. /\ DOMAIN gen = 1..n
      /\ \A k \in 1..n : /\ gen[k].name = RoomName(k - 1) /\ gen[k].exits = Grid(k - 1, n)
                         /\ gen[k].monitored = (k = 1 \/ (k - 1) % DarkPeriod # 0)
  BY DEF GeneratedRooms, NewRoom
<1> HIDE DEF n, gen
<1>3. \A k \in 1..n : k - 1 \in 0..(n - 1)
  BY <1>1
<1>4. \A j \in 0..(n - 1) : j + 1 \in 1..n /\ gen[j + 1].name = RoomName(j)
                                         /\ gen[j + 1].exits = Grid(j, n)
  <2>1. \A j \in 0..(n - 1) : j + 1 \in 1..n /\ (j + 1) - 1 = j
    BY <1>1
  <2> QED
    BY <1>2, <2>1
<1>5. \A i, j \in 1..n : gen[i].name = gen[j].name => i = j
  <2>1. \A i, j \in 1..n : RoomName(i - 1) = RoomName(j - 1) => i - 1 = j - 1
    BY DEF RoomName
  <2> QED
    BY <1>2, <2>1
<1>6. gen[1].monitored /\ gen[1].name = RoomName(0)
  <2>1. 1 \in 1..n /\ 1 - 1 = 0
    BY <1>1
  <2> QED
    BY <1>2, <2>1
<1>7. ASSUME NEW i \in 1..n, NEW d \in DOMAIN gen[i].exits
      PROVE  \E j \in 1..n : /\ gen[i].exits[d] = gen[j].name
                             /\ Opposite[d] \in DOMAIN gen[j].exits
                             /\ gen[j].exits[Opposite[d]] = gen[i].name
  <2>1. gen[i].exits = Grid(i - 1, n) /\ gen[i].name = RoomName(i - 1) /\ i - 1 \in 0..(n - 1)
    BY <1>2, <1>3
  <2>2. PICK j \in 0..(n - 1) : /\ Grid(i - 1, n)[d] = RoomName(j)
                                /\ Opposite[d] \in DOMAIN Grid(j, n)
                                /\ Grid(j, n)[Opposite[d]] = RoomName(i - 1)
    BY <1>1, <2>1, GridDoors
  <2> QED
    BY <1>4, <2>1, <2>2
<1>8. ASSUME NEW i \in 1..n \ {1}
      PROVE  \E j \in 1..n : j < i /\ gen[i].name \in Range(gen[j].exits)
  <2>1. gen[i].name = RoomName(i - 1) /\ i - 1 \in 0..(n - 1) /\ i - 1 # 0
    BY <1>2, <1>3
  <2>2. PICK j \in 0..(n - 1) : j < i - 1 /\ RoomName(i - 1) \in Range(Grid(j, n))
    BY <1>1, <2>1, GridDoors
  <2>3. j + 1 \in 1..n /\ j + 1 < i /\ gen[j + 1].exits = Grid(j, n)
    BY <1>4, <2>2
  <2> QED
    BY <2>1, <2>2, <2>3
<1>9. Wandered(gen)
  <2>1. DOMAIN gen = 1..n
    BY <1>2
  <2>2. \A i, j \in DOMAIN gen : gen[i].name = gen[j].name => i = j
    BY <1>5, <2>1
  <2>3. \A i \in DOMAIN gen : \A d \in DOMAIN gen[i].exits :
          \E j \in DOMAIN gen : /\ gen[i].exits[d] = gen[j].name
                                /\ Opposite[d] \in DOMAIN gen[j].exits
                                /\ gen[j].exits[Opposite[d]] = gen[i].name
    BY <1>7, <2>1
  <2>4. \A i \in DOMAIN gen \ {1} : \E j \in DOMAIN gen :
          j < i /\ gen[i].name \in Range(gen[j].exits)
    BY <1>8, <2>1
  <2> QED
    BY <1>1, <1>6, <2>1, <2>2, <2>3, <2>4, Zenon DEF Wandered
<1> QED
  BY <1>6, <1>9 DEF gen


\* What az answers: a chain of rooms, that ends where the cap does.
LEMMA AzGroups ==
  ASSUME NEW listed \in Seq(STRING), listed # << >>
  PROVE  \E n \in Nat \ {0} :
           /\ n <= Len(listed) /\ n = Min({Len(listed), MaxRooms})
           /\ DOMAIN SubSeq(listed, 1, n) = 1..n
           /\ \A i \in 1..n : SubSeq(listed, 1, n)[i] = listed[i]
<1> DEFINE n == Min({Len(listed), MaxRooms})
           groups == SubSeq(listed, 1, n)
<1>1. n \in Nat \ {0} /\ n <= Len(listed)
  <2> DEFINE T == {Len(listed), MaxRooms}
  <2>1. T \in SUBSET Nat /\ T # {} /\ Len(listed) # 0
    BY EstateAssumption
  <2>2. Len(listed) \in T
    OBVIOUS
  <2> HIDE DEF T
  <2>3. Min(T) \in T /\ \A k \in T : Min(T) <= k
    BY <2>1, LeastElement DEF Min
  <2> QED
    BY <2>1, <2>2, <2>3, EstateAssumption DEF T
<1> HIDE DEF n
<1>2. \A i \in 1..n : listed[i] \in STRING
  BY <1>1
<1>3. /\ groups \in Seq(STRING) /\ Len(groups) = IF 1 <= n THEN n - 1 + 1 ELSE 0
      /\ \A i \in 1..(n - 1 + 1) : groups[i] = listed[1 + i - 1]
  BY <1>1, <1>2, SubSeqProperties
<1>4. Len(groups) = n /\ n - 1 + 1 = n /\ DOMAIN groups = 1..Len(groups)
  BY <1>1, <1>3
<1> QED
  BY <1>1, <1>3, <1>4 DEF n

LEMMA AzWandered ==
  ASSUME NEW listed \in Seq(STRING), NEW contents, listed # << >>, IsInjective(listed)
  PROVE  Wandered(AzRooms(listed, contents)) /\ AzRooms(listed, contents)[1].name = listed[1]
<1> DEFINE az == AzRooms(listed, contents)
           groups == SubSeq(listed, 1, Min({Len(listed), MaxRooms}))
           beside(i) == [south |-> i - 1, north |-> i + 1]
<1>1. PICK n \in Nat \ {0} :
        /\ n <= Len(listed) /\ n = Min({Len(listed), MaxRooms})
        /\ DOMAIN groups = 1..n /\ \A i \in 1..n : groups[i] = listed[i]
  BY AzGroups
<1>2. DOMAIN az = DOMAIN groups /\ \A i \in DOMAIN groups :
        /\ az[i].name = groups[i] /\ az[i].monitored
        /\ az[i].exits = [d \in {e \in DOMAIN beside(i) : beside(i)[e] \in DOMAIN groups} |->
                            groups[beside(i)[d]]]
  BY DEF AzRooms, NewRoom
<1> HIDE DEF az, groups
<1>3. ASSUME NEW i \in 1..n
      PROVE  /\ DOMAIN az[i].exits \subseteq {"south", "north"}
             /\ "south" \in DOMAIN az[i].exits <=> i - 1 \in 1..n
             /\ "north" \in DOMAIN az[i].exits <=> i + 1 \in 1..n
             /\ i - 1 \in 1..n => az[i].exits["south"] = az[i - 1].name
             /\ i + 1 \in 1..n => az[i].exits["north"] = az[i + 1].name
  <2>1. /\ DOMAIN beside(i) = {"south", "north"}
        /\ beside(i)["south"] = i - 1 /\ beside(i)["north"] = i + 1
    OBVIOUS
  <2>2. i \in DOMAIN groups /\ az[i].exits = [d \in {e \in DOMAIN beside(i) : beside(i)[e] \in DOMAIN groups} |->
                                               groups[beside(i)[d]]]
    BY <1>1, <1>2
  <2> HIDE DEF beside
  <2>3. /\ DOMAIN az[i].exits = {e \in DOMAIN beside(i) : beside(i)[e] \in DOMAIN groups}
        /\ \A d \in DOMAIN az[i].exits : az[i].exits[d] = groups[beside(i)[d]]
    BY <2>2
  <2>4. \A j \in 1..n : groups[j] = az[j].name
    BY <1>1, <1>2
  <2> QED
    BY <1>1, <2>1, <2>3, <2>4
<1> HIDE DEF beside
<1>4. \A i, j \in DOMAIN az : az[i].name = az[j].name => i = j
  <2>1. \A i, j \in 1..n : listed[i] = listed[j] => i = j
    BY <1>1 DEF IsInjective
  <2>2. DOMAIN az = 1..n /\ \A j \in 1..n : az[j].name = listed[j]
    BY <1>1, <1>2
  <2> QED
    BY <2>1, <2>2
<1>5. Opposite["north"] = "south" /\ Opposite["south"] = "north"
  BY DEF Opposite
<1> DEFINE Back(i, d, j) == /\ az[i].exits[d] = az[j].name
                            /\ Opposite[d] \in DOMAIN az[j].exits
                            /\ az[j].exits[Opposite[d]] = az[i].name
<1>6. DOMAIN az = 1..n
  BY <1>1, <1>2
<1>7. ASSUME NEW i \in DOMAIN az, NEW d \in DOMAIN az[i].exits
      PROVE  \E j \in DOMAIN az : Back(i, d, j)
  <2>1. CASE d = "south"
    <3>1. i - 1 \in 1..n /\ (i - 1) + 1 = i /\ i \in 1..n
      BY <1>3, <1>6, <2>1
    <3>2. "north" \in DOMAIN az[i - 1].exits /\ az[i - 1].exits["north"] = az[i].name
      BY <1>3, <3>1
    <3>3. Back(i, d, i - 1)
      BY <1>3, <1>5, <2>1, <3>1, <3>2
    <3> QED
      BY <1>6, <3>1, <3>3
  <2>2. CASE d = "north"
    <3>1. i + 1 \in 1..n /\ (i + 1) - 1 = i /\ i \in 1..n
      BY <1>3, <1>6, <2>2
    <3>2. "south" \in DOMAIN az[i + 1].exits /\ az[i + 1].exits["south"] = az[i].name
      BY <1>3, <3>1
    <3>3. Back(i, d, i + 1)
      BY <1>3, <1>5, <2>2, <3>1, <3>2
    <3> QED
      BY <1>6, <3>1, <3>3
  <2> QED
    BY <1>3, <1>6, <2>1, <2>2
<1>8. ASSUME NEW i \in DOMAIN az \ {1}
      PROVE  \E j \in DOMAIN az : j < i /\ az[i].name \in Range(az[j].exits)
  <2>1. i - 1 \in 1..n /\ (i - 1) + 1 = i /\ i - 1 < i /\ i \in 1..n
    BY <1>6
  <2>2. "north" \in DOMAIN az[i - 1].exits /\ az[i - 1].exits["north"] = az[i].name
    BY <1>3, <2>1
  <2> QED
    BY <1>6, <2>1, <2>2 DEF Range
<1>9. 1 \in 1..n /\ az[1].monitored /\ az[1].name = listed[1]
  <2>1. 1 \in 1..n /\ 1 \in DOMAIN groups
    BY <1>1
  <2>2. az[1].name = groups[1] /\ az[1].monitored
    BY <1>2, <2>1, Zenon
  <2> QED
    BY <1>1, <2>1, <2>2
<1>10. \A i \in DOMAIN az : \A d \in DOMAIN az[i].exits : \E j \in DOMAIN az :
         /\ az[i].exits[d] = az[j].name
         /\ Opposite[d] \in DOMAIN az[j].exits
         /\ az[j].exits[Opposite[d]] = az[i].name
  BY <1>7
<1>11. \A i \in DOMAIN az \ {1} : \E j \in DOMAIN az :
         j < i /\ az[i].name \in Range(az[j].exits)
  BY <1>8
<1>12. /\ \E m \in Nat \ {0} : DOMAIN az = 1..m
       /\ az[1].monitored
  BY <1>6, <1>9
<1>13. Wandered(az)
  BY <1>4, <1>10, <1>11, <1>12, Zenon DEF Wandered
<1> QED
  BY <1>9, <1>13 DEF az

\* az names no group twice: that is what a subscription is.
NoGroupTwice == \A l \in Launches : l.listed # Unavailable => IsInjective(l.listed)

LEMMA BuiltIsSound ==
  ASSUME NEW l \in Launches, NoGroupTwice
  PROVE  IF BuildWorld(l) = NoEstate THEN IsLive(l.id) /\ l.listed \in {Unavailable, << >>}
         ELSE Sound(BuildWorld(l))
<1>1. IsLaunch(l)
  BY WorldAssumption
<1>2. CASE IsLive(l.id) /\ l.listed \in {Unavailable, << >>}
  BY <1>2 DEF BuildWorld
<1>3. CASE IsLive(l.id) /\ l.listed \notin {Unavailable, << >>}
  <2>1. l.listed \in Seq(STRING) /\ IsInjective(l.listed)
    BY <1>1, <1>3 DEF IsLaunch, NoGroupTwice
  <2>2. BuildWorld(l) = WorldNew(AzRooms(l.listed, l.contents), l.listed[1])
    BY <1>3 DEF BuildWorld
  <2>3. Sound(BuildWorld(l))
    BY <1>3, <2>1, <2>2, AzWandered, WanderedIsSound
  <2> QED
    BY <2>3 DEF Sound
<1>4. CASE ~IsLive(l.id) /\ l.size \in {Unset, Invalid}
  <2>1. BuildWorld(l) = WorldNew(FixedRooms, "landing-rg")
    BY <1>4 DEF BuildWorld
  <2>2. FixedRooms[1].name = "landing-rg"
    BY DEF FixedRooms, NewRoom
  <2>3. Sound(BuildWorld(l))
    BY <2>1, <2>2, FixedWandered, WanderedIsSound
  <2> QED
    BY <2>3 DEF Sound
<1>5. CASE ~IsLive(l.id) /\ l.size \notin {Unset, Invalid}
  <2>1. BuildWorld(l) = WorldNew(GeneratedRooms(l.size, l.draw), RoomName(0))
    BY <1>5 DEF BuildWorld
  <2>2. l.size \in [resource_groups : Nat, resources_per_group : Nat]
    BY <1>1, <1>5 DEF IsLaunch
  <2>3. Sound(BuildWorld(l))
    BY <2>1, <2>2, GeneratedWandered, WanderedIsSound
  <2> QED
    BY <2>3 DEF Sound
<1> QED
  BY <1>2, <1>3, <1>4, <1>5

-----------------------------------------------------------------------------
(* The steps *)

\* The resources of the world, before a line and after it.
LEMMA WhereResourcesAre ==
  ASSUME Rooms' = Rooms, NEW x
  PROVE  /\ x \in AllResources <=>
              (\E r \in Rooms : x \in Range(resources[r])) \/ x \in Range(inventory)
         /\ x \in AllResources' <=>
              (\E r \in Rooms : x \in Range(resources'[r])) \/ x \in Range(inventory')
<1>1. AllResources = (UNION {Range(resources[r]) : r \in Rooms}) \cup Range(inventory)
  BY DEF AllResources
<1>2. AllResources' = (UNION {Range(resources'[r]) : r \in Rooms'}) \cup Range(inventory')
  BY DEF AllResources
<1> QED
  BY <1>1, <1>2

\* What a line leaves alone.
LEMMA LineKept ==
  ASSUME IInv, Line
  PROVE  /\ estate' = estate /\ Rooms' = Rooms /\ Items' = Items /\ phase' = "grue"
         /\ game_over' = game_over /\ game_over = FALSE /\ current \in Rooms
         /\ \A r \in Rooms : \A d \in DOMAIN estate'.exits[r] : estate'.exits[r][d] \in Rooms
         /\ inventory \in Seq(Items) /\ resources \in [Rooms -> Seq(Items)]
<1>1. estate' = estate /\ phase = "prompt" /\ phase' = "grue" /\ game_over' = game_over
  BY DEF Line, built
<1>2. Rooms' = Rooms /\ Items' = Items
  BY <1>1 DEF Rooms, Items
<1>3. game_over = FALSE /\ current \in Rooms
  BY <1>1 DEF IInv, TypeOK, Warned, Placed
<1> QED
  BY <1>1, <1>2, <1>3 DEF IInv, TypeOK, Placed

\* A line that moves nothing.
LEMMA StillLine ==
  ASSUME IInv, Line, UNCHANGED <<inventory, resources>>, current' \in Rooms,
         \/ UNCHANGED <<darkness_streak, warned>>
         \/ darkness_streak' = 0 /\ warned' = FALSE
  PROVE  IInv'
<1>0. /\ Rooms' = Rooms /\ Items' = Items /\ phase' = "grue" /\ estate' = estate
      /\ game_over' = FALSE /\ current \in Rooms
      /\ inventory \in Seq(Items) /\ resources \in [Rooms -> Seq(Items)]
      /\ TypeOK /\ Placed /\ Warned /\ EachInOnePlace
  BY LineKept DEF IInv
<1>1. TypeOK'
  <2>1. darkness_streak' \in 0..StreakCap
    BY <1>0 DEF TypeOK, StreakCap
  <2>3. warned' \in BOOLEAN
    BY <1>0, Zenon DEF TypeOK
  <2>2. inventory' \in Seq(Items') /\ resources' \in [Rooms' -> Seq(Items')]
    BY <1>0
  <2> QED
    BY <1>0, <2>1, <2>2, <2>3 DEF TypeOK
<1>2. Placed' /\ Warned'
  BY <1>0 DEF Placed, Warned, TypeOK
<1>3. EachInOnePlace'
  BY <1>0 DEF EachInOnePlace
<1> QED
  BY <1>1, <1>2, <1>3 DEF IInv

\* A line that takes a resource from the room, and perhaps adds it to what is
\* carried.
LEMMA TakeLine ==
  ASSUME IInv, Line, NEW i \in 1..Len(Here), UNCHANGED <<current, darkness_streak, warned>>,
         resources' = [resources EXCEPT ![current] = RemoveAt(@, i)],
         inventory' \in {inventory, Append(inventory, Here[i])}
  PROVE  IInv' /\ AllResources \ AllResources' \subseteq {Here[i]}
         /\ (inventory' # inventory => AllResources \subseteq AllResources')
<1>0. /\ Rooms' = Rooms /\ Items' = Items /\ phase' = "grue" /\ estate' = estate
      /\ game_over' = FALSE /\ current \in Rooms
      /\ inventory \in Seq(Items) /\ resources \in [Rooms -> Seq(Items)]
      /\ TypeOK /\ Placed /\ Warned /\ EachInOnePlace
  BY LineKept DEF IInv
<1> DEFINE rest == RemoveAt(Here, i)
<1>1. /\ Here \in Seq(Items) /\ IsInjective(Here) /\ Here[i] \in Items /\ Here[i] \in Range(Here)
      /\ Here[i] \notin Range(inventory)
  <2>1. Here \in Seq(Items) /\ DOMAIN Here = 1..Len(Here)
    BY <1>0 DEF Here
  <2>2. Here[i] \in Items /\ Here[i] \in Range(Here)
    BY <2>1 DEF Range
  <2>3. IsInjective(Here) /\ Range(Here) \cap Range(inventory) = {}
    BY <1>0 DEF EachInOnePlace, Here
  <2> QED
    BY <2>1, <2>2, <2>3
<1>2. rest \in Seq(Items) /\ IsInjective(rest) /\ Range(rest) = Range(Here) \ {Here[i]}
  BY <1>1, RemoveAtKeeps
<1>3. resources' = [resources EXCEPT ![current] = rest]
  BY DEF Here
<1> HIDE DEF rest
<1>4. /\ resources' \in [Rooms -> Seq(Items)]
      /\ resources'[current] = rest
      /\ \A r \in Rooms \ {current} : resources'[r] = resources[r]
  BY <1>0, <1>2, <1>3
<1>5. /\ inventory' \in Seq(Items) /\ IsInjective(inventory')
      /\ Range(inventory') \in {Range(inventory), Range(inventory) \cup {Here[i]}}
      /\ inventory' # inventory => Range(inventory') = Range(inventory) \cup {Here[i]}
  <2>1. /\ Append(inventory, Here[i]) \in Seq(Items)
        /\ Range(Append(inventory, Here[i])) = Range(inventory) \cup {Here[i]}
        /\ IsInjective(Append(inventory, Here[i]))
    <3>1. IsInjective(inventory)
      BY <1>0 DEF EachInOnePlace
    <3> QED
      BY <1>0, <1>1, <3>1, AppendAdds
  <2> QED
    BY <1>0, <2>1 DEF EachInOnePlace
<1>6. TypeOK'
  BY <1>0, <1>4, <1>5 DEF TypeOK
<1>7. Placed' /\ Warned'
  BY <1>0 DEF Placed, Warned
<1>8. \A r \in Rooms : IsInjective(resources'[r]) /\ Range(resources'[r]) \subseteq Range(resources[r])
  BY <1>0, <1>2, <1>4 DEF EachInOnePlace, Here
<1>9. \A r \in Rooms : Here[i] \notin Range(resources'[r])
  BY <1>0, <1>1, <1>2, <1>4 DEF EachInOnePlace, Here
<1>10. EachInOnePlace'
  BY <1>0, <1>5, <1>8, <1>9 DEF EachInOnePlace
<1>11. \A r \in Rooms : Range(resources[r]) \subseteq Range(resources'[r]) \cup {Here[i]}
  BY <1>2, <1>4 DEF Here
<1>12. \A x : /\ x \in AllResources <=>
                     (\E r \in Rooms : x \in Range(resources[r])) \/ x \in Range(inventory)
              /\ x \in AllResources' <=>
                     (\E r \in Rooms : x \in Range(resources'[r])) \/ x \in Range(inventory')
  BY <1>0, WhereResourcesAre
<1>13. /\ AllResources \ AllResources' \subseteq {Here[i]}
       /\ inventory' # inventory => AllResources \subseteq AllResources'
  <2>1. ASSUME NEW x \in AllResources, x # Here[i] PROVE x \in AllResources'
    BY <1>5, <1>11, <1>12, <2>1
  <2>2. inventory' # inventory => Here[i] \in AllResources'
    BY <1>5, <1>12
  <2> QED
    BY <2>1, <2>2
<1> QED
  BY <1>6, <1>7, <1>10, <1>13 DEF IInv

\* A line that takes one from what is carried.
LEMMA DropLine ==
  ASSUME IInv, Line, NEW i \in 1..Len(inventory), UNCHANGED <<current, darkness_streak, warned>>,
         resources' = resources, inventory' = RemoveAt(inventory, i)
  PROVE  IInv' /\ AllResources \ AllResources' \subseteq {inventory[i]}
<1>0. /\ Rooms' = Rooms /\ Items' = Items /\ phase' = "grue" /\ estate' = estate
      /\ game_over' = FALSE /\ current \in Rooms
      /\ inventory \in Seq(Items) /\ resources \in [Rooms -> Seq(Items)]
      /\ TypeOK /\ Placed /\ Warned /\ EachInOnePlace
  BY LineKept DEF IInv
<1>1. /\ inventory' \in Seq(Items) /\ IsInjective(inventory')
      /\ Range(inventory') = Range(inventory) \ {inventory[i]}
  BY <1>0, RemoveAtKeeps DEF EachInOnePlace
<1>2. TypeOK'
  BY <1>0, <1>1 DEF TypeOK
<1>3. Placed' /\ Warned'
  BY <1>0 DEF Placed, Warned
<1>4. EachInOnePlace'
  BY <1>0, <1>1 DEF EachInOnePlace
<1>5. AllResources \ AllResources' \subseteq {inventory[i]}
  <2>1. \A x : /\ x \in AllResources <=>
                     (\E r \in Rooms : x \in Range(resources[r])) \/ x \in Range(inventory)
               /\ x \in AllResources' <=>
                     (\E r \in Rooms : x \in Range(resources[r])) \/ x \in Range(inventory')
    BY <1>0, WhereResourcesAre
  <2>2. ASSUME NEW x \in AllResources, x # inventory[i] PROVE x \in AllResources'
    BY <1>1, <2>1, <2>2
  <2> QED
    BY <2>2
<1> QED
  BY <1>2, <1>3, <1>4, <1>5 DEF IInv

\* A resource is destroyed only if it is not locked, and was carried or lay in
\* the light.
Lawful ==
  \A x \in AllResources : x \notin AllResources' =>
    ~attrs[x].locked /\ (x \in Range(inventory) \/ current \in monitored)

\* Nothing is destroyed where nothing is moved.
LEMMA NothingLost ==
  ASSUME IInv, Line, UNCHANGED place
  PROVE  Lawful
<1>1. Rooms' = Rooms /\ resources' = resources /\ inventory' = inventory
  BY LineKept DEF place
<1>2. AllResources' = AllResources
  BY <1>1 DEF AllResources
<1> QED
  BY <1>2 DEF Lawful

\* The lines that move nothing.
LEMMA StillSteps ==
  ASSUME IInv,
         \/ \E d \in Directions : Go(d)
         \/ \E word \in Words : Lock(word) \/ Unlock(word) \/ Resize(word)
         \/ Monitor \/ OtherLine
  PROVE  IInv' /\ Lawful
<1>1. ASSUME NEW d, Go(d) PROVE IInv' /\ Lawful
  <2>1. Line /\ UNCHANGED <<inventory, resources, darkness_streak, warned>> /\ UNCHANGED place
    BY <1>1 DEF Go, place, dark
  <2>2. current' \in Rooms
    BY <1>1, <2>1, LineKept DEF Go, Exits, IInv, Placed
  <2> QED
    BY <2>1, <2>2, StillLine, NothingLost
<1>2. ASSUME NEW x, NEW altered, NEW counts, Alter(x, altered, counts) PROVE IInv' /\ Lawful
  <2>1. Line /\ UNCHANGED <<inventory, resources, darkness_streak, warned>> /\ UNCHANGED place
        /\ current' = current
    BY <1>2 DEF Alter, Miss, place, dark
  <2>2. current' \in Rooms
    BY <2>1, LineKept
  <2> QED
    BY <2>1, <2>2, StillLine, NothingLost
<1>3. CASE Monitor \/ OtherLine
  <2>1. Line /\ UNCHANGED <<inventory, resources>> /\ UNCHANGED place /\ current' = current
        /\ \/ UNCHANGED <<darkness_streak, warned>>
           \/ darkness_streak' = 0 /\ warned' = FALSE
    BY <1>3 DEF Monitor, OtherLine, place, dark
  <2>2. current' \in Rooms
    BY <2>1, LineKept
  <2> QED
    BY <2>1, <2>2, StillLine, NothingLost
<1> QED
  BY <1>1, <1>2, <1>3 DEF Lock, Unlock, Resize

LEMMA TakeStep ==
  ASSUME IInv, NEW word, Take(word)
  PROVE  IInv' /\ Lawful
<1> DEFINE i == InRoom(word)
<1>1. Line /\ UNCHANGED <<current, darkness_streak, warned>>
  BY DEF Take, dark
<1>2. Here \in Seq(Items) /\ current \in Rooms
  BY <1>1, LineKept DEF Here
<1>3. CASE IsDark \/ i = 0
  <2>1. UNCHANGED <<inventory, resources>> /\ UNCHANGED place
    BY <1>3 DEF Take, Miss, place
  <2>2. current' \in Rooms
    BY <1>1, <1>2
  <2> QED
    BY <1>1, <2>1, <2>2, StillLine, NothingLost
<1>4. CASE ~(IsDark \/ i = 0)
  <2>1. i \in 1..Len(Here)
    BY <1>2, <1>4, FoundInside DEF InRoom
  <2>2. /\ resources' = [resources EXCEPT ![current] = RemoveAt(@, i)]
        /\ inventory' = Append(inventory, Here[i])
    BY <1>4 DEF Take
  <2>3. inventory' # inventory
    <3>1. inventory \in Seq(Items) /\ Len(Append(inventory, Here[i])) = Len(inventory) + 1
      BY <1>1, LineKept
    <3>2. Len(inventory') # Len(inventory)
      BY <2>2, <3>1
    <3> QED
      BY <3>2
  <2> HIDE DEF i
  <2>4. inventory' \in {inventory, Append(inventory, Here[i])}
    BY <2>2
  <2>5. IInv' /\ (inventory' # inventory => AllResources \subseteq AllResources')
    BY <1>1, <2>1, <2>2, <2>4, TakeLine
  <2> QED
    BY <2>3, <2>5 DEF Lawful
<1> QED
  BY <1>3, <1>4

LEMMA DropStep ==
  ASSUME IInv, NEW word, DropItem(word)
  PROVE  IInv' /\ Lawful
<1> DEFINE i == InRoom(word)
           j == InInventory(word)
<1>1. Line /\ UNCHANGED <<current, darkness_streak, warned>>
  BY DEF DropItem, dark
<1>2. Here \in Seq(Items) /\ current \in Rooms /\ inventory \in Seq(Items)
  BY <1>1, LineKept DEF Here
<1>3. CASE UNCHANGED place
  <2>1. UNCHANGED <<inventory, resources>> /\ current' \in Rooms
    BY <1>1, <1>2, <1>3 DEF place
  <2> QED
    BY <1>1, <1>3, <2>1, StillLine, NothingLost
<1>4. CASE j # 0 /\ ~attrs[inventory[j]].locked
  <2>1. j \in 1..Len(inventory)
    BY <1>2, <1>4, FoundInside DEF InInventory
  <2>2. resources' = resources /\ inventory' = RemoveAt(inventory, j)
    BY <1>4 DEF DropItem
  <2>3. inventory[j] \in Range(inventory)
    BY <1>2, <2>1 DEF Range
  <2> HIDE DEF j
  <2>4. IInv' /\ AllResources \ AllResources' \subseteq {inventory[j]}
    BY <1>1, <2>1, <2>2, DropLine
  <2> QED
    BY <1>4, <2>3, <2>4 DEF Lawful
<1>5. CASE j = 0 /\ ~IsDark /\ i # 0 /\ ~attrs[Here[i]].locked
  <2>1. i \in 1..Len(Here)
    BY <1>2, <1>5, FoundInside DEF InRoom
  <2>2. /\ resources' = [resources EXCEPT ![current] = RemoveAt(@, i)]
        /\ inventory' = inventory
    BY <1>5 DEF DropItem
  <2> HIDE DEF i
  <2>3. inventory' \in {inventory, Append(inventory, Here[i])}
    BY <2>2
  <2>4. IInv' /\ AllResources \ AllResources' \subseteq {Here[i]}
    BY <1>1, <2>1, <2>2, <2>3, TakeLine
  <2> QED
    BY <1>5, <2>4 DEF Lawful, IsDark
<1>6. UNCHANGED place \/ (j # 0 /\ ~attrs[inventory[j]].locked)
        \/ (j = 0 /\ ~IsDark /\ i # 0 /\ ~attrs[Here[i]].locked)
  BY DEF DropItem, Miss, place
<1> QED
  BY <1>3, <1>4, <1>5, <1>6

\* What acts between the lines: the Grue, and the player who leaves.
LEMMA GrueStep ==
  ASSUME IInv, GrueCheck \/ Quit
  PROVE  IInv' /\ Lawful
<1>0. TypeOK /\ Placed /\ Warned /\ EachInOnePlace
  BY DEF IInv
<1>1. /\ estate' = estate /\ Rooms' = Rooms /\ Items' = Items
      /\ inventory' = inventory /\ resources' = resources /\ current' = current
  BY DEF GrueCheck, Quit, Rooms, Items, built, place
<1>2. phase # "over" /\ ~game_over
  BY <1>0 DEF GrueCheck, Quit, Warned
<1>3. /\ phase' \in {"prompt", "over"}
      /\ game_over' \in BOOLEAN /\ warned' \in BOOLEAN
  BY <1>0, Zenon DEF GrueCheck, Quit, TypeOK, dark
<1>4. darkness_streak' \in 0..StreakCap
  BY <1>0 DEF GrueCheck, Quit, TypeOK, StreakCap, dark
<1>5. TypeOK'
  BY <1>0, <1>1, <1>3, <1>4 DEF TypeOK
<1>6. Placed'
  BY <1>0, <1>1, <1>2 DEF Placed
<1>7. Warned'
  <2>1. CASE Quit
    BY <1>0, <1>2, <2>1 DEF Quit, Warned, dark
  <2>2. CASE GrueCheck /\ phase' = "prompt"
    BY <1>0, <1>2, <2>2 DEF GrueCheck, Warned
  <2>3. CASE GrueCheck /\ phase' # "prompt"
    <3>1. darkness_streak' > 1 /\ phase' = "over" /\ warned' = warned
          /\ darkness_streak' = IF darkness_streak < StreakCap THEN darkness_streak + 1
                                ELSE StreakCap
      BY <2>3 DEF GrueCheck
    <3>2. darkness_streak > 0
      BY <1>0, <3>1 DEF TypeOK, StreakCap
    <3> QED
      BY <1>0, <3>1, <3>2 DEF Warned
  <2> QED
    BY <2>1, <2>2, <2>3
<1>8. EachInOnePlace'
  BY <1>0, <1>1 DEF EachInOnePlace
<1>9. AllResources' = AllResources
  BY <1>1 DEF AllResources
<1> QED
  BY <1>5, <1>6, <1>7, <1>8, <1>9 DEF IInv, Lawful

LEMMA NextIInv ==
  ASSUME IInv, [Next]_vars
  PROVE  IInv' /\ (Lawful \/ UNCHANGED vars)
<1>1. CASE Next
  BY <1>1, StillSteps, TakeStep, DropStep, GrueStep DEF Next
<1>2. CASE UNCHANGED vars
  <2>1. /\ phase' = phase /\ game_over' = game_over /\ warned' = warned
        /\ darkness_streak' = darkness_streak /\ inventory' = inventory
        /\ resources' = resources /\ estate' = estate /\ current' = current
    BY <1>2 DEF vars, built, place, dark
  <2>2. Rooms' = Rooms /\ Items' = Items
    BY <2>1 DEF Rooms, Items
  <2>3. TypeOK'
    BY <2>1, <2>2 DEF IInv, TypeOK
  <2>4. Placed' /\ Warned' /\ EachInOnePlace'
    BY <2>1, <2>2 DEF IInv, Placed, Warned, EachInOnePlace
  <2> QED
    BY <1>2, <2>3, <2>4 DEF IInv
<1> QED
  BY <1>1, <1>2

LEMMA Invariance == Spec => []IInv
<1>1. IInv /\ [Next]_vars => IInv'
  BY NextIInv
<1> QED
  BY InitIInv, <1>1, PTL DEF Spec

-----------------------------------------------------------------------------
(* The world is the one that was built. *)

Built == launch \in Launches /\ estate = BuildWorld(launch)

LEMMA AlwaysBuilt == Spec => []Built
<1>1. Init => Built
  BY DEF Init, Built
<1>2. Built /\ [Next]_vars => Built'
  <2> SUFFICES ASSUME Built, [Next]_vars PROVE UNCHANGED built
    BY DEF Built, built
  <2>1. CASE Next
    BY <2>1, Zenon DEF Next, Line, Go, Take, DropItem, Lock, Unlock, Resize, Alter, Monitor,
                       OtherLine, Quit, GrueCheck
  <2>2. CASE UNCHANGED vars
    BY <2>2 DEF vars
  <2> QED
    BY <2>1, <2>2
<1> QED
  BY <1>1, <1>2, PTL DEF Spec

-----------------------------------------------------------------------------
(* Sums over finite sets *)

\* The element that a fold takes next.
Pick(s) == CHOOSE x \in s : TRUE

\* Induction over the subsets of a finite set, an element picked at a time.
LEMMA SubsetInduction ==
  ASSUME NEW S, IsFiniteSet(S), NEW good, {} \in good,
         \A s \in SUBSET S : s # {} /\ s \ {Pick(s)} \in good => s \in good
  PROVE  \A s \in SUBSET S : s \in good
<1> DEFINE sizes == {Cardinality(s) : s \in (SUBSET S) \ good}
<1>1. \A s \in SUBSET S : IsFiniteSet(s) /\ Cardinality(s) \in Nat
  BY FS_Subset, FS_CardinalityType
<1>2. SUFFICES ASSUME (SUBSET S) \ good # {} PROVE FALSE
  OBVIOUS
<1>3. sizes \in SUBSET Nat /\ sizes # {}
  BY <1>1, <1>2
<1>4. PICK m \in sizes : \A k \in sizes : m <= k
  BY <1>3, LeastElement
<1>5. PICK s \in (SUBSET S) \ good : m = Cardinality(s)
  OBVIOUS
<1>6. s # {} /\ Pick(s) \in s
  BY <1>5 DEF Pick
<1>7. /\ s \ {Pick(s)} \in SUBSET S
      /\ Cardinality(s \ {Pick(s)}) = Cardinality(s) - 1
  BY <1>1, <1>5, <1>6, FS_RemoveElement
<1>8. s \ {Pick(s)} \notin good
  BY <1>5, <1>6
<1>9. Cardinality(s \ {Pick(s)}) \in sizes
  BY <1>7, <1>8
<1>10. m <= m - 1 /\ m \in Nat
  BY <1>3, <1>4, <1>5, <1>7, <1>9
<1> QED
  BY <1>10

\* The function that a sum over a finite set is defined by.
IsSum(f, val, S) ==
  f = [s \in SUBSET S |-> IF s = {} THEN 0 ELSE val[Pick(s)] + f[s \ {Pick(s)}]]

LEMMA SumExists ==
  ASSUME NEW S, IsFiniteSet(S), NEW val \in [S -> Nat]
  PROVE  \E f : IsSum(f, val, S)
<1> DEFINE step(g, s) == IF s = {} THEN 0 ELSE val[Pick(s)] + g[s \ {Pick(s)}]
           upto(n, g) == /\ g \in [SUBSET S -> Nat]
                         /\ \A s \in SUBSET S : Cardinality(s) <= n => g[s] = step(g, s)
           fails == {n \in Nat : ~ \E g : upto(n, g)}
<1>1. \A s \in SUBSET S : /\ IsFiniteSet(s) /\ Cardinality(s) \in Nat
                          /\ Cardinality(s) = 0 <=> s = {}
                          /\ Cardinality(s) <= Cardinality(S)
  BY FS_Subset, FS_CardinalityType, FS_EmptySet
<1>2. \A s \in SUBSET S : s # {} =>
        /\ Pick(s) \in s /\ s \ {Pick(s)} \in SUBSET S
        /\ Cardinality(s \ {Pick(s)}) = Cardinality(s) - 1
  <2> SUFFICES ASSUME NEW s \in SUBSET S, s # {}
               PROVE  /\ Pick(s) \in s /\ s \ {Pick(s)} \in SUBSET S
                      /\ Cardinality(s \ {Pick(s)}) = Cardinality(s) - 1
    OBVIOUS
  <2>1. Pick(s) \in s
    BY DEF Pick
  <2> QED
    BY <1>1, <2>1, FS_RemoveElement
<1>3. \A g \in [SUBSET S -> Nat] : \A s \in SUBSET S : step(g, s) \in Nat
  BY <1>2
<1>4. ASSUME fails # {} PROVE FALSE
  <2>1. PICK m \in fails : \A k \in fails : m <= k
    BY <1>4, LeastElement
  <2>2. m # 0
    <3>1. upto(0, [s \in SUBSET S |-> 0])
      BY <1>1
    <3> HIDE DEF upto
    <3> QED
      BY <2>1, <3>1
  <2>3. m - 1 \in Nat /\ m - 1 \notin fails
    <3>1. m \in Nat
      BY <2>1
    <3>2. m - 1 \in Nat /\ ~(m <= m - 1)
      BY <2>2, <3>1
    <3> HIDE DEF fails
    <3> QED
      BY <2>1, <3>2
  <2>4. PICK g : upto(m - 1, g)
    BY <2>3
  <2> DEFINE h == [s \in SUBSET S |-> IF Cardinality(s) <= m - 1 THEN g[s] ELSE step(g, s)]
  <2>5. h \in [SUBSET S -> Nat]
    BY <1>3, <2>4
  <2>6. ASSUME NEW s \in SUBSET S, Cardinality(s) <= m
        PROVE  h[s] = step(h, s)
    <3>1. h[s] = step(g, s)
      BY <2>4
    <3>2. s # {} => h[s \ {Pick(s)}] = g[s \ {Pick(s)}]
      <4> SUFFICES ASSUME s # {} PROVE h[s \ {Pick(s)}] = g[s \ {Pick(s)}]
        OBVIOUS
      <4>1. s \ {Pick(s)} \in SUBSET S /\ Cardinality(s \ {Pick(s)}) <= m - 1
        BY <1>1, <1>2, <2>1, <2>6
      <4>2. h[s \ {Pick(s)}] = IF Cardinality(s \ {Pick(s)}) <= m - 1 THEN g[s \ {Pick(s)}]
                               ELSE step(g, s \ {Pick(s)})
        BY <4>1
      <4> QED
        BY <4>1, <4>2
    <3> HIDE DEF h
    <3> QED
      BY <3>1, <3>2
  <2>7. upto(m, h)
    BY <2>5, <2>6
  <2> HIDE DEF upto, h
  <2> QED
    BY <2>1, <2>7
<1>5. Cardinality(S) \in Nat
  BY FS_CardinalityType
<1>6. PICK g : upto(Cardinality(S), g)
  BY <1>4, <1>5
<1>7. g = [s \in SUBSET S |-> step(g, s)]
  BY <1>1, <1>6
<1> QED
  BY <1>7 DEF IsSum

\* The sum that the folds of the library compute.
Total(val, S) == (CHOOSE f : IsSum(f, val, S))[S]

\* A sum is a number, and none exactly if every term is none.
LEMMA SumIsZero ==
  ASSUME NEW S, IsFiniteSet(S), NEW val \in [S -> Nat]
  PROVE  /\ Total(val, S) \in Nat
         /\ Total(val, S) = 0 <=> \A x \in S : val[x] = 0
<1>1. PICK f : f = (CHOOSE g : IsSum(g, val, S)) /\ IsSum(f, val, S)
  BY SumExists
<1> DEFINE good == {s \in SUBSET S : f[s] \in Nat /\ (f[s] = 0 <=> \A x \in s : val[x] = 0)}
<1>2. {} \in good
  <2>1. f[{}] = 0
    BY <1>1 DEF IsSum
  <2> QED
    BY <2>1
<1>3. ASSUME NEW s \in SUBSET S, s # {}, s \ {Pick(s)} \in good
      PROVE  s \in good
  <2>1. Pick(s) \in s /\ val[Pick(s)] \in Nat
    BY <1>3 DEF Pick
  <2>2. f[s] = val[Pick(s)] + f[s \ {Pick(s)}]
    BY <1>1, <1>3 DEF IsSum
  <2>3. f[s \ {Pick(s)}] \in Nat
    BY <1>3
  <2>4. f[s \ {Pick(s)}] = 0 <=> \A x \in s \ {Pick(s)} : val[x] = 0
    BY <1>3
  <2>5. f[s] \in Nat /\ (f[s] = 0 <=> val[Pick(s)] = 0 /\ f[s \ {Pick(s)}] = 0)
    BY <2>1, <2>2, <2>3
  <2> QED
    BY <2>1, <2>4, <2>5
<1>4. S \in good
  <2> HIDE DEF good
  <2> QED
    BY <1>2, <1>3, SubsetInduction
<1> QED
  BY <1>1, <1>4 DEF Total

-----------------------------------------------------------------------------
(* Hazards, of a resource and of many *)

LEMMA FourElements ==
  ASSUME NEW a, NEW b, NEW c, NEW d
  PROVE  /\ IsFiniteSet({a, b, c, d})
         /\ a # b /\ a # c /\ a # d /\ b # c /\ b # d /\ c # d => Cardinality({a, b, c, d}) = 4
<1>1. IsFiniteSet({a}) /\ Cardinality({a}) = 1
  BY FS_Singleton
<1>2. {a, b} = {a} \cup {b} /\ {a, b, c} = {a, b} \cup {c} /\ {a, b, c, d} = {a, b, c} \cup {d}
  OBVIOUS
<1>3. IsFiniteSet({a, b}) /\ (b # a => Cardinality({a, b}) = 2)
  <2>1. /\ IsFiniteSet({a} \cup {b})
        /\ Cardinality({a} \cup {b}) = IF b \in {a} THEN Cardinality({a}) ELSE Cardinality({a}) + 1
    BY <1>1, FS_AddElement
  <2> QED
    BY <1>1, <1>2, <2>1
<1>4. IsFiniteSet({a, b, c}) /\ (c # a /\ c # b /\ b # a => Cardinality({a, b, c}) = 3)
  <2>1. /\ IsFiniteSet({a, b} \cup {c})
        /\ Cardinality({a, b} \cup {c}) = IF c \in {a, b} THEN Cardinality({a, b}) ELSE Cardinality({a, b}) + 1
    BY <1>3, FS_AddElement
  <2> QED
    BY <1>2, <1>3, <2>1
<1>5. /\ IsFiniteSet({a, b, c} \cup {d})
      /\ Cardinality({a, b, c} \cup {d}) = IF d \in {a, b, c} THEN Cardinality({a, b, c})
                                          ELSE Cardinality({a, b, c}) + 1
  BY <1>4, FS_AddElement
<1> QED
  BY <1>2, <1>4, <1>5

Marks(a) == {c \in {"public", "clear", "unlocked", "cost"} :
    \/ c = "public" /\ a.public
    \/ c = "clear" /\ ~a.encrypted
    \/ c = "unlocked" /\ ~a.locked
    \/ c = "cost" /\ a.monthly_cost >= CostOverrun}

\* What the three quests have left to do among some resources.
Open(A) == Cardinality({x \in A : attrs[x].public})
             + Cardinality({x \in A : ~attrs[x].encrypted})
             + Cardinality({x \in A : ~attrs[x].locked})

LEMMA HazardsOfOne ==
  ASSUME NEW a
  PROVE  /\ Hazards(a) \in Nat
         /\ Hazards(a) = 0 <=> ~a.public /\ a.encrypted /\ a.locked
                                /\ ~(a.monthly_cost >= CostOverrun)
<1>1. IsFiniteSet({"public", "clear", "unlocked", "cost"})
  BY FourElements
<1>2. IsFiniteSet(Marks(a)) /\ Hazards(a) = Cardinality(Marks(a))
  BY <1>1, FS_Subset DEF Marks, Hazards
<1>3. Hazards(a) \in Nat /\ (Hazards(a) = 0 <=> Marks(a) = {})
  BY <1>2, FS_CardinalityType, FS_EmptySet
<1>4. Marks(a) = {} <=> ~a.public /\ a.encrypted /\ a.locked /\ ~(a.monthly_cost >= CostOverrun)
  BY Zenon DEF Marks
<1> QED
  BY <1>3, <1>4

LEMMA OpenOfOne ==
  ASSUME NEW x
  PROVE  Open({x}) \in Nat /\ Open({x}) <= Hazards(attrs[x])
<1> DEFINE P == attrs[x].public
           C == ~attrs[x].encrypted
           U == ~attrs[x].locked
           ones == (IF P THEN {"public"} ELSE {}) \cup (IF C THEN {"clear"} ELSE {})
                     \cup (IF U THEN {"unlocked"} ELSE {})
<1>1. /\ Cardinality({y \in {x} : attrs[y].public}) = IF P THEN 1 ELSE 0
      /\ Cardinality({y \in {x} : ~attrs[y].encrypted}) = IF C THEN 1 ELSE 0
      /\ Cardinality({y \in {x} : ~attrs[y].locked}) = IF U THEN 1 ELSE 0
  <2>1. /\ {y \in {x} : attrs[y].public} = IF P THEN {x} ELSE {}
        /\ {y \in {x} : ~attrs[y].encrypted} = IF C THEN {x} ELSE {}
        /\ {y \in {x} : ~attrs[y].locked} = IF U THEN {x} ELSE {}
    <3>1. \A y : /\ y \in {y1 \in {x} : attrs[y1].public} <=> y = x /\ P
                 /\ y \in {y1 \in {x} : ~attrs[y1].encrypted} <=> y = x /\ C
                 /\ y \in {y1 \in {x} : ~attrs[y1].locked} <=> y = x /\ U
      BY Zenon
    <3> DEFINE ps == {y \in {x} : attrs[y].public}
               cs == {y \in {x} : ~attrs[y].encrypted}
               us == {y \in {x} : ~attrs[y].locked}
    <3> HIDE DEF P, C, U, ps, cs, us
    <3>2. \A y : /\ y \in ps <=> y = x /\ P
                 /\ y \in cs <=> y = x /\ C
                 /\ y \in us <=> y = x /\ U
      BY <3>1 DEF ps, cs, us
    <3>3. /\ ps = IF P THEN {x} ELSE {}
          /\ cs = IF C THEN {x} ELSE {}
          /\ us = IF U THEN {x} ELSE {}
      BY <3>2
    <3> QED
      BY <3>3 DEF ps, cs, us
  <2> HIDE DEF P, C, U
  <2> QED
    BY <2>1, FS_Singleton, FS_EmptySet
<1>2. /\ Open({x}) = (IF P THEN 1 ELSE 0) + (IF C THEN 1 ELSE 0) + (IF U THEN 1 ELSE 0)
      /\ Open({x}) \in Nat
  <2> HIDE DEF P, C, U
  <2> QED
    BY <1>1 DEF Open
<1>3. ones \subseteq Marks(attrs[x])
  <2>1. /\ P => "public" \in Marks(attrs[x])
        /\ C => "clear" \in Marks(attrs[x])
        /\ U => "unlocked" \in Marks(attrs[x])
    BY Zenon DEF Marks
  <2> HIDE DEF P, C, U
  <2> QED
    BY <2>1
<1>4. IsFiniteSet(ones) /\ Cardinality(ones) = Open({x})
  <2> DEFINE p == IF P THEN {"public"} ELSE {}
             c == IF C THEN {"clear"} ELSE {}
             u == IF U THEN {"unlocked"} ELSE {}
  <2> HIDE DEF P, C, U
  <2>1. /\ IsFiniteSet(p) /\ Cardinality(p) = IF P THEN 1 ELSE 0
        /\ IsFiniteSet(c) /\ Cardinality(c) = IF C THEN 1 ELSE 0
        /\ IsFiniteSet(u) /\ Cardinality(u) = IF U THEN 1 ELSE 0
    BY FS_Singleton, FS_EmptySet
  <2>2. p \cap c = {} /\ (p \cup c) \cap u = {}
    OBVIOUS
  <2>3. ones = (p \cup c) \cup u
    OBVIOUS
  <2> HIDE DEF p, c, u, ones
  <2>4. IsFiniteSet(p \cup c) /\ Cardinality(p \cup c) = Cardinality(p) + Cardinality(c) - 0
    BY <2>1, <2>2, FS_Union, FS_EmptySet
  <2>5. IsFiniteSet((p \cup c) \cup u)
        /\ Cardinality((p \cup c) \cup u) = Cardinality(p \cup c) + Cardinality(u) - 0
    BY <2>1, <2>2, <2>4, FS_Union, FS_EmptySet
  <2> QED
    BY <1>2, <2>1, <2>3, <2>4, <2>5
<1>5. IsFiniteSet(Marks(attrs[x])) /\ Hazards(attrs[x]) = Cardinality(Marks(attrs[x]))
  <2>1. IsFiniteSet({"public", "clear", "unlocked", "cost"})
    BY FourElements
  <2> QED
    BY <2>1, FS_Subset DEF Marks, Hazards
<1> HIDE DEF ones
<1> QED
  BY <1>2, <1>3, <1>4, <1>5, FS_Subset

LEMMA OpenOfTwo ==
  ASSUME NEW A, NEW B, IsFiniteSet(A), IsFiniteSet(B)
  PROVE  Open(A \cup B) \in Nat /\ Open(A) \in Nat /\ Open(B) \in Nat
         /\ Open(A \cup B) <= Open(A) + Open(B)
<1>1. ASSUME NEW C, NEW D, IsFiniteSet(C), IsFiniteSet(D)
      PROVE  /\ Cardinality(C \cup D) \in Nat /\ Cardinality(C) \in Nat /\ Cardinality(D) \in Nat
             /\ Cardinality(C \cup D) <= Cardinality(C) + Cardinality(D)
  <2>1. /\ Cardinality(C \cup D) = Cardinality(C) + Cardinality(D) - Cardinality(C \cap D)
        /\ IsFiniteSet(C \cup D)
    BY <1>1, FS_Union
  <2>2. IsFiniteSet(C \cap D)
    BY <1>1, FS_Intersection
  <2>3. Cardinality(C \cap D) \in Nat /\ Cardinality(C) \in Nat /\ Cardinality(D) \in Nat
    BY <1>1, <2>2, FS_CardinalityType
  <2>4. Cardinality(C \cup D) \in Nat
    BY <2>1, FS_CardinalityType
  <2> QED
    BY <2>1, <2>3, <2>4
<1> DEFINE p(X) == {x \in X : attrs[x].public}
           c(X) == {x \in X : ~attrs[x].encrypted}
           u(X) == {x \in X : ~attrs[x].locked}
<1>2. /\ IsFiniteSet(p(A)) /\ IsFiniteSet(p(B)) /\ p(A \cup B) = p(A) \cup p(B)
      /\ IsFiniteSet(c(A)) /\ IsFiniteSet(c(B)) /\ c(A \cup B) = c(A) \cup c(B)
      /\ IsFiniteSet(u(A)) /\ IsFiniteSet(u(B)) /\ u(A \cup B) = u(A) \cup u(B)
  <2>1. /\ p(A) \in SUBSET A /\ p(B) \in SUBSET B
        /\ c(A) \in SUBSET A /\ c(B) \in SUBSET B
        /\ u(A) \in SUBSET A /\ u(B) \in SUBSET B
    OBVIOUS
  <2>2. /\ p(A \cup B) = p(A) \cup p(B) /\ c(A \cup B) = c(A) \cup c(B)
        /\ u(A \cup B) = u(A) \cup u(B)
    <3>1. \A y : /\ y \in p(A \cup B) <=> y \in p(A) \/ y \in p(B)
                 /\ y \in c(A \cup B) <=> y \in c(A) \/ y \in c(B)
                 /\ y \in u(A \cup B) <=> y \in u(A) \/ y \in u(B)
      BY Zenon
    <3> HIDE DEF p, c, u
    <3> QED
      BY <3>1
  <2> HIDE DEF p, c, u
  <2> QED
    BY <2>1, <2>2, FS_Subset
<1>3. \A X : Open(X) = Cardinality(p(X)) + Cardinality(c(X)) + Cardinality(u(X))
  BY DEF Open
<1> HIDE DEF p, c, u
<1>4. /\ Cardinality(p(A \cup B)) <= Cardinality(p(A)) + Cardinality(p(B))
      /\ Cardinality(c(A \cup B)) <= Cardinality(c(A)) + Cardinality(c(B))
      /\ Cardinality(u(A \cup B)) <= Cardinality(u(A)) + Cardinality(u(B))
      /\ Cardinality(p(A \cup B)) \in Nat /\ Cardinality(p(A)) \in Nat /\ Cardinality(p(B)) \in Nat
      /\ Cardinality(c(A \cup B)) \in Nat /\ Cardinality(c(A)) \in Nat /\ Cardinality(c(B)) \in Nat
      /\ Cardinality(u(A \cup B)) \in Nat /\ Cardinality(u(A)) \in Nat /\ Cardinality(u(B)) \in Nat
  BY <1>1, <1>2
<1> QED
  BY <1>3, <1>4

\* What is left to do is no more than the hazards, summed over places.
LEMMA OpenOfMany ==
  ASSUME NEW S, IsFiniteSet(S), NEW val \in [S -> Nat],
         NEW part, \A x \in S : IsFiniteSet(part[x]) /\ Open(part[x]) <= val[x]
  PROVE  Open(UNION {part[x] : x \in S}) <= Total(val, S)
<1>1. PICK f : f = (CHOOSE g : IsSum(g, val, S)) /\ IsSum(f, val, S)
  BY SumExists
<1> DEFINE all(s) == UNION {part[x] : x \in s}
           good == {s \in SUBSET S : f[s] \in Nat /\ IsFiniteSet(all(s)) /\ Open(all(s)) <= f[s]}
<1>2. {} \in good
  <2>1. f[{}] = 0
    BY <1>1 DEF IsSum
  <2>2. all({}) = {}
    OBVIOUS
  <2>3. Open({}) = 0
    <3>1. /\ {x \in {} : attrs[x].public} = {} /\ {x \in {} : ~attrs[x].encrypted} = {}
          /\ {x \in {} : ~attrs[x].locked} = {}
      OBVIOUS
    <3> QED
      BY <3>1, FS_EmptySet DEF Open
  <2> HIDE DEF all
  <2> QED
    BY <2>1, <2>2, <2>3, FS_EmptySet
<1>3. ASSUME NEW s \in SUBSET S, s # {}, s \ {Pick(s)} \in good
      PROVE  s \in good
  <2> DEFINE x == Pick(s)
             t == s \ {x}
  <2>1. x \in s /\ val[x] \in Nat /\ IsFiniteSet(part[x]) /\ Open(part[x]) <= val[x]
    BY <1>3 DEF Pick
  <2>2. f[s] = val[x] + f[t]
    BY <1>1, <1>3 DEF IsSum
  <2>3. f[t] \in Nat /\ IsFiniteSet(all(t)) /\ Open(all(t)) <= f[t]
    BY <1>3
  <2>4. all(s) = part[x] \cup all(t)
    BY <2>1
  <2> HIDE DEF x, t, all
  <2>5. IsFiniteSet(all(s)) /\ Open(all(s)) \in Nat /\ Open(part[x]) \in Nat /\ Open(all(t)) \in Nat
        /\ Open(all(s)) <= Open(part[x]) + Open(all(t))
    BY <2>1, <2>3, <2>4, OpenOfTwo, FS_Union
  <2>6. f[s] \in Nat /\ Open(all(s)) <= f[s]
    BY <2>1, <2>2, <2>3, <2>5
  <2> QED
    BY <2>5, <2>6
<1>4. S \in good
  <2> HIDE DEF good
  <2> QED
    BY <1>2, <1>3, SubsetInduction
<1> QED
  BY <1>1, <1>4 DEF Total

-----------------------------------------------------------------------------
(* The score is a sum *)

LEMMA HazardsInIsTotal ==
  ASSUME NEW seq
  PROVE  HazardsIn(seq) = Total([i \in DOMAIN seq |-> Hazards(attrs[seq[i]])], DOMAIN seq)
<1> DEFINE S == DOMAIN seq
           val == [i \in S |-> Hazards(attrs[seq[i]])]
           folds(f) == f = [s \in SUBSET S |-> IF s = {} THEN 0
                              ELSE Hazards(attrs[seq[Pick(s)]]) + f[s \ {Pick(s)}]]
<1>1. HazardsIn(seq) = (CHOOSE f : folds(f))[S]
  BY Zenon DEF HazardsIn, FoldSeq, FoldFunction, FoldFunctionOnSet, MapThenFoldSet, Pick
<1>2. ASSUME NEW f PROVE folds(f) <=> IsSum(f, val, S)
  <2>1. ASSUME NEW s \in SUBSET S, s # {}
        PROVE  val[Pick(s)] = Hazards(attrs[seq[Pick(s)]])
    <3>1. Pick(s) \in S
      BY <2>1 DEF Pick
    <3> QED
      BY <3>1
  <2> HIDE DEF val
  <2>2. [s \in SUBSET S |-> IF s = {} THEN 0
                              ELSE Hazards(attrs[seq[Pick(s)]]) + f[s \ {Pick(s)}]]
         = [s \in SUBSET S |-> IF s = {} THEN 0 ELSE val[Pick(s)] + f[s \ {Pick(s)}]]
    BY <2>1
  <2> QED
    BY <2>2 DEF IsSum
<1>3. (CHOOSE f : folds(f)) = (CHOOSE f : IsSum(f, val, S))
  <2> HIDE DEF folds, val
  <2> QED
    BY <1>2, Zenon
<1> QED
  BY <1>1, <1>3 DEF Total

LEMMA RoomHazardsAreTotal ==
  ASSUME NEW S
  PROVE  MapThenSumSet(LAMBDA r : HazardsIn(resources[r]), S)
           = Total([r \in S |-> HazardsIn(resources[r])], S)
<1> DEFINE val == [r \in S |-> HazardsIn(resources[r])]
           folds(f) == f = [s \in SUBSET S |-> IF s = {} THEN 0
                              ELSE HazardsIn(resources[Pick(s)]) + f[s \ {Pick(s)}]]
<1>1. MapThenSumSet(LAMBDA r : HazardsIn(resources[r]), S) = (CHOOSE f : folds(f))[S]
  BY Zenon DEF MapThenSumSet, MapThenFoldSet, Pick
<1>2. ASSUME NEW f PROVE folds(f) <=> IsSum(f, val, S)
  <2>1. ASSUME NEW s \in SUBSET S, s # {}
        PROVE  val[Pick(s)] = HazardsIn(resources[Pick(s)])
    <3>1. Pick(s) \in S
      BY <2>1 DEF Pick
    <3> QED
      BY <3>1
  <2> HIDE DEF val
  <2>2. [s \in SUBSET S |-> IF s = {} THEN 0
                              ELSE HazardsIn(resources[Pick(s)]) + f[s \ {Pick(s)}]]
         = [s \in SUBSET S |-> IF s = {} THEN 0 ELSE val[Pick(s)] + f[s \ {Pick(s)}]]
    BY <2>1
  <2> QED
    BY <2>2 DEF IsSum
<1>3. (CHOOSE f : folds(f)) = (CHOOSE f : IsSum(f, val, S))
  <2> HIDE DEF folds, val
  <2> QED
    BY <1>2, Zenon
<1> QED
  BY <1>1, <1>3 DEF Total

LEMMA HazardsOfPlace ==
  ASSUME NEW T, NEW seq \in Seq(T)
  PROVE  /\ HazardsIn(seq) \in Nat
         /\ HazardsIn(seq) = 0 <=> \A x \in Range(seq) : Hazards(attrs[x]) = 0
         /\ IsFiniteSet(Range(seq))
         /\ Open(Range(seq)) <= HazardsIn(seq)
<1> DEFINE S == DOMAIN seq
           val == [i \in S |-> Hazards(attrs[seq[i]])]
           part == [i \in S |-> {seq[i]}]
<1>1. IsFiniteSet(S)
  <2>1. S = 1..Len(seq) /\ Len(seq) \in Nat
    OBVIOUS
  <2> HIDE DEF S
  <2> QED
    BY <2>1, FS_Interval
<1>2. val \in [S -> Nat]
  BY HazardsOfOne
<1>3. HazardsIn(seq) = Total(val, S)
  BY HazardsInIsTotal
<1>4. (\A i \in S : val[i] = 0) <=> \A x \in Range(seq) : Hazards(attrs[x]) = 0
  BY DEF Range
<1>5. Range(seq) = UNION {part[i] : i \in S}
  BY DEF Range
<1>6. \A i \in S : IsFiniteSet(part[i]) /\ Open(part[i]) <= val[i]
  BY OpenOfOne, FS_Singleton
<1>7. IsFiniteSet(Range(seq))
  <2>1. seq \in Surjection(S, Range(seq))
    BY DEF Surjection, Range
  <2> QED
    BY <1>1, <2>1, FS_Surjection
<1> HIDE DEF S, val, part
<1>8. /\ HazardsIn(seq) \in Nat
      /\ HazardsIn(seq) = 0 <=> \A i \in S : val[i] = 0
  BY <1>1, <1>2, <1>3, SumIsZero
<1>9. Open(UNION {part[i] : i \in S}) <= HazardsIn(seq)
  BY <1>1, <1>2, <1>3, <1>6, OpenOfMany
<1> QED
  BY <1>4, <1>5, <1>7, <1>8, <1>9

-----------------------------------------------------------------------------
(* What the reports read *)

\* Finitely many rooms, of which some are lit.
Lit == IsFiniteSet(Rooms) /\ monitored \subseteq Rooms

LEMMA ScoreOfAll ==
  ASSUME TypeOK, Lit
  PROVE  /\ IsFiniteSet(AllResources)
         /\ TotalHazards = 0 <=> /\ monitored = Rooms
                                 /\ \A x \in AllResources : Hazards(attrs[x]) = 0
         /\ Open(AllResources) <= TotalHazards
<1> DEFINE val == [r \in Rooms |-> HazardsIn(resources[r])]
           part == [r \in Rooms |-> Range(resources[r])]
           lying == UNION {part[r] : r \in Rooms}
           unlit == Cardinality(Rooms \ monitored)
           sum == Total(val, Rooms)
<1>1. \A r \in Rooms : resources[r] \in Seq(Items)
  BY DEF TypeOK
<1>2. val \in [Rooms -> Nat]
  BY <1>1, HazardsOfPlace
<1>3. \A r \in Rooms : /\ IsFiniteSet(part[r]) /\ Open(part[r]) <= val[r]
                       /\ val[r] = 0 <=> \A x \in part[r] : Hazards(attrs[x]) = 0
  BY <1>1, HazardsOfPlace
<1>4. /\ HazardsIn(inventory) \in Nat
      /\ HazardsIn(inventory) = 0 <=> \A x \in Range(inventory) : Hazards(attrs[x]) = 0
      /\ IsFiniteSet(Range(inventory))
      /\ Open(Range(inventory)) <= HazardsIn(inventory)
  BY HazardsOfPlace DEF TypeOK
<1>5. AllResources = lying \cup Range(inventory)
  BY DEF AllResources
<1>6. TotalHazards = unlit + HazardsIn(inventory) + sum
  BY RoomHazardsAreTotal DEF TotalHazards
<1>7. unlit \in Nat /\ (unlit = 0 <=> monitored = Rooms)
  <2>1. IsFiniteSet(Rooms \ monitored)
    BY FS_Difference DEF Lit
  <2> QED
    BY <2>1, FS_CardinalityType, FS_EmptySet DEF Lit
<1> HIDE DEF val, part
<1>8. sum \in Nat /\ (sum = 0 <=> \A r \in Rooms : val[r] = 0)
  BY <1>2, SumIsZero DEF Lit
<1>9. Open(lying) <= sum
  BY <1>2, <1>3, OpenOfMany DEF Lit
<1>10. IsFiniteSet(lying)
  <2> DEFINE parts == {part[r] : r \in Rooms}
  <2>1. IsFiniteSet(parts)
    <3>1. [r \in Rooms |-> part[r]] \in Surjection(Rooms, parts)
      BY DEF Surjection
    <3> QED
      BY <3>1, FS_Surjection DEF Lit
  <2>2. \A p \in parts : IsFiniteSet(p)
    BY <1>3
  <2> QED
    BY <2>1, <2>2, FS_UNION
<1>11. (\A r \in Rooms : val[r] = 0) <=> \A x \in lying : Hazards(attrs[x]) = 0
  BY <1>3
<1> HIDE DEF lying, unlit, sum
<1>12. IsFiniteSet(AllResources)
  BY <1>4, <1>5, <1>10, FS_Union
<1>13. TotalHazards = 0 <=> unlit = 0 /\ HazardsIn(inventory) = 0 /\ sum = 0
  BY <1>4, <1>6, <1>7, <1>8
<1>14. TotalHazards = 0 <=> monitored = Rooms /\ \A x \in AllResources : Hazards(attrs[x]) = 0
  BY <1>4, <1>5, <1>7, <1>8, <1>11, <1>13
<1>15. Open(AllResources) <= TotalHazards
  <2>1. /\ Open(AllResources) \in Nat /\ Open(lying) \in Nat /\ Open(Range(inventory)) \in Nat
        /\ Open(AllResources) <= Open(lying) + Open(Range(inventory))
    BY <1>4, <1>5, <1>10, OpenOfTwo
  <2> QED
    BY <1>4, <1>6, <1>7, <1>8, <1>9, <2>1
<1> QED
  BY <1>12, <1>14, <1>15

AllBadges == {"Fort Knox", "No Open Doors", "Warded", "Under Budget"}

LEMMA BadgeTells ==
  /\ "Fort Knox" \in Badges <=> \A x \in AllResources : attrs[x].encrypted
  /\ "No Open Doors" \in Badges <=> \A x \in AllResources : ~attrs[x].public
  /\ "Warded" \in Badges <=> \A x \in AllResources : attrs[x].locked
  /\ "Under Budget" \in Badges <=>
       \A x \in AllResources : ~(attrs[x].monthly_cost >= CostOverrun)
BY DEF Badges

LEMMA AllBadgesTell ==
  Cardinality(Badges) = 4 <=>
    \A x \in AllResources : Hazards(attrs[x]) = 0
<1>1. IsFiniteSet(AllBadges) /\ Cardinality(AllBadges) = 4
  BY FourElements DEF AllBadges
<1>2. Badges \subseteq AllBadges
  BY DEF Badges, AllBadges
<1>3. Cardinality(Badges) = 4 <=> Badges = AllBadges
  BY <1>1, <1>2, FS_Subset
<1>4. Badges = AllBadges <=>
        "Fort Knox" \in Badges /\ "No Open Doors" \in Badges /\ "Warded" \in Badges
          /\ "Under Budget" \in Badges
  BY <1>2 DEF AllBadges
<1>5. \A x : Hazards(attrs[x]) = 0 <=>
              ~attrs[x].public /\ attrs[x].encrypted /\ attrs[x].locked
                /\ ~(attrs[x].monthly_cost >= CostOverrun)
  BY HazardsOfOne
<1> QED
  BY <1>3, <1>4, <1>5, BadgeTells

\* A quest's count: what is not done yet is what does not satisfy it.
LEMMA QuestTells ==
  ASSUME IsFiniteSet(AllResources), NEW quest
  PROVE  LET p == QuestProgress(quest)
             open == {x \in AllResources : ~Satisfies(attrs[x], quest)}
         IN  /\ p.total - p.done = Cardinality(open)
             /\ p.complete <=> open = {}
<1> DEFINE right == {x \in AllResources : Satisfies(attrs[x], quest)}
           open == {x \in AllResources : ~Satisfies(attrs[x], quest)}
           p == QuestProgress(quest)
<1>1. p = [done |-> Cardinality(right), total |-> Cardinality(AllResources),
           complete |-> Cardinality(right) = Cardinality(AllResources)]
  BY DEF QuestProgress
<1>2. /\ p.total = Cardinality(AllResources) /\ p.done = Cardinality(right)
      /\ p.complete = (Cardinality(right) = Cardinality(AllResources))
  BY <1>1
<1>3. open = AllResources \ right /\ AllResources \cap right = right
  <2>1. \A x : /\ x \in right <=> x \in AllResources /\ Satisfies(attrs[x], quest)
               /\ x \in open <=> x \in AllResources /\ ~Satisfies(attrs[x], quest)
    BY Zenon
  <2> HIDE DEF right, open
  <2> QED
    BY <2>1
<1> HIDE DEF right, open, p
<1>4. Cardinality(AllResources \ right) = Cardinality(AllResources) - Cardinality(right)
      /\ IsFiniteSet(open)
  BY <1>3, FS_Difference
<1>5. Cardinality(AllResources) \in Nat /\ Cardinality(right) \in Nat
  <2>1. IsFiniteSet(AllResources \cap right)
    BY FS_Intersection
  <2> QED
    BY <1>3, <2>1, FS_CardinalityType
<1>6. Cardinality(open) = 0 <=> open = {}
  BY <1>4, FS_EmptySet
<1>7. p.complete <=> open = {}
  <2>1. Cardinality(right) = Cardinality(AllResources) <=> open = {}
    BY <1>3, <1>4, <1>5, <1>6
  <2> QED
    BY <1>2, <2>1, Zenon
<1>8. p.total - p.done = Cardinality(open)
  BY <1>2, <1>3, <1>4
<1> QED
  BY <1>7, <1>8, Zenon DEF p, open

LEMMA ReportsOfState ==
  ASSUME TypeOK, Lit
  PROVE  ReportsAgree
<1> DEFINE open(q) == {x \in AllResources : ~Satisfies(attrs[x], q)}
<1>1. /\ open("Secure the Realm") = {x \in AllResources : attrs[x].public}
      /\ open("Seal the Vaults") = {x \in AllResources : ~attrs[x].encrypted}
      /\ open("Lift the Curse") = {x \in AllResources : ~attrs[x].locked}
  <2>1. \A a : /\ Satisfies(a, "Secure the Realm") <=> ~a.public
               /\ Satisfies(a, "Seal the Vaults") <=> a.encrypted
               /\ Satisfies(a, "Lift the Curse") <=> a.locked
    BY DEF Satisfies
  <2> QED
    BY <2>1
<1>2. IsFiniteSet(AllResources)
  BY ScoreOfAll
<1>3. \A q : /\ QuestProgress(q).total - QuestProgress(q).done = Cardinality(open(q))
             /\ QuestProgress(q).complete <=> open(q) = {}
  BY <1>2, QuestTells
<1>4. /\ QuestProgress("Secure the Realm").complete <=> "No Open Doors" \in Badges
      /\ QuestProgress("Seal the Vaults").complete <=> "Fort Knox" \in Badges
      /\ QuestProgress("Lift the Curse").complete <=> "Warded" \in Badges
  <2>1. /\ {x \in AllResources : attrs[x].public} = {} <=> \A x \in AllResources : ~attrs[x].public
        /\ {x \in AllResources : ~attrs[x].encrypted} = {} <=> \A x \in AllResources : attrs[x].encrypted
        /\ {x \in AllResources : ~attrs[x].locked} = {} <=> \A x \in AllResources : attrs[x].locked
    BY Zenon
  <2> HIDE DEF open
  <2> QED
    BY <1>1, <1>3, <2>1, BadgeTells
<1>5. TotalHazards = 0 <=> monitored = Rooms /\ Cardinality(Badges) = 4
  BY ScoreOfAll, AllBadgesTell
<1>6. Cardinality(open("Secure the Realm")) + Cardinality(open("Seal the Vaults"))
        + Cardinality(open("Lift the Curse")) = Open(AllResources)
  <2> HIDE DEF open
  <2> QED
    BY <1>1 DEF Open
<1> HIDE DEF open
<1>7. (QuestProgress("Secure the Realm").total - QuestProgress("Secure the Realm").done)
        + (QuestProgress("Seal the Vaults").total - QuestProgress("Seal the Vaults").done)
        + (QuestProgress("Lift the Curse").total - QuestProgress("Lift the Curse").done)
          <= TotalHazards
  BY <1>3, <1>6, ScoreOfAll
<1> QED
  BY <1>4, <1>5, <1>7 DEF ReportsAgree

LEMMA AlwaysLit == Spec => []Lit
<1>1. Init => Lit
  BY WorldFurnished DEF Init, Furnished, Lit, Rooms
<1>2. IInv /\ Lit /\ [Next]_vars => Lit'
  <2> SUFFICES ASSUME IInv, Lit, [Next]_vars PROVE Lit'
    OBVIOUS
  <2>1. CASE \E d \in Directions : Go(d)
    BY <2>1 DEF Go, Line, built, Lit, Rooms
  <2>2. CASE \E word \in Words : Take(word) \/ DropItem(word)
    BY <2>2 DEF Take, DropItem, Line, built, Lit, Rooms
  <2>3. CASE \E word \in Words : Lock(word) \/ Unlock(word) \/ Resize(word)
    BY <2>3 DEF Lock, Unlock, Resize, Alter, Line, built, Lit, Rooms
  <2>4. CASE Monitor
    BY <2>4 DEF Monitor, Line, built, Lit, Rooms, IInv, Placed
  <2>5. CASE OtherLine \/ Quit \/ GrueCheck
    BY <2>5 DEF OtherLine, Quit, GrueCheck, Line, built, Lit, Rooms
  <2>6. CASE UNCHANGED vars
    BY <2>6 DEF vars, built, Lit, Rooms
  <2> QED
    BY <2>1, <2>2, <2>3, <2>4, <2>5, <2>6 DEF Next
<1> QED
  BY <1>1, <1>2, Invariance, PTL DEF Spec

-----------------------------------------------------------------------------
(* The theorems *)

\* The state is well typed: what lies about and what is carried are sequences
\* of resources of this world (world.rs, World and Room).
THEOREM WorldTypeOK == Spec => []TypeOK
<1>1. IInv => TypeOK
  BY DEF IInv
<1> QED
  BY <1>1, Invariance, PTL

\* No resource is in two places, in any world and whatever words are typed
\* (take_item and drop_item, world.rs).
THEOREM NothingIsInTwoPlaces == Spec => []EachInOnePlace
<1>1. IInv => EachInOnePlace
  BY DEF IInv
<1> QED
  BY <1>1, Invariance, PTL

\* Every world can be wandered: of any size of a generated estate and whatever az
\* answers, as long as it names no group twice (generate_world, build_world and
\* World::new).
THEOREM WorldsCanBeWandered ==
  ASSUME NoGroupTwice
  PROVE  Spec => []EstateSound
<1>1. Built => EstateSound
  <2> SUFFICES ASSUME Built PROVE EstateSound
    OBVIOUS
  <2>1. IF estate = NoEstate THEN IsLive(launch.id) /\ launch.listed \in {Unavailable, << >>}
        ELSE Sound(estate)
    BY BuiltIsSound DEF Built
  <2> QED
    BY <2>1 DEF EstateSound, Sound, Rooms
<1> QED
  BY <1>1, AlwaysBuilt, PTL

\* The score, the badges and the quests agree, for any estate and whatever is
\* done to it (total_hazards and badges, world.rs; QuestLog, quests.rs).
THEOREM ReportsAlwaysAgree == Spec => []ReportsAgree
<1>1. IInv /\ Lit => ReportsAgree
  BY ReportsOfState DEF IInv
<1> QED
  BY <1>1, Invariance, AlwaysLit, PTL

\* Nobody is devoured who was not warned since last seeing light (grue_check,
\* main.rs).
THEOREM DevouredAfterAWarning == Spec => []GrueWarnsFirst
<1>1. IInv => GrueWarnsFirst
  BY DEF IInv, Warned, GrueWarnsFirst
<1> QED
  BY <1>1, Invariance, PTL

\* No line destroys a locked resource, or one that is neither carried nor in
\* the light (drop_item, world.rs).
THEOREM DestroyedLawfully == Spec => DeletedUnlockedInLight
<1>1. IInv /\ [Next]_vars => [Lawful]_vars
  BY NextIInv
<1>2. [][Lawful]_vars => DeletedUnlockedInLight
  BY PTL DEF DeletedUnlockedInLight, Lawful
<1> QED
  BY <1>1, <1>2, Invariance, PTL DEF Spec
=============================================================================
