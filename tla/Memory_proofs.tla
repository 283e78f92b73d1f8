---------------------------- MODULE Memory_proofs ----------------------------
(***************************************************************************)
(* What is proved of the memory of azork, for any rooms, resources and     *)
(* notes, any number of sessions, saves and cuts: ids and ticks are ahead  *)
(* of every node, the graph says what was seen, a load gives back the last *)
(* whole snapshot, and no secret is kept; and of scrub, for texts of any   *)
(* length.                                                                 *)
(*                                                                         *)
(* The invariant asks of the file what it asks of the graph (Counted,      *)
(* Shaped), since the next session starts from it; of a room being         *)
(* recorded that it is linked to what has been gone through (Visited); and *)
(* of the store that its copies agree with one another, and with the graph *)
(* while a session is open (Consistent, Followed).                         *)
(*                                                                         *)
(* Of scrub, each pass is a fold, which FoldedLaw gives token by token.    *)
(* Two readers, PairsOf and HeadersOf, accept the texts that the first and *)
(* the second pass leave as they are; a pass writes what its reader        *)
(* accepts, and the later ones keep it so.  That a secret is hidden        *)
(* follows from where a pass waits for one: Clean, Waits, HeaderOpen.      *)
(***************************************************************************)
EXTENDS MemoryStore, Integers, FiniteSetTheorems, SequenceTheorems, WellFoundedInduction, TLAPS

Kinds == {"Room", "Resource", "Other"}

IsNode(n) == n \in [kind : Kinds, label : Labels, content : {n.content}, touch : Nat]

\* Ids and touches are behind the counters, and no two touches are the same.
Counted(ns, c, s) ==
  /\ c \in Nat /\ s \in Nat
  /\ ns = [i \in DOMAIN ns |-> ns[i]]
  /\ \A i \in DOMAIN ns : i \in 1..s /\ IsNode(ns[i]) /\ ns[i].touch <= c
  /\ \A i, j \in DOMAIN ns : i # j => ns[i].touch # ns[j].touch

\* Edges join nodes, no two the same ones, and no two rooms have one name.
Shaped(ns, es) ==
  /\ \A k \in DOMAIN es : es[k][1] \in DOMAIN ns /\ es[k][2] \in DOMAIN ns
  /\ IsInjective(es)
  /\ \A i, j \in DOMAIN ns :
       ns[i].kind = "Room" /\ ns[j].kind = "Room" /\ ns[i].label = ns[j].label => i = j

Pairs == Nat \X Nat

Graphs ==
  /\ Counted(nodes, clock, seq) /\ edges \in Seq(Pairs)
  /\ Counted(file.nodes, file.clock, file.seq) /\ file.edges \in Seq(Pairs)
  /\ ~torn => Shaped(nodes, edges) /\ Shaped(file.nodes, file.edges)

\* A node of that name is linked to the room.
HasLink(ns, es, from, name) ==
  \E to \in DOMAIN ns : /\ ns[to].kind = "Resource" /\ ns[to].label = name
                         /\ \E k \in DOMAIN es : es[k] = <<from, to>>

\* The resources of the room from the first on are linked to it, and the rest
\* are still to do.
Visited ==
  /\ todo \in Seq(Labels)
  /\ room = 0 => todo = << >>
  /\ room # 0 =>
       LET objects == ObjectsIn[at]
           done    == Len(objects) - Len(todo)
       IN  /\ running /\ at \in RoomNames /\ room \in DOMAIN nodes
           /\ done \in Nat
           /\ \A k \in 1..Len(todo) : todo[k] = objects[done + k]
           /\ \A k \in 1..done : HasLink(nodes, edges, room, objects[k])

Kept == Range(store) \ {Foreign}

IsExperience(e) ==
  /\ e.id \in Nat \ {0} /\ IsNode(e.node) /\ e.touch = e.node.touch
  /\ DOMAIN e.edges \subseteq Nat /\ IsInjective(e.edges)
  /\ \A k \in DOMAIN e.edges : e.edges[k] \in Pairs /\ e.edges[k][1] = e.id

\* The copies in the store do not contradict one another.
Consistent ==
  /\ store \in Seq(Range(store))
  /\ \A e \in Kept : IsExperience(e)
  /\ \E n \in Nat : \A e \in Kept :
       e.id <= n /\ e.touch <= n /\ \A k \in DOMAIN e.edges : k <= n
  /\ \A e, f \in Kept :
       /\ e.touch = f.touch => e.id = f.id
       /\ e.id = f.id => e.node.kind = f.node.kind /\ e.node.label = f.node.label
       /\ e.node.kind = "Room" /\ f.node.kind = "Room" /\ e.node.label = f.node.label
            => e.id = f.id

\* The node of that experience is there, and no older.
Follows(e) ==
  /\ e.id \in DOMAIN nodes
  /\ nodes[e.id].kind = e.node.kind /\ nodes[e.id].label = e.node.label
  /\ e.touch <= nodes[e.id].touch
  /\ \A i \in DOMAIN nodes : nodes[i].touch = e.touch => i = e.id

\* An open session knows all that is in the store.
Followed == running => \A e \in Kept : Follows(e)

Backed ==
  /\ running \in BOOLEAN
  /\ backend = "store" => ~torn /\ Consistent /\ Followed
  /\ backend # "store" => saved = None

IInv == Graphs /\ Visited /\ Backed

\* What is supposed of the library that holds the experiences: it hands out all
\* there are, and nothing else.
RetrievesAll ==
  \A S : \A records \in Seq(S) :
    Retrieved(records) \in Seq(S) /\ Range(Retrieved(records)) = Range(records)

\* What is supposed of it besides, for a load to find what was saved last: of
\* copies of the same age, it hands out the newest first.
NewestFirst == \A S : \A records \in Seq(S) : Retrieved(records) = Reverse(records)

\* What a text without the two tokens of a secret is made from.
Harmless == Tokens \ {"value", "jwt"}

\* What the memory does to a text keeps it within these tokens: scrub, from
\* which it comes, and scrub again (NotesHidden, ScrubbedAreTexts), sanitize,
\* which writes spaces, and clip, which writes a label instead.
Closed(T) ==
  /\ T \subseteq Tokens /\ {"space", "word"} \subseteq T
  /\ \A text \in Notes \cup {Plain} \cup Seq(T) : Scrub(text) \in Seq(T)

\* What is supposed of the notes for that: that a secret in them has a shape that
\* secrets.rs knows, where it can be found.
SecretsHaveShapes ==
  \A text \in Notes :
    \/ text \in Seq(Harmless)
    \/ \E shape \in Shapes, before \in Seq(Tokens), after \in TextsUpTo(1) :
         Findable(before, shape, after) /\ text = before \o shape \o after

\* The texts that are kept are made from these tokens.
Texts(T) ==
  /\ \A i \in DOMAIN nodes : nodes[i].content \in Seq(T)
  /\ \A i \in DOMAIN file.nodes : file.nodes[i].content \in Seq(T)
  /\ \A e \in Kept : e.node.content \in Seq(T)

\* The record at k is the newest of the freshest copies of a node.
Newest(k, id) ==
  /\ k \in DOMAIN store /\ store[k] # Foreign /\ store[k].id = id
  /\ \A j \in DOMAIN store : store[j] # Foreign /\ store[j].id = id =>
       \/ store[j].touch < store[k].touch
       \/ store[j].touch = store[k].touch /\ j <= k

\* Of the last whole save the store has every node, as it can hold it, with its
\* edges, no other node, and no fresher or newer copy.
Snapshot ==
  saved # None =>
    /\ \A e \in Kept : e.id \in DOMAIN saved.nodes
    /\ saved.nodes = [id \in DOMAIN saved.nodes |-> saved.nodes[id]]
    /\ \A e \in saved.edges : e[1] \in DOMAIN saved.nodes /\ e[2] \in DOMAIN saved.nodes
    /\ \A id \in DOMAIN saved.nodes : \E k \in DOMAIN store :
         /\ Newest(k, id) /\ store[k].node = Held(saved.nodes[id])
         /\ Range(store[k].edges) = {e \in saved.edges : e[1] = id}
    /\ \A id \in DOMAIN saved.nodes :
         IsNode(saved.nodes[id]) /\ saved.nodes[id].content \in Seq(Tokens)

-----------------------------------------------------------------------------
(* Numbers and sequences *)

\* Induction, in the form that the prover can use: by least counterexample.
LEMMA LeastElement ==
  ASSUME NEW T \in SUBSET Nat, T # {}
  PROVE  \E m \in T : \A k \in T : m <= k
<1>1. PICK m \in T : \A k \in T : <<k, m>> \notin OpToRel(<, Nat)
  BY NatLessThanWellFounded, WFMin
<1>2. \A k \in T : ~(k < m)
  BY <1>1 DEF OpToRel
<1> QED
  BY <1>2

LEMMA MaxIsIn ==
  ASSUME NEW T \in SUBSET Nat, T # {}, NEW n \in Nat, \A k \in T : k <= n
  PROVE  Max(T) \in T /\ \A k \in T : k <= Max(T)
<1> DEFINE below == {n - k : k \in T}
<1>1. below \in SUBSET Nat /\ below # {}
  <2>1. \A k \in T : n - k \in Nat
    OBVIOUS
  <2>2. \E k \in T : n - k \in below
    OBVIOUS
  <2> QED
    BY <2>1, <2>2
<1>2. PICK m \in below : \A k \in below : m <= k
  BY <1>1, LeastElement
<1>3. PICK x \in T : m = n - x
  OBVIOUS
<1>4. ASSUME NEW y \in T PROVE x >= y
  <2>1. n - y \in below
    OBVIOUS
  <2>2. m <= n - y
    BY <1>2, <2>1
  <2> QED
    BY <1>3, <2>2
<1> QED
  BY <1>4 DEF Max

\* SetToSeq lists each element of a finite set once.
LEMMA SetToSeqEnumerates ==
  ASSUME NEW S, IsFiniteSet(S)
  PROVE  /\ SetToSeq(S) \in Seq(S) /\ DOMAIN SetToSeq(S) = 1..Cardinality(S)
         /\ Cardinality(S) \in Nat
         /\ IsInjective(SetToSeq(S)) /\ Range(SetToSeq(S)) = S
<1> DEFINE n == Cardinality(S)
           s == SetToSeq(S)
<1>1. n \in Nat /\ ExistsBijection(1..n, S)
  BY FS_CardinalityType
<1>2. \E f \in [1..n -> S] : IsInjective(f)
  BY <1>1 DEF ExistsBijection, Bijection, Injection, IsInjective
<1>3. s \in [1..n -> S] /\ IsInjective(s)
  BY <1>2 DEF SetToSeq
<1> HIDE DEF s, n
<1>4. Range(s) \in SUBSET S /\ s \in Bijection(1..n, Range(s))
  BY <1>3 DEF Range, Bijection, Injection, Surjection, IsInjective
<1>5. Cardinality(Range(s)) = n
  BY <1>1, <1>4, FS_CountingElements DEF ExistsBijection
<1>6. Range(s) = S
  BY <1>4, <1>5, FS_Subset DEF n
<1>7. s \in Seq(S) /\ DOMAIN s = 1..n
  BY <1>1, <1>3, SeqDef
<1> QED
  BY <1>1, <1>3, <1>6, <1>7 DEF s, n

\* Among finitely many copies there is a freshest, and a first one of those.
LEMMA FreshestExists ==
  ASSUME NEW C \in SUBSET Nat, C # {}, NEW touch, NEW n \in Nat,
         \A k \in C : touch[k] \in Nat /\ touch[k] <= n
  PROVE  \E k \in C : \A j \in C :
           touch[j] < touch[k] \/ (touch[j] = touch[k] /\ j >= k)
<1> DEFINE T == {touch[k] : k \in C}
<1>1. T \in SUBSET Nat /\ T # {} /\ \A t \in T : t <= n
  OBVIOUS
<1> HIDE DEF T
<1>2. Max(T) \in T /\ \A t \in T : t <= Max(T)
  BY <1>1, MaxIsIn
<1> DEFINE F == {k \in C : touch[k] = Max(T)}
<1>3. F \in SUBSET Nat /\ F # {}
  BY <1>2 DEF T
<1>4. PICK k \in F : \A j \in F : k <= j
  <2> HIDE DEF F
  <2> QED
    BY <1>3, LeastElement
<1>5. ASSUME NEW j \in C PROVE touch[j] < touch[k] \/ (touch[j] = touch[k] /\ j >= k)
  <2>1. touch[j] \in T /\ touch[j] \in Nat /\ touch[k] \in Nat /\ touch[k] = Max(T)
    BY DEF T
  <2>2. touch[j] <= touch[k]
    BY <1>2, <2>1
  <2>3. touch[j] = touch[k] => j >= k
    BY <1>4, <2>1
  <2> QED
    BY <2>1, <2>2, <2>3
<1> QED
  BY <1>5

-----------------------------------------------------------------------------
(* One node, new or found, is touched at the next tick *)

Touched(kind, label, id) ==
  /\ DOMAIN nodes' = DOMAIN nodes \cup {id}
  /\ Counted(nodes', clock', seq')
  /\ nodes'[id].kind = kind /\ nodes'[id].label = label /\ nodes'[id].touch = clock + 1
  /\ \A i \in DOMAIN nodes \ {id} : nodes'[i] = nodes[i]
  /\ id \in DOMAIN nodes =>
       /\ nodes[id].kind = kind /\ nodes[id].label = label
       /\ nodes'[id].content = nodes[id].content
  /\ id \notin DOMAIN nodes => id = seq + 1

\* The node that remember makes is a new one.
LEMMA CreatedTouches ==
  ASSUME Counted(nodes, clock, seq), clock' \in Nat, clock < clock',
         NEW kind \in Kinds, NEW label \in Labels, NEW text, Created(kind, label, text)
  PROVE  Touched(kind, label, seq + 1) /\ seq + 1 \notin DOMAIN nodes
<1> DEFINE id == seq + 1
           new == Node(kind, label, Scrub(text), clock + 1)
<1>1. /\ clock \in Nat /\ seq \in Nat
      /\ \A i \in DOMAIN nodes : i \in 1..seq /\ IsNode(nodes[i]) /\ nodes[i].touch <= clock
      /\ \A i, j \in DOMAIN nodes : i # j => nodes[i].touch # nodes[j].touch
  BY DEF Counted
<1>2. seq' = id /\ nodes' = [i \in DOMAIN nodes \cup {id} |-> IF i = id THEN new ELSE nodes[i]]
  BY DEF Created
<1>3. IsNode(new) /\ new.kind = kind /\ new.label = label /\ new.touch = clock + 1
  BY <1>1 DEF IsNode, Node
<1>4. id \notin DOMAIN nodes /\ id \in Nat /\ \A i \in DOMAIN nodes : i \in 1..id /\ nodes[i].touch \in Nat
  BY <1>1 DEF IsNode
<1> HIDE DEF new, id
<1>5. /\ DOMAIN nodes' = DOMAIN nodes \cup {id} /\ nodes'[id] = new
      /\ \A i \in DOMAIN nodes : nodes'[i] = nodes[i]
      /\ nodes' = [i \in DOMAIN nodes' |-> nodes'[i]]
  BY <1>2, <1>4
<1>6. \A i \in DOMAIN nodes' : i \in 1..seq' /\ IsNode(nodes'[i]) /\ nodes'[i].touch <= clock'
  BY <1>1, <1>2, <1>3, <1>4, <1>5 DEF id
<1>7. \A i, j \in DOMAIN nodes' : i # j => nodes'[i].touch # nodes'[j].touch
  BY <1>1, <1>3, <1>4, <1>5
<1>8. Counted(nodes', clock', seq')
  BY <1>2, <1>4, <1>5, <1>6, <1>7 DEF Counted
<1>9. Touched(kind, label, id)
  BY <1>3, <1>4, <1>5, <1>8 DEF Touched, id
<1> QED
  BY <1>4, <1>9 DEF id

\* The node that reinforce touches is otherwise the one it was.
LEMMA ReinforcedTouches ==
  ASSUME Counted(nodes, clock, seq), clock' \in Nat, clock < clock',
         NEW kind, NEW label, NEW id \in Matches(kind, label), Reinforced(id)
  PROVE  Touched(kind, label, id)
<1>1. /\ clock \in Nat /\ seq \in Nat /\ nodes = [i \in DOMAIN nodes |-> nodes[i]]
      /\ \A i \in DOMAIN nodes : i \in 1..seq /\ IsNode(nodes[i]) /\ nodes[i].touch <= clock
      /\ \A i, j \in DOMAIN nodes : i # j => nodes[i].touch # nodes[j].touch
  BY DEF Counted
<1>2. id \in DOMAIN nodes /\ nodes[id].kind = kind /\ nodes[id].label = label
  BY DEF Matches
<1> DEFINE n == nodes[id]
           new == [n EXCEPT !.touch = clock + 1]
<1>3. seq' = seq /\ nodes' = [nodes EXCEPT ![id] = new]
  BY DEF Reinforced
<1>4. /\ IsNode(new) /\ new.kind = kind /\ new.label = label /\ new.touch = clock + 1
      /\ new.content = nodes[id].content
  BY <1>1, <1>2 DEF IsNode
<1>5. \A i \in DOMAIN nodes : nodes[i].touch \in Nat
  BY <1>1 DEF IsNode
<1> HIDE DEF new, n
<1>6. /\ DOMAIN nodes' = DOMAIN nodes /\ nodes'[id] = new
      /\ \A i \in DOMAIN nodes \ {id} : nodes'[i] = nodes[i]
      /\ nodes' = [i \in DOMAIN nodes' |-> nodes'[i]]
  BY <1>1, <1>2, <1>3
<1>7. \A i \in DOMAIN nodes' : i \in 1..seq' /\ IsNode(nodes'[i]) /\ nodes'[i].touch <= clock'
  BY <1>1, <1>3, <1>4, <1>5, <1>6
<1>8. \A i, j \in DOMAIN nodes' : i # j => nodes'[i].touch # nodes'[j].touch
  BY <1>1, <1>4, <1>5, <1>6
<1>9. Counted(nodes', clock', seq')
  BY <1>1, <1>3, <1>6, <1>7, <1>8 DEF Counted
<1> QED
  BY <1>2, <1>4, <1>6, <1>9 DEF Touched

\* A node is made only if there is none of that kind and name.
LEMMA FoundOrCreatedTouches ==
  ASSUME Counted(nodes, clock, seq), clock' \in Nat, clock < clock',
         NEW kind \in Kinds, NEW label \in Labels, NEW id, FoundOrCreated(kind, label, id)
  PROVE  Touched(kind, label, id) /\ (id \notin DOMAIN nodes => Matches(kind, label) = {})
<1>1. CASE id \in Matches(kind, label) /\ Reinforced(id)
  BY <1>1, ReinforcedTouches DEF Matches
<1>2. CASE Matches(kind, label) = {} /\ id = seq + 1 /\ Created(kind, label, Plain)
  BY <1>2, CreatedTouches
<1> QED
  BY <1>1, <1>2 DEF FoundOrCreated

\* What is linked stays linked.
LEMMA LinksStay ==
  ASSUME NEW kind, NEW label, NEW id, Touched(kind, label, id),
         NEW from, NEW name, HasLink(nodes, edges, from, name),
         edges \in Seq(Pairs), NEW e \in Pairs, edges' = edges \/ edges' = Append(edges, e)
  PROVE  HasLink(nodes', edges', from, name)
<1>1. PICK to \in DOMAIN nodes : /\ nodes[to].kind = "Resource" /\ nodes[to].label = name
                                 /\ \E k \in DOMAIN edges : edges[k] = <<from, to>>
  BY DEF HasLink
<1>2. to \in DOMAIN nodes' /\ nodes'[to].kind = "Resource" /\ nodes'[to].label = name
  BY <1>1 DEF Touched
<1>3. PICK k \in DOMAIN edges : edges[k] = <<from, to>>
  BY <1>1
<1>4. k \in DOMAIN edges' /\ edges'[k] = edges[k]
  OBVIOUS
<1> QED
  BY <1>2, <1>3, <1>4 DEF HasLink

\* The shape is kept, if a room made is not one that there was, and an edge
\* added is new and joins two nodes.
LEMMA ShapeKept ==
  ASSUME NEW kind, NEW label, NEW id, Touched(kind, label, id),
         Shaped(nodes, edges), edges \in Seq(Pairs),
         kind = "Room" /\ id \notin DOMAIN nodes => Matches(kind, label) = {},
         \/ edges' = edges
         \/ \E e \in Pairs : /\ edges' = Append(edges, e)
                             /\ e[1] \in DOMAIN nodes' /\ e[2] \in DOMAIN nodes'
                             /\ \A k \in DOMAIN edges : edges[k] # e
  PROVE  Shaped(nodes', edges')
<1>1. DOMAIN nodes \subseteq DOMAIN nodes'
  BY DEF Touched
<1>2. /\ \A k \in DOMAIN edges' : edges'[k][1] \in DOMAIN nodes' /\ edges'[k][2] \in DOMAIN nodes'
      /\ IsInjective(edges')
  <2>1. CASE edges' = edges
    BY <1>1, <2>1 DEF Shaped
  <2>2. CASE edges' # edges
    <3>1. PICK e \in Pairs : /\ edges' = Append(edges, e)
                             /\ e[1] \in DOMAIN nodes' /\ e[2] \in DOMAIN nodes'
                             /\ \A k \in DOMAIN edges : edges[k] # e
      BY <2>2
    <3>2. /\ Len(edges) \in Nat /\ DOMAIN edges = 1..Len(edges)
          /\ DOMAIN edges' = 1..(Len(edges) + 1) /\ edges'[Len(edges) + 1] = e
          /\ \A k \in 1..Len(edges) : edges'[k] = edges[k]
      BY <3>1
    <3>3. \A k \in DOMAIN edges' : k \in DOMAIN edges \/ k = Len(edges) + 1
      BY <3>2
    <3>4. \A k \in DOMAIN edges' : edges'[k][1] \in DOMAIN nodes' /\ edges'[k][2] \in DOMAIN nodes'
      BY <1>1, <3>1, <3>2, <3>3 DEF Shaped
    <3>5. ASSUME NEW k \in DOMAIN edges', NEW l \in DOMAIN edges', edges'[k] = edges'[l]
          PROVE  k = l
      <4>1. \A x, y \in DOMAIN edges : edges[x] = edges[y] => x = y
        BY DEF Shaped, IsInjective
      <4>2. CASE k \in DOMAIN edges /\ l \in DOMAIN edges
        BY <3>2, <3>5, <4>1, <4>2
      <4>3. CASE k \notin DOMAIN edges \/ l \notin DOMAIN edges
        <5>1. k \notin DOMAIN edges => edges'[k] = e
          BY <3>2, <3>3
        <5>2. l \notin DOMAIN edges => edges'[l] = e
          BY <3>2, <3>3
        <5>3. \A x \in DOMAIN edges : edges'[x] # e
          BY <3>1, <3>2
        <5> QED
          BY <3>3, <3>5, <4>3, <5>1, <5>2, <5>3
      <4> QED
        BY <4>2, <4>3
    <3> QED
      BY <3>4, <3>5 DEF IsInjective
  <2> QED
    BY <2>1, <2>2
<1>3. ASSUME NEW i \in DOMAIN nodes', NEW j \in DOMAIN nodes', nodes'[i].kind = "Room",
             nodes'[j].kind = "Room", nodes'[i].label = nodes'[j].label
      PROVE  i = j
  <2>1. \A x \in DOMAIN nodes : nodes'[x].kind = nodes[x].kind /\ nodes'[x].label = nodes[x].label
    BY DEF Touched
  <2>2. CASE id \in DOMAIN nodes
    <3>1. DOMAIN nodes' = DOMAIN nodes
      BY <2>2 DEF Touched
    <3> QED
      BY <1>3, <2>1, <3>1 DEF Shaped
  <2>3. CASE id \notin DOMAIN nodes
    <3>1. /\ DOMAIN nodes' = DOMAIN nodes \cup {id}
          /\ nodes'[id].kind = kind /\ nodes'[id].label = label
      BY DEF Touched
    <3>2. kind = "Room" => \A x \in DOMAIN nodes : ~(nodes[x].kind = "Room" /\ nodes[x].label = label)
      BY <2>3 DEF Matches
    <3> QED
      BY <1>3, <2>1, <3>1, <3>2 DEF Shaped
  <2> QED
    BY <2>2, <2>3
<1> QED
  BY <1>2, <1>3 DEF Shaped

\* So is what the store knows of the session.
LEMMA FollowedKept ==
  ASSUME IInv, NEW kind, NEW label, NEW id, Touched(kind, label, id), UNCHANGED storage,
         running, running', torn' = torn
  PROVE  Backed'
<1>0. /\ storage' = storage /\ backend' = backend /\ store' = store /\ saved' = saved
      /\ Counted(nodes, clock, seq)
  BY DEF storage, IInv, Graphs
<1>1. Kept' = Kept
  BY <1>0 DEF Kept
<1>2. ASSUME backend = "store" PROVE ~torn' /\ Consistent' /\ Followed'
  <2>0. ~torn /\ Consistent /\ Followed
    BY <1>2 DEF IInv, Backed
  <2>1. Consistent'
    BY <1>0, <1>1, <2>0 DEF Consistent
  <2>2. ASSUME NEW e \in Kept PROVE Follows(e)'
    <3>1. /\ e.id \in DOMAIN nodes
          /\ nodes[e.id].kind = e.node.kind /\ nodes[e.id].label = e.node.label
          /\ e.touch <= nodes[e.id].touch
          /\ \A i \in DOMAIN nodes : nodes[i].touch = e.touch => i = e.id
      BY <2>0 DEF Followed, Follows
    <3>2. e.touch \in Nat
      BY <2>0 DEF Consistent, IsExperience, IsNode
    <3>3. /\ clock \in Nat /\ nodes[e.id].touch \in Nat /\ nodes[e.id].touch <= clock
      BY <1>0, <3>1 DEF Counted, IsNode
    <3>4. e.touch <= clock
      BY <3>1, <3>2, <3>3
    <3>5. nodes'[id].touch = clock + 1 /\ id \in DOMAIN nodes'
          /\ nodes'[id].kind = kind /\ nodes'[id].label = label
      BY DEF Touched
    <3>6. CASE e.id = id
      BY <3>1, <3>2, <3>3, <3>4, <3>5, <3>6 DEF Touched, Follows
    <3>7. CASE e.id # id
      BY <3>1, <3>2, <3>3, <3>4, <3>5, <3>7 DEF Touched, Follows
    <3> QED
      BY <3>6, <3>7
  <2> QED
    BY <1>1, <2>0, <2>1, <2>2 DEF Followed
<1>3. backend # "store" => saved' = None
  BY <1>0 DEF IInv, Backed
<1>4. running' \in BOOLEAN
  OBVIOUS
<1> QED
  BY <1>0, <1>2, <1>3, <1>4, Zenon DEF Backed

-----------------------------------------------------------------------------
(* Steps of a session *)

\* A note is a new node, no room and not linked.
LEMMA RecordOtherStep ==
  ASSUME GraphAssumption, IInv, NEW text \in Notes, RecordOther(text), UNCHANGED storage
  PROVE  IInv'
<1>1. /\ Counted(nodes, clock, seq) /\ edges \in Seq(Pairs) /\ clock \in Nat
      /\ Counted(file.nodes, file.clock, file.seq) /\ file.edges \in Seq(Pairs)
  BY DEF IInv, Graphs, Counted
<1>2. /\ running /\ running' = running /\ clock' = clock + 1
      /\ edges' = edges /\ file' = file /\ torn' = torn
      /\ room' = room /\ at' = at /\ todo' = todo
  BY DEF RecordOther, visit
<1>3. Touched("Other", Note, seq + 1)
  <2>1. Created("Other", Note, text) /\ clock' \in Nat /\ clock < clock'
    BY <1>1, <1>2 DEF RecordOther
  <2>2. "Other" \in Kinds /\ Note \in Labels
    BY DEF GraphAssumption, Kinds
  <2> QED
    BY <1>1, <2>1, <2>2, CreatedTouches
<1>4. ~torn => Shaped(nodes', edges')
  <2>1. ~torn => Shaped(nodes, edges)
    BY DEF IInv, Graphs
  <2> QED
    BY <1>1, <1>2, <1>3, <2>1, ShapeKept
<1>5. Graphs'
  <2>1. Counted(nodes', clock', seq')
    BY <1>3 DEF Touched
  <2>2. ~torn => Shaped(file.nodes, file.edges)
    BY DEF IInv, Graphs
  <2> QED
    BY <1>1, <1>2, <1>4, <2>1, <2>2 DEF Graphs
<1>6. Visited'
  <2>1. todo' \in Seq(Labels) /\ (room' = 0 => todo' = << >>)
    BY <1>2 DEF IInv, Visited
  <2>2. ASSUME room # 0
        PROVE  \A k \in 1..(Len(ObjectsIn[at]) - Len(todo)) :
                 HasLink(nodes', edges', room, ObjectsIn[at][k])
    <3>1. /\ <<0, 0>> \in Pairs
          /\ \A k \in 1..(Len(ObjectsIn[at]) - Len(todo)) : HasLink(nodes, edges, room, ObjectsIn[at][k])
      BY <2>2 DEF Pairs, IInv, Visited
    <3> QED
      BY <1>1, <1>2, <1>3, <3>1, LinksStay
  <2>3. room # 0 => room \in DOMAIN nodes'
    BY <1>3 DEF IInv, Visited, Touched
  <2> QED
    BY <1>2, <2>1, <2>2, <2>3 DEF IInv, Visited
<1>7. Backed'
  BY <1>2, <1>3, FollowedKept
<1> QED
  BY <1>5, <1>6, <1>7 DEF IInv

\* A visit begins: nothing of the room has been gone through.
LEMMA RememberRoomStep ==
  ASSUME GraphAssumption, IInv, NEW name \in RoomNames, RememberRoom(name), UNCHANGED storage
  PROVE  IInv'
<1>1. /\ Counted(nodes, clock, seq) /\ edges \in Seq(Pairs) /\ clock \in Nat
      /\ Counted(file.nodes, file.clock, file.seq) /\ file.edges \in Seq(Pairs)
  BY DEF IInv, Graphs, Counted
<1>2. /\ running /\ running' = running /\ clock' = clock + 1
      /\ edges' = edges /\ file' = file /\ torn' = torn
      /\ at' = name /\ todo' = ObjectsIn[name]
  BY DEF RememberRoom
<1>3. PICK id : FoundOrCreated("Room", name, id) /\ room' = id
  BY DEF RememberRoom
<1>4. Touched("Room", name, id) /\ (id \notin DOMAIN nodes => Matches("Room", name) = {})
  <2>1. "Room" \in Kinds /\ name \in Labels /\ clock' \in Nat /\ clock < clock'
    BY <1>1, <1>2 DEF GraphAssumption, Kinds
  <2> QED
    BY <1>1, <1>3, <2>1, FoundOrCreatedTouches
<1>5. ~torn => Shaped(nodes', edges')
  <2>1. ~torn => Shaped(nodes, edges)
    BY DEF IInv, Graphs
  <2> QED
    BY <1>1, <1>2, <1>4, <2>1, ShapeKept
<1>6. Graphs'
  <2>1. Counted(nodes', clock', seq')
    BY <1>4 DEF Touched
  <2>2. ~torn => Shaped(file.nodes, file.edges)
    BY DEF IInv, Graphs
  <2> QED
    BY <1>1, <1>2, <1>5, <2>1, <2>2 DEF Graphs
<1>7. Visited'
  <2>1. id \in DOMAIN nodes' /\ Counted(nodes', clock', seq')
    BY <1>4 DEF Touched
  <2>2. id # 0
    BY <2>1 DEF Counted
  <2>3. ObjectsIn[name] \in Seq(Labels)
    BY DEF GraphAssumption
  <2>4. Len(ObjectsIn[name]) \in Nat /\ Len(ObjectsIn[name]) - Len(ObjectsIn[name]) = 0
    BY <2>3
  <2> QED
    BY <1>2, <1>3, <2>1, <2>2, <2>3, <2>4 DEF Visited
<1>8. Backed'
  BY <1>2, <1>4, FollowedKept
<1> QED
  BY <1>6, <1>7, <1>8 DEF IInv

\* The next resource of the room is linked to it.
LEMMA RememberResourceStep ==
  ASSUME GraphAssumption, IInv, RememberResource, UNCHANGED storage
  PROVE  IInv'
<1> DEFINE objects == ObjectsIn[at]
           done    == Len(objects) - Len(todo)
           name    == Head(todo)
<1>1. /\ Counted(nodes, clock, seq) /\ edges \in Seq(Pairs) /\ clock \in Nat
      /\ Counted(file.nodes, file.clock, file.seq) /\ file.edges \in Seq(Pairs)
  BY DEF IInv, Graphs, Counted
<1>2. /\ running /\ running' = running /\ file' = file /\ torn' = torn
      /\ room' = room /\ at' = at /\ todo # << >> /\ todo' = Tail(todo)
  BY DEF RememberResource, Busy
<1>3. PICK id : /\ FoundOrCreated("Resource", name, id)
                /\ IF Linked(room, id)
                   THEN clock' = clock + 1 /\ UNCHANGED edges
                   ELSE clock' = clock + 2 /\ edges' = Append(edges, <<room, id>>)
  BY DEF RememberResource
<1>4. /\ todo \in Seq(Labels) /\ room # 0 /\ at \in RoomNames /\ room \in DOMAIN nodes
      /\ done \in Nat /\ \A k \in 1..Len(todo) : todo[k] = objects[done + k]
  BY <1>2 DEF IInv, Visited
<1>5. objects \in Seq(Labels) /\ name \in Labels /\ Len(todo) \in Nat \ {0} /\ name = objects[done + 1]
  <2>1. objects \in Seq(Labels)
    BY <1>4 DEF GraphAssumption
  <2>2. Len(todo) \in Nat \ {0} /\ name = todo[1] /\ todo[1] \in Labels
    BY <1>2, <1>4
  <2> QED
    BY <1>4, <2>1, <2>2
<1>6. Touched("Resource", name, id)
  <2>1. "Resource" \in Kinds /\ clock' \in Nat /\ clock < clock'
    BY <1>1, <1>3 DEF Kinds
  <2> QED
    BY <1>1, <1>3, <1>5, <2>1, FoundOrCreatedTouches
<1>7. /\ DOMAIN nodes \subseteq DOMAIN nodes' /\ Counted(nodes', clock', seq')
      /\ id \in DOMAIN nodes' /\ nodes'[id].kind = "Resource" /\ nodes'[id].label = name
  BY <1>6 DEF Touched
<1> DEFINE e == <<room, id>>
<1>8. e \in Pairs /\ e[1] = room /\ e[2] = id
  BY <1>4, <1>7 DEF Pairs, Counted
<1>9. edges' = edges \/ edges' = Append(edges, e)
  BY <1>3
<1>10. ~torn => Shaped(nodes', edges')
  <2>1. ~torn => Shaped(nodes, edges)
    BY DEF IInv, Graphs
  <2>2. \/ edges' = edges
        \/ /\ edges' = Append(edges, e) /\ e[1] \in DOMAIN nodes' /\ e[2] \in DOMAIN nodes'
           /\ \A k \in DOMAIN edges : edges[k] # e
    BY <1>3, <1>4, <1>7, <1>8 DEF Linked
  <2> HIDE DEF e
  <2> QED
    BY <1>1, <1>6, <1>8, <2>1, <2>2, ShapeKept
<1>11. Graphs'
  <2>1. ~torn => Shaped(file.nodes, file.edges)
    BY DEF IInv, Graphs
  <2>2. edges' \in Seq(Pairs)
    <3> HIDE DEF e
    <3> QED
      BY <1>1, <1>8, <1>9
  <2> QED
    BY <1>1, <1>2, <1>7, <1>10, <2>1, <2>2 DEF Graphs
<1>12. Visited'
  <2>1. /\ todo' \in Seq(Labels) /\ Len(todo') = Len(todo) - 1
        /\ \A k \in 1..Len(todo') : todo'[k] = todo[k + 1]
    BY <1>2, <1>4
  <2>2. objects' = objects /\ done' = done + 1 /\ done' \in Nat
    BY <1>2, <1>4, <1>5, <2>1
  <2>3. \A k \in 1..Len(todo') : todo'[k] = objects[done + 1 + k]
    BY <1>4, <1>5, <2>1
  <2>4. \A k \in 1..done : HasLink(nodes', edges', room, objects[k])
    <3>1. \A k \in 1..done : HasLink(nodes, edges, room, objects[k])
      BY <1>4 DEF IInv, Visited
    <3> HIDE DEF e, objects, done
    <3> QED
      BY <1>1, <1>6, <1>8, <1>9, <3>1, LinksStay
  <2>5. HasLink(nodes', edges', room, name)
    <3>1. \E k \in DOMAIN edges' : edges'[k] = e
      <4>1. CASE Linked(room, id)
        BY <1>3, <4>1 DEF Linked
      <4>2. CASE ~Linked(room, id)
        <5>1. edges' = Append(edges, e)
          BY <1>3, <4>2
        <5>2. Len(edges) + 1 \in DOMAIN edges' /\ edges'[Len(edges) + 1] = e
          BY <1>1, <1>8, <5>1
        <5> QED
          BY <5>2
      <4> QED
        BY <4>1, <4>2
    <3> QED
      BY <1>7, <3>1 DEF HasLink
  <2>6. \A k \in 1..(done + 1) : HasLink(nodes', edges', room, objects[k])
    <3>1. \A k \in 1..(done + 1) : k \in 1..done \/ k = done + 1
      BY <1>4
    <3> HIDE DEF done, objects
    <3> QED
      BY <1>5, <2>4, <2>5, <3>1
  <2>7. room' \in DOMAIN nodes' /\ room' # 0 /\ at' \in RoomNames /\ running'
    BY <1>2, <1>4, <1>7
  <2>8. \A k \in 1..done' : HasLink(nodes', edges', room', objects'[k])
    BY <1>2, <2>2, <2>6
  <2>9. \A k \in 1..Len(todo') : todo'[k] = objects'[done' + k]
    BY <2>2, <2>3
  <2> QED
    BY <2>1, <2>2, <2>7, <2>8, <2>9 DEF Visited
<1>13. Backed'
  BY <1>2, <1>6, FollowedKept
<1> QED
  BY <1>11, <1>12, <1>13 DEF IInv

-----------------------------------------------------------------------------
(* The file *)

LEMMA NothingIsCounted ==
  Counted(Empty, 0, 0) /\ Shaped(Empty, << >>) /\ << >> \in Seq(Pairs)
BY DEF Counted, Shaped, Empty, IsInjective

\* A process that has ended holds nothing.
LEMMA GoneIsSound ==
  ASSUME Gone
  PROVE  /\ Counted(nodes', clock', seq') /\ edges' \in Seq(Pairs) /\ Shaped(nodes', edges')
         /\ Visited' /\ running' = FALSE
<1>1. /\ nodes' = Empty /\ edges' = << >> /\ clock' = 0 /\ seq' = 0 /\ running' = FALSE
      /\ room' = 0 /\ todo' = << >>
  BY DEF Gone
<1>2. << >> \in Seq(Labels)
  OBVIOUS
<1> QED
  BY <1>1, <1>2, NothingIsCounted DEF Visited

\* Some of the nodes, whatever was cut off their labels and contents.
LEMMA SomeAreCounted ==
  ASSUME Counted(nodes, clock, seq), NEW ids \in SUBSET DOMAIN nodes, NEW ns,
         DOMAIN ns = ids, ns = [i \in DOMAIN ns |-> ns[i]],
         \A i \in ids : IsNode(ns[i]) /\ ns[i].touch = nodes[i].touch
  PROVE  Counted(ns, clock, seq)
<1>1. \A i \in ids : i \in 1..seq /\ IsNode(ns[i]) /\ ns[i].touch <= clock
  BY DEF Counted
<1>2. \A i, j \in ids : i # j => ns[i].touch # ns[j].touch
  BY DEF Counted
<1> QED
  BY <1>1, <1>2 DEF Counted

LEMMA CutIsNode ==
  ASSUME NEW n, IsNode(n), NEW label \in Labels, NEW content
  PROVE  LET m == [n EXCEPT !.label = label, !.content = content]
         IN  IsNode(m) /\ m.touch = n.touch
BY DEF IsNode

\* What the file is given is counted and shaped as the graph is.
LEMMA SavedSound ==
  ASSUME Counted(nodes, clock, seq)
  PROVE  /\ Counted(Saved.nodes, clock, seq)
         /\ DOMAIN Saved.nodes = DOMAIN nodes
         /\ Saved.edges = edges /\ Saved.clock = clock /\ Saved.seq = seq
         /\ Saved.nodes = [i \in DOMAIN nodes |-> Saved.nodes[i]]
         /\ \A i \in DOMAIN nodes :
              /\ IsNode(Saved.nodes[i]) /\ Saved.nodes[i].kind = nodes[i].kind
              /\ Saved.nodes[i].label = nodes[i].label /\ Saved.nodes[i].touch = nodes[i].touch
<1> DEFINE ns == [i \in DOMAIN nodes |-> [nodes[i] EXCEPT !.content = Sanitized(@)]]
<1>1. Saved.nodes = ns /\ Saved.edges = edges /\ Saved.clock = clock /\ Saved.seq = seq
  BY DEF Saved
<1>2. ASSUME NEW i \in DOMAIN nodes
      PROVE  /\ IsNode(ns[i]) /\ ns[i].kind = nodes[i].kind
             /\ ns[i].label = nodes[i].label /\ ns[i].touch = nodes[i].touch
  <2> DEFINE c == Sanitized(nodes[i].content)
  <2>1. ns[i] = [nodes[i] EXCEPT !.content = c]
    OBVIOUS
  <2>2. IsNode(nodes[i])
    BY DEF Counted
  <2> HIDE DEF c, ns
  <2> QED
    BY <2>1, <2>2 DEF IsNode
<1>3. DOMAIN ns = DOMAIN nodes /\ ns = [i \in DOMAIN nodes |-> ns[i]]
  OBVIOUS
<1> HIDE DEF ns
<1>4. Counted(ns, clock, seq)
  BY <1>2, <1>3, SomeAreCounted
<1> QED
  BY <1>1, <1>2, <1>3, <1>4

\* However the file is cut, its counters are ahead of its nodes.
LEMMA TornIsCounted ==
  ASSUME Counted(nodes, clock, seq), edges \in Seq(Pairs), NEW f \in TornFiles
  PROVE  Counted(f.nodes, f.clock, f.seq) /\ f.edges \in Seq(Pairs)
<1>1. CASE f \in TornInHeader
  <2>1. f.nodes = Empty /\ f.edges = << >> /\ f.clock \in Nat /\ f.seq \in Nat
    <3>1. CASE f = EmptyFile
      BY <3>1 DEF EmptyFile
    <3>2. CASE f \in {[EmptyFile EXCEPT !.clock = clock, !.seq = s] : s \in 0..seq}
      <4>1. PICK s \in 0..seq : f = [EmptyFile EXCEPT !.clock = clock, !.seq = s]
        BY <3>2
      <4> QED
        BY <4>1 DEF EmptyFile, Counted
    <3> QED
      BY <1>1, <3>1, <3>2 DEF TornInHeader
  <2> QED
    BY <2>1, NothingIsCounted DEF Counted, Empty
<1>2. CASE f \in TornInNodes
  <2> DEFINE texts == UNION {Prefixes(Saved.nodes[i].content) : i \in DOMAIN nodes}
  <2>1. PICK ids \in SUBSET DOMAIN nodes, last \in DOMAIN nodes, l \in Labels, c \in texts :
             f = NodesCut(ids, last, l, c)
    BY <1>2 DEF TornInNodes
  <2> DEFINE ns == [i \in ids |-> IF i = last
                      THEN [Saved.nodes[i] EXCEPT !.label = l, !.content = c]
                      ELSE Saved.nodes[i]]
  <2>2. f.nodes = ns /\ f.edges = << >> /\ f.clock = clock /\ f.seq = seq
    BY <2>1 DEF NodesCut
  <2>3. ASSUME NEW i \in ids PROVE IsNode(ns[i]) /\ ns[i].touch = nodes[i].touch
    <3>1. IsNode(Saved.nodes[i]) /\ Saved.nodes[i].touch = nodes[i].touch
      BY SavedSound
    <3>2. ns[i] = IF i = last THEN [Saved.nodes[i] EXCEPT !.label = l, !.content = c]
                              ELSE Saved.nodes[i]
      OBVIOUS
    <3> HIDE DEF ns
    <3>3. CASE i = last
      <4> DEFINE n == Saved.nodes[i]
      <4>1. IsNode(n) /\ n.touch = nodes[i].touch /\ ns[i] = [n EXCEPT !.label = l, !.content = c]
        BY <3>1, <3>2, <3>3
      <4> HIDE DEF n
      <4> DEFINE m == [n EXCEPT !.label = l, !.content = c]
      <4>2. IsNode(m) /\ m.touch = n.touch
        BY <4>1, CutIsNode
      <4> HIDE DEF m
      <4> QED
        BY <4>1, <4>2 DEF m
    <3>4. CASE i # last
      BY <3>1, <3>2, <3>4
    <3> QED
      BY <3>3, <3>4
  <2>4. DOMAIN ns = ids /\ ns = [i \in DOMAIN ns |-> ns[i]]
    OBVIOUS
  <2> HIDE DEF ns
  <2> QED
    BY <2>2, <2>3, <2>4, SomeAreCounted
<1>3. CASE f \in TornInEdges
  <2>1. ASSUME NEW es, es \in Seq(Pairs), f = [Saved EXCEPT !.edges = es]
        PROVE  Counted(f.nodes, f.clock, f.seq) /\ f.edges \in Seq(Pairs)
    <3>1. f.nodes = Saved.nodes /\ f.clock = Saved.clock /\ f.seq = Saved.seq /\ f.edges = es
      BY <2>1 DEF Saved
    <3> QED
      BY <2>1, <3>1, SavedSound
  <2>2. \A n \in 0..Len(edges) : SubSeq(edges, 1, n) \in Seq(Pairs)
    OBVIOUS
  <2>3. CASE f \in {[Saved EXCEPT !.edges = SubSeq(edges, 1, n)] : n \in 0..Len(edges)}
    BY <2>1, <2>2, <2>3
  <2>4. CASE \E n \in 0..(Len(edges) - 1), to \in 0..seq :
               f = [Saved EXCEPT !.edges = Append(SubSeq(edges, 1, n), <<edges[n + 1][1], to>>)]
    <3>1. PICK n \in 0..(Len(edges) - 1), to \in 0..seq :
               f = [Saved EXCEPT !.edges = Append(SubSeq(edges, 1, n), <<edges[n + 1][1], to>>)]
      BY <2>4
    <3>2. <<edges[n + 1][1], to>> \in Pairs
      <4>1. edges[n + 1] \in Pairs /\ to \in Nat
        BY DEF Counted
      <4> QED
        BY <4>1 DEF Pairs
    <3> DEFINE e == <<edges[n + 1][1], to>>
    <3>3. SubSeq(edges, 1, n) \in Seq(Pairs)
      BY <2>2
    <3> HIDE DEF e
    <3>4. Append(SubSeq(edges, 1, n), e) \in Seq(Pairs)
      BY <3>2, <3>3 DEF e
    <3> QED
      BY <2>1, <3>1, <3>4 DEF e
  <2> QED
    BY <1>3, <2>3, <2>4 DEF TornInEdges
<1> QED
  BY <1>1, <1>2, <1>3 DEF TornFiles

\* What was asked of the file is now asked of the graph.
LEMMA LaunchStep ==
  ASSUME IInv, backend = "file", Launch, UNCHANGED storage
  PROVE  IInv'
<1>1. /\ ~running /\ running' = TRUE /\ file' = file /\ torn' = torn
      /\ nodes' = file.nodes /\ edges' = file.edges /\ clock' = file.clock /\ seq' = file.seq
      /\ room' = room /\ at' = at /\ todo' = todo /\ backend' = backend /\ saved' = saved
  BY DEF Launch, visit, storage
<1>2. Graphs'
  BY <1>1 DEF IInv, Graphs
<1>3. Visited'
  BY <1>1 DEF IInv, Visited
<1>4. Backed'
  BY <1>1 DEF IInv, Backed
<1> QED
  BY <1>2, <1>3, <1>4 DEF IInv

LEMMA ExitStep ==
  ASSUME IInv, backend = "file", Exit, UNCHANGED storage
  PROVE  IInv'
<1>1. Gone /\ file' = Saved /\ torn' = torn /\ backend' = backend /\ saved' = saved
  BY DEF Exit, storage
<1>2. Counted(nodes, clock, seq) /\ edges \in Seq(Pairs) /\ (~torn => Shaped(nodes, edges))
  BY DEF IInv, Graphs
<1>3. ~torn => Shaped(file'.nodes, file'.edges)
  BY <1>1, <1>2, SavedSound DEF Shaped
<1>4. Graphs'
  BY <1>1, <1>2, <1>3, GoneIsSound, SavedSound DEF Graphs
<1>5. Visited' /\ Backed'
  BY <1>1, GoneIsSound DEF IInv, Backed
<1> QED
  BY <1>4, <1>5 DEF IInv

LEMMA ExitTornStep ==
  ASSUME IInv, backend = "file", ExitTorn, UNCHANGED storage
  PROVE  IInv'
<1>1. Gone /\ file' \in TornFiles /\ torn' = TRUE /\ backend' = backend /\ saved' = saved
  BY DEF ExitTorn, storage
<1>2. Counted(nodes, clock, seq) /\ edges \in Seq(Pairs)
  BY DEF IInv, Graphs
<1>3. Graphs'
  BY <1>1, <1>2, GoneIsSound, TornIsCounted DEF Graphs
<1>4. Visited' /\ Backed'
  BY <1>1, GoneIsSound DEF IInv, Backed
<1> QED
  BY <1>3, <1>4 DEF IInv

LEMMA KillStep ==
  ASSUME IInv, Kill, UNCHANGED storage
  PROVE  IInv'
<1>1. /\ Gone /\ file' = file /\ torn' = torn
      /\ backend' = backend /\ saved' = saved /\ store' = store
  BY DEF Kill, storage
<1>2. Graphs'
  BY <1>1, GoneIsSound DEF IInv, Graphs
<1>3. Kept' = Kept
  BY <1>1 DEF Kept
<1>4. backend = "store" => ~torn' /\ Consistent' /\ Followed'
  <2>1. backend = "store" => ~torn /\ Consistent
    BY DEF IInv, Backed
  <2>2. running' = FALSE
    BY <1>1, GoneIsSound
  <2>3. Consistent => Consistent'
    BY <1>1, <1>3 DEF Consistent
  <2>4. Followed'
    BY <2>2 DEF Followed
  <2> QED
    BY <1>1, <2>1, <2>3, <2>4
<1>5. Visited' /\ Backed'
  BY <1>1, <1>4, GoneIsSound DEF IInv, Backed
<1> QED
  BY <1>2, <1>5 DEF IInv

-----------------------------------------------------------------------------
(* Saving to the store *)

LEMMA EdgesFromAreEdges ==
  ASSUME edges \in Seq(Pairs), IsInjective(edges), NEW id
  PROVE  /\ DOMAIN EdgesFrom(id) = {k \in DOMAIN edges : edges[k][1] = id}
         /\ \A k \in DOMAIN EdgesFrom(id) :
              /\ k \in 1..Len(edges) /\ EdgesFrom(id)[k] = edges[k]
              /\ EdgesFrom(id)[k] \in Pairs /\ EdgesFrom(id)[k][1] = id
         /\ IsInjective(EdgesFrom(id))
<1> DEFINE places == {k \in DOMAIN edges : edges[k][1] = id}
           es == EdgesFrom(id)
<1>1. es = [k \in places |-> edges[k]]
  BY DEF EdgesFrom, Restrict
<1>2. DOMAIN es = places /\ \A k \in places : es[k] = edges[k]
  BY <1>1
<1>3. \A k \in places : k \in 1..Len(edges) /\ edges[k] \in Pairs /\ edges[k][1] = id
  OBVIOUS
<1>4. \A k, l \in places : edges[k] = edges[l] => k = l
  BY DEF IsInjective
<1> HIDE DEF es
<1>5. IsInjective(es)
  BY <1>2, <1>4 DEF IsInjective
<1> QED
  BY <1>2, <1>3, <1>5 DEF es

\* The store holds all of a node but its text as it is.
LEMMA HeldIsNode ==
  ASSUME NEW n, IsNode(n)
  PROVE  /\ IsNode(Held(n)) /\ Held(n).content = Clip(Scrub(n.content), Plain)
         /\ Held(n).kind = n.kind /\ Held(n).label = n.label /\ Held(n).touch = n.touch
         /\ Clip(Scrub(n.content), Plain) = n.content => Held(n) = n
<1> DEFINE c == Clip(Scrub(n.content), Plain)
<1>1. Held(n) = [n EXCEPT !.content = c]
  BY DEF Held
<1> HIDE DEF c
<1>2. Held(n) = [kind |-> n.kind, label |-> n.label, content |-> c, touch |-> n.touch]
  BY <1>1 DEF IsNode
<1>3. n = [kind |-> n.kind, label |-> n.label, content |-> n.content, touch |-> n.touch]
  BY DEF IsNode
<1>4. /\ IsNode(Held(n)) /\ Held(n).content = c
      /\ Held(n).kind = n.kind /\ Held(n).label = n.label /\ Held(n).touch = n.touch
  BY <1>2 DEF IsNode
<1> QED
  BY <1>2, <1>3, <1>4 DEF c

\* What is written of a node is an experience, and the session follows it.
LEMMA ExperienceFollowed ==
  ASSUME Counted(nodes, clock, seq), edges \in Seq(Pairs), Shaped(nodes, edges),
         NEW id \in DOMAIN nodes
  PROVE  LET e == Experience(id)
         IN  /\ IsExperience(e) /\ Follows(e)
             /\ e.id = id /\ e.touch = nodes[id].touch /\ e.touch <= clock
             /\ e.node.kind = nodes[id].kind /\ e.node.label = nodes[id].label
             /\ \A k \in DOMAIN e.edges : k <= Len(edges)
<1> DEFINE e == Experience(id)
           n == Held(nodes[id])
<1>1. id \in Nat \ {0} /\ IsNode(nodes[id]) /\ nodes[id].touch <= clock
  BY DEF Counted
<1>2. /\ e.id = id /\ e.node = n /\ e.touch = nodes[id].touch /\ e.edges = EdgesFrom(id)
  BY DEF Experience
<1>3. /\ IsNode(n) /\ n.kind = nodes[id].kind /\ n.label = nodes[id].label
      /\ n.touch = nodes[id].touch /\ nodes[id].touch \in Nat
  BY <1>1, HeldIsNode DEF IsNode
<1>4. IsInjective(edges)
  BY DEF Shaped
<1> HIDE DEF e, n
<1>5. IsExperience(e) /\ \A k \in DOMAIN e.edges : k <= Len(edges)
  <2> DEFINE es == EdgesFrom(id)
  <2>0. /\ IsInjective(es)
        /\ \A k \in DOMAIN es : k \in 1..Len(edges) /\ es[k] \in Pairs /\ es[k][1] = id
    BY <1>4, EdgesFromAreEdges
  <2> HIDE DEF es
  <2>1. DOMAIN es \subseteq Nat /\ \A k \in DOMAIN es : k <= Len(edges)
    BY <2>0
  <2> QED
    BY <1>1, <1>2, <1>3, <2>0, <2>1 DEF IsExperience, es
<1>6. Follows(e)
  BY <1>2, <1>3 DEF Follows, Counted
<1> QED
  BY <1>1, <1>2, <1>3, <1>5, <1>6 DEF e

\* Two experiences that one session follows agree, if one is of its making.
Agree(e, f) ==
  /\ e.touch = f.touch => e.id = f.id
  /\ e.id = f.id => e.node.kind = f.node.kind /\ e.node.label = f.node.label
  /\ e.node.kind = "Room" /\ f.node.kind = "Room" /\ e.node.label = f.node.label
       => e.id = f.id

LEMMA FollowedAgree ==
  ASSUME Shaped(nodes, edges), NEW e, NEW f, Follows(e), Follows(f),
         e.touch = nodes[e.id].touch
  PROVE  Agree(e, f) /\ Agree(f, e)
BY DEF Agree, Follows, Shaped

\* What a save, whole or not, adds to the store.
LEMMA SaveWrites ==
  ASSUME Counted(nodes, clock, seq), NEW written \in SUBSET DOMAIN nodes
  PROVE  LET ids == SetToSeq(written)
             new == [k \in DOMAIN ids |-> Experience(ids[k])]
         IN  /\ new \in Seq(Range(new))
             /\ Range(new) = {Experience(id) : id \in written}
             /\ DOMAIN ids = DOMAIN new /\ IsInjective(ids) /\ Range(ids) = written
<1> DEFINE ids == SetToSeq(written)
           new == [k \in DOMAIN ids |-> Experience(ids[k])]
<1>1. IsFiniteSet(written)
  <2>1. written \in SUBSET Nat /\ seq \in Nat /\ \A i \in written : i <= seq
    BY DEF Counted
  <2> QED
    BY <2>1, FS_BoundedSetOfNaturals
<1>2. /\ ids \in Seq(written) /\ DOMAIN ids = 1..Cardinality(written)
      /\ Cardinality(written) \in Nat /\ IsInjective(ids) /\ Range(ids) = written
  BY <1>1, SetToSeqEnumerates
<1> HIDE DEF ids
<1>3. DOMAIN new = 1..Cardinality(written) /\ \A k \in DOMAIN ids : new[k] = Experience(ids[k])
  BY <1>2
<1>4. Range(new) = {Experience(id) : id \in written}
  BY <1>2 DEF Range
<1>5. new \in [1..Cardinality(written) -> Range(new)]
  BY <1>2, <1>3 DEF Range
<1>6. new \in Seq(Range(new))
  BY <1>2, <1>5, SeqDef
<1> QED
  BY <1>2, <1>3, <1>4, <1>6 DEF ids

\* A save appends an experience for each of the nodes it comes to.
LEMMA SaveAppends ==
  ASSUME IInv, backend = "store", SaveStore
  PROVE  \E ids \in Seq(DOMAIN nodes) :
           /\ IsInjective(ids)
           /\ store \in Seq(Range(store)) /\ store' \in Seq(Range(store'))
           /\ Len(store') = Len(store) + Len(ids)
           /\ \A k \in 1..Len(store) : store'[k] = store[k]
           /\ \A k \in 1..Len(ids) : store'[Len(store) + k] = Experience(ids[k])
           /\ saved' = IF Range(ids) = DOMAIN nodes
                       THEN [nodes |-> nodes, edges |-> Range(edges)] ELSE None
<1>1. PICK last \in DOMAIN nodes \cup {0} :
        LET written == {id \in DOMAIN nodes : id <= last}
            ids == SetToSeq(written)
        IN  /\ store' = store \o [k \in DOMAIN ids |-> Experience(ids[k])]
            /\ saved' = IF written = DOMAIN nodes
                        THEN [nodes |-> nodes, edges |-> Range(edges)] ELSE None
  BY DEF SaveStore
<1> DEFINE written == {id \in DOMAIN nodes : id <= last}
           ids == SetToSeq(written)
           new == [k \in DOMAIN ids |-> Experience(ids[k])]
<1>2. Counted(nodes, clock, seq) /\ store \in Seq(Range(store))
  BY DEF IInv, Graphs, Backed, Consistent
<1>3. IsFiniteSet(written)
  <2>1. written \in SUBSET Nat /\ seq \in Nat /\ \A i \in written : i <= seq
    BY <1>2 DEF Counted
  <2> QED
    BY <2>1, FS_BoundedSetOfNaturals
<1>4. ids \in Seq(written) /\ IsInjective(ids) /\ Range(ids) = written
  BY <1>3, SetToSeqEnumerates
<1>5. new \in Seq(Range(new))
  BY <1>2, SaveWrites
<1>6. store' = store \o new
  BY <1>1
<1>7. saved' = IF Range(ids) = DOMAIN nodes
               THEN [nodes |-> nodes, edges |-> Range(edges)] ELSE None
  BY <1>1, <1>4
<1>8. written \subseteq DOMAIN nodes
  OBVIOUS
<1> HIDE DEF ids, written
<1>9. Len(new) = Len(ids) /\ \A k \in 1..Len(ids) : new[k] = Experience(ids[k])
  BY <1>4, <1>5
<1> HIDE DEF new
<1>10. /\ store' \in Seq(Range(store')) /\ Len(store') = Len(store) + Len(new)
       /\ \A k \in 1..Len(store) : store'[k] = store[k]
       /\ \A k \in 1..Len(new) : store'[Len(store) + k] = new[k]
  <2> DEFINE S == Range(store) \cup Range(new)
  <2>1. store \in Seq(S) /\ new \in Seq(S)
    BY <1>2, <1>5
  <2> HIDE DEF S
  <2>2. /\ store' \in Seq(S) /\ Len(store') = Len(store) + Len(new)
        /\ \A i \in 1..(Len(store) + Len(new)) :
             store'[i] = IF i <= Len(store) THEN store[i] ELSE new[i - Len(store)]
    BY <1>6, <2>1, ConcatProperties
  <2>3. Len(store) \in Nat /\ Len(new) \in Nat
    BY <2>1
  <2>4. store' \in Seq(Range(store'))
    BY <2>2, SeqOfRange
  <2>5. \A k \in 1..Len(store) : store'[k] = store[k]
    BY <2>2, <2>3
  <2>6. ASSUME NEW k \in 1..Len(new) PROVE store'[Len(store) + k] = new[k]
    <3>1. Len(store) + k \in 1..(Len(store) + Len(new)) /\ ~(Len(store) + k <= Len(store))
          /\ (Len(store) + k) - Len(store) = k
      BY <2>3
    <3> QED
      BY <2>2, <3>1
  <2> QED
    BY <2>2, <2>4, <2>5, <2>6
<1>11. ids \in Seq(DOMAIN nodes)
  BY <1>4, <1>8
<1> QED
  BY <1>2, <1>4, <1>7, <1>9, <1>10, <1>11

\* What is in the store after a save was there before or is written by it.
LEMMA SaveKeeps ==
  ASSUME IInv, backend = "store", SaveStore
  PROVE  \A e \in Kept' : e \in Kept \/ \E id \in DOMAIN nodes : e = Experience(id)
<1>1. PICK ids \in Seq(DOMAIN nodes) :
        /\ store \in Seq(Range(store)) /\ store' \in Seq(Range(store'))
        /\ Len(store') = Len(store) + Len(ids)
        /\ \A k \in 1..Len(store) : store'[k] = store[k]
        /\ \A k \in 1..Len(ids) : store'[Len(store) + k] = Experience(ids[k])
  BY SaveAppends
<1>2. ASSUME NEW j \in DOMAIN store'
      PROVE  (j \in DOMAIN store /\ store'[j] = store[j])
             \/ \E id \in DOMAIN nodes : store'[j] = Experience(id)
  <2>1. Len(store) \in Nat /\ Len(ids) \in Nat /\ j \in 1..(Len(store) + Len(ids))
    BY <1>1
  <2>2. CASE j <= Len(store)
    BY <1>1, <2>1, <2>2
  <2>3. CASE j > Len(store)
    <3> DEFINE k == j - Len(store)
    <3>1. k \in 1..Len(ids) /\ j = Len(store) + k
      BY <2>1, <2>3
    <3> HIDE DEF k
    <3>2. ids[k] \in DOMAIN nodes /\ store'[j] = Experience(ids[k])
      BY <1>1, <3>1
    <3> QED
      BY <3>2
  <2> QED
    BY <2>1, <2>2, <2>3
<1> QED
  BY <1>2 DEF Kept, Range

\* What a save writes agrees with what it finds.
LEMMA SaveStep ==
  ASSUME IInv, backend = "store", SaveStore
  PROVE  IInv'
<1>1. /\ running /\ running' = running /\ torn' = torn /\ file' = file
      /\ nodes' = nodes /\ edges' = edges /\ clock' = clock /\ seq' = seq
      /\ room' = room /\ at' = at /\ todo' = todo /\ backend' = backend
  BY DEF SaveStore, vars, memory, visit
<1>2. /\ Counted(nodes, clock, seq) /\ edges \in Seq(Pairs) /\ Shaped(nodes, edges)
      /\ Consistent /\ Followed /\ ~torn
  BY DEF IInv, Graphs, Backed
<1>3. store' \in Seq(Range(store'))
  BY SaveAppends
<1>4. \A e \in Kept' : e \in Kept \/ \E id \in DOMAIN nodes : e = Experience(id)
  BY SaveKeeps
<1>5. \A e \in Kept' : Follows(e) /\ IsExperience(e)
  <2>1. \A e \in Kept : Follows(e) /\ IsExperience(e)
    BY <1>1, <1>2 DEF Followed, Consistent
  <2>2. \A id \in DOMAIN nodes : Follows(Experience(id)) /\ IsExperience(Experience(id))
    BY <1>2, ExperienceFollowed
  <2> QED
    BY <1>4, <2>1, <2>2
<1>6. \A e, f \in Kept' : Agree(e, f)
  <2>1. \A e, f \in Kept : Agree(e, f)
    BY <1>2 DEF Consistent, Agree
  <2>2. \A id \in DOMAIN nodes : Experience(id).touch = nodes[Experience(id).id].touch
    BY <1>2, ExperienceFollowed
  <2>3. ASSUME NEW e \in Kept', NEW f \in Kept', e.touch = nodes[e.id].touch
        PROVE  Agree(e, f) /\ Agree(f, e)
    BY <1>2, <1>5, <2>3, FollowedAgree
  <2> QED
    BY <1>4, <2>1, <2>2, <2>3
<1>7. Consistent'
  <2>1. PICK n \in Nat : \A e \in Kept :
          e.id <= n /\ e.touch <= n /\ \A k \in DOMAIN e.edges : k <= n
    BY <1>2 DEF Consistent
  <2> DEFINE m == n + seq + clock + Len(edges)
  <2>2. seq \in Nat /\ clock \in Nat /\ Len(edges) \in Nat /\ m \in Nat
    BY <1>2 DEF Counted
  <2>3. ASSUME NEW e \in Kept
        PROVE  e.id <= m /\ e.touch <= m /\ \A k \in DOMAIN e.edges : k <= m
    <3>1. e.id \in Nat /\ e.touch \in Nat /\ \A k \in DOMAIN e.edges : k \in Nat
      BY <1>2 DEF Consistent, IsExperience, IsNode
    <3> QED
      BY <2>1, <2>2, <3>1
  <2>4. ASSUME NEW id \in DOMAIN nodes
        PROVE  LET e == Experience(id)
               IN  e.id <= m /\ e.touch <= m /\ \A k \in DOMAIN e.edges : k <= m
    <3> DEFINE e == Experience(id)
    <3>1. /\ e.id = id /\ e.touch <= clock /\ (\A k \in DOMAIN e.edges : k <= Len(edges))
          /\ IsExperience(e)
      BY <1>2, ExperienceFollowed
    <3>2. id \in Nat /\ id <= seq
      BY <1>2 DEF Counted
    <3> HIDE DEF e
    <3>3. e.touch \in Nat /\ \A k \in DOMAIN e.edges : k \in Nat
      BY <3>1 DEF IsExperience, IsNode
    <3>4. e.id <= m /\ e.touch <= m /\ \A k \in DOMAIN e.edges : k <= m
      BY <2>1, <2>2, <3>1, <3>2, <3>3
    <3> QED
      BY <3>4 DEF e
  <2> HIDE DEF m
  <2>5. \A e \in Kept' : e.id <= m /\ e.touch <= m /\ \A k \in DOMAIN e.edges : k <= m
    BY <1>4, <2>3, <2>4
  <2> QED
    BY <1>3, <1>5, <1>6, <2>2, <2>5 DEF Consistent, Agree
<1>8. Followed'
  BY <1>1, <1>5 DEF Followed, Follows
<1>9. Graphs' /\ Visited'
  BY <1>1 DEF IInv, Graphs, Visited
<1>10. Backed'
  BY <1>1, <1>2, <1>7, <1>8 DEF IInv, Backed
<1> QED
  BY <1>9, <1>10 DEF IInv

-----------------------------------------------------------------------------
(* Loading from the store *)

\* A load sees what is in the store, and azork's records only.
LEMMA RecordsAreKept ==
  ASSUME RetrievesAll, Consistent
  PROVE  /\ Ours \in SUBSET Nat
         /\ \A k \in Ours : Records[k] \in Kept
         /\ \A e \in Kept : \E k \in Ours : Records[k] = e
<1>1. store \in Seq(Range(store))
  BY DEF Consistent
<1>2. Records \in Seq(Range(store)) /\ Range(Records) = Range(store)
  BY <1>1 DEF RetrievesAll, Records
<1>3. \A k \in DOMAIN Records : k \in Nat /\ Records[k] \in Range(store)
  BY <1>2
<1>4. \A e \in Range(store) : \E k \in DOMAIN Records : Records[k] = e
  BY <1>2 DEF Range
<1> QED
  BY <1>3, <1>4 DEF Ours, Kept

\* What a load takes of a node is a copy of it, and no other copy is fresher.
LEMMA BestIsFreshest ==
  ASSUME RetrievesAll, Consistent, NEW id \in StoredIds
  PROVE  /\ Best(id) \in Kept /\ Best(id).id = id
         /\ \E k \in Copies(id) :
              /\ Best(id) = Records[k]
              /\ \A j \in Copies(id) :
                   \/ Records[j].touch < Records[k].touch
                   \/ Records[j].touch = Records[k].touch /\ j >= k
<1> DEFINE touch == [k \in Ours |-> Records[k].touch]
<1>1. PICK n \in Nat : \A e \in Kept :
        e.id <= n /\ e.touch <= n /\ \A k \in DOMAIN e.edges : k <= n
  BY DEF Consistent
<1>2. \A k \in Ours : touch[k] = Records[k].touch /\ touch[k] \in Nat /\ touch[k] <= n
  BY <1>1, RecordsAreKept DEF Consistent, IsExperience, IsNode
<1>3. Copies(id) \in SUBSET Nat /\ Copies(id) # {} /\ Copies(id) \subseteq Ours
  BY RecordsAreKept DEF Copies, StoredIds
<1> HIDE DEF touch
<1>4. \E k \in Copies(id) : \A j \in Copies(id) :
        touch[j] < touch[k] \/ (touch[j] = touch[k] /\ j >= k)
  BY <1>2, <1>3, FreshestExists
<1>5. \E k \in Copies(id) : \A j \in Copies(id) :
        \/ Records[j].touch < Records[k].touch
        \/ Records[j].touch = Records[k].touch /\ j >= k
  BY <1>2, <1>3, <1>4
<1> DEFINE k0 == CHOOSE k \in Copies(id) : \A j \in Copies(id) :
                   \/ Records[j].touch < Records[k].touch
                   \/ Records[j].touch = Records[k].touch /\ j >= k
<1>6. /\ k0 \in Copies(id)
      /\ \A j \in Copies(id) :
           \/ Records[j].touch < Records[k0].touch
           \/ Records[j].touch = Records[k0].touch /\ j >= k0
  BY <1>5
<1>7. Best(id) = Records[k0]
  BY DEF Best
<1> HIDE DEF k0
<1>8. Best(id) \in Kept /\ Best(id).id = id
  BY <1>3, <1>6, <1>7, RecordsAreKept DEF Copies
<1> QED
  BY <1>6, <1>7, <1>8

\* Each record has an id among those loaded, and is no fresher than the best.
LEMMA StoredIdsAreKept ==
  ASSUME RetrievesAll, Consistent
  PROVE  /\ \A e \in Kept : e.id \in StoredIds /\ e.touch <= Best(e.id).touch
         /\ \A id \in StoredIds : id \in Nat \ {0} /\ Best(id) \in Kept /\ Best(id).id = id
<1>1. \A id \in StoredIds : Best(id) \in Kept /\ Best(id).id = id
  BY BestIsFreshest
<1>2. ASSUME NEW e \in Kept PROVE e.id \in StoredIds /\ e.touch <= Best(e.id).touch
  <2>1. PICK k \in Ours : Records[k] = e
    BY RecordsAreKept
  <2>2. e.id \in StoredIds /\ k \in Copies(e.id)
    BY <2>1 DEF StoredIds, Copies
  <2>3. PICK b \in Copies(e.id) :
          /\ Best(e.id) = Records[b]
          /\ \A j \in Copies(e.id) :
               \/ Records[j].touch < Records[b].touch
               \/ Records[j].touch = Records[b].touch /\ j >= b
    BY <2>2, BestIsFreshest
  <2>4. e.touch < Best(e.id).touch \/ e.touch = Best(e.id).touch
    BY <2>1, <2>2, <2>3
  <2>5. e.touch \in Nat /\ Best(e.id).touch \in Nat
    BY <1>1, <2>2 DEF Consistent, IsExperience, IsNode
  <2> QED
    BY <2>2, <2>4, <2>5
<1> QED
  BY <1>1, <1>2 DEF Consistent, IsExperience

\* What the edges of the copies amount to: those between nodes that are there,
\* each once.
LEMMA LoadedEdgesSound ==
  ASSUME RetrievesAll, Consistent
  PROVE  /\ LoadedEdges \in Seq(Pairs) /\ IsInjective(LoadedEdges)
         /\ Range(LoadedEdges) = {e \in UNION {Range(Best(id).edges) : id \in StoredIds} :
                                    e[2] \in StoredIds}
         /\ \A e \in Range(LoadedEdges) : e[1] \in StoredIds /\ e[2] \in StoredIds
<1> DEFINE edge(p) == Best(p[1]).edges[p[2]]
           places  == UNION {{id} \X DOMAIN Best(id).edges : id \in StoredIds}
           kept    == {p \in places : edge(p)[2] \in StoredIds}
           order   == SetToSeq(kept)
<1>1. LoadedEdges = [i \in DOMAIN order |-> edge(order[i])]
  BY DEF LoadedEdges
<1>2. ASSUME NEW id \in StoredIds
      PROVE  /\ Best(id) \in Kept /\ Best(id).id = id /\ id \in Nat
             /\ DOMAIN Best(id).edges \subseteq Nat /\ IsInjective(Best(id).edges)
             /\ \A k \in DOMAIN Best(id).edges :
                  Best(id).edges[k] \in Pairs /\ Best(id).edges[k][1] = id
  BY StoredIdsAreKept DEF Consistent, IsExperience
<1>3. ASSUME NEW p \in places
      PROVE  /\ p = <<p[1], p[2]>> /\ p[1] \in StoredIds /\ p[2] \in DOMAIN Best(p[1]).edges
             /\ edge(p) \in Pairs /\ edge(p)[1] = p[1]
  <2>1. PICK id \in StoredIds : p \in {id} \X DOMAIN Best(id).edges
    OBVIOUS
  <2>2. p = <<p[1], p[2]>> /\ p[1] = id /\ p[2] \in DOMAIN Best(id).edges
    BY <2>1
  <2> QED
    BY <1>2, <2>2
<1>4. \A id \in StoredIds : \A k \in DOMAIN Best(id).edges : <<id, k>> \in places
  OBVIOUS
<1>5. IsFiniteSet(kept)
  <2>1. PICK n \in Nat : \A e \in Kept :
          e.id <= n /\ e.touch <= n /\ \A k \in DOMAIN e.edges : k <= n
    BY DEF Consistent
  <2>2. IsFiniteSet((0..n) \X (0..n))
    <3>1. IsFiniteSet(0..n)
      BY FS_Interval
    <3> QED
      BY <3>1, FS_Product
  <2>3. kept \subseteq (0..n) \X (0..n)
    <3> SUFFICES ASSUME NEW p \in places PROVE p \in (0..n) \X (0..n)
      OBVIOUS
    <3>1. p = <<p[1], p[2]>> /\ p[1] \in StoredIds /\ p[2] \in DOMAIN Best(p[1]).edges
      BY <1>3
    <3>2. Best(p[1]) \in Kept /\ Best(p[1]).id = p[1] /\ p[1] \in Nat /\ p[2] \in Nat
      BY <1>2, <3>1
    <3>3. p[1] <= n /\ p[2] <= n
      BY <2>1, <3>1, <3>2
    <3> QED
      BY <2>1, <3>1, <3>2, <3>3
  <2> QED
    BY <2>2, <2>3, FS_Subset
<1>6. /\ order \in Seq(kept) /\ DOMAIN order = 1..Cardinality(kept) /\ Cardinality(kept) \in Nat
      /\ IsInjective(order) /\ Range(order) = kept
  BY <1>5, SetToSeqEnumerates
<1> HIDE DEF order, places
<1>7. /\ DOMAIN LoadedEdges = DOMAIN order
      /\ \A i \in DOMAIN order : order[i] \in kept /\ LoadedEdges[i] = edge(order[i])
  BY <1>1, <1>6 DEF Range
<1>8. LoadedEdges \in Seq(Pairs)
  <2>1. LoadedEdges \in [1..Cardinality(kept) -> Pairs]
    BY <1>1, <1>3, <1>6, <1>7
  <2> HIDE DEF kept
  <2> QED
    BY <1>6, <2>1, SeqDef
<1>9. IsInjective(LoadedEdges)
  <2> SUFFICES ASSUME NEW i \in DOMAIN order, NEW j \in DOMAIN order,
                      edge(order[i]) = edge(order[j])
               PROVE  i = j
    BY <1>7 DEF IsInjective
  <2> DEFINE p == order[i]
             q == order[j]
  <2>1. /\ p = <<p[1], p[2]>> /\ p[1] \in StoredIds /\ p[2] \in DOMAIN Best(p[1]).edges
        /\ q = <<q[1], q[2]>> /\ q[2] \in DOMAIN Best(q[1]).edges
        /\ edge(p)[1] = p[1] /\ edge(q)[1] = q[1]
    BY <1>3, <1>7
  <2>2. p[1] = q[1]
    BY <2>1
  <2>3. p[2] = q[2]
    BY <1>2, <2>1, <2>2 DEF IsInjective
  <2>4. p = q
    BY <2>1, <2>2, <2>3
  <2> QED
    BY <1>6, <2>4 DEF IsInjective
<1>10. Range(LoadedEdges) = {edge(p) : p \in kept}
  <2> HIDE DEF edge, kept
  <2>1. \A p \in kept : \E i \in DOMAIN order : order[i] = p
    BY <1>6 DEF Range
  <2> QED
    BY <1>7, <2>1 DEF Range
<1>11. {edge(p) : p \in kept}
         = {e \in UNION {Range(Best(id).edges) : id \in StoredIds} : e[2] \in StoredIds}
  <2>1. ASSUME NEW p \in kept
        PROVE  edge(p) \in {e \in UNION {Range(Best(id).edges) : id \in StoredIds} :
                              e[2] \in StoredIds}
    <3>1. p[1] \in StoredIds /\ p[2] \in DOMAIN Best(p[1]).edges /\ edge(p)[2] \in StoredIds
      BY <1>3
    <3>2. edge(p) \in Range(Best(p[1]).edges)
      BY <3>1 DEF Range
    <3> QED
      BY <3>1, <3>2
  <2>2. ASSUME NEW id \in StoredIds, NEW e \in Range(Best(id).edges), e[2] \in StoredIds
        PROVE  \E p \in kept : e = edge(p)
    <3>1. PICK k \in DOMAIN Best(id).edges : e = Best(id).edges[k]
      BY DEF Range
    <3>2. <<id, k>> \in places /\ edge(<<id, k>>) = e
      BY <1>4, <3>1
    <3> QED
      BY <2>2, <3>2
  <2> QED
    BY <2>1, <2>2
<1>12. \A e \in Range(LoadedEdges) : e[1] \in StoredIds /\ e[2] \in StoredIds
  BY <1>3, <1>10
<1> QED
  BY <1>8, <1>9, <1>10, <1>11, <1>12

\* A session that starts from the store follows it.
LEMMA LoadStep ==
  ASSUME RetrievesAll, IInv, backend = "store", LoadStore
  PROVE  IInv'
<1>1. /\ ~running /\ running' = TRUE /\ torn' = torn /\ file' = file
      /\ nodes' = [id \in StoredIds |-> Best(id).node] /\ edges' = LoadedEdges
      /\ clock' = Max({nodes'[id].touch : id \in StoredIds} \cup {0}) + Len(edges')
      /\ seq' = Max(StoredIds \cup {0})
      /\ room' = room /\ at' = at /\ todo' = todo
      /\ backend' = backend /\ saved' = saved /\ store' = store
  BY DEF LoadStore, visit, storage
<1>2. Consistent /\ ~torn
  BY DEF IInv, Backed
<1>3. PICK n \in Nat : \A e \in Kept :
        e.id <= n /\ e.touch <= n /\ \A k \in DOMAIN e.edges : k <= n
  BY <1>2 DEF Consistent
<1>4. DOMAIN nodes' = StoredIds /\ nodes' = [i \in DOMAIN nodes' |-> nodes'[i]]
  BY <1>1
<1>5. ASSUME NEW id \in StoredIds
      PROVE  /\ Best(id) \in Kept /\ Best(id).id = id /\ nodes'[id] = Best(id).node
             /\ id \in Nat \ {0} /\ id <= n /\ IsNode(nodes'[id])
             /\ nodes'[id].touch = Best(id).touch
             /\ nodes'[id].touch \in Nat /\ nodes'[id].touch <= n
  <2>1. Best(id) \in Kept /\ Best(id).id = id /\ id \in Nat \ {0}
    BY <1>2, StoredIdsAreKept
  <2>2. IsExperience(Best(id)) /\ id <= n /\ Best(id).touch <= n
    BY <1>2, <1>3, <2>1 DEF Consistent
  <2>3. nodes'[id] = Best(id).node
    BY <1>1
  <2> QED
    BY <2>1, <2>2, <2>3 DEF IsExperience, IsNode
<1>6. edges' \in Seq(Pairs) /\ Len(edges') \in Nat
  BY <1>1, <1>2, LoadedEdgesSound
<1>7. seq' \in Nat /\ \A id \in StoredIds : id <= seq'
  <2> DEFINE T == StoredIds \cup {0}
  <2>1. T \in SUBSET Nat /\ T # {} /\ \A k \in T : k <= n
    BY <1>3, <1>5
  <2> HIDE DEF T
  <2>2. Max(T) \in T /\ \A k \in T : k <= Max(T)
    BY <2>1, MaxIsIn
  <2> QED
    BY <1>1, <2>1, <2>2 DEF T
<1>8. clock' \in Nat /\ \A id \in StoredIds : nodes'[id].touch <= clock'
  <2> DEFINE T == {nodes'[id].touch : id \in StoredIds} \cup {0}
  <2>1. T \in SUBSET Nat /\ T # {} /\ \A k \in T : k <= n
    BY <1>3, <1>5
  <2>2. \A id \in StoredIds : nodes'[id].touch \in T
    OBVIOUS
  <2>3. clock' = Max(T) + Len(edges')
    BY <1>1
  <2> HIDE DEF T
  <2>4. Max(T) \in T /\ \A k \in T : k <= Max(T)
    BY <2>1, MaxIsIn
  <2>5. clock' \in Nat /\ Max(T) <= clock' /\ Max(T) \in Nat
    <3> DEFINE m == Max(T)
               l == Len(edges')
    <3>1. m \in Nat /\ l \in Nat /\ clock' = m + l
      BY <1>6, <2>1, <2>3, <2>4
    <3> HIDE DEF m, l
    <3>2. clock' \in Nat /\ m <= clock'
      BY <3>1
    <3> QED
      BY <3>1, <3>2 DEF m
  <2>6. ASSUME NEW id \in StoredIds PROVE nodes'[id].touch <= clock'
    <3>1. nodes'[id].touch <= Max(T) /\ nodes'[id].touch \in Nat
      BY <1>5, <2>2, <2>4
    <3> QED
      BY <2>5, <3>1
  <2> QED
    BY <2>5, <2>6
<1>9. \A i, j \in StoredIds : i # j => nodes'[i].touch # nodes'[j].touch
  BY <1>2, <1>5 DEF Consistent
<1>10. Counted(nodes', clock', seq')
  BY <1>4, <1>5, <1>7, <1>8, <1>9 DEF Counted
<1>11. Shaped(nodes', edges')
  <2>1. \A k \in DOMAIN edges' : edges'[k][1] \in StoredIds /\ edges'[k][2] \in StoredIds
    BY <1>1, <1>2, LoadedEdgesSound DEF Range
  <2>2. IsInjective(edges')
    BY <1>1, <1>2, LoadedEdgesSound
  <2>3. \A i, j \in StoredIds :
          nodes'[i].kind = "Room" /\ nodes'[j].kind = "Room" /\ nodes'[i].label = nodes'[j].label
            => i = j
    BY <1>2, <1>5 DEF Consistent
  <2> QED
    BY <1>4, <2>1, <2>2, <2>3 DEF Shaped
<1>12. Graphs'
  BY <1>1, <1>6, <1>10, <1>11 DEF IInv, Graphs
<1>13. Visited'
  BY <1>1 DEF IInv, Visited
<1>14. Kept' = Kept /\ Consistent'
  BY <1>1, <1>2 DEF Kept, Consistent
<1>15. ASSUME NEW e \in Kept PROVE Follows(e)'
  <2>1. e.id \in StoredIds /\ e.touch <= Best(e.id).touch
    BY <1>2, StoredIdsAreKept
  <2>2. Best(e.id) \in Kept /\ Best(e.id).id = e.id
    BY <1>5, <2>1
  <2>3. nodes'[e.id].kind = e.node.kind /\ nodes'[e.id].label = e.node.label
    BY <1>2, <1>5, <2>1, <2>2 DEF Consistent
  <2>4. \A i \in StoredIds : nodes'[i].touch = e.touch => i = e.id
    BY <1>2, <1>5 DEF Consistent
  <2> QED
    BY <1>4, <1>5, <2>1, <2>3, <2>4 DEF Follows
<1>16. Backed'
  BY <1>1, <1>2, <1>14, <1>15 DEF Backed, Followed
<1> QED
  BY <1>12, <1>13, <1>16 DEF IInv

-----------------------------------------------------------------------------
(* The invariant, and what follows from it *)

LEMMA InitHolds ==
  ASSUME StoreInit
  PROVE  IInv
<1>1. /\ nodes = Empty /\ edges = << >> /\ clock = 0 /\ seq = 0 /\ file = EmptyFile
      /\ running = FALSE /\ room = 0 /\ todo = << >> /\ torn = FALSE
      /\ store = <<Foreign>> /\ saved = None
  BY DEF StoreInit, Init
<1>2. Graphs
  BY <1>1, NothingIsCounted DEF Graphs, EmptyFile
<1>3. Visited
  BY <1>1 DEF Visited
<1>4. Kept = {} /\ store \in Seq(Range(store))
  BY <1>1 DEF Kept, Range
<1>5. Consistent
  <2>1. 0 \in Nat
    OBVIOUS
  <2> QED
    BY <1>4, <2>1 DEF Consistent
<1>6. Backed
  BY <1>1, <1>5 DEF Backed, Followed
<1> QED
  BY <1>2, <1>3, <1>6 DEF IInv

LEMMA StepHolds ==
  ASSUME GraphAssumption, RetrievesAll, IInv, [StoreNext]_storeVars
  PROVE  IInv'
<1>1. CASE backend = "file" /\ Next /\ UNCHANGED storage
  BY <1>1, LaunchStep, ExitStep, ExitTornStep, KillStep, RememberResourceStep,
     RecordOtherStep, RememberRoomStep DEF Next
<1>2. CASE backend = "store" /\ LoadStore
  BY <1>2, LoadStep
<1>3. CASE backend = "store" /\ SaveStore
  BY <1>3, SaveStep
<1>4. CASE (RememberResource \/ Kill) /\ UNCHANGED storage
  BY <1>4, RememberResourceStep, KillStep
<1>5. CASE \E name \in RoomNames : RememberRoom(name) /\ UNCHANGED storage
  BY <1>5, RememberRoomStep
<1>6. CASE \E text \in Notes : RecordOther(text) /\ UNCHANGED storage
  BY <1>6, RecordOtherStep
<1>7. CASE UNCHANGED storeVars
  <2>1. /\ nodes' = nodes /\ edges' = edges /\ clock' = clock /\ seq' = seq
        /\ file' = file /\ running' = running /\ room' = room /\ at' = at /\ todo' = todo
        /\ torn' = torn /\ backend' = backend /\ store' = store /\ saved' = saved
    BY <1>7 DEF storeVars, vars, memory, visit, storage
  <2>2. Graphs' /\ Visited'
    BY <2>1 DEF IInv, Graphs, Visited
  <2>3. Kept' = Kept
    BY <2>1 DEF Kept
  <2>4. (Consistent => Consistent') /\ (Followed => Followed')
    BY <2>1, <2>3 DEF Consistent, Followed, Follows
  <2>5. Backed'
    BY <2>1, <2>4 DEF IInv, Backed
  <2> QED
    BY <2>2, <2>5 DEF IInv
<1> QED
  BY <1>1, <1>2, <1>3, <1>4, <1>5, <1>6, <1>7 DEF StoreNext

\* Every reachable state satisfies the invariant.
THEOREM MemoryInvariant ==
  ASSUME RetrievesAll
  PROVE  StoreSpec => []IInv
<1>1. StoreInit => IInv
  BY InitHolds
<1>2. IInv /\ [StoreNext]_storeVars => IInv'
  BY StepHolds, GraphAssumption
<1> QED
  BY <1>1, <1>2, PTL DEF StoreSpec

\* No id is given twice, no node was touched after now and no two at the same
\* tick, whatever file or store the session began from and however that was cut
\* (GraphMemory::load, PersistentStore::load).
THEOREM CountersAlwaysSound ==
  ASSUME RetrievesAll
  PROVE  StoreSpec => []CountersSound
<1>1. IInv => CountersSound
  BY DEF IInv, Graphs, Counted, IsNode, CountersSound, FreshIds, RecencyOrders
<1> QED
  BY <1>1, MemoryInvariant, PTL

\* Edges join nodes, once each, and no two rooms have one name, unless a file
\* was cut; a room that was gone through is linked to all its resources
\* (remember_room, remember_resource).
THEOREM GraphAlwaysSound ==
  ASSUME RetrievesAll
  PROVE  StoreSpec => []GraphSound
<1>1. IInv => EdgesConnected /\ OneLinkPerPair
  BY DEF IInv, Graphs, Shaped, IsInjective, EdgesConnected, OneLinkPerPair
<1>2. IInv => RoomsLinked
  <2> SUFFICES ASSUME IInv, running, todo = << >>, room # 0, NEW k \in DOMAIN ObjectsIn[at]
               PROVE  \E id \in Matches("Resource", ObjectsIn[at][k]) : Linked(room, id)
    BY DEF RoomsLinked, Busy
  <2>1. at \in RoomNames /\ ObjectsIn[at] \in Seq(Labels)
    BY GraphAssumption DEF IInv, Visited, GraphAssumption
  <2>2. k \in 1..(Len(ObjectsIn[at]) - Len(todo))
    BY <2>1
  <2>3. HasLink(nodes, edges, room, ObjectsIn[at][k])
    BY <2>2 DEF IInv, Visited
  <2> QED
    BY <2>3 DEF HasLink, Matches, Linked
<1>3. IInv => RoomIdempotent
  <2> SUFFICES ASSUME IInv, ~torn, NEW name \in RoomNames
               PROVE  Cardinality(Matches("Room", name)) <= 1
    BY DEF RoomIdempotent
  <2> DEFINE S == Matches("Room", name)
  <2>1. \A i, j \in S : i = j
    BY DEF IInv, Graphs, Shaped, Matches
  <2> HIDE DEF S
  <2>2. CASE S = {}
    BY <2>2, FS_EmptySet DEF S
  <2>3. CASE S # {}
    <3>1. PICK i \in S : S = {i}
      BY <2>1, <2>3
    <3> QED
      BY <3>1, FS_Singleton DEF S
  <2> QED
    BY <2>2, <2>3 DEF S
<1>4. IInv => GraphSound
  BY <1>1, <1>2, <1>3 DEF GraphSound
<1> QED
  BY <1>4, MemoryInvariant, PTL

-----------------------------------------------------------------------------
(* No secret is kept *)

\* Sanitized or cut, a text holds none but its own tokens and spaces.
LEMMA CutText ==
  ASSUME NEW T, "space" \in T, NEW text \in Seq(T)
  PROVE  /\ Sanitized(text) \in Seq(T)
         /\ \A prefix \in Prefixes(text) : prefix \in Seq(T)
<1>1. Sanitized(text) \in Seq(T)
  <2>1. Sanitized(text) \in [1..Len(text) -> T]
    BY DEF Sanitized
  <2> QED
    BY <2>1, SeqDef
<1>2. \A l \in 0..Len(text) : SubSeq(text, 1, l) \in Seq(T)
  OBVIOUS
<1> QED
  BY <1>1, <1>2 DEF Prefixes

\* The white space at the ends of a text, and no more, is trimmed.
LEMMA TrimmedText ==
  ASSUME NEW T, NEW text \in Seq(T)
  PROVE  /\ Trimmed(text) \in Seq(T)
         /\ text # << >> /\ text[1] \notin White /\ text[Len(text)] \notin White
              => Trimmed(text) = text
<1> DEFINE ink == {i \in DOMAIN text : text[i] \notin White}
<1>1. Len(text) \in Nat /\ DOMAIN text = 1..Len(text)
  OBVIOUS
<1>2. ink \in SUBSET Nat /\ ink \subseteq 1..Len(text) /\ \A i \in ink : i <= Len(text)
  OBVIOUS
<1>3. Trimmed(text) = IF ink = {} THEN << >> ELSE SubSeq(text, Min(ink), Max(ink))
  BY DEF Trimmed
<1>4. text # << >> /\ text[1] \notin White /\ text[Len(text)] \notin White
        => 1 \in ink /\ Len(text) \in ink
  BY <1>1
<1> HIDE DEF ink
<1>5. CASE ink = {}
  BY <1>3, <1>4, <1>5
<1>6. CASE ink # {}
  <2>1. Max(ink) \in ink /\ \A i \in ink : i <= Max(ink)
    BY <1>1, <1>2, <1>6, MaxIsIn
  <2>2. \E m \in ink : \A i \in ink : m <= i
    BY <1>2, <1>6, LeastElement
  <2>3. Min(ink) \in ink /\ \A i \in ink : Min(ink) <= i
    BY <2>2 DEF Min
  <2>4. \A m, n \in 1..Len(text) : SubSeq(text, m, n) \in Seq(T)
    OBVIOUS
  <2>5. ASSUME 1 \in ink, Len(text) \in ink PROVE Min(ink) = 1 /\ Max(ink) = Len(text)
    <3>1. Min(ink) <= 1 /\ Len(text) <= Max(ink)
      BY <2>1, <2>3, <2>5
    <3>2. Min(ink) \in 1..Len(text) /\ Max(ink) \in 1..Len(text)
      BY <1>2, <2>1, <2>3
    <3> QED
      BY <1>1, <3>1, <3>2
  <2>6. SubSeq(text, 1, Len(text)) = text
    OBVIOUS
  <2> QED
    BY <1>2, <1>3, <1>4, <1>6, <2>1, <2>3, <2>4, <2>5, <2>6
<1> QED
  BY <1>5, <1>6

\* A text that is clipped holds none but its own tokens and those of the label,
\* and one that fits is not clipped.
LEMMA ClippedText ==
  ASSUME NEW T, "word" \in T, NEW text \in Seq(T)
  PROVE  /\ Clip(text, Plain) \in Seq(T)
         /\ Fits(text) => Clip(text, Plain) = text
<1> DEFINE kept == IF Trimmed(text) = << >> THEN Plain ELSE Trimmed(text)
<1>1. Trimmed(text) \in Seq(T) /\ Plain \in Seq(T)
  BY TrimmedText DEF Plain
<1>2. kept \in Seq(T)
  BY <1>1
<1>3. Fits(text) => kept = text /\ Len(text) <= MaxText
  <2>1. Fits(text) => /\ text # << >> /\ text[1] \notin White /\ text[Len(text)] \notin White
                      /\ Len(text) <= MaxText
    BY DEF Fits, Last
  <2> QED
    BY <2>1, TrimmedText
<1>4. Clip(text, Plain) = SubSeq(kept, 1, Min({MaxText, Len(kept)}))
  BY DEF Clip
<1> HIDE DEF kept
<1>5. Len(kept) \in Nat /\ MaxText \in Nat
  BY <1>2, StoreAssumption
<1> DEFINE n == Min({MaxText, Len(kept)})
<1>6. n \in 0..Len(kept) /\ (Len(kept) <= MaxText => n = Len(kept))
  <2>1. \E m \in {MaxText, Len(kept)} : \A i \in {MaxText, Len(kept)} : m <= i
    BY <1>5
  <2>2. n \in {MaxText, Len(kept)} /\ n <= MaxText /\ n <= Len(kept)
    BY <2>1 DEF Min
  <2> QED
    BY <1>5, <2>2
<1> HIDE DEF n
<1>7. SubSeq(kept, 1, n) \in Seq(T) /\ SubSeq(kept, 1, Len(kept)) = kept
  BY <1>2, <1>6
<1> QED
  BY <1>3, <1>4, <1>6, <1>7 DEF n

\* A node whose text fits the store comes back as it was.
LEMMA FittingIsHeld ==
  ASSUME NEW n, IsNode(n), n.content \in Seq(Tokens), Fits(n.content)
  PROVE  Held(n) = n
<1>1. Clip(n.content, Plain) = n.content
  BY ClippedText DEF Tokens, Alphanumeric
<1>2. Scrub(n.content) = n.content
  BY DEF Fits
<1> QED
  BY <1>1, <1>2, HeldIsNode

\* The nodes of a session hold what they held, or a text that was scrubbed.
ScrubbedOr(text) ==
  \A i \in DOMAIN nodes' :
    \/ nodes'[i].content = Scrub(text)
    \/ i \in DOMAIN nodes /\ nodes'[i].content = nodes[i].content

LEMMA CreatedScrubs ==
  ASSUME NEW kind, NEW label, NEW text, Created(kind, label, text)
  PROVE  ScrubbedOr(text)
<1> DEFINE new == Node(kind, label, Scrub(text), clock + 1)
<1>1. nodes' = [i \in DOMAIN nodes \cup {seq + 1} |-> IF i = seq + 1 THEN new ELSE nodes[i]]
  BY DEF Created
<1>2. new.content = Scrub(text)
  BY DEF Node
<1> HIDE DEF new
<1>3. ASSUME NEW i \in DOMAIN nodes'
      PROVE  nodes'[i] = new \/ (i \in DOMAIN nodes /\ nodes'[i] = nodes[i])
  BY <1>1
<1> QED
  BY <1>2, <1>3 DEF ScrubbedOr

LEMMA FoundOrCreatedScrubs ==
  ASSUME IInv, NEW kind, NEW label, NEW id, FoundOrCreated(kind, label, id)
  PROVE  ScrubbedOr(Plain)
<1>1. CASE id \in Matches(kind, label) /\ Reinforced(id)
  <2> DEFINE n == nodes[id]
             new == [n EXCEPT !.touch = clock + 1]
  <2>1. nodes' = [nodes EXCEPT ![id] = new] /\ id \in DOMAIN nodes
    BY <1>1 DEF Reinforced, Matches
  <2>2. IsNode(n)
    BY <2>1 DEF IInv, Graphs, Counted
  <2> HIDE DEF n
  <2>3. new.content = n.content
    BY <2>2 DEF IsNode
  <2> HIDE DEF new
  <2> QED
    BY <2>1, <2>3 DEF ScrubbedOr, n
<1>2. CASE Matches(kind, label) = {} /\ id = seq + 1 /\ Created(kind, label, Plain)
  BY <1>2, CreatedScrubs
<1> QED
  BY <1>1, <1>2 DEF FoundOrCreated

LEMMA TextsKept ==
  ASSUME NEW T, Texts(T), Closed(T), NEW text \in Notes \cup {Plain}, ScrubbedOr(text),
         file' = file, UNCHANGED storage
  PROVE  Texts(T)'
<1>1. Kept' = Kept
  BY DEF storage, Kept
<1>2. Scrub(text) \in Seq(T)
  BY DEF Closed
<1>3. \A i \in DOMAIN nodes' : nodes'[i].content \in Seq(T)
  BY <1>2 DEF Texts, ScrubbedOr
<1> QED
  BY <1>1, <1>3 DEF Texts

LEMMA SavedTexts ==
  ASSUME NEW T, Texts(T), Closed(T), Counted(nodes, clock, seq)
  PROVE  /\ DOMAIN Saved.nodes = DOMAIN nodes
         /\ \A i \in DOMAIN nodes : Saved.nodes[i].content \in Seq(T)
<1>1. ASSUME NEW i \in DOMAIN nodes PROVE Saved.nodes[i].content \in Seq(T)
  <2> DEFINE n == nodes[i]
             c == Sanitized(n.content)
  <2>1. Saved.nodes[i] = [n EXCEPT !.content = c]
    BY DEF Saved
  <2>2. IsNode(n) /\ c \in Seq(T)
    BY CutText DEF Counted, Texts, Closed
  <2> HIDE DEF n, c
  <2>3. Saved.nodes[i].content = c
    BY <2>1, <2>2 DEF IsNode
  <2> QED
    BY <2>2, <2>3
<1>2. DOMAIN Saved.nodes = DOMAIN nodes
  BY SavedSound
<1> QED
  BY <1>1, <1>2

LEMMA TornEdgesKeepNodes ==
  ASSUME NEW f \in TornInEdges
  PROVE  f.nodes = Saved.nodes
<1> DEFINE whole == {[Saved EXCEPT !.edges = SubSeq(edges, 1, n)] : n \in 0..Len(edges)}
           cut   == {[Saved EXCEPT !.edges = Append(SubSeq(edges, 1, n), <<edges[n + 1][1], to>>)] :
                       n \in 0..(Len(edges) - 1), to \in 0..seq}
<1>1. \A es : [Saved EXCEPT !.edges = es].nodes = Saved.nodes
  BY DEF Saved
<1>2. TornInEdges = whole \cup cut
  BY DEF TornInEdges
<1>3. \A g \in whole : g.nodes = Saved.nodes
  BY <1>1
<1>4. ASSUME NEW g \in cut PROVE g.nodes = Saved.nodes
  <2>1. PICK n \in 0..(Len(edges) - 1), to \in 0..seq :
          g = [Saved EXCEPT !.edges = Append(SubSeq(edges, 1, n), <<edges[n + 1][1], to>>)]
    OBVIOUS
  <2> QED
    BY <1>1, <2>1
<1> HIDE DEF whole, cut
<1> QED
  BY <1>2, <1>3, <1>4

\* However the file is cut, its texts hold no other tokens.
LEMMA TornTexts ==
  ASSUME NEW T, Texts(T), Closed(T), Counted(nodes, clock, seq), NEW f \in TornFiles
  PROVE  \A i \in DOMAIN f.nodes : f.nodes[i].content \in Seq(T)
<1>1. CASE f \in TornInHeader
  <2>1. f.nodes = Empty
    <3>1. CASE f = EmptyFile
      BY <3>1 DEF EmptyFile
    <3>2. CASE f \in {[EmptyFile EXCEPT !.clock = clock, !.seq = s] : s \in 0..seq}
      <4>1. PICK s \in 0..seq : f = [EmptyFile EXCEPT !.clock = clock, !.seq = s]
        BY <3>2
      <4> QED
        BY <4>1 DEF EmptyFile
    <3> QED
      BY <1>1, <3>1, <3>2 DEF TornInHeader
  <2> QED
    BY <2>1 DEF Empty
<1>2. CASE f \in TornInNodes
  <2> DEFINE texts == UNION {Prefixes(Saved.nodes[i].content) : i \in DOMAIN nodes}
  <2>1. PICK ids \in SUBSET DOMAIN nodes, last \in DOMAIN nodes, l \in Labels, c \in texts :
             f = NodesCut(ids, last, l, c)
    BY <1>2 DEF TornInNodes
  <2>2. c \in Seq(T)
    BY SavedTexts, CutText DEF Closed
  <2> DEFINE ns == [i \in ids |-> IF i = last
                      THEN [Saved.nodes[i] EXCEPT !.label = l, !.content = c]
                      ELSE Saved.nodes[i]]
  <2>3. f.nodes = ns
    BY <2>1 DEF NodesCut
  <2>4. ASSUME NEW i \in ids PROVE ns[i].content \in Seq(T)
    <3> DEFINE n == Saved.nodes[i]
               m == [n EXCEPT !.label = l, !.content = c]
    <3>1. n.content \in Seq(T) /\ IsNode(n) /\ ns[i] = IF i = last THEN m ELSE n
      BY SavedTexts, SavedSound
    <3> HIDE DEF ns, n
    <3>2. m.content = c
      BY <3>1 DEF IsNode
    <3> HIDE DEF m
    <3> QED
      BY <2>2, <3>1, <3>2
  <2> HIDE DEF ns
  <2>5. DOMAIN ns = ids
    BY DEF ns
  <2> QED
    BY <2>3, <2>4, <2>5
<1>3. CASE f \in TornInEdges
  BY <1>3, TornEdgesKeepNodes, SavedTexts
<1> QED
  BY <1>1, <1>2, <1>3 DEF TornFiles

\* No step brings other tokens in.
LEMMA TextsStep ==
  ASSUME NEW T, RetrievesAll, Closed(T), IInv, Texts(T), [StoreNext]_storeVars
  PROVE  Texts(T)'
<1>0. Counted(nodes, clock, seq)
  BY DEF IInv, Graphs
<1>1. ASSUME NEW text \in Notes, RecordOther(text), UNCHANGED storage
      PROVE  Texts(T)'
  <2>1. ScrubbedOr(text) /\ file' = file
    BY <1>1, CreatedScrubs DEF RecordOther
  <2> QED
    BY <1>1, <2>1, TextsKept
<1>2. ASSUME NEW name \in RoomNames, RememberRoom(name), UNCHANGED storage
      PROVE  Texts(T)'
  <2>1. ScrubbedOr(Plain) /\ file' = file
    BY <1>2, FoundOrCreatedScrubs DEF RememberRoom
  <2> QED
    BY <1>2, <2>1, TextsKept
<1>3. ASSUME RememberResource, UNCHANGED storage
      PROVE  Texts(T)'
  <2>1. ScrubbedOr(Plain) /\ file' = file
    BY <1>3, FoundOrCreatedScrubs DEF RememberResource
  <2> QED
    BY <1>3, <2>1, TextsKept
<1>4. ASSUME UNCHANGED storage
      PROVE  Kept' = Kept
  BY <1>4 DEF storage, Kept
<1>5. ASSUME Kill, UNCHANGED storage
      PROVE  Texts(T)'
  <2>1. nodes' = Empty /\ file' = file
    BY <1>5 DEF Kill, Gone
  <2> QED
    BY <1>4, <1>5, <2>1 DEF Texts, Empty
<1>6. ASSUME backend = "file", Launch, UNCHANGED storage
      PROVE  Texts(T)'
  BY <1>4, <1>6 DEF Launch, Texts
<1>7. ASSUME backend = "file", Exit, UNCHANGED storage
      PROVE  Texts(T)'
  <2>1. nodes' = Empty /\ file' = Saved
    BY <1>7 DEF Exit, Gone
  <2>2. \A i \in DOMAIN file'.nodes : file'.nodes[i].content \in Seq(T)
    BY <1>0, <2>1, SavedTexts
  <2> QED
    BY <1>4, <1>7, <2>1, <2>2 DEF Texts, Empty
<1>8. ASSUME backend = "file", ExitTorn, UNCHANGED storage
      PROVE  Texts(T)'
  <2>1. nodes' = Empty /\ file' \in TornFiles
    BY <1>8 DEF ExitTorn, Gone
  <2>2. \A i \in DOMAIN file'.nodes : file'.nodes[i].content \in Seq(T)
    BY <1>0, <2>1, TornTexts
  <2> QED
    BY <1>4, <1>8, <2>1, <2>2 DEF Texts, Empty
<1>9. ASSUME backend = "store", LoadStore
      PROVE  Texts(T)'
  <2>1. /\ nodes' = [id \in StoredIds |-> Best(id).node] /\ file' = file /\ UNCHANGED storage
    BY <1>9 DEF LoadStore
  <2>2. \A id \in StoredIds : Best(id) \in Kept
    BY <1>9, StoredIdsAreKept DEF IInv, Backed
  <2>3. \A id \in DOMAIN nodes' : \E e \in Kept : nodes'[id] = e.node
    BY <2>1, <2>2
  <2> QED
    BY <1>4, <1>9, <2>1, <2>3 DEF Texts
<1>10. ASSUME backend = "store", SaveStore
       PROVE  Texts(T)'
  <2>1. nodes' = nodes /\ file' = file
    BY <1>10 DEF SaveStore, vars, memory
  <2>2. ASSUME NEW e \in Kept'
        PROVE  e.node.content \in Seq(T)
    <3>1. CASE e \in Kept
      BY <1>10, <3>1 DEF Texts
    <3>2. CASE \E id \in DOMAIN nodes : e = Experience(id)
      <4>1. PICK id \in DOMAIN nodes : e = Experience(id)
        BY <3>2
      <4>2. Scrub(nodes[id].content) \in Seq(T) /\ IsNode(nodes[id])
        BY <1>0, <1>10 DEF Texts, Closed, Counted
      <4>3. e.node.content = Clip(Scrub(nodes[id].content), Plain)
        BY <4>1, <4>2, HeldIsNode DEF Experience
      <4> QED
        BY <4>2, <4>3, ClippedText DEF Closed
    <3> QED
      BY <1>10, <3>1, <3>2, SaveKeeps
  <2> QED
    BY <1>10, <2>1, <2>2 DEF Texts
<1>11. ASSUME UNCHANGED storeVars
       PROVE  Texts(T)'
  <2>1. nodes' = nodes /\ file' = file /\ UNCHANGED storage
    BY <1>11 DEF storeVars, vars, memory
  <2> QED
    BY <1>4, <2>1 DEF Texts
<1> QED
  BY <1>1, <1>2, <1>3, <1>5, <1>6, <1>7, <1>8, <1>9, <1>10, <1>11 DEF StoreNext, Next

-----------------------------------------------------------------------------
(* A load finds the last snapshot *)

\* A whole save leaves its copies the newest freshest ones of the store.
LEMMA SnapshotSaved ==
  ASSUME IInv, Texts(Tokens), backend = "store", SaveStore
  PROVE  Snapshot'
<1>1. PICK ids \in Seq(DOMAIN nodes) :
        /\ IsInjective(ids)
        /\ store \in Seq(Range(store)) /\ store' \in Seq(Range(store'))
        /\ Len(store') = Len(store) + Len(ids)
        /\ \A k \in 1..Len(store) : store'[k] = store[k]
        /\ \A k \in 1..Len(ids) : store'[Len(store) + k] = Experience(ids[k])
        /\ saved' = IF Range(ids) = DOMAIN nodes
                    THEN [nodes |-> nodes, edges |-> Range(edges)] ELSE None
  BY SaveAppends
<1>2. /\ Counted(nodes, clock, seq) /\ edges \in Seq(Pairs) /\ Shaped(nodes, edges)
      /\ running /\ Consistent /\ Followed
  BY DEF IInv, Graphs, Backed, SaveStore
<1> SUFFICES ASSUME Range(ids) = DOMAIN nodes, saved' = [nodes |-> nodes, edges |-> Range(edges)]
             PROVE  Snapshot'
  BY <1>1 DEF Snapshot
<1>3. saved'.nodes = nodes /\ saved'.edges = Range(edges)
  OBVIOUS
<1>4. ASSUME NEW id \in DOMAIN nodes
      PROVE  LET e == Experience(id)
             IN  /\ e.id = id /\ e.touch = nodes[id].touch /\ e \in [id : Nat \ {0}, touch : Nat,
                        node : {e.node}, edges : {e.edges}]
                 /\ e.node = Held(nodes[id]) /\ Range(e.edges) = {x \in Range(edges) : x[1] = id}
  <2> DEFINE e == Experience(id)
  <2>1. e.id = id /\ e.touch = nodes[id].touch /\ e.edges = EdgesFrom(id)
    BY DEF Experience
  <2>2. id \in Nat \ {0} /\ nodes[id].touch \in Nat
    BY <1>2 DEF Counted, IsNode
  <2>3. e \in [id : Nat \ {0}, touch : Nat, node : {e.node}, edges : {e.edges}]
    BY <2>1, <2>2 DEF Experience
  <2>4. e.node = Held(nodes[id])
    BY DEF Experience
  <2>5. Range(EdgesFrom(id)) = {x \in Range(edges) : x[1] = id}
    <3>1. /\ DOMAIN EdgesFrom(id) = {k \in DOMAIN edges : edges[k][1] = id}
          /\ \A k \in DOMAIN EdgesFrom(id) : EdgesFrom(id)[k] = edges[k]
      BY <1>2, EdgesFromAreEdges DEF Shaped
    <3> QED
      BY <3>1 DEF Range
  <2> HIDE DEF e
  <2> QED
    BY <2>1, <2>3, <2>4, <2>5 DEF e
<1>5. \A id \in DOMAIN nodes : Experience(id) # Foreign
  <2> SUFFICES ASSUME NEW id \in DOMAIN nodes PROVE Experience(id).id # Foreign.id
    OBVIOUS
  <2> QED
    BY <1>2, <1>4 DEF Foreign, Counted
<1>6. \A e \in Kept : Follows(e)
  BY <1>2 DEF Followed
<1>7. \A e \in Kept' : e.id \in DOMAIN nodes
  BY <1>4, <1>6, SaveKeeps DEF Follows
<1>8. ASSUME NEW id \in DOMAIN nodes
      PROVE  \E k \in DOMAIN store' :
               /\ Newest(k, id)' /\ store'[k].node = Held(nodes[id])
               /\ Range(store'[k].edges) = {e \in Range(edges) : e[1] = id}
  <2>1. PICK m \in DOMAIN ids : ids[m] = id
    BY DEF Range
  <2>2. Len(store) \in Nat /\ Len(ids) \in Nat /\ m \in 1..Len(ids) /\ DOMAIN store' = 1..Len(store')
    BY <1>1, <2>1
  <2>3. PICK k \in DOMAIN store' : k = Len(store) + m /\ store'[k] = Experience(id)
    BY <1>1, <2>1, <2>2
  <2>4. ASSUME NEW j \in DOMAIN store', store'[j] # Foreign, store'[j].id = id
        PROVE  \/ store'[j].touch < store'[k].touch
               \/ store'[j].touch = store'[k].touch /\ j <= k
    <3>1. CASE j <= Len(store)
      <4>1. store'[j] \in Kept /\ j <= k
        <5>1. j \in 1..Len(store) /\ j <= k
          BY <2>2, <2>3, <3>1
        <5>2. j \in DOMAIN store /\ store'[j] = store[j]
          BY <1>1, <5>1
        <5> QED
          BY <2>4, <5>1, <5>2 DEF Kept, Range
      <4>2. store'[j].touch \in Nat /\ store'[j].touch <= nodes[id].touch
        BY <1>2, <1>6, <2>4, <4>1 DEF Follows, Consistent, IsExperience, IsNode
      <4>3. nodes[id].touch \in Nat /\ store'[k].touch = nodes[id].touch
        BY <1>2, <1>4, <2>3 DEF Counted, IsNode
      <4> QED
        BY <4>1, <4>2, <4>3
    <3>2. CASE j > Len(store)
      <4> DEFINE l == j - Len(store)
      <4>1. l \in 1..Len(ids) /\ j = Len(store) + l
        BY <1>1, <2>2, <3>2
      <4> HIDE DEF l
      <4>2. store'[j] = Experience(ids[l]) /\ ids[l] \in DOMAIN nodes
        BY <1>1, <4>1
      <4>3. ids[l] = id
        BY <1>4, <2>4, <4>2
      <4>4. l = m
        BY <1>1, <2>1, <2>2, <4>1, <4>3 DEF IsInjective
      <4> QED
        BY <2>2, <2>3, <4>1, <4>4
    <3> QED
      BY <2>2, <3>1, <3>2
  <2>5. Newest(k, id)'
    BY <1>4, <1>5, <2>3, <2>4 DEF Newest
  <2> QED
    BY <1>4, <2>3, <2>5
<1>9. \A e \in Range(edges) : e[1] \in DOMAIN nodes /\ e[2] \in DOMAIN nodes
  BY <1>2 DEF Shaped, Range
<1>10. nodes = [id \in DOMAIN nodes |-> nodes[id]]
  BY <1>2 DEF Counted
<1>11. \A id \in DOMAIN nodes : IsNode(nodes[id]) /\ nodes[id].content \in Seq(Tokens)
  BY <1>2 DEF Counted, Texts
<1> QED
  BY <1>3, <1>7, <1>8, <1>9, <1>10, <1>11 DEF Snapshot

LEMMA SnapshotStep ==
  ASSUME IInv, Texts(Tokens), Snapshot, [StoreNext]_storeVars
  PROVE  Snapshot'
<1>1. CASE backend = "store" /\ SaveStore
  BY <1>1, SnapshotSaved
<1>2. CASE UNCHANGED <<store, saved>>
  <2>1. Kept' = Kept
    BY <1>2 DEF Kept
  <2> QED
    BY <1>2, <2>1 DEF Snapshot, Newest
<1> QED
  BY <1>1, <1>2 DEF StoreNext, LoadStore, storage, storeVars

LEMMA ReversedIsAll ==
  ASSUME NewestFirst
  PROVE  RetrievesAll
<1> SUFFICES ASSUME NEW S, NEW records \in Seq(S)
             PROVE  /\ Reverse(records) \in Seq(S)
                    /\ Range(Reverse(records)) = Range(records)
  BY DEF RetrievesAll, NewestFirst
<1> DEFINE r == Reverse(records)
<1>1. Len(records) \in Nat /\ DOMAIN records = 1..Len(records)
  OBVIOUS
<1>2. DOMAIN r = 1..Len(records) /\ \A i \in 1..Len(records) : r[i] = records[Len(records) - i + 1]
  BY DEF Reverse
<1>3. r \in [1..Len(records) -> S]
  BY <1>1 DEF Reverse
<1>4. r \in Seq(S)
  BY <1>1, <1>3, SeqDef
<1>5. \A i \in 1..Len(records) :
        /\ Len(records) - i + 1 \in 1..Len(records)
        /\ Len(records) - (Len(records) - i + 1) + 1 = i
  BY <1>1
<1> HIDE DEF r
<1>6. Range(r) = Range(records)
  BY <1>1, <1>2, <1>5 DEF Range
<1> QED
  BY <1>4, <1>6 DEF r

\* What the load takes of a node is its newest freshest copy.
LEMMA BestIsNewest ==
  ASSUME NewestFirst, Consistent, NEW id, NEW k \in DOMAIN store, Newest(k, id)
  PROVE  id \in StoredIds /\ Best(id) = store[k]
<1> DEFINE n == Len(store)
<1>1. store \in Seq(Range(store))
  BY DEF Consistent
<1>2. n \in Nat /\ DOMAIN store = 1..n
  BY <1>1
<1>3. Records = Reverse(store)
  BY <1>1 DEF NewestFirst, Records
<1>4. DOMAIN Records = 1..n /\ \A i \in 1..n : Records[i] = store[n - i + 1]
  BY <1>3 DEF Reverse
<1> HIDE DEF n
<1> DEFINE kk == n - k + 1
<1>5. kk \in 1..n /\ Records[kk] = store[k]
  <2>1. kk \in 1..n /\ n - kk + 1 = k
    BY <1>2
  <2> HIDE DEF kk
  <2> QED
    BY <1>4, <2>1
<1>6. kk \in Copies(id) /\ id \in StoredIds
  BY <1>4, <1>5 DEF Newest, Copies, Ours, StoredIds
<1>7. PICK b \in Copies(id) :
        /\ Best(id) = Records[b]
        /\ \A j \in Copies(id) :
             \/ Records[j].touch < Records[b].touch
             \/ Records[j].touch = Records[b].touch /\ j >= b
  BY <1>6, ReversedIsAll, BestIsFreshest
<1>8. b \in 1..n /\ Records[b] # Foreign /\ Records[b].id = id
  BY <1>4 DEF Copies, Ours
<1> DEFINE bb == n - b + 1
<1>9. bb \in DOMAIN store /\ store[bb] = Records[b]
  BY <1>2, <1>4, <1>8
<1>10. \/ Records[b].touch < store[k].touch
       \/ Records[b].touch = store[k].touch /\ bb <= k
  BY <1>8, <1>9 DEF Newest
<1>11. \/ store[k].touch < Records[b].touch
       \/ store[k].touch = Records[b].touch /\ kk >= b
  BY <1>5, <1>6, <1>7
<1>12. store[k].touch \in Nat /\ Records[b].touch \in Nat
  <2>1. store[k] \in Kept /\ Records[b] \in Kept
    BY <1>8, <1>9 DEF Newest, Kept, Range
  <2> QED
    BY <2>1 DEF Consistent, IsExperience, IsNode
<1>13. bb <= k /\ kk >= b
  BY <1>10, <1>11, <1>12
<1>14. b = kk
  BY <1>2, <1>8, <1>13
<1> QED
  BY <1>5, <1>6, <1>7, <1>14

\* A load puts the newest freshest copies together again.
LEMMA SnapshotIsLoaded ==
  ASSUME NewestFirst, IInv, Snapshot
  PROVE  SnapshotRestored
<1> SUFFICES ASSUME saved # None
             PROVE  /\ StoredIds = DOMAIN saved.nodes
                    /\ \A id \in StoredIds :
                         /\ Best(id).node = Held(saved.nodes[id])
                         /\ Fits(saved.nodes[id].content) => Best(id).node = saved.nodes[id]
                    /\ Range(LoadedEdges) = saved.edges
  BY DEF SnapshotRestored
<1>1. Consistent /\ RetrievesAll
  BY ReversedIsAll DEF IInv, Backed
<1>2. ASSUME NEW id \in DOMAIN saved.nodes
      PROVE  /\ id \in StoredIds /\ Best(id).node = Held(saved.nodes[id])
             /\ Range(Best(id).edges) = {e \in saved.edges : e[1] = id}
  <2>1. PICK k \in DOMAIN store :
          /\ Newest(k, id) /\ store[k].node = Held(saved.nodes[id])
          /\ Range(store[k].edges) = {e \in saved.edges : e[1] = id}
    BY DEF Snapshot
  <2> QED
    BY <1>1, <2>1, BestIsNewest
<1>3. StoredIds = DOMAIN saved.nodes
  <2>1. ASSUME NEW id \in StoredIds PROVE id \in DOMAIN saved.nodes
    <3>1. Best(id) \in Kept /\ Best(id).id = id
      BY <1>1, StoredIdsAreKept
    <3> QED
      BY <3>1 DEF Snapshot
  <2> QED
    BY <1>2, <2>1
<1>4. Range(LoadedEdges) = {e \in UNION {Range(Best(id).edges) : id \in StoredIds} :
                              e[2] \in StoredIds}
  BY <1>1, LoadedEdgesSound
<1>5. \A e \in saved.edges : e[1] \in StoredIds /\ e[2] \in StoredIds
  BY <1>3 DEF Snapshot
<1>6. \A id \in StoredIds : \A e : e \in Range(Best(id).edges) <=> e \in saved.edges /\ e[1] = id
  BY <1>2, <1>3
<1>7. Range(LoadedEdges) = saved.edges
  BY <1>4, <1>5, <1>6
<1>8. \A id \in DOMAIN saved.nodes :
        Fits(saved.nodes[id].content) => Held(saved.nodes[id]) = saved.nodes[id]
  BY FittingIsHeld DEF Snapshot
<1> QED
  BY <1>2, <1>3, <1>7, <1>8

-----------------------------------------------------------------------------
(* Folds over a text, by a step that is a function *)

\* What holds of the empty sequence, and of one that is longer by an element
\* than one it holds of, holds of all.
LEMMA TextInduction ==
  ASSUME NEW T, NEW good, << >> \in good,
         \A x \in Seq(T), t \in T : x \in good => Append(x, t) \in good
  PROVE  \A x \in Seq(T) : x \in good
<1> DEFINE lengths == {Len(x) : x \in Seq(T) \ good}
<1>1. SUFFICES ASSUME Seq(T) \ good # {} PROVE FALSE
  OBVIOUS
<1>2. lengths \in SUBSET Nat /\ lengths # {}
  BY <1>1
<1>3. PICK m \in lengths : \A k \in lengths : m <= k
  BY <1>2, LeastElement
<1>4. PICK x \in Seq(T) \ good : m = Len(x)
  OBVIOUS
<1>5. PICK y \in Seq(T), t \in T : x = Append(y, t)
  BY <1>4, SequenceEmptyOrAppend
<1>6. y \notin good /\ Len(y) \in Nat /\ m = Len(y) + 1
  BY <1>4, <1>5, AppendProperties
<1>7. Len(y) \in lengths
  BY <1>6
<1> QED
  BY <1>3, <1>6, <1>7

IsStep(F, S, T, start) == start \in S /\ F \in [S \X T -> S]

\* The fold's own recursion: over sets of places, the last place of each last.
IsFold(g, F, start, x) ==
  /\ g = [s \in SUBSET DOMAIN x |-> g[s]]
  /\ g[{}] = start
  /\ \A s \in SUBSET DOMAIN x : s # {} => g[s] = F[<<g[s \ {Max(s)}], x[Max(s)]>>]

Folded(F, start, x) == (CHOOSE g : IsFold(g, F, start, x))[DOMAIN x]

\* A set of places has a last one.
LEMMA LastPlace ==
  ASSUME NEW n \in Nat, NEW s \in SUBSET (1..n), s # {}
  PROVE  Max(s) \in s /\ \A k \in s : k <= Max(s)
<1>1. s \in SUBSET Nat /\ \A k \in s : k <= n
  OBVIOUS
<1> QED
  BY <1>1, MaxIsIn

\* The last of the first n places is n.
LEMMA LastOfInterval ==
  ASSUME NEW n \in Nat \ {0}
  PROVE  Max(1..n) = n /\ (1..n) \ {n} = 1..(n - 1)
<1>1. n \in 1..n /\ 1..n \in SUBSET (1..n)
  OBVIOUS
<1>2. Max(1..n) \in 1..n /\ \A k \in 1..n : k <= Max(1..n)
  BY <1>1, LastPlace
<1> QED
  BY <1>1, <1>2

\* There is a function that obeys the recursion.
LEMMA FoldExists ==
  ASSUME NEW S, NEW T, NEW start \in S, NEW F \in [S \X T -> S], NEW x \in Seq(T)
  PROVE  \E g \in [SUBSET DOMAIN x -> S] : IsFold(g, F, start, x)
<1> DEFINE upTo(k, g) == /\ g \in [SUBSET (1..k) -> S] /\ g[{}] = start
                         /\ \A s \in SUBSET (1..k) : s # {} =>
                              g[s] = F[<<g[s \ {Max(s)}], x[Max(s)]>>]
           bad == {k \in 0..Len(x) : ~ \E g : upTo(k, g)}
<1>1. bad \in SUBSET Nat
  OBVIOUS
<1>2. 0 \notin bad
  <2> DEFINE g == [s \in SUBSET (1..0) |-> start]
  <2>1. \A s \in SUBSET (1..0) : s = {}
    OBVIOUS
  <2>2. upTo(0, g)
    BY <2>1
  <2> QED
    BY <2>2
<1>3. ASSUME NEW k \in 0..Len(x), k + 1 <= Len(x), NEW g, upTo(k, g)
      PROVE  \E h : upTo(k + 1, h)
  <2> DEFINE b(s) == s \ {k + 1}
             h == [s \in SUBSET (1..(k + 1)) |->
                     IF k + 1 \in s THEN F[<<g[b(s)], x[k + 1]>>] ELSE g[s]]
  <2>1. \A s \in SUBSET (1..(k + 1)) : b(s) \in SUBSET (1..k) /\ (k + 1 \notin s => s \in SUBSET (1..k))
    OBVIOUS
  <2>2. x[k + 1] \in T
    BY <1>3
  <2>3. \A s \in SUBSET (1..(k + 1)) : h[s] \in S
    BY <1>3, <2>1, <2>2
  <2>4. h \in [SUBSET (1..(k + 1)) -> S]
    BY <2>3
  <2>5. h[{}] = start
    BY <1>3
  <2>6. \A s \in SUBSET (1..k) : h[s] = g[s]
    BY <1>3
  <2>7. ASSUME NEW s \in SUBSET (1..(k + 1)), s # {}
        PROVE  h[s] = F[<<h[s \ {Max(s)}], x[Max(s)]>>]
    <3>0. k + 1 \in Nat
      OBVIOUS
    <3>1. Max(s) \in s /\ \A j \in s : j <= Max(s)
      BY <2>7, <3>0, LastPlace
    <3>2. CASE k + 1 \in s
      <4>1. Max(s) = k + 1
        <5>1. Max(s) \in 1..(k + 1) /\ k + 1 <= Max(s)
          BY <3>1, <3>2
        <5> QED
          BY <5>1
      <4>2. h[s] = F[<<g[b(s)], x[k + 1]>>] /\ h[b(s)] = g[b(s)]
        BY <3>2, <2>1, <2>6
      <4> QED
        BY <4>1, <4>2
    <3>3. CASE k + 1 \notin s
      <4>1. s \in SUBSET (1..k) /\ s \ {Max(s)} \in SUBSET (1..k)
        BY <3>3, <2>1
      <4>2. g[s] = F[<<g[s \ {Max(s)}], x[Max(s)]>>]
        BY <4>1, <2>7, <1>3
      <4> HIDE DEF h
      <4> QED
        BY <4>1, <4>2, <2>6
    <3> QED
      BY <3>2, <3>3
  <2> HIDE DEF h
  <2>8. upTo(k + 1, h)
    BY <2>4, <2>5, <2>7
  <2> QED
    BY <2>8
<1>4. bad = {}
  <2> SUFFICES ASSUME bad # {} PROVE FALSE
    OBVIOUS
  <2>1. PICK m \in bad : \A k \in bad : m <= k
    <3> HIDE DEF bad
    <3> QED
      BY <1>1, LeastElement
  <2>2. m \in 0..Len(x) /\ m # 0 /\ m - 1 \in 0..Len(x) /\ m - 1 \notin bad /\ (m - 1) + 1 = m
    <3>1. m \in 0..Len(x)
      OBVIOUS
    <3> HIDE DEF bad
    <3> QED
      BY <1>2, <2>1, <3>1
  <2>3. PICK g : upTo(m - 1, g)
    BY <2>2
  <2>4. \E h : upTo(m, h)
    <3> HIDE DEF upTo, bad
    <3>1. \E h : upTo((m - 1) + 1, h)
      BY <1>3, <2>2, <2>3
    <3> QED
      BY <2>2, <3>1
  <2> QED
    BY <2>1, <2>4
<1>5. Len(x) \in 0..Len(x) /\ DOMAIN x = 1..Len(x)
  OBVIOUS
<1>6. PICK g : upTo(Len(x), g)
  BY <1>4, <1>5
<1>7. g = [s \in SUBSET DOMAIN x |-> g[s]]
  BY <1>5, <1>6
<1> QED
  BY <1>5, <1>6, <1>7 DEF IsFold

GoesBy(c, S, start, F, n, x) ==
  /\ c[{}] = start
  /\ \A i \in 1..n : c[1..(i - 1)] \in S => c[1..i] = F[<<c[1..(i - 1)], x[i]>>]

\* Two functions that go by the same steps over the first places agree there.
LEMMA FoldsAgree ==
  ASSUME NEW S, NEW T, NEW start \in S, NEW F \in [S \X T -> S],
         NEW n \in Nat, NEW x, \A i \in 1..n : x[i] \in T,
         NEW c, NEW d, GoesBy(c, S, start, F, n, x), GoesBy(d, S, start, F, n, x)
  PROVE  c[1..n] = d[1..n] /\ c[1..n] \in S
<1> DEFINE bad == {i \in 0..n : ~(c[1..i] = d[1..i] /\ c[1..i] \in S)}
<1>1. SUFFICES bad = {}
  OBVIOUS
<1>2. SUFFICES ASSUME bad # {} PROVE FALSE
  OBVIOUS
<1>3. bad \in SUBSET Nat
  OBVIOUS
<1>4. PICK m \in bad : \A k \in bad : m <= k
  <2> HIDE DEF bad
  <2> QED
    BY <1>2, <1>3, LeastElement
<1>5. m # 0
  <2>1. 1..0 = {}
    OBVIOUS
  <2> QED
    BY <1>4, <2>1 DEF GoesBy
<1>6. m \in 1..n /\ m - 1 \in 0..n /\ m - 1 \notin bad
  BY <1>4, <1>5
<1>7. c[1..(m - 1)] = d[1..(m - 1)] /\ c[1..(m - 1)] \in S
  BY <1>6
<1>8. x[m] \in T
  BY <1>6
<1>9. c[1..m] = F[<<c[1..(m - 1)], x[m]>>] /\ d[1..m] = F[<<c[1..(m - 1)], x[m]>>]
  BY <1>6, <1>7 DEF GoesBy
<1>10. c[1..m] = d[1..m] /\ c[1..m] \in S
  BY <1>7, <1>8, <1>9
<1> QED
  BY <1>4, <1>10

\* A fold starts with its start, and goes a step with each further token.
LEMMA FoldedLaw ==
  ASSUME NEW S, NEW T, NEW start, NEW F, IsStep(F, S, T, start)
  PROVE  /\ Folded(F, start, << >>) = start
         /\ \A x \in Seq(T) : Folded(F, start, x) \in S
         /\ \A x \in Seq(T), t \in T :
              Folded(F, start, Append(x, t)) = F[<<Folded(F, start, x), t>>]
<1> DEFINE chosen(x) == CHOOSE g : IsFold(g, F, start, x)
<1> USE DEF IsStep
<1>1. ASSUME NEW x \in Seq(T)
      PROVE  /\ chosen(x)[{}] = start
             /\ \A i \in 1..Len(x) : chosen(x)[1..i] = F[<<chosen(x)[1..(i - 1)], x[i]>>]
             /\ Folded(F, start, x) = chosen(x)[1..Len(x)]
  <2>1. \E g : IsFold(g, F, start, x)
    BY FoldExists
  <2>2. IsFold(chosen(x), F, start, x)
    BY <2>1
  <2> DEFINE g == chosen(x)
  <2> HIDE DEF g
  <2>3. ASSUME NEW i \in 1..Len(x)
        PROVE  g[1..i] = F[<<g[1..(i - 1)], x[i]>>]
    <3>0. i \in Nat \ {0} /\ Len(x) \in Nat /\ DOMAIN x = 1..Len(x)
      OBVIOUS
    <3>1. 1..i \in SUBSET DOMAIN x /\ i \in 1..i
      BY <3>0
    <3>2. Max(1..i) = i /\ (1..i) \ {i} = 1..(i - 1)
      BY <3>0, LastOfInterval
    <3>3. g[1..i] = F[<<g[(1..i) \ {Max(1..i)}], x[Max(1..i)]>>]
      BY <2>2, <3>1 DEF IsFold, g
    <3> QED
      BY <3>2, <3>3
  <2>4. DOMAIN x = 1..Len(x)
    OBVIOUS
  <2> QED
    BY <2>2, <2>3, <2>4 DEF g, IsFold, Folded
<1> HIDE DEF chosen
<1>2. Folded(F, start, << >>) = start
  <2>1. << >> \in Seq(T) /\ 1..Len(<< >>) = {}
    OBVIOUS
  <2> QED
    BY <1>1, <2>1
<1>3. ASSUME NEW x \in Seq(T)
      PROVE  Folded(F, start, x) \in S
  <2>1. \A i \in 1..Len(x) : x[i] \in T
    OBVIOUS
  <2>2. chosen(x)[1..Len(x)] \in S
    <3> DEFINE c == chosen(x)
               n == Len(x)
    <3>1. c[{}] = start /\ n \in Nat
      BY <1>1
    <3>2. \A i \in 1..n : c[1..i] = F[<<c[1..(i - 1)], x[i]>>]
      BY <1>1
    <3> HIDE DEF c, n
    <3>3. \A i \in 1..n : x[i] \in T
      BY <2>1 DEF n
    <3>4. GoesBy(c, S, start, F, n, x)
      BY <3>1, <3>2 DEF GoesBy
    <3>5. c[1..n] \in S
      BY <3>1, <3>3, <3>4, FoldsAgree
    <3> QED
      BY <3>5 DEF c, n
  <2> QED
    BY <1>1, <2>2
<1>4. ASSUME NEW x \in Seq(T), NEW t \in T
      PROVE  Folded(F, start, Append(x, t)) = F[<<Folded(F, start, x), t>>]
  <2> DEFINE y == Append(x, t)
             n == Len(x)
             c == chosen(y)
             d == chosen(x)
  <2>1. /\ y \in Seq(T) /\ Len(y) = n + 1 /\ y[n + 1] = t /\ n \in Nat
        /\ \A i \in 1..n : y[i] = x[i]
    BY AppendProperties
  <2>2. \A i \in 1..n : x[i] \in T
    OBVIOUS
  <2> HIDE DEF y
  <2>3. /\ c[{}] = start /\ d[{}] = start
        /\ Folded(F, start, y) = c[1..(n + 1)] /\ Folded(F, start, x) = d[1..n]
    BY <1>1, <2>1
  <2>4. \A i \in 1..(n + 1) : c[1..i] = F[<<c[1..(i - 1)], y[i]>>]
    BY <1>1, <2>1
  <2>5. \A i \in 1..n : d[1..i] = F[<<d[1..(i - 1)], x[i]>>]
    BY <1>1, <2>1
  <2> HIDE DEF c, d, n
  <2>6. c[1..n] = d[1..n]
    <3>1. \A i \in 1..n : i \in 1..(n + 1) /\ y[i] = x[i]
      BY <2>1
    <3>2. GoesBy(c, S, start, F, n, x)
      BY <2>3, <2>4, <3>1 DEF GoesBy
    <3>3. GoesBy(d, S, start, F, n, x)
      BY <2>3, <2>5 DEF GoesBy
    <3>4. n \in Nat
      BY <2>1
    <3>5. c[1..n] = d[1..n] /\ c[1..n] \in S
      BY <2>2, <3>2, <3>3, <3>4, FoldsAgree
    <3> QED
      BY <3>5
  <2>7. c[1..(n + 1)] = F[<<c[1..n], t>>]
    <3>1. n + 1 \in 1..(n + 1) /\ (n + 1) - 1 = n
      BY <2>1
    <3> QED
      BY <2>1, <2>4, <3>1
  <2> QED
    BY <2>3, <2>6, <2>7 DEF y
<1> QED
  BY <1>2, <1>3, <1>4

\* Whatever goes by the fold's recursion as long as it is typed is the fold.
Recurs(c, S, F, start, x) ==
  /\ c[{}] = start
  /\ \A s \in SUBSET DOMAIN x : s # {} /\ c[s \ {Max(s)}] \in S
                           => c[s] = F[<<c[s \ {Max(s)}], x[Max(s)]>>]

\* It is what a fold in the model is, whatever else its step does untyped.
LEMMA FoldFound ==
  ASSUME NEW S, NEW T, NEW start, NEW F, IsStep(F, S, T, start), NEW x \in Seq(T),
         NEW c, Recurs(c, S, F, start, x)
  PROVE  c[DOMAIN x] = Folded(F, start, x)
<1> DEFINE n == Len(x)
           d == CHOOSE g : IsFold(g, F, start, x)
<1> USE DEF IsStep, Recurs
<1>1. n \in Nat /\ DOMAIN x = 1..n /\ \A i \in 1..n : x[i] \in T
  OBVIOUS
<1>2. IsFold(d, F, start, x)
  <2>1. \E g : IsFold(g, F, start, x)
    BY FoldExists
  <2> QED
    BY <2>1
<1> HIDE DEF n, d
<1>3. \A i \in 1..n : /\ 1..i \in SUBSET DOMAIN x /\ 1..i # {}
                      /\ Max(1..i) = i /\ (1..i) \ {i} = 1..(i - 1)
  <2> TAKE i \in 1..n
  <2>1. i \in Nat \ {0} /\ i \in 1..i /\ 1..i \in SUBSET DOMAIN x
    BY <1>1
  <2> QED
    BY <2>1, LastOfInterval
<1>4. GoesBy(c, S, start, F, n, x)
  <2>1. ASSUME NEW i \in 1..n, c[1..(i - 1)] \in S
        PROVE  c[1..i] = F[<<c[1..(i - 1)], x[i]>>]
    <3>1. c[(1..i) \ {Max(1..i)}] \in S
      BY <1>3, <2>1
    <3>2. c[1..i] = F[<<c[(1..i) \ {Max(1..i)}], x[Max(1..i)]>>]
      BY <1>3, <3>1
    <3> QED
      BY <1>3, <3>2
  <2> QED
    BY <2>1 DEF GoesBy
<1>5. GoesBy(d, S, start, F, n, x)
  <2>1. ASSUME NEW i \in 1..n
        PROVE  d[1..i] = F[<<d[1..(i - 1)], x[i]>>]
    <3>1. d[1..i] = F[<<d[(1..i) \ {Max(1..i)}], x[Max(1..i)]>>]
      BY <1>2, <1>3 DEF IsFold
    <3> QED
      BY <1>3, <3>1
  <2>2. d[{}] = start
    BY <1>2 DEF IsFold
  <2> QED
    BY <2>1, <2>2 DEF GoesBy
<1>6. start \in S /\ F \in [S \X T -> S]
  OBVIOUS
<1>7. c[1..n] = d[1..n]
  <2> HIDE DEF IsStep, Recurs
  <2>1. n \in Nat
    BY <1>1
  <2>2. \A i \in 1..n : x[i] \in T
    BY <1>1
  <2>3. c[1..n] = d[1..n] /\ c[1..n] \in S
    BY <1>4, <1>5, <1>6, <2>1, <2>2, FoldsAgree
  <2> QED
    BY <2>3
<1> QED
  BY <1>1, <1>7 DEF Folded, d

\* The fold exists, its values are typed, and so are the tokens it goes by.
IsTyped(g, S, F, start, x) ==
  /\ g = [s \in SUBSET DOMAIN x |-> g[s]]
  /\ g[{}] = start
  /\ \A s \in SUBSET DOMAIN x : s # {} =>
       /\ g[s \ {Max(s)}] \in S
       /\ g[s] = F[<<g[s \ {Max(s)}], x[Max(s)]>>]

\* The recursion can be told step by step, with every value of its type.
LEMMA FoldTyped ==
  ASSUME NEW S, NEW T, NEW start, NEW F, IsStep(F, S, T, start), NEW x \in Seq(T)
  PROVE  /\ \A s \in SUBSET DOMAIN x : s # {} => x[Max(s)] \in T
         /\ \E g : IsTyped(g, S, F, start, x)
<1>1. start \in S /\ F \in [S \X T -> S]
  BY DEF IsStep
<1>2. PICK g \in [SUBSET DOMAIN x -> S] : IsFold(g, F, start, x)
  BY <1>1, FoldExists
<1>3. \A s \in SUBSET DOMAIN x : s \ {Max(s)} \in SUBSET DOMAIN x
  OBVIOUS
<1>4. \A s \in SUBSET DOMAIN x : s # {} => x[Max(s)] \in T
  <2> TAKE s \in SUBSET DOMAIN x
  <2>1. DOMAIN x = 1..Len(x) /\ Len(x) \in Nat
    OBVIOUS
  <2>2. s # {} => Max(s) \in DOMAIN x
    BY <2>1, LastPlace
  <2> QED
    BY <2>1, <2>2
<1>5. \A s \in SUBSET DOMAIN x : g[s \ {Max(s)}] \in S
  BY <1>2, <1>3
<1> QED
  BY <1>2, <1>4, <1>5 DEF IsFold, IsTyped

-----------------------------------------------------------------------------
(* The four folds of the redaction *)

GluedStates == [out : Seq(Tokens), piece : Seq(Tokens), mode : {"key", "show", "hide"}]
GluedStart  == [out |-> << >>, piece |-> << >>, mode |-> "key"]
Glued(word) == FoldLeft(GluedStep, GluedStart, word)

\* redact_glued_pairs keeps the type of its state.
LEMMA GluedTypes ==
  /\ GluedStart \in GluedStates
  /\ \A s \in GluedStates, t \in Tokens : GluedStep(s, t) \in GluedStates
<1>1. GluedStart \in GluedStates
  BY DEF GluedStart, GluedStates
<1>2. ASSUME NEW s \in GluedStates, NEW t \in Tokens
      PROVE  GluedStep(s, t) \in GluedStates
  <2>1. /\ <<"eq", "redacted">> \in Seq(Tokens)
        /\ s.out \in Seq(Tokens) /\ s.piece \in Seq(Tokens)
        /\ s.mode \in {"key", "show", "hide"}
    BY DEF GluedStates, Tokens
  <2>2. /\ s.out \o <<"eq", "redacted">> \in Seq(Tokens)
        /\ Append(s.out, "eq") \in Seq(Tokens)
        /\ Append(s.out, t) \in Seq(Tokens) /\ Append(s.piece, t) \in Seq(Tokens)
        /\ << >> \in Seq(Tokens)
    BY <2>1, ConcatProperties, AppendProperties DEF Tokens
  <2> HIDE DEF Tokens
  <2>3. s = [out |-> s.out, piece |-> s.piece, mode |-> s.mode]
    BY DEF GluedStates
  <2> QED
    BY <2>1, <2>2, <2>3 DEF GluedStep, GluedStates
<1> QED
  BY <1>1, <1>2

\* redact_glued_pairs goes token by token.
LEMMA GluedLaw ==
  /\ Glued(<< >>) = GluedStart
  /\ \A x \in Seq(Tokens) : Glued(x) \in GluedStates
  /\ \A x \in Seq(Tokens), t \in Tokens : Glued(Append(x, t)) = GluedStep(Glued(x), t)
<1> DEFINE F == [p \in GluedStates \X Tokens |-> GluedStep(p[1], p[2])]
<1>1. /\ IsStep(F, GluedStates, Tokens, GluedStart)
      /\ \A s \in GluedStates, t \in Tokens : F[<<s, t>>] = GluedStep(s, t)
  BY GluedTypes DEF IsStep
<1> HIDE DEF F
<1>2. ASSUME NEW x \in Seq(Tokens)
      PROVE  Glued(x) = Folded(F, GluedStart, x)
  <2> DEFINE obeys(g) == g = [s \in SUBSET DOMAIN x |->
                                IF s = {} THEN GluedStart
                                ELSE GluedStep(g[s \ {Max(s)}], x[Max(s)])]
             c == CHOOSE g : obeys(g)
  <2>1. Glued(x) = c[DOMAIN x]
    BY DEF Glued, FoldLeft, MapThenFoldSet
  <2>2. \A s \in SUBSET DOMAIN x : s # {} => x[Max(s)] \in Tokens
    BY <1>1, FoldTyped
  <2>3. \E g : obeys(g)
    <3>1. PICK g : IsTyped(g, GluedStates, F, GluedStart, x)
      BY <1>1, FoldTyped
    <3>2. \A s \in SUBSET DOMAIN x :
            g[s] = IF s = {} THEN GluedStart ELSE GluedStep(g[s \ {Max(s)}], x[Max(s)])
      BY <1>1, <2>2, <3>1 DEF IsTyped
    <3> QED
      BY <3>1, <3>2 DEF IsTyped
  <2>4. obeys(c)
    BY <2>3
  <2> HIDE DEF c
  <2>5. /\ c[{}] = GluedStart
        /\ \A s \in SUBSET DOMAIN x : s # {} => c[s] = GluedStep(c[s \ {Max(s)}], x[Max(s)])
    BY <2>4
  <2>6. Recurs(c, GluedStates, F, GluedStart, x)
    BY <1>1, <2>2, <2>5 DEF Recurs
  <2>7. c[DOMAIN x] = Folded(F, GluedStart, x)
    BY <1>1, <2>6, FoldFound
  <2> QED
    BY <2>1, <2>7
<1>3. << >> \in Seq(Tokens) /\ \A x \in Seq(Tokens), t \in Tokens : Append(x, t) \in Seq(Tokens)
  BY AppendProperties
<1>4. Folded(F, GluedStart, << >>) = GluedStart
  BY <1>1, FoldedLaw
<1>5. ASSUME NEW x \in Seq(Tokens) PROVE Glued(x) \in GluedStates
  <2>1. Folded(F, GluedStart, x) \in GluedStates
    BY <1>1, FoldedLaw
  <2> QED
    BY <1>2, <2>1
<1>6. ASSUME NEW x \in Seq(Tokens), NEW t \in Tokens
      PROVE  Glued(Append(x, t)) = GluedStep(Glued(x), t)
  <2>1. Folded(F, GluedStart, Append(x, t)) = F[<<Folded(F, GluedStart, x), t>>]
    BY <1>1, FoldedLaw
  <2>2. Glued(Append(x, t)) = Folded(F, GluedStart, Append(x, t)) /\ Glued(x) = Folded(F, GluedStart, x)
    BY <1>2, <1>3
  <2> QED
    BY <1>1, <1>5, <2>1, <2>2
<1> QED
  BY <1>2, <1>3, <1>4, <1>5, <1>6

WordStates == [out : Seq(Tokens), word : Seq(Tokens), pending : BOOLEAN]
WordStart  == [out |-> << >>, word |-> << >>, pending |-> FALSE]
Words(text) == FoldLeft(KeyValueStep, WordStart, text)

\* A word that ends leaves no other word, and only a bare key waits.
LEMMA WordEndTypes ==
  ASSUME NEW s \in WordStates
  PROVE  WordEnds(s) \in WordStates /\ WordEnds(s).word = << >>
<1>1. /\ s.out \in Seq(Tokens) /\ s.word \in Seq(Tokens) /\ s.pending \in BOOLEAN
      /\ << >> \in Seq(Tokens) /\ "redacted" \in Tokens
  BY DEF WordStates, Tokens
<1>2. RedactGluedPairs(s.word) \in Seq(Tokens)
  <2>1. Glued(s.word) \in GluedStates
    BY <1>1, GluedLaw
  <2> QED
    BY <2>1 DEF GluedStates, Glued, GluedStart, RedactGluedPairs
<1>3. /\ Append(s.out, "redacted") \in Seq(Tokens)
      /\ s.out \o s.word \in Seq(Tokens)
      /\ s.out \o RedactGluedPairs(s.word) \in Seq(Tokens)
  BY <1>1, <1>2, ConcatProperties, AppendProperties
<1>4. CASE s.word = << >>
  BY <1>4 DEF WordEnds
<1>5. CASE s.word # << >>
  BY <1>1, <1>3, <1>5 DEF WordEnds, WordStates
<1> QED
  BY <1>4, <1>5

\* So does the walk over the words.
LEMMA WordTypes ==
  /\ WordStart \in WordStates
  /\ \A s \in WordStates, t \in Tokens : KeyValueStep(s, t) \in WordStates
<1>1. WordStart \in WordStates
  BY DEF WordStart, WordStates
<1>2. ASSUME NEW s \in WordStates, NEW t \in Tokens
      PROVE  KeyValueStep(s, t) \in WordStates
  <2>1. s.word \in Seq(Tokens) /\ Append(s.word, t) \in Seq(Tokens)
    BY AppendProperties DEF WordStates
  <2>2. CASE t \notin White
    BY <2>1, <2>2 DEF KeyValueStep, WordStates
  <2>3. CASE t \in White
    <3> DEFINE e == WordEnds(s)
    <3>1. e \in WordStates
      BY WordEndTypes
    <3> HIDE DEF e
    <3>2. Append(e.out, t) \in Seq(Tokens) /\ (e.pending /\ t # "newline") \in BOOLEAN
      BY <3>1, AppendProperties DEF WordStates
    <3>3. [e EXCEPT !.out = Append(@, t), !.pending = @ /\ t # "newline"] \in WordStates
      BY <3>1, <3>2 DEF WordStates
    <3> QED
      BY <2>3, <3>3 DEF KeyValueStep, e
  <2> QED
    BY <2>2, <2>3
<1> QED
  BY <1>1, <1>2

\* redact_key_value_pairs goes token by token.
LEMMA WordLaw ==
  /\ Words(<< >>) = WordStart
  /\ \A x \in Seq(Tokens) : Words(x) \in WordStates
  /\ \A x \in Seq(Tokens), t \in Tokens : Words(Append(x, t)) = KeyValueStep(Words(x), t)
<1> DEFINE F == [p \in WordStates \X Tokens |-> KeyValueStep(p[1], p[2])]
<1>1. /\ IsStep(F, WordStates, Tokens, WordStart)
      /\ \A s \in WordStates, t \in Tokens : F[<<s, t>>] = KeyValueStep(s, t)
  BY WordTypes DEF IsStep
<1> HIDE DEF F
<1>2. ASSUME NEW x \in Seq(Tokens)
      PROVE  Words(x) = Folded(F, WordStart, x)
  <2> DEFINE obeys(g) == g = [s \in SUBSET DOMAIN x |->
                                IF s = {} THEN WordStart
                                ELSE KeyValueStep(g[s \ {Max(s)}], x[Max(s)])]
             c == CHOOSE g : obeys(g)
  <2>1. Words(x) = c[DOMAIN x]
    BY DEF Words, FoldLeft, MapThenFoldSet
  <2>2. \A s \in SUBSET DOMAIN x : s # {} => x[Max(s)] \in Tokens
    BY <1>1, FoldTyped
  <2>3. \E g : obeys(g)
    <3>1. PICK g : IsTyped(g, WordStates, F, WordStart, x)
      BY <1>1, FoldTyped
    <3>2. \A s \in SUBSET DOMAIN x :
            g[s] = IF s = {} THEN WordStart ELSE KeyValueStep(g[s \ {Max(s)}], x[Max(s)])
      BY <1>1, <2>2, <3>1 DEF IsTyped
    <3> QED
      BY <3>1, <3>2 DEF IsTyped
  <2>4. obeys(c)
    BY <2>3
  <2> HIDE DEF c
  <2>5. /\ c[{}] = WordStart
        /\ \A s \in SUBSET DOMAIN x : s # {} => c[s] = KeyValueStep(c[s \ {Max(s)}], x[Max(s)])
    BY <2>4
  <2>6. Recurs(c, WordStates, F, WordStart, x)
    BY <1>1, <2>2, <2>5 DEF Recurs
  <2>7. c[DOMAIN x] = Folded(F, WordStart, x)
    BY <1>1, <2>6, FoldFound
  <2> QED
    BY <2>1, <2>7
<1>3. << >> \in Seq(Tokens) /\ \A x \in Seq(Tokens), t \in Tokens : Append(x, t) \in Seq(Tokens)
  BY AppendProperties
<1>4. Folded(F, WordStart, << >>) = WordStart
  BY <1>1, FoldedLaw
<1>5. ASSUME NEW x \in Seq(Tokens) PROVE Words(x) \in WordStates
  <2>1. Folded(F, WordStart, x) \in WordStates
    BY <1>1, FoldedLaw
  <2> QED
    BY <1>2, <2>1
<1>6. ASSUME NEW x \in Seq(Tokens), NEW t \in Tokens
      PROVE  Words(Append(x, t)) = KeyValueStep(Words(x), t)
  <2>1. Folded(F, WordStart, Append(x, t)) = F[<<Folded(F, WordStart, x), t>>]
    BY <1>1, FoldedLaw
  <2>2. Words(Append(x, t)) = Folded(F, WordStart, Append(x, t)) /\ Words(x) = Folded(F, WordStart, x)
    BY <1>2, <1>3
  <2> QED
    BY <1>1, <1>5, <2>1, <2>2
<1> QED
  BY <1>2, <1>3, <1>4, <1>5, <1>6

BearerStates == [out : Seq(Tokens), mode : {"start", "inside", "header", "drop"}]
BearerStart  == [out |-> << >>, mode |-> "start"]
Bearers(text) == FoldLeft(BearerStep, BearerStart, text)

\* So does the walk for headers.
LEMMA BearerTypes ==
  /\ BearerStart \in BearerStates
  /\ \A s \in BearerStates, t \in Tokens : BearerStep(s, t) \in BearerStates
<1>1. BearerStart \in BearerStates
  BY DEF BearerStart, BearerStates
<1>2. ASSUME NEW s \in BearerStates, NEW t \in Tokens
      PROVE  BearerStep(s, t) \in BearerStates
  <2>1. s.out \in Seq(Tokens) /\ <<"space", "redacted">> \in Seq(Tokens)
    BY DEF BearerStates, Tokens, White
  <2>2. Append(s.out, t) \in Seq(Tokens) /\ s.out \o <<"space", "redacted">> \in Seq(Tokens)
    BY <2>1, ConcatProperties, AppendProperties
  <2> QED
    BY <2>2 DEF BearerStep, BearerStates
<1> QED
  BY <1>1, <1>2

\* redact_bearer_tokens goes token by token.
LEMMA BearerLaw ==
  /\ Bearers(<< >>) = BearerStart
  /\ \A x \in Seq(Tokens) : Bearers(x) \in BearerStates
  /\ \A x \in Seq(Tokens), t \in Tokens : Bearers(Append(x, t)) = BearerStep(Bearers(x), t)
<1> DEFINE F == [p \in BearerStates \X Tokens |-> BearerStep(p[1], p[2])]
<1>1. /\ IsStep(F, BearerStates, Tokens, BearerStart)
      /\ \A s \in BearerStates, t \in Tokens : F[<<s, t>>] = BearerStep(s, t)
  BY BearerTypes DEF IsStep
<1> HIDE DEF F
<1>2. ASSUME NEW x \in Seq(Tokens)
      PROVE  Bearers(x) = Folded(F, BearerStart, x)
  <2> DEFINE obeys(g) == g = [s \in SUBSET DOMAIN x |->
                                IF s = {} THEN BearerStart
                                ELSE BearerStep(g[s \ {Max(s)}], x[Max(s)])]
             c == CHOOSE g : obeys(g)
  <2>1. Bearers(x) = c[DOMAIN x]
    BY DEF Bearers, FoldLeft, MapThenFoldSet
  <2>2. \A s \in SUBSET DOMAIN x : s # {} => x[Max(s)] \in Tokens
    BY <1>1, FoldTyped
  <2>3. \E g : obeys(g)
    <3>1. PICK g : IsTyped(g, BearerStates, F, BearerStart, x)
      BY <1>1, FoldTyped
    <3>2. \A s \in SUBSET DOMAIN x :
            g[s] = IF s = {} THEN BearerStart ELSE BearerStep(g[s \ {Max(s)}], x[Max(s)])
      BY <1>1, <2>2, <3>1 DEF IsTyped
    <3> QED
      BY <3>1, <3>2 DEF IsTyped
  <2>4. obeys(c)
    BY <2>3
  <2> HIDE DEF c
  <2>5. /\ c[{}] = BearerStart
        /\ \A s \in SUBSET DOMAIN x : s # {} => c[s] = BearerStep(c[s \ {Max(s)}], x[Max(s)])
    BY <2>4
  <2>6. Recurs(c, BearerStates, F, BearerStart, x)
    BY <1>1, <2>2, <2>5 DEF Recurs
  <2>7. c[DOMAIN x] = Folded(F, BearerStart, x)
    BY <1>1, <2>6, FoldFound
  <2> QED
    BY <2>1, <2>7
<1>3. << >> \in Seq(Tokens) /\ \A x \in Seq(Tokens), t \in Tokens : Append(x, t) \in Seq(Tokens)
  BY AppendProperties
<1>4. Folded(F, BearerStart, << >>) = BearerStart
  BY <1>1, FoldedLaw
<1>5. ASSUME NEW x \in Seq(Tokens) PROVE Bearers(x) \in BearerStates
  <2>1. Folded(F, BearerStart, x) \in BearerStates
    BY <1>1, FoldedLaw
  <2> QED
    BY <1>2, <2>1
<1>6. ASSUME NEW x \in Seq(Tokens), NEW t \in Tokens
      PROVE  Bearers(Append(x, t)) = BearerStep(Bearers(x), t)
  <2>1. Folded(F, BearerStart, Append(x, t)) = F[<<Folded(F, BearerStart, x), t>>]
    BY <1>1, FoldedLaw
  <2>2. Bearers(Append(x, t)) = Folded(F, BearerStart, Append(x, t)) /\ Bearers(x) = Folded(F, BearerStart, x)
    BY <1>2, <1>3
  <2> QED
    BY <1>1, <1>5, <2>1, <2>2
<1> QED
  BY <1>2, <1>3, <1>4, <1>5, <1>6

JwtStates == [out : Seq(Tokens), mode : {"copy", "drop"}]
JwtStart  == [out |-> << >>, mode |-> "copy"]
Jwts(text) == FoldLeft(JwtStep, JwtStart, text)

\* So does the walk for compact tokens.
LEMMA JwtTypes ==
  /\ JwtStart \in JwtStates
  /\ \A s \in JwtStates, t \in Tokens : JwtStep(s, t) \in JwtStates
<1>1. JwtStart \in JwtStates
  BY DEF JwtStart, JwtStates
<1>2. ASSUME NEW s \in JwtStates, NEW t \in Tokens
      PROVE  JwtStep(s, t) \in JwtStates
  <2>1. s.out \in Seq(Tokens) /\ "redacted" \in Tokens
    BY DEF JwtStates, Tokens
  <2>2. Append(s.out, t) \in Seq(Tokens) /\ Append(s.out, "redacted") \in Seq(Tokens)
    BY <2>1, AppendProperties
  <2> QED
    BY <2>2 DEF JwtStep, JwtStates
<1> QED
  BY <1>1, <1>2

\* redact_jwt_like goes token by token.
LEMMA JwtLaw ==
  /\ Jwts(<< >>) = JwtStart
  /\ \A x \in Seq(Tokens) : Jwts(x) \in JwtStates
  /\ \A x \in Seq(Tokens), t \in Tokens : Jwts(Append(x, t)) = JwtStep(Jwts(x), t)
<1> DEFINE F == [p \in JwtStates \X Tokens |-> JwtStep(p[1], p[2])]
<1>1. /\ IsStep(F, JwtStates, Tokens, JwtStart)
      /\ \A s \in JwtStates, t \in Tokens : F[<<s, t>>] = JwtStep(s, t)
  BY JwtTypes DEF IsStep
<1> HIDE DEF F
<1>2. ASSUME NEW x \in Seq(Tokens)
      PROVE  Jwts(x) = Folded(F, JwtStart, x)
  <2> DEFINE obeys(g) == g = [s \in SUBSET DOMAIN x |->
                                IF s = {} THEN JwtStart
                                ELSE JwtStep(g[s \ {Max(s)}], x[Max(s)])]
             c == CHOOSE g : obeys(g)
  <2>1. Jwts(x) = c[DOMAIN x]
    BY DEF Jwts, FoldLeft, MapThenFoldSet
  <2>2. \A s \in SUBSET DOMAIN x : s # {} => x[Max(s)] \in Tokens
    BY <1>1, FoldTyped
  <2>3. \E g : obeys(g)
    <3>1. PICK g : IsTyped(g, JwtStates, F, JwtStart, x)
      BY <1>1, FoldTyped
    <3>2. \A s \in SUBSET DOMAIN x :
            g[s] = IF s = {} THEN JwtStart ELSE JwtStep(g[s \ {Max(s)}], x[Max(s)])
      BY <1>1, <2>2, <3>1 DEF IsTyped
    <3> QED
      BY <3>1, <3>2 DEF IsTyped
  <2>4. obeys(c)
    BY <2>3
  <2> HIDE DEF c
  <2>5. /\ c[{}] = JwtStart
        /\ \A s \in SUBSET DOMAIN x : s # {} => c[s] = JwtStep(c[s \ {Max(s)}], x[Max(s)])
    BY <2>4
  <2>6. Recurs(c, JwtStates, F, JwtStart, x)
    BY <1>1, <2>2, <2>5 DEF Recurs
  <2>7. c[DOMAIN x] = Folded(F, JwtStart, x)
    BY <1>1, <2>6, FoldFound
  <2> QED
    BY <2>1, <2>7
<1>3. << >> \in Seq(Tokens) /\ \A x \in Seq(Tokens), t \in Tokens : Append(x, t) \in Seq(Tokens)
  BY AppendProperties
<1>4. Folded(F, JwtStart, << >>) = JwtStart
  BY <1>1, FoldedLaw
<1>5. ASSUME NEW x \in Seq(Tokens) PROVE Jwts(x) \in JwtStates
  <2>1. Folded(F, JwtStart, x) \in JwtStates
    BY <1>1, FoldedLaw
  <2> QED
    BY <1>2, <2>1
<1>6. ASSUME NEW x \in Seq(Tokens), NEW t \in Tokens
      PROVE  Jwts(Append(x, t)) = JwtStep(Jwts(x), t)
  <2>1. Folded(F, JwtStart, Append(x, t)) = F[<<Folded(F, JwtStart, x), t>>]
    BY <1>1, FoldedLaw
  <2>2. Jwts(Append(x, t)) = Folded(F, JwtStart, Append(x, t)) /\ Jwts(x) = Folded(F, JwtStart, x)
    BY <1>2, <1>3
  <2> QED
    BY <1>1, <1>5, <2>1, <2>2
<1> QED
  BY <1>2, <1>3, <1>4, <1>5, <1>6

-----------------------------------------------------------------------------
(* Texts that the first pass leaves as they are *)

\* What a reader must know of a text, token by token, to tell.  `word` and
\* `piece` say of the current word, and of its part since the last separator,
\* if they are empty, a key, a key with a colon ("bare"), ***REDACTED***
\* ("red") or something else; in mode "hide" ***REDACTED*** must come next, in
\* mode "hid" a semicolon or the end of the word; "bad" is for ever.
PairStates ==
  [pending : BOOLEAN, word : {"none", "key", "bare", "red", "some"},
   mode : {"key", "show", "hide", "hid", "bad"}, piece : {"none", "key", "some"}]
PairStart == [pending |-> FALSE, word |-> "none", mode |-> "key", piece |-> "none"]

WordWith(w, t) ==
  CASE w = "none" /\ t = "key"      -> "key"
    [] w = "none" /\ t = "redacted" -> "red"
    [] w = "key" /\ t = "colon"     -> "bare"
    [] OTHER -> "some"

PieceWith(p, t) == IF p = "none" /\ t = "key" THEN "key" ELSE "some"

\* A word may end here, or the text.
Complete(c) ==
  /\ c.mode \notin {"hide", "bad"}
  /\ c.pending => c.word \in {"none", "red"}

ModeWith(c, t) ==
  CASE c.mode = "key" /\ t = "eq" -> IF c.piece = "key" THEN "hide" ELSE "show"
    [] c.mode \in {"show", "hid"} /\ t = "semi" -> "key"
    [] c.mode = "hide" /\ t = "redacted" -> "hid"
    [] c.mode \in {"key", "show"} /\ ~(c.mode = "key" /\ t = "eq")
                                  /\ ~(c.mode = "show" /\ t = "semi") -> c.mode
    [] OTHER -> "bad"

PairStep(c, t) ==
  IF t \in White
  THEN [pending |-> t = "space" /\ IF c.word = "none" THEN c.pending
                                   ELSE ~c.pending /\ c.word = "bare",
        word |-> "none", mode |-> IF Complete(c) THEN "key" ELSE "bad", piece |-> "none"]
  ELSE [pending |-> c.pending, word |-> WordWith(c.word, t), mode |-> ModeWith(c, t),
        piece |-> IF c.mode # "key" \/ t \in {"eq", "semi", "comma"} THEN "none"
                  ELSE PieceWith(c.piece, t)]

PairsOf(text) == Folded([p \in PairStates \X Tokens |-> PairStep(p[1], p[2])], PairStart, text)

\* The reader of pairs keeps the type of its state.
LEMMA PairTypes ==
  /\ PairStart \in PairStates
  /\ \A c \in PairStates, t \in Tokens : PairStep(c, t) \in PairStates
<1>1. PairStart \in PairStates
  BY DEF PairStart, PairStates
<1>2. ASSUME NEW c \in PairStates, NEW t \in Tokens
      PROVE  PairStep(c, t) \in PairStates
  <2>1. /\ c.pending \in BOOLEAN
        /\ c.mode \in {"key", "show", "hide", "hid", "bad"}
    BY DEF PairStates
  <2>2. /\ WordWith(c.word, t) \in {"none", "key", "bare", "red", "some"}
        /\ PieceWith(c.piece, t) \in {"none", "key", "some"}
    BY DEF WordWith, PieceWith
  <2>3. ModeWith(c, t) \in {"key", "show", "hide", "hid", "bad"}
    BY <2>1 DEF ModeWith
  <2>4. CASE t \in White
    <3> DEFINE p == t = "space" /\ IF c.word = "none" THEN c.pending
                                   ELSE ~c.pending /\ c.word = "bare"
               m == IF Complete(c) THEN "key" ELSE "bad"
    <3>1. p \in BOOLEAN
      OBVIOUS
    <3>2. m \in {"key", "show", "hide", "hid", "bad"}
      OBVIOUS
    <3> HIDE DEF p, m
    <3>3. [pending |-> p, word |-> "none", mode |-> m, piece |-> "none"] \in PairStates
      BY <3>1, <3>2 DEF PairStates
    <3> QED
      BY <2>4, <3>3 DEF PairStep, p, m
  <2>5. CASE t \notin White
    <3> DEFINE q == IF c.mode # "key" \/ t \in {"eq", "semi", "comma"} THEN "none"
                    ELSE PieceWith(c.piece, t)
    <3>1. q \in {"none", "key", "some"}
      BY <2>2
    <3> HIDE DEF q
    <3>2. [pending |-> c.pending, word |-> WordWith(c.word, t), mode |-> ModeWith(c, t),
           piece |-> q] \in PairStates
      BY <2>1, <2>2, <2>3, <3>1 DEF PairStates
    <3> QED
      BY <2>5, <3>2 DEF PairStep, q
  <2> QED
    BY <2>4, <2>5
<1> QED
  BY <1>1, <1>2

\* The reader of pairs goes token by token.
LEMMA PairLaw ==
  /\ PairsOf(<< >>) = PairStart
  /\ \A x \in Seq(Tokens) : PairsOf(x) \in PairStates
  /\ \A x \in Seq(Tokens), t \in Tokens : PairsOf(Append(x, t)) = PairStep(PairsOf(x), t)
<1> DEFINE F == [p \in PairStates \X Tokens |-> PairStep(p[1], p[2])]
<1>1. /\ IsStep(F, PairStates, Tokens, PairStart)
      /\ \A c \in PairStates, t \in Tokens : F[<<c, t>>] = PairStep(c, t)
  BY PairTypes DEF IsStep
<1>2. \A x : PairsOf(x) = Folded(F, PairStart, x)
  BY DEF PairsOf
<1> HIDE DEF F
<1>3. Folded(F, PairStart, << >>) = PairStart
  BY <1>1, FoldedLaw
<1>4. ASSUME NEW x \in Seq(Tokens) PROVE Folded(F, PairStart, x) \in PairStates
  BY <1>1, FoldedLaw
<1>5. ASSUME NEW x \in Seq(Tokens), NEW t \in Tokens
      PROVE  Folded(F, PairStart, Append(x, t)) = PairStep(Folded(F, PairStart, x), t)
  <2>1. Folded(F, PairStart, Append(x, t)) = F[<<Folded(F, PairStart, x), t>>]
    BY <1>1, FoldedLaw
  <2> QED
    BY <1>1, <1>4, <2>1
<1> QED
  BY <1>2, <1>3, <1>4, <1>5

-----------------------------------------------------------------------------
(* Texts that the second pass leaves as they are *)

\* "yes": a word may start here; "bearer": the header's word has just started
\* here; in "header" ***REDACTED*** must come next, in "hidden" white space.
HeaderStates == {"yes", "no", "bearer", "header", "hidden", "bad"}

HeaderStep(d, t) ==
  CASE d = "yes" /\ t = "bearer" -> "bearer"
    [] d = "bearer" /\ t = "space" -> "header"
    [] d = "header" -> IF t = "redacted" THEN "hidden" ELSE "bad"
    [] d = "hidden" -> IF t \in White THEN "yes" ELSE "bad"
    [] d = "bad" -> "bad"
    [] d \in {"yes", "no", "bearer"} /\ ~(d = "yes" /\ t = "bearer")
                                     /\ ~(d = "bearer" /\ t = "space") ->
         IF t \in Alphanumeric THEN "no" ELSE "yes"

HeadersOf(text) == Folded([p \in HeaderStates \X Tokens |-> HeaderStep(p[1], p[2])], "yes", text)

\* The reader of headers goes token by token.
LEMMA HeaderLaw ==
  /\ HeadersOf(<< >>) = "yes"
  /\ \A x \in Seq(Tokens) : HeadersOf(x) \in HeaderStates
  /\ \A x \in Seq(Tokens), t \in Tokens : HeadersOf(Append(x, t)) = HeaderStep(HeadersOf(x), t)
<1> DEFINE F == [p \in HeaderStates \X Tokens |-> HeaderStep(p[1], p[2])]
<1>1. \A d \in HeaderStates, t \in Tokens : HeaderStep(d, t) \in HeaderStates
  BY DEF HeaderStep, HeaderStates
<1>2. "yes" \in HeaderStates
  BY DEF HeaderStates
<1>3. /\ IsStep(F, HeaderStates, Tokens, "yes")
      /\ \A d \in HeaderStates, t \in Tokens : F[<<d, t>>] = HeaderStep(d, t)
  BY <1>1, <1>2 DEF IsStep
<1>4. \A x : HeadersOf(x) = Folded(F, "yes", x)
  BY DEF HeadersOf
<1> HIDE DEF F
<1>5. Folded(F, "yes", << >>) = "yes"
  BY <1>3, FoldedLaw
<1>6. ASSUME NEW x \in Seq(Tokens) PROVE Folded(F, "yes", x) \in HeaderStates
  BY <1>3, FoldedLaw
<1>7. ASSUME NEW x \in Seq(Tokens), NEW t \in Tokens
      PROVE  Folded(F, "yes", Append(x, t)) = HeaderStep(Folded(F, "yes", x), t)
  <2>1. Folded(F, "yes", Append(x, t)) = F[<<Folded(F, "yes", x), t>>]
    BY <1>3, FoldedLaw
  <2> QED
    BY <1>3, <1>6, <2>1
<1> QED
  BY <1>4, <1>5, <1>6, <1>7

-----------------------------------------------------------------------------
(* Words *)

WordIs(a, w) ==
  /\ a \in {"none", "key", "bare", "red", "some"}
  /\ a = "none" <=> w = << >>
  /\ a = "key"  <=> w = <<"key">>
  /\ a = "bare" <=> w = <<"key", "colon">>
  /\ a = "red"  <=> w = <<"redacted">>

PieceIs(p, w) ==
  /\ p \in {"none", "key", "some"}
  /\ p = "none" <=> w = << >>
  /\ p = "key"  <=> w = <<"key">>

\* Two words that are longer by a token each are one word if both parts are.
LEMMA AppendsAgree ==
  ASSUME NEW w \in Seq(Tokens), NEW v \in Seq(Tokens), NEW t \in Tokens, NEW u \in Tokens
  PROVE  Append(w, t) = Append(v, u) <=> w = v /\ t = u
<1> SUFFICES ASSUME Append(w, t) = Append(v, u) PROVE w = v /\ t = u
  OBVIOUS
<1>1. /\ Len(Append(w, t)) = Len(w) + 1 /\ Len(w) \in Nat /\ Append(w, t)[Len(w) + 1] = t
      /\ \A i \in 1..Len(w) : Append(w, t)[i] = w[i]
  BY AppendProperties
<1>2. /\ Len(Append(v, u)) = Len(v) + 1 /\ Len(v) \in Nat /\ Append(v, u)[Len(v) + 1] = u
      /\ \A i \in 1..Len(v) : Append(v, u)[i] = v[i]
  BY AppendProperties
<1>3. Len(w) = Len(v)
  BY <1>1, <1>2
<1>4. t = u /\ \A i \in 1..Len(w) : w[i] = v[i]
  BY <1>1, <1>2, <1>3
<1>5. w = [i \in 1..Len(w) |-> w[i]] /\ v = [i \in 1..Len(v) |-> v[i]]
  OBVIOUS
<1> QED
  BY <1>3, <1>4, <1>5

\* When a longer word is one of one token or of two.
LEMMA ShortWords ==
  ASSUME NEW w \in Seq(Tokens), NEW t \in Tokens
  PROVE  /\ Append(w, t) # << >>
         /\ \A u \in Tokens : Append(w, t) = <<u>> <=> w = << >> /\ t = u
         /\ \A u, v \in Tokens : Append(w, t) = <<u, v>> <=> w = <<u>> /\ t = v
<1>1. Append(w, t) # << >>
  BY AppendProperties
<1>2. ASSUME NEW u \in Tokens PROVE Append(w, t) = <<u>> <=> w = << >> /\ t = u
  <2> DEFINE v == << >>
  <2>1. v \in Seq(Tokens)
    OBVIOUS
  <2> HIDE DEF v
  <2>2. Append(w, t) = Append(v, u) <=> w = v /\ t = u
    BY <2>1, AppendsAgree
  <2> USE DEF v
  <2>3. <<u>> = Append(<< >>, u)
    OBVIOUS
  <2> QED
    BY <2>2, <2>3
<1>3. ASSUME NEW u \in Tokens, NEW v \in Tokens
      PROVE  Append(w, t) = <<u, v>> <=> w = <<u>> /\ t = v
  <2> DEFINE x == <<u>>
  <2>1. x \in Seq(Tokens)
    OBVIOUS
  <2> HIDE DEF x
  <2>2. Append(w, t) = Append(x, v) <=> w = x /\ t = v
    BY <2>1, AppendsAgree
  <2> USE DEF x
  <2>3. <<u, v>> = Append(<<u>>, v)
    OBVIOUS
  <2> QED
    BY <2>2, <2>3
<1> QED
  BY <1>1, <1>2, <1>3

\* The tokens that have a meaning in more than one pass.
LEMMA SomeTokens == {"key", "colon", "redacted", "eq", "semi", "comma", "space"} \subseteq Tokens
BY DEF Tokens, White, Alphanumeric

\* What is known of a word follows it as it grows.
LEMMA WordGrows ==
  ASSUME NEW w \in Seq(Tokens), NEW t \in Tokens, NEW a, WordIs(a, w)
  PROVE  WordIs(WordWith(a, t), Append(w, t))
<1>1. /\ Append(w, t) # << >>
      /\ Append(w, t) = <<"key">> <=> w = << >> /\ t = "key"
      /\ Append(w, t) = <<"redacted">> <=> w = << >> /\ t = "redacted"
      /\ Append(w, t) = <<"key", "colon">> <=> w = <<"key">> /\ t = "colon"
  BY ShortWords, SomeTokens
<1> QED
  BY <1>1 DEF WordIs, WordWith

\* And what is known of a piece.
LEMMA PieceGrows ==
  ASSUME NEW w \in Seq(Tokens), NEW t \in Tokens, NEW p, PieceIs(p, w)
  PROVE  PieceIs(PieceWith(p, t), Append(w, t))
<1>1. /\ Append(w, t) # << >>
      /\ Append(w, t) = <<"key">> <=> w = << >> /\ t = "key"
  BY ShortWords, SomeTokens
<1> QED
  BY <1>1 DEF PieceIs, PieceWith

\* What was written, followed by a longer text, is longer by the same token.
LEMMA ConcatAppend ==
  ASSUME NEW o \in Seq(Tokens), NEW x \in Seq(Tokens), NEW t \in Tokens
  PROVE  o \o Append(x, t) = Append(o \o x, t) /\ o \o x \in Seq(Tokens)
<1>1. o \o x \in Seq(Tokens) /\ <<t>> \in Seq(Tokens)
  BY ConcatProperties
<1>2. o \o (x \o <<t>>) = (o \o x) \o <<t>>
  BY <1>1, ConcatAssociative
<1>3. Append(x, t) = x \o <<t>> /\ Append(o \o x, t) = (o \o x) \o <<t>>
  BY <1>1, AppendIsConcat
<1> QED
  BY <1>1, <1>2, <1>3

-----------------------------------------------------------------------------
(* The first pass makes a text that it leaves as it is *)

\* The reader of what has been written of a word, and the writer at it.
Agrees(c, word, g) ==
  /\ ~c.pending /\ WordIs(c.word, word)
  /\ \/ g.mode = "key" /\ c.mode = "key" /\ PieceIs(c.piece, g.piece)
     \/ g.mode = "show" /\ c.mode = "show"
     \/ g.mode = "hide" /\ c.mode = "hid" /\ c.word = "some"

\* Inside a word the reader keeps agreeing with the writer.
LEMMA GluedAgrees ==
  ASSUME NEW o \in Seq(Tokens), NEW word \in Seq(Tokens), NEW g \in GluedStates,
         NEW t \in Tokens \ White,
         Agrees(PairsOf(o \o g.out), word, g)
  PROVE  Agrees(PairsOf(o \o GluedStep(g, t).out), Append(word, t), GluedStep(g, t))
<1> DEFINE v == o \o g.out
           c == PairsOf(v)
           h == GluedStep(g, t)
<1>1. /\ g.out \in Seq(Tokens) /\ g.piece \in Seq(Tokens) /\ g.mode \in {"key", "show", "hide"}
      /\ v \in Seq(Tokens)
  BY ConcatProperties DEF GluedStates
<1>2. \A u \in Tokens : PairsOf(Append(v, u)) = PairStep(c, u)
  BY <1>1, PairLaw
<1>3. o \o Append(g.out, t) = Append(v, t)
  BY <1>1, ConcatAppend
<1>4. /\ ~c.pending /\ WordIs(c.word, word)
      /\ \/ g.mode = "key" /\ c.mode = "key" /\ PieceIs(c.piece, g.piece)
         \/ g.mode = "show" /\ c.mode = "show"
         \/ g.mode = "hide" /\ c.mode = "hid" /\ c.word = "some"
  BY DEF Agrees
<1>5. WordIs(WordWith(c.word, t), Append(word, t))
  BY <1>4, WordGrows
<1>6. /\ ~PairStep(c, t).pending /\ PairStep(c, t).word = WordWith(c.word, t)
      /\ PairStep(c, t).mode = ModeWith(c, t)
      /\ PairStep(c, t).piece = IF c.mode # "key" \/ t \in {"eq", "semi", "comma"} THEN "none"
                                ELSE PieceWith(c.piece, t)
  BY <1>4 DEF PairStep
<1> HIDE DEF c, v, h
<1>7. CASE g.mode = "key" /\ t = "eq" /\ g.piece = <<"key">>
  <2>1. h.out = g.out \o <<"eq", "redacted">> /\ h.mode = "hide"
    BY <1>7 DEF GluedStep, h
  <2>2. o \o h.out = Append(Append(v, "eq"), "redacted")
    <3> DEFINE y == Append(g.out, "eq")
    <3>1. "eq" \in Tokens /\ "redacted" \in Tokens
      BY SomeTokens
    <3>2. y \in Seq(Tokens)
      BY <1>1, <3>1, AppendProperties
    <3>3. g.out \o <<"eq", "redacted">> = Append(y, "redacted")
      BY <1>1, <3>1
    <3>4. o \o y = Append(v, "eq")
      BY <1>3, <1>7
    <3> HIDE DEF y
    <3>5. o \o Append(y, "redacted") = Append(o \o y, "redacted")
      BY <3>1, <3>2, ConcatAppend
    <3> QED
      BY <2>1, <3>3, <3>4, <3>5
  <2>3. Append(v, "eq") \in Seq(Tokens) /\ "eq" \in Tokens /\ "redacted" \in Tokens
    BY <1>1, SomeTokens, AppendProperties
  <2>4. PairsOf(o \o h.out) = PairStep(PairStep(c, "eq"), "redacted")
    BY <1>2, <2>2, <2>3, PairLaw
  <2> DEFINE e == PairStep(c, "eq")
  <2>5. ~e.pending /\ e.word = "some" /\ e.mode = "hide"
    <3>1. c.piece = "key"
      BY <1>4, <1>7 DEF PieceIs
    <3> QED
      BY <1>4, <1>6, <1>7, <3>1 DEF WordWith, ModeWith
  <2> HIDE DEF e
  <2>6. /\ ~PairStep(e, "redacted").pending /\ PairStep(e, "redacted").word = "some"
        /\ PairStep(e, "redacted").mode = "hid"
    BY <2>5 DEF PairStep, White, WordWith, ModeWith
  <2>7. WordIs("some", Append(word, t))
    BY <1>5, <1>7 DEF WordWith
  <2> QED
    BY <2>1, <2>4, <2>6, <2>7 DEF Agrees, e, h
<1>8. CASE g.mode = "key" /\ t = "eq" /\ g.piece # <<"key">>
  <2>1. h.out = Append(g.out, t) /\ h.mode = "show"
    BY <1>8 DEF GluedStep, h
  <2>2. c.piece # "key"
    BY <1>4, <1>8 DEF PieceIs
  <2>3. ModeWith(c, t) = "show"
    BY <1>4, <1>8, <2>2 DEF ModeWith
  <2> QED
    BY <1>2, <1>3, <1>5, <1>6, <2>1, <2>3 DEF Agrees, h
<1>9. CASE g.mode # "key" /\ t = "semi"
  <2>1. h.out = Append(g.out, t) /\ h.mode = "key" /\ h.piece = << >>
    BY <1>9 DEF GluedStep, h
  <2>2. ModeWith(c, t) = "key" /\ c.mode # "key"
    BY <1>4, <1>9 DEF ModeWith
  <2>3. PieceIs("none", << >>)
    BY DEF PieceIs
  <2> QED
    BY <1>2, <1>3, <1>5, <1>6, <2>1, <2>2, <2>3 DEF Agrees, h
<1>10. CASE g.mode = "key" /\ t \in {"semi", "comma"}
  <2>1. h.out = Append(g.out, t) /\ h.mode = "key" /\ h.piece = << >>
    BY <1>10 DEF GluedStep, h, GluedStates
  <2>2. ModeWith(c, t) = "key"
    BY <1>4, <1>10 DEF ModeWith
  <2>3. PieceIs("none", << >>)
    BY DEF PieceIs
  <2> QED
    BY <1>2, <1>3, <1>5, <1>6, <1>10, <2>1, <2>2, <2>3 DEF Agrees, h
<1>11. CASE g.mode = "key" /\ t \notin {"eq", "semi", "comma"}
  <2>1. h.out = Append(g.out, t) /\ h.mode = "key" /\ h.piece = Append(g.piece, t)
    BY <1>11 DEF GluedStep, h, GluedStates
  <2>2. ModeWith(c, t) = "key"
    BY <1>4, <1>11 DEF ModeWith
  <2>3. PieceIs(PieceWith(c.piece, t), Append(g.piece, t))
    BY <1>1, <1>4, <1>11, PieceGrows
  <2> QED
    BY <1>2, <1>3, <1>4, <1>5, <1>6, <1>11, <2>1, <2>2, <2>3 DEF Agrees, h
<1>12. CASE g.mode = "show" /\ t # "semi"
  <2>1. h.out = Append(g.out, t) /\ h.mode = "show"
    BY <1>12 DEF GluedStep, h, GluedStates
  <2>2. ModeWith(c, t) = "show"
    BY <1>4, <1>12 DEF ModeWith
  <2> QED
    BY <1>2, <1>3, <1>5, <1>6, <2>1, <2>2 DEF Agrees, h
<1>13. CASE g.mode = "hide" /\ t # "semi"
  <2>1. h = g
    BY <1>13 DEF GluedStep, h
  <2>2. WordWith(c.word, t) = "some" /\ c.word = "some"
    BY <1>4, <1>13 DEF WordWith
  <2> QED
    BY <1>4, <1>5, <1>13, <2>1, <2>2 DEF Agrees, c, v, h
<1> QED
  BY <1>1, <1>7, <1>8, <1>9, <1>10, <1>11, <1>12, <1>13

\* A bare key is found to hold no pair.
LEMMA BareKey == Glued(<<"key", "colon">>).out = <<"key", "colon">>
<1> DEFINE k == <<"key">>
           b == <<"key", "colon">>
<1>1. << >> \in Seq(Tokens) /\ k \in Seq(Tokens) /\ "key" \in Tokens /\ "colon" \in Tokens
  BY SomeTokens
<1>2. k = Append(<< >>, "key") /\ b = Append(k, "colon")
  OBVIOUS
<1> HIDE DEF k, b
<1>3. Glued(k) = GluedStep(GluedStart, "key") /\ Glued(b) = GluedStep(Glued(k), "colon")
  BY <1>1, <1>2, GluedLaw
<1>4. Glued(k) = [out |-> k, piece |-> k, mode |-> "key"]
  <2> DEFINE g == GluedStart
  <2>1. g.out = << >> /\ g.piece = << >> /\ g.mode = "key"
    BY DEF GluedStart
  <2>2. g = [out |-> << >>, piece |-> << >>, mode |-> "key"]
    BY DEF GluedStart
  <2> HIDE DEF g
  <2>3. GluedStep(g, "key") = [g EXCEPT !.out = Append(@, "key"), !.piece = Append(@, "key")]
    BY <2>1 DEF GluedStep
  <2> QED
    BY <1>2, <1>3, <2>1, <2>2, <2>3 DEF g
<1>5. Glued(b).out = Append(k, "colon")
  <2> DEFINE g == Glued(k)
  <2>1. g.out = k /\ g.mode = "key" /\ g = [out |-> g.out, piece |-> g.piece, mode |-> g.mode]
    BY <1>4
  <2> HIDE DEF g
  <2>2. GluedStep(g, "colon") = [g EXCEPT !.out = Append(@, "colon"), !.piece = Append(@, "colon")]
    BY <2>1 DEF GluedStep
  <2> QED
    BY <1>3, <2>1, <2>2 DEF g
<1> QED
  BY <1>2, <1>5 DEF b

\* At the end of a word, outside a pair that waits, what has been found of it
\* is written.
LEMMA WordIsWritten ==
  ASSUME NEW s \in WordStates, ~s.pending
  PROVE  /\ WordEnds(s).out = s.out \o Glued(s.word).out
         /\ WordEnds(s).pending <=> s.word = <<"key", "colon">>
<1>1. s.out \in Seq(Tokens) /\ s.word \in Seq(Tokens)
  BY DEF WordStates
<1>2. RedactGluedPairs(s.word) = Glued(s.word).out
  BY DEF RedactGluedPairs, Glued, GluedStart
<1>0. << >> # <<"key", "colon">>
  OBVIOUS
<1>3. CASE s.word = << >>
  <2>1. WordEnds(s) = s
    BY <1>0, <1>3 DEF WordEnds
  <2>2. Glued(s.word).out = << >>
    BY <1>3, GluedLaw DEF GluedStart
  <2>3. s.out \o << >> = s.out
    BY <1>1, ConcatEmptySeq
  <2> QED
    BY <1>0, <1>3, <2>1, <2>2, <2>3
<1>4. CASE s.word = <<"key", "colon">>
  <2>1. WordEnds(s) = [out |-> s.out \o s.word, word |-> << >>, pending |-> TRUE]
    BY <1>0, <1>4 DEF WordEnds
  <2>2. WordEnds(s).out = s.out \o s.word /\ WordEnds(s).pending
    <3> DEFINE o == s.out \o s.word
    <3>1. WordEnds(s) = [out |-> o, word |-> << >>, pending |-> TRUE]
      BY <2>1
    <3> HIDE DEF o
    <3>2. WordEnds(s).out = o /\ WordEnds(s).pending = TRUE
      BY <3>1
    <3> QED
      BY <3>2 DEF o
  <2>3. Glued(s.word).out = s.word
    BY <1>4, BareKey
  <2>4. WordEnds(s).out = s.out \o Glued(s.word).out
    BY <2>2, <2>3
  <2>5. WordEnds(s).pending <=> s.word = <<"key", "colon">>
    BY <1>4, <2>2, Zenon
  <2> QED
    BY <2>4, <2>5, Zenon
<1>5. CASE s.word # << >> /\ s.word # <<"key", "colon">>
  <2>1. WordEnds(s) = [out |-> s.out \o RedactGluedPairs(s.word), word |-> << >>, pending |-> FALSE]
    BY <1>0, <1>5 DEF WordEnds
  <2>2. WordEnds(s).out = s.out \o RedactGluedPairs(s.word) /\ ~WordEnds(s).pending
    <3> DEFINE o == s.out \o RedactGluedPairs(s.word)
    <3>1. WordEnds(s) = [out |-> o, word |-> << >>, pending |-> FALSE]
      BY <2>1
    <3> HIDE DEF o
    <3>2. WordEnds(s).out = o /\ WordEnds(s).pending = FALSE
      BY <3>1
    <3> QED
      BY <3>2 DEF o
  <2>3. WordEnds(s).out = s.out \o Glued(s.word).out
    BY <1>2, <2>2
  <2>4. WordEnds(s).pending <=> s.word = <<"key", "colon">>
    BY <1>5, <2>2, Zenon
  <2> QED
    BY <2>3, <2>4, Zenon
<1> QED
  BY <1>3, <1>4, <1>5

Waiting == [pending |-> TRUE, word |-> "none", mode |-> "key", piece |-> "none"]

\* What the first pass has written, the current word included.
Readable(s) ==
  IF s.pending THEN PairsOf(s.out) = Waiting
  ELSE Agrees(PairsOf(s.out \o Glued(s.word).out), s.word, Glued(s.word))

\* At the end of a word the reader is at the end of a word, too.
LEMMA WordEndsReadable ==
  ASSUME NEW s \in WordStates, Readable(s)
  PROVE  LET c == PairsOf(WordEnds(s).out)
         IN  /\ Complete(c)
             /\ WordEnds(s).pending <=> IF c.word = "none" THEN c.pending
                                                     ELSE ~c.pending /\ c.word = "bare"
<1> DEFINE e == WordEnds(s)
           c == PairsOf(e.out)
<1>1. s.out \in Seq(Tokens) /\ s.word \in Seq(Tokens) /\ s.pending \in BOOLEAN
  BY DEF WordStates
<1>2. CASE ~s.pending
  <2>1. e.out = s.out \o Glued(s.word).out /\ (e.pending <=> s.word = <<"key", "colon">>)
    BY <1>2, WordIsWritten
  <2>2. Agrees(c, s.word, Glued(s.word))
    BY <1>2, <2>1 DEF Readable
  <2> HIDE DEF c, e
  <2>3. /\ ~c.pending /\ c.mode \notin {"hide", "bad"}
        /\ (s.word = <<"key", "colon">> <=> c.word = "bare") /\ c.word \in {"none", "key", "bare", "red", "some"}
    BY <2>2 DEF Agrees, WordIs
  <2>4. e.pending <=> IF c.word = "none" THEN c.pending ELSE ~c.pending /\ c.word = "bare"
    BY <2>1, <2>3
  <2> QED
    BY <2>3, <2>4 DEF Complete, c, e
<1>3. CASE s.pending /\ s.word = << >>
  <2>1. e = s
    BY <1>3 DEF WordEnds
  <2>2. c = Waiting
    BY <1>3, <2>1 DEF Readable
  <2>3. c.word = "none" /\ c.pending /\ c.mode = "key"
    BY <2>2 DEF Waiting, PairStart
  <2> QED
    BY <1>3, <2>1, <2>3 DEF Complete
<1>4. CASE s.pending /\ s.word # << >>
  <2>1. e = [out |-> Append(s.out, "redacted"), word |-> << >>, pending |-> FALSE]
    BY <1>4 DEF WordEnds
  <2>2. c = PairStep(Waiting, "redacted")
    BY <1>1, <1>4, <2>1, SomeTokens, PairLaw DEF Readable
  <2>3. c.word = "red" /\ c.pending /\ c.mode = "key"
    BY <2>2 DEF PairStep, Waiting, PairStart, White, WordWith, ModeWith
  <2> QED
    BY <2>1, <2>3 DEF Complete
<1> QED
  BY <1>1, <1>2, <1>3, <1>4

\* At every token of every text the reader agrees with what is written.
LEMMA WordsReadable == \A x \in Seq(Tokens) : Readable(Words(x))
<1> DEFINE good == {x \in Seq(Tokens) : Readable(Words(x))}
<1>1. << >> \in good
  <2>1. Words(<< >>) = WordStart /\ Glued(<< >>) = GluedStart /\ PairsOf(<< >>) = PairStart
    BY WordLaw, GluedLaw, PairLaw
  <2>2. << >> \o << >> = << >> /\ << >> \in Seq(Tokens)
    OBVIOUS
  <2>3. Agrees(PairStart, << >>, GluedStart)
    BY DEF Agrees, PairStart, GluedStart, WordIs, PieceIs
  <2>4. /\ WordStart.out = << >> /\ WordStart.word = << >> /\ ~WordStart.pending
        /\ GluedStart.out = << >>
    BY DEF WordStart, GluedStart
  <2>5. Readable(WordStart)
    BY <2>1, <2>2, <2>3, <2>4 DEF Readable
  <2> QED
    BY <2>1, <2>2, <2>5
<1>2. ASSUME NEW x \in Seq(Tokens), NEW t \in Tokens, x \in good
      PROVE  Append(x, t) \in good
  <2> DEFINE s == Words(x)
  <2>1. s \in WordStates /\ Words(Append(x, t)) = KeyValueStep(s, t)
    BY WordLaw
  <2>2. Readable(s)
    BY <1>2
  <2> HIDE DEF s
  <2>3. s.out \in Seq(Tokens) /\ s.word \in Seq(Tokens) /\ s.pending \in BOOLEAN
    BY <2>1 DEF WordStates
  <2>4. CASE t \notin White
    <3> DEFINE w == Append(s.word, t)
    <3>1. KeyValueStep(s, t) = [s EXCEPT !.word = w]
      BY <2>4 DEF KeyValueStep
    <3>2. /\ KeyValueStep(s, t).word = w /\ KeyValueStep(s, t).out = s.out
          /\ KeyValueStep(s, t).pending = s.pending
      BY <2>1, <3>1 DEF WordStates
    <3>3. Glued(w) = GluedStep(Glued(s.word), t) /\ Glued(s.word) \in GluedStates
      BY <2>3, GluedLaw
    <3>4. s.pending => Readable(KeyValueStep(s, t))
      BY <2>2, <3>2 DEF Readable
    <3>5. ASSUME ~s.pending PROVE Readable(KeyValueStep(s, t))
      <4>1. Agrees(PairsOf(s.out \o Glued(s.word).out), s.word, Glued(s.word))
        BY <2>2, <3>5 DEF Readable
      <4>2. Agrees(PairsOf(s.out \o Glued(w).out), w, Glued(w))
        BY <2>3, <2>4, <3>3, <4>1, GluedAgrees
      <4> QED
        BY <3>2, <3>5, <4>2 DEF Readable
    <3>6. Readable(KeyValueStep(s, t))
      BY <2>3, <3>4, <3>5
    <3> QED
      BY <2>1, <3>6, AppendProperties
  <2>5. CASE t \in White
    <3> DEFINE e == WordEnds(s)
               c == PairsOf(e.out)
               n == KeyValueStep(s, t)
    <3>1. e \in WordStates /\ e.word = << >>
      BY <2>1, WordEndTypes
    <3>2. /\ Complete(c)
          /\ e.pending <=> IF c.word = "none" THEN c.pending ELSE ~c.pending /\ c.word = "bare"
      BY <2>1, <2>2, WordEndsReadable
    <3>3. n = [e EXCEPT !.out = Append(@, t), !.pending = @ /\ t # "newline"]
      BY <2>5 DEF KeyValueStep
    <3> HIDE DEF e
    <3>4. n.out = Append(e.out, t) /\ n.word = << >> /\ (n.pending <=> e.pending /\ t # "newline")
      BY <3>1, <3>3 DEF WordStates
    <3>5. e.out \in Seq(Tokens) /\ e.pending \in BOOLEAN /\ Append(e.out, t) \in Seq(Tokens)
      BY <3>1, AppendProperties DEF WordStates
    <3> HIDE DEF n
    <3>6. PairsOf(n.out) = PairStep(c, t) /\ c \in PairStates
      BY <3>4, <3>5, PairLaw
    <3> HIDE DEF c
    <3>7. ~n.pending => PairStep(c, t) = PairStart
      <4> SUFFICES ASSUME ~n.pending PROVE PairStep(c, t) = PairStart
        OBVIOUS
      <4> DEFINE p == t = "space" /\ IF c.word = "none" THEN c.pending
                                     ELSE ~c.pending /\ c.word = "bare"
      <4>1. PairStep(c, t) = [pending |-> p, word |-> "none",
                              mode |-> IF Complete(c) THEN "key" ELSE "bad", piece |-> "none"]
        BY <2>5 DEF PairStep
      <4>2. t = "space" => t # "newline"
        OBVIOUS
      <4>3. ~p
        BY <3>2, <3>4, <4>2
      <4>4. p = FALSE
        BY <4>3
      <4> HIDE DEF p
      <4> QED
        BY <3>2, <4>1, <4>4 DEF PairStart
    <3>8. n.pending => Readable(n)
      <4> SUFFICES ASSUME n.pending PROVE Readable(n)
        OBVIOUS
      <4> DEFINE p == t = "space" /\ IF c.word = "none" THEN c.pending
                                     ELSE ~c.pending /\ c.word = "bare"
      <4>1. PairStep(c, t) = [pending |-> p, word |-> "none",
                              mode |-> IF Complete(c) THEN "key" ELSE "bad", piece |-> "none"]
        BY <2>5 DEF PairStep
      <4>2. t # "newline" => t = "space"
        BY <2>5 DEF White
      <4>3. p
        BY <3>2, <3>4, <4>2
      <4>4. p = TRUE
        BY <4>3
      <4> HIDE DEF p
      <4>5. PairStep(c, t) = [pending |-> TRUE, word |-> "none", mode |-> "key", piece |-> "none"]
        BY <3>2, <4>1, <4>4
      <4>6. Waiting = [pending |-> TRUE, word |-> "none", mode |-> "key", piece |-> "none"]
        BY DEF Waiting
      <4> QED
        BY <3>6, <4>5, <4>6 DEF Readable
    <3>9. ASSUME ~n.pending PROVE Readable(n)
      <4>1. PairsOf(n.out) = PairStart
        BY <3>6, <3>7, <3>9
      <4>2. Glued(n.word) = GluedStart /\ n.out \o << >> = n.out
        BY <3>4, <3>5, GluedLaw, ConcatEmptySeq
      <4>3. Agrees(PairStart, << >>, GluedStart)
        BY DEF Agrees, PairStart, GluedStart, WordIs, PieceIs
      <4>4. GluedStart.out = << >>
        BY DEF GluedStart
      <4> QED
        BY <3>4, <3>9, <4>1, <4>2, <4>3, <4>4 DEF Readable
    <3>10. Readable(n)
      BY <3>4, <3>5, <3>8, <3>9
    <3> QED
      BY <2>1, <3>10, AppendProperties DEF n
  <2> QED
    BY <2>4, <2>5
<1> HIDE DEF good
<1>3. \A x \in Seq(Tokens) : x \in good
  BY <1>1, <1>2, TextInduction
<1> QED
  BY <1>3 DEF good

\* The first pass writes texts that the reader accepts.
LEMMA FirstPassReadable ==
  ASSUME NEW x \in Seq(Tokens)
  PROVE  /\ RedactKeyValuePairs(x) \in Seq(Tokens)
         /\ Complete(PairsOf(RedactKeyValuePairs(x)))
<1>1. Words(x) \in WordStates /\ Readable(Words(x))
  BY WordLaw, WordsReadable
<1>2. RedactKeyValuePairs(x) = WordEnds(Words(x)).out
  BY DEF RedactKeyValuePairs, Words, WordStart
<1>3. Complete(PairsOf(WordEnds(Words(x)).out))
  BY <1>1, WordEndsReadable
<1>4. WordEnds(Words(x)).out \in Seq(Tokens)
  BY <1>1, WordEndTypes DEF WordStates
<1> QED
  BY <1>2, <1>3, <1>4

-----------------------------------------------------------------------------
(* What the reader accepts the first pass leaves as it is *)

Same(mode, piece, word, g) ==
  \/ mode = "key" /\ g.mode = "key" /\ g.out = word /\ PieceIs(piece, g.piece)
  \/ mode = "show" /\ g.mode = "show" /\ g.out = word
  \/ mode = "hide" /\ g.mode = "hide" /\ g.out = Append(word, "redacted")
  \/ mode = "hid" /\ g.mode = "hide" /\ g.out = word

\* Inside a word that the reader accepts, the writer copies.
LEMMA SameGrows ==
  ASSUME NEW c \in PairStates, NEW word \in Seq(Tokens), NEW g \in GluedStates,
         NEW t \in Tokens \ White, Same(c.mode, c.piece, word, g), ModeWith(c, t) # "bad"
  PROVE  Same(PairStep(c, t).mode, PairStep(c, t).piece, Append(word, t), GluedStep(g, t))
<1> DEFINE h == GluedStep(g, t)
           w == Append(word, t)
           m == ModeWith(c, t)
           p == IF c.mode # "key" \/ t \in {"eq", "semi", "comma"} THEN "none"
                ELSE PieceWith(c.piece, t)
<1>1. PairStep(c, t).mode = m /\ PairStep(c, t).piece = p
  BY DEF PairStep
<1>2. PieceIs("none", << >>)
  BY DEF PieceIs
<1>3. g.out \in Seq(Tokens) /\ g.piece \in Seq(Tokens)
  BY DEF GluedStates
<1>4. CASE c.mode = "key" /\ g.mode = "key" /\ g.out = word /\ PieceIs(c.piece, g.piece)
  <2>1. CASE t = "eq" /\ g.piece = <<"key">>
    <3>1. h.out = g.out \o <<"eq", "redacted">> /\ h.mode = "hide"
      BY <1>4, <2>1 DEF GluedStep
    <3>2. m = "hide"
      BY <1>4, <2>1 DEF ModeWith, PieceIs
    <3>3. g.out \o <<"eq", "redacted">> = Append(w, "redacted")
      BY <1>3, <1>4, <2>1, SomeTokens
    <3> HIDE DEF h, w, m, p
    <3> QED
      BY <1>1, <3>1, <3>2, <3>3 DEF Same, h, w
  <2>2. CASE t = "eq" /\ g.piece # <<"key">>
    <3>1. h.out = w /\ h.mode = "show"
      BY <1>4, <2>2 DEF GluedStep
    <3>2. m = "show"
      BY <1>4, <2>2 DEF ModeWith, PieceIs
    <3> HIDE DEF h, w, m, p
    <3> QED
      BY <1>1, <3>1, <3>2 DEF Same, h, w
  <2>3. CASE t \in {"semi", "comma"}
    <3>1. h.out = w /\ h.mode = "key" /\ h.piece = << >>
      BY <1>4, <2>3 DEF GluedStep, GluedStates
    <3>2. m = "key" /\ p = "none"
      BY <1>4, <2>3 DEF ModeWith
    <3> HIDE DEF h, w, m, p
    <3> QED
      BY <1>1, <1>2, <3>1, <3>2 DEF Same, h, w
  <2>4. CASE t \notin {"eq", "semi", "comma"}
    <3>1. h.out = w /\ h.mode = "key" /\ h.piece = Append(g.piece, t)
      BY <1>4, <2>4 DEF GluedStep, GluedStates
    <3>2. m = "key" /\ p = PieceWith(c.piece, t)
      BY <1>4, <2>4 DEF ModeWith
    <3>3. PieceIs(PieceWith(c.piece, t), Append(g.piece, t))
      BY <1>3, <1>4, PieceGrows
    <3> HIDE DEF h, w, m, p
    <3> QED
      BY <1>1, <3>1, <3>2, <3>3 DEF Same, h, w
  <2> QED
    BY <2>1, <2>2, <2>3, <2>4
<1>5. CASE c.mode = "show" /\ g.mode = "show" /\ g.out = word
  <2>1. h.out = w /\ (t = "semi" => h.mode = "key" /\ h.piece = << >>)
                  /\ (t # "semi" => h.mode = "show")
    BY <1>5 DEF GluedStep, GluedStates
  <2>2. m = (IF t = "semi" THEN "key" ELSE "show") /\ p = "none"
    BY <1>5 DEF ModeWith
  <2> HIDE DEF h, w, m, p
  <2> QED
    BY <1>1, <1>2, <2>1, <2>2 DEF Same, h, w
<1>6. CASE c.mode = "hide" /\ g.mode = "hide" /\ g.out = Append(word, "redacted")
  <2>1. t = "redacted" /\ m = "hid"
    BY <1>6 DEF ModeWith
  <2>2. h = g
    BY <1>6, <2>1 DEF GluedStep
  <2> HIDE DEF h, m, p
  <2> QED
    BY <1>1, <1>6, <2>1, <2>2 DEF Same, h
<1>7. CASE c.mode = "hid" /\ g.mode = "hide" /\ g.out = word
  <2>1. t = "semi" /\ m = "key" /\ p = "none"
    BY <1>7 DEF ModeWith
  <2>2. h.out = w /\ h.mode = "key" /\ h.piece = << >>
    BY <1>7, <2>1 DEF GluedStep
  <2> HIDE DEF h, w, m, p
  <2> QED
    BY <1>1, <1>2, <2>1, <2>2 DEF Same, h, w
<1> QED
  BY <1>4, <1>5, <1>6, <1>7 DEF Same

\* The first pass at a text that the reader has not refused.
KeptText(x, c, s) ==
  /\ s.out \o s.word = x
  /\ s.pending <=> c.pending
  /\ WordIs(c.word, s.word)
  /\ ~c.pending => Same(c.mode, c.piece, s.word, Glued(s.word))

\* At the end of a word that the reader accepts, all of the text is written.
LEMMA KeptWordEnds ==
  ASSUME NEW x \in Seq(Tokens), NEW c \in PairStates, NEW s \in WordStates,
         KeptText(x, c, s), Complete(c)
  PROVE  /\ WordEnds(s).out = x
         /\ WordEnds(s).pending <=> IF c.word = "none" THEN c.pending
                                    ELSE ~c.pending /\ c.word = "bare"
<1> DEFINE e == WordEnds(s)
<1>1. s.out \in Seq(Tokens) /\ s.word \in Seq(Tokens) /\ s.pending \in BOOLEAN
  BY DEF WordStates
<1>2. s.out \o s.word = x /\ (s.pending <=> c.pending) /\ WordIs(c.word, s.word)
  BY DEF KeptText
<1>3. CASE ~s.pending
  <2>1. e.out = s.out \o Glued(s.word).out /\ (e.pending <=> s.word = <<"key", "colon">>)
    BY <1>3, WordIsWritten
  <2>2. ~c.pending /\ Same(c.mode, c.piece, s.word, Glued(s.word))
    BY <1>2, <1>3 DEF KeptText
  <2>3. Glued(s.word).out = s.word
    BY <2>2 DEF Same, Complete
  <2>4. s.word = <<"key", "colon">> <=> c.word = "bare"
    BY <1>2 DEF WordIs
  <2> HIDE DEF e
  <2>5. e.out = x
    BY <1>2, <2>1, <2>3
  <2>6. e.pending <=> IF c.word = "none" THEN c.pending ELSE ~c.pending /\ c.word = "bare"
    BY <2>1, <2>2, <2>4
  <2> QED
    BY <2>5, <2>6 DEF e
<1>4. CASE s.pending /\ s.word = << >>
  <2>1. e = s
    BY <1>4 DEF WordEnds
  <2>2. s.out = x
    BY <1>1, <1>2, <1>4, ConcatEmptySeq
  <2>3. c.word = "none" /\ c.pending
    BY <1>2, <1>4 DEF WordIs
  <2> QED
    BY <1>4, <2>1, <2>2, <2>3
<1>5. CASE s.pending /\ s.word # << >>
  <2>1. e = [out |-> Append(s.out, "redacted"), word |-> << >>, pending |-> FALSE]
    BY <1>5 DEF WordEnds
  <2>2. c.pending /\ c.word # "none"
    BY <1>2, <1>5 DEF WordIs
  <2>3. c.word = "red"
    BY <2>2 DEF Complete
  <2>4. s.word = <<"redacted">>
    BY <1>2, <2>3 DEF WordIs
  <2>5. Append(s.out, "redacted") = x
    BY <1>1, <1>2, <2>4, AppendIsConcat, SomeTokens
  <2>6. e.out = x /\ ~e.pending
    BY <2>1, <2>5
  <2> HIDE DEF e
  <2> QED
    BY <2>2, <2>3, <2>6 DEF e
<1> QED
  BY <1>1, <1>3, <1>4, <1>5

\* A text that the reader accepts is copied token by token.
LEMMA KeptSteps ==
  ASSUME NEW x \in Seq(Tokens), NEW t \in Tokens, NEW c \in PairStates, NEW s \in WordStates,
         c.mode # "bad" => KeptText(x, c, s), PairStep(c, t).mode # "bad"
  PROVE  KeptText(Append(x, t), PairStep(c, t), KeyValueStep(s, t))
<1> DEFINE n == KeyValueStep(s, t)
           d == PairStep(c, t)
<1>1. s.out \in Seq(Tokens) /\ s.word \in Seq(Tokens) /\ s.pending \in BOOLEAN
  BY DEF WordStates
<1>2. CASE t \notin White
  <2> DEFINE w == Append(s.word, t)
  <2>1. ModeWith(c, t) # "bad" /\ (d.pending <=> c.pending) /\ d.word = WordWith(c.word, t)
    BY <1>2 DEF PairStep
  <2>2. KeptText(x, c, s)
    BY <2>1 DEF ModeWith
  <2>3. n = [s EXCEPT !.word = w]
    BY <1>2 DEF KeyValueStep
  <2>4. n.out = s.out /\ n.word = w /\ (n.pending <=> s.pending)
    BY <2>3 DEF WordStates
  <2> HIDE DEF n
  <2>5. n.out \o n.word = Append(x, t)
    <3>1. s.out \o Append(s.word, t) = Append(s.out \o s.word, t)
      BY <1>1, ConcatAppend
    <3> QED
      BY <2>2, <2>4, <3>1 DEF KeptText
  <2>6. n.pending <=> d.pending
    BY <2>1, <2>2, <2>4 DEF KeptText
  <2>7. WordIs(d.word, w)
    BY <1>1, <2>1, <2>2, WordGrows DEF KeptText
  <2>8. ~c.pending => Same(d.mode, d.piece, w, Glued(w))
    <3>1. Glued(w) = GluedStep(Glued(s.word), t) /\ Glued(s.word) \in GluedStates
      BY <1>1, GluedLaw
    <3> QED
      BY <1>1, <1>2, <2>1, <2>2, <3>1, SameGrows DEF KeptText
  <2> HIDE DEF d, w
  <2> QED
    BY <2>1, <2>4, <2>5, <2>6, <2>7, <2>8 DEF KeptText, n, d
<1>3. CASE t \in White
  <2> DEFINE e == WordEnds(s)
             p == t = "space" /\ IF c.word = "none" THEN c.pending ELSE ~c.pending /\ c.word = "bare"
  <2>1. d = [pending |-> p, word |-> "none", mode |-> IF Complete(c) THEN "key" ELSE "bad",
             piece |-> "none"]
    BY <1>3 DEF PairStep
  <2>2. Complete(c) /\ d.word = "none" /\ d.mode = "key" /\ d.piece = "none" /\ d.pending = p
    <3> HIDE DEF p, d
    <3> QED
      BY <2>1 DEF d
  <2>3. KeptText(x, c, s)
    BY <2>2 DEF Complete
  <2>4. e.out = x /\ (e.pending <=> IF c.word = "none" THEN c.pending
                                    ELSE ~c.pending /\ c.word = "bare")
    BY <2>2, <2>3, KeptWordEnds
  <2>5. e \in WordStates /\ e.word = << >>
    BY WordEndTypes
  <2>6. n = [e EXCEPT !.out = Append(@, t), !.pending = @ /\ t # "newline"]
    BY <1>3 DEF KeyValueStep
  <2> HIDE DEF e, d
  <2>7. n.out = Append(x, t) /\ n.word = << >> /\ (n.pending <=> e.pending /\ t # "newline")
    BY <2>4, <2>5, <2>6 DEF WordStates
  <2> HIDE DEF n
  <2>8. t # "newline" <=> t = "space"
    BY <1>3 DEF White
  <2>9. n.pending <=> p
    BY <2>4, <2>7, <2>8
  <2>10. n.pending <=> d.pending
    BY <2>2, <2>9
  <2>11. n.out \o n.word = Append(x, t)
    <3>1. Append(x, t) \in Seq(Tokens)
      BY AppendProperties
    <3> QED
      BY <2>7, <3>1, ConcatEmptySeq
  <2>12. WordIs("none", << >>)
    BY DEF WordIs
  <2>13. Same("key", "none", << >>, Glued(<< >>))
    <3>1. Glued(<< >>) = GluedStart
      BY GluedLaw
    <3> QED
      BY <3>1 DEF GluedStart, Same, PieceIs
  <2> QED
    BY <2>2, <2>7, <2>10, <2>11, <2>12, <2>13 DEF KeptText, n, d
<1> QED
  BY <1>2, <1>3

\* The first pass leaves alone what the reader accepts.
LEMMA FirstPassKeeps ==
  ASSUME NEW x \in Seq(Tokens), Complete(PairsOf(x))
  PROVE  RedactKeyValuePairs(x) = x
<1> DEFINE good == {y \in Seq(Tokens) : PairsOf(y).mode # "bad" => KeptText(y, PairsOf(y), Words(y))}
<1>1. << >> \in good
  <2>1. Words(<< >>) = WordStart /\ Glued(<< >>) = GluedStart /\ PairsOf(<< >>) = PairStart
    BY WordLaw, GluedLaw, PairLaw
  <2>2. << >> \o << >> = << >> /\ << >> \in Seq(Tokens)
    OBVIOUS
  <2>3. WordIs("none", << >>)
    BY DEF WordIs
  <2>4. Same("key", "none", << >>, GluedStart)
    BY DEF GluedStart, Same, PieceIs
  <2>5. KeptText(<< >>, PairStart, WordStart)
    BY <2>1, <2>2, <2>3, <2>4 DEF KeptText, PairStart, WordStart
  <2> QED
    BY <2>1, <2>2, <2>5
<1>2. ASSUME NEW y \in Seq(Tokens), NEW t \in Tokens, y \in good
      PROVE  Append(y, t) \in good
  <2>1. PairsOf(y) \in PairStates /\ PairsOf(Append(y, t)) = PairStep(PairsOf(y), t)
    BY PairLaw
  <2>2. Words(y) \in WordStates /\ Words(Append(y, t)) = KeyValueStep(Words(y), t)
    BY WordLaw
  <2>3. PairsOf(y).mode # "bad" => KeptText(y, PairsOf(y), Words(y))
    BY <1>2
  <2>4. PairStep(PairsOf(y), t).mode # "bad"
          => KeptText(Append(y, t), PairStep(PairsOf(y), t), KeyValueStep(Words(y), t))
    BY <2>1, <2>2, <2>3, KeptSteps
  <2> QED
    BY <2>1, <2>2, <2>4, AppendProperties
<1> HIDE DEF good
<1>3. x \in good
  BY <1>1, <1>2, TextInduction
<1>4. PairsOf(x) \in PairStates /\ Words(x) \in WordStates
  BY PairLaw, WordLaw
<1>5. KeptText(x, PairsOf(x), Words(x))
  BY <1>3 DEF Complete, good
<1>6. WordEnds(Words(x)).out = x
  BY <1>4, <1>5, KeptWordEnds
<1> QED
  BY <1>6 DEF RedactKeyValuePairs, Words, WordStart

-----------------------------------------------------------------------------
(* The other passes do not undo it *)

\* The reader of a pass's result, d, and the one of what it was made from, c.
Less(c, d) ==
  /\ d.word = c.word /\ d.mode = c.mode /\ d.piece = c.piece
  /\ d.pending => c.pending

\* What the reader of less accepts, that of more does.
LEMMA LessComplete ==
  ASSUME NEW c \in PairStates, NEW d \in PairStates, Less(c, d), Complete(c)
  PROVE  Complete(d)
BY DEF Less, Complete

\* And they stay so at every token.
LEMMA LessSteps ==
  ASSUME NEW c \in PairStates, NEW d \in PairStates, NEW t \in Tokens,
         Less(c, d), PairStep(c, t).mode # "bad"
  PROVE  Less(PairStep(c, t), PairStep(d, t))
<1>1. CASE t \notin White
  <2>1. /\ PairStep(c, t).word = WordWith(c.word, t) /\ PairStep(d, t).word = WordWith(d.word, t)
        /\ PairStep(c, t).mode = ModeWith(c, t) /\ PairStep(d, t).mode = ModeWith(d, t)
        /\ PairStep(c, t).piece = PairStep(d, t).piece
        /\ PairStep(c, t).pending = c.pending /\ PairStep(d, t).pending = d.pending
    BY <1>1 DEF PairStep, Less
  <2>2. ModeWith(c, t) = ModeWith(d, t)
    BY DEF Less, ModeWith
  <2> QED
    BY <2>1, <2>2 DEF Less
<1>2. CASE t \in White
  <2> DEFINE p(b) == t = "space" /\ IF b.word = "none" THEN b.pending
                                    ELSE ~b.pending /\ b.word = "bare"
             m(b) == IF Complete(b) THEN "key" ELSE "bad"
  <2>1. \A b \in PairStates :
           PairStep(b, t) = [pending |-> p(b), word |-> "none", mode |-> m(b), piece |-> "none"]
    BY <1>2 DEF PairStep
  <2>2. \A b \in PairStates : /\ PairStep(b, t).pending = p(b) /\ PairStep(b, t).word = "none"
                              /\ PairStep(b, t).mode = m(b) /\ PairStep(b, t).piece = "none"
    <3> HIDE DEF p, m
    <3> QED
      BY <2>1
  <2>3. Complete(c)
    BY <2>2
  <2>4. Complete(d)
    BY <2>3, LessComplete
  <2>5. p(d) => p(c)
    BY <2>3 DEF Less, Complete
  <2>6. m(c) = "key" /\ m(d) = "key"
    BY <2>3, <2>4
  <2> HIDE DEF p, m
  <2> QED
    BY <2>2, <2>5, <2>6 DEF Less
<1> QED
  BY <1>1, <1>2

\* After ***REDACTED*** at the start of a word.
Hidden(d) == ~d.pending /\ d.word = "red" /\ d.mode = "key" /\ d.piece = "some"

BearerLink(c, d, mode) ==
  IF mode = "drop" THEN Hidden(d) ELSE Less(c, d) /\ (mode = "header" => c.word = "some")

\* What a bearer token is replaced by is read as a word of its own.
LEMMA HiddenFollows ==
  ASSUME NEW d \in PairStates, d.word = "some", Complete(d)
  PROVE  Hidden(PairStep(PairStep(d, "space"), "redacted"))
<1> DEFINE p == "space" = "space" /\ IF d.word = "none" THEN d.pending
                                     ELSE ~d.pending /\ d.word = "bare"
           e == PairStep(d, "space")
<1>1. "space" \in White /\ "redacted" \notin White
  BY DEF White
<1>2. e = [pending |-> p, word |-> "none", mode |-> "key", piece |-> "none"]
  BY <1>1 DEF PairStep
<1>3. p = FALSE
  OBVIOUS
<1> HIDE DEF p, e
<1>4. ~e.pending /\ e.word = "none" /\ e.mode = "key" /\ e.piece = "none"
  BY <1>2, <1>3
<1>5. /\ PairStep(e, "redacted").word = "red" /\ PairStep(e, "redacted").mode = "key"
      /\ PairStep(e, "redacted").piece = "some" /\ ~PairStep(e, "redacted").pending
  BY <1>1, <1>4 DEF PairStep, WordWith, ModeWith, PieceWith
<1> QED
  BY <1>5 DEF Hidden, e

\* At every token, the second pass writes what the reader of pairs still accepts.
LEMMA BearerLinkSteps ==
  ASSUME NEW c \in PairStates, NEW s \in BearerStates, NEW t \in Tokens,
         BearerLink(c, PairsOf(s.out), s.mode), PairStep(c, t).mode # "bad"
  PROVE  BearerLink(PairStep(c, t), PairsOf(BearerStep(s, t).out), BearerStep(s, t).mode)
<1> DEFINE d == PairsOf(s.out)
           r == BearerStep(s, t)
<1>1. /\ s.out \in Seq(Tokens) /\ s.mode \in {"start", "inside", "header", "drop"}
      /\ d \in PairStates
      /\ \A u \in Tokens : PairsOf(Append(s.out, u)) = PairStep(d, u)
  BY PairLaw DEF BearerStates
<1> HIDE DEF d
<1>2. BearerLink(c, d, s.mode)
  BY DEF d
<1>3. CASE s.mode = "header" /\ t = "space"
  <2>1. r.out = s.out \o <<"space", "redacted">> /\ r.mode = "drop"
    BY <1>3 DEF BearerStep
  <2>2. s.out \o <<"space", "redacted">> = Append(Append(s.out, "space"), "redacted")
    BY <1>1, SomeTokens
  <2>3. Append(s.out, "space") \in Seq(Tokens) /\ "space" \in Tokens /\ "redacted" \in Tokens
    BY <1>1, SomeTokens, AppendProperties
  <2>4. PairsOf(r.out) = PairStep(PairStep(d, "space"), "redacted")
    BY <1>1, <2>1, <2>2, <2>3, PairLaw
  <2>5. Complete(c)
    BY <1>3 DEF PairStep, White
  <2>6. Less(c, d) /\ c.word = "some"
    BY <1>2, <1>3 DEF BearerLink
  <2>7. Complete(d) /\ d.word = "some"
    BY <1>1, <2>5, <2>6, LessComplete DEF Less
  <2>8. Hidden(PairsOf(r.out))
    BY <1>1, <2>4, <2>7, HiddenFollows
  <2> HIDE DEF r
  <2> QED
    BY <2>1, <2>8 DEF BearerLink, r
<1>4. CASE s.mode = "drop" /\ t \notin White
  <2>1. r = s
    BY <1>4 DEF BearerStep
  <2> QED
    BY <1>2, <1>4, <2>1 DEF BearerLink, d
<1>5. CASE s.mode = "drop" /\ t \in White
  <2>1. r.out = Append(s.out, t) /\ r.mode \in {"start", "inside"}
    BY <1>5 DEF BearerStep, White
  <2>2. Hidden(d)
    BY <1>2, <1>5 DEF BearerLink
  <2> DEFINE p(b) == t = "space" /\ IF b.word = "none" THEN b.pending
                                    ELSE ~b.pending /\ b.word = "bare"
             m(b) == IF Complete(b) THEN "key" ELSE "bad"
  <2>3. \A b \in PairStates :
           PairStep(b, t) = [pending |-> p(b), word |-> "none", mode |-> m(b), piece |-> "none"]
    BY <1>5 DEF PairStep
  <2>4. \A b \in PairStates : /\ PairStep(b, t).pending = p(b) /\ PairStep(b, t).word = "none"
                              /\ PairStep(b, t).mode = m(b) /\ PairStep(b, t).piece = "none"
    <3> HIDE DEF p, m
    <3> QED
      BY <2>3
  <2>5. ~p(d) /\ m(d) = "key"
    BY <2>2 DEF Hidden, Complete
  <2>6. m(c) = "key"
    BY <2>4
  <2>7. Less(PairStep(c, t), PairStep(d, t))
    <3> HIDE DEF p, m
    <3> QED
      BY <1>1, <2>4, <2>5, <2>6 DEF Less
  <2> HIDE DEF r
  <2> QED
    BY <1>1, <2>1, <2>7 DEF BearerLink, r
<1>6. CASE s.mode # "drop" /\ ~(s.mode = "header" /\ t = "space")
  <2>1. /\ r.out = Append(s.out, t) /\ r.mode # "drop"
        /\ r.mode = "header" => t = "bearer"
    BY <1>1, <1>6 DEF BearerStep
  <2>2. Less(c, d)
    BY <1>2, <1>6 DEF BearerLink
  <2>3. Less(PairStep(c, t), PairStep(d, t))
    BY <1>1, <2>2, LessSteps
  <2>4. t = "bearer" => PairStep(c, t).word = "some"
    BY DEF PairStep, White, WordWith
  <2> HIDE DEF r
  <2> QED
    BY <1>1, <2>1, <2>3, <2>4 DEF BearerLink, r
<1> QED
  BY <1>3, <1>4, <1>5, <1>6

\* The second pass does not undo the first.
LEMMA SecondPassReadable ==
  ASSUME NEW x \in Seq(Tokens), Complete(PairsOf(x))
  PROVE  Complete(PairsOf(Bearers(x).out))
<1> DEFINE good == {y \in Seq(Tokens) : PairsOf(y).mode # "bad"
                       => BearerLink(PairsOf(y), PairsOf(Bearers(y).out), Bearers(y).mode)}
<1>1. << >> \in good
  <2>1. Bearers(<< >>) = BearerStart /\ PairsOf(<< >>) = PairStart /\ << >> \in Seq(Tokens)
    BY BearerLaw, PairLaw
  <2>2. BearerLink(PairStart, PairStart, "start")
    BY DEF BearerLink, Less
  <2> QED
    BY <2>1, <2>2 DEF BearerStart
<1>2. ASSUME NEW y \in Seq(Tokens), NEW t \in Tokens, y \in good
      PROVE  Append(y, t) \in good
  <2>1. PairsOf(y) \in PairStates /\ PairsOf(Append(y, t)) = PairStep(PairsOf(y), t)
    BY PairLaw
  <2>2. Bearers(y) \in BearerStates /\ Bearers(Append(y, t)) = BearerStep(Bearers(y), t)
    BY BearerLaw
  <2>3. PairStep(PairsOf(y), t).mode # "bad" => PairsOf(y).mode # "bad"
    BY <2>1 DEF PairStep, ModeWith, Complete
  <2>4. PairStep(PairsOf(y), t).mode # "bad"
          => BearerLink(PairStep(PairsOf(y), t), PairsOf(BearerStep(Bearers(y), t).out),
                        BearerStep(Bearers(y), t).mode)
    BY <1>2, <2>1, <2>2, <2>3, BearerLinkSteps
  <2> QED
    BY <2>1, <2>2, <2>4, AppendProperties
<1> HIDE DEF good
<1>3. x \in good
  BY <1>1, <1>2, TextInduction
<1> DEFINE c == PairsOf(x)
           d == PairsOf(Bearers(x).out)
           m == Bearers(x).mode
<1>4. BearerLink(c, d, m)
  BY <1>3 DEF good, Complete
<1>5. c \in PairStates /\ d \in PairStates
  BY BearerLaw, PairLaw DEF BearerStates
<1> HIDE DEF c, d, m
<1>6. Complete(c)
  BY DEF c
<1>7. CASE m = "drop"
  <2>1. Hidden(d)
    BY <1>4, <1>7 DEF BearerLink
  <2>2. Complete(d)
    BY <2>1 DEF Hidden, Complete
  <2> QED
    BY <2>2 DEF d
<1>8. CASE m # "drop"
  <2>1. Less(c, d)
    BY <1>4, <1>8 DEF BearerLink
  <2>2. Complete(d)
    BY <1>5, <1>6, <2>1, LessComplete
  <2> QED
    BY <2>2 DEF d
<1> QED
  BY <1>7, <1>8

JwtLink(c, d, mode) ==
  IF mode = "drop"
  THEN /\ c.word = "some" /\ d.word \in {"red", "some"}
       /\ c.mode \in {"key", "show"} /\ d.mode = c.mode
       /\ c.piece = (IF c.mode = "key" THEN "some" ELSE "none") /\ d.piece = c.piece
       /\ d.pending => c.pending
  ELSE Less(c, d)

\* At every token, so does the third.
LEMMA JwtLinkSteps ==
  ASSUME NEW c \in PairStates, NEW s \in JwtStates, NEW t \in Tokens,
         JwtLink(c, PairsOf(s.out), s.mode), PairStep(c, t).mode # "bad"
  PROVE  JwtLink(PairStep(c, t), PairsOf(JwtStep(s, t).out), JwtStep(s, t).mode)
<1> DEFINE d == PairsOf(s.out)
           r == JwtStep(s, t)
<1>1. /\ s.out \in Seq(Tokens) /\ s.mode \in {"copy", "drop"}
      /\ d \in PairStates
      /\ \A u \in Tokens : PairsOf(Append(s.out, u)) = PairStep(d, u)
  BY PairLaw DEF JwtStates
<1> HIDE DEF d
<1>2. JwtLink(c, d, s.mode)
  BY DEF d
<1>3. CASE s.mode = "copy" /\ t = "jwt"
  <2>1. r.out = Append(s.out, "redacted") /\ r.mode = "drop"
    BY <1>3 DEF JwtStep
  <2>2. "jwt" \notin White /\ "redacted" \notin White /\ "redacted" \in Tokens
    BY SomeTokens DEF White
  <2>3. Less(c, d)
    BY <1>2, <1>3 DEF JwtLink
  <2>4. c.mode \in {"key", "show"}
    BY <1>3, <2>2 DEF PairStep, ModeWith
  <2>5. /\ PairStep(c, t).word = "some" /\ PairStep(c, t).mode = c.mode
        /\ PairStep(c, t).piece = (IF c.mode = "key" THEN "some" ELSE "none")
        /\ PairStep(c, t).pending = c.pending
    BY <1>3, <2>2, <2>4 DEF PairStep, WordWith, ModeWith, PieceWith
  <2>6. /\ PairStep(d, "redacted").word \in {"red", "some"} /\ PairStep(d, "redacted").mode = c.mode
        /\ PairStep(d, "redacted").piece = (IF c.mode = "key" THEN "some" ELSE "none")
        /\ PairStep(d, "redacted").pending = d.pending
    BY <2>2, <2>3, <2>4 DEF PairStep, WordWith, ModeWith, PieceWith, Less
  <2>7. JwtLink(PairStep(c, t), PairStep(d, "redacted"), "drop")
    BY <2>3, <2>4, <2>5, <2>6 DEF JwtLink, Less
  <2> QED
    BY <1>1, <2>1, <2>2, <2>7
<1>4. CASE s.mode = "drop" /\ t \in Alphanumeric \cup {"dash"}
  <2>1. r = s
    BY <1>4 DEF JwtStep
  <2>2. t \notin White /\ t \notin {"eq", "semi", "comma", "redacted", "colon"}
    BY <1>4 DEF White, Alphanumeric
  <2>3. JwtLink(c, d, "drop")
    BY <1>2, <1>4
  <2>4. c.word = "some" /\ c.mode \in {"key", "show"}
        /\ c.piece = (IF c.mode = "key" THEN "some" ELSE "none")
    BY <2>3 DEF JwtLink
  <2>5. /\ PairStep(c, t).word = "some" /\ PairStep(c, t).mode = c.mode
        /\ PairStep(c, t).piece = c.piece
        /\ PairStep(c, t).pending = c.pending
    BY <2>2, <2>4 DEF PairStep, WordWith, ModeWith, PieceWith
  <2>6. JwtLink(PairStep(c, t), d, "drop")
    BY <2>3, <2>5 DEF JwtLink
  <2> QED
    BY <1>4, <2>1, <2>6 DEF d
<1>5. CASE s.mode = "drop" /\ t \notin Alphanumeric \cup {"dash"}
  <2>1. r.out = Append(s.out, t) /\ r.mode = "copy"
    BY <1>5 DEF JwtStep
  <2>2. JwtLink(c, d, "drop")
    BY <1>2, <1>5
  <2>3. /\ c.word = "some" /\ d.word \in {"red", "some"}
        /\ c.mode \in {"key", "show"} /\ d.mode = c.mode
        /\ c.piece = (IF c.mode = "key" THEN "some" ELSE "none") /\ d.piece = c.piece
        /\ d.pending => c.pending
    BY <2>2 DEF JwtLink
  <2>4. Less(PairStep(c, t), PairStep(d, t))
    <3>1. CASE t \notin White
      <4>1. ModeWith(d, t) = ModeWith(c, t)
        BY <2>3 DEF ModeWith
      <4>2. WordWith(d.word, t) = WordWith(c.word, t)
        BY <2>3 DEF WordWith
      <4>3. /\ PairStep(c, t).word = WordWith(c.word, t) /\ PairStep(d, t).word = WordWith(d.word, t)
            /\ PairStep(c, t).mode = ModeWith(c, t) /\ PairStep(d, t).mode = ModeWith(d, t)
            /\ PairStep(c, t).piece = PairStep(d, t).piece
            /\ PairStep(c, t).pending = c.pending /\ PairStep(d, t).pending = d.pending
        BY <2>3, <3>1 DEF PairStep
      <4> QED
        BY <2>3, <4>1, <4>2, <4>3 DEF Less
    <3>2. CASE t \in White
      <4> DEFINE p(b) == t = "space" /\ IF b.word = "none" THEN b.pending
                                        ELSE ~b.pending /\ b.word = "bare"
                 m(b) == IF Complete(b) THEN "key" ELSE "bad"
      <4>1. \A b \in PairStates :
               PairStep(b, t) = [pending |-> p(b), word |-> "none", mode |-> m(b), piece |-> "none"]
        BY <3>2 DEF PairStep
      <4>2. \A b \in PairStates : /\ PairStep(b, t).pending = p(b) /\ PairStep(b, t).word = "none"
                                  /\ PairStep(b, t).mode = m(b) /\ PairStep(b, t).piece = "none"
        <5> HIDE DEF p, m
        <5> QED
          BY <4>1
      <4>3. ~p(d)
        BY <2>3
      <4>4. Complete(c)
        BY <4>2
      <4>5. m(c) = "key" /\ m(d) = "key"
        BY <2>3, <4>4 DEF Complete
      <4> HIDE DEF p, m
      <4> QED
        BY <1>1, <4>2, <4>3, <4>5 DEF Less
    <3> QED
      BY <3>1, <3>2
  <2> HIDE DEF r
  <2> QED
    BY <1>1, <2>1, <2>4 DEF JwtLink, r
<1>6. CASE s.mode = "copy" /\ t # "jwt"
  <2>1. r.out = Append(s.out, t) /\ r.mode = "copy"
    BY <1>6 DEF JwtStep
  <2>2. Less(c, d)
    BY <1>2, <1>6 DEF JwtLink
  <2>3. Less(PairStep(c, t), PairStep(d, t))
    BY <1>1, <2>2, LessSteps
  <2> HIDE DEF r
  <2> QED
    BY <1>1, <2>1, <2>3 DEF JwtLink, r
<1> QED
  BY <1>1, <1>3, <1>4, <1>5, <1>6

\* The third pass does not undo the first.
LEMMA ThirdPassReadable ==
  ASSUME NEW x \in Seq(Tokens), Complete(PairsOf(x))
  PROVE  Complete(PairsOf(Jwts(x).out))
<1> DEFINE good == {y \in Seq(Tokens) : PairsOf(y).mode # "bad"
                       => JwtLink(PairsOf(y), PairsOf(Jwts(y).out), Jwts(y).mode)}
<1>1. << >> \in good
  <2>1. Jwts(<< >>) = JwtStart /\ PairsOf(<< >>) = PairStart /\ << >> \in Seq(Tokens)
    BY JwtLaw, PairLaw
  <2>2. JwtLink(PairStart, PairStart, "copy")
    BY DEF JwtLink, Less
  <2> QED
    BY <2>1, <2>2 DEF JwtStart
<1>2. ASSUME NEW y \in Seq(Tokens), NEW t \in Tokens, y \in good
      PROVE  Append(y, t) \in good
  <2>1. PairsOf(y) \in PairStates /\ PairsOf(Append(y, t)) = PairStep(PairsOf(y), t)
    BY PairLaw
  <2>2. Jwts(y) \in JwtStates /\ Jwts(Append(y, t)) = JwtStep(Jwts(y), t)
    BY JwtLaw
  <2>3. PairStep(PairsOf(y), t).mode # "bad" => PairsOf(y).mode # "bad"
    BY <2>1 DEF PairStep, ModeWith, Complete
  <2>4. PairStep(PairsOf(y), t).mode # "bad"
          => JwtLink(PairStep(PairsOf(y), t), PairsOf(JwtStep(Jwts(y), t).out),
                     JwtStep(Jwts(y), t).mode)
    BY <1>2, <2>1, <2>2, <2>3, JwtLinkSteps
  <2> QED
    BY <2>1, <2>2, <2>4, AppendProperties
<1> HIDE DEF good
<1>3. x \in good
  BY <1>1, <1>2, TextInduction
<1> DEFINE c == PairsOf(x)
           d == PairsOf(Jwts(x).out)
           m == Jwts(x).mode
<1>4. JwtLink(c, d, m)
  BY <1>3 DEF good, Complete
<1>5. c \in PairStates /\ d \in PairStates
  BY JwtLaw, PairLaw DEF JwtStates
<1> HIDE DEF c, d, m
<1>6. Complete(c)
  BY DEF c
<1>7. Complete(d)
  BY <1>4, <1>5, <1>6 DEF JwtLink, Less, Complete
<1> QED
  BY <1>7 DEF d

-----------------------------------------------------------------------------
(* The same of the headers *)

\* May a text end here that the second pass leaves as it is?
Quiet(d) == d \in {"yes", "no", "bearer", "hidden"}

HeaderOf(mode) ==
  CASE mode = "start" -> "yes" [] mode = "inside" -> "no"
    [] mode = "header" -> "bearer" [] mode = "drop" -> "hidden"

\* The reader of what the second pass has written.
LEMMA SecondPassHeaders ==
  ASSUME NEW x \in Seq(Tokens)
  PROVE  HeadersOf(Bearers(x).out) = HeaderOf(Bearers(x).mode)
<1> DEFINE good == {y \in Seq(Tokens) : HeadersOf(Bearers(y).out) = HeaderOf(Bearers(y).mode)}
<1>1. << >> \in good
  <2>1. Bearers(<< >>) = BearerStart /\ HeadersOf(<< >>) = "yes" /\ << >> \in Seq(Tokens)
    BY BearerLaw, HeaderLaw
  <2> QED
    BY <2>1 DEF BearerStart, HeaderOf
<1>2. ASSUME NEW y \in Seq(Tokens), NEW t \in Tokens, y \in good
      PROVE  Append(y, t) \in good
  <2> DEFINE s == Bearers(y)
             r == BearerStep(s, t)
             d == HeadersOf(s.out)
  <2>1. s \in BearerStates /\ Bearers(Append(y, t)) = r
    BY BearerLaw
  <2>2. d = HeaderOf(s.mode)
    BY <1>2
  <2> HIDE DEF s
  <2>3. /\ s.out \in Seq(Tokens) /\ s.mode \in {"start", "inside", "header", "drop"}
        /\ \A u \in Tokens : HeadersOf(Append(s.out, u)) = HeaderStep(d, u)
    BY <2>1, HeaderLaw DEF BearerStates
  <2> HIDE DEF d
  <2>4. HeadersOf(r.out) = HeaderOf(r.mode)
    <3>1. CASE s.mode = "header" /\ t = "space"
      <4>1. r.out = s.out \o <<"space", "redacted">> /\ r.mode = "drop"
        BY <3>1 DEF BearerStep
      <4>2. s.out \o <<"space", "redacted">> = Append(Append(s.out, "space"), "redacted")
        BY <2>3, SomeTokens
      <4>3. Append(s.out, "space") \in Seq(Tokens) /\ "space" \in Tokens /\ "redacted" \in Tokens
        BY <2>3, SomeTokens, AppendProperties
      <4>4. HeadersOf(r.out) = HeaderStep(HeaderStep(d, "space"), "redacted")
        BY <2>3, <4>1, <4>2, <4>3, HeaderLaw
      <4>5. d = "bearer"
        BY <2>2, <3>1 DEF HeaderOf
      <4>6. HeaderStep(d, "space") = "header"
        BY <4>5 DEF HeaderStep
      <4>7. HeaderStep("header", "redacted") = "hidden"
        BY DEF HeaderStep
      <4> QED
        BY <4>1, <4>4, <4>6, <4>7 DEF HeaderOf
    <3>2. CASE s.mode = "drop" /\ t \notin White
      <4>1. r = s
        BY <3>2 DEF BearerStep
      <4> QED
        BY <2>2, <4>1 DEF d
    <3>3. CASE s.mode = "drop" /\ t \in White
      <4>1. r.out = Append(s.out, t) /\ r.mode = "start"
        BY <3>3 DEF BearerStep, White, Alphanumeric
      <4>2. d = "hidden"
        BY <2>2, <3>3 DEF HeaderOf
      <4>3. HeaderStep(d, t) = "yes"
        BY <3>3, <4>2 DEF HeaderStep
      <4> QED
        BY <2>3, <4>1, <4>3 DEF HeaderOf
    <3>4. CASE s.mode = "start" /\ t = "bearer"
      <4>1. r.out = Append(s.out, t) /\ r.mode = "header"
        BY <3>4 DEF BearerStep
      <4>2. d = "yes"
        BY <2>2, <3>4 DEF HeaderOf
      <4>3. HeaderStep(d, t) = "bearer"
        BY <3>4, <4>2 DEF HeaderStep
      <4> QED
        BY <2>3, <4>1, <4>3 DEF HeaderOf
    <3>5. CASE /\ s.mode # "drop" /\ ~(s.mode = "header" /\ t = "space")
               /\ ~(s.mode = "start" /\ t = "bearer")
      <4>1. /\ r.out = Append(s.out, t)
            /\ r.mode = IF t \in Alphanumeric THEN "inside" ELSE "start"
        BY <3>5 DEF BearerStep
      <4>2. /\ d \in {"yes", "no", "bearer"}
            /\ d = "yes" => s.mode = "start"
            /\ d = "bearer" => s.mode = "header"
        BY <2>2, <2>3, <3>5 DEF HeaderOf
      <4>3. HeaderStep(d, t) = IF t \in Alphanumeric THEN "no" ELSE "yes"
        BY <3>5, <4>2 DEF HeaderStep
      <4> QED
        BY <2>3, <4>1, <4>3 DEF HeaderOf
    <3> QED
      BY <2>3, <3>1, <3>2, <3>3, <3>4, <3>5
  <2> HIDE DEF r
  <2> QED
    BY <2>1, <2>4, AppendProperties
<1> HIDE DEF good
<1>3. x \in good
  BY <1>1, <1>2, TextInduction
<1> QED
  BY <1>3 DEF good

\* The second pass makes a text that it leaves as it is.
LEMMA SecondPassSettled ==
  ASSUME NEW x \in Seq(Tokens)
  PROVE  Quiet(HeadersOf(Bearers(x).out))
<1>1. Bearers(x).mode \in {"start", "inside", "header", "drop"}
  BY BearerLaw DEF BearerStates
<1> QED
  BY <1>1, SecondPassHeaders DEF HeaderOf, Quiet

HeaderLink(d, e, mode) ==
  IF mode = "drop" THEN d \in {"yes", "no", "bearer"} /\ e = "yes"
  ELSE e = d \/ (d \in {"header", "hidden"} /\ e = "yes")

\* At every token, the third pass writes what the reader of headers still accepts.
LEMMA HeaderLinkSteps ==
  ASSUME NEW d \in HeaderStates, NEW s \in JwtStates, NEW t \in Tokens,
         HeaderLink(d, HeadersOf(s.out), s.mode), HeaderStep(d, t) # "bad"
  PROVE  HeaderLink(HeaderStep(d, t), HeadersOf(JwtStep(s, t).out), JwtStep(s, t).mode)
<1> DEFINE e == HeadersOf(s.out)
           r == JwtStep(s, t)
<1>1. /\ s.out \in Seq(Tokens) /\ s.mode \in {"copy", "drop"}
      /\ \A u \in Tokens : HeadersOf(Append(s.out, u)) = HeaderStep(e, u)
  BY HeaderLaw DEF JwtStates
<1> HIDE DEF e
<1>2. HeaderLink(d, e, s.mode)
  BY DEF e
<1>3. CASE s.mode = "copy" /\ t = "jwt"
  <2>1. r.out = Append(s.out, "redacted") /\ r.mode = "drop"
    BY <1>3 DEF JwtStep
  <2>2. "jwt" \in Alphanumeric /\ "redacted" \notin Alphanumeric /\ "jwt" \notin White
        /\ "redacted" \in Tokens
    BY SomeTokens DEF White, Alphanumeric
  <2>3. d \in {"yes", "no", "bearer"}
    BY <1>3, <2>2 DEF HeaderStep, HeaderStates
  <2>4. HeaderStep(d, t) = "no"
    BY <1>3, <2>2, <2>3 DEF HeaderStep
  <2>5. e = d
    BY <1>2, <1>3, <2>3 DEF HeaderLink
  <2>6. HeaderStep(e, "redacted") = "yes"
    BY <2>2, <2>3, <2>5 DEF HeaderStep
  <2> QED
    BY <1>1, <2>1, <2>2, <2>4, <2>6 DEF HeaderLink
<1>4. CASE s.mode = "drop" /\ t \in Alphanumeric \cup {"dash"}
  <2>1. r = s
    BY <1>4 DEF JwtStep
  <2>2. t # "space"
    BY <1>4 DEF Alphanumeric
  <2>3. d \in {"yes", "no", "bearer"} /\ e = "yes"
    BY <1>2, <1>4 DEF HeaderLink
  <2>4. HeaderStep(d, t) \in {"yes", "no", "bearer"}
    BY <2>2, <2>3 DEF HeaderStep
  <2>6. HeadersOf(r.out) = e /\ r.mode = "drop"
    BY <1>4, <2>1 DEF e
  <2> HIDE DEF r
  <2> QED
    BY <2>3, <2>4, <2>6 DEF HeaderLink, r
<1>5. CASE s.mode = "drop" /\ t \notin Alphanumeric \cup {"dash"}
  <2>1. r.out = Append(s.out, t) /\ r.mode = "copy"
    BY <1>5 DEF JwtStep
  <2>2. t # "bearer"
    BY <1>5 DEF Alphanumeric
  <2>3. d \in {"yes", "no", "bearer"} /\ e = "yes"
    BY <1>2, <1>5 DEF HeaderLink
  <2>4. HeaderStep(d, t) \in {"yes", "header"} /\ HeaderStep(e, t) = "yes"
    BY <1>5, <2>2, <2>3 DEF HeaderStep
  <2> QED
    BY <1>1, <2>1, <2>4 DEF HeaderLink
<1>6. CASE s.mode = "copy" /\ t # "jwt"
  <2>1. r.out = Append(s.out, t) /\ r.mode = "copy"
    BY <1>6 DEF JwtStep
  <2>2. e = d \/ (d \in {"header", "hidden"} /\ e = "yes")
    BY <1>2, <1>6 DEF HeaderLink
  <2>3. CASE e = d
    BY <1>1, <2>1, <2>3 DEF HeaderLink
  <2>4. CASE d = "header" /\ e = "yes"
    <3>1. t = "redacted" /\ HeaderStep(d, t) = "hidden"
      BY <2>4 DEF HeaderStep
    <3>2. HeaderStep(e, t) = "yes"
      BY <2>4, <3>1 DEF HeaderStep, Alphanumeric
    <3> QED
      BY <1>1, <2>1, <3>1, <3>2 DEF HeaderLink
  <2>5. CASE d = "hidden" /\ e = "yes"
    <3>1. t \in White /\ HeaderStep(d, t) = "yes"
      BY <2>5 DEF HeaderStep
    <3>2. HeaderStep(e, t) = "yes"
      BY <2>5, <3>1 DEF HeaderStep, Alphanumeric, White
    <3> QED
      BY <1>1, <2>1, <3>1, <3>2 DEF HeaderLink
  <2> QED
    BY <2>2, <2>3, <2>4, <2>5
<1> QED
  BY <1>1, <1>3, <1>4, <1>5, <1>6

\* The third pass does not undo the second.
LEMMA ThirdPassSettled ==
  ASSUME NEW x \in Seq(Tokens), Quiet(HeadersOf(x))
  PROVE  Quiet(HeadersOf(Jwts(x).out))
<1> DEFINE good == {y \in Seq(Tokens) : HeadersOf(y) # "bad"
                       => HeaderLink(HeadersOf(y), HeadersOf(Jwts(y).out), Jwts(y).mode)}
<1>1. << >> \in good
  <2>1. Jwts(<< >>) = JwtStart /\ HeadersOf(<< >>) = "yes" /\ << >> \in Seq(Tokens)
    BY JwtLaw, HeaderLaw
  <2>2. HeaderLink("yes", "yes", "copy")
    BY DEF HeaderLink
  <2> QED
    BY <2>1, <2>2 DEF JwtStart
<1>2. ASSUME NEW y \in Seq(Tokens), NEW t \in Tokens, y \in good
      PROVE  Append(y, t) \in good
  <2>1. HeadersOf(y) \in HeaderStates /\ HeadersOf(Append(y, t)) = HeaderStep(HeadersOf(y), t)
    BY HeaderLaw
  <2>2. Jwts(y) \in JwtStates /\ Jwts(Append(y, t)) = JwtStep(Jwts(y), t)
    BY JwtLaw
  <2>3. HeaderStep(HeadersOf(y), t) # "bad" => HeadersOf(y) # "bad"
    BY <2>1 DEF HeaderStep
  <2>4. HeaderStep(HeadersOf(y), t) # "bad"
          => HeaderLink(HeaderStep(HeadersOf(y), t), HeadersOf(JwtStep(Jwts(y), t).out),
                        JwtStep(Jwts(y), t).mode)
    BY <1>2, <2>1, <2>2, <2>3, HeaderLinkSteps
  <2> QED
    BY <2>1, <2>2, <2>4, AppendProperties
<1> HIDE DEF good
<1>3. x \in good
  BY <1>1, <1>2, TextInduction
<1>4. HeaderLink(HeadersOf(x), HeadersOf(Jwts(x).out), Jwts(x).mode)
  BY <1>3 DEF good, Quiet
<1> QED
  BY <1>4 DEF HeaderLink, Quiet

\* What this reader accepts the second pass leaves as it is.
LEMMA SecondPassKeeps ==
  ASSUME NEW x \in Seq(Tokens), Quiet(HeadersOf(x))
  PROVE  RedactBearerTokens(x) = x
<1> DEFINE keeps(y, d, s) == /\ d = "yes" => s.mode = "start"
                             /\ d = "no" => s.mode = "inside"
                             /\ d = "bearer" => s.mode = "header"
                             /\ d \in {"header", "hidden"} => s.mode = "drop"
                             /\ s.out = IF d = "header" THEN Append(y, "redacted") ELSE y
           good == {y \in Seq(Tokens) : HeadersOf(y) # "bad" => keeps(y, HeadersOf(y), Bearers(y))}
<1>1. << >> \in good
  <2>1. Bearers(<< >>) = BearerStart /\ HeadersOf(<< >>) = "yes" /\ << >> \in Seq(Tokens)
    BY BearerLaw, HeaderLaw
  <2>2. keeps(<< >>, "yes", BearerStart)
    BY DEF BearerStart
  <2> QED
    BY <2>1, <2>2
<1>2. ASSUME NEW y \in Seq(Tokens), NEW t \in Tokens, y \in good
      PROVE  Append(y, t) \in good
  <2> DEFINE d == HeadersOf(y)
             s == Bearers(y)
             r == BearerStep(s, t)
             e == HeaderStep(d, t)
             z == Append(y, t)
  <2>1. d \in HeaderStates /\ HeadersOf(z) = e
    BY HeaderLaw
  <2>2. s \in BearerStates /\ Bearers(z) = r
    BY BearerLaw
  <2>3. d # "bad" => keeps(y, d, s)
    BY <1>2
  <2>4. ASSUME e # "bad" PROVE keeps(z, e, r)
    <3>1. d # "bad"
      BY <2>4 DEF HeaderStep
    <3>2. keeps(y, d, s)
      BY <2>3, <3>1
    <3> HIDE DEF d, s
    <3>3. CASE d = "bearer" /\ t = "space"
      <4>1. e = "header"
        BY <3>3 DEF HeaderStep
      <4>2. r.out = s.out \o <<"space", "redacted">> /\ r.mode = "drop"
        BY <3>2, <3>3 DEF BearerStep
      <4>3. y \o <<"space", "redacted">> = Append(z, "redacted")
        BY <3>3, SomeTokens
      <4>4. s.out = y
        BY <3>2, <3>3
      <4> HIDE DEF e, r, z
      <4> QED
        BY <4>1, <4>2, <4>3, <4>4
    <3>4. CASE d = "header"
      <4>1. e = "hidden" /\ t = "redacted"
        BY <2>4, <3>4 DEF HeaderStep
      <4>2. r = s
        BY <3>2, <3>4, <4>1 DEF BearerStep, White
      <4>3. s.out = z /\ s.mode = "drop"
        BY <3>2, <3>4, <4>1
      <4> HIDE DEF e, r, z
      <4> QED
        BY <4>1, <4>2, <4>3
    <3>5. CASE d = "hidden"
      <4>1. e = "yes" /\ t \in White
        BY <2>4, <3>5 DEF HeaderStep
      <4>2. r.out = Append(s.out, t) /\ r.mode = "start"
        BY <3>2, <3>5, <4>1 DEF BearerStep, White, Alphanumeric
      <4>3. s.out = y
        BY <3>2, <3>5
      <4>4. r.out = z
        BY <4>2, <4>3
      <4> HIDE DEF e, r, z
      <4> QED
        BY <4>1, <4>2, <4>4
    <3>6. CASE d = "yes" /\ t = "bearer"
      <4>1. e = "bearer"
        BY <3>6 DEF HeaderStep
      <4>2. r.out = Append(s.out, t) /\ r.mode = "header"
        BY <3>2, <3>6 DEF BearerStep
      <4>3. r.out = z
        BY <3>2, <3>6, <4>2
      <4> HIDE DEF e, r, z
      <4> QED
        BY <4>1, <4>2, <4>3
    <3>7. CASE d \in {"yes", "no", "bearer"} /\ ~(d = "yes" /\ t = "bearer")
                                             /\ ~(d = "bearer" /\ t = "space")
      <4>1. e = IF t \in Alphanumeric THEN "no" ELSE "yes"
        BY <3>7 DEF HeaderStep
      <4>2. /\ r.out = Append(s.out, t)
            /\ r.mode = IF t \in Alphanumeric THEN "inside" ELSE "start"
        BY <3>2, <3>7 DEF BearerStep
      <4>3. r.out = z
        BY <3>2, <3>7, <4>2
      <4> HIDE DEF e, r, z
      <4> QED
        BY <4>1, <4>2, <4>3
    <3> QED
      BY <2>1, <3>1, <3>3, <3>4, <3>5, <3>6, <3>7 DEF HeaderStates
  <2> HIDE DEF keeps, d, s, e, r
  <2> QED
    BY <2>1, <2>2, <2>4, AppendProperties
<1> HIDE DEF good
<1>3. x \in good
  BY <1>1, <1>2, TextInduction
<1>4. Bearers(x).out = x
  BY <1>3 DEF good, Quiet
<1> QED
  BY <1>4 DEF RedactBearerTokens, Bearers, BearerStart

-----------------------------------------------------------------------------
(* The third pass *)

Lacks(x, u) == \A i \in DOMAIN x : x[i] # u

\* What a longer text lacks.
LEMMA LacksAppend ==
  ASSUME NEW x \in Seq(Tokens), NEW t \in Tokens, NEW u
  PROVE  Lacks(Append(x, t), u) <=> Lacks(x, u) /\ t # u
<1>1. /\ Len(Append(x, t)) = Len(x) + 1 /\ Len(x) \in Nat /\ Append(x, t)[Len(x) + 1] = t
      /\ \A i \in 1..Len(x) : Append(x, t)[i] = x[i]
      /\ DOMAIN Append(x, t) = 1..(Len(x) + 1) /\ DOMAIN x = 1..Len(x)
  BY AppendProperties
<1>2. 1..(Len(x) + 1) = (1..Len(x)) \cup {Len(x) + 1}
  BY <1>1
<1> QED
  BY <1>1, <1>2 DEF Lacks

\* The third pass leaves no compact token.
LEMMA ThirdPassHides ==
  ASSUME NEW x \in Seq(Tokens)
  PROVE  Lacks(Jwts(x).out, "jwt")
<1> DEFINE good == {y \in Seq(Tokens) : Lacks(Jwts(y).out, "jwt")}
<1>1. << >> \in good
  <2>1. Jwts(<< >>).out = << >> /\ << >> \in Seq(Tokens)
    BY JwtLaw DEF JwtStart
  <2> QED
    BY <2>1 DEF Lacks
<1>2. ASSUME NEW y \in Seq(Tokens), NEW t \in Tokens, y \in good
      PROVE  Append(y, t) \in good
  <2> DEFINE s == Jwts(y)
             r == JwtStep(s, t)
  <2>1. s \in JwtStates /\ Jwts(Append(y, t)) = r
    BY JwtLaw
  <2>2. Lacks(s.out, "jwt")
    BY <1>2
  <2> HIDE DEF s
  <2>3. /\ "redacted" \in Tokens
        /\ \/ r.out = Append(s.out, "redacted")
           \/ r = s
           \/ r.out = Append(s.out, t) /\ t # "jwt"
    BY <2>1, SomeTokens DEF JwtStep, JwtStates, Alphanumeric
  <2> HIDE DEF r
  <2>4. s.out \in Seq(Tokens)
    BY <2>1 DEF JwtStates
  <2>5. /\ Lacks(Append(s.out, "redacted"), "jwt")
        /\ t # "jwt" => Lacks(Append(s.out, t), "jwt")
    BY <2>2, <2>3, <2>4, LacksAppend
  <2>6. Lacks(r.out, "jwt")
    BY <2>2, <2>3, <2>5
  <2> QED
    BY <2>1, <2>6, AppendProperties
<1> HIDE DEF good
<1>3. x \in good
  BY <1>1, <1>2, TextInduction
<1> QED
  BY <1>3 DEF good

\* And it leaves alone a text that has none.
LEMMA ThirdPassKeeps ==
  ASSUME NEW x \in Seq(Tokens), Lacks(x, "jwt")
  PROVE  RedactJwtLike(x) = x
<1> DEFINE good == {y \in Seq(Tokens) : Lacks(y, "jwt") => Jwts(y) = [out |-> y, mode |-> "copy"]}
<1>1. << >> \in good
  <2>1. Jwts(<< >>) = JwtStart /\ << >> \in Seq(Tokens)
    BY JwtLaw
  <2> QED
    BY <2>1 DEF JwtStart
<1>2. ASSUME NEW y \in Seq(Tokens), NEW t \in Tokens, y \in good
      PROVE  Append(y, t) \in good
  <2>1. Jwts(Append(y, t)) = JwtStep(Jwts(y), t)
    BY JwtLaw
  <2>2. ASSUME Lacks(Append(y, t), "jwt")
        PROVE  JwtStep(Jwts(y), t) = [out |-> Append(y, t), mode |-> "copy"]
    <3>1. Lacks(y, "jwt") /\ t # "jwt"
      BY <2>2, LacksAppend
    <3>2. Jwts(y).out = y /\ Jwts(y).mode = "copy"
      BY <1>2, <3>1
    <3> QED
      BY <3>1, <3>2 DEF JwtStep
  <2> QED
    BY <2>1, <2>2, AppendProperties
<1> HIDE DEF good
<1>3. x \in good
  BY <1>1, <1>2, TextInduction
<1>4. Jwts(x).out = x
  BY <1>3 DEF good
<1> QED
  BY <1>4 DEF RedactJwtLike, Jwts, JwtStart

-----------------------------------------------------------------------------
(* A text passes once *)

\* The last two passes are their walks.
LEMMA PassesAre ==
  ASSUME NEW x \in Seq(Tokens)
  PROVE  /\ RedactBearerTokens(x) = Bearers(x).out /\ RedactBearerTokens(x) \in Seq(Tokens)
         /\ RedactJwtLike(x) = Jwts(x).out /\ RedactJwtLike(x) \in Seq(Tokens)
<1>1. Bearers(x) \in BearerStates /\ Jwts(x) \in JwtStates
  BY BearerLaw, JwtLaw
<1> QED
  BY <1>1 DEF RedactBearerTokens, Bearers, BearerStart, BearerStates,
              RedactJwtLike, Jwts, JwtStart, JwtStates

\* What the three readers accept is left as it is.
LEMMA ScrubKeeps ==
  ASSUME NEW x \in Seq(Tokens), Complete(PairsOf(x)), Quiet(HeadersOf(x)), Lacks(x, "jwt")
  PROVE  Scrub(x) = x
BY FirstPassKeeps, SecondPassKeeps, ThirdPassKeeps DEF Scrub

\* A scrubbed text is a text, and the three readers accept it.
LEMMA Scrubbed ==
  ASSUME NEW x \in Seq(Tokens)
  PROVE  /\ Scrub(x) \in Seq(Tokens)
         /\ Complete(PairsOf(Scrub(x))) /\ Quiet(HeadersOf(Scrub(x))) /\ Lacks(Scrub(x), "jwt")
<1> DEFINE k == RedactKeyValuePairs(x)
           b == RedactBearerTokens(k)
           j == RedactJwtLike(b)
<1>1. k \in Seq(Tokens) /\ Complete(PairsOf(k))
  BY FirstPassReadable
<1> HIDE DEF k
<1>2. b = Bearers(k).out /\ b \in Seq(Tokens)
  BY <1>1, PassesAre
<1>3. Complete(PairsOf(b)) /\ Quiet(HeadersOf(b))
  BY <1>1, <1>2, SecondPassReadable, SecondPassSettled
<1> HIDE DEF b
<1>4. j = Jwts(b).out /\ j \in Seq(Tokens)
  BY <1>2, PassesAre
<1>5. Complete(PairsOf(j)) /\ Quiet(HeadersOf(j)) /\ Lacks(j, "jwt")
  BY <1>2, <1>3, <1>4, ThirdPassReadable, ThirdPassSettled, ThirdPassHides
<1>6. Scrub(x) = j
  BY DEF Scrub, k, b
<1> QED
  BY <1>4, <1>5, <1>6

\* scrub leaves alone what it has made, whatever it was made from.
LEMMA ScrubbedIsFinal == \A x \in Seq(Tokens) : Scrub(Scrub(x)) = Scrub(x)
BY Scrubbed, ScrubKeeps

\* The texts of bounded length are texts.
LEMMA TextsAreTexts == \A n \in Nat : TextsUpTo(n) \subseteq Seq(Tokens)
<1> TAKE n \in Nat
<1> SUFFICES ASSUME NEW t \in TextsUpTo(n) PROVE t \in Seq(Tokens)
  OBVIOUS
<1>1. PICK k \in 0..n : t \in [1..k -> Tokens]
  BY DEF TextsUpTo
<1>2. k \in Nat
  OBVIOUS
<1> QED
  BY <1>1, <1>2

\* So every text of any bounded length settles.
LEMMA AllSettle == \A n \in Nat : Settles(n)
BY ScrubbedIsFinal, TextsAreTexts DEF Settles

-----------------------------------------------------------------------------
(* What has no shape of a secret *)

Shapeless(x) ==
  \A i \in DOMAIN x :
    /\ x[i] \notin {"key", "jwt"}
    /\ x[i] = "bearer" => \/ i = Len(x) \/ x[i + 1] # "space"
                          \/ i > 1 /\ x[i - 1] \in Alphanumeric

Unshaped(x, c, d) ==
  /\ ~c.pending /\ c.mode \in {"key", "show"} /\ c.word \in {"none", "red", "some"}
  /\ c.piece \in {"none", "some"}
  /\ d \in {"yes", "no", "bearer"}
  /\ d = "yes" => x = << >> \/ x[Len(x)] \notin Alphanumeric
  /\ d = "bearer" => /\ x # << >> /\ x[Len(x)] = "bearer"
                     /\ Len(x) = 1 \/ x[Len(x) - 1] \notin Alphanumeric

\* A text with no shape of a secret has none without its last token.
LEMMA HarmlessShort ==
  ASSUME NEW x \in Seq(Tokens), NEW t \in Tokens, Shapeless(Append(x, t))
  PROVE  /\ Shapeless(x) /\ t \notin {"key", "jwt"}
         /\ x # << >> /\ x[Len(x)] = "bearer" /\ t = "space"
              => Len(x) > 1 /\ x[Len(x) - 1] \in Alphanumeric
<1> DEFINE y == Append(x, t)
           n == Len(x)
<1>1. /\ n \in Nat /\ Len(y) = n + 1 /\ y[n + 1] = t /\ \A i \in 1..n : y[i] = x[i]
      /\ DOMAIN y = 1..(n + 1) /\ DOMAIN x = 1..n
  BY AppendProperties
<1>2. x # << >> => n >= 1
  BY <1>1
<1>3. Shapeless(y)
  OBVIOUS
<1> HIDE DEF y, n
<1>4. t \notin {"key", "jwt"}
  <2>1. n + 1 \in 1..(n + 1)
    BY <1>1
  <2> QED
    BY <1>1, <1>3, <2>1 DEF Shapeless
<1>5. Shapeless(x)
  <2>1. ASSUME NEW i \in 1..n
        PROVE  /\ x[i] \notin {"key", "jwt"}
               /\ x[i] = "bearer" => \/ i = n \/ x[i + 1] # "space"
                                     \/ i > 1 /\ x[i - 1] \in Alphanumeric
    <3>1. /\ i \in 1..(n + 1) /\ i # n + 1 /\ x[i] = y[i]
          /\ i # n => i + 1 \in 1..n /\ y[i + 1] = x[i + 1]
          /\ i > 1 => i - 1 \in 1..n /\ y[i - 1] = x[i - 1]
      BY <1>1
    <3> QED
      BY <1>1, <1>3, <3>1 DEF Shapeless
  <2> QED
    BY <1>1, <2>1 DEF Shapeless, n
<1>6. ASSUME x # << >>, x[n] = "bearer", t = "space"
      PROVE  n > 1 /\ x[n - 1] \in Alphanumeric
  <2>1. n \in 1..n /\ n \in 1..(n + 1) /\ n # n + 1 /\ y[n] = "bearer" /\ y[n + 1] = "space"
    BY <1>1, <1>2, <1>6
  <2>2. n > 1 /\ y[n - 1] \in Alphanumeric
    BY <1>1, <1>3, <2>1 DEF Shapeless
  <2>3. n - 1 \in 1..n
    BY <1>1, <2>2
  <2> QED
    BY <1>1, <2>2, <2>3
<1> QED
  BY <1>4, <1>5, <1>6 DEF n

\* Both readers accept every text that has no shape of a secret.
LEMMA HarmlessUnshaped ==
  ASSUME NEW x \in Seq(Tokens), Shapeless(x)
  PROVE  Unshaped(x, PairsOf(x), HeadersOf(x)) /\ Lacks(x, "jwt")
<1> DEFINE good == {y \in Seq(Tokens) :
                      Shapeless(y) => Unshaped(y, PairsOf(y), HeadersOf(y)) /\ Lacks(y, "jwt")}
<1>1. << >> \in good
  <2>1. PairsOf(<< >>) = PairStart /\ HeadersOf(<< >>) = "yes" /\ << >> \in Seq(Tokens)
    BY PairLaw, HeaderLaw
  <2>2. Unshaped(<< >>, PairStart, "yes")
    BY DEF Unshaped, PairStart
  <2>3. Lacks(<< >>, "jwt")
    BY DEF Lacks
  <2> QED
    BY <2>1, <2>2, <2>3
<1>2. ASSUME NEW y \in Seq(Tokens), NEW t \in Tokens, y \in good
      PROVE  Append(y, t) \in good
  <2> DEFINE z == Append(y, t)
             c == PairsOf(y)
             d == HeadersOf(y)
  <2>1. c \in PairStates /\ PairsOf(z) = PairStep(c, t) /\ HeadersOf(z) = HeaderStep(d, t)
    BY PairLaw, HeaderLaw
  <2>2. z \in Seq(Tokens) /\ z # << >> /\ Len(z) = Len(y) + 1 /\ Len(y) \in Nat /\ z[Len(z)] = t
        /\ (y # << >> => z[Len(z) - 1] = y[Len(y)])
        /\ (y = << >> => Len(y) = 0)
    <3>1. /\ z \in Seq(Tokens) /\ Len(z) = Len(y) + 1 /\ Len(y) \in Nat /\ z[Len(y) + 1] = t
          /\ \A i \in 1..Len(y) : z[i] = y[i]
      BY AppendProperties
    <3>2. y # << >> => Len(y) \in 1..Len(y)
      OBVIOUS
    <3>3. y = << >> => Len(y) = 0
      OBVIOUS
    <3>4. z # << >>
      BY AppendProperties
    <3> HIDE DEF z
    <3> QED
      BY <3>1, <3>2, <3>3, <3>4
  <2>3. ASSUME Shapeless(z)
        PROVE  Unshaped(z, PairStep(c, t), HeaderStep(d, t)) /\ Lacks(z, "jwt")
    <3>1. /\ Shapeless(y) /\ t \notin {"key", "jwt"}
          /\ y # << >> /\ y[Len(y)] = "bearer" /\ t = "space"
               => Len(y) > 1 /\ y[Len(y) - 1] \in Alphanumeric
      BY <2>3, HarmlessShort
    <3>2. Unshaped(y, c, d) /\ Lacks(y, "jwt")
      BY <1>2, <3>1
    <3>3. Lacks(z, "jwt")
      BY <3>1, <3>2, LacksAppend
    <3> HIDE DEF c, d, z
    <3>4. /\ ~c.pending /\ c.mode \in {"key", "show"} /\ c.word \in {"none", "red", "some"}
          /\ c.piece \in {"none", "some"} /\ d \in {"yes", "no", "bearer"}
      BY <3>2 DEF Unshaped
    <3>5. /\ ~PairStep(c, t).pending /\ PairStep(c, t).mode \in {"key", "show"}
          /\ PairStep(c, t).word \in {"none", "red", "some"}
          /\ PairStep(c, t).piece \in {"none", "some"}
      <4>1. CASE t \notin White
        <5>1. PairStep(c, t).pending = c.pending /\ PairStep(c, t).mode = ModeWith(c, t)
              /\ PairStep(c, t).word = WordWith(c.word, t)
              /\ PairStep(c, t).piece \in {"none", PieceWith(c.piece, t)}
          BY <4>1 DEF PairStep
        <5>2. ModeWith(c, t) \in {"key", "show"}
          BY <3>4 DEF ModeWith
        <5>3. WordWith(c.word, t) \in {"red", "some"} /\ PieceWith(c.piece, t) = "some"
          BY <3>1, <3>4 DEF WordWith, PieceWith
        <5> QED
          BY <3>4, <5>1, <5>2, <5>3
      <4>2. CASE t \in White
        <5> DEFINE p == t = "space" /\ IF c.word = "none" THEN c.pending
                                       ELSE ~c.pending /\ c.word = "bare"
                   m == IF Complete(c) THEN "key" ELSE "bad"
        <5>1. PairStep(c, t) = [pending |-> p, word |-> "none", mode |-> m, piece |-> "none"]
          BY <4>2 DEF PairStep
        <5>2. p = FALSE /\ m = "key"
          BY <3>4 DEF Complete
        <5> HIDE DEF p, m
        <5> QED
          BY <5>1, <5>2
      <4> QED
        BY <4>1, <4>2
    <3>6. d = "bearer" => t # "space"
      <4>1. d = "bearer" => /\ y # << >> /\ y[Len(y)] = "bearer"
                            /\ Len(y) = 1 \/ y[Len(y) - 1] \notin Alphanumeric
        BY <3>2 DEF Unshaped
      <4> QED
        BY <2>2, <3>1, <4>1
    <3>7. /\ HeaderStep(d, t) \in {"yes", "no", "bearer"}
          /\ HeaderStep(d, t) = "yes" => t \notin Alphanumeric
          /\ HeaderStep(d, t) = "bearer" => d = "yes" /\ t = "bearer"
      BY <3>4, <3>6 DEF HeaderStep
    <3>8. HeaderStep(d, t) = "bearer" => /\ z[Len(z)] = "bearer"
                                         /\ Len(z) = 1 \/ z[Len(z) - 1] \notin Alphanumeric
      <4>1. d = "yes" => y = << >> \/ y[Len(y)] \notin Alphanumeric
        BY <3>2 DEF Unshaped
      <4> QED
        BY <2>2, <3>7, <4>1
    <3> QED
      BY <2>2, <3>3, <3>5, <3>7, <3>8 DEF Unshaped
  <2> HIDE DEF c, d, z
  <2>4. z \in good
    BY <2>1, <2>2, <2>3
  <2> QED
    BY <2>4 DEF z
<1> HIDE DEF good
<1>3. x \in good
  BY <1>1, <1>2, TextInduction
<1> QED
  BY <1>3 DEF good

\* So scrub leaves every such text alone.
LEMMA AllLeaveAlone == \A n \in Nat : LeavesAlone(n)
<1>1. ASSUME NEW x \in Seq(Tokens), Shapeless(x)
      PROVE  Scrub(x) = x
  <2>1. Unshaped(x, PairsOf(x), HeadersOf(x)) /\ Lacks(x, "jwt")
    BY <1>1, HarmlessUnshaped
  <2>2. Complete(PairsOf(x)) /\ Quiet(HeadersOf(x))
    BY <2>1 DEF Unshaped, Complete, Quiet
  <2> QED
    BY <2>1, <2>2, ScrubKeeps
<1> QED
  BY <1>1, TextsAreTexts DEF LeavesAlone, Shapeless

-----------------------------------------------------------------------------
(* No pass brings a secret *)

\* What two texts in a row lack.
LEMMA LacksConcat ==
  ASSUME NEW x \in Seq(Tokens), NEW y \in Seq(Tokens), NEW u
  PROVE  Lacks(x \o y, u) <=> Lacks(x, u) /\ Lacks(y, u)
<1> DEFINE m == Len(x)
           n == Len(y)
           z == x \o y
<1>1. /\ m \in Nat /\ n \in Nat /\ Len(z) = m + n /\ DOMAIN z = 1..(m + n)
      /\ DOMAIN x = 1..m /\ DOMAIN y = 1..n
      /\ \A i \in 1..m : z[i] = x[i]
      /\ \A i \in 1..n : z[m + i] = y[i]
  <2>1. z \in Seq(Tokens) /\ Len(z) = m + n /\ \A i \in 1..(m + n) :
                    z[i] = IF i <= m THEN x[i] ELSE y[i - m]
    BY ConcatProperties
  <2>2. m \in Nat /\ n \in Nat
    OBVIOUS
  <2>3. \A i \in 1..n : m + i \in 1..(m + n) /\ ~(m + i <= m) /\ (m + i) - m = i
    BY <2>2
  <2>4. \A i \in 1..m : i \in 1..(m + n) /\ i <= m
    BY <2>2
  <2> HIDE DEF z
  <2> QED
    BY <2>1, <2>2, <2>3, <2>4
<1> HIDE DEF z, m, n
<1>2. \A i \in 1..(m + n) : i \in 1..m \/ (i - m \in 1..n /\ m + (i - m) = i)
  BY <1>1
<1>3. \A i \in 1..m : i \in 1..(m + n)
  BY <1>1
<1>4. \A i \in 1..n : m + i \in 1..(m + n)
  BY <1>1
<1>5. Lacks(z, u) => Lacks(x, u) /\ Lacks(y, u)
  BY <1>1, <1>3, <1>4 DEF Lacks
<1>6. Lacks(x, u) /\ Lacks(y, u) => Lacks(z, u)
  BY <1>1, <1>2 DEF Lacks
<1> QED
  BY <1>5, <1>6 DEF z

\* Inside a word, only a value where none is hidden is written.
LEMMA GluedClean ==
  ASSUME NEW g \in GluedStates, NEW t \in Tokens, Lacks(g.out, "value"),
         t # "value" \/ g.mode = "hide"
  PROVE  Lacks(GluedStep(g, t).out, "value")
<1>1. g.out \in Seq(Tokens) /\ <<"eq", "redacted">> \in Seq(Tokens) /\ "eq" \in Tokens
  BY SomeTokens DEF GluedStates
<1>2. Lacks(<<"eq", "redacted">>, "value")
  BY DEF Lacks
<1>3. /\ Lacks(g.out \o <<"eq", "redacted">>, "value") /\ Lacks(Append(g.out, "eq"), "value")
      /\ t # "value" => Lacks(Append(g.out, t), "value")
  BY <1>1, <1>2, LacksConcat, LacksAppend
<1>4. \/ GluedStep(g, t).out = g.out \o <<"eq", "redacted">>
      \/ GluedStep(g, t).out = Append(g.out, "eq")
      \/ GluedStep(g, t).out = Append(g.out, t) /\ ~(g.mode = "hide" /\ t # "semi")
      \/ GluedStep(g, t).out = g.out
  BY DEF GluedStep, GluedStates
<1> QED
  BY <1>3, <1>4

\* What the first pass has written is clean, the current word included.
Clean(s) ==
  /\ Lacks(s.out, "value")
  /\ s.pending \/ Lacks(Glued(s.word).out, "value")

\* The end of a word brings no value.
LEMMA CleanEnds ==
  ASSUME NEW s \in WordStates, Clean(s)
  PROVE  Lacks(WordEnds(s).out, "value")
<1>1. s.out \in Seq(Tokens) /\ s.word \in Seq(Tokens) /\ s.pending \in BOOLEAN
      /\ Glued(s.word).out \in Seq(Tokens)
  <2>1. s.out \in Seq(Tokens) /\ s.word \in Seq(Tokens) /\ s.pending \in BOOLEAN
    BY DEF WordStates
  <2>2. Glued(s.word) \in GluedStates
    BY <2>1, GluedLaw
  <2> QED
    BY <2>1, <2>2 DEF GluedStates
<1>2. CASE ~s.pending
  <2>1. WordEnds(s).out = s.out \o Glued(s.word).out
    BY <1>2, WordIsWritten
  <2>2. Lacks(s.out \o Glued(s.word).out, "value")
    BY <1>1, <1>2, LacksConcat DEF Clean
  <2> QED
    BY <2>1, <2>2
<1>3. CASE s.pending
  <2>1. WordEnds(s).out \in {s.out, Append(s.out, "redacted")}
    BY <1>3 DEF WordEnds
  <2>2. Lacks(Append(s.out, "redacted"), "value")
    BY <1>1, SomeTokens, LacksAppend DEF Clean
  <2> QED
    BY <2>1, <2>2 DEF Clean
<1> QED
  BY <1>1, <1>2, <1>3

\* No token but a value that is not hidden brings one.
LEMMA CleanSteps ==
  ASSUME NEW s \in WordStates, NEW t \in Tokens, Clean(s),
         t # "value" \/ s.pending \/ Glued(s.word).mode = "hide"
  PROVE  Clean(KeyValueStep(s, t))
<1> DEFINE n == KeyValueStep(s, t)
<1>1. s.out \in Seq(Tokens) /\ s.word \in Seq(Tokens) /\ s.pending \in BOOLEAN
  BY DEF WordStates
<1>2. CASE t \notin White
  <2>1. n = [s EXCEPT !.word = Append(s.word, t)]
    BY <1>2 DEF KeyValueStep
  <2>2. n.out = s.out /\ n.word = Append(s.word, t) /\ (n.pending <=> s.pending)
    BY <2>1 DEF WordStates
  <2>3. Glued(Append(s.word, t)) = GluedStep(Glued(s.word), t) /\ Glued(s.word) \in GluedStates
    BY <1>1, GluedLaw
  <2>4. ~s.pending => Lacks(GluedStep(Glued(s.word), t).out, "value")
    BY <2>3, GluedClean DEF Clean
  <2> HIDE DEF n
  <2> QED
    BY <2>2, <2>3, <2>4 DEF Clean, n
<1>3. CASE t \in White
  <2> DEFINE e == WordEnds(s)
  <2>1. n = [e EXCEPT !.out = Append(@, t), !.pending = @ /\ t # "newline"]
    BY <1>3 DEF KeyValueStep
  <2>2. e \in WordStates /\ e.word = << >> /\ Lacks(e.out, "value")
    BY WordEndTypes, CleanEnds
  <2> HIDE DEF e
  <2>3. n.out = Append(e.out, t) /\ n.word = << >> /\ e.out \in Seq(Tokens)
    BY <2>1, <2>2 DEF WordStates
  <2> HIDE DEF n
  <2>4. Lacks(Append(e.out, t), "value")
    BY <1>3, <2>2, <2>3, LacksAppend DEF White
  <2>5. Glued(<< >>).out = << >>
    BY GluedLaw DEF GluedStart
  <2>6. Lacks(<< >>, "value")
    BY DEF Lacks
  <2> QED
    BY <2>3, <2>4, <2>5, <2>6 DEF Clean, n
<1> QED
  BY <1>2, <1>3

\* The first pass brings no value into a text without one.
LEMMA FirstPassClean ==
  ASSUME NEW x \in Seq(Tokens), Lacks(x, "value")
  PROVE  Clean(Words(x))
<1> DEFINE good == {y \in Seq(Tokens) : Lacks(y, "value") => Clean(Words(y))}
<1>1. << >> \in good
  <2>1. Words(<< >>) = WordStart /\ Glued(<< >>).out = << >> /\ << >> \in Seq(Tokens)
    BY WordLaw, GluedLaw DEF GluedStart
  <2> QED
    BY <2>1 DEF WordStart, Clean, Lacks
<1>2. ASSUME NEW y \in Seq(Tokens), NEW t \in Tokens, y \in good
      PROVE  Append(y, t) \in good
  <2>1. Words(y) \in WordStates /\ Words(Append(y, t)) = KeyValueStep(Words(y), t)
    BY WordLaw
  <2>2. ASSUME Lacks(Append(y, t), "value") PROVE Clean(KeyValueStep(Words(y), t))
    <3>1. Lacks(y, "value") /\ t # "value"
      BY <2>2, LacksAppend
    <3> QED
      BY <1>2, <2>1, <3>1, CleanSteps
  <2> QED
    BY <2>1, <2>2, AppendProperties
<1> HIDE DEF good
<1>3. x \in good
  BY <1>1, <1>2, TextInduction
<1> QED
  BY <1>3 DEF good

\* Nor does a token in the second pass.
LEMMA SecondCleanSteps ==
  ASSUME NEW s \in BearerStates, NEW t \in Tokens, Lacks(s.out, "value"),
         t # "value" \/ s.mode = "drop"
  PROVE  Lacks(BearerStep(s, t).out, "value")
<1>1. s.out \in Seq(Tokens) /\ <<"space", "redacted">> \in Seq(Tokens)
  BY SomeTokens DEF BearerStates
<1>2. Lacks(<<"space", "redacted">>, "value")
  BY DEF Lacks
<1>3. /\ Lacks(s.out \o <<"space", "redacted">>, "value")
      /\ t # "value" => Lacks(Append(s.out, t), "value")
  BY <1>1, <1>2, LacksConcat, LacksAppend
<1>4. \/ BearerStep(s, t).out = s.out \o <<"space", "redacted">>
      \/ BearerStep(s, t).out = Append(s.out, t) /\ ~(s.mode = "drop" /\ t \notin White)
      \/ BearerStep(s, t).out = s.out
  BY DEF BearerStep, BearerStates
<1>5. "value" \notin White
  BY DEF White
<1> QED
  BY <1>3, <1>4, <1>5

\* Nor does the second pass.
LEMMA SecondPassClean ==
  ASSUME NEW x \in Seq(Tokens), Lacks(x, "value")
  PROVE  Lacks(Bearers(x).out, "value")
<1> DEFINE good == {y \in Seq(Tokens) : Lacks(y, "value") => Lacks(Bearers(y).out, "value")}
<1>1. << >> \in good
  <2>1. Bearers(<< >>).out = << >> /\ << >> \in Seq(Tokens)
    BY BearerLaw DEF BearerStart
  <2> QED
    BY <2>1 DEF Lacks
<1>2. ASSUME NEW y \in Seq(Tokens), NEW t \in Tokens, y \in good
      PROVE  Append(y, t) \in good
  <2>1. Bearers(y) \in BearerStates /\ Bearers(Append(y, t)) = BearerStep(Bearers(y), t)
    BY BearerLaw
  <2>2. ASSUME Lacks(Append(y, t), "value") PROVE Lacks(BearerStep(Bearers(y), t).out, "value")
    <3>1. Lacks(y, "value") /\ t # "value"
      BY <2>2, LacksAppend
    <3> QED
      BY <1>2, <2>1, <3>1, SecondCleanSteps
  <2> QED
    BY <2>1, <2>2, AppendProperties
<1> HIDE DEF good
<1>3. x \in good
  BY <1>1, <1>2, TextInduction
<1> QED
  BY <1>3 DEF good

\* Nor does the third.
LEMMA ThirdPassClean ==
  ASSUME NEW x \in Seq(Tokens), Lacks(x, "value")
  PROVE  Lacks(Jwts(x).out, "value")
<1> DEFINE good == {y \in Seq(Tokens) : Lacks(y, "value") => Lacks(Jwts(y).out, "value")}
<1>1. << >> \in good
  <2>1. Jwts(<< >>).out = << >> /\ << >> \in Seq(Tokens)
    BY JwtLaw DEF JwtStart
  <2> QED
    BY <2>1 DEF Lacks
<1>2. ASSUME NEW y \in Seq(Tokens), NEW t \in Tokens, y \in good
      PROVE  Append(y, t) \in good
  <2> DEFINE s == Jwts(y)
             r == JwtStep(s, t)
  <2>1. s \in JwtStates /\ Jwts(Append(y, t)) = r
    BY JwtLaw
  <2>2. ASSUME Lacks(Append(y, t), "value") PROVE Lacks(r.out, "value")
    <3>1. Lacks(y, "value") /\ t # "value"
      BY <2>2, LacksAppend
    <3>2. Lacks(s.out, "value")
      BY <1>2, <3>1
    <3> HIDE DEF s
    <3>3. r.out \in {Append(s.out, "redacted"), Append(s.out, t), s.out}
      BY DEF JwtStep
    <3>4. s.out \in Seq(Tokens) /\ "redacted" \in Tokens
      BY <2>1, SomeTokens DEF JwtStates
    <3>5. Lacks(Append(s.out, "redacted"), "value") /\ Lacks(Append(s.out, t), "value")
      BY <3>1, <3>2, <3>4, LacksAppend
    <3> HIDE DEF r
    <3> QED
      BY <3>2, <3>3, <3>5
  <2> HIDE DEF r
  <2> QED
    BY <2>1, <2>2, AppendProperties
<1> HIDE DEF good
<1>3. x \in good
  BY <1>1, <1>2, TextInduction
<1> QED
  BY <1>3 DEF good

\* It is enough that the first two passes have taken the secret.
LEMMA CleanScrubs ==
  ASSUME NEW x \in Seq(Tokens), Lacks(Bearers(RedactKeyValuePairs(x)).out, "value")
  PROVE  Lacks(Scrub(x), "value") /\ Lacks(Scrub(x), "jwt")
<1> DEFINE k == RedactKeyValuePairs(x)
           b == Bearers(k).out
<1>1. k \in Seq(Tokens)
  BY FirstPassReadable
<1> HIDE DEF k
<1>2. RedactBearerTokens(k) = b /\ b \in Seq(Tokens)
  BY <1>1, PassesAre
<1>3. Lacks(b, "value")
  BY DEF k
<1> HIDE DEF b
<1>4. RedactJwtLike(b) = Jwts(b).out
  BY <1>2, PassesAre
<1>5. Lacks(Jwts(b).out, "value") /\ Lacks(Jwts(b).out, "jwt")
  BY <1>2, <1>3, ThirdPassClean, ThirdPassHides
<1> QED
  BY <1>2, <1>4, <1>5 DEF Scrub, k

-----------------------------------------------------------------------------
(* Where a shape may start *)

EndsIn(x, w) == \E p \in Seq(Tokens) : x = p \o w

\* A text that grows keeps its ending, which grows with it.
LEMMA EndsGrow ==
  ASSUME NEW x \in Seq(Tokens), NEW w \in Seq(Tokens), NEW t \in Tokens, EndsIn(x, w)
  PROVE  EndsIn(Append(x, t), Append(w, t))
<1>1. PICK p \in Seq(Tokens) : x = p \o w
  BY DEF EndsIn
<1>2. p \o Append(w, t) = Append(p \o w, t)
  BY ConcatAppend
<1> QED
  BY <1>1, <1>2 DEF EndsIn

\* Every text ends in nothing.
LEMMA EndsInNothing == \A x \in Seq(Tokens) : EndsIn(x, << >>)
<1> TAKE x \in Seq(Tokens)
<1>1. x = x \o << >>
  BY ConcatEmptySeq
<1> QED
  BY <1>1 DEF EndsIn

\* An ending is a suffix.
LEMMA IsSuffixOf ==
  ASSUME NEW x \in Seq(Tokens), NEW w \in Seq(Tokens), EndsIn(x, w)
  PROVE  IsSuffix(w, x)
<1>1. PICK p \in Seq(Tokens) : x = p \o w
  BY DEF EndsIn
<1> DEFINE m == Len(w)
           n == Len(x)
           l == Len(p)
<1>2. /\ m \in Nat /\ n \in Nat /\ l \in Nat /\ n = l + m
      /\ \A i \in 1..(l + m) : x[i] = IF i <= l THEN p[i] ELSE w[i - l]
  BY <1>1, ConcatProperties
<1> HIDE DEF m, n, l
<1>3. Reverse(w) = [i \in 1..m |-> w[(m - i) + 1]] /\ Reverse(x) = [i \in 1..n |-> x[(n - i) + 1]]
  BY DEF Reverse, m, n
<1>4. \A i \in 1..m : w[(m - i) + 1] \in Tokens
  BY DEF m
<1>5. \A i \in 1..n : x[(n - i) + 1] \in Tokens
  BY DEF n
<1>6. Reverse(w) \in Seq(Tokens) /\ Len(Reverse(w)) = m
  BY <1>2, <1>3, <1>4
<1>7. Reverse(x) \in Seq(Tokens) /\ Len(Reverse(x)) = n
  BY <1>2, <1>3, <1>5
<1> DEFINE a == Reverse(w)
           b == Reverse(x)
<1>8. \A i \in 1..m : a[i] = b[i]
  <2> TAKE i \in 1..m
  <2>1. /\ i \in 1..n /\ (n - i) + 1 \in 1..(l + m) /\ ~((n - i) + 1 <= l)
        /\ ((n - i) + 1) - l = (m - i) + 1
    BY <1>2
  <2> QED
    BY <1>2, <1>3, <2>1
<1>9. a \in Seq(Tokens) /\ b \in Seq(Tokens) /\ Len(a) = m /\ Len(b) = n /\ m <= n
  BY <1>2, <1>6, <1>7
<1> HIDE DEF a, b
<1>10. SubSeq(a, 1, m) = SubSeq(b, 1, m)
  <2>1. SubSeq(a, 1, m) = [i \in 1..m |-> a[i]]
    BY <1>2, <1>9
  <2>2. SubSeq(b, 1, m) = [i \in 1..m |-> b[i]]
    BY <1>2, <1>9
  <2> QED
    BY <1>8, <2>1, <2>2
<1> QED
  BY <1>9, <1>10 DEF IsSuffix, IsPrefix, a, b

Spaces(k) == [i \in 1..k |-> "space"]

\* Spaces are texts, one longer by one space than the one before.
LEMMA SpacesGrow ==
  /\ Spaces(0) = << >>
  /\ \A k \in Nat : Spaces(k) \in Seq(Tokens) /\ Spaces(k + 1) = Append(Spaces(k), "space")
<1>1. Spaces(0) = << >>
  BY DEF Spaces
<1>2. ASSUME NEW k \in Nat
      PROVE  Spaces(k) \in Seq(Tokens) /\ Spaces(k + 1) = Append(Spaces(k), "space")
  <2>1. Spaces(k) \in Seq(Tokens) /\ Len(Spaces(k)) = k /\ \A i \in 1..k : Spaces(k)[i] = "space"
    BY SomeTokens DEF Spaces
  <2>2. k + 1 \in Nat /\ Spaces(k + 1) \in Seq(Tokens) /\ Len(Spaces(k + 1)) = k + 1
        /\ \A i \in 1..(k + 1) : Spaces(k + 1)[i] = "space"
    BY SomeTokens DEF Spaces
  <2> DEFINE a == Append(Spaces(k), "space")
             b == Spaces(k + 1)
  <2>3. /\ a \in Seq(Tokens) /\ Len(a) = k + 1 /\ a[k + 1] = "space"
        /\ \A i \in 1..k : a[i] = "space"
    BY <2>1, SomeTokens, AppendProperties
  <2>4. \A i \in 1..(k + 1) : i \in 1..k \/ i = k + 1
    OBVIOUS
  <2>5. \A i \in 1..(k + 1) : a[i] = b[i]
    BY <2>2, <2>3, <2>4
  <2>9. a \in Seq(Tokens) /\ b \in Seq(Tokens)
    BY <2>2, <2>3
  <2> HIDE DEF a, b
  <2>6. a = [i \in 1..Len(a) |-> a[i]] /\ b = [i \in 1..Len(b) |-> b[i]]
    BY <2>9
  <2>7. Len(a) = k + 1 /\ Len(b) = k + 1
    BY <2>2, <2>3 DEF b
  <2>8. a = b
    BY <2>5, <2>6, <2>7
  <2> QED
    BY <2>1, <2>8 DEF a, b
<1> QED
  BY <1>1, <1>2

\* Nothing more, nothing changed.
LEMMA ConcatNothing == \A x \in Seq(Tokens) : x \o << >> = x
BY ConcatEmptySeq

Kc == <<"key", "colon">>

\* Between words the first pass waits only behind a bare key and spaces.
Waits(x, s) ==
  /\ EndsIn(x, s.word)
  /\ s.word = << >> /\ s.pending => \E k \in 1..Len(x) : EndsIn(x, Kc \o Spaces(k))

\* A token keeps the first pass waiting for a reason.
LEMMA WaitsSteps ==
  ASSUME NEW x \in Seq(Tokens), NEW t \in Tokens, NEW s \in WordStates, Waits(x, s)
  PROVE  Waits(Append(x, t), KeyValueStep(s, t))
<1> DEFINE n == KeyValueStep(s, t)
           y == Append(x, t)
<1>1. s.out \in Seq(Tokens) /\ s.word \in Seq(Tokens) /\ s.pending \in BOOLEAN
  BY DEF WordStates
<1>2. y \in Seq(Tokens) /\ Len(y) = Len(x) + 1 /\ Len(x) \in Nat
  BY AppendProperties
<1>3. CASE t \notin White
  <2>1. n = [s EXCEPT !.word = Append(s.word, t)]
    BY <1>3 DEF KeyValueStep
  <2>2. n.word = Append(s.word, t) /\ n.word # << >>
    BY <1>1, <2>1, ShortWords DEF WordStates
  <2>3. EndsIn(y, Append(s.word, t))
    BY <1>1, EndsGrow DEF Waits
  <2> HIDE DEF n, y
  <2> QED
    BY <2>2, <2>3 DEF Waits, n, y
<1>4. CASE t \in White
  <2> DEFINE e == WordEnds(s)
  <2>1. n = [e EXCEPT !.out = Append(@, t), !.pending = @ /\ t # "newline"]
    BY <1>4 DEF KeyValueStep
  <2>2. e \in WordStates /\ e.word = << >>
    BY WordEndTypes
  <2>3. e.pending => \/ s.pending /\ s.word = << >>
                     \/ ~s.pending /\ s.word = Kc
    <3>1. CASE ~s.pending
      <4>1. e.pending <=> s.word = Kc
        BY <3>1, WordIsWritten DEF Kc
      <4> QED
        BY <3>1, <4>1
    <3>2. CASE s.pending /\ s.word # << >>
      <4>1. e = [out |-> Append(s.out, "redacted"), word |-> << >>, pending |-> FALSE]
        BY <3>2 DEF WordEnds
      <4> HIDE DEF e
      <4>2. ~e.pending
        BY <4>1
      <4> QED
        BY <4>2
    <3> QED
      BY <1>1, <3>1, <3>2
  <2> HIDE DEF e
  <2>4. n.word = << >> /\ (n.pending <=> e.pending /\ t # "newline")
    BY <2>1, <2>2 DEF WordStates
  <2>5. EndsIn(y, << >>)
    BY <1>2, EndsInNothing
  <2> HIDE DEF n
  <2>6. Kc \in Seq(Tokens)
    BY SomeTokens DEF Kc
  <2>7. ASSUME NEW k \in Nat, EndsIn(x, Kc \o Spaces(k)), t = "space"
        PROVE  EndsIn(y, Kc \o Spaces(k + 1))
    <3>1. Spaces(k) \in Seq(Tokens) /\ Spaces(k + 1) = Append(Spaces(k), "space")
      BY SpacesGrow
    <3>2. Kc \o Append(Spaces(k), "space") = Append(Kc \o Spaces(k), "space")
          /\ Kc \o Spaces(k) \in Seq(Tokens)
      BY <2>6, <3>1, SomeTokens, ConcatAppend
    <3>3. EndsIn(y, Append(Kc \o Spaces(k), "space"))
      BY <2>7, <3>2, EndsGrow
    <3> QED
      BY <3>1, <3>2, <3>3
  <2>8. ASSUME n.pending PROVE \E k \in 1..Len(y) : EndsIn(y, Kc \o Spaces(k))
    <3>1. t = "space" /\ e.pending
      BY <1>4, <2>4, <2>8 DEF White
    <3>2. CASE s.pending /\ s.word = << >>
      <4>1. PICK k \in 1..Len(x) : EndsIn(x, Kc \o Spaces(k))
        BY <3>2 DEF Waits
      <4>2. k \in Nat /\ k + 1 \in 1..Len(y)
        BY <1>2
      <4>3. EndsIn(y, Kc \o Spaces(k + 1))
        BY <2>7, <3>1, <4>1, <4>2
      <4> QED
        BY <4>2, <4>3
    <3>3. CASE ~s.pending /\ s.word = Kc
      <4>1. EndsIn(x, Kc \o Spaces(0))
        <5>1. Kc \o Spaces(0) = Kc
          BY <2>6, SpacesGrow, ConcatNothing
        <5> QED
          BY <3>3, <5>1 DEF Waits
      <4>2. 0 \in Nat /\ 0 + 1 = 1 /\ 1 \in 1..Len(y)
        BY <1>2
      <4>3. EndsIn(y, Kc \o Spaces(0 + 1))
        BY <2>7, <3>1, <4>1, <4>2
      <4> QED
        BY <4>2, <4>3
    <3> QED
      BY <2>3, <3>1, <3>2, <3>3
  <2> HIDE DEF y
  <2> QED
    BY <2>4, <2>5, <2>8 DEF Waits, n, y
<1> QED
  BY <1>3, <1>4

\* At every token of every text.
LEMMA AllWait == \A x \in Seq(Tokens) : Waits(x, Words(x))
<1> DEFINE good == {y \in Seq(Tokens) : Waits(y, Words(y))}
<1>1. << >> \in good
  <2>1. Words(<< >>) = WordStart /\ << >> \in Seq(Tokens) /\ EndsIn(<< >>, << >>)
    <3>1. << >> \in Seq(Tokens)
      OBVIOUS
    <3>2. EndsIn(<< >>, << >>)
      BY <3>1, EndsInNothing
    <3> QED
      BY <3>1, <3>2, WordLaw
  <2>2. WordStart.word = << >> /\ ~WordStart.pending
    BY DEF WordStart
  <2> QED
    BY <2>1, <2>2 DEF Waits
<1>2. ASSUME NEW y \in Seq(Tokens), NEW t \in Tokens, y \in good
      PROVE  Append(y, t) \in good
  <2>1. Words(y) \in WordStates /\ Words(Append(y, t)) = KeyValueStep(Words(y), t)
    BY WordLaw
  <2>2. Waits(Append(y, t), KeyValueStep(Words(y), t))
    BY <1>2, <2>1, WaitsSteps
  <2> QED
    BY <2>1, <2>2, AppendProperties
<1> HIDE DEF good
<1>3. \A x \in Seq(Tokens) : x \in good
  BY <1>1, <1>2, TextInduction
<1> QED
  BY <1>3 DEF good

\* After white space no word has begun, after a semicolon no pair.
LEMMA AfterWhite ==
  ASSUME NEW x \in Seq(Tokens), x = << >> \/ x[Len(x)] \in White
  PROVE  Words(x).word = << >>
<1>1. CASE x = << >>
  BY <1>1, WordLaw DEF WordStart
<1>2. CASE x # << >>
  <2>1. PICK y \in Seq(Tokens), t \in Tokens : x = Append(y, t)
    BY <1>2, SequenceEmptyOrAppend
  <2>2. t \in White
    BY <1>2, <2>1, AppendProperties
  <2>3. Words(x) = KeyValueStep(Words(y), t) /\ Words(y) \in WordStates
    BY <2>1, WordLaw
  <2> DEFINE e == WordEnds(Words(y))
  <2>4. e \in WordStates /\ e.word = << >>
    BY <2>3, WordEndTypes
  <2>5. Words(x) = [e EXCEPT !.out = Append(@, t), !.pending = @ /\ t # "newline"]
    BY <2>2, <2>3 DEF KeyValueStep
  <2> HIDE DEF e
  <2> QED
    BY <2>4, <2>5 DEF WordStates
<1> QED
  BY <1>1, <1>2

\* A pair may start at the start of a word or behind a semicolon.
LEMMA PairMayStart ==
  ASSUME NEW x \in Seq(Tokens), x = << >> \/ x[Len(x)] \in White \cup {"semi"}
  PROVE  Glued(Words(x).word).mode = "key" /\ Glued(Words(x).word).piece = << >>
<1>1. CASE x = << >> \/ x[Len(x)] \in White
  <2>1. Glued(Words(x).word) = GluedStart
    BY <1>1, AfterWhite, GluedLaw
  <2> QED
    BY <2>1 DEF GluedStart
<1>2. CASE x # << >> /\ x[Len(x)] = "semi"
  <2>1. PICK y \in Seq(Tokens), t \in Tokens : x = Append(y, t)
    BY <1>2, SequenceEmptyOrAppend
  <2>2. t = "semi"
    BY <1>2, <2>1, AppendProperties
  <2>3. Words(x) = KeyValueStep(Words(y), t) /\ Words(y) \in WordStates
    BY <2>1, WordLaw
  <2>4. Words(x) = [Words(y) EXCEPT !.word = Append(@, t)]
    BY <2>2, <2>3 DEF KeyValueStep, White
  <2>5. Words(x).word = Append(Words(y).word, t) /\ Words(y).word \in Seq(Tokens)
    BY <2>3, <2>4 DEF WordStates
  <2> DEFINE g == Glued(Words(y).word)
  <2>6. Glued(Words(x).word) = GluedStep(g, t) /\ g \in GluedStates
    BY <2>5, GluedLaw
  <2> HIDE DEF g
  <2>7. GluedStep(g, t).mode = "key" /\ GluedStep(g, t).piece = << >>
    BY <2>2, <2>6 DEF GluedStep, GluedStates
  <2> QED
    BY <2>6, <2>7
<1> QED
  BY <1>1, <1>2

-----------------------------------------------------------------------------
(* Where a header may start *)

Written(s) == IF s.pending THEN s.out ELSE s.out \o Glued(s.word).out

Idle == {"start", "drop"}

\* The second pass over what the first has written of a text, at its end: what
\* it may be in the middle of is in the text itself.
HeaderOpen(x, s, m) ==
  /\ s.pending => m \in Idle
  /\ ~s.pending /\ m = "header" => EndsIn(x, <<"bearer">>)
  /\ ~s.pending /\ Glued(s.word).mode = "hide" => m \in Idle
  /\ s.word = << >> => m \in Idle /\ (m = "drop" => EndsIn(x, <<"bearer", "space">>))

\* A text ends in its last token.
LEMMA EndsInLast == \A x \in Seq(Tokens), t \in Tokens : EndsIn(Append(x, t), <<t>>)
<1> TAKE x \in Seq(Tokens), t \in Tokens
<1>1. Append(x, t) = x \o <<t>>
  BY AppendIsConcat
<1> QED
  BY <1>1 DEF EndsIn

ModeAfter(m, t) ==
  CASE m = "start" /\ t = "bearer" -> "header"
    [] m = "header" /\ t = "space" -> "drop"
    [] m = "drop" /\ t \notin White -> "drop"
    [] OTHER -> IF t \in Alphanumeric THEN "inside" ELSE "start"

\* The second pass's mode goes token by token by itself.
LEMMA BearerModes ==
  ASSUME NEW v \in Seq(Tokens), NEW t \in Tokens
  PROVE  /\ Bearers(Append(v, t)).mode = ModeAfter(Bearers(v).mode, t)
         /\ Bearers(v).mode \in {"start", "inside", "header", "drop"}
<1>1. Bearers(v) \in BearerStates /\ Bearers(Append(v, t)) = BearerStep(Bearers(v), t)
  BY BearerLaw
<1> QED
  BY <1>1 DEF BearerStates, BearerStep, ModeAfter

\* Where no header is open, what the first pass writes by itself opens none.
LEMMA IdleStays ==
  ASSUME NEW m \in Idle
  PROVE  /\ ModeAfter(m, "redacted") \in Idle /\ ModeAfter(m, "eq") \in Idle
         /\ \A t \in White : ModeAfter(m, t) = "start"
BY DEF Idle, ModeAfter, White, Alphanumeric

\* Two tokens more are one more and one more.
LEMMA TwoMore ==
  ASSUME NEW o \in Seq(Tokens), NEW u \in Tokens, NEW t \in Tokens
  PROVE  o \o <<u, t>> = Append(Append(o, u), t)
OBVIOUS

\* A token of a word opens a header only where the text has one.
LEMMA HeaderOpenGrows ==
  ASSUME NEW x \in Seq(Tokens), NEW t \in Tokens \ White, NEW s \in WordStates,
         HeaderOpen(x, s, Bearers(Written(s)).mode)
  PROVE  HeaderOpen(Append(x, t), KeyValueStep(s, t), Bearers(Written(KeyValueStep(s, t))).mode)
<1> DEFINE n == KeyValueStep(s, t)
           y == Append(x, t)
           w == Append(s.word, t)
<1>1. s.out \in Seq(Tokens) /\ s.word \in Seq(Tokens) /\ s.pending \in BOOLEAN
  BY DEF WordStates
<1>2. n = [s EXCEPT !.word = w]
  BY DEF KeyValueStep
<1>3. n.out = s.out /\ n.word = w /\ (n.pending <=> s.pending) /\ w # << >>
  BY <1>1, <1>2, ShortWords DEF WordStates
<1> HIDE DEF n
<1>4. CASE s.pending
  <2>1. Written(n) = Written(s)
    BY <1>3, <1>4 DEF Written
  <2>2. Bearers(Written(s)).mode \in Idle
    BY <1>4 DEF HeaderOpen
  <2>3. HeaderOpen(y, n, Bearers(Written(n)).mode)
    BY <1>3, <1>4, <2>1, <2>2 DEF HeaderOpen
  <2> QED
    BY <2>3 DEF n
<1>5. CASE ~s.pending
  <2> DEFINE g == Glued(s.word)
             h == GluedStep(g, t)
             v == s.out \o g.out
             m == Bearers(v).mode
             l == Bearers(Written(n)).mode
  <2>1. Glued(w) = h /\ g \in GluedStates
    BY <1>1, GluedLaw
  <2>2. g.out \in Seq(Tokens) /\ v \in Seq(Tokens)
    BY <1>1, <2>1, ConcatProperties DEF GluedStates
  <2>3. Written(s) = v /\ Written(n) = s.out \o h.out
    BY <1>3, <1>5, <2>1 DEF Written
  <2>4. (m = "header" => EndsIn(x, <<"bearer">>)) /\ (g.mode = "hide" => m \in Idle)
    BY <1>5, <2>3 DEF HeaderOpen
  <2>5. s.out \o Append(g.out, t) = Append(v, t)
    BY <1>1, <2>2, ConcatAppend
  <2>6. EndsIn(y, <<t>>)
    BY EndsInLast
  <2> HIDE DEF g
  <2> SUFFICES /\ l = "header" => EndsIn(y, <<"bearer">>)
               /\ h.mode = "hide" => l \in Idle
    <3> HIDE DEF h, l
    <3>1. HeaderOpen(y, n, l)
      BY <1>3, <1>5, <2>1 DEF HeaderOpen
    <3> QED
      BY <3>1 DEF n, l
  <2>7. CASE g.mode = "key" /\ t = "eq" /\ g.piece = <<"key">>
    <3>1. h.out = g.out \o <<"eq", "redacted">>
      BY <2>7 DEF GluedStep
    <3>2. s.out \o h.out = Append(Append(v, "eq"), "redacted")
      <4> DEFINE z == Append(g.out, "eq")
      <4>1. "eq" \in Tokens /\ "redacted" \in Tokens
        BY SomeTokens
      <4>2. z \in Seq(Tokens)
        BY <2>2, <4>1, AppendProperties
      <4>3. g.out \o <<"eq", "redacted">> = Append(z, "redacted")
        BY <2>2, <4>1, TwoMore
      <4>4. s.out \o z = Append(v, "eq")
        BY <2>5, <2>7
      <4> HIDE DEF z
      <4>5. s.out \o Append(z, "redacted") = Append(s.out \o z, "redacted")
        BY <1>1, <4>1, <4>2, ConcatAppend
      <4> QED
        BY <3>1, <4>3, <4>4, <4>5
    <3>3. Append(v, "eq") \in Seq(Tokens) /\ "eq" \in Tokens /\ "redacted" \in Tokens
      BY <2>2, SomeTokens, AppendProperties
    <3>8. Written(n) = Append(Append(v, "eq"), "redacted")
      BY <2>3, <3>2
    <3> HIDE DEF v
    <3>9. /\ Bearers(Append(Append(v, "eq"), "redacted")).mode
               = ModeAfter(Bearers(Append(v, "eq")).mode, "redacted")
          /\ Bearers(Append(v, "eq")).mode = ModeAfter(m, "eq")
      BY <2>2, <3>3, BearerModes
    <3>4. l = ModeAfter(ModeAfter(m, "eq"), "redacted")
      BY <3>8, <3>9
    <3>5. m \in {"start", "inside", "header", "drop"}
      BY <2>2, <3>3, BearerModes
    <3>6. ModeAfter(m, "eq") \in Idle
      BY <3>5 DEF ModeAfter, Idle, Alphanumeric
    <3>7. l \in Idle
      BY <3>4, <3>6, IdleStays
    <3> QED
      BY <3>7 DEF Idle
  <2>8. CASE g.mode = "hide" /\ t # "semi"
    <3>1. h = g
      BY <2>8 DEF GluedStep
    <3>2. l = m /\ l \in Idle
      BY <2>3, <2>4, <2>8, <3>1
    <3> QED
      BY <3>2 DEF Idle
  <2>9. CASE ~(g.mode = "key" /\ t = "eq" /\ g.piece = <<"key">>) /\ ~(g.mode = "hide" /\ t # "semi")
    <3>1. h.out = Append(g.out, t) /\ h.mode # "hide"
      BY <2>1, <2>9 DEF GluedStep, GluedStates
    <3>4. Written(n) = Append(v, t)
      BY <2>3, <2>5, <3>1
    <3>5. Bearers(Append(v, t)).mode = ModeAfter(m, t)
      <4> HIDE DEF v
      <4> QED
        BY <2>2, BearerModes
    <3>2. l = ModeAfter(m, t)
      <4> HIDE DEF v
      <4> QED
        BY <3>4, <3>5
    <3>3. l = "header" => t = "bearer"
      BY <3>2 DEF ModeAfter
    <3> QED
      BY <2>6, <3>1, <3>3
  <2> QED
    BY <2>7, <2>8, <2>9
<1> QED
  BY <1>1, <1>4, <1>5

\* White space opens a header only where the text has one.
LEMMA HeaderOpenEnds ==
  ASSUME NEW x \in Seq(Tokens), NEW t \in White, NEW s \in WordStates,
         HeaderOpen(x, s, Bearers(Written(s)).mode)
  PROVE  HeaderOpen(Append(x, t), KeyValueStep(s, t), Bearers(Written(KeyValueStep(s, t))).mode)
<1> DEFINE n == KeyValueStep(s, t)
           y == Append(x, t)
           e == WordEnds(s)
           m == Bearers(e.out).mode
           l == Bearers(Written(n)).mode
<1>1. s.out \in Seq(Tokens) /\ s.word \in Seq(Tokens) /\ s.pending \in BOOLEAN
  BY DEF WordStates
<1>2. n = [e EXCEPT !.out = Append(@, t), !.pending = @ /\ t # "newline"]
  BY DEF KeyValueStep
<1>3. e \in WordStates /\ e.word = << >>
  BY WordEndTypes
<1>4. m = "header" => EndsIn(x, <<"bearer">>)
  <2>1. CASE ~s.pending
    <3>1. e.out = Written(s)
      BY <2>1, WordIsWritten DEF Written
    <3> QED
      BY <2>1, <3>1 DEF HeaderOpen
  <2>2. CASE s.pending
    <3>1. Bearers(s.out).mode \in Idle
      BY <2>2 DEF HeaderOpen, Written
    <3>2. e.out \in {s.out, Append(s.out, "redacted")}
      BY <2>2 DEF WordEnds
    <3>3. Bearers(Append(s.out, "redacted")).mode \in Idle
      BY <1>1, <3>1, SomeTokens, BearerModes, IdleStays
    <3> HIDE DEF e
    <3>4. m \in Idle
      BY <3>1, <3>2, <3>3
    <3> QED
      BY <3>4 DEF Idle
  <2> QED
    BY <1>1, <2>1, <2>2
<1> HIDE DEF e
<1>5. n.out = Append(e.out, t) /\ n.word = << >> /\ e.out \in Seq(Tokens)
      /\ Append(e.out, t) \in Seq(Tokens) /\ t \in Tokens
  BY <1>2, <1>3, AppendProperties DEF WordStates, White, Tokens
<1> HIDE DEF n
<1>6. Glued(<< >>).out = << >> /\ Glued(<< >>).mode = "key"
  BY GluedLaw DEF GluedStart
<1>7. Written(n) = Append(e.out, t)
  BY <1>5, <1>6, ConcatNothing DEF Written
<1>8. l = ModeAfter(m, t) /\ m \in {"start", "inside", "header", "drop"}
  BY <1>5, <1>7, BearerModes
<1>9. l \in Idle /\ (l = "drop" => m = "header" /\ t = "space")
  BY <1>8 DEF ModeAfter, Idle, White, Alphanumeric
<1>10. EndsIn(x, <<"bearer">>) /\ t = "space" => EndsIn(y, <<"bearer", "space">>)
  <2> SUFFICES ASSUME EndsIn(x, <<"bearer">>), t = "space" PROVE EndsIn(y, <<"bearer", "space">>)
    OBVIOUS
  <2> DEFINE b == <<"bearer">>
  <2>1. b \in Seq(Tokens) /\ <<"bearer", "space">> = Append(b, t)
    BY DEF Tokens, Alphanumeric
  <2>2. EndsIn(x, b)
    OBVIOUS
  <2> HIDE DEF b
  <2>3. EndsIn(y, Append(b, t))
    BY <1>5, <2>1, <2>2, EndsGrow
  <2> QED
    BY <2>1, <2>3
<1>11. l # "header"
  BY <1>9 DEF Idle
<1> HIDE DEF l, m, y
<1>12. HeaderOpen(y, n, l)
  BY <1>4, <1>5, <1>6, <1>9, <1>10, <1>11 DEF HeaderOpen
<1> QED
  BY <1>12 DEF n, l, y

\* So it is at every token of every text.
LEMMA AllHeadersOpen == \A x \in Seq(Tokens) : HeaderOpen(x, Words(x), Bearers(Written(Words(x))).mode)
<1> DEFINE good == {y \in Seq(Tokens) : HeaderOpen(y, Words(y), Bearers(Written(Words(y))).mode)}
<1>1. << >> \in good
  <2>1. Words(<< >>) = WordStart /\ Bearers(<< >>) = BearerStart /\ Glued(<< >>) = GluedStart
        /\ << >> \in Seq(Tokens) /\ << >> \o << >> = << >>
    BY WordLaw, BearerLaw, GluedLaw
  <2>2. WordStart.word = << >> /\ ~WordStart.pending /\ WordStart.out = << >>
        /\ BearerStart.mode = "start" /\ GluedStart.out = << >> /\ GluedStart.mode = "key"
    BY DEF WordStart, BearerStart, GluedStart
  <2>3. Written(WordStart) = << >>
    BY <2>1, <2>2 DEF Written
  <2>4. HeaderOpen(<< >>, WordStart, "start")
    BY <2>1, <2>2 DEF HeaderOpen, Idle
  <2> QED
    BY <2>1, <2>2, <2>3, <2>4
<1>2. ASSUME NEW y \in Seq(Tokens), NEW t \in Tokens, y \in good
      PROVE  Append(y, t) \in good
  <2>1. Words(y) \in WordStates /\ Words(Append(y, t)) = KeyValueStep(Words(y), t)
    BY WordLaw
  <2> DEFINE s == Words(y)
             r == KeyValueStep(s, t)
  <2>2. HeaderOpen(y, s, Bearers(Written(s)).mode)
    BY <1>2
  <2> HIDE DEF s
  <2>3. HeaderOpen(Append(y, t), r, Bearers(Written(r)).mode)
    <3>1. CASE t \in White
      BY <2>1, <2>2, <3>1, HeaderOpenEnds DEF s
    <3>2. CASE t \notin White
      BY <2>1, <2>2, <3>2, HeaderOpenGrows DEF s
    <3> QED
      BY <3>1, <3>2
  <2> HIDE DEF r
  <2>4. Words(Append(y, t)) = r
    BY <2>1 DEF s, r
  <2> QED
    BY <2>3, <2>4, AppendProperties
<1> HIDE DEF good
<1>3. \A x \in Seq(Tokens) : x \in good
  BY <1>1, <1>2, TextInduction
<1> QED
  BY <1>3 DEF good

-----------------------------------------------------------------------------
(* The shapes are found *)

\* Scrubbed clean: the first pass has taken the secret.
LEMMA CleanIsScrubbed ==
  ASSUME NEW x \in Seq(Tokens), Clean(Words(x))
  PROVE  Lacks(Scrub(x), "value") /\ Lacks(Scrub(x), "jwt")
<1>1. Words(x) \in WordStates
  BY WordLaw
<1>2. RedactKeyValuePairs(x) = WordEnds(Words(x)).out
  BY DEF RedactKeyValuePairs, Words, WordStart
<1>3. Lacks(RedactKeyValuePairs(x), "value") /\ RedactKeyValuePairs(x) \in Seq(Tokens)
  BY <1>1, <1>2, CleanEnds, FirstPassReadable
<1>4. Lacks(Bearers(RedactKeyValuePairs(x)).out, "value")
  BY <1>3, SecondPassClean
<1> QED
  BY <1>4, CleanScrubs

Follower(t) == t \in White \cup {"semi"}

\* A text, and the text with what may come after it.
LEMMA CleanFollows ==
  ASSUME NEW x \in Seq(Tokens), Clean(Words(x)), NEW t \in Tokens, Follower(t)
  PROVE  Clean(Words(Append(x, t)))
<1>1. Words(x) \in WordStates /\ Words(Append(x, t)) = KeyValueStep(Words(x), t)
  BY WordLaw
<1>2. t # "value"
  BY DEF Follower, White
<1> QED
  BY <1>1, <1>2, CleanSteps

\* The value of a pair is not written.
LEMMA PairIsHidden ==
  ASSUME NEW x \in Seq(Tokens), Lacks(x, "value"),
         x = << >> \/ x[Len(x)] \in White \cup {"semi"}
  PROVE  Clean(Words(Append(Append(Append(x, "key"), "eq"), "value")))
<1> DEFINE y == Append(x, "key")
           z == Append(y, "eq")
           g == Glued(Words(x).word)
<1>1. "key" \in Tokens \ White /\ "eq" \in Tokens \ White /\ "value" \in Tokens
  BY DEF Tokens, White, Alphanumeric
<1>2. y \in Seq(Tokens) /\ z \in Seq(Tokens)
  BY <1>1, AppendProperties
<1>3. Lacks(z, "value")
  BY <1>1, <1>2, LacksAppend
<1>4. /\ Words(y) = KeyValueStep(Words(x), "key") /\ Words(z) = KeyValueStep(Words(y), "eq")
      /\ Words(Append(z, "value")) = KeyValueStep(Words(z), "value")
      /\ Words(x) \in WordStates /\ Words(y) \in WordStates /\ Words(z) \in WordStates
  <2> HIDE DEF y, z
  <2>1. Words(y) = KeyValueStep(Words(x), "key")
    BY <1>1, WordLaw DEF y
  <2>2. Words(z) = KeyValueStep(Words(y), "eq")
    BY <1>1, <1>2, WordLaw DEF z
  <2> QED
    BY <1>1, <1>2, <2>1, <2>2, WordLaw
<1>5. g.mode = "key" /\ g.piece = << >>
  BY PairMayStart
<1> HIDE DEF y, z
<1>6. Words(x).word \in Seq(Tokens) /\ Words(y).word \in Seq(Tokens)
  BY <1>4 DEF WordStates
<1>7. Words(y).word = Append(Words(x).word, "key") /\ Words(z).word = Append(Words(y).word, "eq")
  <2>1. Words(y) = [Words(x) EXCEPT !.word = Append(@, "key")]
    BY <1>1, <1>4 DEF KeyValueStep
  <2>2. Words(z) = [Words(y) EXCEPT !.word = Append(@, "eq")]
    BY <1>1, <1>4 DEF KeyValueStep
  <2> QED
    BY <1>4, <2>1, <2>2 DEF WordStates
<1>8. /\ g \in GluedStates /\ Glued(Words(y).word) = GluedStep(g, "key")
      /\ Glued(Words(z).word) = GluedStep(Glued(Words(y).word), "eq")
  BY <1>1, <1>6, <1>7, GluedLaw
<1> HIDE DEF g
<1>9. GluedStep(g, "key").mode = "key" /\ GluedStep(g, "key").piece = <<"key">>
  <2>1. GluedStep(g, "key") = [g EXCEPT !.out = Append(@, "key"), !.piece = Append(@, "key")]
    BY <1>5 DEF GluedStep
  <2>2. GluedStep(g, "key").mode = "key" /\ GluedStep(g, "key").piece = Append(g.piece, "key")
    BY <1>5, <1>8, <2>1 DEF GluedStates
  <2>3. Append(<< >>, "key") = <<"key">>
    OBVIOUS
  <2> QED
    BY <1>5, <2>2, <2>3
<1>10. Glued(Words(z).word).mode = "hide"
  <2> DEFINE h == Glued(Words(y).word)
  <2>1. h.mode = "key" /\ h.piece = <<"key">>
    BY <1>8, <1>9
  <2> HIDE DEF h
  <2>2. GluedStep(h, "eq").mode = "hide"
    BY <2>1 DEF GluedStep
  <2> QED
    BY <1>8, <2>2 DEF h
<1>11. Clean(Words(z))
  BY <1>2, <1>3, FirstPassClean
<1>12. Clean(KeyValueStep(Words(z), "value"))
  BY <1>1, <1>4, <1>10, <1>11, CleanSteps
<1> QED
  BY <1>4, <1>12 DEF y, z

\* The word after a bare key is not written.
LEMMA NextWordIsHidden ==
  ASSUME NEW x \in Seq(Tokens), Lacks(x, "value"), Words(x).word = << >>, ~Words(x).pending
  PROVE  Clean(Words(Append(Append(Append(Append(x, "key"), "colon"), "space"), "value")))
<1> DEFINE y == Append(x, "key")
           z == Append(y, "colon")
           v == Append(z, "space")
<1>1. "key" \in Tokens \ White /\ "colon" \in Tokens \ White /\ "space" \in Tokens
      /\ "space" \in White /\ "value" \in Tokens
  BY DEF Tokens, White, Alphanumeric
<1>2. y \in Seq(Tokens) /\ z \in Seq(Tokens) /\ v \in Seq(Tokens)
  BY <1>1, AppendProperties
<1>3. Lacks(v, "value")
  BY <1>1, <1>2, LacksAppend
<1> HIDE DEF y, z, v
<1>4. /\ Words(y) = KeyValueStep(Words(x), "key") /\ Words(z) = KeyValueStep(Words(y), "colon")
      /\ Words(v) = KeyValueStep(Words(z), "space")
      /\ Words(Append(v, "value")) = KeyValueStep(Words(v), "value")
      /\ Words(x) \in WordStates /\ Words(y) \in WordStates /\ Words(z) \in WordStates
      /\ Words(v) \in WordStates
  <2>1. Words(y) = KeyValueStep(Words(x), "key")
    BY <1>1, WordLaw DEF y
  <2>2. Words(z) = KeyValueStep(Words(y), "colon")
    BY <1>1, <1>2, WordLaw DEF z
  <2>3. Words(v) = KeyValueStep(Words(z), "space")
    BY <1>1, <1>2, WordLaw DEF v
  <2> QED
    BY <1>1, <1>2, <2>1, <2>2, <2>3, WordLaw
<1>5. Words(z).word = Append(Append(<< >>, "key"), "colon") /\ ~Words(z).pending
  <2>1. Words(y) = [Words(x) EXCEPT !.word = Append(@, "key")]
    BY <1>1, <1>4 DEF KeyValueStep
  <2>2. Words(z) = [Words(y) EXCEPT !.word = Append(@, "colon")]
    BY <1>1, <1>4 DEF KeyValueStep
  <2>3. Words(y).word = Append(<< >>, "key") /\ ~Words(y).pending
    BY <1>4, <2>1 DEF WordStates
  <2> QED
    BY <1>4, <2>2, <2>3 DEF WordStates
<1>6. Words(z).word = <<"key", "colon">>
  <2>1. <<"key", "colon">> = Append(Append(<< >>, "key"), "colon")
    OBVIOUS
  <2> QED
    BY <1>5, <2>1
<1> DEFINE e == WordEnds(Words(z))
<1>7. e.pending /\ e \in WordStates
  <2>1. e.pending <=> Words(z).word = <<"key", "colon">>
    BY <1>4, <1>5, WordIsWritten
  <2> QED
    BY <1>4, <1>6, <2>1, WordEndTypes
<1>8. Words(v) = [e EXCEPT !.out = Append(@, "space"), !.pending = @ /\ "space" # "newline"]
  BY <1>1, <1>4 DEF KeyValueStep
<1> HIDE DEF e
<1>9. Words(v).pending
  BY <1>7, <1>8 DEF WordStates
<1>10. Clean(Words(v))
  BY <1>2, <1>3, FirstPassClean
<1>11. Clean(KeyValueStep(Words(v), "value"))
  BY <1>1, <1>4, <1>9, <1>10, CleanSteps
<1> QED
  BY <1>4, <1>11 DEF y, z, v

\* A word of one token holds no pair.
LEMMA OneToken ==
  ASSUME NEW u \in Tokens \ {"eq", "semi", "comma"}
  PROVE  Glued(<<u>>) = [out |-> <<u>>, piece |-> <<u>>, mode |-> "key"]
<1> DEFINE g == GluedStart
           k == <<u>>
<1>1. << >> \in Seq(Tokens) /\ k = Append(<< >>, u)
  OBVIOUS
<1>2. g.out = << >> /\ g.piece = << >> /\ g.mode = "key"
      /\ g = [out |-> << >>, piece |-> << >>, mode |-> "key"]
  BY DEF GluedStart
<1> HIDE DEF g, k
<1>3. Glued(k) = GluedStep(g, u)
  BY <1>1, GluedLaw DEF g
<1>4. GluedStep(g, u) = [g EXCEPT !.out = Append(@, u), !.piece = Append(@, u)]
  BY <1>2 DEF GluedStep
<1> QED
  BY <1>1, <1>2, <1>3, <1>4 DEF k

\* The token of a header is not written, by the second pass if not by the first.
LEMMA TokenIsHidden ==
  ASSUME NEW x \in Seq(Tokens), Lacks(x, "value"), Words(x).word = << >>, ~Words(x).pending,
         ~EndsIn(x, <<"bearer", "space">>)
  PROVE  LET y == Append(Append(Append(x, "bearer"), "space"), "value")
         IN  /\ Lacks(Bearers(RedactKeyValuePairs(y)).out, "value")
             /\ \A t \in Tokens : Follower(t) =>
                  Lacks(Bearers(RedactKeyValuePairs(Append(y, t))).out, "value")
<1> DEFINE a == Append(x, "bearer")
           b == Append(a, "space")
           y == Append(b, "value")
           o == Words(x).out
           p == Append(o, "bearer")
           q == Append(p, "space")
           r == Append(q, "value")
<1>1. "bearer" \in Tokens \ White /\ "space" \in Tokens /\ "space" \in White
      /\ "value" \in Tokens \ White
      /\ {"bearer", "value"} \subseteq Tokens \ {"eq", "semi", "comma"}
  BY DEF Tokens, White, Alphanumeric
<1>2. a \in Seq(Tokens) /\ b \in Seq(Tokens) /\ y \in Seq(Tokens)
  BY <1>1, AppendProperties
<1> HIDE DEF a, b, y
<1>3. Words(x) \in WordStates /\ o \in Seq(Tokens)
  BY WordLaw DEF WordStates
<1>4. p \in Seq(Tokens) /\ q \in Seq(Tokens) /\ r \in Seq(Tokens)
  BY <1>1, <1>3, AppendProperties
<1>5. Lacks(o, "value")
  BY FirstPassClean DEF Clean
<1> HIDE DEF o, p, q, r
<1>6. Lacks(p, "value") /\ Lacks(q, "value")
  BY <1>1, <1>3, <1>4, <1>5, LacksAppend DEF p, q
<1>7. Bearers(o).mode = "start"
  <2>1. HeaderOpen(x, Words(x), Bearers(Written(Words(x))).mode)
    BY AllHeadersOpen
  <2>2. Written(Words(x)) = o
    <3>1. Glued(<< >>).out = << >>
      BY GluedLaw DEF GluedStart
    <3> QED
      BY <1>3, <3>1, ConcatNothing DEF Written, o
  <2> QED
    BY <2>1, <2>2 DEF HeaderOpen, Idle
<1>8. Bearers(q).mode = "drop" /\ Bearers(q) \in BearerStates
  <2>1. Bearers(p).mode = ModeAfter("start", "bearer")
    BY <1>1, <1>3, <1>7, BearerModes DEF p
  <2>2. Bearers(q).mode = ModeAfter(Bearers(p).mode, "space")
    BY <1>1, <1>4, BearerModes DEF q
  <2>3. ModeAfter("start", "bearer") = "header" /\ ModeAfter("header", "space") = "drop"
    BY DEF ModeAfter
  <2> QED
    BY <1>4, <2>1, <2>2, <2>3, BearerLaw
<1>9. Lacks(Bearers(q).out, "value")
  BY <1>4, <1>6, SecondPassClean
<1>10. Lacks(Bearers(r).out, "value")
  BY <1>1, <1>4, <1>8, <1>9, SecondCleanSteps, BearerLaw DEF r
<1>11. \A t \in Tokens : Follower(t) => Lacks(Bearers(Append(r, t)).out, "value")
  <2> TAKE t \in Tokens
  <2> HAVE Follower(t)
  <2>1. t # "value"
    BY DEF Follower, White
  <2>2. Bearers(r) \in BearerStates /\ Bearers(Append(r, t)) = BearerStep(Bearers(r), t)
    BY <1>4, BearerLaw
  <2> QED
    BY <1>10, <2>1, <2>2, SecondCleanSteps
\* What the first pass does with it.
<1>12. /\ Words(a) = KeyValueStep(Words(x), "bearer") /\ Words(b) = KeyValueStep(Words(a), "space")
       /\ Words(y) = KeyValueStep(Words(b), "value")
       /\ Words(a) \in WordStates /\ Words(b) \in WordStates /\ Words(y) \in WordStates
  <2>1. Words(a) = KeyValueStep(Words(x), "bearer")
    BY <1>1, WordLaw DEF a
  <2>2. Words(b) = KeyValueStep(Words(a), "space")
    BY <1>1, <1>2, WordLaw DEF b
  <2>3. Words(y) = KeyValueStep(Words(b), "value")
    BY <1>1, <1>2, WordLaw DEF y
  <2> QED
    BY <1>2, <2>1, <2>2, <2>3, WordLaw
<1>13. Words(a).word = <<"bearer">> /\ Words(a).out = o /\ ~Words(a).pending
  <2>1. Words(a) = [Words(x) EXCEPT !.word = Append(@, "bearer")]
    BY <1>1, <1>12 DEF KeyValueStep
  <2>2. Words(a).word = Append(<< >>, "bearer") /\ Words(a).out = o /\ ~Words(a).pending
    BY <1>3, <2>1 DEF WordStates, o
  <2> QED
    BY <2>2
<1>14. Words(b).word = << >> /\ Words(b).out = q /\ ~Words(b).pending
  <2> DEFINE e == WordEnds(Words(a))
  <2>1. e.out = o \o Glued(<<"bearer">>).out /\ (e.pending <=> <<"bearer">> = <<"key", "colon">>)
    BY <1>12, <1>13, WordIsWritten
  <2>2. Glued(<<"bearer">>).out = <<"bearer">>
    <3> DEFINE u == "bearer"
    <3>1. u \in Tokens \ {"eq", "semi", "comma"}
      BY <1>1
    <3> HIDE DEF u
    <3>2. Glued(<<u>>) = [out |-> <<u>>, piece |-> <<u>>, mode |-> "key"]
      BY <3>1, OneToken
    <3>3. Glued(<<u>>).out = <<u>>
      BY <3>2
    <3> QED
      BY <3>3 DEF u
  <2>3. e \in WordStates /\ e.word = << >>
    BY <1>12, WordEndTypes
  <2>4. Words(b) = [e EXCEPT !.out = Append(@, "space"), !.pending = @ /\ "space" # "newline"]
    BY <1>1, <1>12 DEF KeyValueStep
  <2> HIDE DEF e
  <2>5. e.out = p
    BY <1>1, <1>3, <2>1, <2>2, AppendIsConcat DEF p
  <2>6. <<"bearer">> # <<"key", "colon">>
    OBVIOUS
  <2>7. ~e.pending
    BY <2>1, <2>6
  <2> QED
    BY <2>3, <2>4, <2>5, <2>7 DEF WordStates, q
<1>15. Words(y).word = <<"value">> /\ Words(y).out = q /\ ~Words(y).pending
  <2>1. Words(y) = [Words(b) EXCEPT !.word = Append(@, "value")]
    BY <1>1, <1>12 DEF KeyValueStep
  <2>2. Words(y).word = Append(<< >>, "value") /\ Words(y).out = q /\ ~Words(y).pending
    BY <1>12, <1>14, <2>1 DEF WordStates
  <2> QED
    BY <2>2
<1>16. /\ WordEnds(Words(y)).out = r /\ ~WordEnds(Words(y)).pending
       /\ WordEnds(Words(y)) \in WordStates /\ WordEnds(Words(y)).word = << >>
  <2> DEFINE e == WordEnds(Words(y))
  <2>1. e.out = q \o Glued(<<"value">>).out /\ (e.pending <=> <<"value">> = <<"key", "colon">>)
    BY <1>12, <1>15, WordIsWritten
  <2>2. Glued(<<"value">>).out = <<"value">>
    <3> DEFINE u == "value"
    <3>1. u \in Tokens \ {"eq", "semi", "comma"}
      BY <1>1
    <3> HIDE DEF u
    <3>2. Glued(<<u>>) = [out |-> <<u>>, piece |-> <<u>>, mode |-> "key"]
      BY <3>1, OneToken
    <3>3. Glued(<<u>>).out = <<u>>
      BY <3>2
    <3> QED
      BY <3>3 DEF u
  <2>3. e \in WordStates /\ e.word = << >>
    BY <1>12, WordEndTypes
  <2> HIDE DEF e
  <2>4. e.out = r
    BY <1>1, <1>4, <2>1, <2>2, AppendIsConcat DEF r
  <2>5. <<"value">> # <<"key", "colon">>
    OBVIOUS
  <2>6. ~e.pending
    BY <2>1, <2>5
  <2> QED
    BY <2>3, <2>4, <2>6 DEF e
<1>17. \A z : RedactKeyValuePairs(z) = WordEnds(Words(z)).out
  BY DEF RedactKeyValuePairs, Words, WordStart
<1>18. ASSUME NEW t \in Tokens, Follower(t)
       PROVE  RedactKeyValuePairs(Append(y, t)) = Append(r, t)
  <2> DEFINE n == KeyValueStep(Words(y), t)
  <2>1. Words(Append(y, t)) = n /\ n \in WordStates
    BY <1>2, <1>12, WordLaw, WordTypes
  <2>2. CASE t \in White
    <3> DEFINE e == WordEnds(Words(y))
    <3>1. n = [e EXCEPT !.out = Append(@, t), !.pending = @ /\ t # "newline"]
      BY <2>2 DEF KeyValueStep
    <3>2. e.out = r /\ e \in WordStates /\ e.word = << >>
      BY <1>16
    <3> HIDE DEF e
    <3>3. n.out = Append(r, t) /\ n.word = << >>
      BY <3>1, <3>2 DEF WordStates
    <3> HIDE DEF n
    <3>4. WordEnds(n) = n
      <4>1. << >> # <<"key", "colon">>
        OBVIOUS
      <4> QED
        BY <3>3, <4>1 DEF WordEnds
    <3> QED
      BY <1>17, <2>1, <3>3, <3>4
  <2>3. CASE t = "semi"
    <3>1. n = [Words(y) EXCEPT !.word = Append(@, t)]
      BY <2>3 DEF KeyValueStep, White
    <3>2. n.word = Append(<<"value">>, t) /\ n.out = q /\ ~n.pending
      BY <1>12, <1>15, <3>1 DEF WordStates
    <3> HIDE DEF n
    <3>3. WordEnds(n).out = q \o Glued(Append(<<"value">>, t)).out
      BY <2>1, <3>2, WordIsWritten
    <3> DEFINE k == <<"value">>
               g == Glued(k)
    <3>4. k \in Seq(Tokens) /\ g = [out |-> k, piece |-> k, mode |-> "key"]
      BY <1>1, OneToken
    <3> HIDE DEF k
    <3>5. Glued(Append(k, t)) = GluedStep(g, t)
      BY <3>4, GluedLaw
    <3>6. g.mode = "key" /\ g.out = k
      BY <3>4
    <3> HIDE DEF g
    <3>7. GluedStep(g, t) = [g EXCEPT !.out = Append(@, t), !.piece = << >>]
      BY <2>3, <3>6 DEF GluedStep
    <3>8. GluedStep(g, t).out = Append(k, t)
      BY <3>4, <3>6, <3>7 DEF g
    <3>9. q \o Append(k, t) = Append(q \o k, t)
      BY <1>4, <3>4, ConcatAppend
    <3>10. q \o k = r
      BY <1>1, <1>4, AppendIsConcat DEF k, r
    <3>11. WordEnds(n).out = Append(r, t)
      BY <3>3, <3>5, <3>8, <3>9, <3>10 DEF k
    <3> QED
      BY <1>17, <2>1, <3>11
  <2> QED
    BY <1>18, <2>2, <2>3 DEF Follower
<1>19. RedactKeyValuePairs(y) = r
  BY <1>16, <1>17
<1> QED
  BY <1>10, <1>11, <1>18, <1>19 DEF a, b, y

\* A text without secrets lacks both kinds.
LEMMA LacksIsApart ==
  ASSUME NEW x
  PROVE  Range(x) \cap {"value", "jwt"} = {} <=> Lacks(x, "value") /\ Lacks(x, "jwt")
BY DEF Range, Lacks

\* What may come after a shape is nothing, or one token.
LEMMA AfterIs ==
  ASSUME NEW x \in Seq(Tokens), NEW after \in TextsUpTo(1),
         after = << >> \/ after[1] \in White \cup {"semi"}
  PROVE  x \o after = x \/ \E t \in Tokens : Follower(t) /\ x \o after = Append(x, t)
<1>1. CASE after = << >>
  BY <1>1, ConcatNothing
<1>2. CASE after # << >>
  <2>1. PICK k \in 0..1 : after \in [1..k -> Tokens]
    BY DEF TextsUpTo
  <2>2. CASE k = 0
    <3>1. after \in Seq(Tokens) /\ Len(after) = 0
      BY <2>1, <2>2
    <3> QED
      BY <1>2, <3>1
  <2>3. CASE k = 1
    <3>4. k \in Nat /\ after \in [1..k -> Tokens] /\ 1 \in 1..k
      BY <2>1, <2>3
    <3>5. after \in Seq(Tokens) /\ Len(after) = k /\ after[1] \in Tokens
      BY <3>4
    <3>1. after \in Seq(Tokens) /\ Len(after) = 1 /\ after[1] \in Tokens
      BY <2>3, <3>5
    <3>2. after = <<after[1]>>
      BY <3>1
    <3>3. x \o after = Append(x, after[1])
      BY <3>1, <3>2, AppendIsConcat
    <3> QED
      BY <1>2, <3>1, <3>3 DEF Follower
  <2> QED
    BY <2>1, <2>2, <2>3
<1> QED
  BY <1>1, <1>2

\* A clean text stays clean with what may come after it.
LEMMA CleanEither ==
  ASSUME NEW x \in Seq(Tokens), NEW after \in TextsUpTo(1), Clean(Words(x)),
         after = << >> \/ after[1] \in White \cup {"semi"}
  PROVE  Lacks(Scrub(x \o after), "value") /\ Lacks(Scrub(x \o after), "jwt")
<1>1. x \o after = x \/ \E t \in Tokens : Follower(t) /\ x \o after = Append(x, t)
  BY AfterIs
<1>2. CASE x \o after = x
  BY <1>2, CleanIsScrubbed
<1>3. ASSUME NEW t \in Tokens, Follower(t), x \o after = Append(x, t)
      PROVE  Lacks(Scrub(x \o after), "value") /\ Lacks(Scrub(x \o after), "jwt")
  <2>1. Append(x, t) \in Seq(Tokens)
    BY AppendProperties
  <2> DEFINE y == Append(x, t)
  <2>2. Clean(Words(y))
    BY <1>3, CleanFollows
  <2> HIDE DEF y
  <2>3. Lacks(Scrub(y), "value") /\ Lacks(Scrub(y), "jwt")
    BY <2>1, <2>2, CleanIsScrubbed DEF y
  <2> QED
    BY <1>3, <2>3 DEF y
<1> QED
  BY <1>1, <1>2, <1>3

\* Where a shape may start that takes more than one word, nothing waits.
LEMMA NothingWaits ==
  ASSUME NEW x \in Seq(Tokens), x = << >> \/ x[Len(x)] \in White,
         \A k \in 1..Len(x) : ~IsSuffix(<<"key", "colon">> \o [i \in 1..k |-> "space"], x)
  PROVE  Words(x).word = << >> /\ ~Words(x).pending
<1>1. Words(x).word = << >>
  BY AfterWhite
<1>2. Waits(x, Words(x))
  BY AllWait
<1>3. ASSUME NEW k \in 1..Len(x), EndsIn(x, Kc \o Spaces(k)) PROVE FALSE
  <2> DEFINE w == Kc \o Spaces(k)
  <2>1. w \in Seq(Tokens)
    <3>1. k \in Nat /\ Kc \in Seq(Tokens)
      BY SomeTokens DEF Kc
    <3>2. Spaces(k) \in Seq(Tokens)
      BY <3>1, SpacesGrow
    <3> QED
      BY <3>1, <3>2, ConcatProperties
  <2>2. ~IsSuffix(w, x)
    BY DEF Kc, Spaces
  <2> HIDE DEF w
  <2>3. EndsIn(x, w)
    BY <1>3 DEF w
  <2> QED
    BY <2>1, <2>2, <2>3, IsSuffixOf
<1> QED
  BY <1>1, <1>2, <1>3 DEF Waits

\* The shape of a secret is found where it may be.
LEMMA ShapesAreFound ==
  ASSUME NEW shape \in Shapes, NEW before \in Seq(Tokens), NEW after \in TextsUpTo(1),
         Findable(before, shape, after)
  PROVE  /\ Lacks(Scrub(before \o shape \o after), "value")
         /\ Lacks(Scrub(before \o shape \o after), "jwt")
<1>1. /\ Lacks(before, "value")
      /\ after = << >> \/ after[1] \in White \cup {"semi"}
      /\ \/ before = << >> \/ before[Len(before)] \in White
         \/ before[Len(before)] = "semi" /\ Range(shape) \cap White = {}
  BY LacksIsApart DEF Findable
<1>2. CASE shape = <<"key", "eq", "value">>
  <2> DEFINE x == Append(Append(Append(before, "key"), "eq"), "value")
  <2>1. before \o shape = x /\ x \in Seq(Tokens)
    <3>1. {"key", "eq", "value"} \subseteq Tokens
      BY DEF Tokens, Alphanumeric
    <3> QED
      BY <1>2, <3>1
  <2>2. Clean(Words(x))
    BY <1>1, PairIsHidden
  <2> HIDE DEF x
  <2>3. Lacks(Scrub(x \o after), "value") /\ Lacks(Scrub(x \o after), "jwt")
    BY <1>1, <2>1, <2>2, CleanEither
  <2> QED
    BY <2>1, <2>3
<1>3. ASSUME shape \in {<<"key", "colon", "space", "value">>, <<"bearer", "space", "value">>}
      PROVE  Words(before).word = << >> /\ ~Words(before).pending
  <2>1. Range(shape) \cap White # {}
    <3>1. /\ shape = <<"key", "colon", "space", "value">> => 3 \in DOMAIN shape /\ shape[3] = "space"
          /\ shape = <<"bearer", "space", "value">> => 2 \in DOMAIN shape /\ shape[2] = "space"
      OBVIOUS
    <3>2. "space" \in Range(shape)
      BY <1>3, <3>1 DEF Range
    <3> QED
      BY <3>2 DEF White
  <2>2. \A k \in 1..Len(before) :
           ~IsSuffix(<<"key", "colon">> \o [i \in 1..k |-> "space"], before)
    BY <2>1 DEF Findable
  <2>3. before = << >> \/ before[Len(before)] \in White
    BY <1>1, <2>1
  <2> QED
    BY <2>2, <2>3, NothingWaits
<1>4. CASE shape = <<"key", "colon", "space", "value">>
  <2> DEFINE x == Append(Append(Append(Append(before, "key"), "colon"), "space"), "value")
  <2>1. before \o shape = x /\ x \in Seq(Tokens)
    <3>1. {"key", "colon", "space", "value"} \subseteq Tokens
      BY DEF Tokens, Alphanumeric, White
    <3> QED
      BY <1>4, <3>1
  <2>2. Clean(Words(x))
    BY <1>1, <1>3, <1>4, NextWordIsHidden
  <2> HIDE DEF x
  <2>3. Lacks(Scrub(x \o after), "value") /\ Lacks(Scrub(x \o after), "jwt")
    BY <1>1, <2>1, <2>2, CleanEither
  <2> QED
    BY <2>1, <2>3
<1>5. CASE shape = <<"bearer", "space", "value">>
  <2> DEFINE x == Append(Append(Append(before, "bearer"), "space"), "value")
  <2>1. before \o shape = x /\ x \in Seq(Tokens)
    <3>1. {"bearer", "space", "value"} \subseteq Tokens
      BY DEF Tokens, Alphanumeric, White
    <3> QED
      BY <1>5, <3>1
  <2>2. ~EndsIn(before, <<"bearer", "space">>)
    <3> DEFINE w == <<"bearer", "space">>
    <3>1. w \in Seq(Tokens) /\ shape[1] = "bearer"
      BY <1>5 DEF Tokens, Alphanumeric, White
    <3>2. ~IsSuffix(w, before)
      BY <3>1 DEF Findable
    <3> HIDE DEF w
    <3>3. ~EndsIn(before, w)
      BY <3>1, <3>2, IsSuffixOf
    <3> QED
      BY <3>3 DEF w
  <2>3. /\ Lacks(Bearers(RedactKeyValuePairs(x)).out, "value")
        /\ \A t \in Tokens : Follower(t) =>
             Lacks(Bearers(RedactKeyValuePairs(Append(x, t))).out, "value")
    BY <1>1, <1>3, <1>5, <2>2, TokenIsHidden
  <2> HIDE DEF x
  <2>4. Lacks(Scrub(x), "value") /\ Lacks(Scrub(x), "jwt")
    BY <2>1, <2>3, CleanScrubs
  <2>5. ASSUME NEW t \in Tokens, Follower(t)
        PROVE  Lacks(Scrub(Append(x, t)), "value") /\ Lacks(Scrub(Append(x, t)), "jwt")
    <3> DEFINE y == Append(x, t)
    <3>1. y \in Seq(Tokens) /\ Lacks(Bearers(RedactKeyValuePairs(y)).out, "value")
      BY <2>1, <2>3, <2>5, AppendProperties
    <3> HIDE DEF y
    <3>2. Lacks(Scrub(y), "value") /\ Lacks(Scrub(y), "jwt")
      BY <3>1, CleanScrubs
    <3> QED
      BY <3>2 DEF y
  <2>6. x \o after = x \/ \E t \in Tokens : Follower(t) /\ x \o after = Append(x, t)
    BY <1>1, <2>1, AfterIs
  <2>7. Lacks(Scrub(x \o after), "value") /\ Lacks(Scrub(x \o after), "jwt")
    BY <2>4, <2>5, <2>6
  <2> QED
    BY <2>1, <2>7
<1>6. CASE shape = <<"jwt">>
  <2> DEFINE x == Append(before, "jwt")
  <2>1. "jwt" \in Tokens /\ x \in Seq(Tokens)
    BY AppendProperties DEF Tokens, Alphanumeric
  <2>2. before \o shape = x
    BY <1>6, <2>1, AppendIsConcat
  <2>3. Lacks(x, "value")
    BY <1>1, <2>1, LacksAppend
  <2> HIDE DEF x
  <2>4. Clean(Words(x))
    BY <2>1, <2>3, FirstPassClean
  <2>5. Lacks(Scrub(x \o after), "value") /\ Lacks(Scrub(x \o after), "jwt")
    BY <1>1, <2>1, <2>4, CleanEither
  <2> QED
    BY <2>2, <2>5
<1> QED
  BY <1>2, <1>4, <1>5, <1>6 DEF Shapes

\* So scrub hides every shape, wherever it may be found.
LEMMA AllHide == \A n \in Nat : Hides(n)
<1> TAKE n \in Nat
<1> SUFFICES ASSUME NEW shape \in Shapes, NEW before \in TextsUpTo(n), NEW after \in TextsUpTo(1),
                    Findable(before, shape, after)
             PROVE  Range(Scrub(before \o shape \o after)) \cap {"value", "jwt"} = {}
  BY DEF Hides
<1>1. before \in Seq(Tokens)
  BY TextsAreTexts
<1> QED
  BY <1>1, ShapesAreFound, LacksIsApart

-----------------------------------------------------------------------------
(* What holds of every behaviour, scrub included *)

\* scrub leaves alone what it has made and what holds neither a secret nor the
\* key of one, and hides the shapes wherever they can be found, in texts of every length
\* (scrub, redact_key_value_pairs, redact_bearer_tokens, redact_jwt_like).
THEOREM RedactionIsSound == \A n \in Nat : Settles(n) /\ LeavesAlone(n) /\ Hides(n)
BY AllSettle, AllLeaveAlone, AllHide

\* So it does on the texts that the runs try.
THEOREM RedactionAlwaysSound == StoreSpec => []ScrubSound
<1>1. ScrubSound
  BY RedactionIsSound, StoreAssumption DEF ScrubSound
<1> QED
  BY <1>1, PTL

\* The contents of nodes are texts.
LEMMA NotesAreTexts == Notes \cup {Plain} \subseteq Seq(Tokens)
<1>1. Plain \in Seq(Tokens)
  BY DEF Plain, Tokens, Alphanumeric
<1> QED
  BY <1>1, GraphAssumption

\* Scrubbing a text gives one.
LEMMA ScrubbedAreTexts == Closed(Tokens)
BY NotesAreTexts, Scrubbed DEF Closed, Tokens, Alphanumeric, White

\* Lacking the secrets is having none but the other tokens.
LEMMA LackingIsHarmless ==
  ASSUME NEW x \in Seq(Tokens)
  PROVE  Lacks(x, "value") /\ Lacks(x, "jwt") <=> x \in Seq(Harmless)
<1>1. ASSUME Lacks(x, "value"), Lacks(x, "jwt") PROVE x \in Seq(Harmless)
  <2>1. \A i \in 1..Len(x) : x[i] \in Harmless
    BY <1>1 DEF Lacks, Harmless
  <2> QED
    BY <2>1
<1>2. ASSUME x \in Seq(Harmless) PROVE Lacks(x, "value") /\ Lacks(x, "jwt")
  BY <1>2 DEF Lacks, Harmless
<1> QED
  BY <1>1, <1>2

\* The secrets of the notes are hidden, and scrub brings no new ones in.
LEMMA NotesHidden ==
  ASSUME SecretsHaveShapes
  PROVE  Closed(Harmless)
<1>1. ASSUME NEW text \in Seq(Harmless) PROVE Scrub(text) \in Seq(Harmless)
  <2>1. text \in Seq(Tokens)
    BY DEF Harmless
  <2>2. Clean(Words(text)) /\ Scrub(text) \in Seq(Tokens)
    BY <2>1, LackingIsHarmless, FirstPassClean, Scrubbed
  <2> QED
    BY <2>1, <2>2, CleanIsScrubbed, LackingIsHarmless
<1>2. ASSUME NEW text \in Notes, text \notin Seq(Harmless) PROVE Scrub(text) \in Seq(Harmless)
  <2>1. text \in Seq(Tokens) /\ Scrub(text) \in Seq(Tokens)
    BY NotesAreTexts, Scrubbed
  <2>2. PICK shape \in Shapes, before \in Seq(Tokens), after \in TextsUpTo(1) :
               Findable(before, shape, after) /\ text = before \o shape \o after
    BY <1>2 DEF SecretsHaveShapes
  <2> QED
    BY <2>1, <2>2, ShapesAreFound, LackingIsHarmless
<1>3. Plain \in Seq(Harmless) /\ Harmless \subseteq Tokens /\ {"space", "word"} \subseteq Harmless
  BY DEF Plain, Harmless, Tokens, Alphanumeric, White
<1> QED
  BY <1>1, <1>2, <1>3 DEF Closed

\* At first nothing is kept.
LEMMA NoTextsYet ==
  ASSUME NEW T
  PROVE  StoreInit => Texts(T)
BY DEF StoreInit, Init, Texts, EmptyFile, Empty, Kept, Range

\* What was written of a secret reaches neither graph nor file nor store, if it
\* had a shape that scrub can find (remember, save, node_to_experience).
THEOREM SecretsAlwaysStayOut ==
  ASSUME RetrievesAll, SecretsHaveShapes
  PROVE  StoreSpec => []SecretsStayOut
<1>1. Texts(Harmless) => SecretsStayOut
  <2>1. \A text \in Seq(Harmless) : Range(text) \cap {"value", "jwt"} = {}
    BY DEF Range, Harmless
  <2> QED
    BY <2>1 DEF Texts, SecretsStayOut, Kept, Range
<1>2. StoreInit => Texts(Harmless)
  BY NoTextsYet
<1>3. IInv /\ Texts(Harmless) /\ [StoreNext]_storeVars => Texts(Harmless)'
  BY NotesHidden, TextsStep
<1> QED
  BY <1>1, <1>2, <1>3, MemoryInvariant, PTL DEF StoreSpec

\* The last graph that was saved whole is what a load gives, whatever copies
\* other saves left in the store, interrupted ones among them, as long as the
\* store hands the newest out first: each node with the text it had if that fits
\* the store, and with what clip makes of it otherwise (PersistentStore::load,
\* node_to_experience).
THEOREM SnapshotAlwaysRestored ==
  ASSUME NewestFirst
  PROVE  StoreSpec => []SnapshotRestored
<1>1. StoreInit => Snapshot
  BY DEF StoreInit, Snapshot
<1>2. IInv /\ Texts(Tokens) /\ Snapshot /\ [StoreNext]_storeVars => Snapshot'
  BY SnapshotStep
<1>3. IInv /\ Snapshot => SnapshotRestored
  BY SnapshotIsLoaded
<1>4. RetrievesAll
  BY ReversedIsAll
<1>5. StoreInit => Texts(Tokens)
  BY NoTextsYet
<1>6. IInv /\ Texts(Tokens) /\ [StoreNext]_storeVars => Texts(Tokens)'
  BY <1>4, ScrubbedAreTexts, TextsStep
<1> QED
  BY <1>1, <1>2, <1>3, <1>4, <1>5, <1>6, MemoryInvariant, PTL DEF StoreSpec
=============================================================================
