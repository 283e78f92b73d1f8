----------------------------- MODULE GraphMemory -----------------------------
(***************************************************************************)
(* The graph memory of src/src/memory/mod.rs over several sessions: nodes  *)
(* with ids from a sequence and touches from a logical clock, `contains`   *)
(* edges from rooms to resources, and memory.graph, written on exit by one *)
(* fs::write and read, line by line and unchecked, on launch.  Visits to   *)
(* rooms come from record_room in src/src/main.rs.                         *)
(*                                                                         *)
(* A node keeps its kind, its label, its touch and, as a text of Scrub,    *)
(* its content; tags, importance and usage only rank recall.  Labels are   *)
(* what find_by_label compares, that is lower-cased; scrub leaves them     *)
(* alone, because the names of rooms and resources come scrubbed from the  *)
(* backend already (backend/az.rs:139).  Node n<i> is the number i; 0      *)
(* stands for the string "n", which no node has.                           *)
(*                                                                         *)
(* Operators named Faulty... are no part of the model, see AimdLimiter.    *)
(***************************************************************************)
EXTENDS Scrub, FiniteSets

CONSTANTS
  RoomNames,     (* resource groups                                       *)
  ObjectsIn,     (* per room, the names of its resources, in order        *)
  Labels,        (* all labels: names and cut ones                        *)
  CutsOf,        (* the labels a line may be cut to                       *)
  Note,          (* the label of intents, frictions and the like          *)
  Notes,         (* texts they may be made from                           *)
  MaxNotes,      (* bound on their number, for TLC                        *)
  MaxClock       (* bound on the clock, for TLC                           *)

ASSUME GraphAssumption ==
  /\ RoomNames \subseteq Labels /\ Note \in Labels
  /\ ObjectsIn \in [RoomNames -> Seq(Labels)]
  /\ CutsOf \in [Labels -> SUBSET Labels]
  /\ Notes \subseteq Seq(Tokens)
  /\ MaxNotes \in Nat /\ MaxClock \in Nat

VARIABLES
  nodes,      (* GraphMemory::nodes: a function on the ids in use          *)
  edges,      (* GraphMemory::edges, pairs of ids, in insertion order      *)
  clock, seq,
  file,       (* what memory.graph parses to                               *)
  running,    (* a session is open                                         *)
  room,       (* the node of the room being recorded                       *)
  at,         (* its name                                                  *)
  todo,       (* the resources of it still to record                       *)
  torn        (* some write of the file was cut short                      *)

memory == <<nodes, edges, clock, seq>>
visit  == <<room, at, todo>>
vars   == <<memory, file, running, visit, torn>>

Node(kind, label, content, touch) ==
  [kind |-> kind, label |-> label, content |-> content, touch |-> touch]
Plain == <<"word">>         \* the content of rooms and resources
Empty == [x \in {} |-> x]
EmptyFile == [nodes |-> Empty, edges |-> << >>, clock |-> 0, seq |-> 0]

Init ==
  /\ nodes = Empty /\ edges = << >> /\ clock = 0 /\ seq = 0
  /\ file = EmptyFile
  /\ running = FALSE
  /\ room = 0 /\ at = Note /\ todo = << >>
  /\ torn = FALSE

-----------------------------------------------------------------------------
(* Mutations *)

FaultyCreated(kind, label, text) ==   \* made without remember, kept as it came
  /\ seq' = seq + 1
  /\ nodes' = [i \in DOMAIN nodes \cup {seq + 1} |->
                 IF i = seq + 1 THEN Node(kind, label, text, clock + 1) ELSE nodes[i]]

\* remember: a new node, with the next id, touched at the next tick.
Created(kind, label, text) ==
  /\ seq' = seq + 1
  /\ nodes' = [i \in DOMAIN nodes \cup {seq + 1} |->
                 IF i = seq + 1 THEN Node(kind, label, Scrub(text), clock + 1) ELSE nodes[i]]

\* reinforce: the node is touched at the next tick.
Reinforced(id) ==
  /\ nodes' = [nodes EXCEPT ![id].touch = clock + 1]
  /\ UNCHANGED seq

\* find_by_label takes the first match in id order; any match will do here.
Matches(kind, label) ==
  {i \in DOMAIN nodes : nodes[i].kind = kind /\ nodes[i].label = label}

\* id is the node of that kind and label, an old one or one made now.
FoundOrCreated(kind, label, id) ==
  \/ id \in Matches(kind, label) /\ Reinforced(id)
  \/ Matches(kind, label) = {} /\ id = seq + 1 /\ Created(kind, label, Plain)

SomeNode == DOMAIN nodes \cup {seq + 1}

Linked(from, to) == \E k \in DOMAIN edges : edges[k] = <<from, to>>

Busy == todo # << >>

\* record_intent, record_friction, remember_capability: always a new node.
RecordOther(text) ==
  /\ running /\ ~Busy
  /\ clock < MaxClock
  /\ Cardinality(Matches("Other", Note)) < MaxNotes
  /\ clock' = clock + 1
  /\ Created("Other", Note, text)
  /\ UNCHANGED <<edges, file, running, visit, torn>>

\* remember_room, the start of record_room.
RememberRoom(name) ==
  /\ running /\ ~Busy
  /\ clock < MaxClock
  /\ clock' = clock + 1
  /\ \E id \in SomeNode : FoundOrCreated("Room", name, id) /\ room' = id
  /\ at' = name
  /\ todo' = ObjectsIn[name]
  /\ UNCHANGED <<edges, file, running, torn>>

FaultyRememberResource ==   \* links a resource it has just made only
  /\ running /\ Busy
  /\ clock + 2 <= MaxClock
  /\ \E id \in SomeNode :
       /\ FoundOrCreated("Resource", Head(todo), id)
       /\ IF id \in DOMAIN nodes
          THEN clock' = clock + 1 /\ UNCHANGED edges
          ELSE clock' = clock + 2 /\ edges' = Append(edges, <<room, id>>)
  /\ todo' = Tail(todo)
  /\ UNCHANGED <<file, running, room, at, torn>>

\* remember_resource: the node is found by its name, whatever room it is in,
\* and the link is added if it is not there.  add_edge moves the clock on, and
\* touches no node.
RememberResource ==
  /\ running /\ Busy
  /\ clock + 2 <= MaxClock
  /\ \E id \in SomeNode :
       /\ FoundOrCreated("Resource", Head(todo), id)
       /\ IF Linked(room, id)
          THEN clock' = clock + 1 /\ UNCHANGED edges
          ELSE clock' = clock + 2 /\ edges' = Append(edges, <<room, id>>)
  /\ todo' = Tail(todo)
  /\ UNCHANGED <<file, running, room, at, torn>>

-----------------------------------------------------------------------------
(* The file *)

\* sanitize: a field stays on one line.
Sanitized(text) == [k \in DOMAIN text |-> IF text[k] = "newline" THEN "space" ELSE text[k]]

Saved ==
  [nodes |-> [i \in DOMAIN nodes |-> [nodes[i] EXCEPT !.content = Sanitized(@)]],
   edges |-> edges, clock |-> clock, seq |-> seq]

\* The M line comes first.  Cut in the clock it is skipped; cut in the
\* sequence it holds fewer digits, or none, that is a smaller number.
TornInHeader ==
  {EmptyFile} \cup {[EmptyFile EXCEPT !.clock = clock, !.seq = s] : s \in 0..seq}

\* Of the nodes these are there, and the last one has what is left of it.
NodesCut(ids, last, l, c) ==
  [nodes |-> [i \in ids |-> IF i = last THEN [Saved.nodes[i] EXCEPT !.label = l, !.content = c]
                            ELSE Saved.nodes[i]],
   edges |-> << >>, clock |-> clock, seq |-> seq]

\* The header is whole.  The N lines are in the order of the id strings (n1,
\* n10, n2), here any order; the last one may be cut inside its label or, here
\* between two tokens, inside its content.
TornInNodes ==
  {NodesCut(ids, last, l, c) :
     ids \in SUBSET DOMAIN nodes, last \in DOMAIN nodes, l \in Labels,
     c \in UNION {Prefixes(Saved.nodes[i].content) : i \in DOMAIN nodes}}

CutNodes(f) ==
  \A i \in DOMAIN f.nodes :
    \/ f.nodes[i].label = nodes[i].label /\ IsPrefix(f.nodes[i].content, Saved.nodes[i].content)
    \/ f.nodes[i].label \in CutsOf[nodes[i].label] /\ f.nodes[i].content = << >>

\* Header and nodes are whole; the last E line may be cut in its target, n12 to
\* n1 or to n.
TornInEdges ==
  {[Saved EXCEPT !.edges = SubSeq(edges, 1, n)] : n \in 0..Len(edges)}
  \cup
  {[Saved EXCEPT !.edges = Append(SubSeq(edges, 1, n), <<edges[n + 1][1], to>>)] :
     n \in 0..(Len(edges) - 1), to \in 0..seq}

CutEdges(f) ==
  Len(f.edges) > 0 =>
    LET n == Len(f.edges) IN f.edges[n][2] <= edges[n][2]

TornFiles ==
  TornInHeader \cup {f \in TornInNodes : CutNodes(f)} \cup {f \in TornInEdges : CutEdges(f)}

Gone ==
  /\ nodes' = Empty /\ edges' = << >> /\ clock' = 0 /\ seq' = 0
  /\ running' = FALSE
  /\ room' = 0 /\ at' = Note /\ todo' = << >>

FaultyLaunch ==             \* counts the nodes to restore the sequence
  /\ ~running
  /\ running' = TRUE
  /\ nodes' = file.nodes /\ edges' = file.edges
  /\ clock' = file.clock /\ seq' = Cardinality(DOMAIN file.nodes)
  /\ UNCHANGED <<file, visit, torn>>

\* load: each line is taken as it is.
Launch ==
  /\ ~running
  /\ running' = TRUE
  /\ nodes' = file.nodes /\ edges' = file.edges
  /\ clock' = file.clock /\ seq' = file.seq
  /\ UNCHANGED <<file, visit, torn>>

FaultyExit ==               \* saves the clock of the launch
  /\ running /\ ~Busy
  /\ file' = [Saved EXCEPT !.clock = file.clock]
  /\ Gone
  /\ UNCHANGED torn

\* save, at the end of the main loop.
Exit ==
  /\ running /\ ~Busy
  /\ file' = Saved
  /\ Gone
  /\ UNCHANGED torn

\* The write fails, or the process dies in it.
ExitTorn ==
  /\ running /\ ~Busy
  /\ file' \in TornFiles
  /\ torn' = TRUE
  /\ Gone

\* Killed before the end: the session's memory is lost, the file is whole.
Kill ==
  /\ running
  /\ UNCHANGED <<file, torn>>
  /\ Gone

-----------------------------------------------------------------------------

Next ==
  \/ Launch \/ Exit \/ ExitTorn \/ Kill
  \/ RememberResource
  \/ \E text \in Notes : RecordOther(text)
  \/ \E name \in RoomNames : RememberRoom(name)

Spec == Init /\ [][Next]_vars

-----------------------------------------------------------------------------
(* Properties *)

\* The next id is new: no node is ever overwritten by another one.
FreshIds == \A i \in DOMAIN nodes : i \in 1..seq

\* No node was touched after now, so the recency of recall_ranked is a fraction
\* of one (memory/mod.rs:312), and no two nodes were touched at the same tick,
\* so that recency orders any two of them.
RecencyOrders ==
  \A i, j \in DOMAIN nodes :
    /\ nodes[i].touch <= clock
    /\ i # j => nodes[i].touch # nodes[j].touch

\* Sequence and clock are ahead of all nodes, however the file was cut that
\* they came from (memory/mod.rs:488-524), over any number of sessions.
CountersSound == FreshIds /\ RecencyOrders

\* Every edge joins two nodes, unless a file was cut: add_edge checks it, load
\* does not.
EdgesConnected ==
  ~torn => \A k \in DOMAIN edges : edges[k][1] \in DOMAIN nodes /\ edges[k][2] \in DOMAIN nodes

\* A room is linked to a resource once, however often both are seen again, in
\* this session and in later ones, unless a file was cut.
OneLinkPerPair ==
  ~torn => \A k, l \in DOMAIN edges : edges[k] = edges[l] => k = l

\* Whole rooms are recorded: once its resources have been gone through, the
\* node of a room is linked to a node for each of them, those included that
\* were known before, from this session, an earlier one or another room.
RoomsLinked ==
  running /\ ~Busy /\ room # 0 =>
    \A k \in DOMAIN ObjectsIn[at] :
      \E id \in Matches("Resource", ObjectsIn[at][k]) : Linked(room, id)

\* A room seen again is touched, not duplicated, in this session and in later
\* ones, unless a file was cut (a cut label may be the name of another room).
RoomIdempotent ==
  ~torn => \A name \in RoomNames : Cardinality(Matches("Room", name)) <= 1

\* The graph says of rooms and resources what was seen of them, over any number
\* of sessions and visits.
GraphSound == EdgesConnected /\ OneLinkPerPair /\ RoomsLinked /\ RoomIdempotent
=============================================================================
