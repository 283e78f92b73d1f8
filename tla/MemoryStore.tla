----------------------------- MODULE MemoryStore -----------------------------
(***************************************************************************)
(* The graph of GraphMemory kept in an external store of experiences       *)
(* instead of a file: PersistentStore of src/memory-store/src/lib.rs, one  *)
(* experience per node and save, none ever removed, and a load that picks  *)
(* one of the copies of each node.  A program uses the file or the store,  *)
(* not both: `backend` is chosen once.                                     *)
(*                                                                         *)
(* The store belongs to others, too (Foreign).  save may fail after any    *)
(* number of nodes; it may be called between two recordings of a room, and *)
(* more than once in a session, which ends without it (Kill).  In which    *)
(* order the store hands its records out is up to the library it wraps.    *)
(*                                                                         *)
(* Operators named Faulty... are no part of the model, see AimdLimiter.    *)
(***************************************************************************)
EXTENDS GraphMemory

CONSTANTS
  Retrieved(_),  (* retrieve_experiences: the records, in the library's order   *)
  MaxText,       (* how long a text can be in the store, 1000 characters        *)
  MaxSaves,      (* bound on the calls of save, for TLC                         *)
  ProbeLength,   (* of the texts that ScrubSound tries                          *)
  None

ASSUME StoreAssumption ==
  /\ MaxText \in Nat \ {0}
  /\ MaxSaves \in Nat /\ ProbeLength \in Nat
  /\ MaxClock < 10         \* ids of one digit: the order of the strings is theirs

VARIABLES
  backend,
  store,       (* the records, in the order they were written              *)
  saves,
  saved        (* the graph of the last save, None if that did not succeed *)

storage   == <<backend, store, saves, saved>>
storeVars == <<vars, storage>>

Foreign == [id |-> 0, touch |-> 0]     \* a record without azork_id

StoreInit ==
  /\ Init
  /\ backend \in {"file", "store"}
  /\ store = <<Foreign>> /\ saves = 0
  /\ saved = None

-----------------------------------------------------------------------------
(* save *)

\* The edges that leave a node, at their places in the graph.
EdgesFrom(id) == Restrict(edges, {k \in DOMAIN edges : edges[k][1] = id})

Trimmed(text) ==
  LET ink == {i \in DOMAIN text : text[i] \notin White}
  IN  IF ink = {} THEN << >> ELSE SubSeq(text, Min(ink), Max(ink))

\* clip: a text is trimmed, replaced if nothing is left, and cut, here between two
\* tokens of it.
Clip(text, fallback) ==
  LET kept == IF Trimmed(text) = << >> THEN fallback ELSE Trimmed(text)
  IN  SubSeq(kept, 1, Min({MaxText, Len(kept)}))

\* What the store holds of a node.  Its label stands in for an empty text, and is
\* Plain like the text of a room.  Labels themselves, which are names of Azure
\* and keys of commands, have no white space around them and stay below the 500
\* characters they are cut to.
Held(node) == [node EXCEPT !.content = Clip(Scrub(@), Plain)]

\* node_to_experience.
Experience(id) ==
  [id |-> id, node |-> Held(nodes[id]), touch |-> nodes[id].touch, edges |-> EdgesFrom(id)]

\* The nodes go one by one, in the order of their ids; the first failure ends
\* it.  A save writes an id once, so that the order does not matter otherwise.
SaveStore ==
  /\ running /\ saves < MaxSaves
  /\ \E last \in DOMAIN nodes \cup {0} :
       LET written == {id \in DOMAIN nodes : id <= last}
           ids == SetToSeq(written)
       IN  /\ store' = store \o [k \in DOMAIN ids |-> Experience(ids[k])]
           /\ saved' = IF written = DOMAIN nodes
                       THEN [nodes |-> nodes, edges |-> Range(edges)] ELSE None
  /\ saves' = saves + 1
  /\ UNCHANGED <<vars, backend>>

-----------------------------------------------------------------------------
(* load *)

Records == Retrieved(store)

\* experience_to_node skips what azork did not write.
Ours == {k \in DOMAIN Records : Records[k] # Foreign}

StoredIds == {Records[k].id : k \in Ours}

Copies(id) == {k \in Ours : Records[k].id = id}

FaultyBest(id) ==           \* a copy of the same age replaces the one found first
  Records[CHOOSE k \in Copies(id) : \A j \in Copies(id) :
            \/ Records[j].touch < Records[k].touch
            \/ Records[j].touch = Records[k].touch /\ j <= k]

\* The first of the freshest copies.
Best(id) ==
  Records[CHOOSE k \in Copies(id) : \A j \in Copies(id) :
            \/ Records[j].touch < Records[k].touch
            \/ Records[j].touch = Records[k].touch /\ j >= k]

\* add_edge refuses an edge whose target is not there.  Sources come in the
\* order of a hash table; nothing depends on it.
LoadedEdges ==
  LET edge(p) == Best(p[1]).edges[p[2]]
      places == UNION {{id} \X DOMAIN Best(id).edges : id \in StoredIds}
      order == SetToSeq({p \in places : edge(p)[2] \in StoredIds})
  IN  [i \in DOMAIN order |-> edge(order[i])]

\* insert_node moves clock and sequence up to the node's, add_edge the clock by
\* one.  An empty store is an empty graph.
LoadStore ==
  /\ ~running
  /\ running' = TRUE
  /\ nodes' = [id \in StoredIds |-> Best(id).node]
  /\ edges' = LoadedEdges
  /\ clock' = Max({nodes'[id].touch : id \in StoredIds} \cup {0}) + Len(edges')
  /\ seq' = Max(StoredIds \cup {0})
  /\ UNCHANGED <<file, visit, torn, storage>>

-----------------------------------------------------------------------------

StoreNext ==
  \/ backend = "file" /\ Next /\ UNCHANGED storage
  \/ /\ backend = "store"
     /\ \/ LoadStore \/ SaveStore
        \/ /\ RememberResource \/ Kill
           /\ UNCHANGED storage
        \/ \E name \in RoomNames : RememberRoom(name) /\ UNCHANGED storage
        \/ \E text \in Notes : RecordOther(text) /\ UNCHANGED storage

StoreSpec == StoreInit /\ [][StoreNext]_storeVars

-----------------------------------------------------------------------------
(* Properties *)

\* A text that has been scrubbed, with no white space around it, that is neither
\* empty nor too long.
Fits(text) ==
  /\ text # << >> /\ text[1] \notin White /\ Last(text) \notin White
  /\ Len(text) <= MaxText
  /\ Scrub(text) = text

\* The last graph that was saved whole is what a load gives, node for node and
\* edge for edge, whatever copies of its nodes earlier sessions, interrupted
\* saves among them, left in the store (PersistentStore::load); a text that fits
\* the store is the same, any other what clip makes of it.
SnapshotRestored ==
  saved # None =>
    /\ StoredIds = DOMAIN saved.nodes
    /\ \A id \in StoredIds :
         /\ Best(id).node = Held(saved.nodes[id])
         /\ Fits(saved.nodes[id].content) => Best(id).node = saved.nodes[id]
    /\ Range(LoadedEdges) = saved.edges

\* What was written of a secret reaches neither the graph nor the file nor the
\* store, by whatever way it went (secrets.rs, remember and node_to_experience).
SecretsStayOut ==
  LET clean(node) == Range(node.content) \cap {"value", "jwt"} = {}
  IN  /\ \A i \in DOMAIN nodes : clean(nodes[i])
      /\ \A i \in DOMAIN file.nodes : clean(file.nodes[i])
      /\ \A k \in DOMAIN store : store[k] # Foreign => clean(store[k].node)

\* scrub on every text of so many tokens, looked at in the initial states:
\* it settles, leaves harmless text alone and hides the shapes it looks for.
ScrubSound ==
  ~running /\ clock = 0 /\ file = EmptyFile /\ saves = 0 =>
    Settles(ProbeLength) /\ LeavesAlone(ProbeLength) /\ Hides(ProbeLength)
=============================================================================
