-------------------------------- MODULE Atlas --------------------------------
(***************************************************************************)
(* Two snapshots of an estate that goes on changing, and their comparison: *)
(* `azork crawl --snapshot` twice and `azork crawl --diff`, run_crawl and  *)
(* run_crawl_diff of src/src/main.rs.  A crawl lists the groups, then each *)
(* group's resources at a later moment, lays the rooms out on the grid     *)
(* (resolve_room_collisions of src/src/dungeon/map.rs) and is written;     *)
(* diff_maps of src/src/dungeon/diff.rs compares what was written.  How    *)
(* the workers share the listing is DungeonCrawl's subject; here each      *)
(* group is listed once, in the order az gave them, that may be any.       *)
(*                                                                         *)
(* Groups are numbered in the order of their ids.  An ARM id names the     *)
(* group its resource is in, so a resource has one group for ever; kind    *)
(* and region, which are compared together, are one look.  The hash of a   *)
(* group's name and region is any value of its wing.                       *)
(*                                                                         *)
(* Operators named Faulty... are no part of the model, see AimdLimiter.    *)
(***************************************************************************)
EXTENDS Integers, Sequences, FiniteSets, SequencesExt, FiniteSetsExt, Functions

CONSTANTS
  Groups, Regions,
  Resources, GroupOf,  (* the resources, each with the group its id names    *)
  Looks,
  StartGroups, StartResources,  (* the estate at first                        *)
  Bias,                (* region_bias: per region, the place of its wing     *)
  WingSize,            (* WING_SIZE                                          *)
  Reach,               (* how far nearest_free_cell searches, 63 in the code *)
  Fines,               (* the scatters over a wing that are tried            *)
  MaxChanges           (* bound on the changes of the estate, for TLC        *)

Wing == 0..(WingSize - 1)

ASSUME AtlasAssumption ==
  /\ Groups \subseteq Nat /\ IsFiniteSet(Groups)
  /\ GroupOf \in [Resources -> Groups]
  /\ StartGroups \in [Groups -> Regions] /\ StartResources \in [Resources -> Looks]
  /\ Bias \in [Regions -> Nat \X Nat]
  /\ WingSize \in Nat \ {0} /\ Reach \in Nat /\ MaxChanges \in Nat
  /\ Fines \subseteq [Groups \X Regions -> Wing \X Wing]
  \* As many cells in reach of a corner as there are groups.
  /\ Cardinality(Groups) <= (Reach + 1) * (Reach + 1)

VARIABLES
  groups, resources,  (* the estate: regions of its groups, looks of its resources *)
  changes,
  fine,               (* the hash, fixed                                    *)
  order,              (* the groups as the running crawl got them, or << >>  *)
  region,             (* their regions                                      *)
  found,              (* per group listed so far, the resources found in it  *)
  crawling,
  maps,               (* the snapshots written                              *)
  \* What somebody watching the estate would know:
  asOf,               (* the estate as each crawl began                     *)
  disturbed,          (* the groups and resources that changed during a crawl *)
  unlisted            (* the groups a crawl could not list                  *)

estate == <<groups, resources, changes>>
crawl  == <<order, region, found, crawling>>
seen   == <<asOf, disturbed, unlisted>>
vars   == <<estate, fine, crawl, maps, seen>>

None == [x \in {} |-> 0]

Init ==
  /\ groups = StartGroups /\ resources = StartResources /\ changes = 0
  /\ fine \in Fines
  /\ order = << >> /\ region = None /\ found = None /\ crawling = FALSE
  /\ maps = << >>
  /\ asOf = << >> /\ disturbed = {} /\ unlisted = {}

-----------------------------------------------------------------------------
(* The estate, changed by others as long as somebody looks *)

Change(things) ==
  /\ changes < MaxChanges /\ Len(maps) < 2
  /\ changes' = changes + 1
  /\ disturbed' = IF crawling THEN disturbed \cup things ELSE disturbed
  /\ UNCHANGED <<fine, crawl, maps, asOf, unlisted>>

CreateGroup(g, r) ==
  /\ g \notin DOMAIN groups
  /\ Change({<<"group", g>>})
  /\ groups' = [h \in DOMAIN groups \cup {g} |-> IF h = g THEN r ELSE groups[h]]
  /\ UNCHANGED resources

Within(g) == {x \in DOMAIN resources : GroupOf[x] = g}

DeleteGroup(g) ==
  /\ g \in DOMAIN groups
  /\ Change({<<"group", g>>} \cup {<<"resource", x>> : x \in Within(g)})
  /\ groups' = Restrict(groups, DOMAIN groups \ {g})
  /\ resources' = Restrict(resources, DOMAIN resources \ Within(g))

Deploy(x, look) ==
  /\ x \notin DOMAIN resources /\ GroupOf[x] \in DOMAIN groups
  /\ Change({<<"resource", x>>})
  /\ resources' = [y \in DOMAIN resources \cup {x} |-> IF y = x THEN look ELSE resources[y]]
  /\ UNCHANGED groups

RemoveResource(x) ==
  /\ x \in DOMAIN resources
  /\ Change({<<"resource", x>>})
  /\ resources' = Restrict(resources, DOMAIN resources \ {x})
  /\ UNCHANGED groups

-----------------------------------------------------------------------------
(* Layout *)

\* deterministic_position: the wing of the region, and the hash within it.
Home(g, r) ==
  <<Bias[r][1] * WingSize + fine[<<g, r>>][1], Bias[r][2] * WingSize + fine[<<g, r>>][2]>>

\* The ring at distance d, clockwise from its upper left corner.
RingOffsets(d) ==
     [i \in 1..(2 * d + 1) |-> <<i - 1 - d, -d>>]
  \o [i \in 1..(2 * d)     |-> <<d, i - d>>]
  \o [i \in 1..(2 * d)     |-> <<d - i, d>>]
  \o [i \in 1..(2 * d - 1) |-> <<-d, d - i>>]

\* The first free cell, clockwise, of the nearest ring that has one.
NearestFreeCell(origin, occupied) ==
  LET at(d, i) == <<origin[1] + RingOffsets(d)[i][1], origin[2] + RingOffsets(d)[i][2]>>
      free(d)  == {i \in DOMAIN RingOffsets(d) :
                     /\ at(d, i)[1] >= 0 /\ at(d, i)[2] >= 0
                     /\ at(d, i) \notin occupied}
      rings    == {d \in 1..Reach : free(d) # {}}
  IN  IF rings = {} THEN origin ELSE at(Min(rings), Min(free(Min(rings))))

FaultyPlace(home, occupied) ==   \* looks to the right for want of a search
  IF home \in occupied THEN <<home[1] + 1, home[2]>> ELSE home

\* resolve_room_collisions: a room is at home, or in the nearest cell left.
Place(home, occupied) == IF home \in occupied THEN NearestFreeCell(home, occupied) ELSE home

FaultyEarlier(g) ==         \* as az listed them
  {order[i] : i \in {j \in DOMAIN order : \E k \in DOMAIN order : k > j /\ order[k] = g}}

\* Rooms are placed in the order of their ids: those before g.
Earlier(g) == {h \in Range(order) : h < g}

Layout ==
  LET cell[g \in Range(order)] == Place(Home(g, region[g]), {cell[h] : h \in Earlier(g)})
  IN  cell

-----------------------------------------------------------------------------
(* Crawl *)

ListGroups ==
  /\ ~crawling /\ Len(maps) < 2
  /\ crawling' = TRUE
  /\ order' \in SetToSeqs(DOMAIN groups)
  /\ region' = groups /\ found' = None
  /\ asOf' = Append(asOf, [groups |-> groups, resources |-> resources])
  /\ UNCHANGED <<estate, fine, maps, disturbed, unlisted>>

Found(g, xs) == found' = [h \in DOMAIN found \cup {g} |-> IF h = g THEN xs ELSE found[h]]

IsNext(g) == crawling /\ Cardinality(DOMAIN found) < Len(order)
                      /\ g = order[Cardinality(DOMAIN found) + 1]

ListResources(g) ==
  /\ IsNext(g)
  /\ g \in DOMAIN groups
  /\ Found(g, Restrict(resources, Within(g)))
  /\ UNCHANGED <<estate, fine, order, region, crawling, maps, seen>>

\* The call fails, as it must when the group is gone: an empty room.
ListFails(g) ==
  /\ IsNext(g)
  /\ Found(g, None)
  /\ unlisted' = unlisted \cup {g}
  /\ UNCHANGED <<estate, fine, order, region, crawling, maps, asOf, disturbed>>

\* The map, and its snapshot: no crawl of the program's is ever cancelled, so
\* none is partial.
WriteSnapshot ==
  /\ crawling /\ DOMAIN found = Range(order)
  /\ crawling' = FALSE
  /\ maps' = Append(maps,
       [i \in DOMAIN order |->
          [id |-> order[i], region |-> region[order[i]],
           cell |-> Layout[order[i]], resources |-> found[order[i]]]])
  /\ order' = << >> /\ region' = None /\ found' = None
  /\ UNCHANGED <<estate, fine, seen>>

-----------------------------------------------------------------------------
(* Diff *)

Rooms(map) == {room.id : room \in Range(map)}

FaultyFlatten(map) ==       \* a resource looks different in another cell
  [x \in UNION {DOMAIN room.resources : room \in Range(map)} |->
     LET room == CHOOSE s \in Range(map) : x \in DOMAIN s.resources
     IN  <<room.resources[x], room.cell>>]

\* flatten_resources.
Flatten(map) ==
  [x \in UNION {DOMAIN room.resources : room \in Range(map)} |->
     (CHOOSE room \in Range(map) : x \in DOMAIN room.resources).resources[x]]

DiffMaps(old, new) ==
  LET from == Flatten(old)
      to   == Flatten(new)
  IN  [rooms_added       |-> Rooms(new) \ Rooms(old),
       rooms_removed     |-> Rooms(old) \ Rooms(new),
       resources_added   |-> DOMAIN to \ DOMAIN from,
       resources_removed |-> DOMAIN from \ DOMAIN to,
       resources_changed |-> {x \in DOMAIN from \cap DOMAIN to : from[x] # to[x]}]

-----------------------------------------------------------------------------

Next ==
  \/ \E g \in Groups : DeleteGroup(g) \/ ListResources(g) \/ ListFails(g)
  \/ \E g \in Groups, r \in Regions : CreateGroup(g, r)
  \/ \E x \in Resources : RemoveResource(x) \/ \E look \in Looks : Deploy(x, look)
  \/ ListGroups \/ WriteSnapshot

Spec == Init /\ [][Next]_vars

-----------------------------------------------------------------------------
(* Properties *)

\* "Never influenced by enumeration order" (map.rs:472-473): a room moves from
\* one map to the next only if a room before it came, went or changed region.
Before(map, id) == {<<room.id, room.region>> : room \in {s \in Range(map) : s.id <= id}}

LayoutStable ==
  \A j, k \in DOMAIN maps : \A old \in Range(maps[j]), new \in Range(maps[k]) :
    old.id = new.id /\ Before(maps[j], old.id) = Before(maps[k], new.id) => old.cell = new.cell

\* The report is about the estate: of a group or a resource that did not change
\* while a crawl was under way, and could be listed, it says what became of it
\* between the crawls, and nothing else.
ReportTrue ==
  Len(maps) = 2 =>
    LET diff == DiffMaps(maps[1], maps[2])
        then == asOf[1]
        now  == asOf[2]
        StillGroup(g) == <<"group", g>> \notin disturbed
        Still(x) == /\ <<"resource", x>> \notin disturbed
                    /\ StillGroup(GroupOf[x]) /\ GroupOf[x] \notin unlisted
    IN  /\ \A g \in {h \in Groups : StillGroup(h)} :
             /\ g \in diff.rooms_added   <=> g \in DOMAIN now.groups \ DOMAIN then.groups
             /\ g \in diff.rooms_removed <=> g \in DOMAIN then.groups \ DOMAIN now.groups
        /\ \A x \in {y \in Resources : Still(y)} :
             /\ x \in diff.resources_added <=> x \in DOMAIN now.resources \ DOMAIN then.resources
             /\ x \in diff.resources_removed <=> x \in DOMAIN then.resources \ DOMAIN now.resources
             /\ x \in diff.resources_changed <=>
                  /\ x \in DOMAIN then.resources \cap DOMAIN now.resources
                  /\ then.resources[x] # now.resources[x]
=============================================================================
