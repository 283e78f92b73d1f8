-------------------------------- MODULE Estate --------------------------------
(***************************************************************************)
(* Where the game's world comes from: the backends of src/src/backend/.    *)
(* mod.rs selects one by its identifier, mock.rs has the hand-authored     *)
(* estate, mock_gen.rs generates one of any size, az.rs asks az for the    *)
(* subscription, of which it maps a bounded part; World::new of world.rs   *)
(* then accepts the rooms or refuses them.                                 *)
(*                                                                         *)
(* Left out are descriptions, regions, kinds and the subscription's name.  *)
(* A seed is what the dice give for each resource (`draw`); parsing of the *)
(* sizing knobs only chooses among sizes.                                  *)
(*                                                                         *)
(* Operators named Faulty... are no part of the model, see AimdLimiter.    *)
(***************************************************************************)
EXTENDS Integers, Sequences, SequencesExt, FiniteSetsExt

CONSTANTS
  MaxRooms, MaxResourceRooms,   (* AZORK_MAX_ROOMS, AZORK_MAX_RESOURCE_ROOMS       *)
  DarkPeriod,                   (* every 11th generated room is dark               *)
  CostUnit,                     (* costs are counted in units of this many dollars *)
  Unset, Invalid,               (* no size asked for, and one that does not parse  *)
  Unavailable,                  (* a call of az that failed                        *)
  None

ASSUME EstateAssumption ==
  /\ MaxRooms \in Nat \ {0} /\ MaxResourceRooms \in Nat \ {0}       \* env_cap
  /\ DarkPeriod \in Nat \ {0} /\ CostUnit \in Nat \ {0}

-----------------------------------------------------------------------------
(* Rooms and resources as the backends make them *)

Cost(dollars) == dollars \div CostUnit

\* Resource::new, and what a backend changes of it.
Plain(name) ==
  [name |-> name, locked |-> FALSE, public |-> FALSE, encrypted |-> TRUE, monthly_cost |-> 0]

\* Room::new with its exits: for the directions that lead somewhere, where to.
NewRoom(name, monitored, exits, objects) ==
  [name |-> name, monitored |-> monitored, exits |-> exits, resources |-> objects]

-----------------------------------------------------------------------------
(* The hand-authored estate *)

FixedRooms ==
  <<NewRoom("landing-rg", TRUE,
            [north |-> "web-rg", east |-> "data-rg", down |-> "identity-rg"],
            <<Plain("portal")>>),
    NewRoom("web-rg", TRUE, [south |-> "landing-rg", north |-> "unmon-rg"],
            <<[Plain("appservice") EXCEPT !.public = TRUE, !.monthly_cost = Cost(120)],
              [Plain("webstore") EXCEPT !.public = TRUE, !.encrypted = FALSE,
                                        !.monthly_cost = Cost(60)]>>),
    NewRoom("data-rg", TRUE, [west |-> "landing-rg"],
            <<[Plain("sqlserver") EXCEPT !.monthly_cost = Cost(800)], Plain("keyvault")>>),
    NewRoom("identity-rg", TRUE, [up |-> "landing-rg"], <<Plain("managed-identity")>>),
    NewRoom("unmon-rg", FALSE, [south |-> "web-rg"],
            <<[Plain("orphan-vm") EXCEPT !.public = TRUE, !.encrypted = FALSE,
                                         !.monthly_cost = Cost(300)]>>)>>

-----------------------------------------------------------------------------
(* Generated estates *)

\* As near to a square as may be.
GridWidth(n) == CHOOSE w \in 1..n : w * w >= n /\ (w - 1) * (w - 1) < n

\* The words before the number do not tell rooms apart, the number does.
RoomName(i) == <<"rg", i>>

\* The places beside place i of a grid that is w wide.
Beside(i, w) == [east |-> i + 1, west |-> i - 1, south |-> i + w, north |-> i - w]

FaultyGrid(i, n) ==         \* leaves a row by its east side for the next one
  LET w == GridWidth(n)
      open == [east |-> i + 1 < n, west |-> i % w > 0,
               south |-> i + w < n, north |-> i \div w > 0]
  IN  [d \in {e \in DOMAIN open : open[e]} |-> RoomName(Beside(i, w)[d])]

\* Rooms fill the grid row by row; the last row may be short.
Grid(i, n) ==
  LET w == GridWidth(n)
      open == [east |-> (i % w) + 1 < w /\ i + 1 < n, west |-> i % w > 0,
               south |-> i + w < n, north |-> i \div w > 0]
  IN  [d \in {e \in DOMAIN open : open[e]} |-> RoomName(Beside(i, w)[d])]

\* generate_rooms and generate_world: room 0 is where the player starts.  The
\* draw gives each resource its kind, and with it its name, flags and cost.
GeneratedRooms(size, draw) ==
  LET n == Max({size.resource_groups, 1})
  IN  [k \in 1..n |->
         NewRoom(RoomName(k - 1), k = 1 \/ (k - 1) % DarkPeriod # 0, Grid(k - 1, n),
                 [j \in 1..size.resources_per_group |-> draw[k][j]])]

-----------------------------------------------------------------------------
(* The live subscription *)

\* build_world of az.rs: a chain of rooms, lit for want of better knowledge.
\* Only the first are asked for their resources, and one whose listing fails
\* looks as if it had none.
AzRooms(listed, contents) ==
  LET groups == SubSeq(listed, 1, Min({Len(listed), MaxRooms}))
      beside(i) == [south |-> i - 1, north |-> i + 1]
  IN  [i \in DOMAIN groups |->
         NewRoom(groups[i], TRUE,
                 [d \in {e \in DOMAIN beside(i) : beside(i)[e] \in DOMAIN groups} |->
                    groups[beside(i)[d]]],
                 IF i > MaxResourceRooms \/ contents[groups[i]] = Unavailable THEN << >>
                 ELSE [k \in DOMAIN contents[groups[i]] |-> Plain(contents[groups[i]][k])])]

-----------------------------------------------------------------------------
(* The world *)

\* The launch ends here: build_world returned an error.
NoEstate ==
  [rooms |-> {}, start |-> None, exits |-> << >>, lit |-> {}, lying |-> << >>, attrs |-> << >>]

\* World::new: a map by name, in which a later room replaces an earlier one of
\* its name; refused if the start or the far end of an exit is not in it.  A
\* resource is known by the room it starts in and its place there.
WorldNew(rooms, start) ==
  LET names   == {rooms[i].name : i \in DOMAIN rooms}
      room(r) == rooms[Max({i \in DOMAIN rooms : rooms[i].name = r})]
      objects == UNION {{r} \X DOMAIN room(r).resources : r \in names}
  IN  IF start \in names /\ \A r \in names : Range(room(r).exits) \subseteq names
      THEN [rooms |-> names, start |-> start,
            exits |-> [r \in names |-> room(r).exits],
            lit   |-> {r \in names : room(r).monitored},
            lying |-> [r \in names |-> [k \in DOMAIN room(r).resources |-> <<r, k>>]],
            attrs |-> [x \in objects |-> room(x[1]).resources[x[2]]]]
      ELSE NoEstate

\* select: identifiers it does not know mean the mock estate, too.
IsLive(id) == id \in {"az", "real", "azure"}

\* What a launch builds its world from: the identifier; for the mock estate the
\* size asked for and the dice; for the live one what az answers.
BuildWorld(launch) ==
  IF IsLive(launch.id)
  THEN IF launch.listed = Unavailable \/ launch.listed = << >> THEN NoEstate
       ELSE WorldNew(AzRooms(launch.listed, launch.contents), launch.listed[1])
  ELSE IF launch.size \in {Unset, Invalid}          \* mock_backend_from_env
       THEN WorldNew(FixedRooms, "landing-rg")
       ELSE WorldNew(GeneratedRooms(launch.size, launch.draw), RoomName(0))
=============================================================================
