-------------------------------- MODULE World --------------------------------
(***************************************************************************)
(* The game world of src/src/world.rs and the turns src/src/main.rs plays  *)
(* on it: rooms (resource groups) that are lit when monitored, resources   *)
(* that lie in a room or are carried, and the Grue, that acts after every  *)
(* line but `quit`.  The reports read from it are operators: the score     *)
(* (total_hazards), the four badges and the three quests (quests.rs).      *)
(*                                                                         *)
(* The world is that of Estate, for one of the launches given.  A name is  *)
(* abstracted to what find_by_name asks of it: which typed words equal it  *)
(* and which are prefixes of it.  The dice of the Grue are left   *)
(* to chance.  `moves` is kept as whether the last turn counted.           *)
(*                                                                         *)
(* Operators named Faulty... are no part of the model, see AimdLimiter.    *)
(***************************************************************************)
EXTENDS Estate

CONSTANTS
  Launches,                (* the launches to start from, see BuildWorld             *)
  PrefixesOf,              (* per name of a resource, the words it starts with       *)
  Words                    (* what the player may type as a target                   *)

CostOverrun == Cost(500)

\* A launch has an identifier, a size, the dice for it, and what az answers.
IsLaunch(l) ==
  /\ l.size \in {Unset, Invalid} \cup [resource_groups : Nat, resources_per_group : Nat]
  /\ l.listed \in {Unavailable} \cup Seq(STRING)
  /\ l.listed # Unavailable =>
       \A i \in DOMAIN l.listed : l.contents[l.listed[i]] \in {Unavailable} \cup Seq(STRING)

ASSUME WorldAssumption ==
  /\ \A name \in DOMAIN PrefixesOf : name \in PrefixesOf[name]
  /\ \A l \in Launches : IsLaunch(l)

VARIABLES
  launch, estate,   (* how the world was built, and what came of it   *)
  current, monitored,
  resources,        (* Room::resources, per room                      *)
  inventory,
  attrs,            (* the flags and the cost of each resource        *)
  moved,            (* the last turn counted as a move                *)
  darkness_streak,
  phase,            (* "prompt", "grue" (the check is due), "over"    *)
  game_over,
  \* What a reader of the transcript would know:
  warned            (* the Grue has lurked since the player last saw light           *)

built == <<launch, estate>>
place == <<resources, inventory>>
dark  == <<darkness_streak, warned>>
vars  == <<built, current, monitored, place, attrs, moved, dark, phase, game_over>>

\* Without a world the process ends at once.
Init ==
  /\ launch \in Launches /\ estate = BuildWorld(launch)
  /\ current = estate.start /\ monitored = estate.lit
  /\ resources = estate.lying /\ inventory = << >>
  /\ attrs = estate.attrs
  /\ moved = FALSE /\ darkness_streak = 0
  /\ phase = IF estate = NoEstate THEN "over" ELSE "prompt"
  /\ game_over = FALSE
  /\ warned = FALSE

Rooms == estate.rooms
Exits == estate.exits[current]

IsDark == current \notin monitored

-----------------------------------------------------------------------------
(* Names *)

\* The first resource of that very name, else the first it is a prefix of,
\* else 0.
FindByName(seq, word) ==
  LET exact  == {i \in DOMAIN seq : attrs[seq[i]].name = word}
      prefix == {i \in DOMAIN seq : word \in PrefixesOf[attrs[seq[i]].name]}
  IN  CASE exact # {}  -> Min(exact)
        [] exact = {} /\ prefix # {} -> Min(prefix)
        [] OTHER -> 0

Here    == resources[current]
InRoom(word)      == FindByName(Here, word)
InInventory(word) == FindByName(inventory, word)

Miss ==
  /\ moved' = FALSE
  /\ UNCHANGED <<place, attrs>>

\* lock, unlock and resize look in the room first, then in the inventory.
RoomThenInventory(word) ==
  IF InRoom(word) # 0 THEN Here[InRoom(word)]
  ELSE IF InInventory(word) # 0 THEN inventory[InInventory(word)] ELSE None

-----------------------------------------------------------------------------
(* Commands *)

Line ==
  /\ phase = "prompt"
  /\ phase' = "grue"
  /\ UNCHANGED <<built, game_over>>

Go(d) ==
  /\ Line
  /\ IF d \in DOMAIN Exits
     THEN current' = Exits[d] /\ moved' = TRUE
     ELSE UNCHANGED current /\ moved' = FALSE
  /\ UNCHANGED <<monitored, place, attrs, dark>>

FaultyTake(word) ==         \* copies
  /\ Line
  /\ IF IsDark \/ InRoom(word) = 0 THEN Miss
     ELSE /\ inventory' = Append(inventory, Here[InRoom(word)])
          /\ moved' = TRUE
          /\ UNCHANGED <<resources, attrs>>
  /\ UNCHANGED <<current, monitored, dark>>

\* Confirmed; a take that is not is a line like any other.
Take(word) ==
  /\ Line
  /\ IF IsDark \/ InRoom(word) = 0 THEN Miss
     ELSE /\ resources' = [resources EXCEPT ![current] = RemoveAt(@, InRoom(word))]
          /\ inventory' = Append(inventory, Here[InRoom(word)])
          /\ moved' = TRUE
          /\ UNCHANGED attrs
  /\ UNCHANGED <<current, monitored, dark>>

FaultyDropItem(word) ==     \* tests for light first, and carries on
  /\ Line
  /\ IF InInventory(word) # 0
     THEN /\ IF attrs[inventory[InInventory(word)]].locked
             THEN UNCHANGED place /\ moved' = FALSE
             ELSE /\ inventory' = RemoveAt(inventory, InInventory(word))
                  /\ moved' = TRUE
                  /\ UNCHANGED resources
          /\ UNCHANGED attrs
     ELSE IF InRoom(word) = 0 THEN Miss
     ELSE /\ IF attrs[Here[InRoom(word)]].locked
             THEN UNCHANGED place /\ moved' = FALSE
             ELSE /\ resources' = [resources EXCEPT ![current] = RemoveAt(@, InRoom(word))]
                  /\ moved' = TRUE
                  /\ UNCHANGED inventory
          /\ UNCHANGED attrs
  /\ UNCHANGED <<current, monitored, dark>>

\* Confirmed, too.  Here the inventory comes first, dark or not; what lies in
\* the room can be deleted in light only.
DropItem(word) ==
  /\ Line
  /\ IF InInventory(word) # 0
     THEN LET i == InInventory(word) IN
          /\ moved' = ~attrs[inventory[i]].locked
          /\ inventory' = IF attrs[inventory[i]].locked THEN inventory ELSE RemoveAt(inventory, i)
          /\ UNCHANGED <<resources, attrs>>
     ELSE IF IsDark \/ InRoom(word) = 0 THEN Miss
     ELSE LET i == InRoom(word) IN
          /\ moved' = ~attrs[Here[i]].locked
          /\ resources' = IF attrs[Here[i]].locked THEN resources
                          ELSE [resources EXCEPT ![current] = RemoveAt(@, i)]
          /\ UNCHANGED <<inventory, attrs>>
  /\ UNCHANGED <<current, monitored, dark>>

\* A command on a resource x that stays where it is: its record after it, and
\* whether the turn is a move.
Alter(x, altered, counts) ==
  /\ Line
  /\ IF x = None THEN Miss
     ELSE /\ attrs' = [attrs EXCEPT ![x] = altered]
          /\ moved' = counts
          /\ UNCHANGED place
  /\ UNCHANGED <<current, monitored, dark>>

Lock(word) ==
  LET x == RoomThenInventory(word)
  IN  Alter(x, [attrs[x] EXCEPT !.locked = TRUE, !.public = FALSE, !.encrypted = TRUE], TRUE)

Unlock(word) ==
  LET x == RoomThenInventory(word)
  IN  Alter(x, [attrs[x] EXCEPT !.locked = FALSE], attrs[x].locked)

Resize(word) ==
  LET x == RoomThenInventory(word)
  IN  Alter(x, [attrs[x] EXCEPT !.monthly_cost = @ \div 2], TRUE)

Monitor ==
  /\ Line
  /\ IF IsDark
     THEN /\ monitored' = monitored \cup {current}
          /\ darkness_streak' = 0 /\ warned' = FALSE
          /\ moved' = TRUE
     ELSE /\ moved' = FALSE
          /\ UNCHANGED <<monitored, dark>>
  /\ UNCHANGED <<current, place, attrs>>

\* Every other line: reports, an empty or unknown one, a refused confirmation.
OtherLine ==
  /\ Line
  /\ moved' = FALSE
  /\ UNCHANGED <<current, monitored, place, attrs, dark>>

Quit ==
  /\ phase = "prompt"
  /\ phase' = "over"
  /\ UNCHANGED <<built, current, monitored, place, attrs, moved, dark, game_over>>

-----------------------------------------------------------------------------
(* grue_check, after each line *)

FaultyGrueCheck ==          \* light does not end the streak
  /\ phase = "grue"
  /\ IF ~IsDark
     THEN /\ warned' = FALSE
          /\ phase' = "prompt"
          /\ UNCHANGED <<darkness_streak, game_over>>
     ELSE /\ darkness_streak' = IF darkness_streak < 4 THEN darkness_streak + 1 ELSE 4
          /\ \/ phase' = "prompt" /\ warned' = TRUE /\ UNCHANGED game_over
             \/ /\ darkness_streak' > 1
                /\ game_over' = TRUE /\ phase' = "over" /\ UNCHANGED warned
  /\ UNCHANGED <<built, current, monitored, place, attrs, moved>>

\* The odds do not change after the fourth turn, so the streak is capped there.
StreakCap == 4

\* The first turn in the dark is a warning; from the second on the roll may
\* be low enough.
GrueCheck ==
  /\ phase = "grue"
  /\ IF ~IsDark
     THEN /\ darkness_streak' = 0 /\ warned' = FALSE
          /\ phase' = "prompt"
          /\ UNCHANGED game_over
     ELSE /\ darkness_streak' = IF darkness_streak < StreakCap THEN darkness_streak + 1
                                ELSE StreakCap
          /\ \/ phase' = "prompt" /\ warned' = TRUE /\ UNCHANGED game_over
             \/ /\ darkness_streak' > 1
                /\ game_over' = TRUE /\ phase' = "over" /\ UNCHANGED warned
  /\ UNCHANGED <<built, current, monitored, place, attrs, moved>>

-----------------------------------------------------------------------------

Directions == {"north", "south", "east", "west", "up", "down"}

Next ==
  \/ \E d \in Directions : Go(d)
  \/ \E word \in Words : Take(word) \/ DropItem(word) \/ Lock(word)
                          \/ Unlock(word) \/ Resize(word)
  \/ Monitor \/ OtherLine \/ Quit \/ GrueCheck

Spec == Init /\ [][Next]_vars

-----------------------------------------------------------------------------
(* Reports *)

AllResources == (UNION {Range(resources[r]) : r \in Rooms}) \cup Range(inventory)

FaultyHazards(a) ==         \* the threshold itself is not an overrun
  Cardinality({c \in {"public", "clear", "unlocked", "cost"} :
    \/ c = "public" /\ a.public
    \/ c = "clear" /\ ~a.encrypted
    \/ c = "unlocked" /\ ~a.locked
    \/ c = "cost" /\ a.monthly_cost > CostOverrun})

Hazards(a) ==
  Cardinality({c \in {"public", "clear", "unlocked", "cost"} :
    \/ c = "public" /\ a.public
    \/ c = "clear" /\ ~a.encrypted
    \/ c = "unlocked" /\ ~a.locked
    \/ c = "cost" /\ a.monthly_cost >= CostOverrun})

HazardsIn(seq) == FoldSeq(LAMBDA x, n : Hazards(attrs[x]) + n, 0, seq)

TotalHazards ==
  Cardinality(Rooms \ monitored) + HazardsIn(inventory)
    + MapThenSumSet(LAMBDA r : HazardsIn(resources[r]), Rooms)

Badges ==
  {b \in {"Fort Knox", "No Open Doors", "Warded", "Under Budget"} :
     \A x \in AllResources :
       CASE b = "Fort Knox"     -> attrs[x].encrypted
         [] b = "No Open Doors" -> ~attrs[x].public
         [] b = "Warded"        -> attrs[x].locked
         [] OTHER               -> ~(attrs[x].monthly_cost >= CostOverrun)}

Satisfies(a, quest) ==
  CASE quest = "Secure the Realm" -> ~a.public
    [] quest = "Seal the Vaults"  -> a.encrypted
    [] quest = "Lift the Curse"   -> a.locked

QuestProgress(quest) ==
  LET done  == Cardinality({x \in AllResources : Satisfies(attrs[x], quest)})
      total == Cardinality(AllResources)
  IN  [done |-> done, total |-> total, complete |-> done = total]

-----------------------------------------------------------------------------
(* Properties *)

Opposite ==
  [north |-> "south", south |-> "north", east |-> "west", west |-> "east",
   up |-> "down", down |-> "up"]

\* The world can be wandered: a way leads back from wherever one goes, no set of
\* rooms is cut off from where the player starts, whatever the cap drops and however
\* the last row of a grid ends (mock_gen.rs:449-452), and the start is lit
\* (mock_gen.rs:418).  World::new refuses none of the rooms it is given: a
\* launch fails for want of an answer from az only.
EstateSound ==
  IF estate = NoEstate THEN IsLive(launch.id) /\ launch.listed \in {Unavailable, << >>}
  ELSE /\ estate.start \in estate.lit
       /\ \A r \in Rooms : \A d \in DOMAIN estate.exits[r] :
            LET beyond == estate.exits[estate.exits[r][d]]
            IN  Opposite[d] \in DOMAIN beyond /\ beyond[Opposite[d]] = r
       /\ \A cut \in SUBSET (Rooms \ {estate.start}) :
            cut # {} => \E r \in Rooms \ cut : Range(estate.exits[r]) \cap cut # {}

\* No resource is in two places, however it is taken, altered and deleted
\* through words that may mean several resources.
EachInOnePlace ==
  /\ IsInjective(inventory)
  /\ \A r \in Rooms :
       /\ IsInjective(resources[r])
       /\ Range(resources[r]) \cap Range(inventory) = {}
       /\ \A s \in Rooms \ {r} : Range(resources[r]) \cap Range(resources[s]) = {}

\* A resource that is gone for good was not locked, and was carried or lay in
\* the light: destroying what one cannot see is how estates lose data.
DeletedUnlockedInLight ==
  [][\A x \in AllResources : x \notin AllResources' =>
       ~attrs[x].locked /\ (x \in Range(inventory) \/ current \in monitored)]_vars

\* The first turn of every stretch in the dark is a warning: nobody is devoured
\* who has not been warned since last seeing light.
GrueWarnsFirst == game_over => warned

\* The reports agree, although the score counts hazards room by room, the
\* badges scan the estate for a first offender and the quests count who is
\* right: no hazard is left exactly if every room is lit and all four badges are
\* earned, a quest is complete exactly if its badge is, and no quest is further
\* from its end than the hazards allow.
ReportsAgree ==
  /\ TotalHazards = 0 <=> monitored = Rooms /\ Cardinality(Badges) = 4
  /\ QuestProgress("Secure the Realm").complete <=> "No Open Doors" \in Badges
  /\ QuestProgress("Seal the Vaults").complete <=> "Fort Knox" \in Badges
  /\ QuestProgress("Lift the Curse").complete <=> "Warded" \in Badges
  /\ LET open(quest) == QuestProgress(quest).total - QuestProgress(quest).done
     IN  open("Secure the Realm") + open("Seal the Vaults") + open("Lift the Curse")
           <= TotalHazards
=============================================================================
