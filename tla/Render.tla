-------------------------------- MODULE Render --------------------------------
(***************************************************************************)
(* Where render_html of src/src/dungeon/render.rs, and the border art of   *)
(* dungeon/decorations.rs, put things on the page for a map of Atlas: the  *)
(* rooms, whose size follows from what is in them, on a grid whose cells   *)
(* follow from the largest room; icons in rows; corridors between rooms of *)
(* a region; torches, chest and dragon in the margin.  Lengths are pixels, *)
(* and those of the code.                                                  *)
(*                                                                         *)
(* A resource of Atlas stands for Bulk of them here: the rooms of the code *)
(* have one size up to six resources, and grow in both directions from ten *)
(* on.                                                                     *)
(*                                                                         *)
(* Operators named Faulty... are no part of the model, see AimdLimiter.    *)
(***************************************************************************)
EXTENDS Atlas

CONSTANTS Bulk

ASSUME RenderAssumption == Bulk \in Nat \ {0} /\ IsFiniteSet(Resources)

IconSize     == 20
IconGap      == 6
Wall         == 4
RoomPadding  == 8
RoomHeader   == 30
RoomMinSize  == 116
CorridorGap  == 80
MapMargin    == 96
TorchSpacing == 140

Box(x, y, w, h) == [x |-> x, y |-> y, w |-> w, h |-> h]
Times(n, size, gap) == n * size + (n - 1) * gap

-----------------------------------------------------------------------------
(* Rooms *)

\* room_layout: as near to a square as may be, for each number of resources.
RoomLayout ==
  [n \in 0..(Bulk * Cardinality(Resources)) |->
     LET k    == Max({n, 1})
         cols == CHOOSE c \in 1..k : c * c >= k /\ (c - 1) * (c - 1) < k
         rows == (k + cols - 1) \div cols
     IN  [cols   |-> cols,
          width  |-> Max({Wall * 2 + RoomPadding * 2 + Times(cols, IconSize, IconGap),
                          RoomMinSize}),
          height |-> Max({Wall * 2 + RoomHeader + RoomPadding + Times(rows, IconSize, IconGap),
                          RoomMinSize})]]

Count(room) == Bulk * Cardinality(DOMAIN room.resources)
Shape(room) == RoomLayout[Count(room)]

FaultyCellSize(map) == RoomMinSize + CorridorGap   \* the same for all maps

CellSize(map) ==
  CorridorGap + Max({RoomMinSize} \cup {Shape(room).width : room \in Range(map)}
                                  \cup {Shape(room).height : room \in Range(map)})

RoomBox(cell, room) ==
  Box(room.cell[1] * cell + MapMargin, room.cell[2] * cell + MapMargin,
      Shape(room).width, Shape(room).height)

\* The icons of a room with n resources, from its upper left corner.
Icons ==
  [n \in DOMAIN RoomLayout |->
     {Box(Wall + RoomPadding + (i % RoomLayout[n].cols) * (IconSize + IconGap),
          Wall + RoomHeader + (i \div RoomLayout[n].cols) * (IconSize + IconGap),
          IconSize, IconSize) : i \in 0..(n - 1)}]

-----------------------------------------------------------------------------
(* Corridors *)

\* same_region_edges: every two rooms of a region.
Edges(map) ==
  {<<map[p[1]], map[p[2]]>> : p \in {q \in (DOMAIN map) \X (DOMAIN map) :
                                       q[1] < q[2] /\ map[q[1]].region = map[q[2]].region}}

Middle(box) == <<box.x + box.w \div 2, box.y + box.h \div 2>>

\* Where a corridor leaves room a on its way to room b: in the middle of the
\* wall on that side, the right one if neither is further right.
Door(a, b) ==
  <<IF Middle(b)[1] >= Middle(a)[1] THEN a.x + a.w ELSE a.x, Middle(a)[2]>>

\* corridor_path: from door to door, with its bend half-way between them.
Corridor(a, b) ==
  LET exit  == Door(a, b)
      entry == Door(b, a)
      mid   == (exit[1] + entry[1]) \div 2
  IN  <<exit, <<mid, exit[2]>>, <<mid, entry[2]>>, entry>>

-----------------------------------------------------------------------------
(* Border art *)

Canvas(map) ==
  LET far(i) == Max({room.cell[i] : room \in Range(map)} \cup {0})
  IN  [w |-> (far(1) + 1) * CellSize(map) + MapMargin * 2,
       h |-> (far(2) + 1) * CellSize(map) + MapMargin * 2]

\* Post and flame of a torch make one box.
Torches(canvas) ==
  {Box(x - 5, y - 9, 10, 23) :
     x \in {MapMargin \div 2 + k * TorchSpacing :
              k \in {j \in 0..(canvas.w \div TorchSpacing) : MapMargin \div 2 + j * TorchSpacing
                                           < canvas.w - MapMargin \div 2}},
     y \in {MapMargin \div 2 - 10, canvas.h - MapMargin \div 2 - 10}}

Decorations(canvas) ==
  Torches(canvas) \cup
  {Box(MapMargin \div 2 - 16, canvas.h - MapMargin \div 2 - 16, 32, 32),            \* chest
   Box(canvas.w - MapMargin \div 2 - 40, MapMargin \div 2 - 20, 40, 40)}            \* dragon

-----------------------------------------------------------------------------
(* Properties *)

\* Two boxes are this far from one another, across or down.
Apart(a, b, gap) ==
  \/ a.x + a.w + gap <= b.x \/ b.x + b.w + gap <= a.x
  \/ a.y + a.h + gap <= b.y \/ b.y + b.h + gap <= a.y

\* Icons keep off the walls and the header, and off one another.
IconsFit ==
  [n \in DOMAIN RoomLayout |->
     /\ \A a \in Icons[n] :
          /\ a.x >= Wall + RoomPadding /\ a.x + a.w <= RoomLayout[n].width - Wall - RoomPadding
          /\ a.y >= Wall + RoomHeader  /\ a.y + a.h <= RoomLayout[n].height - Wall - RoomPadding
     /\ \A a, b \in Icons[n] : a # b => Apart(a, b, IconGap)]

\* On the page of the map that was written last, no two rooms are closer than a
\* corridor needs, though one may have outgrown the others and homes may have
\* collided (render.rs:119-123); icons fit their rooms; corridors end in the
\* walls of the rooms they join (render.rs:322-324); and the border art touches
\* neither (decorations.rs:4-8).
PictureSound ==
  maps # << >> /\ ~crawling =>
    LET map    == Last(maps)
        cell   == CellSize(map)
        box    == [room \in Range(map) |-> RoomBox(cell, room)]
        canvas == Canvas(map)
        free   == Box(MapMargin, MapMargin, canvas.w - MapMargin * 2, canvas.h - MapMargin * 2)
        in(x, y)     == x \in free.x..(free.x + free.w) /\ y \in free.y..(free.y + free.h)
        onWall(p, b) == p[1] \in {b.x, b.x + b.w} /\ p[2] \in b.y..(b.y + b.h)
    IN  /\ \A r, s \in Range(map) : r # s => Apart(box[r], box[s], CorridorGap)
        /\ \A r \in Range(map) :
             /\ IconsFit[Count(r)]
             /\ in(box[r].x, box[r].y) /\ in(box[r].x + box[r].w, box[r].y + box[r].h)
        /\ \A e \in Edges(map) :
             LET path == Corridor(box[e[1]], box[e[2]])
             IN  /\ onWall(path[1], box[e[1]]) /\ onWall(path[4], box[e[2]])
                 /\ \A k \in DOMAIN path : in(path[k][1], path[k][2])
        /\ \A d \in Decorations(canvas) : Apart(d, free, 0)
=============================================================================
