------------------------------ MODULE VastuGrid ------------------------------
(***************************************************************************)
(* The occupancy grid of vastu-slam (grid/storage/core.rs) and what the    *)
(* three sensors do to it: a lidar scan moves the log-odds of the cells    *)
(* its rays cross or end in (grid/lidar_update.rs), a cliff sensor or a    *)
(* bumper marks a cell (cliff_update.rs, bumper_update.rs).  A scan may    *)
(* make the grid grow, and its new walls go into the distance field at     *)
(* its end.                                                                *)
(*                                                                         *)
(* A cell is named by its place in the world, which growing leaves alone;  *)
(* grid coordinates, which it shifts, are places relative to the origin.   *)
(* A ray is a step of its own, so that a scan is any number of rays; what  *)
(* the scan meets in between is nothing else, the map has one owner.       *)
(* Distances are counted in tenths of a cell, with 14 for the diagonal.    *)
(***************************************************************************)
EXTENDS Integers, FiniteSets

CONSTANTS
  World,                  \* the places there are
  Sensors,                \* those the robot may scan from
  Width, Height,          \* of the initial grid, at <<0, 0>>
  MaxWidth, MaxHeight,
  AutoExpand,             \* auto_expand
  Hit, Miss,              \* l_hit, l_miss
  LMin, LMax,             \* l_min, l_max
  Occupied, Free,         \* l_occupied_threshold, l_free_threshold
  MaxDistance,            \* max_distance of the distance field
  MaxScans, MaxRays, MaxMarks   \* bounds of the model

Abs(n)      == IF n < 0 THEN -n ELSE n
Least(a, b) == IF a < b THEN a ELSE b
Most(a, b)  == IF a > b THEN a ELSE b

\* The world is a rectangle, or the whole plane.
ASSUME SizeAssumption ==
  /\ (0 .. Width - 1) \X (0 .. Height - 1) \subseteq World /\ World \subseteq Int \X Int
  /\ \A a, b \in World : (Least(a[1], b[1]) .. Most(a[1], b[1]))
                           \X (Least(a[2], b[2]) .. Most(a[2], b[2])) \subseteq World
  /\ Sensors \subseteq World
  /\ MaxWidth \in Nat /\ Width \in 1 .. MaxWidth
  /\ MaxHeight \in Nat /\ Height \in 1 .. MaxHeight
  /\ AutoExpand \in BOOLEAN /\ MaxDistance \in Nat \ {0}
ASSUME EvidenceAssumption ==
  /\ {Hit, Miss, LMin, LMax, Occupied, Free} \subseteq Int
  /\ LMin < Free /\ Free < 0 /\ 0 < Occupied /\ Occupied < LMax /\ Miss < 0 /\ 0 < Hit
ASSUME BoundsAssumption == MaxScans \in Nat /\ MaxRays \in Nat /\ MaxMarks \in Nat

VARIABLES
  area,       \* origin, width and height of the grid
  type,       \* cell_types
  lo,         \* log_odds
  dist,       \* distance_field
  scan,       \* the scan being worked in: sensor, rays so far, new_wall_coords
  scans, marks,   \* counted for their bounds
  \* --- history
  marked,     \* cells a cliff sensor or a bumper has marked
  struck,     \* those of them a ray has ended in since
  bumped,     \* cells a bumper has touched, no ray having ended in them since
  walled,     \* cells that ever became a wall
  grown,      \* the grid was expanded
  displaced   \* new walls whose coordinates were noted before the origin moved

gridVars == <<area, type, lo, dist>>
history  == <<marked, struck, bumped, walled, grown, displaced>>
vars     == <<gridVars, scan, scans, marks, history>>

Types  == {"Unknown", "Floor", "Wall", "Cliff", "Bump"}
Marks  == {"Cliff", "Bump"}
NoWall == 10 * MaxDistance                 \* f32::MAX
NoScan == [sensor |-> <<>>, rays |-> 0, walls |-> {}]

\* world_to_grid and back, is_valid_coord.
ToGrid(c)  == <<c[1] - area.origin[1], c[2] - area.origin[2]>>
ToWorld(g) == <<g[1] + area.origin[1], g[2] + area.origin[2]>>
InArea(c, a) == /\ c[1] - a.origin[1] \in 0 .. a.width - 1
                /\ c[2] - a.origin[2] \in 0 .. a.height - 1
Cells == {c \in World : InArea(c, area)}

Init ==
  /\ area = [origin |-> <<0, 0>>, width |-> Width, height |-> Height]
  /\ type = [c \in World |-> "Unknown"]
  /\ lo = [c \in World |-> 0]
  /\ dist = [c \in World |-> NoWall]
  /\ scan = NoScan /\ scans = 0 /\ marks = 0
  /\ marked = {} /\ struck = {} /\ bumped = {} /\ walled = {}
  /\ grown = FALSE /\ displaced = {}

(***************************************************************************)
(* Rays.                                                                   *)
(***************************************************************************)
\* BresenhamLine: along the longer axis one step each; the error starts at half
\* of it, so the shorter axis has stepped up(i) times after i steps.
Line(from, to) ==
  LET steep == Abs(to[2] - from[2]) > Abs(to[1] - from[1])
      u     == IF steep THEN 2 ELSE 1
      v     == 3 - u
      du    == Abs(to[u] - from[u])
      dv    == Abs(to[v] - from[v])
      su    == IF to[u] > from[u] THEN 1 ELSE -1
      sv    == IF to[v] > from[v] THEN 1 ELSE -1
      up(i) == Most(0, (i * dv - du \div 2 + du - 1) \div Most(du, 1))
      at(i) == IF steep THEN <<from[1] + sv * up(i), from[2] + su * i>>
                        ELSE <<from[1] + su * i, from[2] + sv * up(i)>>
  IN  {at(i) : i \in 0 .. du}

\* Mutant of Clamp: bounded above only.
ClampAbove(n) == Least(LMax, n)

Clamp(n) == Most(LMin, Least(LMax, n))

\* apply_hit.
HitType(t, l)  == IF l > Occupied THEN "Wall" ELSE t
\* Mutant of MissType: a miss makes a floor of any cell.
MissTypeAny(t, l) == IF l < Free THEN "Floor" ELSE t

\* apply_miss.
MissType(t, l) == IF l < Free /\ t \in {"Unknown", "Wall"} THEN "Floor" ELSE t

\* What a ray does to the cells of grid a: misses up to its end, and a hit there
\* when something was met within range.
Apply(line, end, met) ==
  LET hits   == IF met THEN {end} ELSE {}
      misses == line \ {end}
  IN  /\ lo' = [c \in World |-> IF c \in hits THEN Clamp(lo[c] + Hit)
                                ELSE IF c \in misses THEN Clamp(lo[c] + Miss) ELSE lo[c]]
      /\ type' = [c \in World |-> IF c \in hits THEN HitType(type[c], lo'[c])
                                  ELSE IF c \in misses THEN MissType(type[c], lo'[c])
                                  ELSE type[c]]
      /\ struck' = struck \cup (hits \cap marked) /\ bumped' = bumped \ hits
      /\ walled' = walled \cup {c \in World : type'[c] = "Wall"}

\* The end became occupied with this hit.
NewWall(end, met) == met /\ lo[end] <= Occupied /\ lo'[end] > Occupied

\* expand_to_include: as far as the place lies outside, in each direction.
Expanded(c) ==
  LET g     == ToGrid(c)
      left  == Most(0, -g[1])
      down  == Most(0, -g[2])
      right == Most(0, g[1] - area.width + 1)
      up    == Most(0, g[2] - area.height + 1)
  IN  [origin |-> <<area.origin[1] - left, area.origin[2] - down>>,
       width  |-> area.width + left + right,
       height |-> area.height + down + up]

Scanning == scan # NoScan

StartScan ==
  /\ ~Scanning /\ scans < MaxScans
  /\ \E s \in Sensors : scan' = [NoScan EXCEPT !.sensor = s]
  /\ scans' = scans + 1
  /\ UNCHANGED <<gridVars, marks, history>>

\* A ray that ends inside the grid.
Ray(end, met) ==
  /\ Scanning /\ scan.rays < MaxRays
  /\ InArea(end, area)
  /\ Apply({c \in Line(scan.sensor, end) : InArea(c, area)}, end, met)
  /\ scan' = [scan EXCEPT !.rays = @ + 1,
                          !.walls = @ \cup IF NewWall(end, met) THEN {ToGrid(end)} ELSE {}]
  /\ UNCHANGED <<area, dist, scans, marks, marked, grown, displaced>>

\* One that ends outside of it; the new walls keep their coordinates.
RayBeyond(end, met) ==
  /\ Scanning /\ scan.rays < MaxRays
  /\ ~InArea(end, area)
  /\ AutoExpand /\ Expanded(end).width <= MaxWidth /\ Expanded(end).height <= MaxHeight
  /\ area' = Expanded(end) /\ grown' = TRUE
  /\ displaced' = displaced \cup
       IF area'.origin # area.origin THEN {ToWorld(g) : g \in scan.walls} ELSE {}
  /\ Apply({c \in Line(scan.sensor, end) : InArea(c, area')}, end, met)
  /\ LET at == <<end[1] - area'.origin[1], end[2] - area'.origin[2]>>
     IN  scan' = [scan EXCEPT !.rays = @ + 1,
                              !.walls = @ \cup IF NewWall(end, met) THEN {at} ELSE {}]
  /\ UNCHANGED <<dist, scans, marks, marked>>

(***************************************************************************)
(* The distance field: update_distance_field_batch floods from the new     *)
(* walls and goes on only where a distance gets smaller.  A round takes    *)
(* all that is in the queue and queues the cells it brings closer, each    *)
(* with its new distance; since a step adds ten at least, the queue is     *)
(* empty after Rounds of them.                                             *)
(***************************************************************************)
Step(a, b) == IF a[1] = b[1] \/ a[2] = b[2] THEN 10 ELSE 14

\* Mutant of Near: without the diagonal neighbours.
NearStraight(c) == {n \in Cells : Abs(n[1] - c[1]) + Abs(n[2] - c[2]) = 1}

Near(c)    == {n \in Cells \ {c} : Abs(n[1] - c[1]) <= 1 /\ Abs(n[2] - c[2]) <= 1}

Spread(wave) ==
  LET offers == UNION {{<<n, q[2] + Step(q[1], n)>> : n \in Near(q[1])} : q \in wave.queue}
      taken  == {o \in offers : /\ o[2] <= MaxDistance /\ o[2] < wave.d[o[1]]
                                /\ \A p \in offers : p[1] = o[1] => o[2] <= p[2]}
      to(c)  == {o \in taken : o[1] = c}
  IN  [d     |-> [c \in World |-> IF to(c) = {} THEN wave.d[c]
                                 ELSE (CHOOSE o \in to(c) : TRUE)[2]],
       queue |-> taken]

Rounds == MaxDistance \div 10 + 1

Flood(d, seeds) ==
  LET wave[k \in 0 .. Rounds] ==
        IF k = 0 THEN [d |-> d, queue |-> {<<c, 0>> : c \in seeds}] ELSE Spread(wave[k - 1])
  IN  wave[Rounds].d

Seeded(seeds) == [c \in World |-> IF c \in seeds THEN 0 ELSE dist[c]]

EndScan ==
  /\ Scanning
  /\ LET seeds == {ToWorld(g) : g \in scan.walls} \cap Cells
     IN  dist' = Flood(Seeded(seeds), seeds)
  /\ scan' = NoScan
  /\ UNCHANGED <<area, type, lo, scans, marks, history>>

(***************************************************************************)
(* Marks and the rest.                                                     *)
(***************************************************************************)
\* observe_with_priority: what each type may be overridden by.
Overrides(new, old) ==
  CASE old \in {"Unknown", "Floor"} -> TRUE
    [] old = "Wall"                 -> new \in {"Wall", "Cliff", "Bump"}
    [] old = "Cliff"                -> new \in {"Cliff", "Bump"}
    [] old = "Bump"                 -> new = "Bump"

\* A cliff sensor or a bumper over cell c; the log-odds know nothing of it.
Mark(c, m) ==
  /\ ~Scanning /\ marks < MaxMarks
  /\ InArea(c, area)
  /\ type' = [type EXCEPT ![c] = IF Overrides(m, @) THEN m ELSE @]
  /\ marked' = marked \cup {c} /\ struck' = struck \ {c}
  /\ bumped' = bumped \cup IF m = "Bump" THEN {c} ELSE {}
  /\ marks' = marks + 1
  /\ UNCHANGED <<area, lo, dist, scan, scans, walled, grown, displaced>>

\* The grid keeps its size.
Clear ==
  /\ ~Scanning
  /\ type' = [c \in World |-> "Unknown"]
  /\ lo' = [c \in World |-> 0]
  /\ dist' = [c \in World |-> NoWall]
  /\ marked' = {} /\ struck' = {} /\ bumped' = {} /\ walled' = {}
  /\ grown' = FALSE /\ displaced' = {}
  /\ UNCHANGED <<area, scan, scans, marks>>

Next ==
  \/ StartScan \/ EndScan \/ Clear
  \/ \E c \in World, met \in BOOLEAN : Ray(c, met) \/ RayBeyond(c, met)
  \/ \E c \in World, m \in Marks : Mark(c, m)

Spec == Init /\ [][Next]_vars

-----------------------------------------------------------------------------
TypeOK ==
  /\ area.origin \in Int \X Int /\ area.width \in 1 .. MaxWidth /\ area.height \in 1 .. MaxHeight
  /\ type \in [World -> Types] /\ lo \in [World -> LMin .. LMax]
  /\ dist \in [World -> 0 .. MaxDistance \cup {NoWall}]
  /\ \A c \in World \ Cells : type[c] = "Unknown" /\ lo[c] = 0 /\ dist[c] = NoWall
  /\ struck \subseteq marked /\ bumped \subseteq marked /\ marked \subseteq Cells
  /\ walled \subseteq Cells /\ displaced \subseteq Cells /\ grown \in BOOLEAN
  /\ scans \in 0 .. MaxScans /\ marks \in 0 .. MaxMarks /\ scan.rays \in 0 .. MaxRays

\* However hits, misses and marks alternate, a cell is what its evidence says: a bump
\* stays a bump and a cliff a cliff or a bump until a ray ends in it, and of the
\* others a wall was not refuted, a floor not met again, and nothing decided stays
\* unknown (storage/core.rs:520-566).
TypeFollowsEvidence ==
  \A c \in World :
    IF c \in bumped THEN type[c] = "Bump"
    ELSE IF c \in marked \ struck THEN type[c] \in Marks
    ELSE CASE type[c] = "Wall"    -> lo[c] >= Free
           [] type[c] = "Floor"   -> lo[c] <= Occupied
           [] type[c] = "Unknown" -> lo[c] \in Free .. Occupied
           [] OTHER               -> c \in marked

\* What a bumper or a cliff sensor has marked stays marked, whatever the lidar sees
\* there (bumper_update.rs:26, cliff_update.rs:25, cell.rs:33).  The places the robot
\* scans from are left out, no ray is so short.
MarksStay == \A c \in marked \ Sensors : type[c] \in Marks

\* The distance field, kept up by one flood per scan, is exact between scans as
\* long as the grid has its first size: the distance to the nearest cell that
\* ever became a wall, as far as max_distance.  When the grid has grown, such a cell
\* is still at distance 0, but for the one whose noted coordinates an expansion in
\* the same scan has shifted, and while there is none of those no other cell is at
\* distance 0 (lidar_update.rs:38-125, storage/core.rs:720-782).
Octile(a, b) ==
  LET dx == Abs(a[1] - b[1])  dy == Abs(a[2] - b[2])
  IN  10 * (Most(dx, dy) - Least(dx, dy)) + 14 * Least(dx, dy)

Exact(c) ==
  LET near == {v \in {Octile(w, c) : w \in walled} : v <= MaxDistance}
  IN  IF near = {} THEN dist[c] = NoWall ELSE dist[c] \in near /\ \A v \in near : dist[c] <= v

DistanceFieldSound ==
  ~Scanning =>
    /\ \A c \in walled \ displaced : dist[c] = 0
    /\ displaced = {} => \A c \in Cells \ walled : dist[c] # 0
    /\ ~grown => \A c \in Cells : Exact(c)

\* Between scans every wall is at distance 0: the field is the "distance to nearest
\* wall" (storage/core.rs:613).
WallsAtZero == ~Scanning => \A c \in Cells : type[c] = "Wall" => dist[c] = 0
=============================================================================
