------------------------------- MODULE Course -------------------------------
(***************************************************************************)
(* plan_marathon_route: candidates are generated from random numbers, the  *)
(* best one is cut into roads and gets its stations.  Coordinates are      *)
(* integers, lengths are in fortieths of a mile, all roads run along the   *)
(* axes.  A random choice is any choice; the randomly weighted search may  *)
(* return any simple path.                                                 *)
(***************************************************************************)
EXTENDS Integers, Sequences, FiniteSets, SequencesExt

CONSTANTS
  Roads,        \* the network's LineStrings: [name, coords, motorway]
  NoName,       \* the name of a road without one
  Strip,        \* the name of the corridor's road
  Landmarks,    \* coordinates of the landmarks a route may finish at
  Sign, Exit,   \* coordinates of the landmarks at the corridor's ends
  RunnerCounts, \* numbers of participants asked for
  Retries,      \* attempts for a candidate, 100 in the code
  Explorations, \* exploratory hops of an attempt, 60 in the code
  Candidates    \* candidates generated, 10 in the code

Mile == 40
TargetDist == 1049       \* 26.2188 miles
ConnectorReserve == 3 * Mile

Abs(x) == IF x < 0 THEN -x ELSE x
Dist(p, q) == Abs(p[1] - q[1]) + Abs(p[2] - q[2])
Sum(f, n) == LET upTo[k \in 0..n] == IF k = 0 THEN 0 ELSE upTo[k - 1] + f[k] IN upTo[n]
\* The point at distance k from p on the way to q.
Toward(p, q, k) ==
  LET step(i) == IF q[i] > p[i] THEN k ELSE IF q[i] < p[i] THEN -k ELSE 0
  IN <<p[1] + step(1), p[2] + step(2)>>
Length(r) == Sum([i \in 1..Len(r) |-> IF i > 1 THEN Dist(r[i - 1], r[i]) ELSE 0], Len(r))

Ascending(S) == [k \in 1..Cardinality(S) |->
                   CHOOSE x \in S : Cardinality({y \in S : y < x}) = k - 1]

-----------------------------------------------------------------------------
(* The graph.                                                              *)

EdgesOf(c) == {{c[i], c[i + 1]} : i \in 1..(Len(c) - 1)}
Usable == {i \in 1..Len(Roads) : ~Roads[i].motorway}
Edges == UNION {EdgesOf(Roads[i].coords) : i \in Usable}
Nodes == UNION Edges
StripNodes == UNION UNION {EdgesOf(Roads[i].coords) : i \in {j \in Usable : Roads[j].name = Strip}}
Neighbors == [n \in Nodes |-> {m \in Nodes : {n, m} \in Edges /\ m # n}]

\* The last road with a name names a shared edge.
RoadName(e) ==
  LET I == {i \in Usable : e \in EdgesOf(Roads[i].coords) /\ Roads[i].name # NoName}
  IN IF I = {} THEN NoName ELSE Roads[Max(I)].name

Closest(p, S) == CHOOSE n \in S : \A m \in S : Dist(p, n) <= Dist(p, m)

\* Simple paths that enter no blocked node and use no blocked edge: at every hop
\* those that have not arrived go on.
Paths(a, b, nodes, edges) ==
  LET Onward(p) == {m \in Neighbors[Last(p)] \ nodes : m \notin ToSet(p) /\ {Last(p), m} \notin edges}
      hops[k \in 0..Cardinality(Nodes)] ==
        IF k = 0 THEN {<<a>>}
        ELSE UNION {IF Last(p) = b THEN {p} ELSE {Append(p, m) : m \in Onward(p)} : p \in hops[k - 1]}
  IN IF a = b THEN {} ELSE {p \in hops[Cardinality(Nodes)] : Last(p) = b}

Shortest(P) == LET least == Min({Length(p) : p \in P}) IN {p \in P : Length(p) = least}

\* On segment, cross product and intersection of two segments.
Between(p, q, r) ==
  \A i \in 1..2 : (p[i] <= q[i] /\ q[i] <= r[i]) \/ (r[i] <= q[i] /\ q[i] <= p[i])
Cross(o, a, b) == (a[1] - o[1]) * (b[2] - o[2]) - (a[2] - o[2]) * (b[1] - o[1])
Opposite(a, b) == (a < 0 /\ b > 0) \/ (a > 0 /\ b < 0)
Intersect(p1, p2, p3, p4) ==
  LET shared == Cardinality({p1, p2} \cap {p3, p4})
      d1 == Cross(p3, p4, p1)
      d2 == Cross(p3, p4, p2)
      d3 == Cross(p1, p2, p3)
      d4 == Cross(p1, p2, p4)
  IN \/ shared = 2
     \/ /\ shared = 0
        /\ \/ Opposite(d1, d2) /\ Opposite(d3, d4)
           \/ d1 = 0 /\ Between(p3, p1, p4)
           \/ d2 = 0 /\ Between(p3, p2, p4)
           \/ d3 = 0 /\ Between(p1, p3, p2)
           \/ d4 = 0 /\ Between(p1, p4, p2)

HasCrossing(r) ==
  \E i, j \in 1..(Len(r) - 1) : j >= i + 2 /\ Intersect(r[i], r[i + 1], r[j], r[j + 1])

Crosses(p, r) ==
  \E i \in 1..(Len(p) - 1), j \in 1..(Len(r) - 1) : Intersect(p[i], p[i + 1], r[j], r[j + 1])

ReusesNode(r) == ~IsInjective(r)

-----------------------------------------------------------------------------
(* Corridor, finish and waypoints.                                         *)

\* Along the Strip from the sign to its northern end, or along any road.
StartNode == Closest(Sign, StripNodes)
ExitNode == Closest(Exit, StripNodes)
Corridor ==
  LET P == Paths(StartNode, ExitNode, Nodes \ StripNodes, {})
  IN CHOOSE p \in Shortest(IF P # {} THEN P ELSE Paths(StartNode, ExitNode, {}, {})) : TRUE

AlongAxis(p, q) == p[1] = q[1] \/ p[2] = q[2]

\* The network that the skill brings along has roads along the axes, and a Strip
\* with a corridor of half a mile at least.
ASSUME CourseAssumption ==
  /\ Roads \in Seq(ToSet(Roads))
  /\ \A i \in 1..Len(Roads) :
       LET c == Roads[i].coords
       IN c \in Seq(Int \X Int) /\ \A k \in 1..(Len(c) - 1) : AlongAxis(c[k], c[k + 1])
  /\ Sign \in Int \X Int /\ Exit \in Int \X Int
  /\ StripNodes # {} /\ Paths(StartNode, ExitNode, {}, {}) # {}
  /\ Length(Corridor) >= Mile \div 2

Budget == TargetDist - Length(Corridor) - ConnectorReserve

\* Off the Strip and near both the landmark and the Strip; what is near is
\* widened while there is nothing.  The choice is among the first three.
FinishNodes(poi) ==
  LET Near(radius, limit) ==
        {n \in Nodes \ StripNodes : Dist(n, poi) <= radius
                                    /\ \E s \in StripNodes : Dist(n, s) <= limit}
      Far == 100 * Mile
      tiers == <<Near(Mile \div 2, Mile \div 2), Near(Mile, Mile \div 2),
                 Near(Far, Mile \div 2), Near(Mile, Far)>>
      found == {i \in 1..4 : tiers[i] # {}}
      S == IF found = {} THEN {} ELSE tiers[Min(found)]
      Before(m, n) == LET dm == Cardinality(Neighbors[m])
                          dn == Cardinality(Neighbors[n])
                      IN dm > dn \/ (dm = dn /\ Dist(m, poi) < Dist(n, poi))
  IN {n \in S : Cardinality({m \in S : Before(m, n)}) < 3}

Sides == {"west", "east"}
OnSide(n, side) == IF side = "west" THEN n[1] <= Sign[1] ELSE n[1] >= Sign[1]

\* East-west roads with enough nodes on a side, from north to south.
Bands(side) ==
  LET On(y) == {n \in Nodes : n[2] = y /\ OnSide(n, side)}
  IN Reverse(Ascending({y \in {n[2] : n \in Nodes} : Cardinality(On(y)) >= 3}))

\* The far and the near end of a band.
Ends(y, side) ==
  LET X == {n[1] : n \in {m \in Nodes : m[2] = y /\ OnSide(m, side)}}
      lo == <<Min(X), y>>
      hi == <<Max(X), y>>
  IN IF side = "west" THEN [far |-> lo, near |-> hi] ELSE [far |-> hi, near |-> lo]

\* Zigzag over some of the bands, the last one at its near end.
Waypoints(side, bands, far) ==
  [i \in 1..Len(bands) |->
     LET e == Ends(bands[i], side)
     IN IF (i = Len(bands)) \/ (far = (i % 2 = 0)) THEN e.near ELSE e.far]

Zigzags(side) ==
  IF Len(Bands(side)) < 2 THEN {<<>>}
  ELSE LET W == {Waypoints(side, Bands(side), far) : far \in BOOLEAN}
       IN W \cup {Reverse(w) : w \in W}

-----------------------------------------------------------------------------
VARIABLES
  at,        \* step of the generation
  work,      \* the attempt: side, finish, waypoints, zone and what it uses
  route, total,      \* the assembled route and its distance
  poi,       \* the landmark to finish at, chosen once for a candidate
  tries,     \* attempts made for the candidate
  fallback,  \* best rejected attempt: route, distance and score
  best, bestClean,   \* longest candidate, and longest clean one
  made,      \* candidates so far
  plan       \* the FeatureCollection: roads, stations, distance

vars == <<at, work, route, total, poi, tries, fallback, best, bestClean, made, plan>>

None == [route |-> <<>>, dist |-> 0]
NoFallback == [route |-> <<>>, dist |-> 0, score |-> 10000 * Mile]
NoWork == [zone |-> <<>>, dist |-> 0]
NoPlan == [segments |-> <<>>, stations |-> {}, distance |-> 0]

Init ==
  /\ at = "attempt" /\ work = NoWork /\ route = <<>> /\ total = 0
  /\ poi \in Landmarks /\ tries = 0 /\ fallback = NoFallback
  /\ best = None /\ bestClean = None /\ made = <<>> /\ plan = NoPlan

Searching == UNCHANGED <<best, bestClean, made, plan>>

\* A finish, a side, a zigzag, perhaps another one on the other side.
StartAttempt ==
  /\ at = "attempt" /\ at' = "sweep"
  /\ \E f \in FinishNodes(poi), side \in Sides :
       \E w \in Zigzags(side), x \in Zigzags(CHOOSE o \in Sides : o # side) \cup {<<>>} :
         work' = [zone |-> <<Last(Corridor)>>, dist |-> 0, finish |-> f, side |-> side,
                  todo |-> w \o x, nodes |-> ToSet(Corridor), edges |-> EdgesOf(Corridor),
                  left |-> Explorations]
  /\ Searching /\ UNCHANGED <<route, total, poi, tries, fallback>>

\* A path is appended to the zone, and blocked for what follows.
Extended(w, p) ==
  [w EXCEPT !.zone = @ \o Tail(p), !.dist = @ + Length(p),
            !.nodes = @ \cup ToSet(Tail(p)), !.edges = @ \cup EdgesOf(p)]

Reach(w, to) == Paths(Last(w.zone), to, w.nodes \ {to}, w.edges)

\* A hop to the next waypoint; one that cannot be reached is skipped.
Hop ==
  /\ at = "sweep" /\ Searching /\ UNCHANGED <<route, total, poi, tries, fallback>>
  /\ IF work.todo = <<>> \/ work.dist >= Budget
       THEN at' = "explore" /\ UNCHANGED work
       ELSE /\ UNCHANGED at
            /\ LET P == Reach(work, Head(work.todo))
                   w == [work EXCEPT !.todo = Tail(@)]
               IN \/ \E p \in P : work' = IF Crosses(p, work.zone) THEN w ELSE Extended(w, p)
                  \/ P = {} /\ work' = w

\* Hops to any node of the side while the zone is too short.
Explore ==
  /\ at = "explore" /\ Searching /\ UNCHANGED <<route, total, poi, tries, fallback>>
  /\ IF work.left = 0 \/ work.dist >= Budget - Mile \div 2
       THEN at' = "connect" /\ UNCHANGED work
       ELSE /\ UNCHANGED at
            /\ \E to \in {n \in Nodes : OnSide(n, work.side) /\ n # Last(work.zone)} :
                 LET P == Reach(work, to)
                     w == [work EXCEPT !.left = @ - 1]
                 IN \/ \E p \in P : work' = IF Crosses(p, work.zone) THEN w ELSE Extended(w, p)
                    \/ P = {} /\ work' = w

\* The prefix of r at which a loop that pops its end stops.
Prefix(r, Goes(_)) == SubSeq(r, 1, Max({n \in 0..Len(r) : n > 0 => ~Goes(n)}))

\* Popped is the length of what a prefix has lost.
Popped(r, p) == Length(r) - Length(p)

\* Mutant: a trimmed zone keeps its distance.
TrimZoneOnly(w) ==
  LET Goes(n) == /\ w.dist - Popped(w.zone, SubSeq(w.zone, 1, n)) > Budget + Mile /\ n > 2
  IN [w EXCEPT !.zone = Prefix(w.zone, Goes)]

\* A zone that is a mile over the budget loses its end; what it used stays
\* blocked.
TrimZone(w) ==
  LET Goes(n) == /\ w.dist - Popped(w.zone, SubSeq(w.zone, 1, n)) > Budget + Mile /\ n > 2
      z == Prefix(w.zone, Goes)
  IN [w EXCEPT !.zone = z, !.dist = @ - Popped(w.zone, z)]

\* Ways to the finish: off everything used, then over used edges, then over
\* the zone's nodes too; a way that crosses the route is tried again a few
\* times, and in the end the shortest one is taken whatever it crosses.
Connections(w) ==
  LET from == Last(w.zone)
      blocked == (w.nodes \cup ToSet(Corridor)) \ {w.finish}
      P1 == Paths(from, w.finish, blocked, w.edges)
      P2 == Shortest(Paths(from, w.finish, blocked, {}))
      P3 == Shortest(Paths(from, w.finish, ToSet(Corridor) \ {w.finish}, {}))
      P == IF P1 # {} THEN P1 ELSE IF P2 # {} THEN P2 ELSE P3
      Free(p) == ~Crosses(p, w.zone) /\ ~Crosses(p, Corridor)
  IN {p \in P : Free(p)}
       \cup (IF \A p \in P : Free(p) /\ P # {} THEN {}
             ELSE Shortest(Paths(from, w.finish, {}, {})))

\* The corridor and the zone, and its distance.
Assembled(w) == [route |-> Corridor \o Tail(w.zone), dist |-> Length(Corridor) + w.dist]

Rejected == tries' = tries + 1 /\ at' = IF tries' < Retries THEN "attempt" ELSE "candidate"

\* An attempt that cannot be connected is rejected.
Connect ==
  /\ at = "connect" /\ Searching /\ UNCHANGED <<poi, fallback>>
  /\ \E w \in {TrimZone(work)} :
       LET C == IF Last(w.zone) = w.finish THEN {<<w.finish>>} ELSE Connections(w)
       IN \/ \E p \in C : /\ work' = Extended(w, p) /\ at' = "adjust"
                          /\ route' = Assembled(work').route
                          /\ total' = Assembled(work').dist
                          /\ UNCHANGED tries
          \/ /\ C = {} /\ Rejected /\ work' = NoWork /\ UNCHANGED <<route, total>>

\* Overshoot: pop the end while the finish stays near the landmark, then
\* shorten the last piece by half a mile at most.
Shortened(r, d) ==
  LET Goes(n) == /\ d - Popped(r, SubSeq(r, 1, n)) > TargetDist + Mile \div 2
                 /\ n > Len(Corridor) + 2
                 /\ Dist(r[n - 1], poi) <= (3 * Mile) \div 4
      p == Prefix(r, Goes)
      e == d - Popped(r, p)
      cut == Min({e - TargetDist, Mile \div 2})
  IN IF e > TargetDist /\ Dist(p[Len(p) - 1], Last(p)) > cut
       THEN [route |-> [p EXCEPT ![Len(p)] = Toward(p[Len(p) - 1], @, Dist(p[Len(p) - 1], @) - cut)],
             dist |-> e - cut]
       ELSE [route |-> p, dist |-> e]

\* Undershoot: one more piece, along the unused road that leads closest to the
\* landmark.
Lengthened(r, d) ==
  LET N == {n \in Neighbors[Last(r)] : {Last(r), n} \notin work.edges}
      more(n) == Min({TargetDist - d, Dist(Last(r), n)})
  IN IF N = {} THEN {[route |-> r, dist |-> d]}
     ELSE {[route |-> Append(r, Toward(Last(r), n, more(n))), dist |-> d + more(n)] :
             n \in {m \in N : \A k \in N : Dist(m, poi) <= Dist(k, poi)}}

Adjusted(r, d) ==
  CASE d > TargetDist -> {Shortened(r, d)}
    [] d < TargetDist -> Lengthened(r, d)
    [] OTHER          -> {[route |-> r, dist |-> d]}

Valid(r) ==
  /\ ~HasCrossing(r) /\ ~ReusesNode(r)
  /\ Dist(r[1], Sign) <= Mile \div 2 /\ Dist(Last(r), poi) <= (3 * Mile) \div 4

Score(c) ==
  Max({0, TargetDist - c.dist}) + 2 * Dist(Last(c.route), poi)
    + (IF HasCrossing(c.route) THEN 10 * Mile ELSE 0)
    + (IF ReusesNode(c.route) THEN 10 * Mile ELSE 0)

\* The distance is adjusted and the route judged; a rejected one may be the
\* best so far.
Judge ==
  /\ at = "adjust" /\ Searching /\ work' = NoWork /\ UNCHANGED poi
  /\ \E c \in Adjusted(route, total) :
       /\ route' = c.route /\ total' = c.dist
       /\ IF Valid(c.route)
            THEN at' = "candidate" /\ fallback' = NoFallback /\ UNCHANGED tries
            ELSE /\ Rejected
                 /\ fallback' = IF Score(c) < fallback.score
                                  THEN [route |-> c.route, dist |-> c.dist, score |-> Score(c)]
                                  ELSE fallback

Clean(r) ==
  /\ r # <<>> /\ ~HasCrossing(r) /\ ~ReusesNode(r)
  /\ \E s \in StripNodes : Dist(r[1], s) <= Mile \div 2

Keep(c) ==
  /\ best' = IF c.dist > best.dist THEN c ELSE best
  /\ bestClean' = IF Clean(c.route) /\ c.dist > bestClean.dist THEN c ELSE bestClean

\* A candidate: the valid route, else the best rejected one.  A clean one of
\* full length ends the search.
Candidate ==
  /\ at = "candidate" /\ UNCHANGED <<work, plan>>
  /\ LET c == IF fallback.route # <<>> THEN [route |-> fallback.route, dist |-> fallback.dist]
               ELSE [route |-> route, dist |-> total]
         done == Clean(c.route) /\ c.dist >= TargetDist
     IN /\ Keep(c) /\ made' = Append(made, c)
        /\ at' = IF done \/ Len(made') = Candidates THEN "select" ELSE "attempt"
        /\ route' = IF done THEN c.route ELSE <<>>
        /\ total' = IF done THEN c.dist ELSE 0
  /\ tries' = 0 /\ fallback' = NoFallback /\ poi' \in Landmarks

-----------------------------------------------------------------------------
(* Roads and stations of the selected route.                               *)

\* Mutant: a road after the first starts behind the junction.
SegmentsApart(r) ==
  LET Name(i) == RoadName({r[i], r[i + 1]})
      cuts == Ascending({i \in 1..(Len(r) - 1) : i = 1 \/ Name(i) # Name(i - 1)})
      end(k) == IF k = Len(cuts) THEN Len(r) ELSE cuts[k + 1]
  IN [k \in 1..Len(cuts) |->
        [name |-> Name(cuts[k]),
         coords |-> SubSeq(r, IF k = 1 THEN 1 ELSE cuts[k] + 1, end(k))]]

\* A run of edges of one road becomes a LineString.
Segments(r) ==
  LET Name(i) == RoadName({r[i], r[i + 1]})
      cuts == Ascending({i \in 1..(Len(r) - 1) : i = 1 \/ Name(i) # Name(i - 1)})
      end(k) == IF k = Len(cuts) THEN Len(r) ELSE cuts[k + 1]
  IN [k \in 1..Len(cuts) |-> [name |-> Name(cuts[k]), coords |-> SubSeq(r, cuts[k], end(k))]]

\* The coordinates of LineStrings, shared junctions once.
Extract(segments) ==
  LET upTo[k \in 0..Len(segments)] ==
        IF k = 0 THEN <<>>
        ELSE LET acc == upTo[k - 1]
                 c == segments[k].coords
             IN acc \o (IF acc # <<>> /\ Last(acc) = c[1] THEN Tail(c) ELSE c)
  IN upTo[Len(segments)]

\* build_segment_distance_index: where each road starts and ends.
DistanceIndex(segments) ==
  LET upTo(k) == Sum([i \in 1..Len(segments) |-> Length(segments[i].coords)], k)
  IN [k \in 1..Len(segments) |-> [start |-> upTo(k - 1), end |-> upTo(k), name |-> segments[k].name]]

PointAtMile(r, mi) ==
  LET before(i) == Length(SubSeq(r, 1, i))
  IN IF mi <= 0 THEN r[1]
     ELSE IF mi >= Length(r) THEN Last(r)
     ELSE LET i == Max({j \in 1..(Len(r) - 1) : before(j) <= mi})
          IN Toward(r[i], r[i + 1], mi - before(i))

HydrationInterval == 124      \* 3.1 miles

Hydration(length) ==
  {HydrationInterval * k : k \in 1..(Min({length, TargetDist}) \div HydrationInterval)}

Medical(length, n) ==
  LET finish == Min({length, TargetDist})
      major == {20, finish} \cup (IF n < 1000 THEN {} ELSE {800})
      course == IF n < 1000 THEN {524, 800}
                ELSE IF n <= 10000 THEN {320, 524, 680} ELSE {200, 400, 524, 680, 920}
  IN {Min({mi, length}) : mi \in major} \cup {mi \in course : mi < length}

\* Nearest integer to a / b, half to even.
Round(a, b) == LET q == a \div b
                   r2 == 2 * (a % b)
               IN IF r2 > b \/ (r2 = b /\ q % 2 = 1) THEN q + 1 ELSE q

\* Evenly distributed, moved to half way between two water stations.
Toilets(length, n) ==
  LET finish == Min({length, TargetDist})
      count == IF n < 1000 THEN 4 ELSE IF n < 5000 THEN 6 ELSE IF n <= 30000 THEN 8 ELSE 10
      offset == HydrationInterval \div 2
      nudged(i) == Round(finish * i, (count + 1) * offset) * offset + offset \div 2
  IN {IF nudged(i) > finish THEN finish - Mile \div 2 ELSE nudged(i) : i \in 1..count}

\* Four anchors, then even spacing, then every two and a half miles from the
\* second mile on, none within a mile and a half of another.
CheerZones(length, n) ==
  LET finish == Min({length, TargetDist})
      count == IF n < 1000 THEN 4 ELSE IF n <= 10000 THEN 6 ELSE 8
      anchors == {200, 524, 800, 1000}
      Apart(mi, S) == \A z \in S : Abs(mi - z) >= 60
      Added(S, mi) == IF Apart(mi, S) THEN S \cup {mi} ELSE S
      even[i \in 0..(count - 4)] ==
        IF i = 0 THEN anchors ELSE Added(even[i - 1], (finish * i) \div (count - 3))
      Filled(S, mi) == IF Cardinality(S) < count /\ mi < finish THEN Added(S, mi) ELSE S
      filled[i \in 0..10] ==
        IF i = 0 THEN even[count - 4] ELSE Filled(filled[i - 1], 80 + 100 * (i - 1))
  IN {mi \in IF n < 1000 THEN anchors ELSE filled[10] : mi <= finish}

Stations(r, n) ==
  LET length == Length(r)
      Of(type, S) == {[type |-> type, mi |-> mi, point |-> PointAtMile(r, mi)] : mi \in S}
  IN Of("water_station", Hydration(length)) \cup Of("medical_tent", Medical(length, n))
       \cup Of("portable_toilet", Toilets(length, n)) \cup Of("cheer_zone", CheerZones(length, n))

\* The finished clean candidate, else the longest clean one, else the longest;
\* an empty one raises and leaves the session without a plan.
Select ==
  /\ at = "select" /\ at' = "planned"
  /\ LET c == CASE route # <<>> -> [route |-> route, dist |-> total]
                [] route = <<>> /\ bestClean.route # <<>> -> bestClean
                [] OTHER -> best
     IN IF c.route = <<>> THEN UNCHANGED plan
        ELSE \E n \in RunnerCounts :
               plan' = [segments |-> Segments(c.route), distance |-> c.dist,
                        stations |-> Stations(Extract(Segments(c.route)), n)]
  /\ UNCHANGED <<work, route, total, poi, tries, fallback, best, bestClean, made>>

Next == StartAttempt \/ Hop \/ Explore \/ Connect \/ Judge \/ Candidate \/ Select

Spec == Init /\ [][Next]_vars

-----------------------------------------------------------------------------
Routes == {route, best.route, bestClean.route, fallback.route} \ {<<>>}

\* The distance that is kept up to date through hops, trims, interpolation and
\* extension is the length of the coordinates, of the zone and of every route.
DistanceIsLength ==
  /\ work # NoWork => work.dist = Length(work.zone)
  /\ route # <<>> => total = Length(route)
  /\ \A c \in {best, bestClean, fallback} : c.dist = Length(c.route)

\* Every route starts with the whole corridor and follows roads; only its last
\* point may lie between two nodes, and then on a road.
RouteFollowsRoads ==
  \A r \in Routes :
    /\ IsPrefix(Corridor, r)
    /\ \A i \in 1..(Len(r) - 2) : {r[i], r[i + 1]} \in Edges
    /\ r[Len(r) - 1] \in Nodes
    /\ \E n \in Neighbors[r[Len(r) - 1]] : Between(r[Len(r) - 1], Last(r), n)

\* However a route was tried, trimmed and extended, its distance is its length
\* and it follows roads.
RouteIsSound == DistanceIsLength /\ RouteFollowsRoads

\* If a candidate was clean the plan is, and it is a full marathon if a clean
\* candidate was.
PlanIsBest ==
  at = "planned" => \A c \in ToSet(made) :
    Clean(c.route) => /\ Clean(Extract(plan.segments))
                      /\ plan.distance >= Min({c.dist, TargetDist})

\* The LineStrings put together again are the route, without gap or repeated
\* junction, the distance index of the simulator covers it, and every station
\* lies on it: the toilets and water stations at different places if the route
\* is long enough.
PlanIsWhole ==
  plan # NoPlan =>
    LET r == Extract(plan.segments)
        index == DistanceIndex(plan.segments)
        MilesOf(type) == {s.mi : s \in {t \in plan.stations : t.type = type}}
    IN /\ r \in Routes /\ plan.distance = Length(r)
       /\ index[Len(index)].end = plan.distance
       /\ \A k \in 1..(Len(index) - 1) : index[k].end = index[k + 1].start
       /\ \A s \in plan.stations :
            /\ s.mi >= 0 /\ s.mi <= plan.distance
            /\ \E i \in 1..(Len(r) - 1) : Between(r[i], s.point, r[i + 1])
       /\ plan.distance >= TargetDist => MilesOf("water_station") \cap MilesOf("portable_toilet") = {}

\* The plan is as good as its best candidate and survives being cut into roads.
PlanIsSound == PlanIsBest /\ PlanIsWhole
=============================================================================
