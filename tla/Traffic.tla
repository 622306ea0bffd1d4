------------------------------ MODULE Traffic ------------------------------
(***************************************************************************)
(* What a planned course closes, and how its roads open again behind the   *)
(* runners: the assessment the planner makes of the route, and the traffic *)
(* model that the simulator builds from it and moves with every tick.      *)
(***************************************************************************)
EXTENDS Course

CONSTANTS
  Overlaps,   \* roads to split: which of their points lie on the route, and
              \* which are junctions, as sets of indexes; and their length
  Sweeps,     \* positions of the sweep, in tenths of the course
  MaxTicks    \* bound on the ticks of a race

\* A road to split has points on the route and junctions among its own.
ASSUME TrafficAssumption ==
  \A o \in Overlaps : o[1] \in Nat /\ o[2] \subseteq 1..o[1] /\ o[3] \subseteq 1..o[1]

MaxCongestionTicks == 10

VARIABLES
  parts,      \* split of one road, or empty: closed, affected, open stretches
  assessment, \* traffic_assessment of the session
  index,      \* segment_index of the traffic model
  state,      \* ticks_closed: road name -> closed ticks and peak
  levels,     \* congestion of the segments at the last tick
  swept       \* history: the sweep at every tick

trafficVars == <<parts, assessment, index, state, levels, swept>>

NoParts == [closed |-> {}, affected |-> {}, open |-> {}, of |-> <<>>]
NoAssessment == [closed |-> {}, route |-> {}, affected |-> {}, intersections |-> {}]

-----------------------------------------------------------------------------
(* Splitting a road.  A stretch is a pair of indexes of the road's points.  *)

\* Maximal runs of two or more points on the route.
Runs(n, on) ==
  {s \in (1..n) \X (1..n) :
     /\ s[1] < s[2] /\ s[1]..s[2] \subseteq on /\ s[1] - 1 \notin on /\ s[2] + 1 \notin on}

\* Points of a stretch, without its ends, that are junctions.
Inner(a, b, junctions) == junctions \cap ((a + 1)..(b - 1))

\* Between two closures: affected up to the junction next to each of them.
Gap(a, b, junctions) ==
  LET J == Inner(a, b, junctions)
  IN IF J = {} THEN [affected |-> {<<a, b>>}, open |-> {}]
     ELSE [affected |-> {<<a, Min(J)>>, <<Max(J), b>>},
           open |-> IF Min(J) < Max(J) THEN {<<Min(J), Max(J)>>} ELSE {}]

\* Mutant: the search for a junction starts at the closure itself.
TailAfterFromEnd(a, n, junctions) ==
  LET J == junctions \cap (a..n)
  IN IF J = {} THEN [affected |-> {<<a, n>>}, open |-> {}]
     ELSE [affected |-> IF Min(J) > a THEN {<<a, Min(J)>>} ELSE {},
           open |-> IF Min(J) < n THEN {<<Min(J), n>>} ELSE {}]

\* After the last closure, whose end is a: affected up to the next junction.
TailAfter(a, n, junctions) ==
  LET J == junctions \cap ((a + 1)..n)
  IN IF J = {} THEN [affected |-> {<<a, n>>}, open |-> {}]
     ELSE [affected |-> {<<a, Min(J)>>},
           open |-> IF Min(J) < n THEN {<<Min(J), n>>} ELSE {}]

\* Before the first closure, which starts at b.
TailBefore(b, junctions) ==
  LET J == junctions \cap (1..(b - 1))
  IN IF J = {} THEN [affected |-> {<<1, b>>}, open |-> {}]
     ELSE [affected |-> {<<Max(J), b>>},
           open |-> IF Max(J) > 1 THEN {<<1, Max(J)>>} ELSE {}]

\* _split_road_at_closure: nothing if no two neighbouring points are on the
\* route.
SplitRoad(n, on, junctions) ==
  LET R == Runs(n, on)
      first == Min({r[1] : r \in R})
      last == Max({r[2] : r \in R})
      gaps == {Gap(x[1][2], x[2][1], junctions) :
                 x \in {y \in R \X R : /\ y[1][2] < y[2][1]
                                       /\ \A t \in R : t[1] <= y[1][1] \/ t[1] >= y[2][1]}}
      all == gaps \cup (IF first > 1 THEN {TailBefore(first, junctions)} ELSE {})
                  \cup (IF last < n THEN {TailAfter(last, n, junctions)} ELSE {})
  IN IF R = {} THEN [closed |-> {}, affected |-> {}, open |-> {}]
     ELSE [closed |-> R, affected |-> UNION {g.affected : g \in all},
           open |-> UNION {g.open : g \in all}]

-----------------------------------------------------------------------------
(* The assessment of a route.                                              *)

Match(p, q) == Dist(p, q) < Mile \div 20

\* Points of the network that two roads of different names share.
Junctions ==
  {p \in UNION {ToSet(Roads[i].coords) : i \in 1..Len(Roads)} :
     \E i, j \in 1..Len(Roads) : /\ Roads[i].name # Roads[j].name
                                 /\ p \in ToSet(Roads[i].coords) \cap ToSet(Roads[j].coords)}

Stretch(i, ab) == [name |-> Roads[i].name, coords |-> SubSeq(Roads[i].coords, ab[1], ab[2])]

\* A road is open with fewer than two points on the route, closed with all of
\* them, split otherwise and open if that closes nothing.
Classified(i, r) ==
  LET c == Roads[i].coords
      on == {k \in 1..Len(c) : \E p \in ToSet(r) : Match(c[k], p)}
      s == SplitRoad(Len(c), on, {k \in 1..Len(c) : c[k] \in Junctions})
      whole == Stretch(i, <<1, Len(c)>>)
      Of(S) == {Stretch(i, ab) : ab \in S}
  IN CASE Cardinality(on) = Len(c) /\ Len(c) >= 2 -> [closed |-> {whole}, affected |-> {}, open |-> {}]
       [] Cardinality(on) < 2 \/ s.closed = {} -> [closed |-> {}, affected |-> {}, open |-> {whole}]
       [] OTHER -> [closed |-> Of(s.closed), affected |-> Of(s.affected), open |-> Of(s.open)]

EndsOf(S) == UNION {{s.coords[1], Last(s.coords)} : s \in S}

\* A closed stretch that the runners run along from end to end.
RouteLine(s, r) == EdgesOf(s.coords) \subseteq EdgesOf(r)

\* The ends of closed stretches where two names meet.
Intersections(closed, all) ==
  LET names(q) == {s.name : s \in {t \in all : \E p \in EndsOf({t}) : Match(p, q)}}
  IN {[at |-> q, streets |-> names(q)] : q \in {p \in EndsOf(closed) : Cardinality(names(p)) >= 2}}

\* identify_closed_segments: open stretches that meet a closed one are affected
\* too; a closed stretch that is part of the route is not reported as closed.
Identify(r) ==
  LET C == {Classified(i, r) : i \in 1..Len(Roads)}
      closed == UNION {c.closed : c \in C}
      split == UNION {c.affected : c \in C}
      open == UNION {c.open : c \in C}
      Touch(s) == \E p \in {s.coords[1], Last(s.coords)}, q \in EndsOf(closed) : Match(p, q)
      along == {s \in closed : RouteLine(s, r)}
  IN [closed |-> closed \ along, route |-> along,
      affected |-> split \cup {s \in open : Touch(s)},
      intersections |-> Intersections(closed, closed \cup split \cup open)]

\* assess_traffic_impact: the route is read, a model is asked for a narrative,
\* and the assessment is stored whether it answers or not.
Assess ==
  /\ at = "planned" /\ plan # NoPlan /\ assessment = NoAssessment
  /\ assessment' = Identify(Extract(plan.segments))
  /\ UNCHANGED <<vars, parts, index, state, levels, swept>>

\* A road of any network that overlaps a route in any way.
SplitAny ==
  /\ parts = NoParts /\ at = "attempt" /\ made = <<>> /\ tries = 0
  /\ \E o \in Overlaps :
       LET s == SplitRoad(o[1], o[2], o[3])
       IN parts' = [closed |-> s.closed, affected |-> s.affected, open |-> s.open, of |-> o]
  /\ at' = "split"
  /\ UNCHANGED <<work, route, total, poi, tries, fallback, best, bestClean, made, plan,
                 assessment, index, state, levels, swept>>

-----------------------------------------------------------------------------
(* The traffic model of a race.                                            *)

\* The simulator has the course and nothing else of the planner's session.
StartRace ==
  /\ at = "planned" /\ plan # NoPlan /\ assessment = NoAssessment /\ at' = "race"
  /\ index' = DistanceIndex(plan.segments)
  /\ state' = [n \in {s.name : s \in ToSet(index')} |-> [closed |-> 0, peak |-> 0]]
  /\ work' = NoWork /\ route' = <<>> /\ total' = 0 /\ tries' = 0 /\ fallback' = NoFallback
  /\ best' = None /\ bestClean' = None /\ made' = <<>> /\ plan' = NoPlan
  /\ UNCHANGED <<poi, parts, assessment, levels, swept>>

Behind(seg, sweep) == seg.start + seg.end <= 2 * sweep

\* Mutant: a road that opens keeps the ticks it was closed.
MovedKeeps(s, seg, sweep) ==
  LET peak == IF s.closed > 0 THEN Min({100, (100 * s.closed) \div MaxCongestionTicks}) ELSE s.peak
      faded == (peak * 7) \div 10
  IN IF Behind(seg, sweep)
       THEN [closed |-> s.closed, peak |-> IF faded <= 1 THEN 0 ELSE faded]
       ELSE [closed |-> s.closed + 1, peak |-> 0]

\* One segment: behind the sweep its congestion fades, by three tenths a tick,
\* from the level it had when it was closed; ahead of it, it grows.  Levels are
\* in hundredths.
Moved(s, seg, sweep) ==
  LET peak == IF s.closed > 0 THEN Min({100, (100 * s.closed) \div MaxCongestionTicks}) ELSE s.peak
      faded == (peak * 7) \div 10
  IN IF Behind(seg, sweep)
       THEN [closed |-> 0, peak |-> IF faded <= 1 THEN 0 ELSE faded]
       ELSE [closed |-> s.closed + 1, peak |-> 0]

\* compute_tick_traffic: the segments in order, over one state per road name.
Tick ==
  /\ at = "race" /\ Len(swept) < MaxTicks
  /\ \E x \in Sweeps :
       LET sweep == (index[Len(index)].end * x) \div 10
           after[k \in 0..Len(index)] ==
             IF k = 0 THEN [state |-> state, levels |-> <<>>]
             ELSE LET seg == index[k]
                      before == after[k - 1]
                      s == Moved(before.state[seg.name], seg, sweep)
                  IN [state |-> [before.state EXCEPT ![seg.name] = s],
                      levels |-> Append(before.levels,
                                   IF Behind(seg, sweep) THEN s.peak
                                   ELSE Min({100, (100 * s.closed) \div MaxCongestionTicks}))]
           moved == after[Len(index)]
       IN /\ state' = moved.state
          /\ levels' = moved.levels
          /\ swept' = Append(swept, sweep)
  /\ UNCHANGED <<vars, parts, assessment, index>>

TrafficInit ==
  /\ Init /\ parts = NoParts /\ assessment = NoAssessment
  /\ index = <<>> /\ state = <<>> /\ levels = <<>> /\ swept = <<>>

TrafficNext ==
  \/ Next /\ assessment = NoAssessment /\ UNCHANGED trafficVars
  \/ Assess \/ SplitAny \/ StartRace \/ Tick

TrafficSpec == TrafficInit /\ [][TrafficNext]_<<vars, trafficVars>>

-----------------------------------------------------------------------------
\* An edge of a split road, from its k-th point to the next, belongs to one
\* stretch: a closed one if both points are on the route, an affected one if no
\* junction lies between it and a closure, else an open one.
SplitIsRight ==
  parts # NoParts =>
    LET n == parts.of[1]
        on == parts.of[2]
        R == {k \in 1..(n - 1) : {k, k + 1} \subseteq on}
        In(S, k) == \E ab \in S : ab[1] <= k /\ k + 1 <= ab[2]
        Cut(k) == \/ \E c \in R : /\ c < k /\ \A j \in c..k : j \in R => j = c
                                  /\ parts.of[3] \cap ((c + 2)..k) = {}
                  \/ \E c \in R : /\ c > k /\ \A j \in k..c : j \in R => j = c
                                  /\ parts.of[3] \cap ((k + 1)..(c - 1)) = {}
    IN \A k \in 1..(n - 1) : R # {} =>
         /\ In(parts.closed, k) <=> k \in R
         /\ In(parts.affected, k) <=> (k \notin R /\ Cut(k))
         /\ In(parts.open, k) <=> (k \notin R /\ ~Cut(k))

\* Every road the runners run along from one node to the next is closed, and
\* nothing closed is reported open or affected too.
RouteIsClosed ==
  assessment # NoAssessment =>
    LET r == Extract(plan.segments)
        closed == UNION {EdgesOf(s.coords) : s \in assessment.closed \cup assessment.route}
    IN /\ Edges \cap EdgesOf(r) \subseteq closed
       /\ \A s \in assessment.affected : EdgesOf(s.coords) \cap closed = {}

\* Roads are closed where the runners run, and only there.
ClosuresAreRight == SplitIsRight /\ RouteIsClosed

\* For a road that the course follows once, the closed ticks are the ticks in a
\* row, up to now, that its middle has been ahead of the sweep; it is free
\* behind the sweep only after it has been given back.
ClosedTicksInARow ==
  \A k \in 1..Len(index) :
    (\A j \in 1..Len(index) : index[j].name = index[k].name => j = k) =>
      LET ahead == {t \in 1..Len(swept) : ~Behind(index[k], swept[t])}
          row == {t \in 1..Len(swept) : t..Len(swept) \subseteq ahead}
      IN /\ state[index[k].name].closed = Cardinality(row)
         /\ row # {} => levels[k] > 0
=============================================================================
