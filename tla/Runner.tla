------------------------------- MODULE Runner -------------------------------
(***************************************************************************)
(* One runner, deterministic ("autopilot") or driven by a model ("llm"):   *)
(* its profile, its vitals, and what each event of the race does to them.  *)
(* Ticks come in order, and some not at all (see RaceTicks); the other     *)
(* events come from the front end, at any time.                            *)
(*                                                                         *)
(* Distance is in small units, velocity in units per minute, water in      *)
(* twentieths.  How much water a tick takes is left open, except that it   *)
(* takes none when nothing was run.                                        *)
(***************************************************************************)
EXTENDS Integers, Sequences

CONSTANTS
  Profiles,    \* [ability (percent), velocity, water, wall, severity (quarters), cheers]
  Count,       \* runners in the race
  Race,        \* race_distance_mi
  Interval,    \* HYDRATION_STATION_INTERVAL_MI
  TicksMax,    \* max_ticks of the race
  Minutes,     \* minutes_per_tick
  Uses,        \* amounts of water that a tick may take
  Amounts,     \* that a model may pass to deplete_water and rehydrate
  MaxExtras    \* bound: events other than ticks, and calls of a model

\* A profile starts with 88 to 100 % of water; the wall takes at most the whole
\* speed; an amount of water is a number of percentage points, never negative.
ASSUME RunnerAssumption ==
  /\ Race \in Nat \ {0} /\ Interval \in Nat \ {0}
  /\ TicksMax \in Nat /\ Minutes \in Nat /\ Uses \subseteq Nat /\ Amounts \subseteq Nat
  /\ \A p \in Profiles : /\ p.velocity \in Nat /\ p.water \in 17 .. 20
                         /\ p.wall \in Int /\ p.severity \in 0 .. 4 /\ p.cheers \in BOOLEAN

Full == 20       \* 100 % of water
Exhaustion == 6  \* EXHAUSTION_THRESHOLD
Collapse == 2    \* COLLAPSE_THRESHOLD
Refill == 5      \* HYDRATION_STATION_REFILL
Boost == 4       \* intensity * boost_multiplier

VARIABLES
  mind,        \* autopilot or llm
  me,          \* the state of the session
  clock,       \* last tick that came, -1 before the first
  extras,
  top          \* history: highest velocity so far

oneRunnerVars == <<mind, me, clock, extras, top>>

Unset == -1

\* A session before initialize_runner: state.get's defaults.
NewRunner == [velocity |-> Unset, distance |-> 0, water |-> Full, exhausted |-> FALSE,
              collapsed |-> FALSE, finished |-> FALSE, finishTime |-> Unset,
              wall |-> Unset, severity |-> 0, cheers |-> TRUE, wave |-> 0]

RunnerInit ==
  /\ mind \in {"autopilot", "llm"}
  /\ me = NewRunner /\ clock = Unset /\ extras = 0 /\ top = 0

Least(a, b) == IF a < b THEN a ELSE b
Most(a, b) == IF a > b THEN a ELSE b

-----------------------------------------------------------------------------
(* Profile and waves.                                                      *)

\* _WAVE_CONFIG: cumulative percentages of the waves but the last, and the gap.
WaveConfig(count) ==
  IF count <= 50 THEN [upTo |-> <<>>, gap |-> 0]
  ELSE IF count <= 100 THEN [upTo |-> <<30>>, gap |-> 10]
  ELSE IF count <= 250 THEN [upTo |-> <<15, 45>>, gap |-> 8]
  ELSE [upTo |-> <<10, 30, 60>>, gap |-> 7]

\* compute_wave: the first threshold that the runner is below.
Wave(index, count) ==
  LET upTo == WaveConfig(count).upTo
      later == {i \in DOMAIN upTo : 100 * index < upTo[i] * count}
  IN IF later = {} THEN Len(upTo) ELSE (CHOOSE i \in later : \A j \in later : i <= j) - 1

\* ability_pct * (runner_count - 1), with the ability in percent.
RunnerIndex(ability, count) == (ability * (count - 1)) \div 100

\* A tick tells the autopilot the number of runners; a model's agent has the
\* default.
KnownCount == IF mind = "llm" THEN 10 ELSE Count

\* initialize_runner: everything is set, what was there before is gone.
Initialized(m) ==
  {[m EXCEPT !.velocity = p.velocity, !.distance = 0, !.water = p.water,
             !.exhausted = FALSE, !.collapsed = FALSE, !.finished = FALSE,
             !.wall = p.wall, !.severity = p.severity, !.cheers = p.cheers,
             !.wave = Wave(RunnerIndex(p.ability, KnownCount), KnownCount)] : p \in Profiles}

Profiled(m) == IF m.velocity = Unset THEN Initialized(m) ELSE {m}

-----------------------------------------------------------------------------
(* process_tick.                                                           *)

\* Mutant: the initialization tick takes time like the others.
TickMinutesAlways(t) == Minutes

\* Tick 0 moves nobody.
TickMinutes(t) == IF t = 0 THEN 0 ELSE Minutes

Freshness(t) == Most(750, 1000 - 2 * t)

\* Velocity with the factors of hydration, wall and fatigue, over the tick.
Covered(m, t, minutes) ==
  (m.velocity * (Full + m.water) * Freshness(t) * minutes
     * (4 - IF m.wall # Unset /\ m.distance > m.wall THEN m.severity ELSE 0))
  \div (8 * Full * 1000)

\* A station is used at low water or when exhausted, and else perhaps.
Sip(ws, exhausted) ==
  {Least(Full, w + Refill) : w \in ws} \cup (IF exhausted THEN {} ELSE {w \in ws : w > 8})

\* The water after n stations.
AfterStations(w, exhausted, n) ==
  LET after[i \in 0 .. n] == IF i = 0 THEN {w} ELSE Sip(after[i - 1], exhausted)
  IN after[n]

\* Vitals that follow from the water.
Drained(m, w) ==
  [m EXCEPT !.water = w, !.exhausted = w < Exhaustion,
            !.collapsed = @ \/ w < Collapse]

\* The time of the finish is interpolated within the tick, rounded up.
FinishTime(m, t, run) == t * Minutes - (TickMinutes(t) * (m.distance + run - Race)) \div run

Moved(m, t, w) ==
  LET run == Covered(m, t, TickMinutes(t))
      d == Least(m.distance + run, Race)
  IN [Drained(m, w) EXCEPT !.distance = d, !.finished = d >= Race,
        !.finishTime = IF d >= Race THEN FinishTime(m, t, run) ELSE @]

\* The stations that the tick passed are visited one by one.
AfterTick(m, t) ==
  LET run == Covered(m, t, TickMinutes(t))
      d == Least(m.distance + run, Race)
      stations == d \div Interval - m.distance \div Interval
  IN UNION {{Moved(m, t, w) : w \in AfterStations(Most(0, m.water - u), m.exhausted, stations)} :
            u \in IF run = 0 THEN {0} ELSE Uses}

\* Mutant: a runner that has finished runs on.
TickedOn(m, t) == IF m.collapsed THEN {m} ELSE AfterTick(m, t)

\* Finished and collapsed runners report what they had.
Ticked(m, t) == IF m.finished \/ m.collapsed THEN {m} ELSE AfterTick(m, t)

-----------------------------------------------------------------------------
(* The other tools.                                                        *)

Speed(m) == Most(0, m.velocity)

Accelerated(m) ==
  [m EXCEPT !.velocity = Speed(m) + IF m.cheers THEN (Boost * (Full + m.water)) \div (2 * Full) ELSE 0]

Braked(m) == [m EXCEPT !.velocity = Most(0, Speed(m) - 15 * Boost)]

Depleted(m, a) == Drained(m, Most(0, m.water - a))

\* Mutant: only the water is restored.
RehydratedOnly(m, a) == [m EXCEPT !.water = Least(Full, m.water + a)]

\* A collapsed runner gets up only above the threshold of exhaustion.
Rehydrated(m, a) ==
  LET w == Least(Full, m.water + a)
  IN IF w >= Exhaustion
       THEN [m EXCEPT !.water = w, !.exhausted = FALSE, !.collapsed = FALSE]
       ELSE [m EXCEPT !.water = w]

-----------------------------------------------------------------------------
(* Events.                                                                 *)

Becomes(m) == me' = m /\ top' = Most(top, m.velocity)

\* Some later tick than the last; handle_tick, or the callback of the model's
\* agent, which keeps the parameters of the tick and leaves the rest to tools.
Tick ==
  \E t \in clock + 1 .. TicksMax - 1, m \in Profiled(me) :
    /\ clock' = t
    /\ IF mind = "llm" THEN Becomes(m) ELSE \E n \in Ticked(m, t) : Becomes(n)
    /\ UNCHANGED <<mind, extras>>

Extra == extras < MaxExtras /\ extras' = extras + 1 /\ UNCHANGED <<mind, clock>>

\* crowd_boost: a runner without a profile gets a velocity by it.
CrowdBoost == mind = "autopilot" /\ Becomes(Accelerated(me)) /\ Extra

\* hydration_station: certainly at low water or when exhausted, else perhaps.
HydrationStation == mind = "autopilot" /\ Becomes(Rehydrated(me, 6)) /\ Extra

\* A model is told to call process_tick once per tick; it may call any tool at
\* any time, once an event has come.
CallsTool ==
  /\ mind = "llm" /\ Extra
  /\ \E m \in Profiled(me) :
       \/ Becomes(Accelerated(m)) \/ Becomes(Braked(m))
       \/ \E a \in Amounts : Becomes(Depleted(m, a)) \/ Becomes(Rehydrated(m, a))

\* Without the parameters of a tick the tool returns an error.
CallsProcessTick ==
  /\ mind = "llm" /\ clock # Unset /\ Extra
  /\ \E m \in Ticked(me, clock) : Becomes(m)

RunnerNext ==
  \/ Tick \/ CrowdBoost \/ HydrationStation
  \/ CallsTool \/ CallsProcessTick

RunnerSpec == RunnerInit /\ [][RunnerNext]_oneRunnerVars

-----------------------------------------------------------------------------
\* However tools and ticks mix, the flags agree with the water: a runner is
\* exhausted below the threshold, and one that lies down is exhausted, so that
\* some drink will get it up; who has finished is at the line and has a time.
VitalsAgree ==
  /\ me.exhausted <=> me.water < Exhaustion
  /\ me.collapsed => me.exhausted
  /\ me.finished => me.distance = Race /\ me.finishTime # Unset

\* Nobody is credited with a time that its highest velocity does not allow,
\* though the distance adds up over ticks and the time comes from the number
\* of one; of ticks that come at most once each, as the autopilot takes them.
NobodyFinishesEarly ==
  mind = "autopilot" /\ me.finished => me.finishTime * top >= Race

\* A finish is final: whatever is called afterwards, in particular by a model
\* that goes on calling tools, the runner keeps its place and its time.
FinishIsFinal ==
  [][me.finished => me'.finished /\ me'.distance = me.distance
                    /\ me'.finishTime = me.finishTime]_oneRunnerVars
=============================================================================
