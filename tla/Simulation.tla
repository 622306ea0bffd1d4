----------------------------- MODULE Simulation -----------------------------
(***************************************************************************)
(* The life of simulations that one simulator process runs side by side:   *)
(* a message calls the pipeline, which prepares, spawns runners, starts a  *)
(* collector, fires the gun, ticks, and lets a model compile and stop.     *)
(* The steps before the race follow each other whatever they return.  The  *)
(* session state and the collector are a simulation's own; the LoopAgent   *)
(* that bounds the race, race_engine, is one object for the process.       *)
(*                                                                         *)
(* What a tick does is in RaceTicks; here it may add finishers.  That end  *)
(* of a simulation reaches the dispatchers at once: see Dispatcher.        *)
(***************************************************************************)
EXTENDS Integers

CONSTANTS
  Sims,
  Plans,       \* plans a message may carry, [json, narrative, route, duration,
               \*   interval, count, type]
  Caps,        \* runner type -> cap_for_runner_type
  MaxFaults    \* bound: failures of Redis and of the gateway

\* The numbers of a plan are natural, and an interval is not zero: prepare divides
\* by it.  cap_for_runner_type knows every type.
ASSUME SimulationAssumption ==
  /\ MaxFaults \in Nat
  /\ \A p \in Plans : /\ p.duration \in Nat /\ p.interval \in Nat \ {0}
                      /\ p.count \in Nat /\ Caps[p.type] \in Nat

\* Shapes of a route: none at all, no features key, no features, features but no
\* line, a line, features that are no Feature objects.
Routes == {"absent", "bare", "empty", "points", "line", "corrupt"}

VARIABLES
  sims,        \* simulation -> its session state and progress
  engineMax,   \* race_engine.max_iterations
  local,       \* _instances: simulations with a collector in this process
  loops,       \* simulation -> number of collect loops that run for it
  marks,       \* Redis keys collector:active and collector:buffer
  pipeline,    \* "own", or "failing": that of simulator_with_failure
  faults

vars == <<sims, engineMax, local, loops, marks, pipeline, faults>>
collectors == <<local, loops, marks>>

None == [finished |-> -1, dnf |-> -1]

\* side is the route that the planner left in Redis; cut, hurt and stopped are
\* history: another race lowered the bound, a fault hit this simulation, and
\* stop_race_collector has run.
NewSim(plan, side) ==
  [pc |-> "root", plan |-> plan, side |-> side, ready |-> FALSE, inProgress |-> FALSE,
   ids |-> 0, spawned |-> FALSE, pending |-> 0, alive |-> 0, count |-> 0,
   maxTicks |-> 0, tick |-> 0, iterations |-> 0, finished |-> 0, result |-> None,
   cut |-> FALSE, hurt |-> FALSE, stopped |-> FALSE]

Init ==
  /\ sims \in [Sims -> {NewSim(p, d) : p \in Plans, d \in {"absent", "line", "corrupt"}}]
  /\ engineMax = 200 /\ pipeline \in {"own", "failing"}
  /\ local = {} /\ loops = [s \in Sims |-> 0] /\ marks = {} /\ faults = 0

At(s, pc) == sims[s].pc = pc
Set(s, r) == sims' = [sims EXCEPT ![s] = r]
Goes(s, pc) == Set(s, [sims[s] EXCEPT !.pc = pc])

\* b says whether a fault happens here.
Fault(b) == IF b THEN faults < MaxFaults /\ faults' = faults + 1 ELSE UNCHANGED faults

-----------------------------------------------------------------------------
(* The message and the preparation.                                        *)

\* verify_plan finds no issue.
Verified(p) == p.json /\ p.route \in {"absent", "line"} /\ p.narrative

\* _guard_pipeline_reexecution lets the first call through.
Call(s) ==
  /\ At(s, "root")
  /\ Goes(s, "prepare")
  /\ UNCHANGED <<engineMax, collectors, faults>>

Smaller(a, b) == IF a < b THEN a ELSE b

MaxTicksOf(p) == p.duration \div p.interval

\* validate_route_geojson
Sound(route) == route # "corrupt"

\* The route of the side channel comes before the one of the message.  What is
\* rejected leaves the session as it was, and the callback goes on all the same.
Prepare(s) ==
  /\ At(s, "prepare")
  /\ \E lost \in BOOLEAN :
       LET r == [sims[s] EXCEPT !.pc = "spawn", !.hurt = @ \/ lost]
           side == IF lost THEN "absent" ELSE r.side
           route == IF side # "absent" THEN side ELSE r.plan.route
       IN /\ Fault(lost)
          /\ IF r.inProgress \/ ~r.plan.json \/ ~Sound(route) THEN Set(s, r)
             ELSE Set(s, [r EXCEPT !.ready = TRUE, !.inProgress = TRUE, !.tick = 0,
                            !.maxTicks = MaxTicksOf(r.plan),
                            !.count = Smaller(r.plan.count, Caps[r.plan.type])])
  /\ UNCHANGED <<engineMax, collectors>>

\* Mutant: runner_count is not reconciled with what the gateway spawned.
SpawnUnreconciled(s) ==
  /\ At(s, "spawn")
  /\ IF ~sims[s].ready THEN Goes(s, "collect") /\ UNCHANGED faults
     ELSE \E n \in 0 .. sims[s].count, lost \in BOOLEAN :
            /\ Fault(lost)
            /\ Set(s, [sims[s] EXCEPT !.pc = "collect", !.pending = n, !.hurt = @ \/ lost,
                         !.ids = IF lost THEN 0 ELSE n, !.spawned = ~lost])
  /\ UNCHANGED <<engineMax, collectors>>

\* The gateway may spawn fewer runners than asked for, and when its answer is
\* lost it may have spawned some.
Spawn(s) ==
  /\ At(s, "spawn")
  /\ IF ~sims[s].ready THEN Goes(s, "collect") /\ UNCHANGED faults
     ELSE \E n \in 0 .. sims[s].count, lost \in BOOLEAN :
            /\ Fault(lost)
            /\ Set(s, [sims[s] EXCEPT !.pc = "collect", !.pending = n, !.hurt = @ \/ lost,
                         !.ids = IF lost THEN 0 ELSE n, !.spawned = ~lost,
                         !.count = IF lost THEN @ ELSE n])
  /\ UNCHANGED <<engineMax, collectors>>

\* A dispatcher takes a spawn event and registers the runner.
Register(s) ==
  /\ sims[s].pending > 0
  /\ Set(s, [sims[s] EXCEPT !.pending = @ - 1, !.alive = @ + 1])
  /\ UNCHANGED <<engineMax, collectors, faults>>

\* The tool of simulator_with_failure raises, and no callback drives its model.
FailToPrepare(s) ==
  /\ At(s, "prepare")
  /\ Goes(s, "engine")
  /\ UNCHANGED <<engineMax, collectors, faults>>

-----------------------------------------------------------------------------
(* The collector and the gun.                                              *)

\* start fails before the subscription, or with the loop running but neither
\* the mark nor the entry of _instances made.
StartsCollector(s, pc) ==
  \E outcome \in {"ok", "unsubscribed", "unmarked"} :
    /\ Fault(outcome # "ok")
    /\ Set(s, [sims[s] EXCEPT !.pc = pc, !.hurt = @ \/ outcome # "ok"])
    /\ loops' = IF outcome = "unsubscribed" THEN loops ELSE [loops EXCEPT ![s] = @ + 1]
    /\ local' = IF outcome = "ok" THEN local \cup {s} ELSE local
    /\ marks' = IF outcome = "ok" THEN marks \cup {s} ELSE marks

Skips(s, pc) == Goes(s, pc) /\ UNCHANGED <<collectors, faults>>

StartCollector(s) ==
  /\ At(s, "collect")
  /\ IF ~sims[s].ready \/ sims[s].ids = 0 THEN Skips(s, "gun") ELSE StartsCollector(s, "gun")
  /\ UNCHANGED engineMax

\* Mutant: the gun starts a collector whether or not one is running.
LoadGunAlwaysStarting(s) ==
  /\ At(s, "gun")
  /\ IF sims[s].ids = 0 THEN Skips(s, "engine") ELSE StartsCollector(s, "gate")
  /\ UNCHANGED engineMax

\* fire_start_gun makes up for a collector that did not start.
LoadGun(s) ==
  /\ At(s, "gun")
  /\ IF sims[s].ids = 0 THEN Skips(s, "engine")
     ELSE IF s \in local THEN Skips(s, "gate")
     ELSE StartsCollector(s, "gate")
  /\ UNCHANGED engineMax

\* Mutant: the gate has no timeout.
FireGunWhenAllReady(s) ==
  /\ At(s, "gate") /\ sims[s].pending = 0
  /\ Set(s, [sims[s] EXCEPT !.pc = "engine", !.tick = 0])
  /\ UNCHANGED <<engineMax, collectors, faults>>

\* All runners are registered, or a minute is over.
FireGun(s) ==
  /\ At(s, "gate")
  /\ Set(s, [sims[s] EXCEPT !.pc = "engine", !.tick = 0, !.hurt = @ \/ sims[s].pending > 0])
  /\ UNCHANGED <<engineMax, collectors, faults>>

\* get_message raises outside of the loop's own try, and the task ends with it.
LoopDies(s) ==
  /\ s \in local /\ loops[s] > 0
  /\ Fault(TRUE)
  /\ Set(s, [sims[s] EXCEPT !.hurt = TRUE])
  /\ loops' = [loops EXCEPT ![s] = @ - 1]
  /\ UNCHANGED <<engineMax, local, marks>>

-----------------------------------------------------------------------------
(* The race.                                                               *)

\* What LoopAgent gets to bound the race: the two pipelines differ by one.
EngineMax(r) == IF pipeline = "own" THEN r.maxTicks + 1 ELSE r.maxTicks

Racing(t) == sims[t].pc \in {"advance", "check"}

\* Every race that runs in this process obeys the new bound.
Bounded(s, bound) ==
  /\ engineMax' = bound
  /\ sims' = [t \in Sims |->
       IF t = s THEN [sims[t] EXCEPT !.pc = "advance", !.iterations = 0]
       ELSE [sims[t] EXCEPT !.cut = @ \/ (Racing(t) /\ bound < sims[t].maxTicks)]]

\* Mutant: the bound is off by one the other way.
ConfigureShort(s) ==
  /\ At(s, "engine")
  /\ IF sims[s].ready THEN Bounded(s, sims[s].maxTicks - 1)
     ELSE \E pc \in {"post", "done"} : Goes(s, pc) /\ UNCHANGED engineMax
  /\ UNCHANGED <<collectors, faults>>

\* Content returned by the callback skips the race, and ends this agent or, if
\* the flag reaches it, the pipeline.
Configure(s) ==
  /\ At(s, "engine")
  /\ IF sims[s].ready THEN Bounded(s, EngineMax(sims[s]))
     ELSE \E pc \in {"post", "done"} : Goes(s, pc) /\ UNCHANGED engineMax
  /\ UNCHANGED <<collectors, faults>>

\* LoopAgent's condition; the tick agent then calls advance_tick.
Advance(s) ==
  /\ At(s, "advance")
  /\ IF engineMax = 0 \/ sims[s].iterations < engineMax
       THEN \E f \in sims[s].finished .. sims[s].ids :
              Set(s, [sims[s] EXCEPT !.pc = "check", !.tick = @ + 1, !.finished = f])
       ELSE Goes(s, "post")
  /\ UNCHANGED <<engineMax, collectors, faults>>

\* check_race_complete escalates, else the iteration is over.
Check(s) ==
  /\ At(s, "check")
  /\ LET r == sims[s]
     IN Set(s, [r EXCEPT !.pc = IF r.tick >= r.maxTicks THEN "post" ELSE "advance",
                         !.iterations = @ + 1])
  /\ UNCHANGED <<engineMax, collectors, faults>>

-----------------------------------------------------------------------------
(* After the race a model calls these in any order, or not at all.         *)

Compile(s) ==
  /\ At(s, "post")
  /\ LET r == sims[s]
         dnf == IF r.count > r.finished THEN r.count - r.finished ELSE 0
     IN Set(s, [r EXCEPT !.result = [finished |-> r.finished, dnf |-> dnf]])
  /\ UNCHANGED <<engineMax, collectors, faults>>

\* Awaiting a task that died raises: the keys and the entry stay.
Raises(s) == s \in local /\ loops[s] = 0

Stopped(r, published, hurt) ==
  [r EXCEPT !.ready = FALSE, !.inProgress = FALSE, !.stopped = TRUE, !.hurt = @ \/ hurt,
            !.alive = IF published THEN 0 ELSE @]

\* Without an entry there is a proxy, which removes the keys only.  Errors are
\* swallowed, one by one, and the flags are cleared in every case.
StopCollector(s) ==
  /\ At(s, "post")
  /\ \E published, cleaned \in BOOLEAN :
       /\ Fault(~published \/ ~cleaned)
       /\ Set(s, Stopped(sims[s], published, ~published \/ ~cleaned))
       /\ marks' = IF cleaned /\ ~Raises(s) THEN marks \ {s} ELSE marks
  /\ local' = IF Raises(s) THEN local ELSE local \ {s}
  /\ loops' = IF s \in local /\ ~Raises(s) THEN [loops EXCEPT ![s] = @ - 1] ELSE loops
  /\ UNCHANGED engineMax

\* The model answers with text.
Finish(s) ==
  /\ At(s, "post")
  /\ Goes(s, "done")
  /\ UNCHANGED <<engineMax, collectors, faults>>

-----------------------------------------------------------------------------
\* pre_race, race_engine and post_race of the simulator.
OwnPipeline(s) ==
  \/ Prepare(s) \/ Spawn(s) \/ StartCollector(s) \/ LoadGun(s) \/ FireGun(s)
  \/ Configure(s) \/ Advance(s) \/ Check(s)
  \/ Compile(s) \/ StopCollector(s) \/ Finish(s)

\* The same three around tools that never let a race begin.
CustomPipeline(s) ==
  FailToPrepare(s) \/ Configure(s) \/ Compile(s) \/ StopCollector(s) \/ Finish(s)

SimulatorStep(s) ==
  /\ \/ Call(s)
     \/ pipeline = "own" /\ OwnPipeline(s)
     \/ pipeline = "failing" /\ CustomPipeline(s)
  /\ UNCHANGED pipeline

Next ==
  \E s \in Sims : SimulatorStep(s) \/ ((Register(s) \/ LoopDies(s)) /\ UNCHANGED pipeline)

Spec == Init /\ [][Next]_vars

\* Each call of a tool returns, and the model ends its turn; spawned runners
\* need not register.
Fairness == \A s \in Sims : WF_vars(SimulatorStep(s) /\ ~At(s, "root")) /\ WF_vars(Finish(s) /\ UNCHANGED pipeline)

FairSpec == Spec /\ Fairness

-----------------------------------------------------------------------------
RaceOver(r) == r.pc \in {"post", "done"}

\* verify_plan and the race engine agree: a plan that was verified, and whose
\* route reached the simulator, is raced for all its ticks, tick 0 included,
\* unless a shorter race of the same process lowered the common bound; no race
\* is longer, and without a verified plan, or a working preparation, there may be none.
RaceRunsItsTicks ==
  \A s \in Sims : LET r == sims[s]
                      ticks == IF MaxTicksOf(r.plan) = 0 THEN 1 ELSE MaxTicksOf(r.plan)
    IN /\ r.tick <= ticks
       /\ RaceOver(r) => \/ r.tick = ticks
                         \/ r.cut /\ r.tick > 0
                         \/ r.tick = 0 /\ (~Verified(r.plan) \/ r.side = "corrupt" \/ pipeline = "failing")

\* When a simulation was stopped and no fault hit it, nothing of it is left: no
\* collect loop, no key, no runner; however the others in the process fare.
StoppedIsGone ==
  \A s \in Sims : sims[s].stopped /\ ~sims[s].hurt =>
    /\ loops[s] = 0 /\ s \notin local \cup marks
    /\ sims[s].alive + sims[s].pending = 0

\* In the final report, each runner that the gateway spawned has either
\* finished or not.
ResultsAddUp ==
  \A s \in Sims : LET r == sims[s] IN
    r.spawned /\ r.result # None => r.result.finished + r.result.dnf = r.ids

\* A simulation that was called ends, whether or not its runners ever come.
SimulationEnds == \A s \in Sims : At(s, "prepare") ~> At(s, "done")
=============================================================================
