-------------------------- MODULE SimulationProofs --------------------------
(***************************************************************************)
(* Proofs about Simulation for any number of simulations side by side, any *)
(* plans and any number of faults.                                         *)
(*                                                                         *)
(* What a step does to one simulation depends on that simulation and on    *)
(* engineMax, so the invariant is a predicate of one session's record and  *)
(* of the bound.  Only Configure reaches into the others: it may lower the *)
(* bound under a race that runs, and then records that the race was cut.   *)
(***************************************************************************)
EXTENDS Simulation, TLAPS

Early == {"root", "prepare", "spawn", "collect"}
Steps == Early \cup {"gun", "gate", "engine", "advance", "check", "post", "done"}

SimType ==
  [pc : Steps, plan : Plans, side : {"absent", "line", "corrupt"}, ready : BOOLEAN,
   inProgress : BOOLEAN, ids : Nat, spawned : BOOLEAN, pending : Nat, alive : Nat,
   count : Nat, maxTicks : Nat, tick : Nat, iterations : Nat, finished : Nat,
   result : [finished : Int, dnf : Int], cut : BOOLEAN, hurt : BOOLEAN, stopped : BOOLEAN]

TypeOK ==
  /\ sims \in [Sims -> SimType]
  /\ engineMax \in Nat \ {0} /\ pipeline \in {"own", "failing"}
  /\ local \subseteq Sims /\ loops \in [Sims -> Int] /\ marks \subseteq Sims
  /\ faults \in Nat

\* What excuses a simulation from racing at all.
Excused(r, line) == ~Verified(r.plan) \/ r.side = "corrupt" \/ line = "failing"

Ticks(p) == IF MaxTicksOf(p) = 0 THEN 1 ELSE MaxTicksOf(p)

\* A race that runs is within its bound, and the bound is its own or larger
\* unless the race was cut; one tick more is due as long as it advances.
RaceInv(r, bound, line) ==
  /\ r.pc \in {"root", "prepare"} => ~r.ready /\ ~r.inProgress
  /\ r.ready => r.maxTicks = MaxTicksOf(r.plan) /\ line = "own"
  /\ r.pc \notin {"advance", "check", "post", "done"} => r.tick = 0
  /\ r.pc \in {"spawn", "collect", "gun", "gate", "engine"} => r.ready \/ Excused(r, line)
  /\ r.pc \in {"advance", "check"} => r.ready /\ (r.cut \/ r.maxTicks <= bound)
  /\ r.pc = "advance" => r.iterations = r.tick /\ r.tick < Ticks(r.plan)
  /\ r.pc = "check" => r.iterations + 1 = r.tick /\ r.tick <= Ticks(r.plan)
  /\ r.pc \in {"post", "done"} =>
       \/ r.tick = Ticks(r.plan)
       \/ r.cut /\ r.tick > 0 /\ r.tick < Ticks(r.plan)
       \/ r.tick = 0 /\ Excused(r, line)

\* Runners of a simulation that no fault hit are spawned, register, and go.
RunnersInv(r) ==
  /\ r.pc \in {"root", "prepare", "spawn"} =>
       r.ids = 0 /\ r.pending = 0 /\ r.alive = 0 /\ ~r.spawned
  /\ r.stopped => r.pc \in {"post", "done"}
  /\ ~r.hurt => /\ r.pending + r.alive = IF r.stopped THEN 0 ELSE r.ids
                /\ r.pc \notin Early \cup {"gun", "gate"} => r.pending = 0

\* Each collector has a loop, a mark and an entry.
CollectorInv(s, r) ==
  /\ r.pc \in Early => s \notin local
  /\ ~r.hurt => /\ loops[s] = IF s \in local THEN 1 ELSE 0
                /\ (s \in marks <=> s \in local)
                /\ r.stopped => s \notin local

ReportInv(r) ==
  /\ r.finished <= r.ids
  /\ r.spawned => r.count = r.ids
  /\ r.result # None => r.pc \in {"post", "done"}
  /\ r.spawned /\ r.result # None => r.result.finished + r.result.dnf = r.ids

SimInv ==
  /\ TypeOK
  /\ \A s \in Sims : /\ RaceInv(sims[s], engineMax, pipeline)
                     /\ RunnersInv(sims[s])
                     /\ CollectorInv(s, sims[s])
                     /\ ReportInv(sims[s])

----------------------------------------------------------------------------
(* A step of one simulation leaves the others as they were.                *)

OwnInv(s) ==
  /\ RaceInv(sims[s], engineMax, pipeline)
  /\ RunnersInv(sims[s])
  /\ CollectorInv(s, sims[s])
  /\ ReportInv(sims[s])

\* The collector of a simulation that a step is not about.
OthersKept(t) ==
  loops'[t] = loops[t] /\ (t \in local' <=> t \in local) /\ (t \in marks' <=> t \in marks)

LEMMA StepOfOne ==
  ASSUME SimInv, NEW s \in Sims, NEW r \in SimType, Set(s, r),
         UNCHANGED <<engineMax, pipeline>>, faults' \in Nat,
         local' \subseteq Sims, loops' \in [Sims -> Int], marks' \subseteq Sims,
         \A t \in Sims \ {s} : OthersKept(t),
         RaceInv(r, engineMax, pipeline), RunnersInv(r), ReportInv(r), CollectorInv(s, r)'
  PROVE  SimInv'
<1>1. sims' \in [Sims -> SimType] /\ sims'[s] = r
      /\ \A t \in Sims \ {s} : sims'[t] = sims[t]
  BY DEF Set, SimInv, TypeOK
<1>2. TypeOK'
  BY <1>1 DEF SimInv, TypeOK
<1>3. OwnInv(s)'
  BY <1>1 DEF OwnInv
<1>4. ASSUME NEW t \in Sims \ {s} PROVE OwnInv(t)'
  <2>1. OwnInv(t) /\ sims'[t] = sims[t]
    BY <1>1 DEF SimInv, OwnInv
  <2>2. OthersKept(t)
    OBVIOUS
  <2>3. CollectorInv(t, sims[t])'
    BY <2>1, <2>2 DEF OwnInv, CollectorInv, OthersKept
  <2> QED
    BY <2>1, <2>3 DEF OwnInv
<1> QED
  BY <1>2, <1>3, <1>4 DEF SimInv, OwnInv

\* A step that touches no collector.
LEMMA QuietStep ==
  ASSUME SimInv, NEW s \in Sims, NEW r \in SimType, Set(s, r),
         UNCHANGED <<engineMax, collectors, pipeline>>, faults' \in Nat,
         RaceInv(r, engineMax, pipeline), RunnersInv(r), ReportInv(r), CollectorInv(s, r)
  PROVE  SimInv'
<1>1. UNCHANGED <<local, loops, marks>>
  BY DEF collectors
<1>2. local \subseteq Sims /\ loops \in [Sims -> Int] /\ marks \subseteq Sims
  BY DEF SimInv, TypeOK
<1>3. CollectorInv(s, r)'
  BY <1>1 DEF CollectorInv
<1>4. UNCHANGED <<engineMax, pipeline>>
  OBVIOUS
<1>5. \A t \in Sims \ {s} : OthersKept(t)
  BY <1>1 DEF OthersKept
<1> QED
  BY <1>1, <1>2, <1>3, <1>4, <1>5, StepOfOne

\* What is known of one simulation.
LEMMA Known ==
  ASSUME SimInv, NEW s \in Sims
  PROVE  sims[s] \in SimType /\ OwnInv(s) /\ faults \in Nat
BY DEF SimInv, TypeOK, OwnInv

LEMMA InitLemma == Init => SimInv
<1> SUFFICES ASSUME Init PROVE SimInv
  OBVIOUS
<1>1. ASSUME NEW p \in Plans, NEW d \in {"absent", "line", "corrupt"}
      PROVE  /\ NewSim(p, d) \in SimType
             /\ RunnersInv(NewSim(p, d)) /\ ReportInv(NewSim(p, d))
             /\ \A line : RaceInv(NewSim(p, d), 200, line)
  BY DEF NewSim, None, SimType, Steps, Early, RunnersInv, ReportInv, RaceInv
<1>2. TypeOK
  BY <1>1 DEF Init, TypeOK
<1>3. ASSUME NEW s \in Sims PROVE OwnInv(s)
  <2>1. PICK p \in Plans, d \in {"absent", "line", "corrupt"} : sims[s] = NewSim(p, d)
    BY DEF Init
  <2>2. CollectorInv(s, sims[s])
    BY <2>1 DEF Init, CollectorInv, NewSim
  <2> QED
    BY <1>1, <2>1, <2>2 DEF Init, OwnInv
<1> QED
  BY <1>2, <1>3 DEF SimInv, OwnInv

LEMMA PlanTicks ==
  ASSUME NEW p \in Plans
  PROVE  /\ MaxTicksOf(p) \in Nat /\ Ticks(p) \in Nat \ {0}
         /\ Ticks(p) = MaxTicksOf(p) \/ (Ticks(p) = 1 /\ MaxTicksOf(p) = 0)
<1>1. MaxTicksOf(p) \in Nat
  BY SimulationAssumption DEF MaxTicksOf
<1> QED
  BY <1>1 DEF Ticks

\* What two records have in common.
SameRace(r, q) ==
  /\ r.plan = q.plan /\ r.side = q.side /\ r.ready = q.ready /\ r.inProgress = q.inProgress
  /\ r.maxTicks = q.maxTicks /\ r.tick = q.tick /\ r.iterations = q.iterations
  /\ r.cut = q.cut

SameRunners(r, q) ==
  /\ r.ids = q.ids /\ r.pending = q.pending /\ r.alive = q.alive
  /\ r.spawned = q.spawned /\ r.stopped = q.stopped /\ r.hurt = q.hurt

SameReport(r, q) ==
  /\ r.ids = q.ids /\ r.spawned = q.spawned /\ r.count = q.count
  /\ r.finished = q.finished /\ r.result = q.result

----------------------------------------------------------------------------
(* Before the race.  Each lemma names the record that the step leaves.     *)

LEMMA CallLemma ==
  ASSUME SimInv, NEW s \in Sims, Call(s), UNCHANGED pipeline
  PROVE  SimInv'
<1> DEFINE r == [sims[s] EXCEPT !.pc = "prepare"]
<1>1. /\ Set(s, r) /\ sims[s].pc = "root"
      /\ UNCHANGED <<engineMax, collectors, pipeline>> /\ faults' = faults
  BY DEF Call, Goes, At
<1>2. r \in SimType
  BY Known DEF SimType, Steps, Early
<1>3. RaceInv(r, engineMax, pipeline) /\ RunnersInv(r) /\ ReportInv(r) /\ CollectorInv(s, r)
  BY <1>1, Known DEF SimType, OwnInv, RaceInv, RunnersInv, ReportInv, CollectorInv, Early
<1> HIDE DEF r
<1> QED
  BY <1>1, <1>2, <1>3, Known, QuietStep

LEMMA PrepareLemma ==
  ASSUME SimInv, NEW s \in Sims, Prepare(s), UNCHANGED pipeline, pipeline = "own"
  PROVE  SimInv'
<1>1. sims[s] \in SimType /\ OwnInv(s) /\ At(s, "prepare")
  BY Known DEF Prepare
<1>2. PICK lost \in BOOLEAN :
        LET r == [sims[s] EXCEPT !.pc = "spawn", !.hurt = @ \/ lost]
            side == IF lost THEN "absent" ELSE r.side
            route == IF side # "absent" THEN side ELSE r.plan.route
        IN /\ Fault(lost)
           /\ IF r.inProgress \/ ~r.plan.json \/ ~Sound(route) THEN Set(s, r)
              ELSE Set(s, [r EXCEPT !.ready = TRUE, !.inProgress = TRUE, !.tick = 0,
                             !.maxTicks = MaxTicksOf(r.plan),
                             !.count = Smaller(r.plan.count, Caps[r.plan.type])])
  BY DEF Prepare
<1> DEFINE q == [sims[s] EXCEPT !.pc = "spawn", !.hurt = @ \/ lost]
           side == IF lost THEN "absent" ELSE q.side
           route == IF side # "absent" THEN side ELSE q.plan.route
           okay == ~(q.inProgress \/ ~q.plan.json \/ ~Sound(route))
           done == [q EXCEPT !.ready = TRUE, !.inProgress = TRUE, !.tick = 0,
                             !.maxTicks = MaxTicksOf(q.plan),
                             !.count = Smaller(q.plan.count, Caps[q.plan.type])]
           r == IF okay THEN done ELSE q
<1>3. q \in SimType /\ q.plan = sims[s].plan /\ q.side = sims[s].side /\ q.pc = "spawn"
      /\ ~q.inProgress /\ q.tick = 0 /\ q.ids = 0 /\ q.pending = 0 /\ q.alive = 0
      /\ ~q.spawned /\ ~q.ready /\ q.result = None /\ ~q.stopped /\ q.finished = 0
      /\ (~q.hurt => ~sims[s].hurt)
  <2>1. /\ ~sims[s].inProgress /\ ~sims[s].ready /\ ~sims[s].spawned
        /\ ~sims[s].stopped /\ sims[s].tick = 0 /\ sims[s].ids = 0
        /\ sims[s].pending = 0 /\ sims[s].alive = 0
    BY <1>1 DEF At, OwnInv, RaceInv, RunnersInv
  <2>2. sims[s].result = None /\ sims[s].finished = 0
    BY <1>1, <2>1 DEF At, OwnInv, ReportInv, SimType
  <2>3. q \in SimType
    BY <1>1 DEF SimType, Steps, Early
  <2> QED
    BY <1>1, <2>1, <2>2, <2>3 DEF SimType
<1>4. /\ MaxTicksOf(q.plan) \in Nat
      /\ Smaller(q.plan.count, Caps[q.plan.type]) \in Nat
  <2>1. q.plan \in Plans
    BY <1>3 DEF SimType
  <2> QED
    BY <2>1, PlanTicks, SimulationAssumption DEF Smaller
<1>5. done \in SimType /\ done.plan = q.plan /\ done.side = q.side /\ done.pc = "spawn"
      /\ done.tick = 0 /\ done.ids = 0 /\ done.pending = 0 /\ done.alive = 0
      /\ ~done.spawned /\ done.ready /\ done.result = None /\ ~done.stopped
      /\ done.maxTicks = MaxTicksOf(done.plan) /\ done.finished = 0
      /\ (~done.hurt => ~sims[s].hurt)
  <2> HIDE DEF q
  <2>1. done \in SimType
    BY <1>3, <1>4 DEF SimType
  <2> QED
    BY <1>3, <1>4, <2>1 DEF SimType
<1>6. r \in SimType /\ Set(s, r) /\ faults' \in Nat
  BY <1>1, <1>2, <1>3, <1>5, Known DEF Fault
<1>7. ~okay => Excused(q, pipeline)
  BY <1>3 DEF Excused, Verified, Sound
<1>8. RaceInv(r, engineMax, pipeline)
  BY <1>3, <1>5, <1>7 DEF RaceInv
<1>9. RunnersInv(r) /\ ReportInv(r)
  BY <1>3, <1>5 DEF RunnersInv, ReportInv, Early
<1>10. CollectorInv(s, r)
  BY <1>1, <1>3, <1>5 DEF OwnInv, At, CollectorInv, Early
<1>11. UNCHANGED <<engineMax, collectors, pipeline>>
  BY DEF Prepare
<1> HIDE DEF r
<1> QED
  BY <1>6, <1>8, <1>9, <1>10, <1>11, QuietStep

LEMMA FailToPrepareLemma ==
  ASSUME SimInv, NEW s \in Sims, FailToPrepare(s), UNCHANGED pipeline, pipeline = "failing"
  PROVE  SimInv'
<1> DEFINE r == [sims[s] EXCEPT !.pc = "engine"]
<1>1. /\ Set(s, r) /\ sims[s].pc = "prepare"
      /\ UNCHANGED <<engineMax, collectors, pipeline>> /\ faults' = faults
  BY DEF FailToPrepare, Goes, At
<1>2. r \in SimType
  BY Known DEF SimType, Steps, Early
<1>3. RaceInv(r, engineMax, pipeline) /\ RunnersInv(r) /\ ReportInv(r) /\ CollectorInv(s, r)
  BY <1>1, Known DEF SimType, OwnInv, RaceInv, RunnersInv, ReportInv, CollectorInv, Early, Excused
<1> HIDE DEF r
<1> QED
  BY <1>1, <1>2, <1>3, Known, QuietStep

LEMMA SpawnLemma ==
  ASSUME SimInv, NEW s \in Sims, Spawn(s), UNCHANGED pipeline
  PROVE  SimInv'
<1>0. sims[s] \in SimType /\ OwnInv(s) /\ faults \in Nat
  BY Known
<1>1. /\ sims[s].pc = "spawn" /\ sims[s].ids = 0 /\ sims[s].pending = 0
      /\ sims[s].alive = 0 /\ ~sims[s].spawned /\ sims[s].result = None
      /\ sims[s].finished = 0 /\ ~sims[s].stopped
  <2>1. sims[s].pc = "spawn"
    BY DEF Spawn, At
  <2>2. /\ sims[s].ids = 0 /\ sims[s].pending = 0 /\ sims[s].alive = 0
        /\ ~sims[s].spawned /\ ~sims[s].stopped
    BY <1>0, <2>1 DEF OwnInv, RunnersInv
  <2>3. sims[s].result = None /\ sims[s].finished <= 0 /\ sims[s].finished \in Nat
    BY <1>0, <2>1, <2>2 DEF OwnInv, ReportInv, SimType
  <2> QED
    BY <2>1, <2>2, <2>3
<1>2. UNCHANGED <<engineMax, collectors, pipeline>>
  BY DEF Spawn
<1>3. CASE ~sims[s].ready
  <2> DEFINE r == [sims[s] EXCEPT !.pc = "collect"]
  <2>1. Set(s, r) /\ faults' = faults
    BY <1>3 DEF Spawn, Goes
  <2>2. r \in SimType
    BY <1>0 DEF SimType, Steps, Early
  <2>s. /\ r.pc = "collect" /\ SameRace(r, sims[s]) /\ SameRunners(r, sims[s])
        /\ SameReport(r, sims[s])
    BY <1>0 DEF SimType, SameRace, SameRunners, SameReport
  <2>3. RaceInv(r, engineMax, pipeline) /\ RunnersInv(r) /\ ReportInv(r) /\ CollectorInv(s, r)
    <3> HIDE DEF r
    <3>1. RaceInv(r, engineMax, pipeline)
      BY <1>0, <1>1, <2>s DEF OwnInv, RaceInv, Excused, SameRace
    <3>2. RunnersInv(r) /\ CollectorInv(s, r)
      BY <1>0, <1>1, <2>s DEF OwnInv, RunnersInv, CollectorInv, SameRunners, Early
    <3>3. ReportInv(r)
      BY <1>0, <1>1, <2>s DEF OwnInv, ReportInv, SameReport
    <3> QED
      BY <3>1, <3>2, <3>3
  <2> HIDE DEF r
  <2> QED
    BY <1>0, <1>2, <2>1, <2>2, <2>3, QuietStep
<1>4. CASE sims[s].ready
  <2>1. PICK n \in 0 .. sims[s].count, lost \in BOOLEAN :
          /\ Fault(lost)
          /\ Set(s, [sims[s] EXCEPT !.pc = "collect", !.pending = n, !.hurt = @ \/ lost,
                       !.ids = IF lost THEN 0 ELSE n, !.spawned = ~lost,
                       !.count = IF lost THEN @ ELSE n])
    BY <1>4 DEF Spawn
  <2> DEFINE r == [sims[s] EXCEPT !.pc = "collect", !.pending = n, !.hurt = @ \/ lost,
                     !.ids = IF lost THEN 0 ELSE n, !.spawned = ~lost,
                     !.count = IF lost THEN @ ELSE n]
  <2>2. sims[s].count \in Nat /\ n \in Nat
    BY <1>0 DEF SimType
  <2>3. r \in SimType
    BY <1>0, <2>2 DEF SimType, Steps, Early
  <2>s. /\ r.pc = "collect" /\ SameRace(r, sims[s]) /\ r.stopped = sims[s].stopped
        /\ (~r.hurt => ~sims[s].hurt)
    BY <1>0 DEF SimType, SameRace
  <2>4. RaceInv(r, engineMax, pipeline) /\ CollectorInv(s, r)
    <3> HIDE DEF r
    <3>1. RaceInv(r, engineMax, pipeline)
      BY <1>0, <1>1, <2>s DEF OwnInv, RaceInv, Excused, SameRace
    <3>2. CollectorInv(s, r)
      BY <1>0, <1>1, <2>s DEF OwnInv, CollectorInv, Early
    <3> QED
      BY <3>1, <3>2
  <2>5. RunnersInv(r) /\ ReportInv(r)
    BY <1>0, <1>1, <2>2 DEF SimType, OwnInv, RunnersInv, ReportInv, Early
  <2>6. Set(s, r) /\ faults' \in Nat
    BY <1>0, <2>1 DEF Fault
  <2> HIDE DEF r
  <2> QED
    BY <1>2, <2>3, <2>4, <2>5, <2>6, QuietStep
<1> QED
  BY <1>3, <1>4

LEMMA RegisterLemma ==
  ASSUME SimInv, NEW s \in Sims, Register(s), UNCHANGED pipeline
  PROVE  SimInv'
<1>0. sims[s] \in SimType /\ OwnInv(s) /\ faults \in Nat
  BY Known
<1> DEFINE r == [sims[s] EXCEPT !.pending = @ - 1, !.alive = @ + 1]
<1>1. Set(s, r) /\ UNCHANGED <<engineMax, collectors, pipeline>> /\ faults' = faults
  BY DEF Register
<1>2. sims[s].pending \in Nat \ {0} /\ sims[s].alive \in Nat
  BY <1>0 DEF Register, SimType
<1>3. r \in SimType
  <2>1. sims[s].pending - 1 \in Nat /\ sims[s].alive + 1 \in Nat
    BY <1>2
  <2> QED
    BY <1>0, <2>1 DEF SimType
<1>s. /\ r.pc = sims[s].pc /\ SameRace(r, sims[s]) /\ SameReport(r, sims[s])
      /\ r.stopped = sims[s].stopped /\ r.hurt = sims[s].hurt
  BY <1>0 DEF SimType, SameRace, SameReport
<1>4. RaceInv(r, engineMax, pipeline) /\ ReportInv(r) /\ CollectorInv(s, r)
  <2> HIDE DEF r
  <2>1. RaceInv(r, engineMax, pipeline)
    BY <1>0, <1>s DEF OwnInv, RaceInv, Excused, SameRace
  <2>2. CollectorInv(s, r)
    BY <1>0, <1>s DEF OwnInv, CollectorInv
  <2>3. ReportInv(r)
    BY <1>0, <1>s DEF OwnInv, ReportInv, SameReport
  <2> QED
    BY <2>1, <2>2, <2>3
<1>5. RunnersInv(r)
  BY <1>0, <1>2 DEF SimType, OwnInv, RunnersInv
<1> HIDE DEF r
<1> QED
  BY <1>0, <1>1, <1>3, <1>4, <1>5, QuietStep

----------------------------------------------------------------------------
(* The collector and the gun.                                              *)

\* Moving on without a collector, from a step whose conditions the next one keeps.
LEMMA SkipsLemma ==
  ASSUME SimInv, NEW s \in Sims, NEW pc \in {"gun", "gate", "engine"}, Skips(s, pc),
         sims[s].pc \in {"collect", "gun"}, UNCHANGED <<engineMax, pipeline>>,
         pc = "engine" => sims[s].ids = 0
  PROVE  SimInv'
<1>0. sims[s] \in SimType /\ OwnInv(s) /\ faults \in Nat
  BY Known
<1> DEFINE r == [sims[s] EXCEPT !.pc = pc]
<1>1. Set(s, r) /\ UNCHANGED <<engineMax, collectors, pipeline>> /\ faults' = faults
  BY DEF Skips, Goes
<1>2. r \in SimType
  BY <1>0 DEF SimType, Steps
<1>s. /\ r.pc = pc /\ SameRace(r, sims[s]) /\ SameReport(r, sims[s])
      /\ r.stopped = sims[s].stopped /\ r.hurt = sims[s].hurt
  BY <1>0 DEF SimType, SameRace, SameReport
<1>3. RaceInv(r, engineMax, pipeline) /\ ReportInv(r) /\ CollectorInv(s, r)
  <2> HIDE DEF r
  <2>1. RaceInv(r, engineMax, pipeline)
    BY <1>0, <1>s DEF OwnInv, RaceInv, Excused, SameRace
  <2>2. CollectorInv(s, r)
    BY <1>0, <1>s DEF OwnInv, CollectorInv, Early
  <2>3. ReportInv(r)
    BY <1>0, <1>s DEF OwnInv, ReportInv, SameReport
  <2> QED
    BY <2>1, <2>2, <2>3
<1>4. RunnersInv(r)
  BY <1>0 DEF SimType, OwnInv, RunnersInv, Early
<1> HIDE DEF r
<1> QED
  BY <1>0, <1>1, <1>2, <1>3, <1>4, QuietStep

LEMMA StartsCollectorLemma ==
  ASSUME SimInv, NEW s \in Sims, NEW pc \in {"gun", "gate"}, StartsCollector(s, pc),
         sims[s].pc \in {"collect", "gun"}, s \notin local, UNCHANGED <<engineMax, pipeline>>
  PROVE  SimInv'
<1>0. sims[s] \in SimType /\ OwnInv(s) /\ faults \in Nat
  BY Known
<1>1. PICK outcome \in {"ok", "unsubscribed", "unmarked"} :
        /\ Fault(outcome # "ok")
        /\ Set(s, [sims[s] EXCEPT !.pc = pc, !.hurt = @ \/ outcome # "ok"])
        /\ loops' = IF outcome = "unsubscribed" THEN loops ELSE [loops EXCEPT ![s] = @ + 1]
        /\ local' = IF outcome = "ok" THEN local \cup {s} ELSE local
        /\ marks' = IF outcome = "ok" THEN marks \cup {s} ELSE marks
  BY DEF StartsCollector
<1> DEFINE r == [sims[s] EXCEPT !.pc = pc, !.hurt = @ \/ outcome # "ok"]
<1>2. r \in SimType
  BY <1>0 DEF SimType, Steps
<1>3. faults' \in Nat /\ Set(s, r)
  BY <1>0, <1>1 DEF Fault
<1>4. local \subseteq Sims /\ loops \in [Sims -> Int] /\ marks \subseteq Sims
  BY DEF SimInv, TypeOK
<1>5. local' \subseteq Sims /\ loops' \in [Sims -> Int] /\ marks' \subseteq Sims
  BY <1>1, <1>4
<1>6. ASSUME NEW t \in Sims \ {s} PROVE OthersKept(t)
  BY <1>1, <1>4 DEF OthersKept
<1>s. r.pc = pc /\ SameRace(r, sims[s]) /\ SameReport(r, sims[s])
  BY <1>0 DEF SimType, SameRace, SameReport
<1>7. RaceInv(r, engineMax, pipeline) /\ ReportInv(r)
  <2> HIDE DEF r
  <2>1. RaceInv(r, engineMax, pipeline)
    BY <1>0, <1>s DEF OwnInv, RaceInv, Excused, SameRace
  <2>2. ReportInv(r)
    BY <1>0, <1>s DEF OwnInv, ReportInv, SameReport
  <2> QED
    BY <2>1, <2>2
<1>8. RunnersInv(r)
  BY <1>0 DEF SimType, OwnInv, RunnersInv, Early
<1>9. PICK q : q = r
  OBVIOUS
<1>10. CollectorInv(s, q)'
  <2>1. q.pc \notin Early /\ (~q.hurt => outcome = "ok" /\ ~sims[s].hurt) /\ ~q.stopped
    BY <1>0, <1>9 DEF SimType, OwnInv, RunnersInv, Early
  <2>2. outcome = "ok" => s \in local' /\ s \in marks' /\ loops'[s] = loops[s] + 1
    BY <1>1, <1>4
  <2>3. ~sims[s].hurt => loops[s] = 0
    BY <1>0 DEF OwnInv, CollectorInv
  <2> QED
    BY <2>1, <2>2, <2>3 DEF CollectorInv
<1> HIDE DEF r
<1> QED
  BY <1>2, <1>3, <1>5, <1>6, <1>7, <1>8, <1>9, <1>10, StepOfOne

LEMMA StartCollectorLemma ==
  ASSUME SimInv, NEW s \in Sims, StartCollector(s), UNCHANGED pipeline
  PROVE  SimInv'
<1>0. sims[s] \in SimType /\ OwnInv(s) /\ faults \in Nat
  BY Known
<1>1. sims[s].pc = "collect" /\ s \notin local /\ UNCHANGED <<engineMax, pipeline>>
  BY <1>0 DEF StartCollector, At, OwnInv, CollectorInv, Early
<1>2. Skips(s, "gun") \/ StartsCollector(s, "gun")
  BY DEF StartCollector
<1> QED
  BY <1>1, <1>2, SkipsLemma, StartsCollectorLemma

LEMMA LoadGunLemma ==
  ASSUME SimInv, NEW s \in Sims, LoadGun(s), UNCHANGED pipeline
  PROVE  SimInv'
<1>1. sims[s].pc = "gun" /\ UNCHANGED <<engineMax, pipeline>>
  BY DEF LoadGun, At
<1>2. \/ Skips(s, "engine") /\ sims[s].ids = 0
      \/ Skips(s, "gate")
      \/ StartsCollector(s, "gate") /\ s \notin local
  BY DEF LoadGun
<1> QED
  BY <1>1, <1>2, SkipsLemma, StartsCollectorLemma

LEMMA FireGunLemma ==
  ASSUME SimInv, NEW s \in Sims, FireGun(s), UNCHANGED pipeline
  PROVE  SimInv'
<1>0. sims[s] \in SimType /\ OwnInv(s) /\ faults \in Nat
  BY Known
<1> DEFINE r == [sims[s] EXCEPT !.pc = "engine", !.tick = 0, !.hurt = @ \/ sims[s].pending > 0]
<1>1. /\ Set(s, r) /\ sims[s].pc = "gate" /\ faults' = faults
      /\ UNCHANGED <<engineMax, collectors, pipeline>>
  BY DEF FireGun, At
<1>2. r \in SimType
  BY <1>0 DEF SimType, Steps
<1>s. /\ r.pc = "engine" /\ SameRace(r, sims[s]) /\ SameReport(r, sims[s])
      /\ r.stopped = sims[s].stopped /\ r.pending = sims[s].pending /\ r.alive = sims[s].alive
      /\ (~r.hurt => ~sims[s].hurt /\ ~(r.pending > 0))
  <2>1. sims[s].tick = 0
    BY <1>0, <1>1 DEF OwnInv, RaceInv
  <2> QED
    BY <1>0, <2>1 DEF SimType, SameRace, SameReport
<1>3. RaceInv(r, engineMax, pipeline) /\ ReportInv(r) /\ CollectorInv(s, r)
  <2> HIDE DEF r
  <2>1. RaceInv(r, engineMax, pipeline)
    BY <1>0, <1>1, <1>s DEF OwnInv, RaceInv, Excused, SameRace
  <2>2. CollectorInv(s, r)
    BY <1>0, <1>1, <1>s DEF OwnInv, CollectorInv, Early
  <2>3. ReportInv(r)
    BY <1>0, <1>1, <1>s DEF OwnInv, ReportInv, SameReport
  <2> QED
    BY <2>1, <2>2, <2>3
<1>4. RunnersInv(r)
  <2> HIDE DEF r
  <2>1. r.pending \in Nat /\ r.ids = sims[s].ids
    BY <1>0, <1>s DEF SimType, SameReport
  <2> QED
    BY <1>0, <1>1, <1>s, <2>1 DEF OwnInv, RunnersInv, Early
<1> HIDE DEF r
<1> QED
  BY <1>0, <1>1, <1>2, <1>3, <1>4, QuietStep

LEMMA LoopDiesLemma ==
  ASSUME SimInv, NEW s \in Sims, LoopDies(s), UNCHANGED pipeline
  PROVE  SimInv'
<1>0. sims[s] \in SimType /\ OwnInv(s) /\ faults \in Nat
  BY Known
<1>1. PICK r : r = [sims[s] EXCEPT !.hurt = TRUE]
  OBVIOUS
<1>2. Set(s, r) /\ s \in local /\ UNCHANGED <<engineMax, pipeline, local, marks>>
      /\ loops' = [loops EXCEPT ![s] = @ - 1]
  BY <1>1 DEF LoopDies
<1>3. faults' \in Nat
  BY <1>0 DEF LoopDies, Fault
<1>4. local \subseteq Sims /\ loops \in [Sims -> Int] /\ marks \subseteq Sims
  BY DEF SimInv, TypeOK
<1>5. local' \subseteq Sims /\ loops' \in [Sims -> Int] /\ marks' \subseteq Sims
  BY <1>2, <1>4
<1>6. ASSUME NEW t \in Sims \ {s} PROVE OthersKept(t)
  BY <1>2, <1>4 DEF OthersKept
<1>7. r \in SimType /\ r.hurt
  BY <1>0, <1>1 DEF SimType
<1>s. /\ r.pc = sims[s].pc /\ SameRace(r, sims[s]) /\ SameReport(r, sims[s])
      /\ r.stopped = sims[s].stopped /\ r.pending = sims[s].pending /\ r.alive = sims[s].alive
  BY <1>0, <1>1 DEF SimType, SameRace, SameReport
<1>8. RaceInv(r, engineMax, pipeline) /\ ReportInv(r) /\ RunnersInv(r)
  <2>1. RaceInv(r, engineMax, pipeline)
    BY <1>0, <1>s DEF OwnInv, RaceInv, Excused, SameRace
  <2>2. RunnersInv(r)
    BY <1>0, <1>7, <1>s DEF OwnInv, RunnersInv, SameReport
  <2>3. ReportInv(r)
    BY <1>0, <1>s DEF OwnInv, ReportInv, SameReport
  <2> QED
    BY <2>1, <2>2, <2>3
<1>9. CollectorInv(s, r)'
  BY <1>0, <1>2, <1>7, <1>s DEF OwnInv, CollectorInv
<1> QED
  BY <1>2, <1>3, <1>5, <1>6, <1>7, <1>8, <1>9, StepOfOne

----------------------------------------------------------------------------
(* The race.                                                               *)

\* A step to pc of a simulation that leaves all else of its record.
LEMMA GoesLemma ==
  ASSUME SimInv, NEW s \in Sims, NEW pc \in {"post", "done"}, Goes(s, pc),
         UNCHANGED <<engineMax, collectors, pipeline>>, faults' = faults,
         \/ sims[s].pc = "engine" /\ ~sims[s].ready
         \/ sims[s].pc = "advance" /\ sims[s].tick > 0 /\ sims[s].cut
         \/ sims[s].pc = "post"
  PROVE  SimInv'
<1>0. sims[s] \in SimType /\ OwnInv(s) /\ faults \in Nat
  BY Known
<1> DEFINE r == [sims[s] EXCEPT !.pc = pc]
<1>1. r \in SimType /\ Set(s, r)
  BY <1>0 DEF SimType, Steps, Goes
<1>2. /\ r.pc = pc /\ SameRace(r, sims[s]) /\ SameRunners(r, sims[s])
      /\ SameReport(r, sims[s])
  BY <1>0 DEF SimType, SameRace, SameRunners, SameReport
<1> HIDE DEF r
<1>3. RaceInv(r, engineMax, pipeline)
  BY <1>0, <1>2 DEF OwnInv, RaceInv, Excused, SameRace
<1>4. RunnersInv(r) /\ CollectorInv(s, r)
  BY <1>0, <1>2 DEF OwnInv, RunnersInv, CollectorInv, SameRunners, Early
<1>5. ReportInv(r)
  BY <1>0, <1>2 DEF OwnInv, ReportInv, SameReport
<1> QED
  BY <1>0, <1>1, <1>3, <1>4, <1>5, QuietStep

\* The one step that reaches into the other simulations.
LEMMA BoundedLemma ==
  ASSUME SimInv, NEW s \in Sims, sims[s].pc = "engine", sims[s].ready,
         Bounded(s, EngineMax(sims[s])), UNCHANGED <<collectors, pipeline, faults>>
  PROVE  SimInv'
<1>1. PICK bound : bound = EngineMax(sims[s])
  OBVIOUS
<1>2. /\ bound \in Nat \ {0} /\ bound = sims[s].maxTicks + 1
      /\ sims[s].maxTicks = MaxTicksOf(sims[s].plan)
  <2>1. sims[s].maxTicks \in Nat /\ pipeline = "own"
        /\ sims[s].maxTicks = MaxTicksOf(sims[s].plan)
    BY Known DEF SimType, OwnInv, RaceInv
  <2> QED
    BY <1>1, <2>1 DEF EngineMax
<1>3. /\ engineMax' = bound /\ UNCHANGED <<local, loops, marks, pipeline, faults>>
      /\ sims' = [t \in Sims |->
           IF t = s THEN [sims[t] EXCEPT !.pc = "advance", !.iterations = 0]
           ELSE [sims[t] EXCEPT !.cut = @ \/ (Racing(t) /\ bound < sims[t].maxTicks)]]
  BY <1>1 DEF Bounded, collectors
<1>4. sims'[s] \in SimType /\ OwnInv(s)'
  <2>0. sims[s] \in SimType /\ OwnInv(s)
    BY Known
  <2>1. PICK r : r = sims'[s]
    OBVIOUS
  <2>2. r = [sims[s] EXCEPT !.pc = "advance", !.iterations = 0]
    BY <1>3, <2>1
  <2>3. r \in SimType
    BY <2>0, <2>2 DEF SimType, Steps
  <2>4. /\ r.pc = "advance" /\ r.iterations = 0 /\ r.maxTicks = sims[s].maxTicks
        /\ r.ready /\ r.plan = sims[s].plan /\ r.tick = sims[s].tick
        /\ SameRunners(r, sims[s]) /\ SameReport(r, sims[s])
    BY <2>0, <2>2 DEF SimType, SameRunners, SameReport
  <2>5. r.tick = 0 /\ Ticks(r.plan) \in Nat \ {0}
    <3>1. r.plan \in Plans
      BY <2>3 DEF SimType
    <3> QED
      BY <2>0, <2>4, <3>1, PlanTicks DEF OwnInv, RaceInv
  <2>6. pipeline = "own"
    BY <2>0 DEF OwnInv, RaceInv
  <2>7. RaceInv(r, bound, pipeline)
    <3>1. r.maxTicks <= bound /\ r.maxTicks = MaxTicksOf(r.plan)
      BY <1>2, <2>0, <2>4 DEF SimType
    <3> QED
      BY <2>4, <2>5, <2>6, <3>1 DEF RaceInv
  <2>8. RunnersInv(r)
    BY <2>0, <2>4 DEF OwnInv, RunnersInv, SameRunners, Early
  <2>9. CollectorInv(s, r)'
    BY <1>3, <2>0, <2>4 DEF OwnInv, CollectorInv, SameRunners, Early
  <2>10. ReportInv(r)
    BY <2>0, <2>4 DEF OwnInv, ReportInv, SameReport
  <2> QED
    BY <1>3, <2>1, <2>3, <2>7, <2>8, <2>9, <2>10 DEF OwnInv
<1>5. ASSUME NEW t \in Sims \ {s} PROVE sims'[t] \in SimType /\ OwnInv(t)'
  <2>0. sims[t] \in SimType /\ OwnInv(t)
    BY Known
  <2>1. PICK r : r = sims'[t]
    OBVIOUS
  <2>2. r = [sims[t] EXCEPT !.cut = @ \/ (Racing(t) /\ bound < sims[t].maxTicks)]
    BY <1>3, <2>1
  <2>3. r \in SimType
    BY <2>0, <2>2 DEF SimType
  <2>4. /\ r.pc = sims[t].pc /\ r.plan = sims[t].plan /\ r.side = sims[t].side
        /\ r.ready = sims[t].ready /\ r.inProgress = sims[t].inProgress
        /\ r.maxTicks = sims[t].maxTicks /\ r.tick = sims[t].tick
        /\ r.iterations = sims[t].iterations
        /\ SameRunners(r, sims[t]) /\ SameReport(r, sims[t])
    BY <2>0, <2>2 DEF SimType, SameRunners, SameReport
  <2>5. /\ sims[t].cut => r.cut
        /\ r.pc \in {"advance", "check"} => r.cut \/ r.maxTicks <= bound
    <3>1. sims[t].maxTicks \in Nat
      BY <2>0 DEF SimType
    <3>2. r.cut <=> sims[t].cut \/ (Racing(t) /\ bound < sims[t].maxTicks)
      BY <2>0, <2>2 DEF SimType
    <3>3. r.pc \in {"advance", "check"} => Racing(t)
      BY <2>4 DEF Racing
    <3> QED
      BY <1>2, <2>4, <3>1, <3>2, <3>3
  <2>6. RaceInv(r, bound, pipeline)
    BY <2>0, <2>4, <2>5 DEF OwnInv, RaceInv, Excused
  <2>7. RunnersInv(r)
    BY <2>0, <2>4 DEF OwnInv, RunnersInv, SameRunners
  <2>8. CollectorInv(t, r)'
    BY <1>3, <2>0, <2>4 DEF OwnInv, CollectorInv, SameRunners
  <2>9. ReportInv(r)
    BY <2>0, <2>4 DEF OwnInv, ReportInv, SameReport
  <2> QED
    BY <1>3, <2>1, <2>3, <2>6, <2>7, <2>8, <2>9 DEF OwnInv
<1>6. TypeOK'
  <2>1. sims' \in [Sims -> SimType]
    BY <1>3, <1>4, <1>5
  <2> QED
    BY <1>2, <1>3, <2>1 DEF SimInv, TypeOK
<1> QED
  BY <1>4, <1>5, <1>6 DEF SimInv, OwnInv

LEMMA ConfigureLemma ==
  ASSUME SimInv, NEW s \in Sims, Configure(s), UNCHANGED pipeline
  PROVE  SimInv'
<1>1. sims[s].pc = "engine" /\ UNCHANGED <<collectors, pipeline, faults>>
  BY DEF Configure, At
<1>2. CASE sims[s].ready
  BY <1>1, <1>2, BoundedLemma DEF Configure
<1>3. CASE ~sims[s].ready
  <2>1. PICK pc \in {"post", "done"} : Goes(s, pc) /\ UNCHANGED engineMax
    BY <1>3 DEF Configure
  <2> QED
    BY <1>1, <1>3, <2>1, GoesLemma
<1> QED
  BY <1>2, <1>3

LEMMA AdvanceLemma ==
  ASSUME SimInv, NEW s \in Sims, Advance(s), UNCHANGED pipeline
  PROVE  SimInv'
<1>0. sims[s] \in SimType /\ OwnInv(s) /\ faults \in Nat
  BY Known
<1>1. sims[s].pc = "advance" /\ UNCHANGED <<engineMax, collectors, pipeline, faults>>
  BY DEF Advance, At
<1>2. /\ engineMax \in Nat \ {0} /\ sims[s].iterations = sims[s].tick /\ sims[s].tick \in Nat
      /\ sims[s].maxTicks = MaxTicksOf(sims[s].plan) /\ sims[s].tick < Ticks(sims[s].plan)
      /\ (sims[s].cut \/ sims[s].maxTicks <= engineMax)
      /\ sims[s].plan \in Plans
  BY <1>0, <1>1 DEF SimInv, TypeOK, SimType, OwnInv, RaceInv
<1>3. CASE sims[s].iterations < engineMax
  <2>1. PICK f \in sims[s].finished .. sims[s].ids :
          Set(s, [sims[s] EXCEPT !.pc = "check", !.tick = @ + 1, !.finished = f])
    BY <1>2, <1>3 DEF Advance
  <2> DEFINE r == [sims[s] EXCEPT !.pc = "check", !.tick = @ + 1, !.finished = f]
  <2>2. f \in Nat /\ f <= sims[s].ids
    BY <1>0 DEF SimType
  <2>3. r \in SimType /\ Set(s, r)
    <3>1. sims[s].tick + 1 \in Nat
      BY <1>2
    <3> QED
      BY <1>0, <2>1, <2>2, <3>1 DEF SimType, Steps
  <2>4. /\ r.pc = "check" /\ r.tick = sims[s].tick + 1 /\ r.finished = f
        /\ r.plan = sims[s].plan /\ r.ready = sims[s].ready /\ r.maxTicks = sims[s].maxTicks
        /\ r.iterations = sims[s].iterations /\ r.cut = sims[s].cut
        /\ r.count = sims[s].count /\ r.result = sims[s].result
        /\ SameRunners(r, sims[s])
    BY <1>0 DEF SimType, SameRunners
  <2> HIDE DEF r
  <2>5. RaceInv(r, engineMax, pipeline)
    <3>1. r.tick <= Ticks(r.plan) /\ r.iterations + 1 = r.tick
      BY <1>2, <2>4, PlanTicks
    <3> QED
      BY <1>0, <1>1, <2>4, <3>1 DEF OwnInv, RaceInv
  <2>6. RunnersInv(r) /\ CollectorInv(s, r)
    BY <1>0, <1>1, <2>4 DEF OwnInv, RunnersInv, CollectorInv, SameRunners, Early
  <2>7. ReportInv(r)
    BY <1>0, <1>1, <2>2, <2>4 DEF OwnInv, ReportInv, SameRunners
  <2> QED
    BY <1>0, <1>1, <2>3, <2>5, <2>6, <2>7, QuietStep
<1>4. CASE ~(sims[s].iterations < engineMax)
  <2>1. Goes(s, "post")
    BY <1>2, <1>4 DEF Advance
  <2>2. sims[s].tick > 0 /\ sims[s].cut
    BY <1>2, <1>4, PlanTicks
  <2> QED
    BY <1>1, <2>1, <2>2, GoesLemma
<1> QED
  BY <1>3, <1>4

LEMMA CheckLemma ==
  ASSUME SimInv, NEW s \in Sims, Check(s), UNCHANGED pipeline
  PROVE  SimInv'
<1>0. sims[s] \in SimType /\ OwnInv(s) /\ faults \in Nat
  BY Known
<1> DEFINE over == sims[s].tick >= sims[s].maxTicks
           r == [sims[s] EXCEPT !.pc = IF over THEN "post" ELSE "advance", !.iterations = @ + 1]
<1>1. /\ sims[s].pc = "check" /\ UNCHANGED <<engineMax, collectors, pipeline, faults>>
      /\ Set(s, r)
  BY DEF Check, At
<1>2. /\ sims[s].iterations + 1 = sims[s].tick /\ sims[s].tick \in Nat
      /\ sims[s].iterations \in Nat /\ sims[s].maxTicks = MaxTicksOf(sims[s].plan)
      /\ sims[s].tick <= Ticks(sims[s].plan) /\ sims[s].plan \in Plans
  BY <1>0, <1>1 DEF SimType, OwnInv, RaceInv
<1>3. r \in SimType
  BY <1>0, <1>2 DEF SimType, Steps
<1>4. /\ r.pc = (IF over THEN "post" ELSE "advance") /\ r.iterations = sims[s].tick
      /\ r.plan = sims[s].plan /\ r.ready = sims[s].ready /\ r.maxTicks = sims[s].maxTicks
      /\ r.tick = sims[s].tick /\ r.cut = sims[s].cut
      /\ SameRunners(r, sims[s]) /\ SameReport(r, sims[s])
  BY <1>0, <1>2 DEF SimType, SameRunners, SameReport
<1>5. /\ over => sims[s].tick = Ticks(sims[s].plan)
      /\ ~over => sims[s].tick < Ticks(sims[s].plan)
  BY <1>2, PlanTicks
<1> HIDE DEF r, over
<1>6. RaceInv(r, engineMax, pipeline)
  BY <1>0, <1>1, <1>2, <1>4, <1>5 DEF OwnInv, RaceInv
<1>7. RunnersInv(r) /\ CollectorInv(s, r)
  BY <1>0, <1>1, <1>4 DEF OwnInv, RunnersInv, CollectorInv, SameRunners, Early
<1>8. ReportInv(r)
  BY <1>0, <1>1, <1>4 DEF OwnInv, ReportInv, SameReport
<1> QED
  BY <1>0, <1>1, <1>3, <1>6, <1>7, <1>8, QuietStep

----------------------------------------------------------------------------
(* After the race.                                                         *)

LEMMA CompileLemma ==
  ASSUME SimInv, NEW s \in Sims, Compile(s), UNCHANGED pipeline
  PROVE  SimInv'
<1>0. sims[s] \in SimType /\ OwnInv(s) /\ faults \in Nat
  BY Known
<1> DEFINE dnf == IF sims[s].count > sims[s].finished THEN sims[s].count - sims[s].finished ELSE 0
           report == [finished |-> sims[s].finished, dnf |-> dnf]
           r == [sims[s] EXCEPT !.result = report]
<1>1. /\ sims[s].pc = "post" /\ UNCHANGED <<engineMax, collectors, pipeline, faults>>
      /\ Set(s, r)
  BY DEF Compile, At
<1>2. /\ sims[s].count \in Nat /\ sims[s].finished \in Nat
      /\ sims[s].finished <= sims[s].ids /\ sims[s].ids \in Nat
      /\ (sims[s].spawned => sims[s].count = sims[s].ids)
  BY <1>0 DEF SimType, OwnInv, ReportInv
<1>3. /\ report \in [finished : Int, dnf : Int]
      /\ report.finished = sims[s].finished /\ report.dnf = dnf
      /\ (sims[s].spawned => sims[s].finished + dnf = sims[s].ids)
  BY <1>2
<1> HIDE DEF dnf, report
<1>4. r \in SimType
  BY <1>0, <1>3 DEF SimType
<1>5. /\ r.pc = "post" /\ SameRace(r, sims[s]) /\ SameRunners(r, sims[s])
      /\ r.count = sims[s].count /\ r.finished = sims[s].finished /\ r.result = report
  BY <1>0, <1>1 DEF SimType, SameRace, SameRunners
<1> HIDE DEF r
<1>6. RaceInv(r, engineMax, pipeline)
  BY <1>0, <1>1, <1>5 DEF OwnInv, RaceInv, Excused, SameRace
<1>7. RunnersInv(r) /\ CollectorInv(s, r)
  BY <1>0, <1>1, <1>5 DEF OwnInv, RunnersInv, CollectorInv, SameRunners, Early
<1>8. ReportInv(r)
  BY <1>2, <1>3, <1>5 DEF ReportInv, SameRunners
<1> QED
  BY <1>0, <1>1, <1>4, <1>6, <1>7, <1>8, QuietStep

\* If no fault hit the simulation, its loop runs if and only if it has an entry,
\* so the loop is ended, the entry and the mark are removed.
LEMMA StopCollectorLemma ==
  ASSUME SimInv, NEW s \in Sims, StopCollector(s), UNCHANGED pipeline
  PROVE  SimInv'
<1>0. sims[s] \in SimType /\ OwnInv(s) /\ faults \in Nat
  BY Known
<1>1. PICK published \in BOOLEAN, cleaned \in BOOLEAN :
        /\ Fault(~published \/ ~cleaned)
        /\ Set(s, Stopped(sims[s], published, ~published \/ ~cleaned))
        /\ marks' = IF cleaned /\ ~Raises(s) THEN marks \ {s} ELSE marks
  BY DEF StopCollector
<1>2. /\ sims[s].pc = "post" /\ UNCHANGED <<engineMax, pipeline>>
      /\ local' = (IF Raises(s) THEN local ELSE local \ {s})
      /\ loops' = IF s \in local /\ ~Raises(s) THEN [loops EXCEPT ![s] = @ - 1] ELSE loops
  BY DEF StopCollector, At
<1>3. PICK r : r = Stopped(sims[s], published, ~published \/ ~cleaned)
  OBVIOUS
<1>4. r \in SimType
  BY <1>0, <1>3 DEF SimType, Stopped
<1>5. /\ r.pc = "post" /\ ~r.ready /\ ~r.inProgress /\ r.stopped
      /\ r.plan = sims[s].plan /\ r.side = sims[s].side /\ r.tick = sims[s].tick
      /\ r.cut = sims[s].cut /\ r.pending = sims[s].pending
      /\ r.alive = (IF published THEN 0 ELSE sims[s].alive)
      /\ SameReport(r, sims[s])
  BY <1>0, <1>2, <1>3 DEF SimType, Stopped, SameReport
<1>6. ~r.hurt => ~sims[s].hurt /\ published /\ cleaned
  BY <1>0, <1>3 DEF SimType, Stopped
<1>7. Set(s, r) /\ faults' \in Nat
  BY <1>0, <1>1, <1>3 DEF Fault
<1>8. local \subseteq Sims /\ loops \in [Sims -> Int] /\ marks \subseteq Sims
  BY DEF SimInv, TypeOK
<1>9. local' \subseteq Sims /\ loops' \in [Sims -> Int] /\ marks' \subseteq Sims
  BY <1>1, <1>2, <1>8
<1>10. ASSUME NEW t \in Sims \ {s} PROVE OthersKept(t)
  BY <1>1, <1>2, <1>8 DEF OthersKept
<1>11. RaceInv(r, engineMax, pipeline)
  BY <1>0, <1>2, <1>5 DEF OwnInv, RaceInv, Excused
<1>12. RunnersInv(r)
  BY <1>0, <1>2, <1>5, <1>6 DEF OwnInv, RunnersInv, Early
<1>13. ReportInv(r)
  BY <1>0, <1>2, <1>5 DEF OwnInv, ReportInv, SameReport
<1>14. CollectorInv(s, r)'
  <2>1. r.pc \notin Early
    BY <1>5 DEF Early
  <2>2. ASSUME ~r.hurt PROVE loops'[s] = 0 /\ s \notin local' /\ s \notin marks'
    <3>1. /\ loops[s] = (IF s \in local THEN 1 ELSE 0)
          /\ (s \in marks <=> s \in local) /\ cleaned
      BY <1>0, <1>6, <2>2 DEF OwnInv, CollectorInv
    <3>2. ~Raises(s)
      BY <3>1 DEF Raises
    <3> QED
      BY <1>1, <1>2, <1>8, <3>1, <3>2
  <2> QED
    BY <2>1, <2>2 DEF CollectorInv
<1> QED
  BY <1>2, <1>4, <1>7, <1>9, <1>10, <1>11, <1>12, <1>13, <1>14, StepOfOne

LEMMA FinishLemma ==
  ASSUME SimInv, NEW s \in Sims, Finish(s), UNCHANGED pipeline
  PROVE  SimInv'
BY GoesLemma DEF Finish, At

----------------------------------------------------------------------------
(* The theorems.                                                           *)

LEMMA NextLemma == SimInv /\ [Next]_vars => SimInv'
<1> SUFFICES ASSUME SimInv, [Next]_vars PROVE SimInv'
  OBVIOUS
<1>1. CASE UNCHANGED vars
  BY <1>1 DEF vars, SimInv, TypeOK, CollectorInv
<1>2. ASSUME NEW s \in Sims, SimulatorStep(s) PROVE SimInv'
  <2>1. UNCHANGED pipeline
    BY <1>2 DEF SimulatorStep
  <2>2. CASE Call(s)
    BY <2>1, <2>2, CallLemma
  <2>3. CASE pipeline = "own" /\ Prepare(s)
    BY <2>1, <2>3, PrepareLemma
  <2>4. CASE Spawn(s)
    BY <2>1, <2>4, SpawnLemma
  <2>5. CASE StartCollector(s)
    BY <2>1, <2>5, StartCollectorLemma
  <2>6. CASE LoadGun(s)
    BY <2>1, <2>6, LoadGunLemma
  <2>7. CASE FireGun(s)
    BY <2>1, <2>7, FireGunLemma
  <2>8. CASE Configure(s)
    BY <2>1, <2>8, ConfigureLemma
  <2>9. CASE Advance(s)
    BY <2>1, <2>9, AdvanceLemma
  <2>10. CASE Check(s)
    BY <2>1, <2>10, CheckLemma
  <2>11. CASE Compile(s)
    BY <2>1, <2>11, CompileLemma
  <2>12. CASE StopCollector(s)
    BY <2>1, <2>12, StopCollectorLemma
  <2>13. CASE Finish(s)
    BY <2>1, <2>13, FinishLemma
  <2>14. CASE pipeline = "failing" /\ FailToPrepare(s)
    BY <2>1, <2>14, FailToPrepareLemma
  <2> QED
    BY <1>2, <2>2, <2>3, <2>4, <2>5, <2>6, <2>7, <2>8, <2>9, <2>10, <2>11, <2>12, <2>13,
       <2>14 DEF SimulatorStep, OwnPipeline, CustomPipeline
<1>3. ASSUME NEW s \in Sims, Register(s) \/ LoopDies(s), UNCHANGED pipeline PROVE SimInv'
  BY <1>3, RegisterLemma, LoopDiesLemma
<1> QED
  BY <1>1, <1>2, <1>3 DEF Next

\* The invariant, whatever the fairness.
LEMMA Invariance == Spec => []SimInv
<1> QED
  BY InitLemma, NextLemma, PTL DEF Spec

\* Every reachable state is well typed; the bound of the race engine is never
\* zero, which LoopAgent would take for no bound (agent.py, _configure_race_engine).
THEOREM TypeCorrect == Spec => []TypeOK
<1>1. SimInv => TypeOK
  BY DEF SimInv
<1> QED
  BY <1>1, Invariance, PTL

\* Verified plans are raced for all their ticks, unless the common race_engine was
\* bounded by a shorter race, and no race runs longer (agent.py, tick_callback.py).
THEOREM RacesRunTheirTicks == Spec => []RaceRunsItsTicks
<1>1. ASSUME SimInv PROVE RaceRunsItsTicks
  <2> SUFFICES ASSUME NEW s \in Sims
               PROVE  LET r == sims[s]
                          ticks == IF MaxTicksOf(r.plan) = 0 THEN 1 ELSE MaxTicksOf(r.plan)
                      IN /\ r.tick <= ticks
                         /\ RaceOver(r) => \/ r.tick = ticks
                                           \/ r.cut /\ r.tick > 0
                                           \/ r.tick = 0 /\ (~Verified(r.plan) \/ r.side = "corrupt" \/ pipeline = "failing")
    BY DEF RaceRunsItsTicks
  <2>1. sims[s] \in SimType /\ RaceInv(sims[s], engineMax, pipeline)
    BY <1>1, Known DEF OwnInv
  <2>2. sims[s].plan \in Plans /\ sims[s].pc \in Steps /\ sims[s].tick \in Nat
    BY <2>1 DEF SimType
  <2>3. Ticks(sims[s].plan) \in Nat \ {0}
    BY <2>2, PlanTicks
  <2>4. sims[s].tick <= Ticks(sims[s].plan)
    BY <2>1, <2>2, <2>3 DEF RaceInv, Steps, Early
  <2>5. RaceOver(sims[s]) =>
          \/ sims[s].tick = Ticks(sims[s].plan)
          \/ sims[s].cut /\ sims[s].tick > 0
          \/ sims[s].tick = 0 /\ Excused(sims[s], pipeline)
    BY <2>1 DEF RaceInv, RaceOver
  <2> QED
    BY <2>4, <2>5 DEF Ticks, Excused
<1> QED
  BY <1>1, Invariance, PTL

\* A stopped simulation that no fault hit leaves no loop, no key, no entry and no
\* runner, whatever the others do (collector.py, completing-the-race/tools.py).
THEOREM StoppedIsAlwaysGone == Spec => []StoppedIsGone
<1>1. ASSUME SimInv PROVE StoppedIsGone
  <2> SUFFICES ASSUME NEW s \in Sims, sims[s].stopped, ~sims[s].hurt
               PROVE  /\ loops[s] = 0 /\ s \notin local \cup marks
                      /\ sims[s].alive + sims[s].pending = 0
    BY DEF StoppedIsGone
  <2>1. sims[s] \in SimType /\ RunnersInv(sims[s]) /\ CollectorInv(s, sims[s])
    BY <1>1, Known DEF OwnInv
  <2>2. sims[s].alive \in Nat /\ sims[s].pending \in Nat
    BY <2>1 DEF SimType
  <2> QED
    BY <2>1, <2>2 DEF RunnersInv, CollectorInv
<1> QED
  BY <1>1, Invariance, PTL

\* Finishers and non-finishers of the final report are the spawned runners
\* (preparing-the-race/tools.py, spawn_runners; completing-the-race/tools.py).
THEOREM ResultsAlwaysAddUp == Spec => []ResultsAddUp
<1>1. ASSUME SimInv PROVE ResultsAddUp
  BY <1>1 DEF SimInv, ReportInv, ResultsAddUp
<1> QED
  BY <1>1, Invariance, PTL
=============================================================================
