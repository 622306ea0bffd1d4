----------------------------- MODULE RaceTicks -----------------------------
(***************************************************************************)
(* The tick loop of one race.  The simulator (advance_tick) flushes its    *)
(* buffer, publishes a tick to the runners still in the race, drains the   *)
(* buffer until all have reported or the time is over, aggregates, and     *)
(* starts again; check_race_complete ends the loop.  A runner handles its  *)
(* ticks one at a time and reports each over two paths: straight into the  *)
(* buffer, and as a tool_end event that the RaceCollector copies there.    *)
(*                                                                         *)
(* Distance, water and time are abstracted to the runner's status: a       *)
(* movement tick may leave it running, finish it or collapse it.           *)
(***************************************************************************)
EXTENDS Naturals, Sequences, FiniteSets

CONSTANTS
  Runners,     \* state["runner_session_ids"]
  Fates,       \* runner -> the statuses that a movement tick may give it
  MaxTicks,    \* state["max_ticks"]
  MaxRevivals, \* bound: hydration_station events that a collapsed runner gets
  MaxLosses    \* bound: ticks that miss a runner, and direct writes that fail

ASSUME RaceAssumption ==
  /\ IsFiniteSet(Runners)
  /\ Fates \in [Runners -> SUBSET {"running", "finished", "collapsed"}]
  /\ MaxTicks \in Nat \ {0}
  /\ MaxRevivals \in Nat /\ MaxLosses \in Nat

VARIABLES
  phase,       \* the simulator's next step
  tick,        \* state["current_tick"]
  active,      \* active_runner_ids of the open window
  results,     \* what the open window has drained that is of its tick
  finished,    \* state["finished_runner_ids"]
  collapsed,   \* state["collapsed_runner_ids"]
  buffer,      \* the Redis list collector:buffer:{session}
  events,      \* tool_end events on their way to the collector
  collecting,  \* the collector's loop is running
  status,      \* runner -> its state
  inbox,       \* runner -> ticks waiting for its lock
  revivals,    \* number of collapsed runners that were rehydrated
  losses,      \* number of missed ticks and failed writes
  ran,         \* history: runner -> ticks it has processed
  finishRead   \* history: runners whose finish the simulator has read

simVars    == <<phase, tick, active, results, finished, collapsed>>
runnerVars == <<status, inbox, revivals, losses, ran>>
channels   == <<buffer, events, collecting>>
vars == <<simVars, runnerVars, channels, finishRead>>

\* One process_tick result.  A buffer is a set of them: its reader takes the
\* first of the copies that the two paths may leave, and they are equal.
Report(r, t, s) == [runner |-> r, tick |-> t, status |-> s]

Statuses == {"running", "finished", "collapsed"}
Reports == [runner : Runners, tick : Nat, status : Statuses]

WithStatus(M, s) == {m.runner : m \in {n \in M : n.status = s}}

\* Mutant: results of earlier ticks are not skipped.
CurrentOrStale(M) == M

\* The results that are not stale.
Current(M) == {m \in M : m.tick = tick}

\* reported_runners, and runners_reporting of the snapshot.
Reported == {m.runner : m \in results}

Init ==
  /\ phase = "open" /\ tick = 0
  /\ active = {} /\ results = {}
  /\ finished = {} /\ collapsed = {}
  /\ buffer = {} /\ events = {} /\ collecting = TRUE
  /\ status = [r \in Runners |-> "running"]
  /\ inbox = [r \in Runners |-> <<>>]
  /\ revivals = 0 /\ losses = 0
  /\ ran = [r \in Runners |-> {}]
  /\ finishRead = {}

----------------------------------------------------------------------------
(* The simulator.                                                          *)

\* Mutant: runners that are out of the race get the tick too.
OpenWindowToAll ==
  /\ phase = "open"
  /\ finished' = finished \cup WithStatus(buffer, "finished")
  /\ finishRead' = finishRead \cup WithStatus(buffer, "finished")
  /\ buffer' = {} /\ results' = {}
  /\ active' = Runners \ (finished' \cup collapsed)
  /\ inbox' = [r \in Runners |-> Append(inbox[r], tick)]
  /\ phase' = "sleep"
  /\ UNCHANGED <<tick, collapsed, status, revivals, losses, ran, events, collecting>>

\* Flush the stale results, but keep a finish, then publish the tick, except to
\* the runners that are out of the race.  A report that arrives between the two
\* is one that arrives before the first drain.
OpenWindow ==
  /\ phase = "open"
  /\ finished' = finished \cup WithStatus(buffer, "finished")
  /\ finishRead' = finishRead \cup WithStatus(buffer, "finished")
  /\ buffer' = {} /\ results' = {}
  /\ active' = Runners \ (finished' \cup collapsed)
  /\ inbox' = [r \in Runners |-> IF r \in active' THEN Append(inbox[r], tick) ELSE inbox[r]]
  /\ phase' = "sleep"
  /\ UNCHANGED <<tick, collapsed, status, revivals, losses, ran, events, collecting>>

\* The loop stops early when a drain returned something and
\* len(reported_runners) >= expected_count.
Drain ==
  /\ phase \in {"sleep", "poll"}
  /\ results' = results \cup Current(buffer)
  /\ finishRead' = finishRead \cup WithStatus(buffer, "finished")
  /\ buffer' = {}
  /\ phase' = IF buffer # {} /\ Cardinality(Reported') >= Cardinality(active)
                THEN "reported" ELSE "poll"
  /\ UNCHANGED <<tick, active, finished, collapsed, runnerVars, events, collecting>>

\* Mutants: the window waits for the slowest runner; a tick that nobody
\* answered is repeated.
CloseWindowWhenAllReported ==
  /\ phase = "reported"
  /\ finished' = finished \cup WithStatus(results, "finished")
  /\ collapsed' = collapsed \cup WithStatus(results, "collapsed")
  /\ tick' = tick + 1
  /\ results' = {} /\ active' = {}
  /\ phase' = "check"
  /\ UNCHANGED <<runnerVars, channels, finishRead>>

CloseWindowTickKept ==
  /\ phase \in {"poll", "reported"}
  /\ finished' = finished \cup WithStatus(results, "finished")
  /\ collapsed' = collapsed \cup WithStatus(results, "collapsed")
  /\ tick' = tick + IF Reported = {} THEN 0 ELSE 1
  /\ results' = {} /\ active' = {}
  /\ phase' = "check"
  /\ UNCHANGED <<runnerVars, channels, finishRead>>

\* All have reported, or the time is over after at least one drain.
CloseWindow ==
  /\ phase \in {"poll", "reported"}
  /\ finished' = finished \cup WithStatus(results, "finished")
  /\ collapsed' = collapsed \cup WithStatus(results, "collapsed")
  /\ tick' = tick + 1
  /\ results' = {} /\ active' = {}
  /\ phase' = "check"
  /\ UNCHANGED <<runnerVars, channels, finishRead>>

\* The LoopAgent's own limit; an iteration advances one tick.
MaxIterations == MaxTicks + 1

CheckRaceComplete ==
  /\ phase = "check"
  /\ phase' = IF tick >= MaxTicks \/ tick >= MaxIterations THEN "post" ELSE "open"
  /\ UNCHANGED <<tick, active, results, finished, collapsed, runnerVars, channels, finishRead>>

\* compile_results reads the snapshots and the finishers and changes nothing;
\* then stop_race_collector.  On another instance than the one that started
\* the collector only the keys go, and the loop keeps running.
PostRace ==
  /\ phase = "post"
  /\ buffer' = {}
  /\ collecting' \in {collecting, FALSE}
  /\ phase' = "over"
  /\ UNCHANGED <<tick, active, results, finished, collapsed, runnerVars, events, finishRead>>

----------------------------------------------------------------------------
(* The runners and the collector.                                          *)

\* Tick 0 has no minutes, so it moves nobody; the terminal states stay.
Outcomes(r, t) ==
  IF status[r] = "running" /\ t > 0 THEN Fates[r] ELSE {status[r]}

\* A runner that is out of the race reports over the event path only.  The
\* direct write may fail; an event that is lost is one never collected.
ProcessTick(r) ==
  /\ inbox[r] # <<>>
  /\ LET t == Head(inbox[r])
     IN \E s \in Outcomes(r, t), written \in BOOLEAN :
          /\ ~written => status[r] = "running" /\ losses < MaxLosses
          /\ losses' = losses + IF written THEN 0 ELSE 1
          /\ status' = [status EXCEPT ![r] = s]
          /\ ran' = [ran EXCEPT ![r] = @ \cup {t}]
          /\ buffer' = buffer \cup IF written /\ status[r] = "running" THEN {Report(r, t, s)} ELSE {}
          /\ events' = events \cup {Report(r, t, s)}
  /\ inbox' = [inbox EXCEPT ![r] = Tail(@)]
  /\ UNCHANGED <<simVars, collecting, revivals, finishRead>>

\* Pub/sub misses the runner's dispatcher, or the run raises: no process_tick.
MissTick(r) ==
  /\ inbox[r] # <<>> /\ losses < MaxLosses
  /\ losses' = losses + 1
  /\ inbox' = [inbox EXCEPT ![r] = Tail(@)]
  /\ UNCHANGED <<simVars, channels, status, revivals, ran, finishRead>>

\* A hydration_station event revives a runner.
Rehydrate(r) ==
  /\ status[r] = "collapsed" /\ revivals < MaxRevivals
  /\ revivals' = revivals + 1
  /\ status' = [status EXCEPT ![r] = "running"]
  /\ UNCHANGED <<simVars, channels, inbox, losses, ran, finishRead>>

CollectEvent(m) ==
  /\ m \in events /\ collecting
  /\ buffer' = buffer \cup {m}
  /\ events' = events \ {m}
  /\ UNCHANGED <<simVars, runnerVars, collecting, finishRead>>

----------------------------------------------------------------------------
SimulatorStep == \/ OpenWindow \/ Drain \/ CloseWindow
                 \/ CheckRaceComplete \/ PostRace

Next ==
  \/ SimulatorStep
  \/ \E r \in Runners : ProcessTick(r) \/ MissTick(r) \/ Rehydrate(r)
  \/ \E m \in events : CollectEvent(m)

Spec == Init /\ [][Next]_vars

\* The simulator's steps are awaits that end: a drain, a publish, a timeout.
Fairness == WF_vars(SimulatorStep) /\ WF_vars(CloseWindow)
FairSpec == Spec /\ Fairness

----------------------------------------------------------------------------
SimType ==
  /\ phase \in {"open", "sleep", "poll", "reported", "check", "post", "over"}
  /\ tick \in 0 .. MaxTicks
  /\ active \subseteq Runners
  /\ finished \subseteq Runners /\ collapsed \subseteq Runners
  /\ finishRead \subseteq Runners

ChannelType ==
  /\ results \subseteq Reports /\ buffer \subseteq Reports /\ events \subseteq Reports
  /\ collecting \in BOOLEAN

RunnerType ==
  /\ status \in [Runners -> Statuses]
  /\ inbox \in [Runners -> Seq(Nat)]
  /\ ran \in [Runners -> SUBSET Nat]
  /\ revivals \in 0 .. MaxRevivals /\ losses \in 0 .. MaxLosses

\* The race never runs past its last tick.
TypeOK == SimType /\ ChannelType /\ RunnerType

\* The early wake compares two numbers; that is enough, because only runners
\* of the window are counted: when the loop stops waiting because as many have
\* reported as are in the race, nobody's result for this tick is missing.
EarlyWakeIsComplete ==
  phase = "reported" => active \subseteq Reported

\* process_tick moves the runner whenever it is called: no runner gets a tick
\* twice or out of order, so nobody moves twice for one tick.
EachTickOnce ==
  \A r \in Runners :
    /\ \A i \in DOMAIN inbox[r], u \in ran[r] : u < inbox[r][i]
    /\ \A i, j \in DOMAIN inbox[r] : i < j => inbox[r][i] < inbox[r][j]

\* A runner that a snapshot counts for a tick has processed that very tick,
\* and whoever is counted as a finisher has finished.
ResultsAreTrue ==
  /\ \A r \in Reported : tick \in ran[r]
  /\ \A r \in finished : status[r] = "finished"

\* The race ends, however few runners answer.
RaceEnds == <>(phase = "over")

\* advance_tick: "late-arriving finish results are not permanently lost": a
\* finish that the simulator has read from its buffer is in the final count.
FinishersAreKept == phase = "over" => finishRead \subseteq finished
=============================================================================
