---------------------------- MODULE MCRaceTicks ----------------------------
(***************************************************************************)
(* A race for TLC in three scopes that share no state: the tick loop with  *)
(* two runners, the vitals of one of them, and the telemetry of one run of *)
(* an agent.  The scope is chosen at the start, and the others rest.       *)
(***************************************************************************)
EXTENDS RaceTicks, Runner, Telemetry, TLC

CONSTANTS r1, w1

VARIABLE scope

mcVars == <<vars, oneRunnerVars, telemetryVars, scope>>

\* The first runner may leave the race, the others may only be late.
MCFates == [r \in Runners |->
              IF r = r1 THEN {"running", "finished", "collapsed"} ELSE {"running"}]

\* A slow runner that hits the wall late and a fast one that hits it early.
MCProfiles ==
  {[ability |-> 20, velocity |-> 120, water |-> 20, wall |-> 4000, severity |-> 1, cheers |-> FALSE],
   [ability |-> 75, velocity |-> 90, water |-> 18, wall |-> 900, severity |-> 2, cheers |-> TRUE]}

\* A first turn of two calls is the only one, and meets neither a second worker
\* nor a lost batch.
Light ==
  \/ said = <<>> \/ Len(said[1].calls) < 2
  \/ Len(said) < 2 /\ drops = 0 /\ \A w \in Workers \ {w1} : batch[w] = {}

MCInit ==
  /\ Init /\ RunnerInit /\ TelemetryInit
  /\ \/ scope = "race" /\ mind = "llm" /\ voice = "speaker"
     \/ scope = "runner" /\ voice = "speaker"
     \/ scope = "telemetry" /\ mind = "llm"

MCNext ==
  /\ UNCHANGED scope
  /\ \/ scope = "race" /\ Next /\ UNCHANGED <<oneRunnerVars, telemetryVars>>
     \/ scope = "runner" /\ RunnerNext /\ UNCHANGED <<vars, telemetryVars>>
     \/ scope = "telemetry" /\ TelemetryNext /\ Light' /\ UNCHANGED <<vars, oneRunnerVars>>

\* A race that rests is not fair, and RaceEnds says nothing of the other scopes.
MCSpec == MCInit /\ [][MCNext]_mcVars /\ Fairness
=============================================================================
