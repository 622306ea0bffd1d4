---------------------------- MODULE MCDispatcher ----------------------------
(***************************************************************************)
(* Instances of Dispatcher for TLC: two instances of an agent type and two *)
(* sessions, each of a simulation of its own.                              *)
(***************************************************************************)
EXTENDS Dispatcher, TLC

CONSTANTS s1, s2, simA, simB

MCSimOf == s1 :> simA @@ s2 :> simB

Scenario(S, P, K, T, m, f) ==
  [spawned |-> S, poked |-> P, kinds |-> K, targets |-> T, msgs |-> m, faults |-> f]

\* Races of one simulation with faults, of two without; users' messages and
\* their relays; clicks and resets among them.
MCScenarios ==
  {Scenario({s1}, {}, {"tick", "end"}, {}, 3, 1),
   Scenario({s1}, {s1}, {"tick", "end"}, {}, 2, 1),
   Scenario({s1, s2}, {}, {"tick"}, {}, 2, 0),
   Scenario({s1}, {}, {"user"}, {{}, {s1}, {AgentType}}, 2, 1),
   Scenario({s1, s2}, {}, {"user"}, {{s1, s2}}, 2, 0),
   Scenario({s1}, {}, {"user", "a2ui_action", "environment_reset"}, {{s1}}, 2, 0),
   Scenario({s1}, {}, {"tick", "environment_reset"}, {}, 2, 0)}

\* One batch, no fault.
MCQuiet == {Scenario({s1}, {s1}, {"tick"}, {}, 1, 0)}
=============================================================================
