---------------------------- MODULE MCSimulation ----------------------------
(***************************************************************************)
(* Two simulations, one of them with a shorter race than the other, so that *)
(* they meet in the race engine; plans of which some are rejected.         *)
(***************************************************************************)
EXTENDS Simulation, TLC

CONSTANTS a, b

Long == [json |-> TRUE, narrative |-> TRUE, route |-> "line", duration |-> 5, interval |-> 2,
         count |-> 3, type |-> "llm"]
Medium == [Long EXCEPT !.count = 1]
Zero == [Medium EXCEPT !.duration = 1, !.route = "absent", !.type = "autopilot"]
Corrupt == [Zero EXCEPT !.route = "corrupt"]

MCPlans == {Long, Medium, Zero, Corrupt}

\* The longest race meets one that is rejected, the others a short one; the
\* first one's route is in the message, in Redis, or in neither.
MCInit ==
  /\ Init
  /\ \/ sims[a] = NewSim(Long, "absent") /\ sims[b] = NewSim(Corrupt, "absent")
     \/ /\ sims[b] = NewSim(Zero, "absent")
        /\ sims[a] \in {NewSim(Medium, "absent"), NewSim(Medium, "corrupt"), NewSim(Zero, "line"),
                       NewSim(Corrupt, "line"), NewSim(Corrupt, "absent")}
  /\ pipeline = "own" \/ sims[a] = NewSim(Medium, "absent")

MCSpec == MCInit /\ [][Next]_vars /\ Fairness

MCCaps == [type \in {"llm", "autopilot"} |-> IF type = "llm" THEN 2 ELSE 3]
=============================================================================
