----------------------------- MODULE MCPlanning -----------------------------
(***************************************************************************)
(* Planning for TLC in two scopes that share no state: the tools that make *)
(* a course and close its roads, and a planner's session whose model calls *)
(* them.  The scope is chosen at the start, and the other one rests.       *)
(***************************************************************************)
EXTENDS Traffic, Planner, TLC

-----------------------------------------------------------------------------
(* A small network: the Strip from south to north, roads on both sides, an  *)
(* overpass that crosses without a junction, and a motorway.               *)

Road(name, coords) == [name |-> name, coords |-> coords, motorway |-> FALSE]

MCRoads ==
  <<Road("strip", <<<<400, 0>>, <<400, 160>>>>),
    Road("north", <<<<0, 160>>, <<200, 160>>, <<400, 160>>>>),
    Road("south", <<<<0, 0>>, <<200, 0>>, <<380, 0>>>>),
    Road("west", <<<<0, 160>>, <<0, 0>>>>),
    Road("mid", <<<<200, 160>>, <<200, 0>>>>),
    Road("over", <<<<0, 80>>, <<380, 80>>, <<380, 0>>>>),
    Road("east", <<<<400, 160>>, <<560, 160>>, <<560, 40>>, <<380, 40>>, <<380, 80>>>>),
    [name |-> "motorway", coords |-> <<<<400, 0>>, <<380, 0>>>>, motorway |-> TRUE]>>

\* Roads of six points.
MCOverlaps == {6} \X (SUBSET (1..6)) \X (SUBSET (1..6))

MCLandmarks == {<<380, 10>>, <<200, 150>>}
MCSign == <<400, 0>>
MCExit == <<400, 160>>

-----------------------------------------------------------------------------
(* Responses the model may give, and plans that are good, cut off the       *)
(* emergency services, or state a wrong distance.                          *)

Call(tool) == [tool |-> tool, action |-> ""]
Plan == <<Call("plan")>>
Replan == <<[tool |-> "plan", action |-> "force"]>>
Start == Call("start")
Execute == [tool |-> "submit", action |-> "execute"]
Verify == [tool |-> "submit", action |-> "verify"]

\* Each behaviour draws its responses from one of these, so that not all mix.
Both == {Replan, <<Verify, Execute>>}
Mixes ==
  {{Replan, <<Start, Execute>>, <<Execute, Execute>>}, Both,
   {Plan, <<Start, Verify>>, <<Execute>>, <<Call("record"), Call("summarise")>>, <<Call("store")>>},
   {Replan, <<Call("evaluate"), Call("assess")>>, <<Call("store")>>, <<Call("activate")>>}}

MCResponses == UNION Mixes

Good == [miles |-> <<2622>>, waives |-> FALSE, noDetour |-> FALSE, blocksHospital |-> FALSE,
         emergencyVehicle |-> TRUE, biased |-> FALSE, residents |-> TRUE,
         logistics |-> 6, experience |-> 5, financial |-> 4, missing |-> 0]
Short == [Good EXCEPT !.miles = <<2620, 2100>>]
CutOff == [Good EXCEPT !.noDetour = TRUE]
Poor == [Good EXCEPT !.miles = <<>>, !.logistics = 0, !.experience = 1, !.financial = 1,
                     !.missing = 2, !.residents = FALSE]

MCPlans == {Good, Short, CutOff, Poor}
MCJudgements == {[c \in JudgedCriteria |-> 4], [c \in JudgedCriteria |-> IF c = "safety" THEN 1 ELSE 5]}

-----------------------------------------------------------------------------
VARIABLE scope

mcVars == <<vars, trafficVars, plannerVars, scope>>

From(r) == Len(calls') = Len(r) /\ \A c \in DOMAIN r : calls'[c].tool = r[c].tool /\ calls'[c].action = r[c].action

\* The first candidate is for one landmark, the second for the other.
First == CHOOSE l \in Landmarks : TRUE

MCInit ==
  /\ TrafficInit /\ PlannerInit /\ poi = First
  /\ scope \in Mixes \cup {{}}

\* A verification and an execution at once: one response to the second message.
Brief == scope = Both => invocation = 1 \/ answered < 2

MCNext ==
  /\ UNCHANGED scope
  /\ \/ scope = {} /\ TrafficNext /\ UNCHANGED plannerVars /\ (made' = <<>> \/ poi' # First)
     \/ /\ scope # {} /\ PlannerNext /\ UNCHANGED <<vars, trafficVars>>
        /\ calls' = <<>> \/ \E r \in scope : From(r)
        /\ Brief'

MCSpec == MCInit /\ [][MCNext]_mcVars
=============================================================================
