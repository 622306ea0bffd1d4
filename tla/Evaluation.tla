----------------------------- MODULE Evaluation -----------------------------
(***************************************************************************)
(* How evaluate_plan scores a plan.  A plan is what the scores depend on:  *)
(* the distances it states, in hundredths of a mile and in their order,    *)
(* and how many words of each list it contains.                            *)
(***************************************************************************)
EXTENDS Integers, Sequences, FiniteSets, SequencesExt

PassThreshold == 75
High == 40

JudgedCriteria == {"safety", "logistics", "experience", "community", "financial", "intent"}
Criteria == JudgedCriteria \cup {"distance"}

AtMost(x, y) == IF x < y THEN x ELSE y
AtLeast(x, y) == IF x > y THEN x ELSE y
Deviation(d) == IF d > 2620 THEN d - 2620 ELSE 2620 - d

\* Distances of 20 to 30 miles count; a later one replaces the verdict on an
\* earlier one unless it is right; a phrase that waives the distance is final.
Counted(p) == {i \in DOMAIN p.miles : p.miles[i] \in 2000..3000}

DistanceScore(p) ==
  LET off == {i \in Counted(p) : Deviation(p.miles[i]) > 10}
  IN IF p.waives \/ (off # {} /\ Deviation(p.miles[Max(off)]) > 50) THEN 1
     ELSE IF off # {} THEN 3 ELSE 5

\* Scores of 0 to 5; one is taken for a perfect score between 0 and 1.
Normalize(raw) == AtLeast(0, AtMost(100, IF raw > 1 THEN raw * 20 ELSE raw * 100))

\* The model judges six criteria; its answer without one of them is an error.
Judged(p, raw) ==
  [c \in Criteria |-> Normalize(IF c = "distance" THEN DistanceScore(p) ELSE raw[c])]

Boosted(base, found, many, cap, fewCap) ==
  CASE found >= many -> AtMost(cap, base + 5 * found)
    [] found \in 1..(many - 1) -> AtMost(fewCap, base + 5 * found)
    [] OTHER -> base

\* The fallback counts words.
Heuristic(p) ==
  LET safety == IF p.noDetour THEN 20 ELSE IF p.blocksHospital THEN 30 ELSE 85
      community == IF p.biased THEN 30 ELSE 80
  IN [c \in Criteria |->
        CASE c = "safety"     -> AtMost(100, safety + IF p.emergencyVehicle THEN 10 ELSE 0)
          [] c = "logistics"  -> Boosted(75, p.logistics, 3, 90, 85)
          [] c = "experience" -> Boosted(75, p.experience, 2, 90, 85)
          [] c = "community"  -> AtMost(100, community + IF p.residents THEN 10 ELSE 0)
          [] c = "financial"  -> Boosted(70, p.financial, 2, 90, 80)
          [] c = "intent"     -> IF p.missing = 0 THEN 90 ELSE AtLeast(40, 75 - 10 * p.missing)
          [] c = "distance"   -> DistanceScore(p) * 20]

\* Nearest integer to n / 7.
Mean7(n) == (2 * n + 7) \div 14

Overall(scores) == Mean7(FoldFunctionOnSet(+, 0, scores, Criteria))

\* Mutant: a plan passes on its average.
ResultOnAverage(p, scores, method) ==
  [plan |-> p, method |-> method, overall |-> Overall(scores),
   passed |-> Overall(scores) >= PassThreshold]

\* _build_result: a plan passes on its average if no criterion is very low.
Result(p, scores, method) ==
  [plan |-> p, method |-> method, overall |-> Overall(scores),
   passed |-> /\ Overall(scores) >= PassThreshold
              /\ \A c \in Criteria : scores[c] >= High]

\* evaluate_plan: with a model if it answers, else by the fallback; the model
\* that writes the feedback changes no score.
Evaluations(p, judgements) ==
  {Result(p, Judged(p, raw), "vertex_ai_eval") : raw \in judgements}
    \cup {Result(p, Heuristic(p), "heuristic")}

\* The last distance that counts is wrong by more than half a mile, or waived.
WrongDistance(p) ==
  p.waives \/ \E i \in Counted(p) : /\ \A j \in Counted(p) : j <= i
                                   /\ Deviation(p.miles[i]) > 50

\* Emergency services are cut off.
Unsafe(p) == p.noDetour \/ (p.blocksHospital /\ ~p.emergencyVehicle)
=============================================================================
