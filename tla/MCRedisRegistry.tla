-------------------------- MODULE MCRedisRegistry --------------------------
(***************************************************************************)
(* Instances of RedisRegistry for TLC: sessions of one agent type, all of  *)
(* them or all but one in one simulation, so that they share every index.  *)
(***************************************************************************)
EXTENDS RedisRegistry, TLC

CONSTANTS runner, sim, s1

MCTypeOf == [s \in Sessions |-> runner]
MCSimsOf == [s \in Sessions |-> IF s = s1 THEN {} ELSE {sim}]
MCInSim == [s \in Sessions |-> {sim}]

SessionSymmetry == Permutations(Sessions)
=============================================================================
