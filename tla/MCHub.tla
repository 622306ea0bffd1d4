------------------------------- MODULE MCHub -------------------------------
(***************************************************************************)
(* Instances of Hub for TLC: a global observer, connections of a session,  *)
(* two simulations, and messages that reach every phase.                   *)
(***************************************************************************)
EXTENDS Hub, TLC

CONSTANTS obs, k1, k2, sA, sB, sess

MCSessions == {Observer, sess}
MCSessionOf == [c \in Clients |-> IF c = obs THEN Observer ELSE sess]

Remote(to, s) == [kind |-> "remote", targets |-> to, sim |-> s]

\* A simulation's telemetry, addressed to nobody here or to the session.
MCMessages == {Remote({Observer}, sA), Remote({sess}, sB)}

\* The same, and the hub's own fan-outs.
MCEveryKind == MCMessages \cup {[kind |-> "broadcast", targets |-> {}, sim |-> NoSim],
                               [kind |-> "session", targets |-> {sess}, sim |-> NoSim]}

\* Telemetry of both simulations, addressed to nobody here.
MCTelemetry == {Remote({Observer}, sA), Remote({Observer}, sB)}

\* One simulation only.
MCOneSim == {Remote({Observer}, sA), Remote({sess}, sA)}

SimSymmetry == Permutations({sA, sB})
=============================================================================
