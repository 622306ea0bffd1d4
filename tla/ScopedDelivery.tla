--------------------------- MODULE ScopedDelivery ---------------------------
(***************************************************************************)
(* What the agent dispatchers promise of simulation broadcasts: a receiver *)
(* runs broadcasts of its own simulation only, in the order in which they  *)
(* were published and each at most once.  It may miss some: Redis pub/sub  *)
(* keeps nothing for a connection that is down.                            *)
(***************************************************************************)
EXTENDS Naturals, Sequences

CONSTANTS
  Receivers,  \* those that run broadcasts
  Sims,       \* simulations
  Scope       \* receiver -> the simulation it belongs to

VARIABLES
  sent,       \* the simulation of every message, in publishing order
  got         \* receiver -> the messages it has run, by their numbers

Init == sent = <<>> /\ got = [r \in Receivers |-> <<>>]

Publish(m) == sent' = Append(sent, m) /\ UNCHANGED got

Run(r, i) ==
  /\ sent[i] = Scope[r]
  /\ \A k \in 1..Len(got[r]) : got[r][k] < i
  /\ got' = [got EXCEPT ![r] = Append(@, i)]
  /\ UNCHANGED sent

Next ==
  \/ \E m \in Sims : Publish(m)
  \/ \E r \in Receivers : \E i \in 1..Len(sent) : Run(r, i)

Spec == Init /\ [][Next]_<<sent, got>>
=============================================================================
