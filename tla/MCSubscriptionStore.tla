------------------------ MODULE MCSubscriptionStore ------------------------
(***************************************************************************)
(* Instances of SubscriptionStore for TLC: two connections on two gateways, *)
(* of one session, so that their store calls meet, or of two.             *)
(***************************************************************************)
EXTENDS SubscriptionStore, TLC

CONSTANTS viewer, other, g1, c1

\* The first connection is on the first gateway, the others are elsewhere.
MCSessionOf == [c \in Clients |-> viewer]
MCTwoSessions == [c \in Clients |-> IF c = c1 THEN viewer ELSE other]
MCGatewayOf == [c \in Clients |-> IF c = c1 THEN g1 ELSE CHOOSE g \in Gateways : g # g1]

CallSymmetry == Permutations(Calls)
=============================================================================
