------------------------- MODULE SubscriptionStore -------------------------
(***************************************************************************)
(* The Redis subscription store, src/internal/hub/subscription.go, and the *)
(* goroutines through which the hubs of several gateways write to it.      *)
(*                                                                         *)
(* Run applies a subscription event to its own maps and starts a goroutine *)
(* that repeats it on the store: nothing orders these goroutines, and each *)
(* of their Redis commands is a step of its own, since a pipeline is not a *)
(* transaction.  The connections are those of Hub; receiving and applying  *)
(* a request are one step here, and blocklists and messages are left out.  *)
(***************************************************************************)
EXTENDS Naturals, FiniteSets

CONSTANTS
  Clients,      \* connections; the gateway registers each of them once
  NoClient,
  Sessions,     \* session ids; several connections may share one
  SessionOf,    \* the session of a connection
  GatewayOf,    \* the gateway a connection is opened on
  Gateways,
  Sims,         \* simulation ids
  NoSim,        \* the empty simulation id
  Calls,        \* bound: the goroutines started in a behaviour
  MaxFailures,  \* bound: calls that fail, and gateways that stop
  MaxExpiries   \* bound: keys whose TTL runs out

ASSUME StoreAssumption ==
  /\ SessionOf \in [Clients -> Sessions]
  /\ GatewayOf \in [Clients -> Gateways]
  /\ NoSim \notin Sims /\ NoClient \notin Clients
  /\ MaxFailures \in Nat
  /\ MaxExpiries \in Nat

VARIABLES
  fwd,       \* sim -> sessions, sim_sub:{sim}
  rev,       \* session -> sims, sim_sub_rev:{session}
  fwdTTL,    \* simulations whose key has a TTL
  revTTL,    \* sessions whose key has a TTL
  conn,      \* connection -> "new", "on" (in Hub.clients) or "off"
  subs,      \* connection -> Hub.simSubscriptions
  reader,    \* connection -> what its reader is doing
  request,   \* connection -> the simulation its reader is asking about
  pump,      \* connection -> what its writePump is doing
  call,      \* goroutine -> its store call
  failures,  \* number of failures
  expiries,  \* number of expired keys
  expected,  \* history: session -> simulations the hubs asked for last
  raced,     \* history: sessions that had two calls at the same time
  cut        \* history: sessions with a failed call or an expired key

storeVars == <<fwd, rev, fwdTTL, revTTL>>
connVars  == <<conn, subs, reader, request, pump>>
bounds    == <<failures, expiries>>
vars == <<storeVars, connVars, call, bounds, expected, raced, cut>>

NoCall == [pc |-> "free", client |-> NoClient, sim |-> NoSim, todo |-> {}]
Done == [NoCall EXCEPT !.pc = "done"]

Init ==
  /\ fwd = [m \in Sims |-> {}] /\ rev = [s \in Sessions |-> {}]
  /\ fwdTTL = {} /\ revTTL = {}
  /\ conn = [c \in Clients |-> "new"]
  /\ subs = [c \in Clients |-> {}]
  /\ reader = [c \in Clients |-> "new"]
  /\ request = [c \in Clients |-> NoSim]
  /\ pump = [c \in Clients |-> "new"]
  /\ call = [k \in Calls |-> NoCall]
  /\ failures = 0 /\ expiries = 0
  /\ expected = [s \in Sessions |-> {}]
  /\ raced = {} /\ cut = {}

InFlight(k) == call[k].pc \notin {"free", "done"}
CallsOf(s)  == {k \in Calls : InFlight(k) /\ SessionOf[call[k].client] = s}

----------------------------------------------------------------------------
(* Run's events.  Each of them starts a goroutine.                         *)

\* The goroutine that makes c's call whose first command is pc.
Go(k, pc, c, m) ==
  /\ call[k].pc = "free"
  /\ call' = [call EXCEPT ![k] = [pc |-> pc, client |-> c, sim |-> m, todo |-> {}]]
  /\ raced' = IF CallsOf(SessionOf[c]) # {} THEN raced \cup {SessionOf[c]} ELSE raced
  /\ UNCHANGED <<storeVars, bounds, cut>>

GoSubscribe(k, c, m) ==
  /\ Go(k, "sadd fwd", c, m)
  /\ expected' = [expected EXCEPT ![SessionOf[c]] = @ \cup {m}]

\* Register, with the auto-subscription of the URL when it names a simulation.
Register(c) ==
  /\ conn[c] = "new"
  /\ conn' = [conn EXCEPT ![c] = "on"]
  /\ reader' = [reader EXCEPT ![c] = "reading"]
  /\ pump' = [pump EXCEPT ![c] = "running"]
  /\ UNCHANGED request

RegisterPlain(c) ==
  /\ Register(c)
  /\ UNCHANGED <<subs, storeVars, call, bounds, expected, raced, cut>>

RegisterAuto(c, m, k) ==
  /\ Register(c)
  /\ subs' = [subs EXCEPT ![c] = @ \cup {m}]
  /\ GoSubscribe(k, c, m)

\* HandleTextMessage: the reader of a connection the hub knows blocks until
\* Run takes its request.
ReadFrame(c, op, m) ==
  /\ reader[c] = "reading" /\ conn[c] = "on"
  /\ reader' = [reader EXCEPT ![c] = op]
  /\ request' = [request EXCEPT ![c] = m]
  /\ UNCHANGED <<conn, subs, pump, storeVars, call, bounds, expected, raced, cut>>

\* The request of a reader is taken, whether its client is still registered
\* or not.
Taken(c, op) ==
  /\ reader[c] = op
  /\ reader' = [reader EXCEPT ![c] = "reading"]
  /\ request' = [request EXCEPT ![c] = NoSim]
  /\ UNCHANGED <<conn, pump>>

Subscribe(c, k) ==
  /\ Taken(c, "subscribe")
  /\ subs' = [subs EXCEPT ![c] = @ \cup {request[c]}]
  /\ GoSubscribe(k, c, request[c])

Unsubscribe(c, k) ==
  /\ Taken(c, "unsubscribe")
  /\ subs' = [subs EXCEPT ![c] = @ \ {request[c]}]
  /\ Go(k, "srem fwd", c, request[c])
  /\ expected' = [expected EXCEPT ![SessionOf[c]] = @ \ {request[c]}]

\* ReadMessage fails: the deferred Unregister looks the client up and blocks
\* on the channel if it found it.
ReaderFails(c) ==
  /\ reader[c] = "reading"
  /\ reader' = [reader EXCEPT ![c] = IF conn[c] = "on" THEN "unregistering" ELSE "gone"]
  /\ UNCHANGED <<conn, subs, request, pump, storeVars, call, bounds, expected, raced, cut>>

\* A write fails before the pump has seen its channel closed.
PumpFails(c) ==
  /\ pump[c] = "running"
  /\ pump' = [pump EXCEPT ![c] = "unregistering"]
  /\ UNCHANGED <<conn, subs, reader, request, storeVars, call, bounds, expected, raced, cut>>

\* The pump sees that the hub has closed its channel.
PumpClosed(c) ==
  /\ pump[c] = "running" /\ conn[c] = "off"
  /\ pump' = [pump EXCEPT ![c] = "stopped"]
  /\ UNCHANGED <<conn, subs, reader, request, storeVars, call, bounds, expected, raced, cut>>

\* Mutant: the pump's unregister does not reach the store.
RunUnregisterLocally(c, k) ==
  /\ pump[c] = "unregistering"
  /\ pump' = [pump EXCEPT ![c] = "stopped"]
  /\ conn' = [conn EXCEPT ![c] = "off"]
  /\ subs' = [subs EXCEPT ![c] = {}]
  /\ UNCHANGED <<reader, request, storeVars, call, bounds, expected, raced, cut>>

\* Run handles an unregister of c, the first one or a duplicate.
RunUnregister(c, k) ==
  /\ \/ /\ reader[c] = "unregistering"
        /\ reader' = [reader EXCEPT ![c] = "gone"]
        /\ UNCHANGED pump
     \/ /\ pump[c] = "unregistering"
        /\ pump' = [pump EXCEPT ![c] = "stopped"]
        /\ UNCHANGED reader
  /\ conn' = [conn EXCEPT ![c] = "off"]
  /\ subs' = [subs EXCEPT ![c] = {}]
  /\ Go(k, "smembers", c, NoSim)
  /\ expected' = [expected EXCEPT ![SessionOf[c]] = {}]
  /\ UNCHANGED request

----------------------------------------------------------------------------
(* The commands of the store calls.                                        *)

Runs(k, pc, s, m) ==
  /\ call[k].pc = pc /\ k \in CallsOf(s) /\ call[k].sim = m
  /\ UNCHANGED <<connVars, bounds, expected, raced, cut>>

Continue(k, pc) == call' = [call EXCEPT ![k].pc = pc]
Finish(k) == call' = [call EXCEPT ![k] = Done]

SAddFwd(k, s, m) ==
  /\ Runs(k, "sadd fwd", s, m)
  /\ fwd' = [fwd EXCEPT ![m] = @ \cup {s}]
  /\ Continue(k, "expire fwd")
  /\ UNCHANGED <<rev, fwdTTL, revTTL>>

\* Mutant: only the reverse set gets a TTL.
ExpireFwdNever(k, s, m) ==
  /\ Runs(k, "expire fwd", s, m)
  /\ Continue(k, "sadd rev")
  /\ UNCHANGED storeVars

ExpireFwd(k, s, m) ==
  /\ Runs(k, "expire fwd", s, m)
  /\ fwdTTL' = IF fwd[m] # {} THEN fwdTTL \cup {m} ELSE fwdTTL
  /\ Continue(k, "sadd rev")
  /\ UNCHANGED <<fwd, rev, revTTL>>

SAddRev(k, s, m) ==
  /\ Runs(k, "sadd rev", s, m)
  /\ rev' = [rev EXCEPT ![s] = @ \cup {m}]
  /\ Continue(k, "expire rev")
  /\ UNCHANGED <<fwd, fwdTTL, revTTL>>

ExpireRev(k, s, m) ==
  /\ Runs(k, "expire rev", s, m)
  /\ revTTL' = IF rev[s] # {} THEN revTTL \cup {s} ELSE revTTL
  /\ Finish(k)
  /\ UNCHANGED <<fwd, rev, fwdTTL>>

\* SREM: a set that becomes empty is deleted, and its TTL with it.
RemoveFwd(s, m) ==
  /\ fwd' = [fwd EXCEPT ![m] = @ \ {s}]
  /\ fwdTTL' = IF fwd[m] \subseteq {s} THEN fwdTTL \ {m} ELSE fwdTTL

\* Mutant: the simulation's set is deleted.
DelFwd(k, s, m) ==
  /\ Runs(k, "srem fwd", s, m)
  /\ fwd' = [fwd EXCEPT ![m] = {}]
  /\ fwdTTL' = fwdTTL \ {m}
  /\ Continue(k, "srem rev")
  /\ UNCHANGED <<rev, revTTL>>

SRemFwd(k, s, m) ==
  /\ Runs(k, "srem fwd", s, m)
  /\ RemoveFwd(s, m)
  /\ Continue(k, "srem rev")
  /\ UNCHANGED <<rev, revTTL>>

SRemRev(k, s, m) ==
  /\ Runs(k, "srem rev", s, m)
  /\ rev' = [rev EXCEPT ![s] = @ \ {m}]
  /\ revTTL' = IF rev[s] \subseteq {m} THEN revTTL \ {s} ELSE revTTL
  /\ Finish(k)
  /\ UNCHANGED <<fwd, fwdTTL>>

\* UnsubscribeAll reads the reverse set and returns when it is empty.
SMembers(k, s) ==
  /\ Runs(k, "smembers", s, NoSim)
  /\ IF rev[s] = {} THEN Finish(k)
       ELSE call' = [call EXCEPT ![k].todo = rev[s], ![k].pc = "srem"]
  /\ UNCHANGED storeVars

SRem(k, s, m) ==
  /\ Runs(k, "srem", s, NoSim)
  /\ m \in call[k].todo
  /\ RemoveFwd(s, m)
  /\ call' = [call EXCEPT ![k].todo = @ \ {m},
                          ![k].pc = IF call[k].todo = {m} THEN "del" ELSE "srem"]
  /\ UNCHANGED <<rev, revTTL>>

Del(k, s) ==
  /\ Runs(k, "del", s, NoSim)
  /\ rev' = [rev EXCEPT ![s] = {}]
  /\ revTTL' = revTTL \ {s}
  /\ Finish(k)
  /\ UNCHANGED <<fwd, fwdTTL>>

CallStep(k) ==
  \E s \in Sessions :
    \/ SMembers(k, s)
    \/ Del(k, s)
    \/ \E m \in Sims : \/ SAddFwd(k, s, m) \/ ExpireFwd(k, s, m)
                       \/ SAddRev(k, s, m) \/ ExpireRev(k, s, m)
                       \/ SRemFwd(k, s, m) \/ SRemRev(k, s, m)
                       \/ SRem(k, s, m)

----------------------------------------------------------------------------
(* Failures and the TTL.                                                   *)

\* The rest of a call is lost: an error or the 2 s timeout, which is logged.
CallFails(k) ==
  /\ InFlight(k) /\ failures < MaxFailures
  /\ failures' = failures + 1
  /\ Finish(k)
  /\ cut' = cut \cup {SessionOf[call[k].client]}
  /\ UNCHANGED <<storeVars, connVars, expiries, expected, raced>>

\* A gateway stops: its connections and its goroutines end where they are.
\* Shutdown does not unregister WebSocket connections either.
GatewayStops(g) ==
  LET ended == {c \in Clients : GatewayOf[c] = g /\ conn[c] # "new"}
      dead  == {k \in Calls : InFlight(k) /\ GatewayOf[call[k].client] = g}
  IN /\ ended # {} /\ failures < MaxFailures
     /\ failures' = failures + 1
     /\ conn' = [c \in Clients |-> IF c \in ended THEN "off" ELSE conn[c]]
     /\ subs' = [c \in Clients |-> IF c \in ended THEN {} ELSE subs[c]]
     /\ reader' = [c \in Clients |-> IF c \in ended THEN "gone" ELSE reader[c]]
     /\ request' = [c \in Clients |-> IF c \in ended THEN NoSim ELSE request[c]]
     /\ pump' = [c \in Clients |-> IF c \in ended THEN "stopped" ELSE pump[c]]
     /\ call' = [k \in Calls |-> IF k \in dead THEN Done ELSE call[k]]
     /\ cut' = cut \cup {SessionOf[c] : c \in ended}
     /\ UNCHANGED <<storeVars, expiries, expected, raced>>

\* The TTL of sim_sub:{m}, or of sim_sub_rev:{s}, runs out.
FwdExpires(m) ==
  /\ m \in fwdTTL /\ expiries < MaxExpiries
  /\ expiries' = expiries + 1
  /\ fwd' = [fwd EXCEPT ![m] = {}]
  /\ fwdTTL' = fwdTTL \ {m}
  /\ cut' = cut \cup fwd[m]
  /\ UNCHANGED <<rev, revTTL, connVars, call, failures, expected, raced>>

RevExpires(s) ==
  /\ s \in revTTL /\ expiries < MaxExpiries
  /\ expiries' = expiries + 1
  /\ rev' = [rev EXCEPT ![s] = {}]
  /\ revTTL' = revTTL \ {s}
  /\ cut' = cut \cup {s}
  /\ UNCHANGED <<fwd, fwdTTL, connVars, call, failures, expected, raced>>

----------------------------------------------------------------------------
Next ==
  \/ \E c \in Clients :
       \/ RegisterPlain(c) \/ ReaderFails(c) \/ PumpFails(c) \/ PumpClosed(c)
       \/ \E m \in Sims, op \in {"subscribe", "unsubscribe"} : ReadFrame(c, op, m)
       \/ \E k \in Calls : \/ \E m \in Sims : RegisterAuto(c, m, k)
                           \/ Subscribe(c, k) \/ Unsubscribe(c, k)
                           \/ RunUnregister(c, k)
  \/ \E k \in Calls : CallStep(k) \/ CallFails(k)
  \/ \E g \in Gateways : GatewayStops(g)
  \/ \E m \in Sims : FwdExpires(m)
  \/ \E s \in Sessions : RevExpires(s)

Spec == Init /\ [][Next]_vars

\* A call ends within its timeout; a key that is not refreshed expires.
Fairness == /\ \A k \in Calls : WF_vars(CallStep(k))
            /\ \A m \in Sims : WF_vars(FwdExpires(m))

FairSpec == Spec /\ Fairness

----------------------------------------------------------------------------
CallPCs == {"free", "sadd fwd", "expire fwd", "sadd rev", "expire rev", "srem fwd", "srem rev",
            "smembers", "srem", "del", "done"}

\* The keys; a key with a TTL exists.
StoreType ==
  /\ fwd \in [Sims -> SUBSET Sessions] /\ rev \in [Sessions -> SUBSET Sims]
  /\ fwdTTL \subseteq Sims /\ revTTL \subseteq Sessions
  /\ \A m \in fwdTTL : fwd[m] # {}
  /\ \A s \in revTTL : rev[s] # {}

\* The connections; a reader blocked on a frame asks about a simulation.
ConnType ==
  /\ conn \in [Clients -> {"new", "on", "off"}]
  /\ subs \in [Clients -> SUBSET Sims]
  /\ reader \in [Clients -> {"new", "reading", "subscribe", "unsubscribe",
                             "unregistering", "gone"}]
  /\ request \in [Clients -> Sims \cup {NoSim}]
  /\ \A c \in Clients : reader[c] \in {"subscribe", "unsubscribe"} => request[c] # NoSim
  /\ pump \in [Clients -> {"new", "running", "unregistering", "stopped"}]

CallsType ==
  /\ call \in [Calls -> [pc : CallPCs, client : Clients \cup {NoClient},
                         sim : Sims \cup {NoSim}, todo : SUBSET Sims]]
  /\ \A k \in Calls : InFlight(k) => call[k].client \in Clients

HistoryType ==
  /\ failures \in 0 .. MaxFailures /\ expiries \in 0 .. MaxExpiries
  /\ expected \in [Sessions -> SUBSET Sims]
  /\ raced \subseteq Sessions /\ cut \subseteq Sessions

TypeOK == StoreType /\ ConnType /\ CallsType /\ HistoryType

Orderly(s) == s \notin raced /\ s \notin cut
Settled(s) == CallsOf(s) = {}

\* When the calls of a session never overlapped and none was cut short, the
\* store holds, in both directions, exactly what the hubs asked for last:
\* subscription.go keeps two sets in step over three kinds of calls.
StoreIsLastWord ==
  \A s \in Sessions : Orderly(s) /\ Settled(s) =>
    \A m \in Sims : /\ s \in fwd[m] <=> m \in expected[s]
                    /\ m \in rev[s] <=> m \in expected[s]

\* An entry of such a session is backed by the allowlist of a connection: the
\* events that clear an allowlist all reach the store.
EntriesBacked ==
  \A s \in Sessions, m \in Sims : Orderly(s) /\ Settled(s) /\ s \in fwd[m] =>
    \E c \in Clients : SessionOf[c] = s /\ m \in subs[c]

Over(s) == \A c \in Clients : SessionOf[c] = s => reader[c] \in {"new", "gone"}
                                                  /\ pump[c] \in {"new", "stopped"}

\* A Subscribe that fails between its SADD and its EXPIRE leaves a key without
\* a TTL.
Stranded(m) == failures > 0 /\ m \notin fwdTTL

\* Whatever the order of the goroutines, and even if a call or a gateway fails,
\* a session without connections is forgotten in the end: the TTL covers the
\* entries that no call removes, except under a stranded key.
EventuallyForgotten ==
  \A s \in Sessions, m \in Sims :
    Over(s) /\ s \in fwd[m] /\ ~Stranded(m)
      ~> (s \notin fwd[m] \/ ~Over(s) \/ Stranded(m))
=============================================================================
