-------------------------------- MODULE Hub --------------------------------
(***************************************************************************)
(* The gateway's in-memory message hub, src/internal/hub/hub.go.           *)
(*                                                                         *)
(* Goroutines: per connection a reader (the /ws handler's loop, which      *)
(* calls HandleTextMessage and Unregister) and a writePump; one Run loop,  *)
(* the only goroutine that changes the routing maps; and a pool of workers *)
(* that run processRemoteMessage under the read lock.                      *)
(*                                                                         *)
(* Run receives a request on an unbuffered channel (the sender continues   *)
(* at that moment) and applies it after it has taken the write lock, so    *)
(* receiving and applying are two steps.  A client is a connection: the    *)
(* gateway registers every WebSocket connection exactly once.              *)
(***************************************************************************)
EXTENDS Naturals, Sequences, FiniteSets

CONSTANTS
  Clients,      \* connections (*client values)
  Sessions,     \* session ids
  Observer,     \* the session id "" of global observers
  SessionOf,    \* the session every connection is opened for
  Sims,         \* simulation ids
  NoSim,        \* the empty simulation id
  Workers,      \* processRemoteMessage goroutines (RemoteWorkers)
  Messages,     \* messages the environment may hand to the hub
  SendCap,      \* ClientSendBuffer
  MaxMessages,  \* bound: messages handled in a behaviour
  MaxFrames     \* bound: subscription frames read in a behaviour

MessageKinds == {"remote", "broadcast", "session"}

ASSUME HubAssumption ==
  /\ Observer \in Sessions
  /\ SessionOf \in [Clients -> Sessions]
  /\ NoSim \notin Sims
  /\ SendCap \in Nat \ {0}
  /\ MaxMessages \in Nat
  /\ MaxFrames \in Nat
  /\ Messages \subseteq
       [kind : MessageKinds, targets : SUBSET Sessions, sim : Sims \cup {NoSim}]

VARIABLES
  clients,           \* registered connections (Hub.clients, all sessions)
  connToClient,      \* connections the frame handler can look up
  simSubscriptions,  \* connection -> subscribed simulations (allowlist)
  simToClients,      \* simulation -> connections (reverse index)
  simBlocked,        \* connection -> blocked simulations
  handling,          \* the request Run has received and not yet applied
  send,              \* connection -> its buffered messages (ids)
  closed,            \* connections whose send channel is closed
  reader,            \* connection -> program counter of its reader
  request,           \* connection -> simulation its reader is asking about
  pump,              \* connection -> program counter of its writePump
  connOpen,          \* connections whose socket this process has not closed
  worker,            \* worker -> the message it is routing
  handled,           \* every message handled so far; its index is its id
  frames,            \* number of subscription frames read
  panicked,          \* a goroutine sent on a closed channel
  copies             \* history: id -> copies enqueued for each connection

mapVars  == <<clients, connToClient, simSubscriptions, simToClients, simBlocked>>
connVars == <<reader, request, pump, connOpen>>
chanVars == <<send, closed>>
msgVars  == <<worker, handled, panicked, copies>>
vars == <<mapVars, connVars, chanVars, msgVars, handling, frames>>

Ids == 1 .. MaxMessages
Request == [op : {"register", "unregister", "subscribe", "unsubscribe"},
            client : Clients, sim : Sims \cup {NoSim}]
Idle == [pc |-> "idle", id |-> 0, delivered |-> {}, found |-> {}]

Init ==
  /\ clients = {} /\ connToClient = {}
  /\ simSubscriptions = [c \in Clients |-> {}]
  /\ simToClients = [s \in Sims |-> {}]
  /\ simBlocked = [c \in Clients |-> {}]
  /\ handling = {}
  /\ send = [c \in Clients |-> <<>>]
  /\ closed = {}
  /\ reader = [c \in Clients |-> "new"]
  /\ request = [c \in Clients |-> NoSim]
  /\ pump = [c \in Clients |-> "new"]
  /\ connOpen = Clients
  /\ worker = [w \in Workers |-> Idle]
  /\ handled = <<>>
  /\ frames = 0
  /\ panicked = FALSE
  /\ copies = [i \in Ids |-> [c \in Clients |-> 0]]

----------------------------------------------------------------------------
(* The /ws handler and the connection's reader goroutine.                  *)

\* Register: the handler blocks on h.register with the simulationId of the URL.
Register(c, s) ==
  /\ reader[c] = "new"
  /\ reader' = [reader EXCEPT ![c] = "registering"]
  /\ request' = [request EXCEPT ![c] = s]
  /\ UNCHANGED <<mapVars, pump, connOpen, chanVars, msgVars, handling, frames>>

\* HandleTextMessage looks the connection up under the read lock, releases it,
\* and blocks on the channel; the frame of an unknown connection is ignored.
HandleTextMessage(c, op, s) ==
  /\ reader[c] = "reading" /\ c \in connOpen
  /\ frames < MaxFrames
  /\ frames' = frames + 1
  /\ IF c \in connToClient
       THEN /\ reader' = [reader EXCEPT ![c] = op]
            /\ request' = [request EXCEPT ![c] = s]
       ELSE UNCHANGED <<reader, request>>
  /\ UNCHANGED <<mapVars, pump, connOpen, chanVars, msgVars, handling>>

\* ReadMessage fails: the deferred Unregister looks the client up under the
\* read lock and blocks on h.unregister if it found it.
Unregister(c) ==
  /\ reader[c] = "reading"
  /\ reader' = [reader EXCEPT ![c] = IF c \in clients THEN "unregistering" ELSE "gone"]
  /\ UNCHANGED <<mapVars, request, pump, connOpen, chanVars, msgVars, handling, frames>>

----------------------------------------------------------------------------
(* The connection's writePump goroutine.                                   *)

\* A buffered message is written to the socket.
PumpWrite(c) ==
  /\ pump[c] = "running" /\ c \in connOpen /\ send[c] # <<>>
  /\ send' = [send EXCEPT ![c] = Tail(@)]
  /\ UNCHANGED <<mapVars, connVars, closed, msgVars, handling, frames>>

\* Mutant: the pump only closes the socket.
PumpFailSilently(c) ==
  /\ pump[c] = "running"
  /\ pump' = [pump EXCEPT ![c] = "stopped"]
  /\ connOpen' = connOpen \ {c}
  /\ UNCHANGED <<mapVars, reader, request, chanVars, msgVars, handling, frames>>

\* A write or a ping fails: the pump closes the socket and blocks on
\* h.unregister, since it has not seen the hub close its channel.
PumpFail(c) ==
  /\ pump[c] = "running"
  /\ pump' = [pump EXCEPT ![c] = "unregistering"]
  /\ connOpen' = connOpen \ {c}
  /\ UNCHANGED <<mapVars, reader, request, chanVars, msgVars, handling, frames>>

\* The drained channel is closed: the hub has unregistered the client.
PumpClosed(c) ==
  /\ pump[c] = "running" /\ c \in closed /\ send[c] = <<>>
  /\ pump' = [pump EXCEPT ![c] = "stopped"]
  /\ connOpen' = connOpen \ {c}
  /\ UNCHANGED <<mapVars, reader, request, chanVars, msgVars, handling, frames>>

----------------------------------------------------------------------------
(* Run receives from one of its unbuffered channels.                       *)

Handle(op, c, s) == handling' = {[op |-> op, client |-> c, sim |-> s]}

\* <-h.register: Register returns, starts the pump, and the reader starts.
ReceiveRegister(c) ==
  /\ handling = {} /\ reader[c] = "registering"
  /\ Handle("register", c, request[c])
  /\ reader' = [reader EXCEPT ![c] = "reading"]
  /\ request' = [request EXCEPT ![c] = NoSim]
  /\ pump' = [pump EXCEPT ![c] = "running"]
  /\ UNCHANGED <<mapVars, connOpen, chanVars, msgVars, frames>>

\* <-h.unregister, sent by the reader's deferred Unregister.
ReceiveReaderUnregister(c) ==
  /\ handling = {} /\ reader[c] = "unregistering"
  /\ Handle("unregister", c, NoSim)
  /\ reader' = [reader EXCEPT ![c] = "gone"]
  /\ UNCHANGED <<mapVars, request, pump, connOpen, chanVars, msgVars, frames>>

\* Mutant: an unregister is handled beside the request in hand.
ReceivePumpUnregisterAside(c) ==
  /\ pump[c] = "unregistering"
  /\ handling' = handling \cup {[op |-> "unregister", client |-> c, sim |-> NoSim]}
  /\ pump' = [pump EXCEPT ![c] = "stopped"]
  /\ UNCHANGED <<mapVars, reader, request, connOpen, chanVars, msgVars, frames>>

\* <-h.unregister, sent by the pump.
ReceivePumpUnregister(c) ==
  /\ handling = {} /\ pump[c] = "unregistering"
  /\ Handle("unregister", c, NoSim)
  /\ pump' = [pump EXCEPT ![c] = "stopped"]
  /\ UNCHANGED <<mapVars, reader, request, connOpen, chanVars, msgVars, frames>>

\* Mutant: a request is taken only while its client is registered.
ReceiveSimRequestIfRegistered(c) ==
  /\ handling = {} /\ reader[c] \in {"subscribe", "unsubscribe"} /\ c \in clients
  /\ Handle(reader[c], c, request[c])
  /\ reader' = [reader EXCEPT ![c] = "reading"]
  /\ request' = [request EXCEPT ![c] = NoSim]
  /\ UNCHANGED <<mapVars, pump, connOpen, chanVars, msgVars, frames>>

\* <-h.simSubscribe or <-h.simUnsubscribe.
ReceiveSimRequest(c) ==
  /\ handling = {} /\ reader[c] \in {"subscribe", "unsubscribe"}
  /\ Handle(reader[c], c, request[c])
  /\ reader' = [reader EXCEPT ![c] = "reading"]
  /\ request' = [request EXCEPT ![c] = NoSim]
  /\ UNCHANGED <<mapVars, pump, connOpen, chanVars, msgVars, frames>>

----------------------------------------------------------------------------
(* Run applies the request it received, under the write lock.              *)

Handled(op, c, s) ==
  /\ handling = {[op |-> op, client |-> c, sim |-> s]}
  /\ handling' = {}
  /\ UNCHANGED <<connVars, msgVars, frames>>

\* c is added to the allowlist and to the reverse index of s.
AddSubscription(c, s) ==
  /\ simSubscriptions' = [simSubscriptions EXCEPT ![c] = @ \cup {s}]
  /\ simToClients' = [simToClients EXCEPT ![s] = @ \cup {c}]

ApplyRegister(c, s) ==
  /\ Handled("register", c, s)
  /\ clients' = clients \cup {c}
  /\ connToClient' = connToClient \cup {c}
  /\ IF s # NoSim THEN AddSubscription(c, s)
                  ELSE UNCHANGED <<simSubscriptions, simToClients>>
  /\ UNCHANGED <<simBlocked, chanVars>>

\* Mutants: the reverse index keeps the client; so does connToClient.
ApplyUnregisterKeepsIndex(c) ==
  /\ Handled("unregister", c, NoSim)
  /\ clients' = clients \ {c}
  /\ closed' = IF c \in clients THEN closed \cup {c} ELSE closed
  /\ simSubscriptions' = [simSubscriptions EXCEPT ![c] = {}]
  /\ simBlocked' = [simBlocked EXCEPT ![c] = {}]
  /\ connToClient' = connToClient \ {c}
  /\ UNCHANGED <<simToClients, send>>

ApplyUnregisterKeepsConn(c) ==
  /\ Handled("unregister", c, NoSim)
  /\ clients' = clients \ {c}
  /\ closed' = IF c \in clients THEN closed \cup {c} ELSE closed
  /\ simToClients' = [s \in Sims |-> simToClients[s] \ {c}]
  /\ simSubscriptions' = [simSubscriptions EXCEPT ![c] = {}]
  /\ simBlocked' = [simBlocked EXCEPT ![c] = {}]
  /\ UNCHANGED <<connToClient, send>>

\* A duplicate unregister closes nothing; the maps are cleaned either way.
ApplyUnregister(c) ==
  /\ Handled("unregister", c, NoSim)
  /\ clients' = clients \ {c}
  /\ closed' = IF c \in clients THEN closed \cup {c} ELSE closed
  /\ simToClients' = [s \in Sims |-> IF s \in simSubscriptions[c]
                                       THEN simToClients[s] \ {c} ELSE simToClients[s]]
  /\ simSubscriptions' = [simSubscriptions EXCEPT ![c] = {}]
  /\ simBlocked' = [simBlocked EXCEPT ![c] = {}]
  /\ connToClient' = connToClient \ {c}
  /\ UNCHANGED send

\* Whether c is still registered is not asked; its whole blocklist is dropped.
ApplySubscribe(c, s) ==
  /\ Handled("subscribe", c, s)
  /\ AddSubscription(c, s)
  /\ simBlocked' = [simBlocked EXCEPT ![c] = {}]
  /\ UNCHANGED <<clients, connToClient, chanVars>>

ApplyUnsubscribe(c, s) ==
  /\ Handled("unsubscribe", c, s)
  /\ simSubscriptions' = [simSubscriptions EXCEPT ![c] = @ \ {s}]
  /\ simToClients' = [simToClients EXCEPT ![s] = @ \ {c}]
  /\ simBlocked' = [simBlocked EXCEPT ![c] = @ \cup {s}]
  /\ UNCHANGED <<clients, connToClient, chanVars>>

----------------------------------------------------------------------------
(* Fan-out.  Every send is non-blocking: a full buffer drops the message   *)
(* for that client only.                                                   *)

HasRoom(c) == Len(send[c]) < SendCap

\* Message i is put in the buffers of the connections in to that have room.
Enqueue(i, to) ==
  /\ send' = [c \in Clients |-> IF c \in to /\ HasRoom(c)
                                  THEN Append(send[c], i) ELSE send[c]]
  /\ copies' = [copies EXCEPT ![i] = [c \in Clients |->
                  IF c \in to /\ HasRoom(c) THEN copies[i][c] + 1 ELSE copies[i][c]]]

Accept(m) ==
  /\ Len(handled) < MaxMessages
  /\ handled' = Append(handled, m)

\* Mutant: the allowlist is not consulted.
ObserverWantsUnblocked(c, s) == s = NoSim \/ s \notin simBlocked[c]

\* Phase 1: does a global observer want messages of simulation s?
ObserverWants(c, s) ==
  \/ s = NoSim
  \/ s \in simSubscriptions[c]
  \/ simSubscriptions[c] = {} /\ s \notin simBlocked[c]

\* Phases 1 and 2: observers, then the targeted sessions, or all if none.
DirectRecipients(m) ==
  {c \in clients :
     \/ SessionOf[c] = Observer /\ ObserverWants(c, m.sim)
     \/ SessionOf[c] # Observer /\ (m.targets = {} \/ SessionOf[c] \in m.targets)}

\* processRemoteMessage up to the point where it releases the read lock:
\* phases 1 to 3.  Phase 3 takes the clients of the reverse index that phases
\* 1 and 2 did not deliver to; a closed channel among them is a panic.
RouteRemote(w, m) ==
  LET i       == Len(handled) + 1
      direct  == DirectRecipients(m)
      first   == {c \in direct : HasRoom(c)}
      indexed == IF m.sim = NoSim THEN {} ELSE simToClients[m.sim] \ first
      to      == first \cup indexed
  IN /\ m.kind = "remote" /\ worker[w].pc = "idle"
     /\ Accept(m)
     /\ IF indexed \cap closed # {}
          THEN panicked' = TRUE /\ UNCHANGED <<send, copies, worker>>
          ELSE /\ Enqueue(i, to)
               /\ worker' = [worker EXCEPT ![w] =
                    IF m.sim = NoSim THEN Idle
                    ELSE [pc |-> "lookup", id |-> i,
                          delivered |-> {c \in to : HasRoom(c)}, found |-> {}]]
               /\ UNCHANGED panicked
     /\ UNCHANGED <<mapVars, connVars, closed, handling, frames>>

\* The subscription store answers, without the lock, with any set of sessions:
\* its content may be stale, and a failed lookup counts as the empty set.
StoreLookup(w, found) ==
  /\ worker[w].pc = "lookup"
  /\ worker' = [worker EXCEPT ![w] = [@ EXCEPT !.pc = "fallback", !.found = found]]
  /\ UNCHANGED <<mapVars, connVars, chanVars, handled, panicked, copies, handling, frames>>

\* Mutants: whoever got the message gets it again; whoever the store names gets it.
FallbackRecipientsAgain(r) ==
  {c \in clients : SessionOf[c] \in r.found /\ handled[r.id].sim \in simSubscriptions[c]}

FallbackRecipientsUnsubscribed(r) ==
  {c \in clients : SessionOf[c] \in r.found /\ c \notin r.delivered}

\* Phase 3b, under the read lock again: clients of the sessions found that
\* have not got the message and are subscribed here.
FallbackRecipients(r) ==
  {c \in clients : /\ SessionOf[c] \in r.found
                   /\ c \notin r.delivered
                   /\ handled[r.id].sim \in simSubscriptions[c]}

RouteFallback(w) ==
  /\ worker[w].pc = "fallback"
  /\ Enqueue(worker[w].id, FallbackRecipients(worker[w]))
  /\ worker' = [worker EXCEPT ![w] = Idle]
  /\ UNCHANGED <<mapVars, connVars, closed, handled, panicked, handling, frames>>

\* Run's own fan-outs, under the read lock: to every client, or to a session.
RunFanOut(m) ==
  /\ handling = {}
  /\ m.kind # "remote"
  /\ Accept(m)
  /\ Enqueue(Len(handled) + 1,
             {c \in clients : m.kind = "broadcast" \/ SessionOf[c] \in m.targets})
  /\ UNCHANGED <<mapVars, connVars, closed, worker, panicked, handling, frames>>

----------------------------------------------------------------------------
ReaderStep(c) ==
  \/ \E s \in Sims \cup {NoSim} : Register(c, s)
  \/ \E op \in {"subscribe", "unsubscribe"}, s \in Sims : HandleTextMessage(c, op, s)
  \/ Unregister(c)

PumpStep(c) == PumpWrite(c) \/ PumpFail(c) \/ PumpClosed(c)

RunReceive(c) ==
  \/ ReceiveRegister(c)
  \/ ReceiveReaderUnregister(c)
  \/ ReceivePumpUnregister(c)
  \/ ReceiveSimRequest(c)

RunApply ==
  \E c \in Clients :
    \/ \E s \in Sims \cup {NoSim} : ApplyRegister(c, s)
    \/ ApplyUnregister(c)
    \/ \E s \in Sims : ApplySubscribe(c, s) \/ ApplyUnsubscribe(c, s)

WorkerStep(w) ==
  \/ \E m \in Messages : RouteRemote(w, m)
  \/ \E found \in SUBSET Sessions : StoreLookup(w, found)
  \/ RouteFallback(w)

\* A panic in a goroutine ends the process.
Next ==
  /\ ~panicked
  /\ \/ \E c \in Clients : ReaderStep(c) \/ PumpStep(c) \/ RunReceive(c)
     \/ RunApply
     \/ \E m \in Messages : RunFanOut(m)
     \/ \E w \in Workers : WorkerStep(w)

Spec == Init /\ [][Next]_vars

\* Run chooses among its ready channels at random, so no sender is passed over
\* for ever; the pump of a connection whose reader has ended fails its next
\* write or ping, because a read error is permanent; a pump whose channel is
\* closed drains it and stops, or fails.
Fairness ==
  /\ WF_vars(~panicked /\ RunApply)
  /\ \A c \in Clients :
       /\ SF_vars(~panicked /\ (ReceiveRegister(c) \/ ReceiveReaderUnregister(c)
                                \/ ReceiveSimRequest(c)))
       /\ SF_vars(~panicked /\ ReceivePumpUnregister(c))
       /\ WF_vars(~panicked /\ reader[c] = "gone" /\ PumpFail(c))
       /\ WF_vars(~panicked /\ c \in closed /\ PumpStep(c))

FairSpec == Spec /\ Fairness

----------------------------------------------------------------------------
ReaderStates ==
  {"new", "registering", "reading", "subscribe", "unsubscribe", "unregistering", "gone"}

MapTypeOK ==
  /\ clients \subseteq Clients /\ connToClient \subseteq Clients
  /\ simSubscriptions \in [Clients -> SUBSET Sims]
  /\ simToClients \in [Sims -> SUBSET Clients]
  /\ simBlocked \in [Clients -> SUBSET Sims]

ConnTypeOK ==
  /\ reader \in [Clients -> ReaderStates]
  /\ request \in [Clients -> Sims \cup {NoSim}]
  /\ pump \in [Clients -> {"new", "running", "unregistering", "stopped"}]
  /\ connOpen \subseteq Clients
  /\ frames \in 0 .. MaxFrames

RequestTypeOK ==
  /\ handling \in SUBSET Request
  /\ \A r1, r2 \in handling : r1 = r2

WorkerType == [pc : {"idle", "lookup", "fallback"}, id : 0 .. MaxMessages,
               delivered : SUBSET Clients, found : SUBSET Sessions]

FanOutTypeOK ==
  /\ send \in [Clients -> Seq(Ids)]
  /\ closed \subseteq Clients
  /\ worker \in [Workers -> WorkerType]
  /\ handled \in Seq(Messages)
  /\ Len(handled) <= MaxMessages
  /\ \A w \in Workers : worker[w].pc # "idle" => worker[w].id \in 1 .. Len(handled)
  /\ panicked \in BOOLEAN
  /\ copies \in [Ids -> [Clients -> Nat]]

\* Types.  Run holds at most one request; buffers hold ids, and a busy worker
\* routes a message that has been handled.
TypeOK == MapTypeOK /\ ConnTypeOK /\ RequestTypeOK /\ FanOutTypeOK

\* The allowlists and the reverse index are the same relation, whatever the
\* order in which registrations, frames and the two unregisters of a connection
\* reach Run: phases 1 and 3 can never disagree about a subscription.
IndexesAgree ==
  \A c \in Clients, s \in Sims : s \in simSubscriptions[c] <=> c \in simToClients[s]

\* A connection never has one simulation both on its allowlist and on its
\* blocklist, although register, subscribe and unsubscribe edit the two lists
\* in different ways.
ListsDisjoint ==
  \A c \in Clients : simSubscriptions[c] \cap simBlocked[c] = {}

\* A connection that the session maps still route to has an open channel: no
\* second registration, and no second unregister by reader and pump, ever puts
\* back or leaves behind a client whose channel Run has closed.
RoutedAreOpen ==
  /\ clients \cap closed = {}
  /\ connToClient = clients

\* A message enters a connection's buffer at most once, over the three phases
\* and across the window in which the worker holds no lock and the connection
\* may subscribe, unsubscribe or leave.
AtMostOneCopy ==
  \A i \in Ids, c \in Clients : copies[i][c] <= 1

\* No phase gives a global observer a message of a simulation that its lists
\* exclude at that moment: neither one it has blocked, nor, while it subscribes
\* to some simulation, one it does not subscribe to.
ObserverFiltered ==
  [][\A c \in Clients, i \in Ids :
       (SessionOf[c] = Observer /\ copies'[i][c] > copies[i][c]) =>
         \/ handled'[i].kind # "remote"
         \/ handled'[i].sim = NoSim
         \/ handled'[i].sim \in simSubscriptions[c]
         \/ simSubscriptions[c] = {} /\ handled'[i].sim \notin simBlocked[c]]_vars

\* A session's connection that is no observer gets a remote message only if the
\* message is for all, for its session, or of a simulation it subscribes to at
\* the moment it is put in its buffer, in spite of the window before phase 3b.
SessionScoped ==
  [][\A c \in Clients, i \in Ids :
       (SessionOf[c] # Observer /\ copies'[i][c] > copies[i][c]) =>
         \/ handled'[i].kind # "remote"
         \/ handled'[i].targets = {}
         \/ SessionOf[c] \in handled'[i].targets
         \/ handled'[i].sim \in simSubscriptions[c]]_vars

\* Once a connection's reader has ended, the hub forgets the connection and its
\* pump stops, whether the reader or the pump unregistered it, and even if the
\* reader ended before Run had applied the registration.
GoneIsCleanedUp ==
  \A c \in Clients :
    (reader[c] = "gone") ~> (panicked \/ (c \notin clients /\ pump[c] = "stopped"))

\* No reader or pump is blocked for ever on a channel of Run.
NobodyStuck ==
  \A c \in Clients :
    /\ (reader[c] \in {"registering", "subscribe", "unsubscribe", "unregistering"})
         ~> (panicked \/ reader[c] \in {"reading", "gone"})
    /\ (pump[c] = "unregistering") ~> (panicked \/ pump[c] = "stopped")

\* Stated by the code's comments, and not so: no goroutine ever sends on a
\* channel that Run has closed (hub.go, writePump: the self-unregister makes the
\* hub clean up the maps and the simulation subscriptions of the client).
NoSendOnClosedChannel == ~panicked
=============================================================================
