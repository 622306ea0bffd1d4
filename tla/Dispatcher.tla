----------------------------- MODULE Dispatcher -----------------------------
(***************************************************************************)
(* The dispatchers of the instances of one agent type (RedisOrchestrator-  *)
(* Dispatcher), the channels that feed them and the simulation registry.   *)
(* Each has its own event loop with a pub/sub listener and a queue         *)
(* listener, and takes HTTP pokes from the web server's loop; the three    *)
(* interleave wherever a handler awaits.  An instance may lose its Redis   *)
(* connection, its process may die, and a poke may get lost.               *)
(***************************************************************************)
EXTENDS Naturals, Sequences, FiniteSets

CONSTANTS
  Dispatchers,  \* instances of the agent type
  Sessions,     \* sessions that the gateway spawns for it
  Sims, NoSim,  \* simulation ids, and the absence of one
  SimOf,        \* session -> the simulation_id of its spawn request
  AgentType,    \* the agent type, which may stand among a broadcast's targets
  MaxSeen,      \* capacity of the duplicate filter, 1000 in the code
  Scenarios     \* bounds, one of which a behaviour keeps to: the sessions
                \* spawned, those poked too, the kinds of events sent, the targets
                \* of users' messages, the number of events sent and relayed, and
                \* of disconnections, crashes, failed calls and timeouts

ASSUME DispatcherAssumption ==
  /\ NoSim \notin Sims /\ AgentType \notin Sessions
  /\ Sessions \cap Nat = {}   \* the ids of spawn events differ from all others
  /\ SimOf \in [Sessions -> Sims \cup {NoSim}]
  /\ MaxSeen \in Nat \ {0}
  /\ \A b \in Scenarios :
       /\ b.spawned \subseteq Sessions /\ b.poked \subseteq b.spawned
       /\ b.targets \subseteq SUBSET (Sessions \cup {AgentType})
       /\ b.msgs \in Nat /\ b.faults \in Nat

VARIABLES
  disp,     \* dispatcher -> its fields, its handlers and its connection
  queue,    \* spawn events in the shards of the Redis list
  http,     \* pokes on their way to an instance
  reg,      \* Redis simreg:session:{id}
  sent,     \* simulation of each message so far; a message's id is its index
  phase,    \* simulation -> what the simulator has broadcast of it
  log,      \* history: dispatcher -> session -> the messages and clicks it has run
  raced,    \* history: dispatcher -> session -> the broadcasts of its simulation
            \* that it has run, by their numbers
  cut,      \* history: <<d, m>> where d was kept from subscribing to m
  faults,
  bound     \* the scenario

history == <<log, raced>>
vars == <<disp, queue, http, reg, sent, phase, history, cut, faults, bound>>

Threads == {"pubsub", "queue", "http"}
Global == "simulation:broadcast"

\* A handler that awaits, with what it needs to go on.
Idle == [at |-> "idle"]
Await(step, e, S) == [at |-> step, event |-> e, matched |-> S]

Blank == [active |-> {}, sim |-> [s \in Sessions |-> NoSim], subs |-> {}, seen |-> {},
          runs |-> [s \in Sessions |-> <<>>], pc |-> [t \in Threads |-> Idle],
          todo |-> {}, conn |-> FALSE, chans |-> {}, inbox |-> <<>>, epoch |-> 0]

\* The batch spawn enqueues an event per session, under an id of its own.
SpawnEvent(s) == [type |-> "spawn_agent", id |-> s, origin |-> s, sim |-> SimOf[s],
                  targets |-> {s}, relayed |-> FALSE, epoch |-> 0]

Init ==
  /\ disp = [d \in Dispatchers |-> Blank]
  /\ bound \in Scenarios
  /\ queue = {SpawnEvent(s) : s \in bound.spawned}
  /\ http = {SpawnEvent(s) : s \in bound.poked}
  /\ sent = <<>> /\ cut = {} /\ faults = 0
  /\ reg = [s \in Sessions |-> NoSim]
  /\ phase = [m \in Sims |-> "spawn"]
  /\ log = [d \in Dispatchers |-> [s \in Sessions |-> <<>>]]
  /\ raced = [d \in Dispatchers |-> [s \in Sessions |-> <<>>]]

-----------------------------------------------------------------------------
(* What the gateway and the simulator send.                                *)

NewId == Len(sent) + 1
Msg(type, id, m, T) ==
  [type |-> type, id |-> id, origin |-> NewId, sim |-> m, targets |-> T, relayed |-> FALSE,
   epoch |-> 0]

\* Redis hands a message to the connections subscribed at that moment.
Published(D, chan, e) ==
  [d \in Dispatchers |->
     IF chan \in D[d].chans THEN [D[d] EXCEPT !.inbox = Append(@, e)] ELSE D[d]]

\* A new message of simulation m of one of the kinds this instance allows.
Sending(kind, m) ==
  kind \in bound.kinds /\ Len(sent) < bound.msgs /\ sent' = Append(sent, m)

Fault == faults < bound.faults /\ faults' = faults + 1

\* The readiness gate polls the registry for the sessions of the simulation and
\* gives up after a minute.
Ready(m) == \A s \in Sessions : s \in bound.spawned /\ SimOf[s] = m => reg[s] = m

\* fire_start_gun and, after it, the ticks.
SendTick(m) ==
  /\ Sending("tick", m)
  /\ \/ phase[m] = "spawn" /\ Ready(m) /\ UNCHANGED faults
     \/ phase[m] = "spawn" /\ Fault
     \/ phase[m] = "race" /\ UNCHANGED faults
  /\ phase' = [phase EXCEPT ![m] = "race"]
  /\ disp' = Published(disp, m, Msg("broadcast", NewId, m, {}))
  /\ UNCHANGED <<queue, http, reg, history, cut>>

\* publish_end_simulation.
SendEnd(m) ==
  /\ Sending("end", m) /\ phase[m] = "race"
  /\ phase' = [phase EXCEPT ![m] = "ended"]
  /\ disp' = Published(disp, m, Msg("end_simulation", NewId, m, {}))
  /\ UNCHANGED <<queue, http, reg, history, cut, faults>>

\* A user's message: without targets it is published and poked under one id;
\* with targets it is poked only, and its id may be empty (0).
SendUser(T) ==
  /\ Sending("user", NoSim)
  /\ LET e == Msg("broadcast", IF T = {} THEN NewId ELSE 0, NoSim, T)
     IN /\ http' = http \cup {e}
        /\ disp' = IF T = {} THEN Published(disp, Global, e) ELSE disp
  /\ UNCHANGED <<queue, reg, phase, history, cut, faults>>

\* A click in an interface that an agent has drawn for session s.
SendAction(s) ==
  /\ Sending("a2ui_action", NoSim)
  /\ http' = http \cup {Msg("a2ui_action", NewId, NoSim, {s})}
  /\ UNCHANGED <<disp, queue, reg, phase, history, cut, faults>>

\* The reset empties the queues, is published, and is poked once.
SendReset ==
  /\ Sending("environment_reset", NoSim)
  /\ LET e == Msg("environment_reset", NewId, NoSim, {})
     IN http' = http \cup {e} /\ disp' = Published(disp, Global, e)
  /\ queue' = {}
  /\ UNCHANGED <<reg, phase, history, cut, faults>>

Send ==
  \/ \E m \in Sims : SendTick(m) \/ SendEnd(m)
  \/ \E T \in bound.targets : SendUser(T)
  \/ \E s \in bound.spawned : SendAction(s)
  \/ SendReset

-----------------------------------------------------------------------------
(* Handlers.  L is the dispatcher's record when the handler starts or goes  *)
(* on; each operator gives the record it leaves behind.                     *)

\* Only events with an id are filtered.
IsOld(L, e) == e.id # 0 /\ e.id \in L.seen

\* The filter drops an arbitrary id when it is full.
Remember(L, id) ==
  LET S == IF id = 0 THEN L.seen ELSE L.seen \cup {id}
  IN IF Cardinality(S) > MaxSeen THEN {S \ {x} : x \in S} ELSE {S}

\* Mutant: a broadcast of a simulation goes to every session it targets.
MatchAnySim(L, e) ==
  {s \in L.active : e.targets = {} \/ AgentType \in e.targets \/ s \in e.targets}

\* Sessions of this instance that the broadcast is for.
Match(L, e) ==
  {s \in L.active : IF e.sim # NoSim THEN L.sim[s] = e.sim
                    ELSE e.targets = {} \/ AgentType \in e.targets \/ s \in e.targets}

\* The runs wait for the session's lock in the order they were triggered.
Trigger(L, S, e) ==
  [L EXCEPT !.runs = [s \in Sessions |->
                        IF s \in S THEN Append(L.runs[s], e) ELSE L.runs[s]]]

\* spawn_agent: the session is active at once, registered after an await.
StartSpawn(L, t, e) ==
  LET s == CHOOSE x \in e.targets : TRUE
      A == [L EXCEPT !.active = @ \cup {s}]
  IN IF e.sim = NoSim THEN A
     ELSE [A EXCEPT !.sim[s] = e.sim, !.pc[t] = Await("register", e, {s})]

RelayOf(e, S) == [e EXCEPT !.id = NewId, !.targets = @ \ S, !.relayed = TRUE]

\* Mutant: the id of the relay is not remembered.
StartBroadcastForgets(L, t, e) ==
  LET S == Match(L, e)
  IN IF e.targets \ S # {} /\ ~e.relayed
       THEN [L EXCEPT !.pc[t] = Await("relay", RelayOf(e, S), S)]
       ELSE Trigger(L, S, e)

\* broadcast: targets that are not here are relayed once, under a new id, and
\* the sessions to trigger are chosen before that is awaited.
StartBroadcast(L, t, e) ==
  LET S == Match(L, e)
  IN IF e.targets \ S # {} /\ ~e.relayed
       THEN [L EXCEPT !.pc[t] = Await("relay", RelayOf(e, S), S), !.seen = @ \cup {NewId}]
       ELSE Trigger(L, S, e)

Relays(L, e) ==
  e.type = "broadcast" /\ e.targets \ Match(L, e) # {} /\ ~e.relayed

\* remove_session for every session of the simulation; the last one gives the
\* channel back.  What needs the network is left to the event loop.
EndSimulation(L, m) ==
  LET S == {s \in Sessions : L.sim[s] = m}
      last == S # {} /\ m \in L.subs
  IN [L EXCEPT !.active = @ \ S,
               !.sim = [s \in Sessions |-> IF s \in S THEN NoSim ELSE @[s]],
               !.subs = IF last THEN @ \ {m} ELSE @,
               !.todo = @ \cup {<<"unregister", s>> : s \in S}
                          \cup (IF last THEN {<<"unsubscribe", m>>} ELSE {})]

\* environment_reset: the runs are cancelled, the filter is emptied; the
\* simulations of the sessions and their channels are kept.
Reset(L, t, e) ==
  [L EXCEPT !.active = {}, !.seen = {}, !.runs = [s \in Sessions |-> <<>>],
            !.pc[t] = Await("clear", e, {}), !.epoch = @ + 1]

\* _process_event up to its first await.
Handle(L, t, e) ==
  CASE e.type = "spawn_agent"       -> StartSpawn(L, t, e)
    [] e.type = "broadcast"         -> StartBroadcast(L, t, e)
    [] e.type = "end_simulation"    -> EndSimulation(L, e.sim)
    [] e.type = "a2ui_action"       -> Trigger(L, L.active \cap e.targets, e)
    [] e.type = "environment_reset" -> Reset(L, t, e)

\* A listener or the web server hands over an event; L is the dispatcher without
\* it.  A relay takes a message id.  History: how often the instance had been
\* reset or restarted when it took the event.
Process(d, t, e, L) ==
  /\ IF IsOld(L, e)
       THEN disp' = [disp EXCEPT ![d] = L] /\ UNCHANGED sent
       ELSE /\ \E S \in Remember(L, e.id) :
                 disp' = [disp EXCEPT ![d] =
                              Handle([L EXCEPT !.seen = S], t, [e EXCEPT !.epoch = L.epoch])]
            /\ IF Relays(L, e) THEN Len(sent) < bound.msgs /\ sent' = Append(sent, NoSim)
               ELSE UNCHANGED sent
  /\ UNCHANGED <<reg, phase, history, cut, faults>>

TakePubsub(d) ==
  LET L == disp[d]
  IN /\ L.pc["pubsub"] = Idle /\ L.inbox # <<>>
     /\ Process(d, "pubsub", Head(L.inbox), [L EXCEPT !.inbox = Tail(@)])
     /\ UNCHANGED <<queue, http>>

TakeQueue(d) ==
  /\ disp[d].conn /\ disp[d].pc["queue"] = Idle
  /\ \E e \in queue : queue' = queue \ {e} /\ Process(d, "queue", e, disp[d])
  /\ UNCHANGED http

TakeHttp(d) ==
  /\ disp[d].pc["http"] = Idle
  /\ \E e \in http : http' = http \ {e} /\ Process(d, "http", e, disp[d])
  /\ UNCHANGED queue

-----------------------------------------------------------------------------
(* What follows an await.                                                   *)

Awaiting(d, t, step) == disp[d].pc[t].at = step

Done(d, t) == [disp[d] EXCEPT !.pc[t] = Idle]

\* What the registry keeps of the sessions; an error of Redis is only logged.
Registered(S, m) ==
  \/ reg' = [s \in Sessions |-> IF s \in S THEN m ELSE reg[s]] /\ UNCHANGED faults
  \/ UNCHANGED reg /\ Fault
Unregistered(s) == [reg EXCEPT ![s] = NoSim]

\* simulation_registry.register, then the channel if this is the simulation's
\* first session here.  The channel is noted before the subscription.
Register(d, t) ==
  LET e == disp[d].pc[t].event
      L == [Done(d, t) EXCEPT !.subs = @ \cup {e.sim}]
  IN /\ Awaiting(d, t, "register")
     /\ Registered(e.targets, e.sim)
     /\ disp' = [disp EXCEPT ![d] =
                    IF e.sim \notin disp[d].subs /\ L.conn
                    THEN [L EXCEPT !.pc[t] = Await("subscribe", e, {})] ELSE L]
     /\ UNCHANGED <<queue, http, sent, phase, history, cut>>

\* A subscription that fails is only logged.
Subscribe(d, t) ==
  LET m == disp[d].pc[t].event.sim
  IN /\ Awaiting(d, t, "subscribe")
     /\ \/ /\ disp' = [disp EXCEPT ![d] = IF disp[d].conn
                            THEN [Done(d, t) EXCEPT !.chans = @ \cup {m}] ELSE Done(d, t)]
           /\ UNCHANGED <<cut, faults>>
        \/ /\ Fault /\ cut' = cut \cup {<<d, m>>}
           /\ disp' = [disp EXCEPT ![d] = Done(d, t)]
     /\ UNCHANGED <<queue, http, reg, sent, phase, history>>

\* The relay is published, or fails; then the chosen sessions are triggered.
Relay(d, t) ==
  LET c == disp[d].pc[t]
      D == [disp EXCEPT ![d] = Trigger(Done(d, t), c.matched, c.event)]
  IN /\ Awaiting(d, t, "relay")
     /\ \/ disp' = Published(D, Global, c.event) /\ UNCHANGED faults
        \/ disp' = D /\ Fault
     /\ UNCHANGED <<queue, http, reg, sent, phase, history, cut>>

\* simulation_registry.clear.
Clear(d, t) ==
  /\ Awaiting(d, t, "clear")
  /\ disp' = [disp EXCEPT ![d] = Done(d, t)]
  /\ reg' = [s \in Sessions |-> NoSim]
  /\ UNCHANGED <<queue, http, sent, phase, history, cut, faults>>

\* Calls that remove_session has left to the event loop.
Unsubscribe(d, m) ==
  /\ disp' = [disp EXCEPT ![d].todo = @ \ {<<"unsubscribe", m>>}, ![d].chans = @ \ {m}]
  /\ UNCHANGED reg

Unregister(d, s) ==
  /\ disp' = [disp EXCEPT ![d].todo = @ \ {<<"unregister", s>>}]
  /\ reg' = Unregistered(s)

Scheduled(d) ==
  /\ \E x \in disp[d].todo :
       \/ x[1] = "unsubscribe" /\ Unsubscribe(d, x[2])
       \/ x[1] = "unregister" /\ Unregister(d, x[2])
  /\ UNCHANGED <<queue, http, sent, phase, history, cut, faults>>

\* The first run in line gets the session's lock and calls run_async.
StartRun(d, s) ==
  LET e == Head(disp[d].runs[s])
  IN /\ disp[d].runs[s] # <<>>
     /\ IF e.sim = NoSim
          THEN log' = [log EXCEPT ![d][s] = Append(@, e)] /\ UNCHANGED raced
          ELSE raced' = [raced EXCEPT ![d][s] = Append(@, e.origin)] /\ UNCHANGED log
     /\ disp' = [disp EXCEPT ![d].runs[s] = Tail(@)]
     /\ UNCHANGED <<queue, http, reg, sent, phase, cut, faults>>

-----------------------------------------------------------------------------
(* Connection, process and network.                                         *)

\* A listener has failed: both are cancelled with the handlers they are in, and
\* what was on its way to the connection is lost.
Disconnect(d) ==
  /\ disp[d].conn /\ Fault
  /\ LET q == disp[d].pc["queue"]
     IN cut' = IF q.at = "register" /\ q.event.sim \notin disp[d].subs
                 THEN cut \cup {<<d, q.event.sim>>} ELSE cut
  /\ disp' = [disp EXCEPT ![d].conn = FALSE, ![d].chans = {}, ![d].inbox = <<>>,
                          ![d].pc["pubsub"] = Idle, ![d].pc["queue"] = Idle]
  /\ UNCHANGED <<queue, http, reg, sent, phase, history>>

\* Mutant: only the global channel is subscribed again.
ReconnectGlobal(d) ==
  /\ ~disp[d].conn
  /\ disp' = [disp EXCEPT ![d].conn = TRUE, ![d].chans = {Global}]
  /\ UNCHANGED <<cut, queue, http, reg, sent, phase, history, faults>>

\* The listeners start again and subscribe to every channel that was noted.
Reconnect(d) ==
  /\ ~disp[d].conn
  /\ disp' = [disp EXCEPT ![d].conn = TRUE, ![d].chans = {Global} \cup disp[d].subs]
  /\ cut' = cut \ {<<d, m>> : m \in disp[d].subs}
  /\ UNCHANGED <<queue, http, reg, sent, phase, history, faults>>

\* A new process, whose thread starts with no sessions.
Restarted(d) == [Blank EXCEPT !.epoch = disp[d].epoch + 1]

\* The process is stopped or dies, with everything that awaits in it.
Crash(d) ==
  /\ Fault
  /\ disp' = [disp EXCEPT ![d] = Restarted(d)]
  /\ cut' = {x \in cut : x[1] # d}
  /\ UNCHANGED <<queue, http, reg, sent, phase, history>>

LosePoke ==
  /\ Fault
  /\ \E e \in http : http' = http \ {e}
  /\ UNCHANGED <<disp, queue, reg, sent, phase, history, cut>>

Resume(d) == \E t \in Threads :
  Register(d, t) \/ Subscribe(d, t) \/ Relay(d, t) \/ Clear(d, t)

Next ==
  \/ Send \/ LosePoke
  \/ \E d \in Dispatchers :
       \/ TakePubsub(d) \/ TakeQueue(d) \/ TakeHttp(d)
       \/ Resume(d) \/ Scheduled(d)
       \/ \E s \in Sessions : StartRun(d, s)
       \/ Disconnect(d) \/ Reconnect(d) \/ Crash(d)

Spec == Init /\ [][Next /\ UNCHANGED bound]_vars

\* Awaited calls return or fail, and the listen loop retries for ever.
FairSpec ==
  /\ Spec
  /\ \A d \in Dispatchers : \A t \in Threads :
       WF_vars((Register(d, t) \/ Subscribe(d, t) \/ Relay(d, t) \/ Clear(d, t))
                 /\ UNCHANGED bound)
  /\ \A d \in Dispatchers : WF_vars(Reconnect(d) /\ UNCHANGED bound)

-----------------------------------------------------------------------------
\* Implementation of ScopedDelivery: whatever is lost, cancelled or restarted, a
\* session runs START_GUN and ticks of its own simulation only, in order and
\* none of them twice on an instance.  The receivers are the sessions on each
\* instance.
Delivery == INSTANCE ScopedDelivery WITH
  Receivers <- Dispatchers \X Sessions, Sims <- Sims \cup {NoSim},
  Scope <- [r \in Dispatchers \X Sessions |-> SimOf[r[2]]],
  got <- [r \in Dispatchers \X Sessions |-> raced[r[1]][r[2]]]
ImplementsDelivery == Delivery!Spec

\* A user's message or a click runs a session at most once on an instance, by
\* whichever of pub/sub, poke and relay it arrives and however often, unless the
\* instance was reset or restarted between two arrivals.
OncePerInstance ==
  \A d \in Dispatchers : \A s \in Sessions : \A i, j \in 1..Len(log[d][s]) :
    i # j => LET a == log[d][s][i]
                 b == log[d][s][j]
             IN a.origin # b.origin \/ a.epoch # b.epoch

\* An instance with a session of a running simulation ends up subscribed to its
\* channel, after any loss of the connection, unless a handler was cut short or
\* the subscription failed (cut), in which case nothing tries again.
ActiveIsSubscribed ==
  \A d \in Dispatchers : \A s \in Sessions :
    (SimOf[s] # NoSim /\ s \in disp[d].active)
      ~> \/ SimOf[s] \in disp[d].chans \/ s \notin disp[d].active
         \/ <<d, SimOf[s]>> \in cut \/ phase[SimOf[s]] = "ended"

\* What the comment above the readiness gate says of it: when the start gun is
\* fired every runner's instance has subscribed to the broadcast channel.
StartGunIsHeard ==
  [][\A m \in Sims : phase[m] = "spawn" /\ phase'[m] = "race" =>
       \A s \in bound.spawned : SimOf[s] = m =>
         \E d \in Dispatchers : s \in disp[d].active /\ m \in disp[d].chans]_vars
=============================================================================
