-------------------------- MODULE DispatcherProofs --------------------------
(***************************************************************************)
(* Proofs about Dispatcher, for any instances, sessions, simulations and   *)
(* faults.  What a step does to the record of an instance is one of a few  *)
(* moves: it forgets something, is renewed by a reset or a restart,        *)
(* receives, triggers, waits for a relay or starts a run.  A lemma on each *)
(* move shows that it keeps what is known of a record; the actions are     *)
(* then put together from moves.                                           *)
(***************************************************************************)
EXTENDS Dispatcher, FiniteSetTheorems, TLAPS

----------------------------------------------------------------------------
(* Types.                                                                  *)

SimIds == Sims \cup {NoSim}
Ids == Nat \cup Sessions
EventKinds == {"spawn_agent", "broadcast", "end_simulation", "a2ui_action", "environment_reset"}
Event ==
  [type : EventKinds, id : Ids, origin : Ids, sim : SimIds,
   targets : SUBSET (Sessions \cup {AgentType}), relayed : BOOLEAN, epoch : Nat]
Awaited ==
  [at : {"register", "subscribe", "relay", "clear"}, event : Event, matched : SUBSET Sessions]
Instance ==
  [active : SUBSET Sessions, sim : [Sessions -> SimIds], subs : SUBSET SimIds, seen : SUBSET Ids,
   runs : [Sessions -> Seq(Event)], pc : [Threads -> {Idle} \cup Awaited],
   todo : SUBSET ({"unregister", "unsubscribe"} \X (Sessions \cup SimIds)), conn : BOOLEAN,
   chans : SUBSET ({Global} \cup SimIds), inbox : Seq(Event), epoch : Nat]

TypeOK ==
  /\ disp \in [Dispatchers -> Instance] /\ queue \subseteq Event /\ http \subseteq Event
  /\ reg \in [Sessions -> SimIds] /\ sent \in Seq(SimIds)
  /\ phase \in [Sims -> {"spawn", "race", "ended"}]
  /\ log \in [Dispatchers -> [Sessions -> Seq(Event)]]
  /\ raced \in [Dispatchers -> [Sessions -> Seq(Nat)]]
  /\ cut \subseteq Dispatchers \X SimIds /\ faults \in Nat /\ bound \in Scenarios

----------------------------------------------------------------------------
(* What is known of events.  st stands for sent, pk for http.              *)

\* Events that spawn a session, and all others.
Spawns(e) ==
  /\ e.type = "spawn_agent"
  /\ \E s \in Sessions : e.id = s /\ e.origin = s /\ e.targets = {s} /\ e.sim = SimOf[s]

Sound(e, st) ==
  /\ e.type # "spawn_agent" /\ e.origin \in 1 .. Len(st) /\ e.id \in 0 .. Len(st)
  /\ e.sim # NoSim => e.targets = {} /\ st[e.origin] = e.sim
  /\ (e.type = "broadcast" /\ e.targets # {} /\ ~e.relayed) => e.id = 0

Scoped(e) == e.sim # NoSim

\* A message with an empty id is on its way, and nowhere else.
Poked(k, pk) == \E x \in pk : x.origin = k /\ x.id = 0

\* All copies of a message have the same id: f gives the id of each message.
Heard(e, f, pk) == e.id = f[e.origin] /\ ~Poked(e.origin, pk)

Clash(a, b) == a.origin = b.origin /\ a.epoch = b.epoch
Distinct(q) == \A i, j \in DOMAIN q : i # j => ~Clash(q[i], q[j])
Apart(q, r) == \A i \in DOMAIN q, j \in DOMAIN r : ~Clash(q[i], r[j])

----------------------------------------------------------------------------
(* What is known of an instance L with its histories lg and ra.            *)

Relaying(L, t) == L.pc[t].at = "relay"

SoundInstance(L, st) ==
  /\ \A i \in DOMAIN L.inbox : Sound(L.inbox[i], st) /\ L.inbox[i].id # 0
  /\ \A s \in Sessions : \A i \in DOMAIN L.runs[s] : Sound(L.runs[s][i], st)
  /\ \A t \in Threads : Relaying(L, t) =>
       Sound(L.pc[t].event, st) /\ ~Scoped(L.pc[t].event) /\ L.pc[t].event.id # 0
  /\ \A s \in Sessions : L.sim[s] \in {NoSim, SimOf[s]}

\* The broadcasts of a session's simulation come and go in their order.
OrderOf(L, r, s, n) ==
  /\ \A i \in DOMAIN L.runs[s] : Scoped(L.runs[s][i]) => L.runs[s][i].sim = SimOf[s]
  /\ \A i, j \in DOMAIN L.runs[s] :
       (i < j /\ Scoped(L.runs[s][i]) /\ Scoped(L.runs[s][j]))
       => L.runs[s][i].origin < L.runs[s][j].origin
  /\ \A i \in DOMAIN L.runs[s], j \in DOMAIN L.inbox :
       (Scoped(L.runs[s][i]) /\ Scoped(L.inbox[j])) => L.runs[s][i].origin < L.inbox[j].origin
  /\ \A k \in DOMAIN r : r[k] <= n
  /\ \A k \in DOMAIN r, i \in DOMAIN L.runs[s] :
       Scoped(L.runs[s][i]) => r[k] < L.runs[s][i].origin
  /\ \A k \in DOMAIN r, j \in DOMAIN L.inbox : Scoped(L.inbox[j]) => r[k] < L.inbox[j].origin

InboxOrder(L) ==
  \A i, j \in DOMAIN L.inbox :
    (i < j /\ Scoped(L.inbox[i]) /\ Scoped(L.inbox[j])) => L.inbox[i].origin < L.inbox[j].origin

OrderInstance(L, ra, st) ==
  InboxOrder(L) /\ \A s \in Sessions : OrderOf(L, ra[s], s, Len(st))

\* A copy that the instance took: since its last reset the filter knows the id.
Taken(L, e, f, pk) ==
  /\ Heard(e, f, pk) /\ e.epoch <= L.epoch
  /\ (e.epoch = L.epoch /\ e.id # 0) => e.id \in L.seen

\* No two copies of a message that it took in one epoch are for one session.
OnceFor(L, l, s) ==
  /\ Distinct(l) /\ Distinct(L.runs[s]) /\ Apart(l, L.runs[s])
  /\ \A t \in Threads : (Relaying(L, t) /\ s \in L.pc[t].matched) =>
       /\ \A i \in DOMAIN l : ~Clash(l[i], L.pc[t].event)
       /\ \A i \in DOMAIN L.runs[s] : ~Clash(L.runs[s][i], L.pc[t].event)
       /\ \A u \in Threads \ {t} : (Relaying(L, u) /\ s \in L.pc[u].matched) =>
            ~Clash(L.pc[u].event, L.pc[t].event)

OnceInstance(L, lg, f, st, pk) ==
  /\ \A i \in DOMAIN L.inbox : Heard(L.inbox[i], f, pk)
  /\ \A s \in Sessions : \A i \in DOMAIN L.runs[s] : Taken(L, L.runs[s][i], f, pk)
  /\ \A s \in Sessions : \A i \in DOMAIN lg[s] : Sound(lg[s][i], st) /\ Taken(L, lg[s][i], f, pk)
  /\ \A t \in Threads : Relaying(L, t) => Taken(L, L.pc[t].event, f, pk)
  /\ L.seen \subseteq (1 .. Len(st)) \cup Sessions
  /\ \A s \in Sessions : OnceFor(L, lg[s], s)

\* The filter has room for every message and every session.
FilterSuffices ==
  IsFiniteSet(Sessions) /\ \A b \in Scenarios : b.msgs + Cardinality(Sessions) <= MaxSeen

InstanceInv(L, lg, ra, f, st, pk) ==
  /\ L \in Instance /\ lg \in [Sessions -> Seq(Event)] /\ ra \in [Sessions -> Seq(Nat)]
  /\ SoundInstance(L, st) /\ OrderInstance(L, ra, st)
  /\ FilterSuffices => OnceInstance(L, lg, f, st, pk)

PokesInv(f, st, pk) ==
  /\ \A e \in pk : Spawns(e) \/ (Sound(e, st) /\ ~Scoped(e) /\ e.id = f[e.origin])
  /\ \A x, y \in pk : (x.id = 0 /\ y.id = 0 /\ x.origin = y.origin) => x = y

Tagged(f, D, lg, ra, st, pk) ==
  PokesInv(f, st, pk) /\ \A d \in Dispatchers : InstanceInv(D[d], lg[d], ra[d], f, st, pk)

Tags(D, lg, ra, st, pk) == \E f \in [Nat -> Nat] : Tagged(f, D, lg, ra, st, pk)

Inv ==
  /\ TypeOK /\ Len(sent) <= bound.msgs /\ \A e \in queue : Spawns(e)
  /\ Tags(disp, log, raced, sent, http)

----------------------------------------------------------------------------
(* Moves of one instance.                                                  *)

LEMMA InstanceTypes ==
  ASSUME NEW L \in Instance
  PROVE  /\ L.active \in SUBSET Sessions /\ L.sim \in [Sessions -> SimIds] /\ L.subs \in SUBSET SimIds
         /\ L.seen \in SUBSET Ids /\ L.runs \in [Sessions -> Seq(Event)]
         /\ L.pc \in [Threads -> {Idle} \cup Awaited] /\ L.inbox \in Seq(Event) /\ L.epoch \in Nat
         /\ L.chans \in SUBSET ({Global} \cup SimIds) /\ L.conn \in BOOLEAN
BY DEF Instance

LEMMA EventTypes ==
  ASSUME NEW e \in Event
  PROVE  /\ e.type \in EventKinds /\ e.id \in Ids /\ e.origin \in Ids /\ e.sim \in SimIds
         /\ e.targets \in SUBSET (Sessions \cup {AgentType}) /\ e.relayed \in BOOLEAN /\ e.epoch \in Nat
BY DEF Event

\* What the rest of the world does: messages are sent, pokes are taken, and the
\* ids of messages that wait in a poke only are still open.
Carries(f, g, st, more, pk, left) ==
  /\ \E n \in Nat : Len(more) = Len(st) + n
  /\ \A k \in 1 .. Len(st) :
       /\ more[k] = st[k]
       /\ Poked(k, left) => Poked(k, pk)
       /\ ~Poked(k, pk) => g[k] = f[k]

LEMMA SoundCarried ==
  ASSUME NEW st \in Seq(SimIds), NEW more \in Seq(SimIds), NEW n \in Nat, Len(more) = Len(st) + n,
         \A k \in 1 .. Len(st) : more[k] = st[k], NEW e, Sound(e, st)
  PROVE  Sound(e, more)
<1>1. Len(st) \in Nat
  OBVIOUS
<1>2. e.origin \in 1 .. Len(more) /\ e.id \in 0 .. Len(more) /\ more[e.origin] = st[e.origin]
  BY <1>1 DEF Sound
<1> QED
  BY <1>2 DEF Sound

LEMMA HeardCarried ==
  ASSUME NEW st \in Seq(SimIds), NEW more \in Seq(SimIds), NEW f, NEW g, NEW pk, NEW left,
         Carries(f, g, st, more, pk, left), NEW e, e.origin \in 1 .. Len(st), Heard(e, f, pk)
  PROVE  Heard(e, g, left)
BY DEF Carries, Heard

LEMMA Carried ==
  ASSUME NEW L, NEW lg, NEW ra, NEW f, NEW st \in Seq(SimIds), NEW pk,
         NEW g, NEW more \in Seq(SimIds), NEW left,
         InstanceInv(L, lg, ra, f, st, pk), Carries(f, g, st, more, pk, left)
  PROVE  InstanceInv(L, lg, ra, g, more, left)
<1>1. PICK n \in Nat : Len(more) = Len(st) + n
  BY DEF Carries
<1>2. \A k \in 1 .. Len(st) : more[k] = st[k]
  BY DEF Carries
<1>3. \A e : Sound(e, st) => Sound(e, more)
  BY <1>1, <1>2, SoundCarried
<1>4. \A e : (Sound(e, st) /\ Heard(e, f, pk)) => Heard(e, g, left)
  BY HeardCarried DEF Sound
<1>5. SoundInstance(L, more)
  BY <1>3 DEF InstanceInv, SoundInstance
<1>6. OrderInstance(L, ra, more)
  <2>1. \A s \in Sessions : \A k \in DOMAIN ra[s] : ra[s][k] \in Nat /\ ra[s][k] <= Len(st)
    BY DEF InstanceInv, OrderInstance, OrderOf
  <2>2. \A s \in Sessions : \A k \in DOMAIN ra[s] : ra[s][k] <= Len(more)
    BY <1>1, <2>1
  <2> QED
    BY <2>2 DEF InstanceInv, OrderInstance, OrderOf
<1>7. ASSUME FilterSuffices PROVE OnceInstance(L, lg, g, more, left)
  <2>1. OnceInstance(L, lg, f, st, pk) /\ SoundInstance(L, st)
    BY <1>7 DEF InstanceInv
  <2>2. \A e : (Sound(e, st) /\ Taken(L, e, f, pk)) => Taken(L, e, g, left)
    BY <1>4 DEF Taken
  <2>3. \A i \in DOMAIN L.inbox : Heard(L.inbox[i], g, left)
    BY <1>4, <2>1 DEF OnceInstance, SoundInstance
  <2>4. \A s \in Sessions : \A i \in DOMAIN L.runs[s] : Taken(L, L.runs[s][i], g, left)
    BY <2>1, <2>2 DEF OnceInstance, SoundInstance
  <2>5. \A s \in Sessions : \A i \in DOMAIN lg[s] : Sound(lg[s][i], more) /\ Taken(L, lg[s][i], g, left)
    BY <1>3, <2>1, <2>2 DEF OnceInstance
  <2>6. \A t \in Threads : Relaying(L, t) => Taken(L, L.pc[t].event, g, left)
    BY <2>1, <2>2 DEF OnceInstance, SoundInstance
  <2>7. L.seen \subseteq (1 .. Len(more)) \cup Sessions
    <3>1. 1 .. Len(st) \subseteq 1 .. Len(more)
      BY <1>1
    <3> QED
      BY <2>1, <3>1 DEF OnceInstance
  <2> QED
    BY <2>1, <2>3, <2>4, <2>5, <2>6, <2>7 DEF OnceInstance
<1> QED
  BY <1>5, <1>6, <1>7 DEF InstanceInv

LEMMA RunNumbers ==
  ASSUME NEW L, NEW lg, NEW ra, NEW f, NEW st \in Seq(SimIds), NEW pk,
         InstanceInv(L, lg, ra, f, st, pk), NEW s \in Sessions
  PROVE  \A k \in DOMAIN ra[s] : ra[s][k] \in Nat /\ ra[s][k] <= Len(st)
<1>1. ra \in [Sessions -> Seq(Nat)] /\ OrderOf(L, ra[s], s, Len(st))
  BY DEF InstanceInv, OrderInstance
<1>2. \A k \in DOMAIN ra[s] : ra[s][k] \in Nat
  BY <1>1
<1> QED
  BY <1>1, <1>2 DEF OrderOf

\* What is left of an inbox: all of it, all but its first message, or nothing.
Rest(q, r) == r = q \/ (q # <<>> /\ r = Tail(q)) \/ r = <<>>

Later(q, r, n) == \A i \in DOMAIN r : i + n \in DOMAIN q /\ r[i] = q[i + n]

LEMMA RestIsLater ==
  ASSUME NEW q \in Seq(Event), NEW r, Rest(q, r)
  PROVE  r \in Seq(Event) /\ \E n \in Nat : Later(q, r, n)
<1>1. CASE r = q
  <2>1. Later(q, r, 0)
    BY <1>1 DEF Later
  <2> QED
    BY <1>1, <2>1
<1>2. CASE q # <<>> /\ r = Tail(q)
  <2>1. Later(q, r, 1)
    BY <1>2 DEF Later
  <2>2. r \in Seq(Event)
    BY <1>2
  <2> QED
    BY <2>1, <2>2
<1>3. CASE r = <<>>
  <2>1. Later(q, r, 0)
    BY <1>3 DEF Later
  <2> QED
    BY <1>3, <2>1
<1> QED
  BY <1>1, <1>2, <1>3 DEF Rest

\* L forgets part of its inbox, awaits something else, learns or loses the
\* simulation of a session.
LEMMA Forgets ==
  ASSUME NEW L, NEW M \in Instance, NEW lg, NEW ra, NEW f, NEW st \in Seq(SimIds), NEW pk,
         InstanceInv(L, lg, ra, f, st, pk), Rest(L.inbox, M.inbox), M.runs = L.runs, M.epoch = L.epoch,
         FilterSuffices => L.seen \subseteq M.seen /\ M.seen \subseteq (1 .. Len(st)) \cup Sessions,
         \A t \in Threads : M.pc[t] = L.pc[t] \/ ~Relaying(M, t),
         \A s \in Sessions : M.sim[s] \in {NoSim, SimOf[s]}
  PROVE  InstanceInv(M, lg, ra, f, st, pk)
<1>1. L.inbox \in Seq(Event)
  BY InstanceTypes DEF InstanceInv
<1>2. PICK n \in Nat : \A i \in DOMAIN M.inbox : i + n \in DOMAIN L.inbox /\ M.inbox[i] = L.inbox[i + n]
  <2>1. \E n \in Nat : Later(L.inbox, M.inbox, n)
    BY <1>1, RestIsLater
  <2> QED
    BY <2>1 DEF Later
<1>3. DOMAIN M.inbox \subseteq Nat
  <2>1. M.inbox \in Seq(Event)
    BY InstanceTypes
  <2> QED
    BY <2>1
<1>4. SoundInstance(M, st)
  BY <1>2 DEF InstanceInv, SoundInstance, Relaying
<1>5. OrderInstance(M, ra, st)
  <2>1. InboxOrder(L) /\ \A s \in Sessions : OrderOf(L, ra[s], s, Len(st))
    BY DEF InstanceInv, OrderInstance
  <2>2. InboxOrder(M)
    <3> SUFFICES ASSUME NEW i \in DOMAIN M.inbox, NEW j \in DOMAIN M.inbox, i < j,
                        Scoped(M.inbox[i]), Scoped(M.inbox[j])
                 PROVE  M.inbox[i].origin < M.inbox[j].origin
      BY DEF InboxOrder
    <3>1. i + n < j + n
      BY <1>3
    <3> QED
      BY <1>2, <2>1, <3>1 DEF InboxOrder
  <2>3. ASSUME NEW s \in Sessions PROVE OrderOf(M, ra[s], s, Len(st))
    <3>1. OrderOf(L, ra[s], s, Len(st))
      BY <2>1
    <3> QED
      BY <1>2, <3>1 DEF OrderOf
  <2> QED
    BY <2>2, <2>3 DEF OrderInstance
<1>6. ASSUME FilterSuffices PROVE OnceInstance(M, lg, f, st, pk)
  <2>1. OnceInstance(L, lg, f, st, pk)
    BY <1>6 DEF InstanceInv
  <2>2. \A e : Taken(L, e, f, pk) => Taken(M, e, f, pk)
    BY <1>6 DEF Taken
  <2>3. \A i \in DOMAIN M.inbox : Heard(M.inbox[i], f, pk)
    BY <1>2, <2>1 DEF OnceInstance
  <2>4. \A t \in Threads : Relaying(M, t) => Relaying(L, t) /\ M.pc[t] = L.pc[t]
    BY DEF Relaying
  <2>5. \A s \in Sessions : OnceFor(M, lg[s], s)
    BY <2>1, <2>4 DEF OnceInstance, OnceFor
  <2> QED
    BY <1>6, <2>1, <2>2, <2>3, <2>4, <2>5 DEF OnceInstance
<1> QED
  BY <1>4, <1>5, <1>6 DEF InstanceInv

\* A reset or a restart.
LEMMA Renewed ==
  ASSUME NEW L, NEW M \in Instance, NEW lg, NEW ra, NEW f, NEW st \in Seq(SimIds), NEW pk,
         InstanceInv(L, lg, ra, f, st, pk), Rest(L.inbox, M.inbox),
         \A s \in Sessions : M.runs[s] = <<>>, M.epoch = L.epoch + 1, M.seen = {},
         \A t \in Threads : M.pc[t] = L.pc[t] \/ ~Relaying(M, t),
         \A s \in Sessions : M.sim[s] \in {NoSim, SimOf[s]}
  PROVE  InstanceInv(M, lg, ra, f, st, pk)
<1>1. L.inbox \in Seq(Event) /\ L.epoch \in Nat
  BY InstanceTypes DEF InstanceInv
<1>2. PICK n \in Nat : \A i \in DOMAIN M.inbox : i + n \in DOMAIN L.inbox /\ M.inbox[i] = L.inbox[i + n]
  <2>1. \E n \in Nat : Later(L.inbox, M.inbox, n)
    BY <1>1, RestIsLater
  <2> QED
    BY <2>1 DEF Later
<1>3. DOMAIN M.inbox \subseteq Nat
  <2>1. M.inbox \in Seq(Event)
    BY InstanceTypes
  <2> QED
    BY <2>1
<1>4. SoundInstance(M, st)
  <2>1. \A i \in DOMAIN M.inbox : Sound(M.inbox[i], st) /\ M.inbox[i].id # 0
    BY <1>2 DEF InstanceInv, SoundInstance
  <2>2. \A s \in Sessions : \A i \in DOMAIN M.runs[s] : Sound(M.runs[s][i], st)
    BY DEF InstanceInv, SoundInstance
  <2>3. \A t \in Threads : Relaying(M, t) => Relaying(L, t) /\ M.pc[t] = L.pc[t]
    BY DEF Relaying
  <2> QED
    BY <2>1, <2>2, <2>3 DEF InstanceInv, SoundInstance
<1>5. OrderInstance(M, ra, st)
  <2>1. InboxOrder(L) /\ \A s \in Sessions : OrderOf(L, ra[s], s, Len(st))
    BY DEF InstanceInv, OrderInstance
  <2>2. InboxOrder(M)
    <3> SUFFICES ASSUME NEW i \in DOMAIN M.inbox, NEW j \in DOMAIN M.inbox, i < j,
                        Scoped(M.inbox[i]), Scoped(M.inbox[j])
                 PROVE  M.inbox[i].origin < M.inbox[j].origin
      BY DEF InboxOrder
    <3>1. i + n < j + n
      BY <1>3
    <3> QED
      BY <1>2, <2>1, <3>1 DEF InboxOrder
  <2>3. ASSUME NEW s \in Sessions PROVE OrderOf(M, ra[s], s, Len(st))
    <3>1. OrderOf(L, ra[s], s, Len(st)) /\ DOMAIN M.runs[s] = {}
      BY <2>1
    <3> QED
      BY <1>2, <3>1 DEF OrderOf
  <2> QED
    BY <2>2, <2>3 DEF OrderInstance
<1>6. ASSUME FilterSuffices PROVE OnceInstance(M, lg, f, st, pk)
  <2>1. OnceInstance(L, lg, f, st, pk)
    BY <1>6 DEF InstanceInv
  <2>2. \A e : (e.epoch \in Nat /\ Taken(L, e, f, pk)) => Taken(M, e, f, pk)
    BY <1>1 DEF Taken
  <2>3. \A i \in DOMAIN M.inbox : Heard(M.inbox[i], f, pk)
    BY <1>2, <2>1 DEF OnceInstance
  <2>4. \A t \in Threads : Relaying(M, t) => Relaying(L, t) /\ M.pc[t] = L.pc[t]
    BY DEF Relaying
  <2>5. \A s \in Sessions : OnceFor(M, lg[s], s)
    BY <2>1, <2>4 DEF OnceInstance, OnceFor, Distinct, Apart
  <2>6. \A s \in Sessions : \A i \in DOMAIN lg[s] : lg[s][i].epoch \in Nat
    BY EventTypes DEF InstanceInv
  <2>7. \A t \in Threads : Relaying(L, t) => L.pc[t].event.epoch \in Nat
    <3>1. L.pc \in [Threads -> {Idle} \cup Awaited]
      BY InstanceTypes DEF InstanceInv
    <3>2. \A t \in Threads : Relaying(L, t) => L.pc[t].event \in Event
      BY <3>1 DEF Relaying, Idle, Awaited
    <3> QED
      BY <3>2, EventTypes
  <2>8. \A s \in Sessions : \A i \in DOMAIN lg[s] : Sound(lg[s][i], st) /\ Taken(M, lg[s][i], f, pk)
    BY <2>1, <2>2, <2>6 DEF OnceInstance
  <2>9. \A t \in Threads : Relaying(M, t) => Taken(M, M.pc[t].event, f, pk)
    BY <2>1, <2>2, <2>4, <2>7 DEF OnceInstance
  <2> QED
    BY <2>3, <2>5, <2>8, <2>9 DEF OnceInstance
<1> QED
  BY <1>4, <1>5, <1>6 DEF InstanceInv

LEMMA Appended ==
  ASSUME NEW S, NEW q \in Seq(S), NEW e \in S
  PROVE  /\ Append(q, e) \in Seq(S) /\ DOMAIN q \subseteq Nat /\ Len(q) \in Nat
         /\ DOMAIN Append(q, e) = DOMAIN q \cup {Len(q) + 1}
         /\ \A i \in DOMAIN q : Append(q, e)[i] = q[i] /\ i < Len(q) + 1
         /\ Append(q, e)[Len(q) + 1] = e
OBVIOUS

\* Redis hands over a message; one of a simulation is the newest of all.
LEMMA Receives ==
  ASSUME NEW L, NEW lg, NEW ra, NEW f, NEW st \in Seq(SimIds), NEW pk,
         InstanceInv(L, lg, ra, f, st, pk), NEW e \in Event, Sound(e, st), e.id # 0,
         FilterSuffices => Heard(e, f, pk),
         Scoped(e) => /\ \A i \in DOMAIN L.inbox : L.inbox[i].origin < e.origin
                      /\ \A s \in Sessions : \A i \in DOMAIN L.runs[s] : L.runs[s][i].origin < e.origin
                      /\ \A s \in Sessions : \A k \in DOMAIN ra[s] : ra[s][k] < e.origin
  PROVE  InstanceInv([L EXCEPT !.inbox = Append(@, e)], lg, ra, f, st, pk)
<1> DEFINE M == [L EXCEPT !.inbox = Append(@, e)]
<1>1. L \in Instance /\ L.inbox \in Seq(Event)
  BY InstanceTypes DEF InstanceInv
<1>2. /\ M \in Instance /\ M.inbox = Append(L.inbox, e)
      /\ M.runs = L.runs /\ M.pc = L.pc /\ M.sim = L.sim /\ M.seen = L.seen /\ M.epoch = L.epoch
  <2>1. Append(L.inbox, e) \in Seq(Event)
    BY <1>1
  <2> QED
    BY <1>1, <2>1 DEF Instance
<1> HIDE DEF M
<1>3. PICK l \in Nat : l = Len(L.inbox) + 1
  BY <1>1
<1>4. /\ DOMAIN M.inbox = DOMAIN L.inbox \cup {l} /\ M.inbox[l] = e /\ DOMAIN L.inbox \subseteq Nat
      /\ \A i \in DOMAIN L.inbox : M.inbox[i] = L.inbox[i] /\ i < l
  BY <1>1, <1>2, <1>3, Appended
<1>5. SoundInstance(M, st)
  BY <1>2, <1>4 DEF InstanceInv, SoundInstance, Relaying
<1>6. OrderInstance(M, ra, st)
  <2>1. InboxOrder(L) /\ \A s \in Sessions : OrderOf(L, ra[s], s, Len(st))
    BY DEF InstanceInv, OrderInstance
  <2>2. InboxOrder(M)
    <3> SUFFICES ASSUME NEW i \in DOMAIN M.inbox, NEW j \in DOMAIN M.inbox, i < j,
                        Scoped(M.inbox[i]), Scoped(M.inbox[j])
                 PROVE  M.inbox[i].origin < M.inbox[j].origin
      BY DEF InboxOrder
    <3>1. i \in DOMAIN L.inbox
      <4>1. ~(l < l) /\ \A k \in DOMAIN L.inbox : ~(l < k)
        BY <1>3, <1>4
      <4> QED
        BY <1>4, <4>1
    <3> QED
      BY <1>4, <2>1, <3>1 DEF InboxOrder
  <2>3. ASSUME NEW s \in Sessions PROVE OrderOf(M, ra[s], s, Len(st))
    <3>1. OrderOf(L, ra[s], s, Len(st))
      BY <2>1
    <3> QED
      BY <1>2, <1>4, <3>1 DEF OrderOf
  <2> QED
    BY <2>2, <2>3 DEF OrderInstance
<1>7. ASSUME FilterSuffices PROVE OnceInstance(M, lg, f, st, pk)
  <2>1. OnceInstance(L, lg, f, st, pk)
    BY <1>7 DEF InstanceInv
  <2>2. \A x : Taken(L, x, f, pk) => Taken(M, x, f, pk)
    BY <1>2 DEF Taken
  <2>3. \A i \in DOMAIN M.inbox : Heard(M.inbox[i], f, pk)
    BY <1>4, <1>7, <2>1 DEF OnceInstance
  <2>4. \A s \in Sessions : OnceFor(M, lg[s], s)
    BY <1>2, <2>1 DEF OnceInstance, OnceFor, Relaying
  <2> QED
    BY <1>2, <2>1, <2>2, <2>3, <2>4 DEF OnceInstance, Relaying
<1>8. InstanceInv(M, lg, ra, f, st, pk)
  BY <1>2, <1>5, <1>6, <1>7 DEF InstanceInv
<1> QED
  BY <1>8 DEF M

\* No copy of e was taken for session s in e's epoch.
New(L, l, e, s) ==
  /\ \A i \in DOMAIN l : ~Clash(l[i], e)
  /\ \A i \in DOMAIN L.runs[s] : ~Clash(L.runs[s][i], e)
  /\ \A t \in Threads : (Relaying(L, t) /\ s \in L.pc[t].matched) => ~Clash(L.pc[t].event, e)

\* A broadcast of a simulation is triggered before all those in the inbox and
\* after all that were triggered or run.
NextFor(L, r, e, s) ==
  /\ e.sim = SimOf[s]
  /\ \A i \in DOMAIN L.runs[s] : Scoped(L.runs[s][i]) => L.runs[s][i].origin < e.origin
  /\ \A i \in DOMAIN L.inbox : Scoped(L.inbox[i]) => e.origin < L.inbox[i].origin
  /\ \A k \in DOMAIN r : r[k] < e.origin

LEMMA Triggers ==
  ASSUME NEW L, NEW lg, NEW ra, NEW f, NEW st \in Seq(SimIds), NEW pk,
         InstanceInv(L, lg, ra, f, st, pk), NEW e \in Event, Sound(e, st), NEW S \in SUBSET Sessions,
         Scoped(e) => \A s \in S : NextFor(L, ra[s], e, s),
         FilterSuffices => Taken(L, e, f, pk) /\ \A s \in S : New(L, lg[s], e, s)
  PROVE  InstanceInv(Trigger(L, S, e), lg, ra, f, st, pk)
<1> DEFINE M == Trigger(L, S, e)
<1>1. L \in Instance /\ L.runs \in [Sessions -> Seq(Event)] /\ L.inbox \in Seq(Event)
  BY InstanceTypes DEF InstanceInv
<1>2. \A s \in Sessions : Append(L.runs[s], e) \in Seq(Event)
  BY <1>1
<1>3. /\ M \in Instance /\ M.inbox = L.inbox
      /\ M.runs = [s \in Sessions |-> IF s \in S THEN Append(L.runs[s], e) ELSE L.runs[s]]
      /\ M.pc = L.pc /\ M.sim = L.sim /\ M.seen = L.seen /\ M.epoch = L.epoch
  BY <1>1, <1>2 DEF Instance, Trigger
<1> HIDE DEF M
<1>4. \A s \in Sessions \ S : M.runs[s] = L.runs[s]
  BY <1>3
<1>5. \A s \in S : M.runs[s] = Append(L.runs[s], e) /\ s \in Sessions
  BY <1>3
<1>6. ASSUME NEW s \in S
      PROVE  \E l \in Nat :
               /\ DOMAIN M.runs[s] = DOMAIN L.runs[s] \cup {l} /\ M.runs[s][l] = e
               /\ DOMAIN L.runs[s] \subseteq Nat
               /\ \A i \in DOMAIN L.runs[s] : M.runs[s][i] = L.runs[s][i] /\ i < l
  <2>1. L.runs[s] \in Seq(Event) /\ M.runs[s] = Append(L.runs[s], e)
    BY <1>1, <1>5
  <2>2. PICK l \in Nat : l = Len(L.runs[s]) + 1
    BY <2>1
  <2>3. /\ DOMAIN M.runs[s] = DOMAIN L.runs[s] \cup {l} /\ M.runs[s][l] = e
        /\ DOMAIN L.runs[s] \subseteq Nat
        /\ \A i \in DOMAIN L.runs[s] : M.runs[s][i] = L.runs[s][i] /\ i < l
    BY <2>1, <2>2, Appended
  <2> QED
    BY <2>3
<1>7. SoundInstance(M, st)
  <2>1. ASSUME NEW s \in Sessions, NEW i \in DOMAIN M.runs[s] PROVE Sound(M.runs[s][i], st)
    <3>1. CASE s \in S
      <4>1. M.runs[s][i] = e \/ (i \in DOMAIN L.runs[s] /\ M.runs[s][i] = L.runs[s][i])
        BY <1>6, <3>1
      <4> QED
        BY <4>1 DEF InstanceInv, SoundInstance
    <3>2. CASE s \notin S
      BY <1>4, <3>2 DEF InstanceInv, SoundInstance
    <3> QED
      BY <3>1, <3>2
  <2> QED
    BY <1>3, <2>1 DEF InstanceInv, SoundInstance, Relaying
<1>8. OrderInstance(M, ra, st)
  <2>1. InboxOrder(L) /\ \A s \in Sessions : OrderOf(L, ra[s], s, Len(st))
    BY DEF InstanceInv, OrderInstance
  <2>2. InboxOrder(M)
    BY <1>3, <2>1 DEF InboxOrder
  <2>3. ASSUME NEW s \in Sessions PROVE OrderOf(M, ra[s], s, Len(st))
    <3>1. OrderOf(L, ra[s], s, Len(st))
      BY <2>1
    <3>2. CASE s \notin S
      BY <1>3, <1>4, <3>1, <3>2 DEF OrderOf
    <3>3. CASE s \in S
      <4>1. PICK l \in Nat :
               /\ DOMAIN M.runs[s] = DOMAIN L.runs[s] \cup {l} /\ M.runs[s][l] = e
               /\ DOMAIN L.runs[s] \subseteq Nat
               /\ \A i \in DOMAIN L.runs[s] : M.runs[s][i] = L.runs[s][i] /\ i < l
        BY <1>6, <3>3
      <4>2. Scoped(e) => NextFor(L, ra[s], e, s)
        BY <3>3
      <4>3. ~(l < l) /\ \A i \in DOMAIN L.runs[s] : ~(l < i)
        BY <4>1
      <4>4. \A i, j \in DOMAIN M.runs[s] :
              (i < j /\ Scoped(M.runs[s][i]) /\ Scoped(M.runs[s][j]))
              => M.runs[s][i].origin < M.runs[s][j].origin
        BY <3>1, <4>1, <4>2, <4>3 DEF OrderOf, NextFor
      <4>5. \A i \in DOMAIN M.runs[s] : Scoped(M.runs[s][i]) => M.runs[s][i].sim = SimOf[s]
        BY <3>1, <4>1, <4>2 DEF OrderOf, NextFor
      <4>6. \A i \in DOMAIN M.runs[s], j \in DOMAIN M.inbox :
              (Scoped(M.runs[s][i]) /\ Scoped(M.inbox[j])) => M.runs[s][i].origin < M.inbox[j].origin
        BY <1>3, <3>1, <4>1, <4>2 DEF OrderOf, NextFor
      <4>7. \A k \in DOMAIN ra[s], i \in DOMAIN M.runs[s] :
              Scoped(M.runs[s][i]) => ra[s][k] < M.runs[s][i].origin
        BY <3>1, <4>1, <4>2 DEF OrderOf, NextFor
      <4> QED
        BY <1>3, <3>1, <4>4, <4>5, <4>6, <4>7 DEF OrderOf
    <3> QED
      BY <3>2, <3>3
  <2> QED
    BY <2>2, <2>3 DEF OrderInstance
<1>9. ASSUME FilterSuffices PROVE OnceInstance(M, lg, f, st, pk)
  <2>1. OnceInstance(L, lg, f, st, pk) /\ Taken(L, e, f, pk) /\ \A s \in S : New(L, lg[s], e, s)
    BY <1>9 DEF InstanceInv
  <2>2. \A x : Taken(L, x, f, pk) => Taken(M, x, f, pk)
    BY <1>3 DEF Taken
  <2>3. ASSUME NEW s \in Sessions, NEW i \in DOMAIN M.runs[s] PROVE Taken(M, M.runs[s][i], f, pk)
    <3>1. CASE s \in S
      BY <1>6, <2>1, <2>2, <3>1 DEF OnceInstance
    <3>2. CASE s \notin S
      BY <1>4, <2>1, <2>2, <3>2 DEF OnceInstance
    <3> QED
      BY <3>1, <3>2
  <2>4. ASSUME NEW s \in Sessions PROVE OnceFor(M, lg[s], s)
    <3>1. OnceFor(L, lg[s], s)
      BY <2>1 DEF OnceInstance
    <3>2. CASE s \notin S
      BY <1>3, <1>4, <3>1, <3>2 DEF OnceFor, Relaying
    <3>3. CASE s \in S
      <4>1. PICK l \in Nat :
               /\ DOMAIN M.runs[s] = DOMAIN L.runs[s] \cup {l} /\ M.runs[s][l] = e
               /\ DOMAIN L.runs[s] \subseteq Nat
               /\ \A i \in DOMAIN L.runs[s] : M.runs[s][i] = L.runs[s][i] /\ i < l
        BY <1>6, <3>3
      <4>2. New(L, lg[s], e, s)
        BY <2>1, <3>3
      <4>3. \A a, b : Clash(a, b) => Clash(b, a)
        BY DEF Clash
      <4>4. Distinct(M.runs[s])
        BY <3>1, <4>1, <4>2, <4>3 DEF OnceFor, Distinct, New
      <4>5. Apart(lg[s], M.runs[s])
        BY <3>1, <4>1, <4>2 DEF OnceFor, Apart, New
      <4>6. \A t \in Threads : (Relaying(L, t) /\ s \in L.pc[t].matched) =>
              \A i \in DOMAIN M.runs[s] : ~Clash(M.runs[s][i], L.pc[t].event)
        BY <3>1, <4>1, <4>2, <4>3 DEF OnceFor, New
      <4> QED
        BY <1>3, <3>1, <4>4, <4>5, <4>6 DEF OnceFor, Relaying
    <3> QED
      BY <3>2, <3>3
  <2> QED
    BY <1>3, <2>1, <2>2, <2>3, <2>4 DEF OnceInstance, Relaying
<1>10. InstanceInv(M, lg, ra, f, st, pk)
  BY <1>3, <1>7, <1>8, <1>9 DEF InstanceInv
<1> QED
  BY <1>10 DEF M

\* A message is about to be relayed, and the sessions found here wait for it.
LEMMA WaitsForRelay ==
  ASSUME NEW L, NEW lg, NEW ra, NEW f, NEW st \in Seq(SimIds), NEW pk,
         InstanceInv(L, lg, ra, f, st, pk), NEW t \in Threads, ~Relaying(L, t),
         NEW x \in Event, Sound(x, st), ~Scoped(x), Heard(x, f, pk), x.id # 0, x.epoch = L.epoch,
         NEW S \in SUBSET Sessions, FilterSuffices => \A s \in S : New(L, lg[s], x, s)
  PROVE  InstanceInv([L EXCEPT !.pc[t] = Await("relay", x, S), !.seen = @ \cup {x.id}],
                     lg, ra, f, st, pk)
<1> DEFINE M == [L EXCEPT !.pc[t] = Await("relay", x, S), !.seen = @ \cup {x.id}]
<1>1. L \in Instance /\ L.pc \in [Threads -> {Idle} \cup Awaited] /\ L.seen \in SUBSET Ids
  BY InstanceTypes DEF InstanceInv
<1>2. PICK c \in Awaited : c = Await("relay", x, S)
  BY DEF Await, Awaited
<1>3. c.at = "relay" /\ c.event = x /\ c.matched = S
  BY <1>2 DEF Await
<1>4. PICK pc \in [Threads -> {Idle} \cup Awaited] : pc = [L.pc EXCEPT ![t] = c]
  BY <1>1
<1>5. /\ M \in Instance /\ M.pc = pc /\ M.seen = L.seen \cup {x.id}
      /\ M.runs = L.runs /\ M.inbox = L.inbox /\ M.sim = L.sim /\ M.epoch = L.epoch
  <2>1. M = [L EXCEPT !.pc = pc, !.seen = L.seen \cup {x.id}]
    BY <1>1, <1>2, <1>4 DEF Instance
  <2>2. L.seen \cup {x.id} \in SUBSET Ids
    BY <1>1, EventTypes
  <2> HIDE DEF M
  <2> QED
    BY <1>1, <1>4, <2>1, <2>2 DEF Instance
<1> HIDE DEF M
<1>6. M.pc[t] = c /\ \A u \in Threads \ {t} : M.pc[u] = L.pc[u]
  BY <1>1, <1>4, <1>5
<1>7. SoundInstance(M, st)
  BY <1>3, <1>5, <1>6 DEF InstanceInv, SoundInstance, Relaying
<1>8. OrderInstance(M, ra, st)
  BY <1>5 DEF InstanceInv, OrderInstance, InboxOrder, OrderOf
<1>9. ASSUME FilterSuffices PROVE OnceInstance(M, lg, f, st, pk)
  <2>1. OnceInstance(L, lg, f, st, pk) /\ \A s \in S : New(L, lg[s], x, s)
    BY <1>9 DEF InstanceInv
  <2>2. \A y : Taken(L, y, f, pk) => Taken(M, y, f, pk)
    BY <1>5 DEF Taken
  <2>3. Taken(M, x, f, pk)
    <3>1. x.epoch \in Nat
      BY EventTypes
    <3> QED
      BY <1>5, <3>1 DEF Taken
  <2>4. M.seen \subseteq (1 .. Len(st)) \cup Sessions
    <3>1. x.id \in 1 .. Len(st)
      BY DEF Sound
    <3> QED
      BY <1>5, <2>1, <3>1 DEF OnceInstance
  <2>5. ASSUME NEW s \in Sessions PROVE OnceFor(M, lg[s], s)
    <3>1. OnceFor(L, lg[s], s) /\ (s \in S => New(L, lg[s], x, s))
      BY <2>1 DEF OnceInstance
    <3>2. \A a, b : Clash(a, b) => Clash(b, a)
      BY DEF Clash
    <3>3. ASSUME NEW u \in Threads, Relaying(M, u), s \in M.pc[u].matched
          PROVE  /\ \A i \in DOMAIN lg[s] : ~Clash(lg[s][i], M.pc[u].event)
                 /\ \A i \in DOMAIN L.runs[s] : ~Clash(L.runs[s][i], M.pc[u].event)
                 /\ \A v \in Threads \ {u} : (Relaying(M, v) /\ s \in M.pc[v].matched) =>
                      ~Clash(M.pc[v].event, M.pc[u].event)
      <4>1. CASE u = t
        BY <1>3, <1>6, <3>1, <3>3, <4>1 DEF New, Relaying
      <4>2. CASE u # t
        <5>1. M.pc[u] = L.pc[u] /\ Relaying(L, u) /\ s \in L.pc[u].matched
          BY <1>6, <3>3, <4>2 DEF Relaying
        <5>2. ASSUME NEW v \in Threads \ {u}, Relaying(M, v), s \in M.pc[v].matched
              PROVE  ~Clash(M.pc[v].event, M.pc[u].event)
          <6>1. CASE v = t
            BY <1>3, <1>6, <3>1, <3>2, <5>1, <5>2, <6>1 DEF New
          <6>2. CASE v # t
            BY <1>6, <3>1, <5>1, <5>2, <6>2 DEF OnceFor, Relaying
          <6> QED
            BY <6>1, <6>2
        <5> QED
          BY <3>1, <5>1, <5>2 DEF OnceFor
      <4> QED
        BY <4>1, <4>2
    <3> QED
      BY <1>5, <3>1, <3>3 DEF OnceFor
  <2>6. ASSUME NEW u \in Threads, Relaying(M, u)
        PROVE  Taken(M, M.pc[u].event, f, pk)
    <3>1. CASE u = t
      BY <1>3, <1>6, <2>3, <3>1
    <3>2. CASE u # t
      BY <1>6, <2>1, <2>2, <2>6, <3>2 DEF OnceInstance, Relaying
    <3> QED
      BY <3>1, <3>2
  <2> QED
    BY <1>5, <2>1, <2>2, <2>4, <2>5, <2>6 DEF OnceInstance
<1>10. InstanceInv(M, lg, ra, f, st, pk)
  BY <1>5, <1>7, <1>8, <1>9 DEF InstanceInv
<1> QED
  BY <1>10 DEF M

\* r is q without its first entry.
RunsOn(q, r) ==
  \A i \in DOMAIN r : i \in Nat /\ 1 < i + 1 /\ i + 1 \in DOMAIN q /\ r[i] = q[i + 1]

\* Session s runs e.
Noted(lg, ra, s, e, lg2, ra2) ==
  IF ~Scoped(e) THEN lg2 = [lg EXCEPT ![s] = Append(@, e)] /\ ra2 = ra
  ELSE ra2 = [ra EXCEPT ![s] = Append(@, e.origin)] /\ lg2 = lg

\* The first run in line of session s starts.
LEMMA Starts ==
  ASSUME NEW L, NEW lg, NEW ra, NEW f, NEW st \in Seq(SimIds), NEW pk,
         InstanceInv(L, lg, ra, f, st, pk), NEW s \in Sessions, L.runs[s] # <<>>,
         NEW e, e = Head(L.runs[s]), NEW lg2, NEW ra2, Noted(lg, ra, s, e, lg2, ra2)
  PROVE  InstanceInv([L EXCEPT !.runs[s] = Tail(@)], lg2, ra2, f, st, pk)
<1> USE DEF Noted
<1> DEFINE M == [L EXCEPT !.runs[s] = Tail(@)]
<1>1. /\ L \in Instance /\ L.runs \in [Sessions -> Seq(Event)] /\ L.inbox \in Seq(Event)
      /\ lg \in [Sessions -> Seq(Event)] /\ ra \in [Sessions -> Seq(Nat)]
  BY InstanceTypes DEF InstanceInv
<1>2. PICK q \in Seq(Event) : q = L.runs[s] /\ q # <<>> /\ e = q[1]
  BY <1>1
<1>3. PICK r \in Seq(Event) : r = Tail(q) /\ RunsOn(q, r)
  <2>1. Tail(q) \in Seq(Event) /\ RunsOn(q, Tail(q))
    BY <1>2 DEF RunsOn
  <2> QED
    BY <2>1
<1>4. e \in Event /\ 1 \in DOMAIN L.runs[s] /\ e = L.runs[s][1]
  BY <1>2
<1>5. \A i \in DOMAIN r : /\ i \in Nat /\ 1 < i + 1 /\ i + 1 \in DOMAIN L.runs[s] /\ r[i] = L.runs[s][i + 1]
  BY <1>2, <1>3 DEF RunsOn
<1>6. PICK runs \in [Sessions -> Seq(Event)] : runs = [L.runs EXCEPT ![s] = r]
  BY <1>1, <1>3
<1>7. /\ M \in Instance /\ M.runs = runs
      /\ M.pc = L.pc /\ M.inbox = L.inbox /\ M.sim = L.sim /\ M.seen = L.seen /\ M.epoch = L.epoch
  <2>1. M = [L EXCEPT !.runs = runs]
    BY <1>1, <1>2, <1>3, <1>6 DEF Instance
  <2> HIDE DEF M
  <2> QED
    BY <1>1, <1>6, <2>1 DEF Instance
<1> HIDE DEF M
<1>8. M.runs[s] = r /\ \A v \in Sessions \ {s} : M.runs[v] = L.runs[v]
  BY <1>1, <1>6, <1>7
<1>9. \A v \in Sessions : \A i \in DOMAIN M.runs[v] :
        \E j \in DOMAIN L.runs[v] : M.runs[v][i] = L.runs[v][j] /\ (v = s => j = i + 1)
  BY <1>4, <1>5, <1>8
<1>10. Sound(e, st)
  BY <1>4, <1>5 DEF InstanceInv, SoundInstance
<1>11. SoundInstance(M, st)
  BY <1>7, <1>9 DEF InstanceInv, SoundInstance, Relaying
<1>12. lg2 \in [Sessions -> Seq(Event)] /\ ra2 \in [Sessions -> Seq(Nat)]
  <2>1. CASE ~Scoped(e)
    <3>1. Append(lg[s], e) \in Seq(Event)
      BY <1>1, <1>4
    <3>2. lg2 = [lg EXCEPT ![s] = Append(lg[s], e)] /\ ra2 = ra
      BY <2>1
    <3> QED
      BY <1>1, <3>1, <3>2
  <2>2. CASE Scoped(e)
    <3>1. e.origin \in Nat
      BY <1>10 DEF Sound
    <3>2. Append(ra[s], e.origin) \in Seq(Nat)
      BY <1>1, <3>1
    <3>3. ra2 = [ra EXCEPT ![s] = Append(ra[s], e.origin)] /\ lg2 = lg
      BY <2>2
    <3> QED
      BY <1>1, <3>2, <3>3
  <2> QED
    BY <2>1, <2>2
<1>13. OrderInstance(M, ra2, st)
  <2>1. InboxOrder(L) /\ \A v \in Sessions : OrderOf(L, ra[v], v, Len(st))
    BY DEF InstanceInv, OrderInstance
  <2>2. InboxOrder(M)
    BY <1>7, <2>1 DEF InboxOrder
  <2>3. ASSUME NEW v \in Sessions, v # s PROVE OrderOf(M, ra2[v], v, Len(st))
    <3>1. OrderOf(L, ra[v], v, Len(st)) /\ M.runs[v] = L.runs[v] /\ ra2[v] = ra[v]
      BY <1>1, <1>8, <2>1, <2>3
    <3> QED
      BY <1>7, <3>1 DEF OrderOf
  <2>4. OrderOf(M, ra2[s], s, Len(st))
    <3>1. OrderOf(L, ra[s], s, Len(st))
      BY <2>1
    <3>2. \A i \in DOMAIN r : Scoped(r[i]) =>
               /\ r[i].sim = SimOf[s]
               /\ \A j \in DOMAIN L.inbox : Scoped(L.inbox[j]) => r[i].origin < L.inbox[j].origin
               /\ \A k \in DOMAIN ra[s] : ra[s][k] < r[i].origin
               /\ Scoped(e) => e.origin < r[i].origin
      <4> TAKE i \in DOMAIN r
      <4>1. i + 1 \in DOMAIN L.runs[s] /\ r[i] = L.runs[s][i + 1] /\ 1 < i + 1
        BY <1>4, <1>5
      <4>2. e = L.runs[s][1] /\ 1 \in DOMAIN L.runs[s]
        BY <1>4, <1>5
      <4> QED
        BY <3>1, <4>1, <4>2 DEF OrderOf
    <3>3. \A i, j \in DOMAIN r :
            (i < j /\ Scoped(r[i]) /\ Scoped(r[j])) => r[i].origin < r[j].origin
      <4> SUFFICES ASSUME NEW i \in DOMAIN r, NEW j \in DOMAIN r, i < j,
                          Scoped(r[i]), Scoped(r[j])
                   PROVE  r[i].origin < r[j].origin
        OBVIOUS
      <4>1. /\ i + 1 \in DOMAIN L.runs[s] /\ j + 1 \in DOMAIN L.runs[s] /\ i + 1 < j + 1
            /\ r[i] = L.runs[s][i + 1] /\ r[j] = L.runs[s][j + 1]
        BY <1>4, <1>5
      <4> QED
        BY <3>1, <4>1 DEF OrderOf
    <3>4. CASE ~Scoped(e)
      <4>1. ra2 = ra
        BY <3>4
      <4> QED
        BY <1>7, <1>8, <3>1, <3>2, <3>3, <4>1 DEF OrderOf
    <3>5. CASE Scoped(e)
      <4>1. PICK h \in Seq(Nat) : h = ra[s]
        BY <1>1
      <4>2. PICK x \in Nat : x = e.origin /\ x <= Len(st)
        BY <1>10 DEF Sound
      <4>3. ra2[s] = Append(h, x)
        BY <1>1, <3>5, <4>1, <4>2
      <4>4. \A k \in DOMAIN ra2[s] : (k \in DOMAIN h /\ ra2[s][k] = h[k]) \/ ra2[s][k] = e.origin
        <5>1. /\ DOMAIN Append(h, x) = DOMAIN h \cup {Len(h) + 1} /\ Append(h, x)[Len(h) + 1] = x
              /\ \A i \in DOMAIN h : Append(h, x)[i] = h[i]
          BY <4>1, <4>2
        <5> QED
          BY <4>2, <4>3, <5>1
      <4>5. \A j \in DOMAIN L.inbox : Scoped(L.inbox[j]) => e.origin < L.inbox[j].origin
        BY <1>4, <1>5, <3>1, <3>5 DEF OrderOf
      <4>6. \A k \in DOMAIN ra2[s] : ra2[s][k] <= Len(st)
        BY <3>1, <4>1, <4>2, <4>4 DEF OrderOf
      <4>7. \A k \in DOMAIN ra2[s], i \in DOMAIN M.runs[s] :
              Scoped(M.runs[s][i]) => ra2[s][k] < M.runs[s][i].origin
        BY <1>8, <3>2, <3>5, <4>1, <4>4
      <4>8. \A k \in DOMAIN ra2[s], j \in DOMAIN M.inbox :
              Scoped(M.inbox[j]) => ra2[s][k] < M.inbox[j].origin
        BY <1>7, <3>1, <4>1, <4>4, <4>5 DEF OrderOf
      <4> QED
        BY <1>7, <1>8, <3>2, <3>3, <4>6, <4>7, <4>8 DEF OrderOf
    <3> QED
      BY <3>4, <3>5
  <2> QED
    BY <2>2, <2>3, <2>4 DEF OrderInstance
<1>14. ASSUME FilterSuffices PROVE OnceInstance(M, lg2, f, st, pk)
  <2>1. OnceInstance(L, lg, f, st, pk)
    BY <1>14 DEF InstanceInv
  <2>2. \A x : Taken(L, x, f, pk) => Taken(M, x, f, pk)
    BY <1>7 DEF Taken
  <2>3. \A v \in Sessions : \A i \in DOMAIN M.runs[v] : Taken(M, M.runs[v][i], f, pk)
    <3> TAKE v \in Sessions
    <3> TAKE i \in DOMAIN M.runs[v]
    <3>1. PICK j \in DOMAIN L.runs[v] : M.runs[v][i] = L.runs[v][j]
      BY <1>9
    <3>2. Taken(L, L.runs[v][j], f, pk)
      BY <2>1 DEF OnceInstance
    <3> QED
      BY <2>2, <3>1, <3>2
  <2>4. Taken(L, e, f, pk)
    BY <1>4, <1>5, <2>1 DEF OnceInstance
  <2>5. \A v \in Sessions \ {s} : lg2[v] = lg[v]
    BY <1>1
  <2>6. PICK l \in Seq(Event) : l = lg[s]
    BY <1>1
  <2>7. lg2[s] = l \/ lg2[s] = Append(l, e)
    BY <1>1, <2>6
  <2>8. \A i \in DOMAIN lg2[s] : (i \in DOMAIN l /\ lg2[s][i] = l[i]) \/ (i \notin DOMAIN l /\ lg2[s][i] = e)
    <3>1. CASE lg2[s] = Append(l, e)
      <4>1. /\ \A i \in DOMAIN l : lg2[s][i] = l[i] /\ lg2[s][Len(l) + 1] = e
            /\ DOMAIN lg2[s] = DOMAIN l \cup {Len(l) + 1}
        BY <1>3, <3>1, Appended
      <4>2. lg2[s][Len(l) + 1] = e
        BY <1>3, <3>1, Appended
      <4> QED
        BY <4>1, <4>2
    <3> QED
      BY <2>7, <3>1
  <2>9. \A i, j \in DOMAIN lg2[s] : (i \notin DOMAIN l /\ j \notin DOMAIN l) => i = j
    <3>1. CASE lg2[s] = Append(l, e)
      <4>1. DOMAIN lg2[s] = DOMAIN l \cup {Len(l) + 1}
        BY <1>3, <3>1, Appended
      <4> QED
        BY <4>1
    <3> QED
      BY <2>7, <3>1
  <2>10. \A v \in Sessions : \A i \in DOMAIN lg2[v] : Sound(lg2[v][i], st) /\ Taken(M, lg2[v][i], f, pk)
    <3> TAKE v \in Sessions
    <3>1. CASE v = s
      BY <1>10, <2>1, <2>2, <2>4, <2>6, <2>8, <3>1 DEF OnceInstance
    <3>2. CASE v # s
      BY <2>1, <2>2, <2>5, <3>2 DEF OnceInstance
    <3> QED
      BY <3>1, <3>2
  <2>11. ASSUME NEW v \in Sessions, v # s PROVE OnceFor(M, lg2[v], v)
    <3>1. OnceFor(L, lg[v], v) /\ lg2[v] = lg[v] /\ M.runs[v] = L.runs[v]
      BY <1>8, <2>1, <2>5, <2>11 DEF OnceInstance
    <3> QED
      BY <1>7, <3>1 DEF OnceFor, Relaying
  <2>12. OnceFor(M, lg2[s], s)
    <3>1. OnceFor(L, l, s)
      BY <2>1, <2>6 DEF OnceInstance
    <3>2. \A a, b : Clash(a, b) => Clash(b, a)
      BY DEF Clash
    <3>3. \A i \in DOMAIN l : ~Clash(l[i], e)
      BY <1>4, <1>5, <3>1 DEF OnceFor, Apart
    <3>4. Distinct(lg2[s])
      BY <2>8, <2>9, <3>1, <3>2, <3>3 DEF OnceFor, Distinct
    <3>5. \A i \in DOMAIN r : ~Clash(e, r[i])
      <4> TAKE i \in DOMAIN r
      <4>1. i + 1 \in DOMAIN L.runs[s] /\ r[i] = L.runs[s][i + 1] /\ 1 # i + 1
        BY <1>4, <1>5
      <4>2. e = L.runs[s][1] /\ 1 \in DOMAIN L.runs[s]
        BY <1>4, <1>5
      <4> QED
        BY <3>1, <4>1, <4>2 DEF OnceFor, Distinct
    <3>6. Distinct(M.runs[s])
      <4> SUFFICES ASSUME NEW i \in DOMAIN r, NEW j \in DOMAIN r, i # j
                   PROVE  ~Clash(r[i], r[j])
        BY <1>8 DEF Distinct
      <4>1. /\ i + 1 \in DOMAIN L.runs[s] /\ j + 1 \in DOMAIN L.runs[s] /\ i + 1 # j + 1
            /\ r[i] = L.runs[s][i + 1] /\ r[j] = L.runs[s][j + 1]
        BY <1>4, <1>5
      <4> QED
        BY <3>1, <4>1 DEF OnceFor, Distinct
    <3>7. Apart(lg2[s], M.runs[s])
      BY <1>8, <1>9, <2>8, <3>1, <3>5 DEF OnceFor, Apart
    <3>8. ASSUME NEW t \in Threads, Relaying(M, t), s \in M.pc[t].matched
          PROVE  /\ \A i \in DOMAIN lg2[s] : ~Clash(lg2[s][i], M.pc[t].event)
                 /\ \A i \in DOMAIN M.runs[s] : ~Clash(M.runs[s][i], M.pc[t].event)
                 /\ \A u \in Threads \ {t} : (Relaying(M, u) /\ s \in M.pc[u].matched) =>
                      ~Clash(M.pc[u].event, M.pc[t].event)
      <4>1. Relaying(L, t) /\ s \in L.pc[t].matched /\ M.pc = L.pc
        BY <1>7, <3>8 DEF Relaying
      <4>2. ~Clash(e, L.pc[t].event)
        BY <1>4, <1>5, <3>1, <4>1 DEF OnceFor
      <4> QED
        BY <1>9, <2>8, <3>1, <4>1, <4>2 DEF OnceFor, Relaying
    <3> QED
      BY <3>4, <3>6, <3>7, <3>8 DEF OnceFor
  <2>13. \A v \in Sessions : OnceFor(M, lg2[v], v)
    BY <2>11, <2>12
  <2> QED
    BY <1>7, <2>1, <2>2, <2>3, <2>10, <2>13 DEF OnceInstance, Relaying
<1>15. InstanceInv(M, lg2, ra2, f, st, pk)
  BY <1>7, <1>11, <1>12, <1>13, <1>14 DEF InstanceInv
<1> QED
  BY <1>15 DEF M

----------------------------------------------------------------------------
(* Sending.                                                                *)

LEMMA SpawnIds ==
  ASSUME NEW e, Spawns(e)
  PROVE  e.id \notin Nat /\ e.origin \notin Nat /\ e.id # 0
<1>1. \A s \in Sessions : s \notin Nat
  BY DispatcherAssumption
<1>2. e.id \in Sessions /\ e.origin \in Sessions
  BY DEF Spawns
<1>3. 0 \in Nat
  OBVIOUS
<1> QED
  BY <1>1, <1>2, <1>3

LEMMA Extended ==
  ASSUME NEW st \in Seq(SimIds), NEW m \in SimIds
  PROVE  /\ Append(st, m) \in Seq(SimIds) /\ Len(Append(st, m)) = Len(st) + 1 /\ Len(st) \in Nat
         /\ \A k \in 1 .. Len(st) : Append(st, m)[k] = st[k]
         /\ Append(st, m)[Len(st) + 1] = m
OBVIOUS

\* e has reached the instances in C.
Handed(D, C, e) ==
  [d \in Dispatchers |-> IF d \in C THEN [D[d] EXCEPT !.inbox = Append(@, e)] ELSE D[d]]

\* more is st with the simulation of a new message.
Longer(st, more) ==
  Len(more) = Len(st) + 1 /\ \A k \in 1 .. Len(st) : more[k] = st[k]

LEMMA LongerNumbers ==
  ASSUME NEW st \in Seq(SimIds), NEW more \in Seq(SimIds), Longer(st, more)
  PROVE  /\ Len(more) = Len(st) + 1 /\ Len(st) \in Nat
         /\ \A k \in 1 .. Len(st) : more[k] = st[k] /\ k # Len(more) /\ k < Len(more) /\ k \in Nat
<1>1. Len(st) \in Nat /\ Len(more) = Len(st) + 1 /\ \A k \in 1 .. Len(st) : more[k] = st[k]
  BY DEF Longer
<1>2. \A l \in Nat : \A k \in 1 .. l : k # l + 1 /\ k < l + 1 /\ k \in Nat
  OBVIOUS
<1> QED
  BY <1>1, <1>2

\* A new message, with the next number, reaches the instances in C and may be
\* poked.
LEMMA SendsMessage ==
  ASSUME NEW f \in [Nat -> Nat], NEW D, NEW lg, NEW ra, NEW st \in Seq(SimIds), NEW pk,
         Tagged(f, D, lg, ra, st, pk), NEW more \in Seq(SimIds), Longer(st, more),
         NEW e \in Event, Sound(e, more), e.origin = Len(more), NEW C, C = {} \/ e.id # 0,
         NEW left, left = pk \/ (left = pk \cup {e} /\ ~Scoped(e))
  PROVE  Tags(Handed(D, C, e), lg, ra, more, left)
<1>1. PICK n \in Nat : n = Len(more)
  OBVIOUS
<1>2. PICK E : E = Handed(D, C, e)
  OBVIOUS
<1>3. /\ n = Len(st) + 1 /\ Len(more) = Len(st) + 1 /\ Len(st) \in Nat
      /\ \A k \in 1 .. Len(st) : more[k] = st[k] /\ k # n /\ k < n /\ k \in Nat
  BY <1>1, LongerNumbers
<1>4. e.id \in Nat /\ Sound(e, more) /\ e.origin = n
  <2>1. Sound(e, more) /\ e.origin = n
    BY <1>1, <1>2
  <2>2. e.id \in 0 .. n
    BY <1>3, <2>1 DEF Sound
  <2>3. 0 .. n \subseteq Nat
    OBVIOUS
  <2> QED
    BY <2>1, <2>2, <2>3
<1>5. PICK g \in [Nat -> Nat] : g = [f EXCEPT ![n] = e.id]
  BY <1>4
<1>6. g[n] = e.id /\ \A k \in 1 .. Len(st) : g[k] = f[k]
  BY <1>3, <1>5
<1>7. \A x \in pk : x.origin # n /\ (Spawns(x) \/ (Sound(x, st) /\ ~Scoped(x) /\ x.id = f[x.origin]))
  <2> SUFFICES ASSUME NEW x \in pk
               PROVE  x.origin # n /\ (Spawns(x) \/ (Sound(x, st) /\ ~Scoped(x) /\ x.id = f[x.origin]))
    OBVIOUS
  <2>1. Spawns(x) \/ (Sound(x, st) /\ ~Scoped(x) /\ x.id = f[x.origin])
    BY DEF Tagged, PokesInv
  <2>2. CASE Spawns(x)
    BY <2>1, <2>2, SpawnIds
  <2>3. CASE Sound(x, st)
    BY <1>3, <2>1, <2>3 DEF Sound
  <2> QED
    BY <2>1, <2>2, <2>3
<1>8. \A k \in 1 .. Len(st) : Poked(k, left) => Poked(k, pk)
  BY <1>3, <1>4 DEF Poked
<1>9. Carries(f, g, st, more, pk, left)
  <2>1. 1 \in Nat
    OBVIOUS
  <2> QED
    BY <1>3, <1>6, <1>8, <2>1 DEF Carries
<1>10. \A x : Sound(x, st) => Sound(x, more) /\ x.origin \in 1 .. Len(st)
  <2>1. 1 \in Nat
    OBVIOUS
  <2>2. \A x : Sound(x, st) => Sound(x, more)
    BY <1>3, <2>1, SoundCarried
  <2> QED
    BY <2>2 DEF Sound
<1>11. PokesInv(g, more, left)
  <2>1. ASSUME NEW x \in left
        PROVE  Spawns(x) \/ (Sound(x, more) /\ ~Scoped(x) /\ x.id = g[x.origin])
    <3>1. CASE x \in pk
      BY <1>6, <1>7, <1>10, <3>1
    <3>2. CASE x = e /\ ~Scoped(e)
      BY <1>4, <1>6, <3>2
    <3> QED
      BY <2>1, <3>1, <3>2
  <2>2. ASSUME NEW x \in left, NEW y \in left, x.id = 0, y.id = 0, x.origin = y.origin PROVE x = y
    <3>1. CASE x \in pk /\ y \in pk
      BY <2>2, <3>1 DEF Tagged, PokesInv
    <3>2. CASE x \in pk /\ y = e
      BY <1>4, <1>7, <2>2, <3>2
    <3>3. CASE x = e /\ y \in pk
      BY <1>4, <1>7, <2>2, <3>3
    <3>4. (x \in pk \/ x = e) /\ (y \in pk \/ y = e)
      BY <2>2
    <3> QED
      BY <3>1, <3>2, <3>3, <3>4
  <2> QED
    BY <2>1, <2>2 DEF PokesInv
<1>12. ASSUME NEW d \in Dispatchers PROVE InstanceInv(E[d], lg[d], ra[d], g, more, left)
  <2>1. InstanceInv(D[d], lg[d], ra[d], f, st, pk)
    BY DEF Tagged
  <2>2. InstanceInv(D[d], lg[d], ra[d], g, more, left)
    BY <1>9, <2>1, Carried
  <2>3. CASE d \notin C
    BY <1>2, <2>2, <2>3 DEF Handed
  <2>4. CASE d \in C
    <3>1. e.id # 0 /\ E[d] = [D[d] EXCEPT !.inbox = Append(@, e)]
      BY <1>2, <2>4 DEF Handed
    <3>2. Heard(e, g, left)
      BY <1>4, <1>6, <1>7, <3>1 DEF Heard, Poked
    <3>3. SoundInstance(D[d], st) /\ \A s \in Sessions : OrderOf(D[d], ra[d][s], s, Len(st))
      BY <2>1 DEF InstanceInv, OrderInstance
    <3>4. \A s \in Sessions : \A k \in DOMAIN ra[d][s] : ra[d][s][k] < e.origin
      <4>1. \A s \in Sessions : \A k \in DOMAIN ra[d][s] : ra[d][s][k] \in Nat /\ ra[d][s][k] <= Len(st)
        BY <2>1, RunNumbers
      <4>2. \A a \in Nat : a <= Len(st) => a < n
        BY <1>3
      <4> QED
        BY <1>4, <4>1, <4>2
    <3>5. \A x : Sound(x, st) => x.origin < e.origin
      BY <1>3, <1>4 DEF Sound
    <3>6. /\ \A i \in DOMAIN D[d].inbox : D[d].inbox[i].origin < e.origin
          /\ \A s \in Sessions : \A i \in DOMAIN D[d].runs[s] : D[d].runs[s][i].origin < e.origin
      BY <3>3, <3>5 DEF SoundInstance
    <3> QED
      <4>1. InstanceInv([D[d] EXCEPT !.inbox = Append(@, e)], lg[d], ra[d], g, more, left)
        BY <1>4, <2>2, <3>1, <3>2, <3>4, <3>6, Receives
      <4> QED
        BY <3>1, <4>1
  <2> QED
    BY <2>3, <2>4
<1> QED
  BY <1>2, <1>5, <1>11, <1>12 DEF Tagged, Tags

----------------------------------------------------------------------------
(* Taking an event.  L is the instance without it, pk and left are the     *)
(* pokes before and after.                                                 *)

\* What is known of an event that an instance takes, other than a spawn event.
Arrives(L, ra, e, f, st, pk, left) ==
  /\ Sound(e, st)
  /\ e.id = 0 => Poked(e.origin, pk) /\ ~Poked(e.origin, left)
  /\ FilterSuffices => Heard(e, f, left)
  /\ Scoped(e) =>
       /\ \A i \in DOMAIN L.inbox : Scoped(L.inbox[i]) => e.origin < L.inbox[i].origin
       /\ \A s \in Sessions :
            /\ \A i \in DOMAIN L.runs[s] : Scoped(L.runs[s][i]) => L.runs[s][i].origin < e.origin
            /\ \A k \in DOMAIN ra[s] : ra[s][k] < e.origin

\* The filter lets through no second copy.
LEMMA Unclashed ==
  ASSUME NEW L, NEW lg, NEW ra, NEW f, NEW st, NEW pk, NEW left,
         InstanceInv(L, lg, ra, f, st, pk), NEW e, Arrives(L, ra, e, f, st, pk, left),
         ~IsOld(L, e), FilterSuffices, NEW x, x.origin = e.origin, x.epoch = L.epoch,
         NEW s \in Sessions
  PROVE  New(L, lg[s], x, s)
<1>1. OnceInstance(L, lg, f, st, pk)
  BY DEF InstanceInv
<1>2. \A y : Taken(L, y, f, pk) => ~Clash(y, x)
  BY DEF Taken, Heard, Clash, Arrives, IsOld
<1> QED
  BY <1>1, <1>2 DEF New, OnceInstance

\* The filter is never full.
LEMMA Remembers ==
  ASSUME FilterSuffices, NEW st \in Seq(SimIds), NEW b \in Scenarios, Len(st) <= b.msgs,
         NEW L, L.seen \subseteq (1 .. Len(st)) \cup Sessions,
         NEW k \in (0 .. Len(st)) \cup Sessions, NEW S \in Remember(L, k)
  PROVE  /\ L.seen \subseteq S /\ (k # 0 => k \in S)
         /\ S \subseteq (1 .. Len(st)) \cup Sessions
<1>1. PICK l \in Nat : l = Len(st)
  OBVIOUS
<1>2. PICK T : T = IF k = 0 THEN L.seen ELSE L.seen \cup {k}
  OBVIOUS
<1>3. T \subseteq (1 .. l) \cup Sessions
  <2>1. \A i \in 0 .. l : i # 0 => i \in 1 .. l
    OBVIOUS
  <2> QED
    BY <1>1, <1>2, <2>1
<1>4. IsFiniteSet(1 .. l) /\ Cardinality(1 .. l) = l /\ IsFiniteSet(Sessions)
  <2>1. 1 \in Int /\ l \in Int
    OBVIOUS
  <2>2. IsFiniteSet(1 .. l) /\ Cardinality(1 .. l) = IF 1 > l THEN 0 ELSE l - 1 + 1
    BY <2>1, FS_Interval
  <2> QED
    BY <2>2 DEF FilterSuffices
<1>5. PICK U : U = (1 .. l) \cup Sessions
  OBVIOUS
<1>6. IsFiniteSet(U) /\ Cardinality(U) <= l + Cardinality(Sessions)
  <2>1. /\ IsFiniteSet(U)
        /\ Cardinality(U) = Cardinality(1 .. l) + Cardinality(Sessions) - Cardinality((1 .. l) \cap Sessions)
    BY <1>4, <1>5, FS_Union
  <2>2. Cardinality(Sessions) \in Nat
    BY <1>4, FS_CardinalityType
  <2>3. IsFiniteSet((1 .. l) \cap Sessions)
    BY <1>4, FS_Subset
  <2>4. Cardinality((1 .. l) \cap Sessions) \in Nat
    BY <2>3, FS_CardinalityType
  <2> QED
    BY <1>4, <2>1, <2>2, <2>4
<1>7. Cardinality(T) <= MaxSeen
  <2>1. IsFiniteSet(T) /\ Cardinality(T) <= Cardinality(U)
    BY <1>3, <1>5, <1>6, FS_Subset
  <2>2. /\ Cardinality(T) \in Nat /\ Cardinality(U) \in Nat /\ Cardinality(Sessions) \in Nat
        /\ b.msgs \in Nat /\ MaxSeen \in Nat
    BY <1>4, <1>6, <2>1, FS_CardinalityType, DispatcherAssumption
  <2>3. b.msgs + Cardinality(Sessions) <= MaxSeen /\ l <= b.msgs
    BY <1>1 DEF FilterSuffices
  <2> QED
    BY <1>6, <2>1, <2>2, <2>3
<1>8. Remember(L, k) = IF Cardinality(T) > MaxSeen THEN {T \ {x} : x \in T} ELSE {T}
  BY <1>2 DEF Remember
<1>9. S = T
  <2>1. ~(Cardinality(T) > MaxSeen)
    <3>1. IsFiniteSet(T)
      BY <1>3, <1>5, <1>6, FS_Subset
    <3>2. Cardinality(T) \in Nat /\ MaxSeen \in Nat
      BY <3>1, FS_CardinalityType, DispatcherAssumption
    <3> QED
      BY <1>7, <3>2
  <2> QED
    BY <1>8, <2>1
<1> QED
  BY <1>1, <1>2, <1>3, <1>9

\* M is L with the id of the event it takes noted.
Accepted(L, M, e) ==
  /\ M \in Instance /\ M.runs = L.runs /\ M.pc = L.pc /\ M.epoch = L.epoch /\ M.inbox = L.inbox
  /\ M.active = L.active /\ M.sim = L.sim
  /\ FilterSuffices => (e.id # 0 => e.id \in M.seen)

LEMMA Accepts ==
  ASSUME NEW L, NEW lg, NEW ra, NEW f, NEW st \in Seq(SimIds), NEW pk,
         InstanceInv(L, lg, ra, f, st, pk), NEW b \in Scenarios, Len(st) <= b.msgs,
         NEW e \in Event, Spawns(e) \/ Sound(e, st), NEW S \in Remember(L, e.id),
         NEW M, M = [L EXCEPT !.seen = S]
  PROVE  Accepted(L, M, e) /\ InstanceInv(M, lg, ra, f, st, pk)
<1>1. L \in Instance /\ L.seen \in SUBSET Ids /\ e.id \in Ids
  BY InstanceTypes, EventTypes DEF InstanceInv
<1>2. S \in SUBSET Ids
  <2>1. S \subseteq L.seen \cup {e.id}
    BY DEF Remember
  <2> QED
    BY <1>1, <2>1
<1>3. /\ M \in Instance /\ M.runs = L.runs /\ M.pc = L.pc /\ M.epoch = L.epoch /\ M.inbox = L.inbox
      /\ M.active = L.active /\ M.sim = L.sim /\ M.seen = S
  BY <1>1, <1>2 DEF Instance
<1>4. e.id \in (0 .. Len(st)) \cup Sessions
  BY DEF Spawns, Sound
<1>5. ASSUME FilterSuffices
      PROVE  L.seen \subseteq S /\ (e.id # 0 => e.id \in S) /\ S \subseteq (1 .. Len(st)) \cup Sessions
  <2>1. L.seen \subseteq (1 .. Len(st)) \cup Sessions
    BY <1>5 DEF InstanceInv, OnceInstance
  <2> QED
    BY <1>4, <1>5, <2>1, Remembers
<1>6. \A s \in Sessions : M.sim[s] \in {NoSim, SimOf[s]}
  BY <1>3 DEF InstanceInv, SoundInstance
<1>7. InstanceInv(M, lg, ra, f, st, pk)
  BY <1>3, <1>5, <1>6, Forgets DEF Rest
<1> QED
  BY <1>3, <1>5, <1>7 DEF Accepted

LEMMA HandlesSpawn ==
  ASSUME NEW M, NEW lg, NEW ra, NEW f, NEW st \in Seq(SimIds), NEW pk,
         InstanceInv(M, lg, ra, f, st, pk), NEW t \in Threads, NEW e \in Event, Spawns(e)
  PROVE  InstanceInv(StartSpawn(M, t, e), lg, ra, f, st, pk)
<1>1. PICK s \in Sessions : e.targets = {s} /\ e.sim = SimOf[s]
  BY DEF Spawns
<1>2. (CHOOSE x \in e.targets : TRUE) = s
  BY <1>1
<1>3. PICK c \in Awaited : c = Await("register", e, {s}) /\ c.at = "register"
  <2>1. Await("register", e, {s}) \in Awaited /\ Await("register", e, {s}).at = "register"
    BY <1>1 DEF Await, Awaited
  <2> QED
    BY <2>1
<1>4. /\ M \in Instance /\ M.active \in SUBSET Sessions /\ M.sim \in [Sessions -> SimIds]
      /\ M.pc \in [Threads -> {Idle} \cup Awaited] /\ e.sim \in SimIds
  BY InstanceTypes, EventTypes DEF InstanceInv
<1>5. PICK A : A = [M EXCEPT !.active = @ \cup {s}]
  OBVIOUS
<1>6. /\ A \in Instance /\ A.runs = M.runs /\ A.pc = M.pc /\ A.epoch = M.epoch /\ A.inbox = M.inbox
      /\ A.sim = M.sim /\ A.seen = M.seen
  BY <1>4, <1>5 DEF Instance
<1>7. PICK sim \in [Sessions -> SimIds] : sim = [M.sim EXCEPT ![s] = e.sim]
  BY <1>4
<1>8. PICK pc \in [Threads -> {Idle} \cup Awaited] : pc = [M.pc EXCEPT ![t] = c]
  BY <1>4
<1>9. PICK B : B = [A EXCEPT !.sim = sim, !.pc = pc]
  OBVIOUS
<1>10. /\ B \in Instance /\ B.runs = M.runs /\ B.pc = pc /\ B.epoch = M.epoch /\ B.inbox = M.inbox
       /\ B.sim = sim /\ B.seen = M.seen
  BY <1>6, <1>9 DEF Instance
<1>11. StartSpawn(M, t, e) = A \/ StartSpawn(M, t, e) = B
  <2>1. [A EXCEPT !.sim[s] = e.sim, !.pc[t] = c] = B
    BY <1>6, <1>7, <1>8, <1>9 DEF Instance
  <2> QED
    BY <1>2, <1>3, <1>5, <2>1 DEF StartSpawn
<1>12. \A x \in Sessions : M.sim[x] \in {NoSim, SimOf[x]}
  BY DEF InstanceInv, SoundInstance
<1>13. \A x \in Sessions : sim[x] \in {NoSim, SimOf[x]}
  BY <1>1, <1>4, <1>7, <1>12
<1>14. \A u \in Threads : B.pc[u] = M.pc[u] \/ ~Relaying(B, u)
  BY <1>3, <1>4, <1>8, <1>10 DEF Relaying
<1>15. FilterSuffices => M.seen \subseteq (1 .. Len(st)) \cup Sessions
  BY DEF InstanceInv, OnceInstance
<1>16. InstanceInv(A, lg, ra, f, st, pk)
  BY <1>6, <1>12, <1>15, Forgets DEF Rest
<1>17. InstanceInv(B, lg, ra, f, st, pk)
  BY <1>10, <1>13, <1>14, <1>15, Forgets DEF Rest
<1> QED
  BY <1>11, <1>16, <1>17

LEMMA HandlesEnd ==
  ASSUME NEW M, NEW lg, NEW ra, NEW f, NEW st \in Seq(SimIds), NEW pk,
         InstanceInv(M, lg, ra, f, st, pk), NEW m \in SimIds
  PROVE  InstanceInv(EndSimulation(M, m), lg, ra, f, st, pk)
<1> DEFINE S == {s \in Sessions : M.sim[s] = m}
           last == S # {} /\ m \in M.subs
<1>1. /\ M \in Instance /\ M.active \in SUBSET Sessions /\ M.sim \in [Sessions -> SimIds]
      /\ M.subs \in SUBSET SimIds
      /\ M.todo \in SUBSET ({"unregister", "unsubscribe"} \X (Sessions \cup SimIds))
  BY DEF InstanceInv, Instance
<1>2. PICK sim \in [Sessions -> SimIds] : sim = [s \in Sessions |-> IF s \in S THEN NoSim ELSE M.sim[s]]
  BY <1>1 DEF SimIds
<1>3. PICK subs \in SUBSET SimIds : subs = IF last THEN M.subs \ {m} ELSE M.subs
  BY <1>1
<1>4. PICK todo \in SUBSET ({"unregister", "unsubscribe"} \X (Sessions \cup SimIds)) :
        todo = M.todo \cup {<<"unregister", s>> : s \in S}
                      \cup (IF last THEN {<<"unsubscribe", m>>} ELSE {})
  <2>1. {<<"unregister", s>> : s \in S} \subseteq {"unregister", "unsubscribe"} \X (Sessions \cup SimIds)
    OBVIOUS
  <2>2. <<"unsubscribe", m>> \in {"unregister", "unsubscribe"} \X (Sessions \cup SimIds)
    OBVIOUS
  <2> HIDE DEF S, last
  <2> QED
    BY <1>1, <2>1, <2>2
<1>5. PICK B : B = [M EXCEPT !.active = M.active \ S, !.sim = sim, !.subs = subs, !.todo = todo]
  OBVIOUS
<1>6. EndSimulation(M, m) = B
  BY <1>1, <1>2, <1>3, <1>4, <1>5 DEF EndSimulation, Instance
<1>7. M.active \ S \in SUBSET Sessions
  BY <1>1
<1> HIDE DEF S
<1>8. /\ B \in Instance /\ B.runs = M.runs /\ B.pc = M.pc /\ B.epoch = M.epoch /\ B.inbox = M.inbox
      /\ B.sim = sim /\ B.seen = M.seen
  BY <1>1, <1>5, <1>7 DEF Instance
<1>9. \A x \in Sessions : sim[x] \in {NoSim, SimOf[x]}
  BY <1>2 DEF InstanceInv, SoundInstance
<1>10. FilterSuffices => M.seen \subseteq (1 .. Len(st)) \cup Sessions
  BY DEF InstanceInv, OnceInstance
<1>11. InstanceInv(B, lg, ra, f, st, pk)
  BY <1>8, <1>9, <1>10, Forgets DEF Rest
<1> QED
  BY <1>6, <1>11

LEMMA HandlesReset ==
  ASSUME NEW M, NEW lg, NEW ra, NEW f, NEW st \in Seq(SimIds), NEW pk,
         InstanceInv(M, lg, ra, f, st, pk), NEW t \in Threads, NEW e \in Event
  PROVE  InstanceInv(Reset(M, t, e), lg, ra, f, st, pk)
<1>1. /\ M \in Instance /\ M.pc \in [Threads -> {Idle} \cup Awaited] /\ M.epoch \in Nat
  BY InstanceTypes DEF InstanceInv
<1>2. PICK c \in Awaited : c = Await("clear", e, {}) /\ c.at = "clear"
  <2>1. Await("clear", e, {}) \in Awaited /\ Await("clear", e, {}).at = "clear"
    BY DEF Await, Awaited
  <2> QED
    BY <2>1
<1>3. PICK pc \in [Threads -> {Idle} \cup Awaited] : pc = [M.pc EXCEPT ![t] = c]
  BY <1>1
<1>4. PICK runs \in [Sessions -> Seq(Event)] : runs = [s \in Sessions |-> <<>>]
  <2>1. <<>> \in Seq(Event)
    OBVIOUS
  <2> QED
    BY <2>1
<1>5. PICK k \in Nat : k = M.epoch + 1
  BY <1>1
<1>6. PICK B : B = [M EXCEPT !.active = {}, !.seen = {}, !.runs = runs, !.pc = pc, !.epoch = k]
  OBVIOUS
<1>7. Reset(M, t, e) = B
  BY <1>1, <1>2, <1>3, <1>4, <1>5, <1>6 DEF Reset, Instance
<1>8. /\ B \in Instance /\ B.runs = runs /\ B.pc = pc /\ B.epoch = M.epoch + 1 /\ B.inbox = M.inbox
      /\ B.sim = M.sim /\ B.seen = {}
  BY <1>1, <1>5, <1>6 DEF Instance
<1>9. \A u \in Threads : B.pc[u] = M.pc[u] \/ ~Relaying(B, u)
  BY <1>1, <1>2, <1>3, <1>8 DEF Relaying
<1>10. \A s \in Sessions : B.runs[s] = <<>>
  BY <1>4, <1>8
<1>11. \A s \in Sessions : B.sim[s] \in {NoSim, SimOf[s]}
  BY <1>8 DEF InstanceInv, SoundInstance
<1>12. InstanceInv(B, lg, ra, f, st, pk)
  BY <1>8, <1>9, <1>10, <1>11, Renewed DEF Rest
<1> QED
  BY <1>7, <1>12

\* The event as the instance takes it.
Stamped(L, e) == [e EXCEPT !.epoch = L.epoch]

LEMMA StampedEvent ==
  ASSUME NEW L, L.epoch \in Nat, NEW e \in Event, NEW x, x = Stamped(L, e)
  PROVE  /\ x \in Event /\ x.type = e.type /\ x.id = e.id /\ x.origin = e.origin /\ x.sim = e.sim
         /\ x.targets = e.targets /\ x.relayed = e.relayed /\ x.epoch = L.epoch
BY DEF Event, Stamped

\* An event for sessions that all match is triggered in them.
LEMMA HandlesMatch ==
  ASSUME NEW M, NEW lg, NEW ra, NEW f, NEW st \in Seq(SimIds), NEW pk, NEW left,
         InstanceInv(M, lg, ra, f, st, pk), NEW x \in Event, Arrives(M, ra, x, f, st, pk, left),
         Carries(f, f, st, st, pk, left), x.epoch = M.epoch, NEW S \in SUBSET Sessions,
         Scoped(x) => \A s \in S : M.sim[s] = x.sim,
         FilterSuffices => (x.id # 0 => x.id \in M.seen) /\ \A s \in Sessions : New(M, lg[s], x, s)
  PROVE  InstanceInv(Trigger(M, S, x), lg, ra, f, st, left)
<1>1. InstanceInv(M, lg, ra, f, st, left)
  BY Carried
<1>2. Sound(x, st)
  BY DEF Arrives
<1>3. FilterSuffices => Taken(M, x, f, left) /\ \A s \in S : New(M, lg[s], x, s)
  <2>1. x.epoch \in Nat
    BY EventTypes
  <2> QED
    BY <2>1 DEF Arrives, Taken
<1>4. ASSUME Scoped(x), NEW s \in S PROVE NextFor(M, ra[s], x, s)
  <2>1. M.sim[s] \in {NoSim, SimOf[s]} /\ M.sim[s] = x.sim /\ x.sim # NoSim
    BY <1>4 DEF InstanceInv, SoundInstance, Scoped
  <2> QED
    BY <1>4, <2>1 DEF Arrives, NextFor
<1> QED
  BY <1>1, <1>2, <1>3, <1>4, Triggers

LEMMA TakesEvent ==
  ASSUME NEW L, NEW lg, NEW ra, NEW f, NEW st \in Seq(SimIds), NEW pk, NEW left,
         InstanceInv(L, lg, ra, f, st, pk), NEW b \in Scenarios, Len(st) <= b.msgs,
         Carries(f, f, st, st, pk, left), NEW t \in Threads, NEW e \in Event,
         Spawns(e) \/ Arrives(L, ra, e, f, st, pk, left), ~IsOld(L, e), ~Relays(L, e),
         NEW S \in Remember(L, e.id)
  PROVE  InstanceInv(Handle([L EXCEPT !.seen = S], t, Stamped(L, e)), lg, ra, f, st, left)
<1>1. PICK M : M = [L EXCEPT !.seen = S]
  OBVIOUS
<1>2. PICK x : x = Stamped(L, e)
  OBVIOUS
<1>3. L \in Instance /\ L.epoch \in Nat
  BY InstanceTypes DEF InstanceInv
<1>4. Spawns(e) \/ Sound(e, st)
  BY DEF Arrives
<1>5. /\ M \in Instance /\ M.runs = L.runs /\ M.pc = L.pc /\ M.epoch = L.epoch /\ M.inbox = L.inbox
      /\ M.active = L.active /\ M.sim = L.sim
      /\ InstanceInv(M, lg, ra, f, st, pk)
      /\ FilterSuffices => (e.id # 0 => e.id \in M.seen)
  <2>1. Accepted(L, M, e) /\ InstanceInv(M, lg, ra, f, st, pk)
    BY <1>1, <1>4, Accepts
  <2> QED
    BY <2>1 DEF Accepted
<1>6. /\ x \in Event /\ x.type = e.type /\ x.id = e.id /\ x.origin = e.origin /\ x.sim = e.sim
      /\ x.targets = e.targets /\ x.relayed = e.relayed /\ x.epoch = L.epoch
  BY <1>2, <1>3, StampedEvent
<1>7. InstanceInv(M, lg, ra, f, st, left)
  BY <1>5, Carried
<1>8. CASE Spawns(e)
  <2>1. Spawns(x)
    BY <1>6, <1>8 DEF Spawns
  <2>2. Handle(M, t, x) = StartSpawn(M, t, x)
    BY <2>1 DEF Spawns, Handle
  <2> QED
    BY <1>1, <1>2, <1>6, <1>7, <2>1, <2>2, HandlesSpawn
<1>9. CASE Arrives(L, ra, e, f, st, pk, left)
  <2>1. Arrives(M, ra, x, f, st, pk, left)
    BY <1>5, <1>6, <1>9 DEF Arrives, Sound, Heard, Scoped
  <2>2. ASSUME FilterSuffices, NEW s \in Sessions PROVE New(M, lg[s], x, s)
    <3>1. New(L, lg[s], x, s)
      BY <1>6, <1>9, <2>2, Unclashed
    <3> QED
      BY <1>5, <3>1 DEF New, Relaying
  <2>3. ASSUME NEW T \in SUBSET Sessions, Scoped(x) => \A s \in T : M.sim[s] = x.sim
        PROVE  InstanceInv(Trigger(M, T, x), lg, ra, f, st, left)
    BY <1>5, <1>6, <2>1, <2>2, <2>3, HandlesMatch
  <2>4. x.type \in {"broadcast", "end_simulation", "a2ui_action", "environment_reset"}
    BY <1>6, <2>1 DEF Arrives, Sound, Event, EventKinds
  <2>5. M.active \in SUBSET Sessions
    BY <1>5, InstanceTypes
  <2>6. CASE x.type = "broadcast"
    <3>1. Match(M, x) = Match(L, e)
      BY <1>5, <1>6 DEF Match
    <3>2. Handle(M, t, x) = Trigger(M, Match(M, x), x)
      BY <1>6, <2>6, <3>1 DEF Handle, StartBroadcast, Relays
    <3>3. Match(M, x) \in SUBSET Sessions /\ (Scoped(x) => \A s \in Match(M, x) : M.sim[s] = x.sim)
      BY <2>5 DEF Match, Scoped
    <3> QED
      BY <1>1, <1>2, <2>3, <3>2, <3>3
  <2>7. CASE x.type = "a2ui_action"
    <3>1. Handle(M, t, x) = Trigger(M, M.active \cap x.targets, x)
      BY <2>7 DEF Handle
    <3>2. M.active \cap x.targets \in SUBSET Sessions
      BY <2>5
    <3>3. Scoped(x) => x.targets = {}
      BY <2>1 DEF Scoped, Arrives, Sound
    <3> QED
      BY <1>1, <1>2, <2>3, <3>1, <3>2, <3>3
  <2>8. CASE x.type = "end_simulation"
    <3>1. Handle(M, t, x) = EndSimulation(M, x.sim)
      BY <2>8 DEF Handle
    <3>2. x.sim \in SimIds
      BY <1>6, EventTypes
    <3> QED
      BY <1>1, <1>2, <1>7, <3>1, <3>2, HandlesEnd
  <2>9. CASE x.type = "environment_reset"
    <3>1. Handle(M, t, x) = Reset(M, t, x)
      BY <2>9 DEF Handle
    <3> QED
      BY <1>1, <1>2, <1>6, <1>7, <3>1, HandlesReset
  <2> QED
    BY <2>4, <2>6, <2>7, <2>8, <2>9
<1> QED
  BY <1>8, <1>9

LEMMA TakesForRelay ==
  ASSUME sent \in Seq(SimIds), NEW L, NEW lg, NEW ra, NEW f, NEW pk, NEW left,
         InstanceInv(L, lg, ra, f, sent, pk), NEW b \in Scenarios, Len(sent) <= b.msgs,
         NEW t \in Threads, L.pc[t] = Idle, NEW e \in Event, Arrives(L, ra, e, f, sent, pk, left),
         ~IsOld(L, e), Relays(L, e), NEW S \in Remember(L, e.id),
         NEW g, NEW more \in Seq(SimIds), Longer(sent, more), Carries(f, g, sent, more, pk, left),
         g[e.origin] = Len(more), ~Poked(e.origin, left)
  PROVE  InstanceInv(Handle([L EXCEPT !.seen = S], t, Stamped(L, e)), lg, ra, g, more, left)
<1>1. PICK M : M = [L EXCEPT !.seen = S]
  OBVIOUS
<1>2. PICK x : x = Stamped(L, e)
  OBVIOUS
<1>3. L \in Instance /\ L.epoch \in Nat
  BY InstanceTypes DEF InstanceInv
<1>4. Sound(e, sent)
  BY DEF Arrives
<1>5. /\ M \in Instance /\ M.runs = L.runs /\ M.pc = L.pc /\ M.epoch = L.epoch /\ M.inbox = L.inbox
      /\ M.active = L.active /\ M.sim = L.sim
      /\ InstanceInv(M, lg, ra, f, sent, pk)
  <2>1. Accepted(L, M, e) /\ InstanceInv(M, lg, ra, f, sent, pk)
    BY <1>1, <1>4, Accepts
  <2> QED
    BY <2>1 DEF Accepted
<1>6. /\ x \in Event /\ x.type = e.type /\ x.id = e.id /\ x.origin = e.origin /\ x.sim = e.sim
      /\ x.targets = e.targets /\ x.relayed = e.relayed /\ x.epoch = L.epoch
  BY <1>2, <1>3, StampedEvent
<1>7. InstanceInv(M, lg, ra, g, more, left)
  BY <1>5, Carried
<1>8. PICK T \in SUBSET Sessions : T = Match(M, x)
  <2>1. M.active \in SUBSET Sessions
    BY <1>5, InstanceTypes
  <2>2. Match(M, x) \in SUBSET Sessions
    BY <2>1 DEF Match
  <2> QED
    BY <2>2
<1>9. x.type = "broadcast" /\ x.targets \ T # {} /\ ~x.relayed
  <2>1. Match(M, x) = Match(L, e)
    BY <1>5, <1>6 DEF Match
  <2> QED
    BY <1>6, <1>8, <2>1 DEF Relays
<1>10. NewId \in Nat /\ NewId = Len(more) /\ NewId # 0 /\ Len(more) = Len(sent) + 1 /\ Len(sent) \in Nat
  BY LongerNumbers DEF NewId
<1>11. PICK y : y = RelayOf(x, T)
  OBVIOUS
<1>12. /\ y \in Event /\ y.type = x.type /\ y.id = NewId /\ y.origin = x.origin /\ y.sim = x.sim
       /\ y.targets = x.targets \ T /\ y.relayed = TRUE /\ y.epoch = x.epoch
  <2>1. NewId \in Ids /\ x.targets \ T \in SUBSET (Sessions \cup {AgentType})
    BY <1>6, <1>10, EventTypes DEF Ids
  <2> QED
    BY <1>6, <1>11, <2>1 DEF RelayOf, Event
<1>13. Handle(M, t, x) = [M EXCEPT !.pc[t] = Await("relay", y, T), !.seen = @ \cup {y.id}]
  BY <1>8, <1>9, <1>11, <1>12 DEF Handle, StartBroadcast
<1>14. ~Scoped(y) /\ Sound(y, more)
  <2>1. ~Scoped(x)
    BY <1>4, <1>6, <1>9 DEF Sound, Scoped
  <2>2. y.origin \in 1 .. Len(more) /\ y.id \in 0 .. Len(more)
    BY <1>4, <1>6, <1>10, <1>12 DEF Sound
  <2> QED
    BY <1>9, <1>12, <2>1, <2>2 DEF Sound, Scoped
<1>15. Heard(y, g, left)
  BY <1>6, <1>10, <1>12 DEF Heard
<1>16. ASSUME FilterSuffices, NEW s \in T PROVE New(M, lg[s], y, s)
  <2>1. New(L, lg[s], y, s)
    BY <1>6, <1>12, <1>16, Unclashed
  <2> QED
    BY <1>5, <2>1 DEF New, Relaying
<1>17. ~Relaying(M, t)
  BY <1>5 DEF Relaying, Idle
<1>18. InstanceInv([M EXCEPT !.pc[t] = Await("relay", y, T), !.seen = @ \cup {y.id}], lg, ra, g, more, left)
  <2>1. y \in Event /\ y.id # 0 /\ y.epoch = M.epoch
    BY <1>5, <1>6, <1>10, <1>12
  <2>2. FilterSuffices => \A s \in T : New(M, lg[s], y, s)
    BY <1>16
  <2> QED
    BY <1>7, <1>14, <1>15, <1>17, <2>1, <2>2, WaitsForRelay
<1> QED
  BY <1>1, <1>2, <1>13, <1>18

LEMMA FewerPokes ==
  ASSUME NEW f, NEW st \in Seq(SimIds), NEW pk, NEW left, left \subseteq pk
  PROVE  Carries(f, f, st, st, pk, left)
<1>1. 0 \in Nat /\ Len(st) = Len(st) + 0
  OBVIOUS
<1> QED
  BY <1>1 DEF Carries, Poked

LEMMA Takes ==
  ASSUME NEW f \in [Nat -> Nat], Tagged(f, disp, log, raced, sent, http), TypeOK,
         Len(sent) <= bound.msgs, NEW d \in Dispatchers, NEW t \in Threads, NEW e \in Event, NEW L,
         InstanceInv(L, log[d], raced[d], f, sent, http), L.pc[t] = Idle, NEW left, left \subseteq http,
         Spawns(e) \/ Arrives(L, raced[d], e, f, sent, http, left),
         e.id = 0 => (e \in http /\ left = http \ {e}), Process(d, t, e, L)
  PROVE  /\ sent' \in Seq(SimIds) /\ Len(sent') <= bound.msgs
         /\ Tags(disp', log', raced', sent', left)
<1>1. /\ log' = log /\ raced' = raced /\ sent \in Seq(SimIds) /\ bound \in Scenarios
      /\ disp \in [Dispatchers -> Instance]
  BY DEF Process, history, TypeOK
<1>2. /\ PokesInv(f, sent, http)
      /\ \A u \in Dispatchers : InstanceInv(disp[u], log[u], raced[u], f, sent, http)
  BY DEF Tagged
<1>3. Carries(f, f, sent, sent, http, left)
  BY <1>1, FewerPokes
<1>4. PokesInv(f, sent, left)
  BY <1>2 DEF PokesInv
<1>5. \A u \in Dispatchers : InstanceInv(disp[u], log[u], raced[u], f, sent, left)
  BY <1>1, <1>2, <1>3, Carried
<1>6. CASE IsOld(L, e)
  <2>1. disp' = [disp EXCEPT ![d] = L] /\ sent' = sent
    BY <1>6 DEF Process
  <2>2. InstanceInv(L, log[d], raced[d], f, sent, left)
    BY <1>1, <1>3, Carried
  <2>3. \A u \in Dispatchers : InstanceInv(disp'[u], log[u], raced[u], f, sent, left)
    BY <1>1, <1>5, <2>1, <2>2
  <2> QED
    BY <1>1, <1>4, <2>1, <2>3 DEF Tagged, Tags
<1>7. CASE ~IsOld(L, e)
  <2>1. PICK S \in Remember(L, e.id) :
          disp' = [disp EXCEPT ![d] = Handle([L EXCEPT !.seen = S], t, Stamped(L, e))]
    BY <1>7 DEF Process, Stamped
  <2>2. PICK M : M = Handle([L EXCEPT !.seen = S], t, Stamped(L, e))
    OBVIOUS
  <2>3. disp'[d] = M /\ \A u \in Dispatchers \ {d} : disp'[u] = disp[u]
    BY <1>1, <2>1, <2>2
  <2>4. CASE ~Relays(L, e)
    <3>1. sent' = sent
      BY <1>7, <2>4 DEF Process
    <3>2. InstanceInv(M, log[d], raced[d], f, sent, left)
      BY <1>1, <1>3, <1>7, <2>2, <2>4, TakesEvent
    <3>3. \A u \in Dispatchers : InstanceInv(disp'[u], log[u], raced[u], f, sent, left)
      BY <1>5, <2>3, <3>2
    <3> QED
      BY <1>1, <1>4, <3>1, <3>3 DEF Tagged, Tags
  <2>5. CASE Relays(L, e)
    <3>1. Len(sent) < bound.msgs /\ sent' = Append(sent, NoSim)
      BY <1>7, <2>5 DEF Process
    <3>2. PICK more \in Seq(SimIds) : more = sent' /\ Longer(sent, more)
      <4>1. NoSim \in SimIds
        BY DEF SimIds
      <4>2. Append(sent, NoSim) \in Seq(SimIds) /\ Longer(sent, Append(sent, NoSim))
        BY <1>1, <4>1, Extended DEF Longer
      <4> QED
        BY <3>1, <4>2
    <3>3. Arrives(L, raced[d], e, f, sent, http, left)
      BY <2>5 DEF Relays, Spawns
    <3>4. Sound(e, sent) /\ e.id = 0 /\ e \in http /\ left = http \ {e}
      <4>1. Sound(e, sent) /\ e.type = "broadcast" /\ ~e.relayed /\ e.targets # {}
        BY <2>5, <3>3 DEF Arrives, Relays
      <4> QED
        BY <4>1 DEF Sound
    <3>5. Poked(e.origin, http) /\ ~Poked(e.origin, left)
      BY <3>3, <3>4 DEF Arrives
    <3>6. /\ Len(more) = Len(sent) + 1 /\ Len(sent) \in Nat /\ Len(more) \in Nat
          /\ \A k \in 1 .. Len(sent) : more[k] = sent[k] /\ k \in Nat
      <4>1. Longer(sent, more)
        BY <3>2
      <4>2. /\ Len(more) = Len(sent) + 1 /\ Len(sent) \in Nat
            /\ \A k \in 1 .. Len(sent) : more[k] = sent[k] /\ k \in Nat
        BY <1>1, <4>1, LongerNumbers
      <4> QED
        BY <4>2
    <3>7. e.origin \in 1 .. Len(sent) /\ e.origin \in Nat
      BY <3>4, <3>6 DEF Sound
    <3>8. PICK g \in [Nat -> Nat] : g = [f EXCEPT ![e.origin] = Len(more)]
      BY <3>6
    <3>9. g[e.origin] = Len(more) /\ \A k \in 1 .. Len(sent) : k # e.origin => g[k] = f[k]
      BY <3>6, <3>7, <3>8
    <3>10. Carries(f, g, sent, more, http, left)
      <4>1. 1 \in Nat
        OBVIOUS
      <4>2. \A k \in 1 .. Len(sent) : Poked(k, left) => Poked(k, http)
        BY DEF Poked
      <4> QED
        BY <3>5, <3>6, <3>9, <4>1, <4>2 DEF Carries
    <3>11. InstanceInv(M, log[d], raced[d], g, more, left)
      BY <1>1, <1>7, <2>2, <2>5, <3>2, <3>3, <3>5, <3>9, <3>10, TakesForRelay
    <3>12. \A u \in Dispatchers : InstanceInv(disp'[u], log[u], raced[u], g, more, left)
      BY <1>1, <1>2, <2>3, <3>10, <3>11, Carried
    <3>13. PokesInv(g, more, left)
      <4>1. ASSUME NEW y \in left PROVE Spawns(y) \/ (Sound(y, more) /\ ~Scoped(y) /\ y.id = g[y.origin])
        <5>1. Spawns(y) \/ (Sound(y, sent) /\ ~Scoped(y) /\ y.id = f[y.origin])
          BY <1>2 DEF PokesInv
        <5>2. CASE Spawns(y)
          BY <5>2
        <5>3. CASE Sound(y, sent) /\ ~Scoped(y) /\ y.id = f[y.origin]
          <6>1. e.id = f[e.origin]
            BY <1>2, <3>4 DEF PokesInv, Spawns, Sound
          <6>2. y.origin # e.origin
            BY <3>4, <3>5, <5>3, <6>1 DEF Poked
          <6>3. y.id = g[y.origin]
            BY <3>9, <5>3, <6>2 DEF Sound
          <6>4. Sound(y, more)
            <7>1. 1 \in Nat
              OBVIOUS
            <7> QED
              BY <1>1, <3>6, <5>3, <7>1, SoundCarried
          <6> QED
            BY <5>3, <6>3, <6>4
        <5> QED
          BY <5>1, <5>2, <5>3
      <4> QED
        BY <1>4, <4>1 DEF PokesInv
    <3>14. Len(more) <= bound.msgs
      <4>1. bound.msgs \in Nat
        BY <1>1, DispatcherAssumption
      <4>2. \A a, c \in Nat : a < c => a + 1 <= c
        OBVIOUS
      <4> QED
        BY <3>1, <3>6, <4>1, <4>2
    <3> QED
      BY <1>1, <3>2, <3>12, <3>13, <3>14 DEF Tagged, Tags
  <2> QED
    BY <2>4, <2>5
<1> QED
  BY <1>6, <1>7

----------------------------------------------------------------------------
(* Every step keeps the invariant.                                         *)

LEMMA SendsOne ==
  ASSUME Inv, bound' = bound, NEW m \in SimIds, Len(sent) < bound.msgs, sent' = Append(sent, m),
         NEW e \in Event, e.type # "spawn_agent", e.origin = NewId, e.id \in {0, NewId},
         e.sim # NoSim => e.sim = m /\ e.targets = {},
         (e.type = "broadcast" /\ e.targets # {} /\ ~e.relayed) => e.id = 0,
         NEW C, C = {} \/ e.id # 0, disp' = Handed(disp, C, e),
         http' = http \/ (http' = http \cup {e} /\ ~Scoped(e)), queue' \subseteq queue,
         UNCHANGED <<reg, log, raced, cut>>, phase' \in [Sims -> {"spawn", "race", "ended"}],
         faults' \in Nat
  PROVE  Inv'
<1>1. TypeOK /\ sent \in Seq(SimIds) /\ bound.msgs \in Nat
  BY DispatcherAssumption DEF Inv, TypeOK
<1>2. PICK f \in [Nat -> Nat] : Tagged(f, disp, log, raced, sent, http)
  BY DEF Inv, Tags
<1>3. PICK more \in Seq(SimIds) : more = sent' /\ Longer(sent, more) /\ more[Len(sent) + 1] = m
  <2>1. Append(sent, m) \in Seq(SimIds) /\ Longer(sent, Append(sent, m)) /\ Append(sent, m)[Len(sent) + 1] = m
    BY <1>1, Extended DEF Longer
  <2> QED
    BY <2>1
<1>4. Len(sent) \in Nat /\ Len(more) = Len(sent) + 1 /\ NewId = Len(more)
  <2>1. Longer(sent, more)
    BY <1>3
  <2> QED
    BY <1>1, <2>1, LongerNumbers DEF NewId
<1>5. Sound(e, more)
  <2>1. \A n \in Nat : n + 1 \in 1 .. (n + 1) /\ n + 1 \in 0 .. (n + 1) /\ 0 \in 0 .. (n + 1)
    OBVIOUS
  <2> QED
    BY <1>3, <1>4, <2>1 DEF Sound
<1>6. Tags(disp', log', raced', sent', http')
  <2>1. PICK left : left = http' /\ (left = http \/ (left = http \cup {e} /\ ~Scoped(e)))
    OBVIOUS
  <2>2. Longer(sent, more) /\ e.origin = Len(more)
    BY <1>3, <1>4
  <2>3. Tags(Handed(disp, C, e), log, raced, more, left)
    BY <1>1, <1>2, <1>5, <2>1, <2>2, SendsMessage
  <2> QED
    BY <1>3, <2>1, <2>3
<1>7. disp' \in [Dispatchers -> Instance]
  <2>1. \A d \in Dispatchers : disp'[d] \in Instance
    BY <1>6 DEF Tags, Tagged, InstanceInv
  <2> QED
    BY <2>1 DEF Handed
<1>8. Len(sent') <= bound'.msgs
  <2>1. \A a, c \in Nat : a < c => a + 1 <= c
    OBVIOUS
  <2> QED
    BY <1>1, <1>3, <1>4, <2>1
<1>9. TypeOK'
  BY <1>1, <1>3, <1>7 DEF TypeOK
<1>10. \A x \in queue' : Spawns(x)
  BY DEF Inv
<1> QED
  BY <1>6, <1>8, <1>9, <1>10 DEF Inv, Spawns

LEMMA MsgEvent ==
  ASSUME NEW type \in EventKinds, NEW id \in {0, NewId}, NEW m \in SimIds, sent \in Seq(SimIds),
         NEW T \in SUBSET (Sessions \cup {AgentType}), NEW e, e = Msg(type, id, m, T)
  PROVE  /\ e \in Event /\ e.type = type /\ e.id = id /\ e.origin = NewId /\ e.sim = m
         /\ e.targets = T /\ ~e.relayed
<1>1. NewId \in Nat /\ 0 \in Nat
  BY DEF NewId
<1>2. id \in Ids /\ NewId \in Ids
  BY <1>1 DEF Ids
<1> QED
  BY <1>2 DEF Msg, Event

LEMMA PublishedIsHanded ==
  ASSUME NEW D, NEW chan, NEW e
  PROVE  \E C : Published(D, chan, e) = Handed(D, C, e)
<1>1. PICK C : C = {d \in Dispatchers : chan \in D[d].chans}
  OBVIOUS
<1>2. \A d \in Dispatchers : chan \in D[d].chans <=> d \in C
  BY <1>1
<1>3. Published(D, chan, e) = Handed(D, C, e)
  BY <1>2, Zenon DEF Published, Handed
<1> QED
  BY <1>3

LEMMA NobodyHanded ==
  ASSUME TypeOK, NEW e
  PROVE  disp = Handed(disp, {}, e)
BY DEF TypeOK, Handed

LEMMA SendKeeps ==
  ASSUME Inv, Send, bound' = bound
  PROVE  Inv'
<1>1. TypeOK /\ sent \in Seq(SimIds) /\ NoSim \in SimIds
  BY DEF Inv, TypeOK, SimIds
<1>2. NewId \in Nat /\ NewId # 0 /\ NewId \in {0, NewId}
  BY <1>1 DEF NewId
<1>3. {} \in SUBSET (Sessions \cup {AgentType}) /\ phase \in [Sims -> {"spawn", "race", "ended"}] /\ faults \in Nat
  BY <1>1 DEF TypeOK
<1>4. ASSUME NEW m \in Sims, SendTick(m) PROVE Inv'
  <2>1. PICK e : e = Msg("broadcast", NewId, m, {})
    OBVIOUS
  <2>2. m \in SimIds /\ "broadcast" \in EventKinds
    BY DEF SimIds, EventKinds
  <2>3. /\ e \in Event /\ e.type = "broadcast" /\ e.id = NewId /\ e.origin = NewId /\ e.sim = m
        /\ e.targets = {} /\ ~e.relayed
    BY <1>1, <1>2, <1>3, <2>1, <2>2, MsgEvent
  <2>4. PICK C : disp' = Handed(disp, C, e)
    BY <1>4, <2>1, PublishedIsHanded DEF SendTick
  <2>5. faults' \in Nat
    BY <1>3, <1>4 DEF SendTick, Fault
  <2>6. phase' \in [Sims -> {"spawn", "race", "ended"}]
    BY <1>3, <1>4 DEF SendTick
  <2>7. /\ Len(sent) < bound.msgs /\ sent' = Append(sent, m) /\ http' = http /\ queue' \subseteq queue
        /\ UNCHANGED <<reg, log, raced, cut>>
    BY <1>4 DEF SendTick, Sending, history
  <2> QED
    BY <1>2, <2>2, <2>3, <2>4, <2>5, <2>6, <2>7, SendsOne
<1>5. ASSUME NEW m \in Sims, SendEnd(m) PROVE Inv'
  <2>1. PICK e : e = Msg("end_simulation", NewId, m, {})
    OBVIOUS
  <2>2. m \in SimIds /\ "end_simulation" \in EventKinds
    BY DEF SimIds, EventKinds
  <2>3. /\ e \in Event /\ e.type = "end_simulation" /\ e.id = NewId /\ e.origin = NewId /\ e.sim = m
        /\ e.targets = {} /\ ~e.relayed
    BY <1>1, <1>2, <1>3, <2>1, <2>2, MsgEvent
  <2>4. PICK C : disp' = Handed(disp, C, e)
    BY <1>5, <2>1, PublishedIsHanded DEF SendEnd
  <2>5. phase' \in [Sims -> {"spawn", "race", "ended"}] /\ faults' \in Nat
    BY <1>3, <1>5 DEF SendEnd
  <2>6. /\ Len(sent) < bound.msgs /\ sent' = Append(sent, m) /\ http' = http /\ queue' \subseteq queue
        /\ UNCHANGED <<reg, log, raced, cut>>
    BY <1>5 DEF SendEnd, Sending, history
  <2> QED
    BY <1>2, <2>2, <2>3, <2>4, <2>5, <2>6, SendsOne
<1>6. ASSUME NEW T \in bound.targets, SendUser(T) PROVE Inv'
  <2>1. PICK id \in {0, NewId} : id = IF T = {} THEN NewId ELSE 0
    BY <1>2
  <2>2. PICK e : e = Msg("broadcast", id, NoSim, T)
    OBVIOUS
  <2>3. T \in SUBSET (Sessions \cup {AgentType}) /\ "broadcast" \in EventKinds
    BY <1>1, DispatcherAssumption DEF EventKinds, TypeOK
  <2>4. /\ e \in Event /\ e.type = "broadcast" /\ e.id = id /\ e.origin = NewId /\ e.sim = NoSim
        /\ e.targets = T /\ ~e.relayed
    BY <1>1, <2>2, <2>3, MsgEvent
  <2>5. PICK C : disp' = Handed(disp, C, e) /\ (C = {} \/ e.id # 0)
    <3>1. CASE T = {}
      BY <1>2, <1>6, <2>1, <2>2, <2>4, <3>1, PublishedIsHanded DEF SendUser
    <3>2. CASE T # {}
      <4>1. disp' = disp
        BY <1>6, <3>2 DEF SendUser
      <4> QED
        BY <1>1, <4>1, NobodyHanded
    <3> QED
      BY <3>1, <3>2
  <2>6. http' = http \cup {e} /\ ~Scoped(e)
    BY <1>6, <2>1, <2>2, <2>4 DEF SendUser, Scoped
  <2>7. /\ Len(sent) < bound.msgs /\ sent' = Append(sent, NoSim) /\ queue' \subseteq queue
        /\ UNCHANGED <<reg, log, raced, cut, phase, faults>>
    BY <1>6 DEF SendUser, Sending, history
  <2>8. e.targets # {} => e.id = 0
    BY <2>1, <2>4
  <2> QED
    BY <1>1, <1>3, <2>4, <2>5, <2>6, <2>7, <2>8, SendsOne
<1>7. ASSUME NEW s \in bound.spawned, SendAction(s) PROVE Inv'
  <2>1. PICK e : e = Msg("a2ui_action", NewId, NoSim, {s})
    OBVIOUS
  <2>2. {s} \in SUBSET (Sessions \cup {AgentType}) /\ "a2ui_action" \in EventKinds
    BY <1>1, DispatcherAssumption DEF EventKinds, TypeOK
  <2>3. /\ e \in Event /\ e.type = "a2ui_action" /\ e.id = NewId /\ e.origin = NewId /\ e.sim = NoSim
        /\ ~e.relayed
    BY <1>1, <1>2, <2>1, <2>2, MsgEvent
  <2>4. disp' = Handed(disp, {}, e)
    BY <1>1, <1>7, NobodyHanded DEF SendAction
  <2>5. http' = http \cup {e} /\ ~Scoped(e)
    BY <1>7, <2>1, <2>3 DEF SendAction, Scoped
  <2>6. /\ Len(sent) < bound.msgs /\ sent' = Append(sent, NoSim) /\ queue' \subseteq queue
        /\ UNCHANGED <<reg, log, raced, cut, phase, faults>>
    BY <1>7 DEF SendAction, Sending, history
  <2> QED
    BY <1>1, <1>2, <1>3, <2>3, <2>4, <2>5, <2>6, SendsOne
<1>8. ASSUME SendReset PROVE Inv'
  <2>1. PICK e : e = Msg("environment_reset", NewId, NoSim, {})
    OBVIOUS
  <2>2. "environment_reset" \in EventKinds
    BY DEF EventKinds
  <2>3. /\ e \in Event /\ e.type = "environment_reset" /\ e.id = NewId /\ e.origin = NewId /\ e.sim = NoSim
        /\ ~e.relayed
    BY <1>1, <1>2, <1>3, <2>1, <2>2, MsgEvent
  <2>4. PICK C : disp' = Handed(disp, C, e)
    BY <1>8, <2>1, PublishedIsHanded DEF SendReset
  <2>5. http' = http \cup {e} /\ ~Scoped(e)
    BY <1>8, <2>1, <2>3 DEF SendReset, Scoped
  <2>6. /\ Len(sent) < bound.msgs /\ sent' = Append(sent, NoSim) /\ queue' \subseteq queue
        /\ UNCHANGED <<reg, log, raced, cut, phase, faults>>
    BY <1>8 DEF SendReset, Sending, history
  <2> QED
    BY <1>1, <1>2, <1>3, <2>3, <2>4, <2>5, <2>6, SendsOne
<1> QED
  BY <1>4, <1>5, <1>6, <1>7, <1>8 DEF Send

LEMMA InstancesTyped ==
  ASSUME TypeOK, NEW d \in Dispatchers, NEW M, disp' = [disp EXCEPT ![d] = M],
         Tags(disp', log', raced', sent', http')
  PROVE  disp' \in [Dispatchers -> Instance]
<1>1. \A u \in Dispatchers : disp'[u] \in Instance
  BY DEF Tags, Tagged, InstanceInv
<1> QED
  BY <1>1 DEF TypeOK

LEMMA TakesOne ==
  ASSUME Inv, bound' = bound, NEW f \in [Nat -> Nat], Tagged(f, disp, log, raced, sent, http),
         NEW d \in Dispatchers, NEW t \in Threads, NEW e \in Event, NEW L,
         InstanceInv(L, log[d], raced[d], f, sent, http), L.pc[t] = Idle, http' \subseteq http,
         Spawns(e) \/ Arrives(L, raced[d], e, f, sent, http, http'),
         e.id = 0 => (e \in http /\ http' = http \ {e}), Process(d, t, e, L), queue' \subseteq queue
  PROVE  Inv'
<1>1. TypeOK /\ Len(sent) <= bound.msgs /\ \A x \in queue : Spawns(x)
  BY DEF Inv
<1>2. PICK left : left = http' /\ left \subseteq http /\ (e.id = 0 => (e \in http /\ left = http \ {e}))
  OBVIOUS
<1>3. Spawns(e) \/ Arrives(L, raced[d], e, f, sent, http, left)
  BY <1>2
<1>4. sent' \in Seq(SimIds) /\ Len(sent') <= bound.msgs /\ Tags(disp', log', raced', sent', left)
  BY <1>1, <1>2, <1>3, Takes
<1>5. \E M : disp' = [disp EXCEPT ![d] = M]
  BY DEF Process
<1>6. disp' \in [Dispatchers -> Instance]
  BY <1>1, <1>2, <1>4, <1>5, InstancesTyped
<1>7. TypeOK'
  BY <1>1, <1>4, <1>6 DEF TypeOK, Process, history
<1>8. \A x \in queue' : Spawns(x)
  BY <1>1
<1> QED
  BY <1>2, <1>4, <1>7, <1>8 DEF Inv, Spawns

LEMMA HeadFirst ==
  ASSUME NEW q \in Seq(Event), q # <<>>
  PROVE  /\ 1 \in DOMAIN q /\ Head(q) = q[1] /\ Head(q) \in Event /\ Tail(q) \in Seq(Event)
         /\ RunsOn(q, Tail(q))
<1>1. 1 \in DOMAIN q /\ Head(q) = q[1] /\ Head(q) \in Event /\ Tail(q) \in Seq(Event)
  OBVIOUS
<1>2. RunsOn(q, Tail(q))
  BY DEF RunsOn
<1> QED
  BY <1>1, <1>2

LEMMA PubsubKeeps ==
  ASSUME Inv, bound' = bound, NEW d \in Dispatchers, TakePubsub(d)
  PROVE  Inv'
<1>1. PICK f \in [Nat -> Nat] : Tagged(f, disp, log, raced, sent, http)
  BY DEF Inv, Tags
<1>2. PICK D : D = disp[d]
  OBVIOUS
<1>3. InstanceInv(D, log[d], raced[d], f, sent, http) /\ D \in Instance /\ sent \in Seq(SimIds)
  BY <1>1, <1>2 DEF Tagged, InstanceInv, Inv, TypeOK
<1>4. PICK q \in Seq(Event) : q = D.inbox /\ q # <<>>
  BY <1>2, <1>3, InstanceTypes DEF TakePubsub
<1>5. PICK r \in Seq(Event) : r = Tail(q) /\ RunsOn(q, r)
  BY <1>4, HeadFirst
<1>6. PICK e \in Event : e = q[1] /\ 1 \in DOMAIN q /\ e = Head(q)
  BY <1>4, HeadFirst
<1>7. PICK L : L = [D EXCEPT !.inbox = r]
  OBVIOUS
<1>8. /\ L \in Instance /\ L.inbox = r /\ L.runs = D.runs /\ L.epoch = D.epoch /\ L.seen = D.seen
      /\ L.pc = D.pc /\ L.sim = D.sim
  BY <1>3, <1>7 DEF Instance
<1>9. Process(d, "pubsub", e, L) /\ L.pc["pubsub"] = Idle /\ queue' = queue /\ http' = http
  <2>1. Process(d, "pubsub", Head(D.inbox), [D EXCEPT !.inbox = Tail(@)])
    BY <1>2 DEF TakePubsub
  <2>2. Head(D.inbox) = e /\ [D EXCEPT !.inbox = Tail(@)] = L
    BY <1>4, <1>5, <1>6, <1>7
  <2> QED
    BY <1>2, <1>8, <2>1, <2>2 DEF TakePubsub
<1>10. InstanceInv(L, log[d], raced[d], f, sent, http)
  <2>1. Rest(D.inbox, L.inbox)
    BY <1>4, <1>5, <1>8 DEF Rest
  <2>2. \A s \in Sessions : L.sim[s] \in {NoSim, SimOf[s]}
    BY <1>3, <1>8 DEF InstanceInv, SoundInstance
  <2>3. FilterSuffices => D.seen \subseteq L.seen /\ L.seen \subseteq (1 .. Len(sent)) \cup Sessions
    BY <1>3, <1>8 DEF InstanceInv, OnceInstance
  <2> QED
    BY <1>3, <1>8, <2>1, <2>2, <2>3, Forgets
<1>11. Sound(e, sent) /\ e.id # 0
  BY <1>3, <1>4, <1>6 DEF InstanceInv, SoundInstance
<1>12. Arrives(L, raced[d], e, f, sent, http, http)
  <2>1. FilterSuffices => Heard(e, f, http)
    BY <1>3, <1>4, <1>6 DEF InstanceInv, OnceInstance
  <2>2. ASSUME Scoped(e), NEW i \in DOMAIN L.inbox, Scoped(L.inbox[i]) PROVE e.origin < L.inbox[i].origin
    <3>1. i + 1 \in DOMAIN D.inbox /\ 1 < i + 1 /\ L.inbox[i] = D.inbox[i + 1]
      BY <1>4, <1>5, <1>8, <2>2 DEF RunsOn
    <3>2. 1 \in DOMAIN D.inbox /\ e = D.inbox[1] /\ InboxOrder(D)
      BY <1>3, <1>4, <1>6 DEF InstanceInv, OrderInstance
    <3> QED
      BY <2>2, <3>1, <3>2 DEF InboxOrder
  <2>3. ASSUME Scoped(e), NEW s \in Sessions
        PROVE  /\ \A i \in DOMAIN L.runs[s] : Scoped(L.runs[s][i]) => L.runs[s][i].origin < e.origin
               /\ \A k \in DOMAIN raced[d][s] : raced[d][s][k] < e.origin
    <3>1. OrderOf(D, raced[d][s], s, Len(sent)) /\ 1 \in DOMAIN D.inbox /\ e = D.inbox[1]
      BY <1>3, <1>4, <1>6 DEF InstanceInv, OrderInstance
    <3> QED
      BY <1>8, <2>3, <3>1 DEF OrderOf
  <2> QED
    BY <1>11, <2>1, <2>2, <2>3 DEF Arrives
<1>13. "pubsub" \in Threads
  BY DEF Threads
<1> QED
  BY <1>1, <1>9, <1>10, <1>11, <1>12, <1>13, TakesOne

LEMMA QueueKeeps ==
  ASSUME Inv, bound' = bound, NEW d \in Dispatchers, TakeQueue(d)
  PROVE  Inv'
<1>1. PICK f \in [Nat -> Nat] : Tagged(f, disp, log, raced, sent, http)
  BY DEF Inv, Tags
<1>2. PICK e \in queue : queue' = queue \ {e} /\ Process(d, "queue", e, disp[d])
  BY DEF TakeQueue
<1>3. e \in Event /\ Spawns(e) /\ e.id # 0
  BY SpawnIds DEF Inv, TypeOK
<1>4. InstanceInv(disp[d], log[d], raced[d], f, sent, http)
  BY <1>1 DEF Tagged
<1>5. "queue" \in Threads /\ disp[d].pc["queue"] = Idle /\ http' = http /\ queue' \subseteq queue
  BY <1>2 DEF TakeQueue, Threads
<1> QED
  BY <1>1, <1>2, <1>3, <1>4, <1>5, TakesOne

LEMMA HttpKeeps ==
  ASSUME Inv, bound' = bound, NEW d \in Dispatchers, TakeHttp(d)
  PROVE  Inv'
<1>1. PICK f \in [Nat -> Nat] : Tagged(f, disp, log, raced, sent, http)
  BY DEF Inv, Tags
<1>2. PICK e \in http : http' = http \ {e} /\ Process(d, "http", e, disp[d])
  BY DEF TakeHttp
<1>3. e \in Event
  BY DEF Inv, TypeOK
<1>4. InstanceInv(disp[d], log[d], raced[d], f, sent, http) /\ PokesInv(f, sent, http)
  BY <1>1 DEF Tagged
<1>5. "http" \in Threads /\ disp[d].pc["http"] = Idle /\ queue' \subseteq queue
  BY DEF TakeHttp, Threads
<1>6. Spawns(e) \/ (Sound(e, sent) /\ ~Scoped(e) /\ e.id = f[e.origin])
  BY <1>4 DEF PokesInv
<1>7. ASSUME Sound(e, sent), ~Scoped(e), e.id = f[e.origin]
      PROVE  Arrives(disp[d], raced[d], e, f, sent, http, http')
  <2>1. ASSUME NEW x \in http', x.origin = e.origin, x.id = 0 PROVE FALSE
    <3>1. x \in http /\ x # e
      BY <1>2, <2>1
    <3>2. x.id = f[x.origin]
      BY <1>4, <2>1, <3>1, SpawnIds DEF PokesInv
    <3> QED
      BY <1>4, <1>7, <2>1, <3>1, <3>2 DEF PokesInv
  <2>2. ~Poked(e.origin, http')
    BY <2>1 DEF Poked
  <2>3. e.id = 0 => Poked(e.origin, http)
    BY DEF Poked
  <2> QED
    BY <1>7, <2>2, <2>3 DEF Arrives, Heard
<1>8. http' \subseteq http /\ (e.id = 0 => (e \in http /\ http' = http \ {e}))
  BY <1>2
<1>9. Spawns(e) \/ Arrives(disp[d], raced[d], e, f, sent, http, http')
  BY <1>6, <1>7
<1> QED
  BY <1>1, <1>2, <1>3, <1>4, <1>5, <1>8, <1>9, TakesOne

\* One instance makes a move; what the others keep and the rest of the state.
LEMMA MovesOne ==
  ASSUME Inv, bound' = bound, NEW f \in [Nat -> Nat], Tagged(f, disp, log, raced, sent, http),
         NEW d \in Dispatchers, NEW M, disp' = [disp EXCEPT ![d] = M],
         InstanceInv(M, log'[d], raced'[d], f, sent, http),
         \A u \in Dispatchers \ {d} : log'[u] = log[u] /\ raced'[u] = raced[u],
         log' \in [Dispatchers -> [Sessions -> Seq(Event)]],
         raced' \in [Dispatchers -> [Sessions -> Seq(Nat)]],
         UNCHANGED <<sent, phase, queue, http>>, reg' \in [Sessions -> SimIds],
         cut' \subseteq Dispatchers \X SimIds, faults' \in Nat
  PROVE  Inv'
<1>1. TypeOK
  BY DEF Inv
<1>2. \A u \in Dispatchers : InstanceInv(disp'[u], log'[u], raced'[u], f, sent, http)
  BY <1>1 DEF Tagged, TypeOK
<1>3. Tags(disp', log', raced', sent', http')
  <2>1. PokesInv(f, sent', http')
    BY DEF Tagged
  <2>2. Tagged(f, disp', log', raced', sent', http')
    BY <1>2, <2>1 DEF Tagged
  <2> QED
    BY <2>2 DEF Tags
<1>4. disp' \in [Dispatchers -> Instance]
  BY <1>1, <1>3, InstancesTyped
<1>5. TypeOK'
  BY <1>1, <1>4 DEF TypeOK
<1>6. \A x \in queue' : Spawns(x)
  BY DEF Inv
<1>7. Len(sent') <= bound'.msgs
  BY DEF Inv
<1> QED
  BY <1>3, <1>5, <1>6, <1>7 DEF Inv, Spawns

\* One instance forgets or begins to await something.
ForgetsTo(L, M) ==
  /\ M \in Instance /\ Rest(L.inbox, M.inbox) /\ M.runs = L.runs /\ M.epoch = L.epoch /\ M.seen = L.seen
  /\ \A t \in Threads : M.pc[t] = L.pc[t] \/ ~Relaying(M, t)
  /\ M.sim = L.sim

LEMMA ForgetsOne ==
  ASSUME Inv, bound' = bound, NEW d \in Dispatchers, NEW M, disp' = [disp EXCEPT ![d] = M],
         ForgetsTo(disp[d], M), UNCHANGED <<sent, phase, queue, http, log, raced>>,
         reg' \in [Sessions -> SimIds], cut' \subseteq Dispatchers \X SimIds, faults' \in Nat
  PROVE  Inv'
<1>1. PICK f \in [Nat -> Nat] : Tagged(f, disp, log, raced, sent, http)
  BY DEF Inv, Tags
<1>2. PICK L : L = disp[d]
  OBVIOUS
<1>3. InstanceInv(L, log[d], raced[d], f, sent, http) /\ sent \in Seq(SimIds)
  BY <1>1, <1>2 DEF Tagged, Inv, TypeOK
<1>4. InstanceInv(M, log[d], raced[d], f, sent, http)
  <2>1. \A s \in Sessions : M.sim[s] \in {NoSim, SimOf[s]}
    BY <1>2, <1>3 DEF InstanceInv, SoundInstance, ForgetsTo
  <2>2. FilterSuffices => L.seen \subseteq M.seen /\ M.seen \subseteq (1 .. Len(sent)) \cup Sessions
    BY <1>2, <1>3 DEF InstanceInv, OnceInstance, ForgetsTo
  <2>3. /\ M \in Instance /\ Rest(L.inbox, M.inbox) /\ M.runs = L.runs /\ M.epoch = L.epoch
        /\ \A t \in Threads : M.pc[t] = L.pc[t] \/ ~Relaying(M, t)
    BY <1>2 DEF ForgetsTo
  <2> QED
    BY <1>3, <2>1, <2>2, <2>3, Forgets
<1>5. /\ log' \in [Dispatchers -> [Sessions -> Seq(Event)]]
      /\ raced' \in [Dispatchers -> [Sessions -> Seq(Nat)]]
  BY DEF Inv, TypeOK
<1> QED
  BY <1>1, <1>4, <1>5, MovesOne

\* A handler awaits the next call, or is done.
LEMMA Continues ==
  ASSUME NEW L \in Instance, NEW t \in Threads, NEW c \in {Idle} \cup Awaited, c.at # "relay",
         NEW S \in SUBSET SimIds, NEW C \in SUBSET ({Global} \cup SimIds)
  PROVE  ForgetsTo(L, [L EXCEPT !.pc[t] = c, !.subs = S, !.chans = C])
<1>1. PICK pc \in [Threads -> {Idle} \cup Awaited] : pc = [L.pc EXCEPT ![t] = c]
  BY InstanceTypes
<1>2. PICK M : M = [L EXCEPT !.pc[t] = c, !.subs = S, !.chans = C]
  OBVIOUS
<1>3. M = [L EXCEPT !.pc = pc, !.subs = S, !.chans = C]
  BY <1>1, <1>2 DEF Instance
<1>4. /\ M \in Instance /\ M.pc = pc /\ M.runs = L.runs /\ M.epoch = L.epoch /\ M.seen = L.seen
      /\ M.inbox = L.inbox /\ M.sim = L.sim
  BY <1>3 DEF Instance
<1>5. \A u \in Threads : M.pc[u] = L.pc[u] \/ ~Relaying(M, u)
  BY <1>1, <1>4, InstanceTypes DEF Relaying
<1>6. ForgetsTo(L, M)
  BY <1>4, <1>5 DEF ForgetsTo, Rest
<1> QED
  BY <1>2, <1>6

LEMMA AwaitingTypes ==
  ASSUME TypeOK, NEW d \in Dispatchers, NEW t \in Threads, disp[d].pc[t].at # "idle"
  PROVE  disp[d].pc[t] \in Awaited /\ disp[d].pc[t].event \in Event /\ disp[d].pc[t].matched \in SUBSET Sessions
<1>1. disp[d].pc[t] \in {Idle} \cup Awaited
  BY InstanceTypes DEF TypeOK
<1>2. disp[d].pc[t] \in Awaited
  BY <1>1 DEF Idle
<1> QED
  BY <1>2 DEF Awaited

LEMMA RegisterKeeps ==
  ASSUME Inv, bound' = bound, NEW d \in Dispatchers, NEW t \in Threads, Register(d, t)
  PROVE  Inv'
<1>1. TypeOK /\ disp[d] \in Instance
  BY DEF Inv, TypeOK
<1>2. PICK L : L = disp[d]
  OBVIOUS
<1>3. PICK e \in Event : e = disp[d].pc[t].event
  BY <1>1, AwaitingTypes DEF Register, Awaiting
<1>4. PICK S \in SUBSET SimIds : S = L.subs \cup {e.sim}
  <2>1. L.subs \cup {e.sim} \in SUBSET SimIds
    BY <1>1, <1>2, InstanceTypes, EventTypes
  <2> QED
    BY <2>1
<1>5. PICK a \in Awaited : a = Await("subscribe", e, {}) /\ a.at = "subscribe"
  <2>1. Await("subscribe", e, {}) \in Awaited /\ Await("subscribe", e, {}).at = "subscribe"
    BY DEF Await, Awaited
  <2> QED
    BY <2>1
<1>6. Idle \in {Idle} \cup Awaited /\ Idle.at = "idle" /\ L \in Instance /\ L.chans \in SUBSET ({Global} \cup SimIds)
  BY <1>1, <1>2, InstanceTypes DEF Idle
<1>7. \E c \in {Idle, a} : disp' = [disp EXCEPT ![d] = [L EXCEPT !.pc[t] = c, !.subs = S, !.chans = L.chans]]
  <2>1. PICK N : N = [Done(d, t) EXCEPT !.subs = @ \cup {e.sim}]
    OBVIOUS
  <2>2. N = [L EXCEPT !.pc[t] = Idle, !.subs = S, !.chans = L.chans]
    BY <1>2, <1>4, <1>6, <2>1 DEF Done, Instance
  <2>3. [N EXCEPT !.pc[t] = a] = [L EXCEPT !.pc[t] = a, !.subs = S, !.chans = L.chans]
    BY <1>6, <2>2 DEF Instance
  <2>4. disp' = [disp EXCEPT ![d] = N] \/ disp' = [disp EXCEPT ![d] = [N EXCEPT !.pc[t] = a]]
    BY <1>3, <1>5, <2>1 DEF Register
  <2> QED
    BY <2>2, <2>3, <2>4
<1>8. PICK c \in {Idle} \cup Awaited : c.at # "relay" /\
        disp' = [disp EXCEPT ![d] = [L EXCEPT !.pc[t] = c, !.subs = S, !.chans = L.chans]]
  BY <1>5, <1>6, <1>7
<1>9. ForgetsTo(L, [L EXCEPT !.pc[t] = c, !.subs = S, !.chans = L.chans])
  BY <1>6, <1>8, Continues
<1>10. reg' \in [Sessions -> SimIds] /\ faults' \in Nat /\ cut' \subseteq Dispatchers \X SimIds
  <2>1. e.sim \in SimIds
    BY EventTypes
  <2>2. Registered(e.targets, e.sim)
    BY <1>3 DEF Register
  <2>3. reg' = [s \in Sessions |-> IF s \in e.targets THEN e.sim ELSE reg[s]] \/ reg' = reg
    BY <2>2 DEF Registered
  <2>4. faults' = faults \/ faults' = faults + 1
    BY <2>2 DEF Registered, Fault
  <2>5. cut' = cut
    BY DEF Register
  <2>6. reg' \in [Sessions -> SimIds]
    BY <1>1, <2>1, <2>3 DEF TypeOK
  <2>7. faults' \in Nat
    BY <1>1, <2>4 DEF TypeOK
  <2> QED
    BY <1>1, <2>5, <2>6, <2>7 DEF TypeOK
<1>11. UNCHANGED <<sent, phase, queue, http, log, raced>>
  BY DEF Register, history
<1> QED
  BY <1>2, <1>8, <1>9, <1>10, <1>11, ForgetsOne

LEMMA SubscribeKeeps ==
  ASSUME Inv, bound' = bound, NEW d \in Dispatchers, NEW t \in Threads, Subscribe(d, t)
  PROVE  Inv'
<1>1. TypeOK /\ disp[d] \in Instance
  BY DEF Inv, TypeOK
<1>2. PICK L : L = disp[d]
  OBVIOUS
<1>3. PICK m \in SimIds : m = disp[d].pc[t].event.sim
  <2>1. disp[d].pc[t].event \in Event
    BY <1>1, AwaitingTypes DEF Subscribe, Awaiting
  <2> QED
    BY <2>1, EventTypes
<1>4. /\ Idle \in {Idle} \cup Awaited /\ Idle.at # "relay" /\ L \in Instance /\ L.subs \in SUBSET SimIds
      /\ L.chans \in SUBSET ({Global} \cup SimIds)
  BY <1>1, <1>2, InstanceTypes DEF Idle
<1>5. PICK C \in SUBSET ({Global} \cup SimIds) :
        disp' = [disp EXCEPT ![d] = [L EXCEPT !.pc[t] = Idle, !.subs = L.subs, !.chans = C]]
  <2>1. Done(d, t) = [L EXCEPT !.pc[t] = Idle, !.subs = L.subs, !.chans = L.chans]
    BY <1>2, <1>4 DEF Done, Instance
  <2>2. [Done(d, t) EXCEPT !.chans = @ \cup {m}] = [L EXCEPT !.pc[t] = Idle, !.subs = L.subs, !.chans = L.chans \cup {m}]
    BY <1>2, <1>4 DEF Done, Instance
  <2>3. L.chans \cup {m} \in SUBSET ({Global} \cup SimIds)
    BY <1>4
  <2> QED
    BY <1>3, <1>4, <2>1, <2>2, <2>3 DEF Subscribe
<1>6. ForgetsTo(L, [L EXCEPT !.pc[t] = Idle, !.subs = L.subs, !.chans = C])
  BY <1>4, Continues
<1>7. reg' \in [Sessions -> SimIds] /\ faults' \in Nat /\ cut' \subseteq Dispatchers \X SimIds
  BY <1>1, <1>3 DEF Subscribe, Fault, TypeOK
<1>8. UNCHANGED <<sent, phase, queue, http, log, raced>>
  BY DEF Subscribe, history
<1> QED
  BY <1>2, <1>5, <1>6, <1>7, <1>8, ForgetsOne

LEMMA ClearKeeps ==
  ASSUME Inv, bound' = bound, NEW d \in Dispatchers, NEW t \in Threads, Clear(d, t)
  PROVE  Inv'
<1>1. TypeOK /\ disp[d] \in Instance
  BY DEF Inv, TypeOK
<1>2. PICK L : L = disp[d]
  OBVIOUS
<1>3. /\ Idle \in {Idle} \cup Awaited /\ Idle.at # "relay" /\ L \in Instance /\ L.subs \in SUBSET SimIds
      /\ L.chans \in SUBSET ({Global} \cup SimIds)
  BY <1>1, <1>2, InstanceTypes DEF Idle
<1>4. disp' = [disp EXCEPT ![d] = [L EXCEPT !.pc[t] = Idle, !.subs = L.subs, !.chans = L.chans]]
  <2>1. Done(d, t) = [L EXCEPT !.pc[t] = Idle, !.subs = L.subs, !.chans = L.chans]
    BY <1>2, <1>3 DEF Done, Instance
  <2> QED
    BY <2>1 DEF Clear
<1>5. ForgetsTo(L, [L EXCEPT !.pc[t] = Idle, !.subs = L.subs, !.chans = L.chans])
  BY <1>3, Continues
<1>6. reg' \in [Sessions -> SimIds] /\ faults' \in Nat /\ cut' \subseteq Dispatchers \X SimIds
  BY <1>1 DEF Clear, TypeOK, SimIds
<1>7. UNCHANGED <<sent, phase, queue, http, log, raced>>
  BY DEF Clear, history
<1> QED
  BY <1>2, <1>4, <1>5, <1>6, <1>7, ForgetsOne

\* The event loop makes a call that remove_session left to it.
LEMMA Schedules ==
  ASSUME NEW L \in Instance, NEW T \in SUBSET L.todo, NEW C \in SUBSET L.chans
  PROVE  ForgetsTo(L, [L EXCEPT !.todo = T, !.chans = C])
<1>1. /\ L.todo \in SUBSET ({"unregister", "unsubscribe"} \X (Sessions \cup SimIds))
      /\ L.chans \in SUBSET ({Global} \cup SimIds)
  BY DEF Instance
<1>2. PICK M : M = [L EXCEPT !.todo = T, !.chans = C]
  OBVIOUS
<1>3. /\ M \in Instance /\ M.pc = L.pc /\ M.runs = L.runs /\ M.epoch = L.epoch /\ M.seen = L.seen
      /\ M.inbox = L.inbox /\ M.sim = L.sim
  BY <1>1, <1>2 DEF Instance
<1>4. ForgetsTo(L, M)
  BY <1>3 DEF ForgetsTo, Rest
<1> QED
  BY <1>2, <1>4

LEMMA ScheduledKeeps ==
  ASSUME Inv, bound' = bound, NEW d \in Dispatchers, Scheduled(d)
  PROVE  Inv'
<1>1. TypeOK
  BY DEF Inv
<1>2. PICK L \in Instance : L = disp[d]
  BY <1>1 DEF TypeOK
<1>3. PICK x \in disp[d].todo :
        \/ x[1] = "unsubscribe" /\ Unsubscribe(d, x[2])
        \/ x[1] = "unregister" /\ Unregister(d, x[2])
  BY DEF Scheduled
<1>4. PICK T \in SUBSET L.todo, C \in SUBSET L.chans :
        disp' = [disp EXCEPT ![d] = [L EXCEPT !.todo = T, !.chans = C]]
  <2>1. CASE Unsubscribe(d, x[2])
    <3>1. disp' = [disp EXCEPT ![d] = [L EXCEPT !.todo = L.todo \ {<<"unsubscribe", x[2]>>}, !.chans = L.chans \ {x[2]}]]
      BY <1>1, <1>2, <2>1 DEF Unsubscribe, TypeOK, Instance
    <3>2. L.todo \ {<<"unsubscribe", x[2]>>} \in SUBSET L.todo /\ L.chans \ {x[2]} \in SUBSET L.chans
      OBVIOUS
    <3> QED
      BY <3>1, <3>2
  <2>2. CASE Unregister(d, x[2])
    <3>1. disp' = [disp EXCEPT ![d] = [L EXCEPT !.todo = L.todo \ {<<"unregister", x[2]>>}, !.chans = L.chans]]
      BY <1>1, <1>2, <2>2 DEF Unregister, TypeOK, Instance
    <3>2. L.todo \ {<<"unregister", x[2]>>} \in SUBSET L.todo /\ L.chans \in SUBSET L.chans
      OBVIOUS
    <3> QED
      BY <3>1, <3>2
  <2> QED
    BY <1>3, <2>1, <2>2
<1>5. ForgetsTo(L, [L EXCEPT !.todo = T, !.chans = C])
  BY Schedules
<1>6. reg' \in [Sessions -> SimIds]
  <2>1. reg' = reg \/ \E s : reg' = [reg EXCEPT ![s] = NoSim]
    BY <1>3 DEF Unsubscribe, Unregister, Unregistered
  <2> QED
    BY <1>1, <2>1 DEF TypeOK, SimIds
<1>7. UNCHANGED <<sent, phase, queue, http, log, raced>> /\ faults' \in Nat /\ cut' \subseteq Dispatchers \X SimIds
  BY <1>1 DEF Scheduled, history, TypeOK
<1> QED
  BY <1>2, <1>4, <1>5, <1>6, <1>7, ForgetsOne

LEMMA DisconnectKeeps ==
  ASSUME Inv, bound' = bound, NEW d \in Dispatchers, Disconnect(d)
  PROVE  Inv'
<1>1. TypeOK
  BY DEF Inv
<1>2. PICK L \in Instance : L = disp[d]
  BY <1>1 DEF TypeOK
<1>3. PICK pc \in [Threads -> {Idle} \cup Awaited] : pc = [[L.pc EXCEPT !["pubsub"] = Idle] EXCEPT !["queue"] = Idle]
  BY InstanceTypes
<1>4. PICK M : M = [L EXCEPT !.conn = FALSE, !.chans = {}, !.inbox = <<>>, !.pc = pc]
  OBVIOUS
<1>5. disp' = [disp EXCEPT ![d] = M]
  <2>1. PICK N : N = [L EXCEPT !.conn = FALSE, !.chans = {}, !.inbox = <<>>, !.pc["pubsub"] = Idle,
                               !.pc["queue"] = Idle]
    OBVIOUS
  <2>2. N = M
    BY <1>3, <1>4, <2>1, InstanceTypes DEF Instance
  <2>3. disp' = [disp EXCEPT ![d] = N]
    <3>1. disp \in [Dispatchers -> Instance]
      BY <1>1 DEF TypeOK
    <3>2. disp' = [disp EXCEPT ![d].conn = FALSE, ![d].chans = {}, ![d].inbox = <<>>,
                               ![d].pc["pubsub"] = Idle, ![d].pc["queue"] = Idle]
      BY DEF Disconnect
    <3>3. disp'[d] = N
      BY <1>2, <2>1, <3>1, <3>2
    <3>4. \A u \in Dispatchers \ {d} : disp'[u] = disp[u]
      BY <3>1, <3>2
    <3>5. disp' = [u \in Dispatchers |-> disp'[u]]
      BY <3>1, <3>2
    <3> QED
      BY <3>1, <3>3, <3>4, <3>5
  <2> QED
    BY <2>2, <2>3
<1>6. /\ M \in Instance /\ M.pc = pc /\ M.runs = L.runs /\ M.epoch = L.epoch /\ M.seen = L.seen
      /\ M.inbox = <<>> /\ M.sim = L.sim
  <2>1. <<>> \in Seq(Event)
    OBVIOUS
  <2> QED
    BY <1>4, <2>1 DEF Instance
<1>7. \A u \in Threads : pc[u] = L.pc[u] \/ pc[u] = Idle
  BY <1>3, InstanceTypes
<1>8. ForgetsTo(L, M)
  BY <1>6, <1>7 DEF ForgetsTo, Rest, Relaying, Idle
<1>9. faults' \in Nat /\ cut' \subseteq Dispatchers \X SimIds
  <2>1. ASSUME L.pc["queue"].at = "register" PROVE L.pc["queue"].event.sim \in SimIds
    <3>1. disp[d].pc["queue"].event \in Event
      BY <1>1, <1>2, <2>1, AwaitingTypes DEF Threads
    <3> QED
      BY <1>2, <3>1, EventTypes
  <2>2. cut' = cut \/ (L.pc["queue"].at = "register" /\ cut' = cut \cup {<<d, L.pc["queue"].event.sim>>})
    BY <1>2 DEF Disconnect
  <2>3. faults' = faults + 1
    BY DEF Disconnect, Fault
  <2> QED
    BY <1>1, <2>1, <2>2, <2>3 DEF TypeOK
<1>10. reg' \in [Sessions -> SimIds] /\ UNCHANGED <<sent, phase, queue, http, log, raced>>
  BY <1>1 DEF Disconnect, history, TypeOK
<1> QED
  BY <1>2, <1>5, <1>8, <1>9, <1>10, ForgetsOne

LEMMA ReconnectKeeps ==
  ASSUME Inv, bound' = bound, NEW d \in Dispatchers, Reconnect(d)
  PROVE  Inv'
<1>1. TypeOK
  BY DEF Inv
<1>2. PICK L \in Instance : L = disp[d]
  BY <1>1 DEF TypeOK
<1>3. PICK M : M = [L EXCEPT !.conn = TRUE, !.chans = {Global} \cup L.subs]
  OBVIOUS
<1>4. disp' = [disp EXCEPT ![d] = M]
  BY <1>1, <1>2, <1>3 DEF Reconnect, TypeOK, Instance
<1>5. /\ M \in Instance /\ M.pc = L.pc /\ M.runs = L.runs /\ M.epoch = L.epoch /\ M.seen = L.seen
      /\ M.inbox = L.inbox /\ M.sim = L.sim
  <2>1. {Global} \cup L.subs \in SUBSET ({Global} \cup SimIds)
    BY InstanceTypes
  <2> QED
    BY <1>3, <2>1 DEF Instance
<1>6. ForgetsTo(L, M)
  BY <1>5 DEF ForgetsTo, Rest
<1>7. faults' \in Nat /\ cut' \subseteq Dispatchers \X SimIds
  BY <1>1 DEF Reconnect, TypeOK
<1>8. reg' \in [Sessions -> SimIds] /\ UNCHANGED <<sent, phase, queue, http, log, raced>>
  BY <1>1 DEF Reconnect, history, TypeOK
<1> QED
  BY <1>2, <1>4, <1>6, <1>7, <1>8, ForgetsOne

LEMMA BlankInstance ==
  /\ Blank \in Instance /\ Blank.inbox = <<>> /\ Blank.seen = {} /\ Blank.epoch = 0
  /\ \A s \in Sessions : Blank.runs[s] = <<>> /\ Blank.sim[s] = NoSim
  /\ \A t \in Threads : Blank.pc[t] = Idle
<1>1. <<>> \in Seq(Event)
  OBVIOUS
<1>2. [s \in Sessions |-> <<>>] \in [Sessions -> Seq(Event)] /\ [s \in Sessions |-> NoSim] \in [Sessions -> SimIds]
  BY <1>1 DEF SimIds
<1>3. [t \in Threads |-> Idle] \in [Threads -> {Idle} \cup Awaited]
  OBVIOUS
<1> QED
  BY <1>1, <1>2, <1>3 DEF Blank, Instance

LEMMA CrashKeeps ==
  ASSUME Inv, bound' = bound, NEW d \in Dispatchers, Crash(d)
  PROVE  Inv'
<1>1. TypeOK /\ sent \in Seq(SimIds)
  BY DEF Inv, TypeOK
<1>2. PICK f \in [Nat -> Nat] : Tagged(f, disp, log, raced, sent, http)
  BY DEF Inv, Tags
<1>3. PICK L \in Instance : L = disp[d]
  BY <1>1 DEF TypeOK
<1>4. PICK k \in Nat : k = L.epoch + 1
  BY InstanceTypes
<1>5. PICK M : M = [Blank EXCEPT !.epoch = k]
  OBVIOUS
<1>6. disp' = [disp EXCEPT ![d] = M]
  BY <1>3, <1>4, <1>5 DEF Crash, Restarted
<1>7. /\ M \in Instance /\ M.inbox = <<>> /\ M.seen = {} /\ M.epoch = k /\ M.runs = Blank.runs
      /\ M.sim = Blank.sim /\ M.pc = Blank.pc
  BY <1>5, BlankInstance DEF Instance
<1>8. InstanceInv(L, log[d], raced[d], f, sent, http)
  BY <1>2, <1>3 DEF Tagged
<1>9. InstanceInv(M, log[d], raced[d], f, sent, http)
  <2>1. Rest(L.inbox, M.inbox) /\ M.epoch = L.epoch + 1
    BY <1>4, <1>7 DEF Rest
  <2>2. \A s \in Sessions : M.runs[s] = <<>> /\ M.sim[s] \in {NoSim, SimOf[s]}
    BY <1>7, BlankInstance
  <2>3. \A t \in Threads : M.pc[t] = L.pc[t] \/ ~Relaying(M, t)
    BY <1>7, BlankInstance DEF Relaying, Idle
  <2> QED
    BY <1>1, <1>7, <1>8, <2>1, <2>2, <2>3, Renewed
<1>10. /\ log' = log /\ raced' = raced /\ UNCHANGED <<sent, phase, queue, http>> /\ reg' \in [Sessions -> SimIds]
       /\ cut' \subseteq Dispatchers \X SimIds
       /\ log' \in [Dispatchers -> [Sessions -> Seq(Event)]]
       /\ raced' \in [Dispatchers -> [Sessions -> Seq(Nat)]]
  BY <1>1 DEF Crash, history, TypeOK
<1>11. faults' \in Nat
  BY <1>1 DEF Crash, Fault, TypeOK
<1> QED
  BY <1>2, <1>6, <1>9, <1>10, <1>11, MovesOne

LEMMA LosePokeKeeps ==
  ASSUME Inv, bound' = bound, LosePoke
  PROVE  Inv'
<1>1. TypeOK /\ sent \in Seq(SimIds)
  BY DEF Inv, TypeOK
<1>2. PICK f \in [Nat -> Nat] : Tagged(f, disp, log, raced, sent, http)
  BY DEF Inv, Tags
<1>3. http' \subseteq http /\ UNCHANGED <<disp, queue, reg, sent, phase, log, raced, cut>>
  BY DEF LosePoke, history
<1>4. Carries(f, f, sent, sent, http, http')
  BY <1>1, <1>3, FewerPokes
<1>5. \A d \in Dispatchers : InstanceInv(disp[d], log[d], raced[d], f, sent, http')
  BY <1>1, <1>2, <1>4, Carried DEF Tagged
<1>6. PokesInv(f, sent, http')
  BY <1>2, <1>3 DEF Tagged, PokesInv
<1>7. Tags(disp', log', raced', sent', http')
  BY <1>3, <1>5, <1>6 DEF Tags, Tagged
<1>8. TypeOK'
  <2>1. faults' \in Nat
    BY <1>1 DEF TypeOK, LosePoke, Fault
  <2>2. http' \subseteq Event
    BY <1>1, <1>3 DEF TypeOK
  <2> QED
    BY <1>1, <1>3, <2>1, <2>2 DEF TypeOK
<1> QED
  BY <1>3, <1>7, <1>8 DEF Inv, Spawns

\* A handler that relays is done: what it took is known as of the record that it
\* leaves.
LEMMA RelayDone ==
  ASSUME NEW L, NEW lg, NEW ra, NEW f, NEW st \in Seq(SimIds), NEW pk,
         InstanceInv(L, lg, ra, f, st, pk), NEW t \in Threads, Relaying(L, t),
         NEW M, M = [L EXCEPT !.pc[t] = Idle]
  PROVE  InstanceInv(Trigger(M, L.pc[t].matched, L.pc[t].event), lg, ra, f, st, pk)
<1>1. L \in Instance /\ L.pc \in [Threads -> {Idle} \cup Awaited]
  BY InstanceTypes DEF InstanceInv
<1>2. L.pc[t] \in Awaited
  BY <1>1 DEF Relaying, Idle
<1>3. PICK e \in Event : e = L.pc[t].event
  BY <1>2 DEF Awaited
<1>4. PICK S \in SUBSET Sessions : S = L.pc[t].matched
  BY <1>2 DEF Awaited
<1>5. PICK pc \in [Threads -> {Idle} \cup Awaited] : pc = [L.pc EXCEPT ![t] = Idle]
  BY <1>1
<1>6. /\ M \in Instance /\ M.pc = pc /\ M.runs = L.runs /\ M.epoch = L.epoch /\ M.seen = L.seen
      /\ M.inbox = L.inbox /\ M.sim = L.sim
  <2>1. M = [L EXCEPT !.pc = pc]
    BY <1>1, <1>5 DEF Instance
  <2> QED
    BY <1>1, <2>1 DEF Instance
<1>7. ~Relaying(M, t) /\ \A u \in Threads \ {t} : M.pc[u] = L.pc[u]
  BY <1>1, <1>5, <1>6 DEF Relaying, Idle
<1>8. InstanceInv(M, lg, ra, f, st, pk)
  <2>1. \A s \in Sessions : M.sim[s] \in {NoSim, SimOf[s]}
    BY <1>6 DEF InstanceInv, SoundInstance
  <2>2. FilterSuffices => L.seen \subseteq M.seen /\ M.seen \subseteq (1 .. Len(st)) \cup Sessions
    BY <1>6 DEF InstanceInv, OnceInstance
  <2>3. Rest(L.inbox, M.inbox) /\ \A u \in Threads : M.pc[u] = L.pc[u] \/ ~Relaying(M, u)
    BY <1>6, <1>7 DEF Rest
  <2> QED
    BY <1>6, <2>1, <2>2, <2>3, Forgets
<1>9. Sound(e, st) /\ ~Scoped(e)
  BY <1>3 DEF InstanceInv, SoundInstance
<1>10. ASSUME FilterSuffices PROVE Taken(M, e, f, pk) /\ \A s \in S : New(M, lg[s], e, s)
  <2>1. OnceInstance(L, lg, f, st, pk)
    BY <1>10 DEF InstanceInv
  <2>2. Taken(M, e, f, pk)
    BY <1>3, <1>6, <2>1 DEF OnceInstance, Taken
  <2>3. ASSUME NEW s \in S PROVE New(M, lg[s], e, s)
    <3>1. OnceFor(L, lg[s], s)
      BY <2>1 DEF OnceInstance
    <3> QED
      BY <1>3, <1>4, <1>6, <1>7, <3>1 DEF OnceFor, New, Relaying
  <2> QED
    BY <2>2, <2>3
<1>11. InstanceInv(Trigger(M, S, e), lg, ra, f, st, pk)
  BY <1>8, <1>9, <1>10, Triggers
<1> QED
  BY <1>3, <1>4, <1>11

LEMMA RelayKeeps ==
  ASSUME Inv, bound' = bound, NEW d \in Dispatchers, NEW t \in Threads, Relay(d, t)
  PROVE  Inv'
<1>1. TypeOK /\ sent \in Seq(SimIds)
  BY DEF Inv, TypeOK
<1>2. PICK f \in [Nat -> Nat] : Tagged(f, disp, log, raced, sent, http)
  BY DEF Inv, Tags
<1>3. PICK L \in Instance : L = disp[d] /\ Relaying(L, t)
  BY <1>1 DEF TypeOK, Relay, Awaiting, Relaying
<1>4. InstanceInv(L, log[d], raced[d], f, sent, http)
  BY <1>2, <1>3 DEF Tagged
<1>5. PICK e \in Event : e = disp[d].pc[t].event
  BY <1>1, AwaitingTypes DEF Relay, Awaiting
<1>6. PICK T : T = Trigger(Done(d, t), L.pc[t].matched, e)
  OBVIOUS
<1>7. InstanceInv(T, log[d], raced[d], f, sent, http)
  <2>1. PICK M : M = [L EXCEPT !.pc[t] = Idle]
    OBVIOUS
  <2>2. InstanceInv(Trigger(M, L.pc[t].matched, L.pc[t].event), log[d], raced[d], f, sent, http)
    BY <1>1, <1>3, <1>4, <2>1, RelayDone
  <2> QED
    BY <1>3, <1>5, <1>6, <2>1, <2>2 DEF Done
<1>8. PICK D : D = [disp EXCEPT ![d] = T]
  OBVIOUS
<1>9. (disp' = Published(D, Global, e) /\ UNCHANGED faults) \/ (disp' = D /\ Fault)
  BY <1>3, <1>5, <1>6, <1>8 DEF Relay
<1>10. /\ UNCHANGED <<sent, phase, queue, http, log, raced>> /\ reg' \in [Sessions -> SimIds]
       /\ cut' \subseteq Dispatchers \X SimIds
       /\ log' \in [Dispatchers -> [Sessions -> Seq(Event)]]
       /\ raced' \in [Dispatchers -> [Sessions -> Seq(Nat)]]
  BY <1>1 DEF Relay, history, TypeOK
<1>11. faults' \in Nat
  <2>1. faults' = faults \/ faults' = faults + 1
    BY <1>9 DEF Fault
  <2>2. faults \in Nat
    BY <1>1 DEF TypeOK
  <2> QED
    BY <2>1, <2>2
<1>12. CASE disp' = D
  BY <1>2, <1>7, <1>8, <1>10, <1>11, <1>12, MovesOne
<1>13. CASE disp' = Published(D, Global, e)
  <2>1. PICK C : disp' = Handed(D, C, e)
    BY <1>13, PublishedIsHanded
  <2>2. \A u \in Dispatchers : InstanceInv(D[u], log[u], raced[u], f, sent, http)
    BY <1>1, <1>2, <1>7, <1>8 DEF Tagged, TypeOK
  <2>3. Sound(e, sent) /\ ~Scoped(e) /\ e.id # 0
    BY <1>3, <1>4, <1>5 DEF InstanceInv, SoundInstance
  <2>4. FilterSuffices => Heard(e, f, http)
    BY <1>3, <1>4, <1>5 DEF InstanceInv, OnceInstance, Taken
  <2>5. \A u \in Dispatchers : InstanceInv([D[u] EXCEPT !.inbox = Append(@, e)], log[u], raced[u], f, sent, http)
    BY <1>1, <2>2, <2>3, <2>4, Receives
  <2>6. \A u \in Dispatchers : InstanceInv(disp'[u], log[u], raced[u], f, sent, http)
    BY <2>1, <2>2, <2>5 DEF Handed
  <2>7. Tags(disp', log', raced', sent', http')
    BY <1>2, <1>10, <2>6 DEF Tags, Tagged
  <2>8. disp' \in [Dispatchers -> Instance]
    <3>1. \A u \in Dispatchers : disp'[u] \in Instance
      BY <2>6 DEF InstanceInv
    <3> QED
      BY <2>1, <3>1 DEF Handed
  <2>9. TypeOK'
    BY <1>1, <1>10, <1>11, <2>8 DEF TypeOK
  <2> QED
    BY <1>10, <2>7, <2>9 DEF Inv, Spawns
<1> QED
  BY <1>9, <1>12, <1>13

LEMMA StartRunKeeps ==
  ASSUME Inv, bound' = bound, NEW d \in Dispatchers, NEW s \in Sessions, StartRun(d, s)
  PROVE  Inv'
<1>1. TypeOK /\ sent \in Seq(SimIds)
  BY DEF Inv, TypeOK
<1>2. PICK f \in [Nat -> Nat] : Tagged(f, disp, log, raced, sent, http)
  BY DEF Inv, Tags
<1>3. PICK L \in Instance : L = disp[d] /\ L.runs[s] # <<>>
  BY <1>1 DEF TypeOK, StartRun
<1>4. PICK e : e = Head(L.runs[s])
  OBVIOUS
<1>5. InstanceInv(L, log[d], raced[d], f, sent, http)
  BY <1>2, <1>3 DEF Tagged
<1>6. /\ log \in [Dispatchers -> [Sessions -> Seq(Event)]]
      /\ raced \in [Dispatchers -> [Sessions -> Seq(Nat)]]
  BY <1>1 DEF TypeOK
<1>7. IF ~Scoped(e) THEN log' = [log EXCEPT ![d][s] = Append(@, e)] /\ raced' = raced
      ELSE raced' = [raced EXCEPT ![d][s] = Append(@, e.origin)] /\ log' = log
  BY <1>3, <1>4 DEF StartRun, Scoped
<1>8. IF ~Scoped(e) THEN log'[d] = [log[d] EXCEPT ![s] = Append(@, e)] /\ raced'[d] = raced[d]
      ELSE raced'[d] = [raced[d] EXCEPT ![s] = Append(@, e.origin)] /\ log'[d] = log[d]
  BY <1>6, <1>7
<1>9. PICK M : M = [L EXCEPT !.runs[s] = Tail(@)]
  OBVIOUS
<1>10. disp' = [disp EXCEPT ![d] = M]
  BY <1>1, <1>3, <1>9 DEF StartRun, TypeOK
<1>11. InstanceInv(M, log'[d], raced'[d], f, sent, http)
  <2>1. PICK lg, ra, lg2, ra2 : lg = log[d] /\ ra = raced[d] /\ lg2 = log'[d] /\ ra2 = raced'[d]
    OBVIOUS
  <2>2. Noted(lg, ra, s, e, lg2, ra2)
    BY <1>8, <2>1 DEF Noted
  <2>3. InstanceInv(L, lg, ra, f, sent, http)
    BY <1>5, <2>1
  <2>4. InstanceInv([L EXCEPT !.runs[s] = Tail(@)], lg2, ra2, f, sent, http)
    BY <1>1, <1>3, <1>4, <2>2, <2>3, Starts
  <2> QED
    BY <1>9, <2>1, <2>4
<1>12. \A u \in Dispatchers \ {d} : log'[u] = log[u] /\ raced'[u] = raced[u]
  BY <1>6, <1>7
<1>13. log' \in [Dispatchers -> [Sessions -> Seq(Event)]] /\ raced' \in [Dispatchers -> [Sessions -> Seq(Nat)]]
  <2>1. log'[d] \in [Sessions -> Seq(Event)] /\ raced'[d] \in [Sessions -> Seq(Nat)]
    BY <1>11 DEF InstanceInv
  <2>2. log' = [u \in Dispatchers |-> log'[u]] /\ raced' = [u \in Dispatchers |-> raced'[u]]
    BY <1>6, <1>7
  <2>3. \A u \in Dispatchers : log'[u] \in [Sessions -> Seq(Event)] /\ raced'[u] \in [Sessions -> Seq(Nat)]
    BY <1>6, <1>12, <2>1
  <2> QED
    BY <2>2, <2>3
<1>14. /\ UNCHANGED <<sent, phase, queue, http>> /\ reg' \in [Sessions -> SimIds]
       /\ cut' \subseteq Dispatchers \X SimIds /\ faults' \in Nat
  BY <1>1 DEF StartRun, TypeOK
<1> QED
  BY <1>2, <1>10, <1>11, <1>12, <1>13, <1>14, MovesOne

----------------------------------------------------------------------------
(* The theorems.                                                           *)

LEMMA InitInv ==
  ASSUME Init
  PROVE  Inv
<1>1. bound \in Scenarios /\ bound.spawned \subseteq Sessions /\ bound.poked \subseteq Sessions /\ bound.msgs \in Nat
  BY DispatcherAssumption DEF Init
<1>2. \A s \in Sessions : SpawnEvent(s) \in Event /\ Spawns(SpawnEvent(s))
  <2> TAKE s \in Sessions
  <2>1. s \in Ids /\ SimOf[s] \in SimIds /\ {s} \in SUBSET (Sessions \cup {AgentType}) /\ "spawn_agent" \in EventKinds
    BY DispatcherAssumption DEF Ids, SimIds, EventKinds
  <2> QED
    BY <2>1 DEF SpawnEvent, Event, Spawns
<1>3. \A e \in queue \cup http : e \in Event /\ Spawns(e)
  BY <1>1, <1>2 DEF Init
<1>4. PICK none : none = [s \in Sessions |-> <<>>]
  OBVIOUS
<1>5. /\ none \in [Sessions -> Seq(Event)] /\ none \in [Sessions -> Seq(Nat)]
      /\ \A s \in Sessions : DOMAIN none[s] = {}
  BY <1>4
<1>6. PICK f \in [Nat -> Nat] : f = [n \in Nat |-> 0]
  OBVIOUS
<1>7. DOMAIN Blank.inbox = {} /\ \A s \in Sessions : DOMAIN Blank.runs[s] = {}
  BY BlankInstance
<1>8. \A t \in Threads : ~Relaying(Blank, t)
  BY BlankInstance DEF Relaying, Idle
<1>9. sent = <<>> /\ sent \in Seq(SimIds) /\ Len(sent) = 0
  BY DEF Init
<1>10. InstanceInv(Blank, none, none, f, sent, http)
  <2>1. SoundInstance(Blank, sent)
    BY <1>7, <1>8, BlankInstance DEF SoundInstance
  <2>2. OrderInstance(Blank, none, sent)
    BY <1>5, <1>7 DEF OrderInstance, InboxOrder, OrderOf
  <2>3. OnceInstance(Blank, none, f, sent, http)
    BY <1>5, <1>7, <1>8, BlankInstance DEF OnceInstance, OnceFor, Distinct, Apart
  <2> QED
    BY <1>5, <2>1, <2>2, <2>3, BlankInstance DEF InstanceInv
<1>11. PokesInv(f, sent, http)
  BY <1>3, SpawnIds DEF PokesInv
<1>12. \A d \in Dispatchers : disp[d] = Blank /\ log[d] = none /\ raced[d] = none
  BY <1>4 DEF Init
<1>13. Tags(disp, log, raced, sent, http)
  BY <1>10, <1>11, <1>12 DEF Tags, Tagged
<1>14. TypeOK
  <2>1. disp \in [Dispatchers -> Instance]
    BY BlankInstance DEF Init
  <2>2. log \in [Dispatchers -> [Sessions -> Seq(Event)]] /\ raced \in [Dispatchers -> [Sessions -> Seq(Nat)]]
    BY <1>4, <1>5 DEF Init
  <2>3. reg \in [Sessions -> SimIds] /\ phase \in [Sims -> {"spawn", "race", "ended"}] /\ cut = {} /\ faults \in Nat
    BY DEF Init, SimIds
  <2> QED
    BY <1>1, <1>3, <1>9, <2>1, <2>2, <2>3 DEF TypeOK
<1> QED
  BY <1>1, <1>3, <1>9, <1>13, <1>14 DEF Inv

LEMMA StepInv ==
  ASSUME Inv, [Next /\ UNCHANGED bound]_vars
  PROVE  Inv'
<1>1. CASE UNCHANGED vars
  BY <1>1 DEF vars, history, Inv, TypeOK, Tags, Tagged, Spawns
<1>2. CASE Next /\ bound' = bound
  <2>1. CASE Send
    BY <1>2, <2>1, SendKeeps
  <2>2. CASE LosePoke
    BY <1>2, <2>2, LosePokeKeeps
  <2>3. ASSUME NEW d \in Dispatchers, TakePubsub(d) PROVE Inv'
    BY <1>2, <2>3, PubsubKeeps
  <2>4. ASSUME NEW d \in Dispatchers, TakeQueue(d) PROVE Inv'
    BY <1>2, <2>4, QueueKeeps
  <2>5. ASSUME NEW d \in Dispatchers, TakeHttp(d) PROVE Inv'
    BY <1>2, <2>5, HttpKeeps
  <2>6. ASSUME NEW d \in Dispatchers, Resume(d) PROVE Inv'
    <3>1. PICK t \in Threads : Register(d, t) \/ Subscribe(d, t) \/ Relay(d, t) \/ Clear(d, t)
      BY <2>6 DEF Resume
    <3> QED
      BY <1>2, <3>1, RegisterKeeps, SubscribeKeeps, RelayKeeps, ClearKeeps
  <2>7. ASSUME NEW d \in Dispatchers, Scheduled(d) PROVE Inv'
    BY <1>2, <2>7, ScheduledKeeps
  <2>8. ASSUME NEW d \in Dispatchers, NEW s \in Sessions, StartRun(d, s) PROVE Inv'
    BY <1>2, <2>8, StartRunKeeps
  <2>9. ASSUME NEW d \in Dispatchers, Disconnect(d) PROVE Inv'
    BY <1>2, <2>9, DisconnectKeeps
  <2>10. ASSUME NEW d \in Dispatchers, Reconnect(d) PROVE Inv'
    BY <1>2, <2>10, ReconnectKeeps
  <2>11. ASSUME NEW d \in Dispatchers, Crash(d) PROVE Inv'
    BY <1>2, <2>11, CrashKeeps
  <2> QED
    BY <1>2, <2>1, <2>2, <2>3, <2>4, <2>5, <2>6, <2>7, <2>8, <2>9, <2>10, <2>11 DEF Next
<1> QED
  BY <1>1, <1>2

LEMMA InvHolds == Spec => []Inv
<1>1. Init => Inv
  BY InitInv
<1>2. Inv /\ [Next /\ UNCHANGED bound]_vars => Inv'
  BY StepInv
<1> QED
  BY <1>1, <1>2, PTL DEF Spec

\* The records of the instances, the messages on their way and the histories
\* keep their types.
THEOREM TypeCorrect == Spec => []TypeOK
<1>1. Inv => TypeOK
  BY DEF Inv
<1> QED
  BY <1>1, InvHolds, PTL

\* As long as the duplicate filter has room for every id, a user's message or a
\* click runs a session at most once between two resets or restarts of an
\* instance, whichever of the three ways each copy takes.
THEOREM OnceAlwaysPerInstance ==
  ASSUME FilterSuffices
  PROVE  Spec => []OncePerInstance
<1>1. Inv => OncePerInstance
  <2> SUFFICES ASSUME Inv, NEW d \in Dispatchers, NEW s \in Sessions,
                      NEW i \in 1 .. Len(log[d][s]), NEW j \in 1 .. Len(log[d][s]), i # j
               PROVE  ~Clash(log[d][s][i], log[d][s][j])
    BY DEF OncePerInstance, Clash
  <2>1. PICK f \in [Nat -> Nat] : Tagged(f, disp, log, raced, sent, http)
    BY DEF Inv, Tags
  <2>2. log[d][s] \in Seq(Event)
    BY DEF Inv, TypeOK
  <2>3. Distinct(log[d][s])
    BY <2>1 DEF Tagged, InstanceInv, OnceInstance, OnceFor
  <2>4. i \in DOMAIN log[d][s] /\ j \in DOMAIN log[d][s]
    <3>1. PICK q \in Seq(Event) : q = log[d][s]
      BY <2>2
    <3>2. DOMAIN q = 1 .. Len(q)
      OBVIOUS
    <3> QED
      BY <3>1, <3>2
  <2> QED
    BY <2>3, <2>4 DEF Distinct
<1> QED
  BY <1>1, InvHolds, PTL

\* What the abstract specification sees of an instance.
LEMMA SeesInit ==
  ASSUME Init
  PROVE  Delivery!Init
<1>1. \A r \in Dispatchers \X Sessions : raced[r[1]][r[2]] = <<>>
  BY DEF Init
<1> QED
  BY <1>1 DEF Init, Delivery!Init

LEMMA SeesPublish ==
  ASSUME raced' = raced, sent' = sent \/ \E m \in SimIds : sent' = Append(sent, m)
  PROVE  [Delivery!Next]_<<sent, [r \in Dispatchers \X Sessions |-> raced[r[1]][r[2]]]>>
BY DEF Delivery!Next, Delivery!Publish, SimIds

LEMMA SeesRun ==
  ASSUME Inv, NEW d \in Dispatchers, NEW s \in Sessions, StartRun(d, s)
  PROVE  [Delivery!Next]_<<sent, [r \in Dispatchers \X Sessions |-> raced[r[1]][r[2]]]>>
<1>1. PICK f \in [Nat -> Nat] : Tagged(f, disp, log, raced, sent, http)
  BY DEF Inv, Tags
<1>2. PICK q \in Seq(Event) : q = disp[d].runs[s] /\ q # <<>>
  <2>1. disp[d] \in Instance
    BY DEF Inv, TypeOK
  <2>2. disp[d].runs \in [Sessions -> Seq(Event)]
    BY <2>1, InstanceTypes
  <2>3. disp[d].runs[s] \in Seq(Event) /\ disp[d].runs[s] # <<>>
    BY <2>2 DEF StartRun
  <2> QED
    BY <2>3
<1>3. PICK e \in Event : e = Head(q) /\ e = q[1] /\ 1 \in DOMAIN q
  BY <1>2, HeadFirst
<1>4. sent' = sent
  BY DEF StartRun
<1>5. CASE ~Scoped(e)
  <2>1. raced' = raced
    BY <1>2, <1>3, <1>5 DEF StartRun, Scoped
  <2> QED
    BY <1>4, <2>1
<1>6. CASE Scoped(e)
  <2>1. raced' = [raced EXCEPT ![d][s] = Append(@, e.origin)]
    BY <1>2, <1>3, <1>6 DEF StartRun, Scoped
  <2>2. SoundInstance(disp[d], sent) /\ OrderOf(disp[d], raced[d][s], s, Len(sent))
    BY <1>1 DEF Tagged, InstanceInv, OrderInstance
  <2>3. Sound(e, sent)
    BY <1>2, <1>3, <2>2 DEF SoundInstance
  <2>4. e.origin \in 1 .. Len(sent) /\ sent[e.origin] = SimOf[s]
    BY <1>2, <1>3, <1>6, <2>2, <2>3 DEF Sound, OrderOf, Scoped
  <2>5. \A k \in DOMAIN raced[d][s] : raced[d][s][k] < e.origin
    BY <1>2, <1>3, <1>6, <2>2 DEF OrderOf
  <2>6. PICK h \in Seq(Nat) : h = raced[d][s]
    BY DEF Inv, TypeOK
  <2>7. \A k \in 1 .. Len(raced[d][s]) : raced[d][s][k] < e.origin
    <3>1. DOMAIN h = 1 .. Len(h)
      OBVIOUS
    <3> QED
      BY <2>5, <2>6, <3>1
  <2> DEFINE got == [r \in Dispatchers \X Sessions |-> raced[r[1]][r[2]]]
             r == <<d, s>>
  <2>8. r \in Dispatchers \X Sessions /\ r[1] = d /\ r[2] = s
    OBVIOUS
  <2>9. [x \in Dispatchers \X Sessions |-> raced'[x[1]][x[2]]] = [got EXCEPT ![r] = Append(@, e.origin)]
    <3>1. \A u \in Dispatchers, v \in Sessions :
            raced'[u][v] = IF u = d /\ v = s THEN Append(raced[d][s], e.origin) ELSE raced[u][v]
      BY <2>1 DEF Inv, TypeOK
    <3>2. \A x \in Dispatchers \X Sessions :
            raced'[x[1]][x[2]] = IF x = r THEN Append(got[r], e.origin) ELSE got[x]
      <4> TAKE x \in Dispatchers \X Sessions
      <4>1. PICK u \in Dispatchers, v \in Sessions : x = <<u, v>>
        OBVIOUS
      <4>2. x = r <=> (u = d /\ v = s)
        BY <4>1
      <4>3. got[x] = raced[u][v] /\ got[r] = raced[d][s] /\ x[1] = u /\ x[2] = v
        BY <4>1
      <4> QED
        BY <3>1, <4>2, <4>3
    <3> QED
      BY <3>2
  <2>10. Delivery!Run(r, e.origin)
    BY <1>4, <2>4, <2>7, <2>8, <2>9 DEF Delivery!Run
  <2> QED
    BY <2>4, <2>8, <2>10 DEF Delivery!Next
<1> QED
  BY <1>5, <1>6

LEMMA StepRefines ==
  ASSUME Inv, [Next /\ UNCHANGED bound]_vars
  PROVE  [Delivery!Next]_<<sent, [r \in Dispatchers \X Sessions |-> raced[r[1]][r[2]]]>>
<1>1. NoSim \in SimIds /\ Sims \subseteq SimIds
  BY DEF SimIds
<1>2. CASE UNCHANGED vars
  BY <1>2 DEF vars, history
<1>3. ASSUME NEW d \in Dispatchers, NEW s \in Sessions, StartRun(d, s)
      PROVE  [Delivery!Next]_<<sent, [r \in Dispatchers \X Sessions |-> raced[r[1]][r[2]]]>>
  BY <1>3, SeesRun
<1>4. ASSUME Next, \A d \in Dispatchers, s \in Sessions : ~StartRun(d, s)
      PROVE  raced' = raced /\ (sent' = sent \/ \E m \in SimIds : sent' = Append(sent, m))
  <2>1. CASE Send
    <3>1. ASSUME NEW m \in Sims, SendTick(m) \/ SendEnd(m)
          PROVE  raced' = raced /\ \E k \in SimIds : sent' = Append(sent, k)
      BY <1>1, <3>1 DEF SendTick, SendEnd, Sending, history
    <3>2. ASSUME NEW T, SendUser(T) PROVE raced' = raced /\ \E k \in SimIds : sent' = Append(sent, k)
      BY <1>1, <3>2 DEF SendUser, Sending, history
    <3>3. ASSUME NEW s, SendAction(s) PROVE raced' = raced /\ \E k \in SimIds : sent' = Append(sent, k)
      BY <1>1, <3>3 DEF SendAction, Sending, history
    <3>4. ASSUME SendReset PROVE raced' = raced /\ \E k \in SimIds : sent' = Append(sent, k)
      BY <1>1, <3>4 DEF SendReset, Sending, history
    <3> QED
      BY <2>1, <3>1, <3>2, <3>3, <3>4 DEF Send
  <2>2. CASE LosePoke
    BY <2>2 DEF LosePoke, history
  <2>3. ASSUME NEW d, NEW t, NEW e, NEW L, Process(d, t, e, L)
        PROVE  raced' = raced /\ (sent' = sent \/ \E m \in SimIds : sent' = Append(sent, m))
    BY <1>1, <2>3 DEF Process, history
  <2>4. ASSUME NEW d \in Dispatchers, TakePubsub(d) \/ TakeQueue(d) \/ TakeHttp(d)
        PROVE  raced' = raced /\ (sent' = sent \/ \E m \in SimIds : sent' = Append(sent, m))
    BY <2>3, <2>4 DEF TakePubsub, TakeQueue, TakeHttp
  <2>5. ASSUME NEW d \in Dispatchers, Resume(d) PROVE raced' = raced /\ sent' = sent
    BY <2>5 DEF Resume, Register, Subscribe, Relay, Clear, history
  <2>6. ASSUME NEW d \in Dispatchers, Scheduled(d) \/ Disconnect(d) \/ Reconnect(d) \/ Crash(d)
        PROVE  raced' = raced /\ sent' = sent
    BY <2>6 DEF Scheduled, Disconnect, Reconnect, Crash, history
  <2> QED
    BY <1>4, <2>1, <2>2, <2>4, <2>5, <2>6 DEF Next
<1>5. CASE Next
  BY <1>3, <1>4, <1>5, SeesPublish
<1> QED
  BY <1>2, <1>5

\* The instances implement scoped delivery, whatever is lost, cancelled or
\* restarted: a session runs broadcasts of its own simulation only, in the order
\* in which they were sent, and each at most once on an instance.
THEOREM DispatchersDeliver == Spec => ImplementsDelivery
<1>1. Init => Delivery!Init
  BY SeesInit
<1>2. Inv /\ [Next /\ UNCHANGED bound]_vars
      => [Delivery!Next]_<<sent, [r \in Dispatchers \X Sessions |-> raced[r[1]][r[2]]]>>
  BY StepRefines
<1> QED
  BY <1>1, <1>2, InvHolds, PTL DEF Spec, ImplementsDelivery, Delivery!Spec
=============================================================================
