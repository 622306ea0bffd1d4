----------------------------- MODULE HubProofs -----------------------------
(***************************************************************************)
(* Proofs about Hub, for any number of connections, sessions, simulations, *)
(* workers and messages: its types, and the invariants of the routing maps *)
(* and of the fan-out that the runs of MCHub check on small instances.     *)
(***************************************************************************)
EXTENDS Hub, TLAPS

Unborn(c) == reader[c] \in {"new", "registering"}
RegisterPending(c) == \E r \in handling : r.op = "register" /\ r.client = c

\* A connection that Run has not registered yet is in no map, and neither its
\* pump nor a request of its own can have reached Run before.
Lifecycle ==
  \A c \in Clients :
    /\ Unborn(c) \/ RegisterPending(c) =>
         /\ c \notin clients /\ c \notin closed
         /\ simSubscriptions[c] = {} /\ simBlocked[c] = {}
    /\ Unborn(c) => /\ pump[c] = "new"
                    /\ \A r \in handling : r.client # c

MapInv == TypeOK /\ Lifecycle /\ IndexesAgree /\ ListsDisjoint /\ RoutedAreOpen

\* What every worker owes: the message it routes is its own, and the
\* connections it has not delivered to have no copy of it.
CopiesInv ==
  /\ \A i \in Ids, c \in Clients : i > Len(handled) => copies[i][c] = 0
  /\ \A w \in Workers : worker[w].pc # "idle" =>
       /\ \A c \in Clients : c \notin worker[w].delivered => copies[worker[w].id][c] = 0
       /\ \A v \in Workers : v # w /\ worker[v].pc # "idle" => worker[v].id # worker[w].id

RoutingInv == TypeOK /\ CopiesInv /\ AtMostOneCopy

(***************************************************************************)
(* Type correctness: every step keeps the types, in particular Run never   *)
(* holds two requests and every id in a buffer or a worker is in range.    *)
(***************************************************************************)
LEMMA InitTypeOK == Init => TypeOK
<1> SUFFICES ASSUME Init PROVE TypeOK
  OBVIOUS
<1> USE HubAssumption DEF Init
<1>1. MapTypeOK /\ RequestTypeOK
  BY DEF MapTypeOK, RequestTypeOK, Request
<1>2. ConnTypeOK
  BY DEF ConnTypeOK, ReaderStates
<1>3. FanOutTypeOK
  <2>1. send \in [Clients -> Seq(Ids)] /\ handled \in Seq(Messages) /\ Len(handled) = 0
    OBVIOUS
  <2>2. copies \in [Ids -> [Clients -> Nat]]
    OBVIOUS
  <2>3. worker \in [Workers -> WorkerType]
    BY DEF Idle, WorkerType
  <2>4. \A w \in Workers : worker[w].pc = "idle"
    BY DEF Idle
  <2>5. Len(handled) <= MaxMessages
    BY <2>1
  <2>6. closed = {} /\ panicked = FALSE
    OBVIOUS
  <2> HIDE DEF Init
  <2> QED BY <2>1, <2>2, <2>3, <2>4, <2>5, <2>6 DEF FanOutTypeOK
<1> QED BY <1>1, <1>2, <1>3 DEF TypeOK

LEMMA EnqueueType ==
  ASSUME FanOutTypeOK, NEW i \in Ids, NEW to, Enqueue(i, to)
  PROVE  /\ send' \in [Clients -> Seq(Ids)]
         /\ copies' \in [Ids -> [Clients -> Nat]]
<1>1. \A c \in Clients : Append(send[c], i) \in Seq(Ids)
  BY DEF FanOutTypeOK
<1>2. send' \in [Clients -> Seq(Ids)]
  BY <1>1 DEF Enqueue, FanOutTypeOK
<1>3. [c \in Clients |-> IF c \in to /\ HasRoom(c) THEN copies[i][c] + 1 ELSE copies[i][c]]
        \in [Clients -> Nat]
  BY DEF FanOutTypeOK
<1>4. copies' \in [Ids -> [Clients -> Nat]]
  BY <1>3 DEF Enqueue, FanOutTypeOK
<1> QED BY <1>2, <1>4

LEMMA AcceptType ==
  ASSUME FanOutTypeOK, NEW m \in Messages, Accept(m)
  PROVE  /\ handled' \in Seq(Messages)
         /\ Len(handled') = Len(handled) + 1
         /\ Len(handled') <= MaxMessages
         /\ Len(handled) + 1 \in Ids
BY HubAssumption DEF Accept, FanOutTypeOK, Ids

\* A step that leaves the fan-out's variables alone keeps their types; so for the others.
LEMMA FrameTypes ==
  /\ FanOutTypeOK /\ UNCHANGED <<chanVars, msgVars>> => FanOutTypeOK'
  /\ MapTypeOK /\ UNCHANGED mapVars => MapTypeOK'
  /\ ConnTypeOK /\ UNCHANGED <<connVars, frames>> => ConnTypeOK'
  /\ RequestTypeOK /\ UNCHANGED handling => RequestTypeOK'
BY DEF FanOutTypeOK, MapTypeOK, ConnTypeOK, RequestTypeOK, chanVars, msgVars, mapVars, connVars

\* The reader and the pump change the connection's own state, and the pump its buffer.
LEMMA ConnectionTypes ==
  ASSUME TypeOK, NEW c \in Clients, ReaderStep(c) \/ PumpStep(c)
  PROVE  TypeOK'
<1> USE HubAssumption DEF TypeOK
<1>1. UNCHANGED <<mapVars, handling, msgVars, closed>>
  BY DEF ReaderStep, PumpStep, Register, HandleTextMessage, Unregister, PumpWrite, PumpFail,
         PumpClosed, chanVars, connVars
<1>2. MapTypeOK' /\ RequestTypeOK'
  BY <1>1, FrameTypes
<1>3. CASE \E s \in Sims \cup {NoSim} : Register(c, s)
  <2>1. ConnTypeOK'
    BY <1>3 DEF Register, ConnTypeOK, ReaderStates
  <2>2. FanOutTypeOK'
    BY <1>3, FrameTypes DEF Register
  <2> QED BY <1>2, <2>1, <2>2
<1>4. CASE \E op \in {"subscribe", "unsubscribe"}, s \in Sims : HandleTextMessage(c, op, s)
  <2> PICK op \in {"subscribe", "unsubscribe"}, s \in Sims : HandleTextMessage(c, op, s)
    BY <1>4
  <2>1. frames' \in 0 .. MaxFrames
    BY DEF HandleTextMessage, ConnTypeOK
  <2>2. reader' \in [Clients -> ReaderStates] /\ request' \in [Clients -> Sims \cup {NoSim}]
    BY DEF HandleTextMessage, ConnTypeOK, ReaderStates
  <2>3. ConnTypeOK'
    BY <2>1, <2>2 DEF HandleTextMessage, ConnTypeOK
  <2>4. FanOutTypeOK'
    BY FrameTypes DEF HandleTextMessage
  <2> QED BY <1>2, <2>3, <2>4
<1>5. CASE Unregister(c)
  <2>1. ConnTypeOK'
    BY <1>5 DEF Unregister, ConnTypeOK, ReaderStates
  <2>2. FanOutTypeOK'
    BY <1>5, FrameTypes DEF Unregister
  <2> QED BY <1>2, <2>1, <2>2
<1>6. CASE PumpWrite(c)
  <2>1. Tail(send[c]) \in Seq(Ids)
    BY <1>6 DEF PumpWrite, FanOutTypeOK
  <2>2. FanOutTypeOK'
    BY <1>6, <2>1 DEF PumpWrite, FanOutTypeOK, msgVars
  <2>3. ConnTypeOK'
    BY <1>6, FrameTypes DEF PumpWrite
  <2> QED BY <1>2, <2>2, <2>3
<1>7. CASE PumpFail(c) \/ PumpClosed(c)
  <2>1. ConnTypeOK'
    BY <1>7 DEF PumpFail, PumpClosed, ConnTypeOK
  <2>2. FanOutTypeOK'
    BY <1>7, FrameTypes DEF PumpFail, PumpClosed
  <2> QED BY <1>2, <2>1, <2>2
<1> QED BY <1>3, <1>4, <1>5, <1>6, <1>7 DEF ReaderStep, PumpStep

\* Run takes one request into its hands, and its sender continues.
LEMMA ReceiveTypes ==
  ASSUME TypeOK, NEW c \in Clients, RunReceive(c)
  PROVE  TypeOK'
<1> USE DEF TypeOK
<1>1. UNCHANGED <<mapVars, chanVars, msgVars>>
  BY DEF RunReceive, ReceiveRegister, ReceiveReaderUnregister, ReceivePumpUnregister,
         ReceiveSimRequest
<1>2. ConnTypeOK'
  BY DEF RunReceive, ReceiveRegister, ReceiveReaderUnregister, ReceivePumpUnregister,
         ReceiveSimRequest, ConnTypeOK, ReaderStates
<1>3. PICK op \in {"register", "unregister", "subscribe", "unsubscribe"},
           s \in Sims \cup {NoSim} : Handle(op, c, s)
  BY DEF RunReceive, ReceiveRegister, ReceiveReaderUnregister, ReceivePumpUnregister,
         ReceiveSimRequest, ConnTypeOK
<1>4. RequestTypeOK'
  BY <1>3 DEF Handle, RequestTypeOK, Request
<1> QED BY <1>1, <1>2, <1>4, FrameTypes

\* Applying a request changes the maps, and may close the client's channel.
LEMMA ApplyTypes ==
  ASSUME TypeOK, RunApply
  PROVE  TypeOK'
<1> USE DEF TypeOK
<1>1. UNCHANGED <<connVars, msgVars, frames, send>> /\ handling' = {}
  BY DEF RunApply, ApplyRegister, ApplyUnregister, ApplySubscribe, ApplyUnsubscribe, Handled,
         chanVars
<1>2. ConnTypeOK' /\ RequestTypeOK'
  BY <1>1, FrameTypes DEF RequestTypeOK
<1>3. closed' \subseteq Clients
  BY DEF RunApply, ApplyRegister, ApplyUnregister, ApplySubscribe, ApplyUnsubscribe, chanVars,
         FanOutTypeOK, MapTypeOK
<1>4. FanOutTypeOK'
  BY <1>1, <1>3 DEF FanOutTypeOK, msgVars
<1>5. ASSUME NEW c \in Clients, NEW s \in Sims \cup {NoSim}, ApplyRegister(c, s)
      PROVE  MapTypeOK'
  <2>1. CASE s = NoSim
    BY <1>5, <2>1 DEF ApplyRegister, MapTypeOK
  <2>2. CASE s # NoSim
    BY <1>5, <2>2 DEF ApplyRegister, AddSubscription, MapTypeOK
  <2> QED BY <2>1, <2>2
<1>6. ASSUME NEW c \in Clients, ApplyUnregister(c) PROVE MapTypeOK'
  BY <1>6 DEF ApplyUnregister, MapTypeOK
<1>7. ASSUME NEW c \in Clients, NEW s \in Sims, ApplySubscribe(c, s) PROVE MapTypeOK'
  BY <1>7 DEF ApplySubscribe, AddSubscription, MapTypeOK
<1>8. ASSUME NEW c \in Clients, NEW s \in Sims, ApplyUnsubscribe(c, s) PROVE MapTypeOK'
  BY <1>8 DEF ApplyUnsubscribe, MapTypeOK
<1> QED BY <1>2, <1>4, <1>5, <1>6, <1>7, <1>8 DEF RunApply

\* Fan-outs change buffers, workers and the messages handled.
LEMMA FanOutTypes ==
  ASSUME TypeOK,
         \/ \E m \in Messages : RunFanOut(m)
         \/ \E w \in Workers : WorkerStep(w)
  PROVE  TypeOK'
<1> USE HubAssumption DEF TypeOK
<1>1. UNCHANGED <<mapVars, connVars, frames, handling, closed>>
  BY DEF RunFanOut, WorkerStep, RouteRemote, StoreLookup, RouteFallback, chanVars
<1>2. MapTypeOK' /\ ConnTypeOK' /\ RequestTypeOK'
  BY <1>1, FrameTypes
<1>3. ASSUME NEW m \in Messages, RunFanOut(m) PROVE FanOutTypeOK'
  <2>1. Accept(m)
    BY <1>3 DEF RunFanOut
  <2> DEFINE to == {c \in clients : m.kind = "broadcast" \/ SessionOf[c] \in m.targets}
  <2>2. Enqueue(Len(handled) + 1, to)
    BY <1>3 DEF RunFanOut
  <2> HIDE DEF to
  <2>3. /\ send' \in [Clients -> Seq(Ids)]
        /\ copies' \in [Ids -> [Clients -> Nat]]
    BY <2>1, <2>2, AcceptType, EnqueueType
  <2>4. UNCHANGED <<worker, panicked>>
    BY <1>3 DEF RunFanOut
  <2> QED BY <1>1, <2>1, <2>3, <2>4, AcceptType DEF FanOutTypeOK
<1>4. ASSUME NEW w \in Workers, NEW m \in Messages, RouteRemote(w, m) PROVE FanOutTypeOK'
  <2> DEFINE first   == {c \in DirectRecipients(m) : HasRoom(c)}
             indexed == IF m.sim = NoSim THEN {} ELSE simToClients[m.sim] \ first
             to      == first \cup indexed
  <2>1. Accept(m) /\ Len(handled) + 1 \in Ids
    BY <1>4, AcceptType DEF RouteRemote
  <2>2. to \subseteq Clients
    <3>1. m.sim # NoSim => m.sim \in Sims
      OBVIOUS
    <3> QED BY <3>1 DEF MapTypeOK, DirectRecipients
  <2>3. CASE indexed \cap closed # {}
    <3>1. panicked' = TRUE /\ UNCHANGED <<send, copies, worker>>
      BY <1>4, <2>3 DEF RouteRemote
    <3> QED BY <1>1, <2>1, <3>1, AcceptType DEF FanOutTypeOK
  <2>4. CASE indexed \cap closed = {}
    <3>1. /\ Enqueue(Len(handled) + 1, to)
          /\ worker' = [worker EXCEPT ![w] =
               IF m.sim = NoSim THEN Idle
               ELSE [pc |-> "lookup", id |-> Len(handled) + 1,
                     delivered |-> {c \in to : HasRoom(c)}, found |-> {}]]
          /\ UNCHANGED panicked
      BY <1>4, <2>4 DEF RouteRemote
    <3> HIDE DEF to
    <3>2. /\ send' \in [Clients -> Seq(Ids)]
          /\ copies' \in [Ids -> [Clients -> Nat]]
      BY <2>1, <3>1, EnqueueType
    <3>3. Len(handled) + 1 \in 0 .. MaxMessages
      BY <2>1 DEF Ids
    <3>4. worker' \in [Workers -> WorkerType]
      BY <3>1, <3>3, <2>2 DEF FanOutTypeOK, Idle, WorkerType
    <3>5. \A v \in Workers : worker'[v].pc # "idle" => worker'[v].id \in 1 .. Len(handled')
      <4>1. Len(handled') = Len(handled) + 1 /\ Len(handled) \in Nat
        BY <2>1, AcceptType DEF FanOutTypeOK
      <4> QED BY <3>1, <4>1 DEF FanOutTypeOK, WorkerType, Idle
    <3> QED BY <1>1, <2>1, <3>1, <3>2, <3>4, <3>5, AcceptType DEF FanOutTypeOK
  <2> QED BY <2>3, <2>4
<1>5. ASSUME NEW w \in Workers, NEW found \in SUBSET Sessions, StoreLookup(w, found)
      PROVE  FanOutTypeOK'
  <2>1. worker' = [worker EXCEPT ![w] = [worker[w] EXCEPT !.pc = "fallback", !.found = found]]
    BY <1>5 DEF StoreLookup
  <2>2. worker[w] \in WorkerType /\ worker[w].pc = "lookup"
    BY <1>5 DEF StoreLookup, FanOutTypeOK
  <2>3. /\ [worker[w] EXCEPT !.pc = "fallback", !.found = found] \in WorkerType
        /\ [worker[w] EXCEPT !.pc = "fallback", !.found = found].id = worker[w].id
    BY <2>2 DEF WorkerType
  <2>4. UNCHANGED <<chanVars, handled, panicked, copies>>
    BY <1>5 DEF StoreLookup
  <2> QED BY <2>1, <2>2, <2>3, <2>4 DEF FanOutTypeOK, chanVars
<1>6. ASSUME NEW w \in Workers, RouteFallback(w) PROVE FanOutTypeOK'
  <2>1. worker[w].id \in Ids
    BY <1>6 DEF RouteFallback, FanOutTypeOK, Ids
  <2> DEFINE to == FallbackRecipients(worker[w])
  <2>2. /\ Enqueue(worker[w].id, to)
        /\ worker' = [worker EXCEPT ![w] = Idle]
        /\ UNCHANGED <<handled, panicked>>
    BY <1>6 DEF RouteFallback
  <2> HIDE DEF to
  <2>3. /\ send' \in [Clients -> Seq(Ids)]
        /\ copies' \in [Ids -> [Clients -> Nat]]
    BY <2>1, <2>2, EnqueueType
  <2> QED BY <1>1, <2>2, <2>3 DEF FanOutTypeOK, Idle, WorkerType
<1> QED BY <1>2, <1>3, <1>4, <1>5, <1>6 DEF WorkerStep

LEMMA NextTypeOK == TypeOK /\ [Next]_vars => TypeOK'
<1>1. UNCHANGED vars /\ TypeOK => TypeOK'
  BY FrameTypes DEF vars, TypeOK
<1> QED BY <1>1, ConnectionTypes, ReceiveTypes, ApplyTypes, FanOutTypes DEF Next

\* Every reachable state is well typed; in particular Run never holds two
\* requests, so no two handlers of hub.go ever change the maps at once.
THEOREM TypeCorrect == Spec => []TypeOK
BY InitTypeOK, NextTypeOK, PTL DEF Spec

(***************************************************************************)
(* The routing maps.  IndexesAgree is preserved by every step on its own;  *)
(* ListsDisjoint and RoutedAreOpen need to know that a connection is fresh *)
(* when its registration is applied: nobody has closed its channel or      *)
(* blocked a simulation for it.  Lifecycle says so.                        *)
(***************************************************************************)
LEMMA InitMapInv == Init => MapInv
<1> SUFFICES ASSUME Init PROVE MapInv
  OBVIOUS
<1>1. Lifecycle /\ IndexesAgree /\ ListsDisjoint /\ RoutedAreOpen
  BY DEF Init, Lifecycle, IndexesAgree, ListsDisjoint, RoutedAreOpen, Unborn, RegisterPending
<1> QED BY <1>1, InitTypeOK DEF MapInv

MapFacts == IndexesAgree /\ ListsDisjoint /\ RoutedAreOpen

\* The readers, the pumps and the receptions change none of the maps.
LEMMA MapsUntouched ==
  ASSUME MapFacts, UNCHANGED <<mapVars, closed>>
  PROVE  MapFacts'
BY DEF MapFacts, IndexesAgree, ListsDisjoint, RoutedAreOpen, mapVars

LEMMA ReaderPumpLifecycle ==
  ASSUME TypeOK, Lifecycle, NEW c \in Clients, ReaderStep(c) \/ PumpStep(c)
  PROVE  Lifecycle' /\ UNCHANGED <<mapVars, closed>>
<1>1. UNCHANGED <<mapVars, closed, handling>>
  BY DEF ReaderStep, PumpStep, Register, HandleTextMessage, Unregister, PumpWrite, PumpFail,
         PumpClosed, chanVars
<1>2. \A d \in Clients : (Unborn(d))' <=> Unborn(d)
  BY DEF ReaderStep, PumpStep, Register, HandleTextMessage, Unregister, PumpWrite, PumpFail,
         PumpClosed, Unborn, TypeOK, ConnTypeOK, connVars
<1>3. \A d \in Clients : pump'[d] = pump[d] \/ pump[d] = "running"
  BY DEF ReaderStep, PumpStep, Register, HandleTextMessage, Unregister, PumpWrite, PumpFail,
         PumpClosed, TypeOK, ConnTypeOK, connVars
<1> QED BY <1>1, <1>2, <1>3 DEF Lifecycle, RegisterPending, mapVars

LEMMA ReceiveLifecycle ==
  ASSUME TypeOK, Lifecycle, NEW c \in Clients, RunReceive(c)
  PROVE  Lifecycle' /\ UNCHANGED <<mapVars, closed>>
<1>1. UNCHANGED <<mapVars, closed>>
  BY DEF RunReceive, ReceiveRegister, ReceiveReaderUnregister, ReceivePumpUnregister,
         ReceiveSimRequest, chanVars
<1>2. CASE ReceiveRegister(c)
  <2>1. \A d \in Clients \ {c} : reader'[d] = reader[d] /\ pump'[d] = pump[d]
    BY <1>2 DEF ReceiveRegister, TypeOK, ConnTypeOK
  <2>2. Unborn(c) /\ ~(Unborn(c))'
    BY <1>2 DEF ReceiveRegister, Unborn, TypeOK, ConnTypeOK
  <2>3. \A r \in handling' : r.client = c
    BY <1>2 DEF ReceiveRegister, Handle
  <2> QED BY <1>1, <2>1, <2>2, <2>3 DEF Lifecycle, Unborn, RegisterPending, mapVars
<1>3. CASE ReceiveReaderUnregister(c) \/ ReceivePumpUnregister(c) \/ ReceiveSimRequest(c)
  <2>1. /\ \A r \in handling' : r.client = c /\ r.op # "register"
        /\ \A d \in Clients : (Unborn(d))' <=> Unborn(d)
    BY <1>3 DEF ReceiveReaderUnregister, ReceivePumpUnregister, ReceiveSimRequest, Handle,
                Unborn, TypeOK, ConnTypeOK
  <2>2. ~Unborn(c)
    BY <1>3 DEF ReceiveReaderUnregister, ReceivePumpUnregister, ReceiveSimRequest, Unborn,
                Lifecycle
  <2>3. \A d \in Clients : Unborn(d) => pump'[d] = pump[d]
    BY <1>3, <2>2 DEF ReceiveReaderUnregister, ReceivePumpUnregister, ReceiveSimRequest, TypeOK,
                ConnTypeOK
  <2> QED BY <1>1, <2>1, <2>2, <2>3 DEF Lifecycle, RegisterPending, mapVars
<1> QED BY <1>1, <1>2, <1>3 DEF RunReceive

LEMMA ApplyMaps ==
  ASSUME TypeOK, Lifecycle, MapFacts, RunApply
  PROVE  Lifecycle' /\ MapFacts'
<1> USE DEF TypeOK, MapTypeOK
<1>1. ASSUME NEW c \in Clients, NEW s \in Sims \cup {NoSim}, ApplyRegister(c, s)
      PROVE  Lifecycle' /\ MapFacts'
  <2>1. RegisterPending(c) /\ handling' = {} /\ UNCHANGED <<reader, pump>>
    BY <1>1 DEF ApplyRegister, Handled, RegisterPending, connVars
  <2>2. c \notin closed /\ simBlocked[c] = {} /\ ~Unborn(c)
    <3>1. \E r \in handling : r.client = c
      BY <2>1 DEF RegisterPending
    <3> QED BY <2>1, <3>1 DEF Lifecycle
  <2>3. /\ clients' = clients \cup {c} /\ connToClient' = connToClient \cup {c}
        /\ UNCHANGED <<simBlocked, closed>>
        /\ \A d \in Clients \ {c} : simSubscriptions'[d] = simSubscriptions[d]
    BY <1>1 DEF ApplyRegister, AddSubscription, chanVars
  <2>4. Lifecycle'
    BY <2>1, <2>2, <2>3 DEF Lifecycle, Unborn, RegisterPending
  <2>5. RoutedAreOpen'
    BY <2>2, <2>3 DEF MapFacts, RoutedAreOpen
  <2>6. ListsDisjoint'
    BY <2>2, <2>3 DEF MapFacts, ListsDisjoint
  <2>7. IndexesAgree'
    BY <1>1, HubAssumption DEF ApplyRegister, AddSubscription, MapFacts, IndexesAgree
  <2> QED BY <2>4, <2>5, <2>6, <2>7 DEF MapFacts
<1>2. ASSUME NEW c \in Clients, ApplyUnregister(c) PROVE Lifecycle' /\ MapFacts'
  <2>1. handling = {[op |-> "unregister", client |-> c, sim |-> NoSim]} /\ handling' = {}
        /\ UNCHANGED <<reader, pump>>
    BY <1>2 DEF ApplyUnregister, Handled, connVars
  <2>2. ~Unborn(c)
    BY <2>1 DEF Lifecycle
  <2>3. Lifecycle'
    BY <1>2, <2>1, <2>2 DEF ApplyUnregister, Lifecycle, Unborn, RegisterPending
  <2>4. IndexesAgree'
    BY <1>2 DEF ApplyUnregister, MapFacts, IndexesAgree
  <2>5. ListsDisjoint' /\ RoutedAreOpen'
    BY <1>2 DEF ApplyUnregister, MapFacts, ListsDisjoint, RoutedAreOpen
  <2> QED BY <2>3, <2>4, <2>5 DEF MapFacts
<1>3. ASSUME NEW c \in Clients, NEW s \in Sims, ApplySubscribe(c, s) \/ ApplyUnsubscribe(c, s)
      PROVE  Lifecycle' /\ MapFacts'
  <2>1. /\ \A r \in handling : r.client = c /\ r.op # "register"
        /\ handling # {} /\ handling' = {}
        /\ UNCHANGED <<reader, pump, clients, connToClient, closed>>
    <3>1. PICK op \in {"subscribe", "unsubscribe"} : Handled(op, c, s)
      BY <1>3 DEF ApplySubscribe, ApplyUnsubscribe
    <3>2. UNCHANGED <<clients, connToClient, closed>>
      BY <1>3 DEF ApplySubscribe, ApplyUnsubscribe, chanVars
    <3> QED BY <3>1, <3>2 DEF Handled, connVars
  <2>2. ~Unborn(c)
    BY <2>1 DEF Lifecycle
  <2>3. \A d \in Clients \ {c} : /\ simSubscriptions'[d] = simSubscriptions[d]
                                 /\ simBlocked'[d] = simBlocked[d]
    BY <1>3 DEF ApplySubscribe, ApplyUnsubscribe, AddSubscription
  <2>4. Lifecycle'
    BY <2>1, <2>2, <2>3 DEF Lifecycle, Unborn, RegisterPending
  <2>5. IndexesAgree'
    BY <1>3 DEF ApplySubscribe, ApplyUnsubscribe, AddSubscription, MapFacts, IndexesAgree
  <2>6. ListsDisjoint' /\ RoutedAreOpen'
    BY <1>3, <2>1 DEF ApplySubscribe, ApplyUnsubscribe, AddSubscription, MapFacts, ListsDisjoint,
                      RoutedAreOpen
  <2> QED BY <2>4, <2>5, <2>6 DEF MapFacts
<1> QED BY <1>1, <1>2, <1>3 DEF RunApply

LEMMA FanOutMaps ==
  ASSUME \/ \E m \in Messages : RunFanOut(m)
         \/ \E w \in Workers : WorkerStep(w)
  PROVE  UNCHANGED <<mapVars, closed, reader, pump, handling>>
BY DEF RunFanOut, WorkerStep, RouteRemote, StoreLookup, RouteFallback, connVars, chanVars

LEMMA NextMapInv == MapInv /\ [Next]_vars => MapInv'
<1> SUFFICES ASSUME MapInv, [Next]_vars PROVE MapInv'
  OBVIOUS
<1>1. TypeOK /\ Lifecycle /\ MapFacts
  BY DEF MapInv, MapFacts
<1>2. TypeOK'
  BY <1>1, NextTypeOK
<1>3. ASSUME UNCHANGED <<mapVars, closed, reader, pump, handling>>
      PROVE  Lifecycle' /\ MapFacts'
  BY <1>1, <1>3, MapsUntouched DEF Lifecycle, Unborn, RegisterPending, mapVars
<1>4. UNCHANGED vars => UNCHANGED <<mapVars, closed, reader, pump, handling>>
  BY DEF vars, chanVars, connVars
<1>5. Lifecycle' /\ MapFacts'
  BY <1>1, <1>3, <1>4, ReaderPumpLifecycle, ReceiveLifecycle, ApplyMaps, FanOutMaps,
     MapsUntouched DEF Next
<1> QED BY <1>2, <1>5 DEF MapInv, MapFacts

LEMMA MapInvariant == Spec => []MapInv
BY InitMapInv, NextMapInv, PTL DEF Spec

\* Allowlists and reverse index are one relation in every reachable state: the
\* phases of processRemoteMessage cannot disagree about who subscribes.
THEOREM IndexesAlwaysAgree == Spec => []IndexesAgree
<1>1. MapInv => IndexesAgree
  BY DEF MapInv
<1> QED BY <1>1, MapInvariant, PTL

\* No simulation is ever both on the allowlist and on the blocklist of a connection.
THEOREM ListsAlwaysDisjoint == Spec => []ListsDisjoint
<1>1. MapInv => ListsDisjoint
  BY DEF MapInv
<1> QED BY <1>1, MapInvariant, PTL

\* The session maps never route to a connection whose channel Run has closed,
\* however reader and pump unregister it.
THEOREM RoutedAlwaysOpen == Spec => []RoutedAreOpen
<1>1. MapInv => RoutedAreOpen
  BY DEF MapInv
<1> QED BY <1>1, MapInvariant, PTL

(***************************************************************************)
(* The fan-out.  A message has no copies before it is handled; while a     *)
(* worker routes it, a connection outside the worker's delivered set has   *)
(* none, and no other worker routes the same message.                      *)
(***************************************************************************)
LEMMA InitRoutingInv == Init => RoutingInv
<1> SUFFICES ASSUME Init PROVE RoutingInv
  OBVIOUS
<1>1. CopiesInv /\ AtMostOneCopy
  BY DEF Init, CopiesInv, AtMostOneCopy, Idle
<1> QED BY <1>1, InitTypeOK DEF RoutingInv

\* What Enqueue adds: a copy for the connections in to, nothing for the others.
LEMMA EnqueueCopies ==
  ASSUME FanOutTypeOK, NEW i \in Ids, NEW to, Enqueue(i, to)
  PROVE  /\ \A j \in Ids \ {i}, c \in Clients : copies'[j][c] = copies[j][c]
         /\ \A c \in Clients : copies'[i][c] =
              IF c \in to /\ HasRoom(c) THEN copies[i][c] + 1 ELSE copies[i][c]
BY DEF Enqueue, FanOutTypeOK

LEMMA QuietRouting ==
  ASSUME CopiesInv, AtMostOneCopy, UNCHANGED <<worker, handled, copies>>
  PROVE  CopiesInv' /\ AtMostOneCopy'
BY DEF CopiesInv, AtMostOneCopy

LEMMA BusyIds ==
  ASSUME FanOutTypeOK, NEW w \in Workers, worker[w].pc # "idle"
  PROVE  worker[w].id \in Ids /\ worker[w].id <= Len(handled) /\ Len(handled) \in Nat
BY HubAssumption DEF FanOutTypeOK, Ids

LEMMA FanOutCopies ==
  ASSUME TypeOK, CopiesInv, AtMostOneCopy, NEW m \in Messages, RunFanOut(m)
  PROVE  CopiesInv' /\ AtMostOneCopy'
<1> USE DEF TypeOK
<1> DEFINE to == {c \in clients : m.kind = "broadcast" \/ SessionOf[c] \in m.targets}
           i  == Len(handled) + 1
<1>1. Accept(m) /\ Enqueue(i, to) /\ UNCHANGED worker
  BY DEF RunFanOut
<1>2. i \in Ids /\ Len(handled') = i /\ Len(handled) \in Nat
  BY <1>1, AcceptType DEF FanOutTypeOK
<1> HIDE DEF to
<1>3. /\ \A j \in Ids \ {i}, c \in Clients : copies'[j][c] = copies[j][c]
      /\ \A c \in Clients : copies'[i][c] \in {0, 1}
  BY <1>1, <1>2, EnqueueCopies DEF CopiesInv
<1>4. AtMostOneCopy'
  BY <1>2, <1>3 DEF AtMostOneCopy
<1>5. \A w \in Workers : worker[w].pc # "idle" => worker[w].id \in Ids \ {i}
  BY <1>2, BusyIds
<1>6. CopiesInv'
  BY <1>1, <1>2, <1>3, <1>5 DEF CopiesInv, Ids
<1> QED BY <1>4, <1>6

LEMMA RouteRemoteCopies ==
  ASSUME TypeOK, CopiesInv, AtMostOneCopy, NEW w \in Workers, NEW m \in Messages,
         RouteRemote(w, m)
  PROVE  CopiesInv' /\ AtMostOneCopy'
<1> USE DEF TypeOK
<1> DEFINE first   == {c \in DirectRecipients(m) : HasRoom(c)}
           indexed == IF m.sim = NoSim THEN {} ELSE simToClients[m.sim] \ first
           to      == first \cup indexed
           i       == Len(handled) + 1
<1>1. Accept(m) /\ worker[w].pc = "idle"
  BY DEF RouteRemote
<1>2. i \in Ids /\ Len(handled') = i /\ Len(handled) \in Nat
  BY <1>1, AcceptType DEF FanOutTypeOK
<1>3. \A v \in Workers : worker[v].pc # "idle" => worker[v].id \in Ids \ {i}
  BY <1>2, BusyIds
<1>4. CASE indexed \cap closed # {}
  <2>1. UNCHANGED <<copies, worker>>
    BY <1>4 DEF RouteRemote
  <2> QED BY <1>2, <1>3, <2>1 DEF CopiesInv, AtMostOneCopy, Ids
<1>5. CASE indexed \cap closed = {}
  <2>1. /\ Enqueue(i, to)
        /\ worker' = [worker EXCEPT ![w] =
             IF m.sim = NoSim THEN Idle
             ELSE [pc |-> "lookup", id |-> i, delivered |-> {c \in to : HasRoom(c)},
                   found |-> {}]]
    BY <1>5 DEF RouteRemote
  <2> HIDE DEF to
  <2>2. /\ \A j \in Ids \ {i}, c \in Clients : copies'[j][c] = copies[j][c]
        /\ \A c \in Clients : copies'[i][c] = IF c \in to /\ HasRoom(c) THEN 1 ELSE 0
    BY <1>2, <2>1, EnqueueCopies DEF CopiesInv
  <2>3. AtMostOneCopy'
    BY <1>2, <2>2 DEF AtMostOneCopy
  <2>4. \A v \in Workers : worker'[v].pc # "idle" =>
          \/ v = w /\ worker'[v].id = i /\ worker'[v].delivered = {c \in to : HasRoom(c)}
          \/ v # w /\ worker'[v] = worker[v] /\ worker[v].id \in Ids \ {i}
    BY <1>3, <2>1 DEF FanOutTypeOK, Idle
  <2>5. \A j \in Ids, c \in Clients : j > Len(handled') => copies'[j][c] = 0
    BY <1>2, <2>2 DEF CopiesInv, Ids
  <2>6. ASSUME NEW v \in Workers, worker'[v].pc # "idle"
        PROVE  /\ \A c \in Clients : c \notin worker'[v].delivered => copies'[worker'[v].id][c] = 0
               /\ \A u \in Workers : u # v /\ worker'[u].pc # "idle" =>
                                       worker'[u].id # worker'[v].id
    BY <2>2, <2>4, <2>6 DEF CopiesInv
  <2> QED BY <2>3, <2>5, <2>6 DEF CopiesInv
<1> QED BY <1>4, <1>5

LEMMA StoreLookupCopies ==
  ASSUME TypeOK, CopiesInv, AtMostOneCopy, NEW w \in Workers, NEW found \in SUBSET Sessions,
         StoreLookup(w, found)
  PROVE  CopiesInv' /\ AtMostOneCopy'
<1>1. UNCHANGED <<handled, copies>> /\ worker[w].pc = "lookup"
  BY DEF StoreLookup
<1>2. \A v \in Workers : /\ worker'[v].id = worker[v].id
                         /\ worker'[v].delivered = worker[v].delivered
                         /\ worker'[v].pc # "idle" => worker[v].pc # "idle"
  BY <1>1 DEF StoreLookup, TypeOK, FanOutTypeOK, WorkerType
<1> QED BY <1>1, <1>2 DEF CopiesInv, AtMostOneCopy

LEMMA RouteFallbackCopies ==
  ASSUME TypeOK, CopiesInv, AtMostOneCopy, NEW w \in Workers, RouteFallback(w)
  PROVE  CopiesInv' /\ AtMostOneCopy'
<1> USE DEF TypeOK
<1> DEFINE to == FallbackRecipients(worker[w])
           i  == worker[w].id
<1>1. /\ worker[w].pc = "fallback" /\ Enqueue(i, to)
      /\ worker' = [worker EXCEPT ![w] = Idle] /\ UNCHANGED handled
  BY DEF RouteFallback
<1>2. i \in Ids /\ i <= Len(handled) /\ Len(handled) \in Nat
  BY <1>1, BusyIds
<1>3. \A c \in to : c \in Clients => copies[i][c] = 0
  BY <1>1 DEF FallbackRecipients, CopiesInv
<1> HIDE DEF to
<1>4. /\ \A j \in Ids \ {i}, c \in Clients : copies'[j][c] = copies[j][c]
      /\ \A c \in Clients : copies'[i][c] <= 1
  <2>1. ASSUME NEW c \in Clients PROVE copies'[i][c] <= 1
    <3>1. CASE c \in to /\ HasRoom(c)
      BY <1>1, <1>2, <1>3, <3>1, EnqueueCopies
    <3>2. CASE ~(c \in to /\ HasRoom(c))
      <4>1. copies'[i][c] = copies[i][c]
        BY <1>1, <1>2, <3>2, EnqueueCopies
      <4> QED BY <1>2, <4>1 DEF AtMostOneCopy
    <3> QED BY <3>1, <3>2
  <2> QED BY <1>1, <1>2, <2>1, EnqueueCopies
<1>5. AtMostOneCopy'
  BY <1>4 DEF AtMostOneCopy
<1>6. \A v \in Workers : worker'[v].pc # "idle" =>
        v # w /\ worker'[v] = worker[v] /\ worker[v].id \in Ids \ {i}
  <2>1. \A v \in Workers \ {w} : worker'[v] = worker[v]
    BY <1>1 DEF FanOutTypeOK
  <2>2. worker'[w].pc = "idle"
    BY <1>1 DEF FanOutTypeOK, Idle
  <2> QED BY <1>1, <2>1, <2>2, BusyIds DEF CopiesInv
<1>7. \A j \in Ids, c \in Clients : j > Len(handled') => copies'[j][c] = 0
  BY <1>1, <1>2, <1>4 DEF CopiesInv, Ids
<1>8. CopiesInv'
  BY <1>1, <1>4, <1>6, <1>7 DEF CopiesInv
<1> QED BY <1>5, <1>8

LEMMA NextRoutingInv == RoutingInv /\ [Next]_vars => RoutingInv'
<1> SUFFICES ASSUME RoutingInv, [Next]_vars PROVE RoutingInv'
  OBVIOUS
<1>1. TypeOK /\ CopiesInv /\ AtMostOneCopy
  BY DEF RoutingInv
<1>2. TypeOK'
  BY <1>1, NextTypeOK
<1>3. \/ UNCHANGED <<worker, handled, copies>>
      \/ \E m \in Messages : RunFanOut(m)
      \/ \E w \in Workers : WorkerStep(w)
  BY DEF Next, ReaderStep, PumpStep, RunReceive, RunApply, Register, HandleTextMessage,
         Unregister, PumpWrite, PumpFail, PumpClosed, ReceiveRegister, ReceiveReaderUnregister,
         ReceivePumpUnregister, ReceiveSimRequest, ApplyRegister, ApplyUnregister,
         ApplySubscribe, ApplyUnsubscribe, Handled, msgVars, vars
<1>4. CopiesInv' /\ AtMostOneCopy'
  BY <1>1, <1>3, QuietRouting, FanOutCopies, RouteRemoteCopies, StoreLookupCopies,
     RouteFallbackCopies DEF WorkerStep
<1> QED BY <1>2, <1>4 DEF RoutingInv

LEMMA RoutingInvariant == Spec => []RoutingInv
BY InitRoutingInv, NextRoutingInv, PTL DEF Spec

\* No message is put twice in a connection's buffer, whatever happens to the
\* maps while its worker is waiting for the subscription store.
THEOREM NeverTwoCopies == Spec => []AtMostOneCopy
<1>1. RoutingInv => AtMostOneCopy
  BY DEF RoutingInv
<1> QED BY <1>1, RoutingInvariant, PTL

(***************************************************************************)
(* Who may get a message: the connections phases 1 and 2 address, and the  *)
(* subscribers of its simulation.  Phase 3 reads the reverse index and     *)
(* phase 3b the allowlists; IndexesAgree makes the two answers one.        *)
(***************************************************************************)
Gains(c, i) == copies'[i][c] > copies[i][c]

Entitled(c, i) ==
  \/ handled'[i].kind # "remote"
  \/ c \in DirectRecipients(handled'[i])
  \/ handled'[i].sim \in simSubscriptions[c]

LEMMA GainsAreEntitled ==
  ASSUME TypeOK, IndexesAgree, [Next]_vars, NEW c \in Clients, NEW i \in Ids, Gains(c, i)
  PROVE  Entitled(c, i)
<1> USE DEF TypeOK
<1>1. copies[i][c] \in Nat
  BY DEF FanOutTypeOK
<1>2. copies' # copies
  BY <1>1 DEF Gains
<1>3. \/ \E m \in Messages : RunFanOut(m)
      \/ \E w \in Workers, m \in Messages : RouteRemote(w, m)
      \/ \E w \in Workers : RouteFallback(w)
  BY <1>2 DEF Next, ReaderStep, PumpStep, RunReceive, RunApply, Register, HandleTextMessage,
         Unregister, PumpWrite, PumpFail, PumpClosed, ReceiveRegister, ReceiveReaderUnregister,
         ReceivePumpUnregister, ReceiveSimRequest, ApplyRegister, ApplyUnregister,
         ApplySubscribe, ApplyUnsubscribe, Handled, msgVars, vars, WorkerStep, StoreLookup
<1>4. ASSUME NEW m \in Messages, Accept(m), i = Len(handled) + 1 PROVE handled'[i] = m
  BY <1>4 DEF Accept, FanOutTypeOK
<1>5. ASSUME NEW m \in Messages, RunFanOut(m) PROVE Entitled(c, i)
  <2> DEFINE to == {d \in clients : m.kind = "broadcast" \/ SessionOf[d] \in m.targets}
  <2>1. Accept(m) /\ m.kind # "remote" /\ Enqueue(Len(handled) + 1, to)
    BY <1>5 DEF RunFanOut
  <2> HIDE DEF to
  <2>2. i = Len(handled) + 1
    BY <1>1, <2>1, AcceptType, EnqueueCopies DEF Gains
  <2> QED BY <1>4, <2>1, <2>2 DEF Entitled
<1>6. ASSUME NEW w \in Workers, NEW m \in Messages, RouteRemote(w, m) PROVE Entitled(c, i)
  <2> DEFINE first   == {d \in DirectRecipients(m) : HasRoom(d)}
             indexed == IF m.sim = NoSim THEN {} ELSE simToClients[m.sim] \ first
             to      == first \cup indexed
  <2>1. Accept(m) /\ Enqueue(Len(handled) + 1, to)
    BY <1>2, <1>6 DEF RouteRemote
  <2>2. c \in to => c \in DirectRecipients(m) \/ m.sim \in simSubscriptions[c]
    <3>1. m.sim # NoSim => m.sim \in Sims
      BY HubAssumption
    <3> QED BY <3>1 DEF IndexesAgree
  <2> HIDE DEF to
  <2>3. i = Len(handled) + 1 /\ c \in to
    BY <1>1, <2>1, AcceptType, EnqueueCopies DEF Gains
  <2> QED BY <1>4, <2>1, <2>2, <2>3 DEF Entitled
<1>7. ASSUME NEW w \in Workers, RouteFallback(w) PROVE Entitled(c, i)
  <2> DEFINE to == FallbackRecipients(worker[w])
  <2>1. /\ worker[w].id \in Ids /\ Enqueue(worker[w].id, to) /\ UNCHANGED handled
        /\ worker[w].pc = "fallback"
    BY <1>7, BusyIds DEF RouteFallback
  <2>2. c \in to => handled[worker[w].id].sim \in simSubscriptions[c]
    BY DEF FallbackRecipients
  <2> HIDE DEF to
  <2>3. i = worker[w].id /\ c \in to
    BY <1>1, <2>1, EnqueueCopies DEF Gains
  <2> QED BY <2>1, <2>2, <2>3 DEF Entitled
<1> QED BY <1>3, <1>5, <1>6, <1>7

\* No phase gives a global observer a message of a simulation its lists exclude.
THEOREM ObserversAreFiltered == Spec => ObserverFiltered
<1> DEFINE Step == \A c \in Clients, i \in Ids :
       (SessionOf[c] = Observer /\ copies'[i][c] > copies[i][c]) =>
         \/ handled'[i].kind # "remote"
         \/ handled'[i].sim = NoSim
         \/ handled'[i].sim \in simSubscriptions[c]
         \/ simSubscriptions[c] = {} /\ handled'[i].sim \notin simBlocked[c]
<1>1. MapInv /\ [Next]_vars => [Step]_vars
  <2> SUFFICES ASSUME MapInv, [Next]_vars PROVE Step
    OBVIOUS
  <2>1. \A c \in Clients, i \in Ids : Gains(c, i) => Entitled(c, i)
    BY GainsAreEntitled DEF MapInv
  <2> QED BY <2>1 DEF Gains, Entitled, DirectRecipients, ObserverWants
<1>2. Spec => [][Step]_vars
  BY <1>1, MapInvariant, PTL DEF Spec
<1> QED BY <1>2 DEF ObserverFiltered

\* No phase gives a session's connection a message that is neither for all, nor
\* for its session, nor of a simulation it subscribes to.
THEOREM SessionsAreScoped == Spec => SessionScoped
<1> DEFINE Step == \A c \in Clients, i \in Ids :
       (SessionOf[c] # Observer /\ copies'[i][c] > copies[i][c]) =>
         \/ handled'[i].kind # "remote"
         \/ handled'[i].targets = {}
         \/ SessionOf[c] \in handled'[i].targets
         \/ handled'[i].sim \in simSubscriptions[c]
<1>1. MapInv /\ [Next]_vars => [Step]_vars
  <2> SUFFICES ASSUME MapInv, [Next]_vars PROVE Step
    OBVIOUS
  <2>1. \A c \in Clients, i \in Ids : Gains(c, i) => Entitled(c, i)
    BY GainsAreEntitled DEF MapInv
  <2> QED BY <2>1 DEF Gains, Entitled, DirectRecipients
<1>2. Spec => [][Step]_vars
  BY <1>1, MapInvariant, PTL DEF Spec
<1> QED BY <1>2 DEF SessionScoped
=============================================================================
