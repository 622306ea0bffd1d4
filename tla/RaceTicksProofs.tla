-------------------------- MODULE RaceTicksProofs --------------------------
(***************************************************************************)
(* Proofs about RaceTicks for any number of runners, ticks, missed ticks   *)
(* and rehydrations.                                                       *)
(*                                                                         *)
(* All four invariants rest on when a tick number exists.  A tick is       *)
(* Published from the opening of its window on; runners only hold and run  *)
(* published ticks, so a new one is larger than all of them; and the tick  *)
(* of the open window only ever reaches the runners of the window, so only *)
(* they can report it.                                                     *)
(***************************************************************************)
EXTENDS RaceTicks, FiniteSetTheorems, TLAPS

Waiting == {"sleep", "poll", "reported"}

Published(t) == t < tick \/ (t = tick /\ phase \in Waiting)

Queue(r) == {inbox[r][i] : i \in DOMAIN inbox[r]}

\* A queue in order, and later than the ticks in S.
InOrder(q, S) ==
  /\ \A i \in DOMAIN q, u \in S : u < q[i]
  /\ \A i, j \in DOMAIN q : i < j => q[i] < q[j]

TicksInv ==
  /\ \A r \in Runners : \A t \in Queue(r) \cup ran[r] : Published(t)
  /\ \A r \in Runners : InOrder(inbox[r], ran[r])

WindowInv ==
  /\ phase \in Waiting \cup {"open"} => tick < MaxTicks
  /\ phase \in Waiting => \A r \in Runners \ active : tick \notin Queue(r) \cup ran[r]
  /\ results # {} => phase \in Waiting
  /\ phase = "reported" => Cardinality(Reported) >= Cardinality(active)

\* What a report says is so, wherever it is.
Honest(m) ==
  /\ m.tick \in ran[m.runner]
  /\ m.status = "finished" => status[m.runner] = "finished"

ReportsInv ==
  /\ \A m \in results \cup buffer \cup events : Honest(m)
  /\ \A m \in results : m.tick = tick
  /\ \A r \in finished : status[r] = "finished"

RaceInv == TypeOK /\ TicksInv /\ WindowInv /\ ReportsInv

----------------------------------------------------------------------------
(* Queues and sets of reports.                                             *)

LEMMA AppendInOrder ==
  ASSUME NEW q \in Seq(Nat), NEW S \in SUBSET Nat, NEW t \in Nat, InOrder(q, S),
         \A i \in DOMAIN q : q[i] < t, \A u \in S : u < t
  PROVE  /\ Append(q, t) \in Seq(Nat)
         /\ InOrder(Append(q, t), S)
         /\ \A i \in DOMAIN Append(q, t) :
              Append(q, t)[i] = t \/ \E j \in DOMAIN q : Append(q, t)[i] = q[j]
<1>1. /\ Append(q, t) \in Seq(Nat)
      /\ DOMAIN q = 1 .. Len(q) /\ Len(q) \in Nat
      /\ DOMAIN Append(q, t) = 1 .. Len(q) + 1
      /\ \A i \in 1 .. Len(q) : Append(q, t)[i] = q[i] /\ q[i] \in Nat
      /\ Append(q, t)[Len(q) + 1] = t
  OBVIOUS
<1>2. \A i \in 1 .. Len(q) + 1 : i \in 1 .. Len(q) \/ i = Len(q) + 1
  BY <1>1
<1>3. InOrder(Append(q, t), S)
  BY <1>1, <1>2 DEF InOrder
<1> QED
  BY <1>1, <1>2, <1>3

LEMMA TailInOrder ==
  ASSUME NEW q \in Seq(Nat), NEW S \in SUBSET Nat, InOrder(q, S), q # <<>>
  PROVE  /\ Tail(q) \in Seq(Nat) /\ Head(q) \in Nat
         /\ InOrder(Tail(q), S \cup {Head(q)}) /\ InOrder(Tail(q), S)
         /\ \E i \in DOMAIN q : Head(q) = q[i]
         /\ \A i \in DOMAIN Tail(q) : \E j \in DOMAIN q : Tail(q)[i] = q[j]
<1>1. /\ Tail(q) \in Seq(Nat) /\ Head(q) \in Nat /\ Head(q) = q[1]
      /\ DOMAIN q = 1 .. Len(q) /\ Len(q) \in Nat \ {0}
      /\ DOMAIN Tail(q) = 1 .. Len(q) - 1
      /\ \A i \in 1 .. Len(q) - 1 : Tail(q)[i] = q[i + 1]
      /\ \A i \in 1 .. Len(q) : q[i] \in Nat
  OBVIOUS
<1>2. \A i \in 1 .. Len(q) - 1 : i + 1 \in 1 .. Len(q) /\ 1 < i + 1
  BY <1>1
<1>3. ASSUME NEW i \in DOMAIN Tail(q), NEW j \in DOMAIN Tail(q), i < j
      PROVE  Tail(q)[i] < Tail(q)[j]
  <2>1. /\ i \in 1 .. Len(q) - 1 /\ j \in 1 .. Len(q) - 1
    BY <1>1, Zenon
  <2>2. /\ i + 1 \in DOMAIN q /\ j + 1 \in DOMAIN q
        /\ Tail(q)[i] = q[i + 1] /\ Tail(q)[j] = q[j + 1]
    BY <1>1, <1>2, <2>1, Zenon
  <2>3. i + 1 < j + 1
    BY <1>3, <2>1
  <2> QED
    BY <2>2, <2>3 DEF InOrder
<1>4. ASSUME NEW i \in DOMAIN Tail(q)
      PROVE  Head(q) < Tail(q)[i] /\ \A u \in S : u < Tail(q)[i]
  <2>1. i + 1 \in DOMAIN q /\ 1 \in DOMAIN q /\ 1 < i + 1 /\ Tail(q)[i] = q[i + 1]
    BY <1>1, <1>2
  <2> QED
    BY <1>1, <2>1 DEF InOrder
<1>5. InOrder(Tail(q), S \cup {Head(q)}) /\ InOrder(Tail(q), S)
  BY <1>3, <1>4 DEF InOrder
<1>6. 1 \in DOMAIN q
  BY <1>1
<1> QED
  BY <1>1, <1>2, <1>5, <1>6

\* Who reports a finish has finished.
LEMMA FinishesAreTrue ==
  ASSUME ReportsInv, ChannelType, NEW M, M \subseteq results \cup buffer
  PROVE  /\ \A s : WithStatus(M, s) \subseteq Runners
         /\ \A r \in WithStatus(M, "finished") : status[r] = "finished"
BY DEF ReportsInv, ChannelType, WithStatus, Honest, Reports

\* Only the runners of the window report its tick.
LEMMA ReportedAreActive ==
  ASSUME RaceInv
  PROVE  Reported \subseteq active
<1>1. SUFFICES ASSUME NEW m \in results PROVE m.runner \in active
  BY DEF Reported
<1>2. phase \in Waiting /\ tick \in ran[m.runner]
  BY DEF RaceInv, WindowInv, ReportsInv, Honest
<1>3. m.runner \in Runners
  BY DEF RaceInv, TypeOK, ChannelType, Reports
<1> QED
  BY <1>2, <1>3 DEF RaceInv, WindowInv

----------------------------------------------------------------------------
(* The steps of the simulator.                                             *)

LEMMA InitLemma == Init => RaceInv
<1> SUFFICES ASSUME Init PROVE RaceInv
  OBVIOUS
<1>1. TypeOK
  BY RaceAssumption
     DEF Init, TypeOK, SimType, ChannelType, RunnerType, Statuses
<1>2. TicksInv
  BY DEF Init, TicksInv, Queue, InOrder
<1>3. WindowInv
  BY RaceAssumption DEF Init, WindowInv, Waiting
<1>4. ReportsInv
  BY DEF Init, ReportsInv
<1> QED
  BY <1>1, <1>2, <1>3, <1>4 DEF RaceInv

LEMMA OpenWindowLemma == RaceInv /\ OpenWindow => RaceInv'
<1> SUFFICES ASSUME RaceInv, OpenWindow PROVE RaceInv'
  OBVIOUS
<1> USE DEF RaceInv
<1>1. /\ \A r \in Runners : inbox[r] \in Seq(Nat) /\ ran[r] \in SUBSET Nat
      /\ tick \in Nat
  BY RaceAssumption DEF TypeOK, RunnerType, SimType
<1>2. ASSUME NEW r \in Runners
      PROVE /\ \A i \in DOMAIN inbox[r] : inbox[r][i] < tick
            /\ \A u \in ran[r] : u < tick
  BY DEF OpenWindow, TicksInv, Published, Queue, Waiting
<1>3. ASSUME NEW r \in Runners
      PROVE /\ inbox'[r] \in Seq(Nat) /\ InOrder(inbox'[r], ran[r])
            /\ \A t \in Queue(r)' : t \in Queue(r) \/ (t = tick /\ r \in active')
  <2>1. CASE r \in active'
    <3>1. inbox'[r] = Append(inbox[r], tick)
      BY <2>1 DEF OpenWindow
    <3>2. inbox[r] \in Seq(Nat) /\ ran[r] \in SUBSET Nat /\ InOrder(inbox[r], ran[r])
      BY <1>1 DEF TicksInv
    <3>3. /\ inbox'[r] \in Seq(Nat) /\ InOrder(inbox'[r], ran[r])
          /\ \A i \in DOMAIN inbox'[r] :
               inbox'[r][i] = tick \/ \E j \in DOMAIN inbox[r] : inbox'[r][i] = inbox[r][j]
      BY <1>1, <1>2, <3>1, <3>2, AppendInOrder
    <3> QED
      BY <2>1, <3>3 DEF Queue
  <2>2. CASE r \notin active'
    BY <1>1, <2>2 DEF TicksInv, OpenWindow, Queue
  <2> QED
    BY <2>1, <2>2
<1>4. /\ WithStatus(buffer, "finished") \subseteq Runners
      /\ \A r \in WithStatus(buffer, "finished") : status[r] = "finished"
  BY FinishesAreTrue DEF TypeOK
<1>5. TypeOK'
  <2>1. SimType'
    BY <1>4 DEF TypeOK, SimType, OpenWindow
  <2>2. ChannelType'
    BY DEF TypeOK, ChannelType, OpenWindow
  <2>3. RunnerType'
    BY <1>3 DEF TypeOK, RunnerType, OpenWindow
  <2> QED
    BY <2>1, <2>2, <2>3 DEF TypeOK
<1>6. TicksInv'
  <2>1. \A t \in Nat : Published(t) => Published(t)'
    BY DEF Published, OpenWindow, Waiting
  <2>2. Published(tick)'
    BY DEF Published, OpenWindow, Waiting
  <2>3. \A r \in Runners : \A t \in Queue(r) \cup ran[r] : t \in Nat /\ Published(t)
    BY <1>1 DEF TicksInv, Queue
  <2> QED
    BY <1>3, <2>1, <2>2, <2>3 DEF TicksInv, OpenWindow
<1>7. WindowInv'
  <2>1. tick' < MaxTicks /\ phase' = "sleep" /\ results' = {} /\ tick' = tick
    BY DEF WindowInv, OpenWindow
  <2>2. \A r \in Runners \ active' : tick \notin Queue(r)' \cup ran'[r]
    BY <1>1, <1>2, <1>3 DEF OpenWindow, Queue
  <2> QED
    BY <2>1, <2>2 DEF WindowInv
<1>8. ReportsInv'
  BY <1>4 DEF ReportsInv, Honest, OpenWindow
<1> QED
  BY <1>5, <1>6, <1>7, <1>8

LEMMA DrainLemma == RaceInv /\ Drain => RaceInv'
<1> SUFFICES ASSUME RaceInv, Drain PROVE RaceInv'
  OBVIOUS
<1> USE DEF RaceInv
<1>1. WithStatus(buffer, "finished") \subseteq Runners
  BY FinishesAreTrue DEF TypeOK
<1>2. TypeOK'
  BY <1>1 DEF TypeOK, SimType, ChannelType, RunnerType, Drain, Current, runnerVars
<1>3. TicksInv'
  BY DEF TicksInv, Published, Queue, Drain, runnerVars, Waiting
<1>4. WindowInv'
  <2>1. phase \in Waiting /\ phase' \in Waiting /\ tick' = tick /\ active' = active
    BY DEF Drain, Waiting
  <2>2. phase' = "reported" => Cardinality(Reported)' >= Cardinality(active)'
    BY DEF Drain
  <2>3. \A r \in Runners : Queue(r)' = Queue(r) /\ ran'[r] = ran[r]
    BY DEF Drain, runnerVars, Queue
  <2> QED
    BY <2>1, <2>2, <2>3 DEF WindowInv
<1>5. ReportsInv'
  BY DEF ReportsInv, Honest, Drain, Current, runnerVars
<1> QED
  BY <1>2, <1>3, <1>4, <1>5

LEMMA CloseWindowLemma == RaceInv /\ CloseWindow => RaceInv'
<1> SUFFICES ASSUME RaceInv, CloseWindow PROVE RaceInv'
  OBVIOUS
<1> USE DEF RaceInv
<1>1. /\ \A s : WithStatus(results, s) \subseteq Runners
      /\ \A r \in WithStatus(results, "finished") : status[r] = "finished"
  BY FinishesAreTrue DEF TypeOK
<1>2. tick < MaxTicks /\ tick \in Nat /\ phase \in Waiting /\ phase' = "check" /\ tick' = tick + 1
  BY RaceAssumption DEF WindowInv, CloseWindow, Waiting, TypeOK, SimType
<1>3. TypeOK'
  <2>1. SimType'
    BY <1>1, <1>2, RaceAssumption DEF TypeOK, SimType, CloseWindow
  <2> QED
    BY <2>1 DEF TypeOK, ChannelType, RunnerType, CloseWindow, runnerVars, channels
<1>4. TicksInv'
  <2>1. \A t \in Nat : Published(t) => Published(t)'
    BY <1>2 DEF Published
  <2>2. \A r \in Runners : Queue(r) \cup ran[r] \subseteq Nat
    BY DEF TypeOK, RunnerType, Queue
  <2>3. \A r \in Runners : Queue(r)' = Queue(r) /\ ran'[r] = ran[r] /\ inbox'[r] = inbox[r]
    BY DEF CloseWindow, runnerVars, Queue
  <2> QED
    BY <2>1, <2>2, <2>3 DEF TicksInv
<1>5. WindowInv'
  BY <1>2 DEF WindowInv, CloseWindow, Waiting
<1>6. ReportsInv'
  BY <1>1 DEF ReportsInv, Honest, CloseWindow, runnerVars, channels
<1> QED
  BY <1>3, <1>4, <1>5, <1>6

\* The steps outside a window.
LEMMA BetweenLemma == RaceInv /\ (CheckRaceComplete \/ PostRace) => RaceInv'
<1> SUFFICES ASSUME RaceInv, CheckRaceComplete \/ PostRace PROVE RaceInv'
  OBVIOUS
<1> USE DEF RaceInv
<1>0. phase' = "open" => tick < MaxTicks
  BY RaceAssumption DEF CheckRaceComplete, PostRace, TypeOK, SimType
<1>1. /\ phase \notin Waiting /\ phase' \in {"open", "post", "over"}
      /\ UNCHANGED <<tick, active, results, finished, collapsed, runnerVars, events, finishRead>>
      /\ buffer' \subseteq buffer /\ collecting' \in BOOLEAN
  BY DEF CheckRaceComplete, PostRace, Waiting, channels, TypeOK, ChannelType
<1>2. TypeOK'
  BY <1>1 DEF TypeOK, SimType, ChannelType, RunnerType, runnerVars
<1>3. TicksInv'
  BY <1>1 DEF TicksInv, Published, Queue, runnerVars, Waiting
<1>4. WindowInv'
  BY <1>0, <1>1 DEF WindowInv, Waiting
<1>5. ReportsInv'
  BY <1>1 DEF ReportsInv, Honest, runnerVars
<1> QED
  BY <1>2, <1>3, <1>4, <1>5

----------------------------------------------------------------------------
(* The steps of the runners and the collector.                             *)

\* The simulator's part of the invariant when only a runner moves.
LEMMA WindowStays ==
  ASSUME RaceInv, UNCHANGED simVars,
         \A r \in Runners : Queue(r)' \cup ran'[r] \subseteq Queue(r) \cup ran[r]
  PROVE  WindowInv' /\ \A r \in Runners : \A t \in Queue(r)' \cup ran'[r] : Published(t)'
BY DEF RaceInv, WindowInv, TicksInv, Published, simVars, Reported

LEMMA ProcessTickLemma ==
  ASSUME RaceInv, NEW r \in Runners, ProcessTick(r)
  PROVE  RaceInv'
<1> USE DEF RaceInv
<1>0. PICK t : t = Head(inbox[r])
  OBVIOUS
<1>1. PICK s \in Outcomes(r, t), written \in BOOLEAN :
        /\ ~written => status[r] = "running" /\ losses < MaxLosses
        /\ losses' = losses + IF written THEN 0 ELSE 1
        /\ status' = [status EXCEPT ![r] = s]
        /\ ran' = [ran EXCEPT ![r] = @ \cup {t}]
        /\ buffer' = buffer \cup IF written /\ status[r] = "running" THEN {Report(r, t, s)} ELSE {}
        /\ events' = events \cup {Report(r, t, s)}
  BY <1>0 DEF ProcessTick
<1>2. /\ inbox[r] \in Seq(Nat) /\ inbox[r] # <<>> /\ ran[r] \in SUBSET Nat
      /\ inbox' = [inbox EXCEPT ![r] = Tail(@)]
      /\ UNCHANGED simVars /\ collecting' = collecting /\ revivals' = revivals
      /\ finishRead' = finishRead
  BY DEF TypeOK, RunnerType, ProcessTick
<1>3. /\ Tail(inbox[r]) \in Seq(Nat) /\ t \in Nat
      /\ InOrder(Tail(inbox[r]), ran[r] \cup {t})
      /\ \E i \in DOMAIN inbox[r] : t = inbox[r][i]
      /\ \A i \in DOMAIN Tail(inbox[r]) : \E j \in DOMAIN inbox[r] : Tail(inbox[r])[i] = inbox[r][j]
  BY <1>0, <1>2, TailInOrder DEF TicksInv
<1>4. s \in Statuses /\ (status[r] = "finished" => s = "finished")
  BY <1>1, RaceAssumption DEF Outcomes, TypeOK, RunnerType, Statuses
<1>5. /\ inbox'[r] = Tail(inbox[r]) /\ ran'[r] = ran[r] \cup {t} /\ status'[r] = s
      /\ \A q \in Runners \ {r} : /\ inbox'[q] = inbox[q] /\ ran'[q] = ran[q]
                                  /\ status'[q] = status[q]
  BY <1>1, <1>2 DEF TypeOK, RunnerType
<1>6. \A q \in Runners : Queue(q)' \cup ran'[q] \subseteq Queue(q) \cup ran[q]
  <2>1. Queue(r)' \subseteq Queue(r) /\ t \in Queue(r)
    BY <1>3, <1>5 DEF Queue
  <2>2. \A q \in Runners \ {r} : Queue(q)' = Queue(q)
    BY <1>5 DEF Queue
  <2> QED
    BY <1>5, <2>1, <2>2
<1>7. TypeOK'
  <2>1. SimType'
    BY <1>2 DEF TypeOK, SimType, simVars
  <2>2. ChannelType'
    BY <1>1, <1>2, <1>3, <1>4 DEF TypeOK, ChannelType, Report, Reports, simVars
  <2>3. RunnerType'
    <3>1. status' \in [Runners -> Statuses] /\ inbox' \in [Runners -> Seq(Nat)]
      BY <1>1, <1>2, <1>3, <1>4 DEF TypeOK, RunnerType
    <3>2. ran' \in [Runners -> SUBSET Nat]
      BY <1>1, <1>3 DEF TypeOK, RunnerType
    <3>3. losses' \in 0 .. MaxLosses
      <4>1. CASE written
        BY <1>1, <4>1 DEF TypeOK, RunnerType
      <4>2. CASE ~written
        BY <1>1, <4>2, RaceAssumption DEF TypeOK, RunnerType
      <4> QED
        BY <4>1, <4>2
    <3> QED
      BY <1>2, <3>1, <3>2, <3>3 DEF TypeOK, RunnerType
  <2> QED
    BY <2>1, <2>2, <2>3 DEF TypeOK
<1>8. TicksInv' /\ WindowInv'
  BY <1>2, <1>3, <1>5, <1>6, WindowStays DEF TicksInv
<1>9. ReportsInv'
  <2>1. \A m \in Reports : Honest(m) => Honest(m)'
    BY <1>4, <1>5 DEF Honest, Reports
  <2>2. Honest(Report(r, t, s))'
    BY <1>5 DEF Honest, Report
  <2>3. \A m \in results' \cup buffer' \cup events' :
          m \in results \cup buffer \cup events \/ m = Report(r, t, s)
    BY <1>1, <1>2 DEF simVars
  <2>4. results \cup buffer \cup events \subseteq Reports
    BY DEF TypeOK, ChannelType
  <2>5. \A m \in results' \cup buffer' \cup events' : Honest(m)'
    BY <2>1, <2>2, <2>3, <2>4 DEF ReportsInv
  <2>6. \A q \in Runners : status[q] = "finished" => status'[q] = "finished"
    BY <1>4, <1>5
  <2>7. finished \subseteq Runners
    BY DEF TypeOK, SimType
  <2> QED
    BY <1>2, <2>5, <2>6, <2>7 DEF ReportsInv, simVars
<1> QED
  BY <1>7, <1>8, <1>9

LEMMA MissTickLemma ==
  ASSUME RaceInv, NEW r \in Runners, MissTick(r)
  PROVE  RaceInv'
<1> USE DEF RaceInv
<1>1. /\ inbox[r] \in Seq(Nat) /\ inbox[r] # <<>> /\ ran[r] \in SUBSET Nat
      /\ inbox' = [inbox EXCEPT ![r] = Tail(@)]
      /\ losses' = losses + 1 /\ losses < MaxLosses
      /\ UNCHANGED <<simVars, channels, status, revivals, ran, finishRead>>
  BY DEF TypeOK, RunnerType, MissTick
<1>2. /\ Tail(inbox[r]) \in Seq(Nat)
      /\ InOrder(Tail(inbox[r]), ran[r])
      /\ \A i \in DOMAIN Tail(inbox[r]) : \E j \in DOMAIN inbox[r] : Tail(inbox[r])[i] = inbox[r][j]
  BY <1>1, TailInOrder DEF TicksInv
<1>3. /\ inbox'[r] = Tail(inbox[r])
      /\ \A q \in Runners \ {r} : inbox'[q] = inbox[q]
  BY <1>1 DEF TypeOK, RunnerType
<1>4. \A q \in Runners : Queue(q)' \subseteq Queue(q)
  <2>1. Queue(r)' \subseteq Queue(r)
    BY <1>2, <1>3 DEF Queue
  <2>2. \A q \in Runners \ {r} : Queue(q)' = Queue(q)
    BY <1>3 DEF Queue
  <2> QED
    BY <2>1, <2>2
<1>5. TypeOK'
  <2>1. SimType' /\ ChannelType'
    BY <1>1 DEF TypeOK, SimType, ChannelType, simVars, channels
  <2>2. RunnerType'
    BY <1>1, <1>2, RaceAssumption DEF TypeOK, RunnerType
  <2> QED
    BY <2>1, <2>2 DEF TypeOK
<1>6. TicksInv' /\ WindowInv'
  BY <1>1, <1>2, <1>3, <1>4, WindowStays DEF TicksInv
<1>7. ReportsInv'
  BY <1>1 DEF ReportsInv, Honest, simVars, channels
<1> QED
  BY <1>5, <1>6, <1>7

LEMMA RehydrateLemma ==
  ASSUME RaceInv, NEW r \in Runners, Rehydrate(r)
  PROVE  RaceInv'
<1> USE DEF RaceInv
<1>1. /\ status[r] # "finished" /\ revivals < MaxRevivals /\ revivals' = revivals + 1
      /\ status' = [status EXCEPT ![r] = "running"]
      /\ UNCHANGED <<simVars, channels, inbox, losses, ran, finishRead>>
  BY DEF Rehydrate
<1>2. \A q \in Runners : status[q] = "finished" => status'[q] = "finished"
  BY <1>1 DEF TypeOK, RunnerType
<1>3. TypeOK'
  <2>1. SimType' /\ ChannelType'
    BY <1>1 DEF TypeOK, SimType, ChannelType, simVars, channels
  <2>2. RunnerType'
    BY <1>1, RaceAssumption DEF TypeOK, RunnerType, Statuses
  <2> QED
    BY <2>1, <2>2 DEF TypeOK
<1>4. TicksInv' /\ WindowInv'
  <2>1. \A q \in Runners : Queue(q)' = Queue(q)
    BY <1>1 DEF Queue
  <2> QED
    BY <1>1, <2>1, WindowStays DEF TicksInv
<1>5. ReportsInv'
  <2>1. finished \subseteq Runners /\ results \cup buffer \cup events \subseteq Reports
    BY DEF TypeOK, SimType, ChannelType
  <2>2. \A m \in Reports : Honest(m) => Honest(m)'
    BY <1>1, <1>2 DEF Honest, Reports
  <2> QED
    BY <1>1, <1>2, <2>1, <2>2 DEF ReportsInv, simVars, channels
<1> QED
  BY <1>3, <1>4, <1>5

LEMMA CollectEventLemma ==
  ASSUME RaceInv, NEW m \in events, CollectEvent(m)
  PROVE  RaceInv'
<1> USE DEF RaceInv
<1>1. /\ buffer' = buffer \cup {m} /\ events' = events \ {m}
      /\ UNCHANGED <<simVars, runnerVars, collecting, finishRead>>
  BY DEF CollectEvent
<1>2. TypeOK'
  BY <1>1 DEF TypeOK, SimType, ChannelType, RunnerType, simVars, runnerVars
<1>3. TicksInv' /\ WindowInv'
  <2>1. \A q \in Runners : Queue(q)' = Queue(q)
    BY <1>1 DEF Queue, runnerVars
  <2> QED
    BY <1>1, <2>1, WindowStays DEF TicksInv, runnerVars
<1>4. ReportsInv'
  BY <1>1 DEF ReportsInv, Honest, simVars, runnerVars
<1> QED
  BY <1>2, <1>3, <1>4

----------------------------------------------------------------------------
LEMMA NextLemma == RaceInv /\ [Next]_vars => RaceInv'
<1> SUFFICES ASSUME RaceInv, [Next]_vars PROVE RaceInv'
  OBVIOUS
<1>1. CASE SimulatorStep
  BY <1>1, OpenWindowLemma, DrainLemma, CloseWindowLemma, BetweenLemma DEF SimulatorStep
<1>2. CASE \E r \in Runners : ProcessTick(r) \/ MissTick(r) \/ Rehydrate(r)
  BY <1>2, ProcessTickLemma, MissTickLemma, RehydrateLemma
<1>3. CASE \E m \in events : CollectEvent(m)
  BY <1>3, CollectEventLemma
<1>4. CASE UNCHANGED vars
  <2>1. UNCHANGED <<simVars, runnerVars, channels, finishRead>>
    BY <1>4 DEF vars
  <2>2. TypeOK'
    BY <2>1 DEF RaceInv, TypeOK, SimType, ChannelType, RunnerType, simVars, runnerVars, channels
  <2>3. TicksInv' /\ WindowInv'
    BY <2>1 DEF RaceInv, TicksInv, WindowInv, Published, Queue, Reported, simVars, runnerVars
  <2>4. ReportsInv'
    BY <2>1 DEF RaceInv, ReportsInv, Honest, simVars, runnerVars, channels
  <2> QED
    BY <2>2, <2>3, <2>4 DEF RaceInv
<1> QED
  BY <1>1, <1>2, <1>3, <1>4 DEF Next

LEMMA RaceInvariant == Spec => []RaceInv
BY InitLemma, NextLemma, PTL DEF Spec

\* Every reachable state is well typed: no race runs past its last tick.
THEOREM TypeCorrect == Spec => []TypeOK
<1>1. RaceInv => TypeOK
  BY DEF RaceInv
<1> QED
  BY <1>1, RaceInvariant, PTL

\* advance_tick compares the number of runners that have reported with the
\* number that it expects: when it wakes early, none of them is missing.
THEOREM EarlyWakeAlwaysComplete == Spec => []EarlyWakeIsComplete
<1>1. ASSUME RaceInv PROVE EarlyWakeIsComplete
  <2>1. SUFFICES ASSUME phase = "reported" PROVE active \subseteq Reported
    BY DEF EarlyWakeIsComplete
  <2>2. Reported \subseteq active
    BY <1>1, ReportedAreActive
  <2>3. IsFiniteSet(active)
    BY <1>1, RaceAssumption, FS_Subset DEF RaceInv, TypeOK, SimType
  <2>4. Cardinality(Reported) >= Cardinality(active)
    BY <1>1, <2>1 DEF RaceInv, WindowInv
  <2>5. /\ Cardinality(Reported) <= Cardinality(active)
        /\ Cardinality(Reported) = Cardinality(active) => Reported = active
    BY <2>2, <2>3, FS_Subset
  <2>6. Cardinality(active) \in Nat /\ Cardinality(Reported) \in Nat
    BY <2>2, <2>3, FS_Subset, FS_CardinalityType
  <2>7. Cardinality(Reported) = Cardinality(active)
    BY <2>4, <2>5, <2>6
  <2> QED
    BY <2>5, <2>7
<1> QED
  BY <1>1, RaceInvariant, PTL

\* The dispatcher's queue of a runner never holds a tick twice, out of order,
\* or after process_tick has moved the runner for it.
THEOREM EachTickAlwaysOnce == Spec => []EachTickOnce
<1>1. RaceInv => EachTickOnce
  BY DEF RaceInv, TicksInv, InOrder, EachTickOnce
<1> QED
  BY <1>1, RaceInvariant, PTL

\* What advance_tick counts has happened: the runners of a snapshot have
\* processed its tick, and finished_runner_ids have finished.
THEOREM ResultsAlwaysTrue == Spec => []ResultsAreTrue
<1>1. ASSUME RaceInv PROVE ResultsAreTrue
  <2>1. \A m \in results : tick \in ran[m.runner]
    BY <1>1 DEF RaceInv, ReportsInv, Honest
  <2> QED
    BY <1>1, <2>1 DEF RaceInv, ReportsInv, ResultsAreTrue, Reported
<1> QED
  BY <1>1, RaceInvariant, PTL
=============================================================================
