---------------------------- MODULE RunnerProofs ----------------------------
(***************************************************************************)
(* Proofs about Runner, for any profiles, events, calls of a model and     *)
(* lengths of a race, and about Telemetry, for any turns, calls, workers   *)
(* and lost batches.                                                       *)
(***************************************************************************)
EXTENDS Runner, Telemetry, WellFoundedInduction, TLAPS

----------------------------------------------------------------------------
(* Induction, in a form whose parameter is a set.                          *)

\* Every non-empty set of natural numbers has a least element.
LEMMA LeastNumber ==
  ASSUME NEW T \in SUBSET Nat, T # {}
  PROVE  \E n \in T : \A m \in T : n <= m
<1> DEFINE less == {ss \in Nat \X Nat : ss[1] < ss[2]}
<1>1. IsWellFoundedOn(less, Nat)
  BY NatLessThanWellFounded DEF OpToRel
<1> HIDE DEF less
<1>2. PICK n \in T : \A m \in T : <<m, n>> \notin less
  BY <1>1, WFMin
<1>3. ASSUME NEW m \in T PROVE n <= m
  <2>1. m \in Nat /\ n \in Nat /\ <<m, n>> \notin less
    BY <1>2
  <2> QED
    BY <2>1 DEF less
<1> QED
  BY <1>3

LEMMA Induction ==
  ASSUME NEW S \in SUBSET Nat, 0 \in S, \A n \in S : n + 1 \in S
  PROVE  S = Nat
<1>1. ASSUME Nat \ S # {} PROVE FALSE
  <2>1. PICK n \in Nat \ S : \A m \in Nat \ S : n <= m
    BY <1>1, LeastNumber
  <2>2. n - 1 \in Nat /\ n - 1 \in S
    BY <2>1
  <2>3. (n - 1) + 1 \in S /\ (n - 1) + 1 = n
    BY <2>1, <2>2
  <2> QED
    BY <2>1, <2>3
<1> QED
  BY <1>1

----------------------------------------------------------------------------
(* The state of a runner.                                                  *)

RunnerType ==
  [velocity : Nat \cup {Unset}, distance : 0 .. Race, water : 0 .. Full,
   exhausted : BOOLEAN, collapsed : BOOLEAN, finished : BOOLEAN,
   finishTime : Nat \cup {Unset}, wall : Int, severity : 0 .. 4, cheers : BOOLEAN, wave : Nat]

RunnerTypeOK ==
  /\ mind \in {"autopilot", "llm"} /\ me \in RunnerType /\ clock \in Nat \cup {Unset}
  /\ top \in Nat /\ extras \in Nat

\* VitalsAgree of a state of the session, and that who is at the line has finished.
Vital(m) ==
  /\ m.exhausted <=> m.water < Exhaustion
  /\ m.collapsed => m.exhausted
  /\ m.finished => m.distance = Race /\ m.finishTime # Unset
  /\ m.distance = Race => m.finished

\* A runner without a profile is at the start, and no tick has come.
Unprofiled(m) == m.velocity = Unset => m.distance = 0 /\ clock = Unset

\* How far one can be after the last tick: the first tick takes no time.
Within(m, tick, fastest) == m.distance <= fastest * Minutes * Most(0, tick)

InTime(m, fastest) == m.finished => m.finishTime * fastest >= Race

RunnerInv ==
  /\ RunnerTypeOK /\ Vital(me) /\ Unprofiled(me) /\ me.velocity <= top
  /\ mind = "autopilot" => Within(me, clock, top) /\ InTime(me, top)

----------------------------------------------------------------------------
(* Waves and stations.                                                     *)

LEMMA WaveIsNat == ASSUME NEW index, NEW count PROVE Wave(index, count) \in Nat
<1> DEFINE upTo == WaveConfig(count).upTo
<1> DEFINE later == {i \in DOMAIN upTo : 100 * index < upTo[i] * count}
<1>1. upTo \in {<<>>, <<30>>, <<15, 45>>, <<10, 30, 60>>}
  BY DEF WaveConfig
<1>2. Len(upTo) \in Nat /\ DOMAIN upTo \subseteq Nat \ {0}
  BY <1>1
<1>3. Wave(index, count) =
        IF later = {} THEN Len(upTo) ELSE (CHOOSE i \in later : \A j \in later : i <= j) - 1
  BY DEF Wave
<1>4. later \in SUBSET Nat /\ later \subseteq Nat \ {0}
  BY <1>2
<1> HIDE DEF upTo, later
<1>5. CASE later = {}
  BY <1>2, <1>3, <1>5
<1>6. CASE later # {}
  <2>1. \E i \in later : \A j \in later : i <= j
    BY <1>4, <1>6, LeastNumber
  <2>2. PICK i \in later : i = CHOOSE k \in later : \A j \in later : k <= j
    BY <2>1
  <2>3. Wave(index, count) = i - 1
    BY <1>3, <1>6, <2>2
  <2>4. i \in Nat \ {0}
    BY <1>4
  <2> QED
    BY <2>3, <2>4
<1> QED
  BY <1>5, <1>6

\* The water after each of n stations.
Chain(f, w, exhausted, n) ==
  f = [i \in 0 .. n |-> IF i = 0 THEN {w} ELSE Sip(f[i - 1], exhausted)]

LEMMA ChainExists ==
  ASSUME NEW w, NEW exhausted
  PROVE  \A n \in Nat : \E f : Chain(f, w, exhausted, n)
<1> DEFINE S == {n \in Nat : \E f : Chain(f, w, exhausted, n)}
<1>1. 0 \in S
  <2>1. Chain([i \in 0 .. 0 |-> {w}], w, exhausted, 0)
    BY DEF Chain
  <2> QED
    BY <2>1
<1>2. ASSUME NEW n \in S PROVE n + 1 \in S
  <2>1. n \in Nat
    OBVIOUS
  <2>2. PICK f : Chain(f, w, exhausted, n)
    OBVIOUS
  <2>3. \A i \in 0 .. n : f[i] = IF i = 0 THEN {w} ELSE Sip(f[i - 1], exhausted)
    BY <2>2 DEF Chain
  <2>4. PICK g : g = [i \in 0 .. n + 1 |-> IF i <= n THEN f[i] ELSE Sip(f[n], exhausted)]
    OBVIOUS
  <2>5. ASSUME NEW i \in 0 .. n + 1
        PROVE  g[i] = IF i = 0 THEN {w} ELSE Sip(g[i - 1], exhausted)
    <3>1. CASE i = 0
      BY <2>1, <2>2, <2>4, <3>1 DEF Chain
    <3>2. CASE i \in 1 .. n
      <4>1. f[i] = Sip(f[i - 1], exhausted)
        BY <2>1, <2>3, <3>2
      <4>2. g[i] = f[i] /\ g[i - 1] = f[i - 1]
        BY <2>1, <2>4, <3>2
      <4> QED
        BY <2>1, <3>2, <4>1, <4>2
    <3>3. CASE i = n + 1
      BY <2>1, <2>4, <3>3
    <3> QED
      BY <2>1, <3>1, <3>2, <3>3
  <2>6. Chain(g, w, exhausted, n + 1)
    BY <2>1, <2>4, <2>5 DEF Chain
  <2> QED
    BY <2>1, <2>6
<1>3. S = Nat
  <2>1. S \in SUBSET Nat
    OBVIOUS
  <2> HIDE DEF S
  <2> QED
    BY <1>1, <1>2, <2>1, Induction
<1> QED
  BY <1>3

\* However many stations a tick passes, the water stays within its bounds.
LEMMA AfterStationsTyped ==
  ASSUME NEW w \in 0 .. Full, NEW exhausted, NEW n \in Nat
  PROVE  AfterStations(w, exhausted, n) \subseteq 0 .. Full
<1> DEFINE after[i \in 0 .. n] == IF i = 0 THEN {w} ELSE Sip(after[i - 1], exhausted)
<1>1. AfterStations(w, exhausted, n) = after[n]
  BY DEF AfterStations
<1>2. Chain(after, w, exhausted, n)
  <2>1. \E f : f = [i \in 0 .. n |-> IF i = 0 THEN {w} ELSE Sip(f[i - 1], exhausted)]
    <3>1. \E f : Chain(f, w, exhausted, n)
      BY ChainExists
    <3> QED
      BY <3>1 DEF Chain
  <2> QED
    BY <2>1 DEF Chain
<1>3. \A i \in 0 .. n : after[i] = IF i = 0 THEN {w} ELSE Sip(after[i - 1], exhausted)
  BY <1>2 DEF Chain
<1> HIDE DEF after
<1> DEFINE S == {i \in Nat : i <= n => after[i] \subseteq 0 .. Full}
<1>4. 0 \in S
  BY <1>3
<1>5. ASSUME NEW i \in S PROVE i + 1 \in S
  <2>1. ASSUME i + 1 <= n PROVE after[i + 1] \subseteq 0 .. Full
    <3>1. after[i] \subseteq 0 .. Full
      BY <2>1
    <3>2. after[i + 1] = Sip(after[i], exhausted)
      BY <1>3, <2>1
    <3>3. \A v \in 0 .. Full : Least(Full, v + Refill) \in 0 .. Full
      BY DEF Least, Full, Refill
    <3> QED
      BY <3>1, <3>2, <3>3 DEF Sip
  <2> QED
    BY <2>1
<1>6. S = Nat
  <2>1. S \in SUBSET Nat
    OBVIOUS
  <2> HIDE DEF S
  <2> QED
    BY <1>4, <1>5, <2>1, Induction
<1> QED
  BY <1>1, <1>6

----------------------------------------------------------------------------
(* Distances and times.                                                    *)

LEMMA Division ==
  ASSUME NEW a \in Nat, NEW b \in Nat \ {0}
  PROVE  a \div b \in Nat /\ b * (a \div b) <= a
OBVIOUS

\* A quotient grows with its dividend.
LEMMA DivisionGrows ==
  ASSUME NEW a \in Nat, NEW c \in Nat, a <= c, NEW b \in Nat \ {0}
  PROVE  a \div b <= c \div b
OBVIOUS

Product(v, w, fresh, minutes, left) == v * w * fresh * minutes * left

\* Factors that are at most one never add to the speed.
LEMMA FactorsSlowDown ==
  ASSUME NEW v \in Nat, NEW minutes \in Nat, NEW wMax \in Nat, NEW freshMax \in Nat, NEW leftMax \in Nat,
         NEW w \in 0 .. wMax, NEW fresh \in 0 .. freshMax, NEW left \in 0 .. leftMax
  PROVE  /\ Product(v, w, fresh, minutes, left) \in Nat
         /\ Product(v, w, fresh, minutes, left) <= Product(v, wMax, freshMax, minutes, leftMax)
<1>1. PICK a \in Nat, a1 \in Nat : a = v * w /\ a1 = v * wMax /\ a <= a1
  OBVIOUS
<1>2. PICK b \in Nat, b1 \in Nat : b = a * fresh /\ b1 = a1 * freshMax /\ b <= b1
  <2>1. a * fresh \in Nat /\ a1 * freshMax \in Nat /\ a * fresh <= a1 * fresh
    BY <1>1
  <2>2. a1 * fresh <= a1 * freshMax /\ a1 * fresh \in Nat
    OBVIOUS
  <2> QED
    BY <2>1, <2>2
<1>3. PICK c \in Nat, c1 \in Nat : c = b * minutes /\ c1 = b1 * minutes /\ c <= c1
  BY <1>2
<1>4. c * left \in Nat /\ c1 * leftMax \in Nat /\ c * left <= c1 * leftMax
  <2>1. c * left \in Nat /\ c1 * leftMax \in Nat /\ c * left <= c1 * left
    BY <1>3
  <2>2. c1 * left <= c1 * leftMax /\ c1 * left \in Nat
    OBVIOUS
  <2> QED
    BY <2>1, <2>2
<1>5. /\ Product(v, w, fresh, minutes, left) = c * left
      /\ Product(v, wMax, freshMax, minutes, leftMax) = c1 * leftMax
  BY <1>1, <1>2, <1>3 DEF Product
<1> QED
  BY <1>4, <1>5

\* What a runner covers in some minutes is at most its velocity times these.
LEMMA CoveredBound ==
  ASSUME NEW m \in RunnerType, m.velocity # Unset, NEW t \in Nat, NEW minutes \in Nat
  PROVE  Covered(m, t, minutes) \in Nat /\ Covered(m, t, minutes) <= m.velocity * minutes
<1>1. PICK v \in Nat, water \in 0 .. Full : v = m.velocity /\ water = m.water
  BY DEF RunnerType, Unset
<1>2. PICK full \in Nat \ {0}, fresh1 \in Nat \ {0} : full = Full /\ fresh1 = 1000
  BY DEF Full
<1>3. PICK w \in 0 .. 2 * full : w = Full + m.water
  BY <1>1, <1>2
<1>4. PICK fresh \in 0 .. fresh1 : fresh = Freshness(t)
  BY <1>2 DEF Freshness, Most
<1>5. PICK rest \in 0 .. 4 : rest = 4 - IF m.wall # Unset /\ m.distance > m.wall THEN m.severity ELSE 0
  BY DEF RunnerType
<1>6. PICK whole \in Nat \ {0} : whole = 8 * full * fresh1
  <2>1. 8 * full * fresh1 \in Nat \ {0}
    BY <1>2
  <2> QED
    BY <2>1
<1>7. Covered(m, t, minutes) = Product(v, w, fresh, minutes, rest) \div whole
  BY <1>1, <1>2, <1>3, <1>4, <1>5, <1>6 DEF Covered, Product
<1>8. PICK all \in Nat : /\ all = Product(v, w, fresh, minutes, rest)
                        /\ all <= Product(v, 2 * full, fresh1, minutes, 4)
  <2>1. PICK wMax \in Nat : wMax = 2 * full
    OBVIOUS
  <2>2. /\ Product(v, w, fresh, minutes, rest) \in Nat
        /\ Product(v, w, fresh, minutes, rest) <= Product(v, wMax, fresh1, minutes, 4)
    BY <2>1, FactorsSlowDown
  <2> QED
    BY <2>1, <2>2
<1>9. PICK far \in Nat : far = v * minutes
  OBVIOUS
<1>10. Product(v, 2 * full, fresh1, minutes, 4) = whole * far
  BY <1>6, <1>9 DEF Product
<1>11. all \div whole \in Nat /\ whole * (all \div whole) <= all
  BY Division
<1>12. PICK q \in Nat : q = all \div whole
  BY <1>11
<1>13. whole * q <= whole * far
  <2>1. PICK x \in Nat : x = whole * far
    OBVIOUS
  <2>2. PICK y \in Nat : y = whole * q
    OBVIOUS
  <2> QED
    BY <1>8, <1>10, <1>11, <1>12, <2>1, <2>2
<1>14. q <= far
  BY <1>13
<1> QED
  BY <1>1, <1>7, <1>8, <1>9, <1>12, <1>14

\* The tick of the finish: the runner was at d, ran on by run, and the line lies
\* on the way.  What it covers in a tick is at most far.
LEMMA FinishArithmetic ==
  ASSUME NEW far \in Nat, NEW t \in Nat \ {0}, NEW d \in Nat, NEW run \in Nat \ {0},
         NEW line \in Nat, d < line, line <= d + run, run <= far, d <= far * (t - 1)
  PROVE  far * (d + run - line) <= run * (far * t - line)
<1> DEFINE over == d + run - line
<1>1. over \in Nat /\ over <= run /\ line = d + (run - over)
  OBVIOUS
<1> HIDE DEF over
<1>2. PICK back \in Nat : back = run - over
  BY <1>1
<1>3. run * line = run * d + run * back
  BY <1>1, <1>2
<1>4. PICK k \in Nat : k = far * (t - 1)
  OBVIOUS
<1>5. far * t = k + far
  BY <1>4
<1>6. run * d <= run * k
  BY <1>4
<1>7. run * back <= far * back
  BY <1>2
<1>8. far * back = far * run - far * over
  BY <1>1, <1>2
<1>9. run * (far * t - line) = run * k + run * far - run * line
  BY <1>4, <1>5
<1>10. far * over <= run * (far * t - line)
  <2>1. PICK a \in Int : a = run * d
    OBVIOUS
  <2>2. PICK b \in Int : b = run * back
    BY <1>2
  <2>3. PICK c \in Int : c = far * back
    BY <1>2
  <2>4. PICK e \in Int : e = far * run /\ e = run * far
    OBVIOUS
  <2>5. PICK o \in Int : o = far * over
    BY <1>1
  <2>6. PICK g \in Int : g = run * k
    OBVIOUS
  <2>7. PICK h \in Int : h = run * line
    OBVIOUS
  <2>8. PICK z \in Int : z = run * (far * t - line)
    OBVIOUS
  <2>9. h = a + b /\ a <= g /\ b <= c /\ c = e - o /\ z = g + e - h
    BY <1>3, <1>6, <1>7, <1>8, <1>9, <2>1, <2>2, <2>3, <2>4, <2>5, <2>6, <2>7, <2>8
  <2> QED
    BY <2>5, <2>8, <2>9
<1> QED
  BY <1>10 DEF over

\* The interpolated time, at the highest velocity, is worth the whole race: far
\* is what this velocity covers in a tick of so many minutes.
LEMMA FinishTimeArithmetic ==
  ASSUME NEW fastest \in Nat, NEW minutes \in Nat, NEW t \in Nat \ {0}, NEW d \in Nat,
         NEW run \in Nat \ {0}, NEW line \in Nat, d < line, line <= d + run,
         run <= fastest * minutes, d <= (fastest * minutes) * (t - 1),
         NEW back \in Nat, run * back <= minutes * (d + run - line)
  PROVE  (t * minutes - back) * fastest >= line
<1>1. PICK far \in Nat : far = fastest * minutes
  OBVIOUS
<1>2. PICK over \in Nat : over = d + run - line
  OBVIOUS
<1>3. far * over <= run * (far * t - line)
  BY <1>1, <1>2, FinishArithmetic
<1>4. (run * back) * fastest <= far * over
  <2>1. PICK a \in Nat : a = run * back
    OBVIOUS
  <2>2. PICK b \in Nat : b = minutes * over
    OBVIOUS
  <2>3. a * fastest <= b * fastest
    BY <1>2, <2>1, <2>2
  <2>4. b * fastest = far * over
    BY <1>1, <2>2
  <2> QED
    BY <2>1, <2>3, <2>4
<1>5. PICK x \in Int : x = (t * minutes - back) * fastest
  OBVIOUS
<1>6. run * x = run * (far * t) - (run * back) * fastest
  BY <1>1, <1>5
<1>7. run * (far * t - line) = run * (far * t) - run * line
  OBVIOUS
<1>8. run * line <= run * x
  <2>1. PICK p \in Int : p = run * (far * t)
    OBVIOUS
  <2>2. PICK q \in Int : q = (run * back) * fastest
    OBVIOUS
  <2>3. PICK s \in Int : s = run * line
    OBVIOUS
  <2>4. PICK o \in Int : o = far * over
    OBVIOUS
  <2>5. o <= p - s /\ q <= o /\ run * x = p - q
    BY <1>3, <1>4, <1>6, <1>7, <2>1, <2>2, <2>3, <2>4
  <2> QED
    BY <2>3, <2>5
<1>9. line <= x
  BY <1>8
<1> QED
  BY <1>5, <1>9

----------------------------------------------------------------------------
(* Steps.                                                                  *)

\* What a session may become by a tool or an event, without moving.
Rests(m, n) ==
  /\ n \in RunnerType /\ Vital(n)
  /\ n.distance = m.distance /\ n.finished = m.finished /\ n.finishTime = m.finishTime
  /\ m.velocity # Unset => n.velocity # Unset

LEMMA AcceleratedRests ==
  ASSUME NEW m \in RunnerType, Vital(m) PROVE Rests(m, Accelerated(m))
<1>1. m.velocity \in Nat \cup {Unset} /\ m.water \in 0 .. 20
  BY DEF RunnerType, Full
<1>2. (Boost * (Full + m.water)) \div (2 * Full) \in Nat
  BY <1>1 DEF Boost, Full
<1>3. PICK v \in Nat : v = Speed(m) + IF m.cheers THEN (Boost * (Full + m.water)) \div (2 * Full) ELSE 0
  BY <1>1, <1>2 DEF Speed, Most, Unset
<1>4. Accelerated(m) = [m EXCEPT !.velocity = v]
  BY <1>3 DEF Accelerated
<1>5. Accelerated(m) \in RunnerType /\ Accelerated(m).velocity # Unset
  BY <1>4 DEF RunnerType, Unset
<1> QED
  BY <1>4, <1>5 DEF Rests, Vital, RunnerType

LEMMA BrakedRests ==
  ASSUME NEW m \in RunnerType, Vital(m) PROVE Rests(m, Braked(m))
<1>1. PICK v \in Nat : v = Most(0, Speed(m) - 15 * Boost)
  BY DEF RunnerType, Speed, Most, Unset, Boost
<1>2. Braked(m) = [m EXCEPT !.velocity = v]
  BY <1>1 DEF Braked
<1>3. Braked(m) \in RunnerType /\ Braked(m).velocity # Unset
  BY <1>2 DEF RunnerType, Unset
<1> QED
  BY <1>2, <1>3 DEF Rests, Vital, RunnerType

LEMMA DepletedRests ==
  ASSUME NEW m \in RunnerType, Vital(m), NEW a \in Nat PROVE Rests(m, Depleted(m, a))
<1>1. PICK w \in 0 .. Full : w = Most(0, m.water - a)
  BY DEF RunnerType, Most, Full
<1>2. w <= m.water /\ m.water \in Nat
  BY <1>1 DEF RunnerType, Most, Full
<1>3. PICK tired \in BOOLEAN, down \in BOOLEAN :
        tired = (w < Exhaustion) /\ down = (m.collapsed \/ w < Collapse)
  <2>1. (w < Exhaustion) \in BOOLEAN /\ (m.collapsed \/ w < Collapse) \in BOOLEAN
    OBVIOUS
  <2> QED
    BY <2>1
<1>4. Depleted(m, a) = [m EXCEPT !.water = w, !.exhausted = tired, !.collapsed = down]
  BY <1>1, <1>3 DEF Depleted, Drained, RunnerType
<1>5. Depleted(m, a) \in RunnerType
  BY <1>4 DEF RunnerType
<1>6. /\ Depleted(m, a).water = w /\ Depleted(m, a).exhausted = tired
      /\ Depleted(m, a).collapsed = down
      /\ Depleted(m, a).distance = m.distance /\ Depleted(m, a).finished = m.finished
      /\ Depleted(m, a).finishTime = m.finishTime /\ Depleted(m, a).velocity = m.velocity
  BY <1>4 DEF RunnerType
<1>7. (m.collapsed \/ w < Collapse) => w < Exhaustion
  BY <1>1, <1>2 DEF Vital, Exhaustion, Collapse, Full
<1>8. Vital(Depleted(m, a))
  <2>1. Depleted(m, a).exhausted <=> Depleted(m, a).water < Exhaustion
    BY <1>3, <1>6
  <2>2. Depleted(m, a).collapsed => Depleted(m, a).exhausted
    BY <1>3, <1>6, <1>7
  <2> QED
    BY <1>6, <2>1, <2>2 DEF Vital
<1> QED
  BY <1>5, <1>6, <1>8 DEF Rests

LEMMA RehydratedRests ==
  ASSUME NEW m \in RunnerType, Vital(m), NEW a \in Nat PROVE Rests(m, Rehydrated(m, a))
<1>1. PICK w \in 0 .. Full : w = Least(Full, m.water + a)
  BY DEF RunnerType, Least, Full
<1>2. m.water <= w /\ m.water \in Nat
  BY <1>1 DEF RunnerType, Least, Full
<1>3. CASE w >= Exhaustion
  <2>1. Rehydrated(m, a) = [m EXCEPT !.water = w, !.exhausted = FALSE, !.collapsed = FALSE]
    BY <1>1, <1>3 DEF Rehydrated
  <2>2. Rehydrated(m, a) \in RunnerType
    BY <2>1 DEF RunnerType
  <2>3. ~(w < Exhaustion)
    BY <1>1, <1>3 DEF Exhaustion, Full
  <2> QED
    BY <2>1, <2>2, <2>3 DEF Rests, Vital, RunnerType
<1>4. CASE ~(w >= Exhaustion)
  <2>1. Rehydrated(m, a) = [m EXCEPT !.water = w]
    BY <1>1, <1>4 DEF Rehydrated
  <2>2. Rehydrated(m, a) \in RunnerType
    BY <2>1 DEF RunnerType
  <2>3. w < Exhaustion /\ m.water < Exhaustion
    BY <1>1, <1>2, <1>4 DEF Exhaustion, Full
  <2> QED
    BY <2>1, <2>2, <2>3 DEF Rests, Vital, RunnerType
<1> QED
  BY <1>3, <1>4

\* A new profile starts with water enough, and is where the runner has been.
LEMMA ProfiledRests ==
  ASSUME NEW m \in RunnerType, Vital(m), Unprofiled(m), NEW n \in Profiled(m)
  PROVE  Rests(m, n) /\ n.velocity \in Nat
<1>1. CASE m.velocity = Unset
  <2>1. PICK p \in Profiles :
          n = [m EXCEPT !.velocity = p.velocity, !.distance = 0, !.water = p.water,
                 !.exhausted = FALSE, !.collapsed = FALSE, !.finished = FALSE,
                 !.wall = p.wall, !.severity = p.severity, !.cheers = p.cheers,
                 !.wave = Wave(RunnerIndex(p.ability, KnownCount), KnownCount)]
    BY <1>1 DEF Profiled, Initialized
  <2>2. PICK wave \in Nat : wave = Wave(RunnerIndex(p.ability, KnownCount), KnownCount)
    BY WaveIsNat
  <2>3. /\ p.velocity \in Nat /\ p.water \in 17 .. 20 /\ p.wall \in Int /\ p.severity \in 0 .. 4
        /\ p.cheers \in BOOLEAN /\ 0 \in 0 .. Race /\ Race # 0
    BY RunnerAssumption
  <2>4. n = [m EXCEPT !.velocity = p.velocity, !.distance = 0, !.water = p.water,
               !.exhausted = FALSE, !.collapsed = FALSE, !.finished = FALSE,
               !.wall = p.wall, !.severity = p.severity, !.cheers = p.cheers, !.wave = wave]
    BY <2>1, <2>2
  <2>5. n \in RunnerType
    <3>1. p.water \in 0 .. Full
      BY <2>3 DEF Full
    <3>2. m \in [velocity : Nat \cup {Unset}, distance : 0 .. Race, water : 0 .. Full,
                 exhausted : BOOLEAN, collapsed : BOOLEAN, finished : BOOLEAN,
                 finishTime : Nat \cup {Unset}, wall : Int, severity : 0 .. 4,
                 cheers : BOOLEAN, wave : Nat]
      BY DEF RunnerType
    <3> QED
      BY <2>2, <2>3, <2>4, <3>1, <3>2 DEF RunnerType
  <2>6. /\ n.velocity = p.velocity /\ n.water = p.water /\ n.distance = 0
        /\ ~n.exhausted /\ ~n.collapsed /\ ~n.finished /\ n.finishTime = m.finishTime
    BY <2>3, <2>4 DEF RunnerType
  <2>7. m.distance = 0 /\ ~m.finished /\ ~(n.water < Exhaustion)
    BY <1>1, <2>3, <2>6 DEF Vital, Unprofiled, Exhaustion
  <2>8. n.velocity \in Nat /\ n.velocity # Unset /\ n.finished = m.finished
    <3>1. m.finished \in BOOLEAN /\ n.finished \in BOOLEAN
      BY <2>5 DEF RunnerType
    <3> QED
      BY <2>3, <2>6, <2>7, <3>1 DEF Unset
  <2> QED
    BY <2>3, <2>5, <2>6, <2>7, <2>8 DEF Rests, Vital
<1>2. CASE m.velocity # Unset
  BY <1>2 DEF Profiled, Rests, RunnerType
<1> QED
  BY <1>1, <1>2

\* What a step leaves of the invariant: nobody unfinishes, and who was at the
\* line stays where it is, with its time.
Final(m, n) ==
  m.finished => n.finished /\ n.distance = m.distance /\ n.finishTime = m.finishTime

LEMMA FinishTimeTyped ==
  ASSUME NEW t \in Nat \ {0}, NEW over \in Nat, NEW run \in Nat \ {0}, over <= run
  PROVE  /\ (Minutes * over) \div run \in Nat
         /\ run * ((Minutes * over) \div run) <= Minutes * over
         /\ t * Minutes - (Minutes * over) \div run \in Nat
<1>1. Minutes \in Nat
  BY RunnerAssumption
<1>2. PICK a \in Nat : a = Minutes * over
  BY <1>1
<1>3. a <= Minutes * run
  BY <1>1, <1>2
<1>4. a \div run \in Nat /\ run * (a \div run) <= a
  BY Division
<1>5. PICK back \in Nat : back = a \div run
  BY <1>4
<1>6. run * back <= run * Minutes
  <2>1. PICK c \in Nat : c = run * Minutes /\ c = Minutes * run
    BY <1>1
  <2> QED
    BY <1>3, <1>4, <1>5, <2>1
<1>7. back <= Minutes
  BY <1>1, <1>6
<1>8. Minutes <= t * Minutes
  BY <1>1
<1>9. t * Minutes - back \in Nat
  BY <1>1, <1>7, <1>8
<1> QED
  BY <1>2, <1>4, <1>5, <1>9

\* A tick of a runner that has a profile.
LEMMA TickedStep ==
  ASSUME NEW m \in RunnerType, Vital(m), m.velocity # Unset, NEW t \in Nat, NEW n \in Ticked(m, t)
  PROVE  /\ n \in RunnerType /\ Vital(n) /\ n.velocity = m.velocity /\ Final(m, n)
         /\ \A last \in Nat \cup {Unset}, fastest \in Nat :
              m.velocity <= fastest /\ last < t /\ Within(m, last, fastest) /\ InTime(m, fastest)
                => Within(n, t, fastest) /\ InTime(n, fastest)
<1>0. Race \in Nat \ {0} /\ Interval \in Nat \ {0} /\ Minutes \in Nat /\ Uses \subseteq Nat
  BY RunnerAssumption
<1>1. CASE m.finished \/ m.collapsed
  <2>1. n = m
    BY <1>1 DEF Ticked
  <2>2. ASSUME NEW last \in Nat \cup {Unset}, NEW fastest \in Nat, last < t, Within(m, last, fastest)
        PROVE  Within(n, t, fastest)
    <3>1. fastest * Minutes * Most(0, last) <= fastest * Minutes * Most(0, t)
      <4>1. PICK k \in Nat : k = fastest * Minutes
        BY <1>0
      <4>2. Most(0, last) \in Nat /\ Most(0, t) \in Nat /\ Most(0, last) <= Most(0, t)
        BY <2>2 DEF Most, Unset
      <4>3. k * Most(0, last) <= k * Most(0, t)
        BY <4>2
      <4> QED
        BY <4>1, <4>3
    <3>2. m.distance \in Int /\ fastest * Minutes * Most(0, last) \in Int
          /\ fastest * Minutes * Most(0, t) \in Int
      BY <1>0 DEF RunnerType, Most, Unset
    <3> QED
      BY <2>1, <2>2, <3>1, <3>2 DEF Within
  <2> QED
    BY <2>1, <2>2 DEF Final, InTime
<1>2. CASE ~(m.finished \/ m.collapsed)
  <2> DEFINE run == Covered(m, t, TickMinutes(t))
  <2> DEFINE d == Least(m.distance + run, Race)
  <2> DEFINE stations == d \div Interval - m.distance \div Interval
  <2>1. TickMinutes(t) \in Nat /\ (t = 0 => TickMinutes(t) = 0) /\ (t # 0 => TickMinutes(t) = Minutes)
    BY <1>0 DEF TickMinutes
  <2>2. run \in Nat /\ run <= m.velocity * TickMinutes(t)
    BY <2>1, CoveredBound
  <2>3. m.distance \in 0 .. Race /\ m.distance # Race /\ m.velocity \in Nat
    BY <1>2 DEF RunnerType, Vital, Unset
  <2>4. t = 0 => run = 0
    BY <2>1, <2>2, <2>3
  <2> HIDE DEF run
  <2>5. d \in 0 .. Race /\ m.distance <= d
    BY <1>0, <2>2, <2>3 DEF Least
  <2>6. stations \in Nat
    <3> HIDE DEF d
    <3>1. m.distance \div Interval <= d \div Interval
      BY <1>0, <2>3, <2>5, DivisionGrows
    <3>2. m.distance \div Interval \in Nat /\ d \div Interval \in Nat
      BY <1>0, <2>3, <2>5, Division
    <3> QED
      BY <3>1, <3>2
  <2>7. PICK u \in Nat : n \in {Moved(m, t, w) : w \in AfterStations(Most(0, m.water - u), m.exhausted, stations)}
    BY <1>0, <1>2 DEF Ticked, AfterTick, run
  <2>8. Most(0, m.water - u) \in 0 .. Full
    BY DEF RunnerType, Most, Full
  <2>9. PICK w \in 0 .. Full : n = Moved(m, t, w)
    <3>1. AfterStations(Most(0, m.water - u), m.exhausted, stations) \subseteq 0 .. Full
      BY <2>6, <2>8, AfterStationsTyped
    <3> QED
      BY <2>7, <3>1
  <2> HIDE DEF stations
  <2>10. PICK tired \in BOOLEAN, down \in BOOLEAN :
           tired = (w < Exhaustion) /\ down = (w < Collapse)
    <3>1. (w < Exhaustion) \in BOOLEAN /\ (w < Collapse) \in BOOLEAN
      OBVIOUS
    <3> QED
      BY <3>1
  <2>11. (m.collapsed \/ w < Collapse) = down
    <3>1. m.collapsed \in BOOLEAN
      BY DEF RunnerType
    <3> QED
      BY <1>2, <2>10, <3>1
  <2>12. down => tired
    <3>1. w < Collapse => w < Exhaustion
      BY DEF Exhaustion, Collapse, Full
    <3> QED
      BY <2>10, <3>1
  <2>13. CASE d >= Race
    <3>1. d = Race
      BY <1>0, <2>5, <2>13
    <3>2. run \in Nat \ {0} /\ t \in Nat \ {0} /\ TickMinutes(t) = Minutes
      BY <1>0, <2>1, <2>2, <2>3, <2>4, <3>1 DEF Least
    <3>3. PICK over \in Nat : over = m.distance + run - Race /\ over <= run
      BY <1>0, <2>2, <2>3, <3>1 DEF Least
    <3>4. PICK back \in Nat :
            /\ back = (Minutes * over) \div run
            /\ run * back <= Minutes * over /\ t * Minutes - back \in Nat
      BY <3>2, <3>3, FinishTimeTyped
    <3>5. FinishTime(m, t, run) = t * Minutes - back
      BY <3>2, <3>3, <3>4 DEF FinishTime
    <3>6. PICK time \in Nat : time = FinishTime(m, t, run) /\ time = t * Minutes - back
      BY <3>4, <3>5
    <3>7. n = [m EXCEPT !.water = w, !.exhausted = tired, !.collapsed = down,
                        !.distance = Race, !.finished = TRUE, !.finishTime = time]
      <4>1. Drained(m, w) = [m EXCEPT !.water = w, !.exhausted = tired, !.collapsed = down]
        BY <2>10, <2>11 DEF Drained, RunnerType
      <4>2. n = [Drained(m, w) EXCEPT !.distance = Race, !.finished = TRUE, !.finishTime = time]
        BY <2>9, <2>13, <3>1, <3>6 DEF Moved, run
      <4> QED
        BY <4>1, <4>2
    <3>8. n \in RunnerType
      <4>1. Race \in 0 .. Race /\ m.velocity \in Nat \cup {Unset}
        BY <1>0, <2>3
      <4> QED
        BY <3>7, <4>1 DEF RunnerType
    <3>9. /\ n.velocity = m.velocity /\ n.water = w /\ n.exhausted = tired /\ n.collapsed = down
          /\ n.distance = Race /\ n.finished /\ n.finishTime = time
      BY <3>7 DEF RunnerType
    <3>10. Vital(n)
      <4>1. n.exhausted <=> n.water < Exhaustion
        BY <2>10, <3>9
      <4>2. n.collapsed => n.exhausted
        BY <2>12, <3>9
      <4> QED
        BY <3>9, <4>1, <4>2 DEF Vital, Unset
    <3>11. ASSUME NEW last \in Nat \cup {Unset}, NEW fastest \in Nat, m.velocity <= fastest, last < t,
                  Within(m, last, fastest)
           PROVE  Within(n, t, fastest) /\ InTime(n, fastest)
      <4>1. PICK far \in Nat : far = fastest * Minutes
        BY <1>0
      <4>2. m.velocity * Minutes <= far
        BY <1>0, <2>3, <3>11, <4>1
      <4>3. run <= far
        <5>1. PICK a \in Nat : a = m.velocity * Minutes
          BY <1>0, <2>3
        <5> QED
          BY <2>2, <3>2, <4>2, <5>1
      <4>4. m.distance <= far * (t - 1)
        <5>1. Most(0, last) \in Nat /\ Most(0, last) <= t - 1
          BY <3>2, <3>11 DEF Most, Unset
        <5>2. far * Most(0, last) <= far * (t - 1)
          BY <3>2, <5>1
        <5>3. m.distance <= far * Most(0, last)
          BY <3>11, <4>1 DEF Within
        <5>4. PICK a \in Nat : a = far * Most(0, last)
          BY <5>1
        <5>5. PICK b \in Nat : b = far * (t - 1)
          BY <3>2
        <5> QED
          BY <2>3, <5>2, <5>3, <5>4, <5>5
      <4>5. Race <= far * t
        <5>1. far * t = far * (t - 1) + far
          BY <3>2
        <5>2. PICK a \in Nat : a = far * (t - 1)
          BY <3>2
        <5>3. m.distance + run = Race + over
          BY <1>0, <2>2, <2>3, <3>3
        <5> QED
          BY <1>0, <2>2, <2>3, <4>3, <4>4, <5>1, <5>2, <5>3
      <4>6. Within(n, t, fastest)
        <5>1. Most(0, t) = t
          BY <3>2 DEF Most
        <5> QED
          BY <3>9, <4>1, <4>5, <5>1 DEF Within
      <4>7. m.distance < Race /\ m.distance \in Nat /\ Race <= m.distance + run
        BY <1>0, <2>2, <2>3, <3>3
      <4>8. (t * Minutes - back) * fastest >= Race
        <5>1. fastest * Minutes = far /\ Minutes * (m.distance + run - Race) = Minutes * over
          BY <3>3, <4>1
        <5>2. run <= fastest * Minutes /\ m.distance <= (fastest * Minutes) * (t - 1)
              /\ run * back <= Minutes * (m.distance + run - Race)
          BY <3>4, <4>3, <4>4, <5>1
        <5>3. Race \in Nat /\ Minutes \in Nat
          BY <1>0
        <5> QED
          BY <3>2, <4>7, <5>2, <5>3, FinishTimeArithmetic
      <4> QED
        BY <3>6, <3>9, <4>6, <4>8 DEF InTime
    <3> QED
      BY <1>2, <3>8, <3>9, <3>10, <3>11 DEF Final
  <2>14. CASE ~(d >= Race)
    <3>1. d = m.distance + run /\ d \in Nat /\ d # Race
      BY <1>0, <2>2, <2>3, <2>5, <2>14 DEF Least
    <3>2. n = [m EXCEPT !.water = w, !.exhausted = tired, !.collapsed = down,
                        !.distance = d, !.finished = FALSE]
      <4>1. Drained(m, w) = [m EXCEPT !.water = w, !.exhausted = tired, !.collapsed = down]
        BY <2>10, <2>11 DEF Drained, RunnerType
      <4>2. n = [Drained(m, w) EXCEPT !.distance = d, !.finished = FALSE,
                                      !.finishTime = Drained(m, w).finishTime]
        <5>1. /\ n = [Drained(m, w) EXCEPT !.distance = d, !.finished = d >= Race,
                        !.finishTime = IF d >= Race THEN FinishTime(m, t, run) ELSE @]
          BY <2>9 DEF Moved, run
        <5>2. (d >= Race) = FALSE
          BY <2>14
        <5> HIDE DEF d
        <5> QED
          BY <2>14, <5>1, <5>2
      <4>3. m \in [velocity : Nat \cup {Unset}, distance : 0 .. Race, water : 0 .. Full,
                   exhausted : BOOLEAN, collapsed : BOOLEAN, finished : BOOLEAN,
                   finishTime : Nat \cup {Unset}, wall : Int, severity : 0 .. 4,
                   cheers : BOOLEAN, wave : Nat]
        BY DEF RunnerType
      <4> HIDE DEF d
      <4> QED
        BY <4>1, <4>2, <4>3
    <3> HIDE DEF d
    <3>3. n \in RunnerType
      BY <2>5, <3>2 DEF RunnerType
    <3>4. /\ n.velocity = m.velocity /\ n.water = w /\ n.exhausted = tired /\ n.collapsed = down
          /\ n.distance = d /\ ~n.finished
      BY <3>2 DEF RunnerType
    <3>5. Vital(n)
      <4>1. n.exhausted <=> n.water < Exhaustion
        BY <2>10, <3>4
      <4>2. n.collapsed => n.exhausted
        BY <2>12, <3>4
      <4> QED
        BY <3>1, <3>4, <4>1, <4>2 DEF Vital
    <3>6. ASSUME NEW last \in Nat \cup {Unset}, NEW fastest \in Nat, m.velocity <= fastest, last < t,
                  Within(m, last, fastest)
           PROVE  Within(n, t, fastest)
      <4>1. PICK far \in Nat : far = fastest * Minutes
        BY <1>0
      <4>2. m.velocity * Minutes <= far
        BY <1>0, <2>3, <3>6, <4>1
      <4>3. m.distance <= far * Most(0, last) /\ Most(0, last) \in Nat /\ Most(0, t) = t
        BY <3>6, <4>1 DEF Within, Most, Unset
      <4>4. CASE t = 0
        <5>1. run = 0 /\ Most(0, last) = 0
          BY <2>4, <3>6, <4>4 DEF Most, Unset
        <5> QED
          BY <2>3, <3>1, <3>4, <4>1, <4>3, <4>4, <5>1 DEF Within
      <4>5. CASE t # 0
        <5>1. Most(0, last) <= t - 1
          BY <3>6, <4>5 DEF Most, Unset
        <5>2. far * Most(0, last) <= far * (t - 1) /\ far * t = far * (t - 1) + far
          BY <4>3, <5>1
        <5>3. PICK a \in Nat : a = far * Most(0, last)
          BY <4>3
        <5>4. PICK b \in Int : b = far * (t - 1)
          OBVIOUS
        <5>5. PICK c \in Nat : c = m.velocity * Minutes
          BY <1>0, <2>3
        <5>6. run <= c
          BY <2>1, <2>2, <4>5, <5>5
        <5>7. d <= far * t
          BY <2>2, <2>3, <3>1, <4>2, <4>3, <5>2, <5>3, <5>4, <5>5, <5>6
        <5> QED
          BY <3>4, <4>1, <4>3, <5>7 DEF Within
      <4> QED
        BY <4>4, <4>5
    <3> QED
      BY <1>2, <3>3, <3>4, <3>5, <3>6 DEF Final, InTime
  <2> QED
    BY <2>13, <2>14
<1> QED
  BY <1>1, <1>2

----------------------------------------------------------------------------
(* The actions.                                                            *)

LEMMA RunnerKnown ==
  ASSUME RunnerInv
  PROVE  /\ me \in RunnerType /\ Vital(me) /\ Unprofiled(me) /\ top \in Nat /\ extras \in Nat
         /\ clock \in Nat \cup {Unset} /\ mind \in {"autopilot", "llm"} /\ me.velocity <= top
         /\ mind = "autopilot" => Within(me, clock, top) /\ InTime(me, top)
BY DEF RunnerInv, RunnerTypeOK

\* The highest velocity only grows, and with it what it allows.
LEMMA BecomesTop ==
  ASSUME RunnerInv, NEW m \in RunnerType, Becomes(m)
  PROVE  me' = m /\ top' \in Nat /\ top <= top' /\ m.velocity <= top'
<1>1. m.velocity \in Int /\ top \in Nat
  BY RunnerKnown DEF RunnerType, Unset
<1> QED
  BY <1>1 DEF Becomes, Most

LEMMA FasterAllowsMore ==
  ASSUME NEW m \in RunnerType, Vital(m), NEW tick \in Nat \cup {Unset},
         NEW old \in Nat, NEW new \in Nat, old <= new, Within(m, tick, old), InTime(m, old)
  PROVE  Within(m, tick, new) /\ InTime(m, new)
<1>1. Minutes \in Nat /\ Most(0, tick) \in Nat /\ m.distance \in Nat /\ Race \in Nat
  BY RunnerAssumption DEF Most, Unset, RunnerType
<1>2. PICK k \in Nat : k = Most(0, tick)
  BY <1>1
<1>3. PICK a \in Nat, b \in Nat : a = old * Minutes /\ b = new * Minutes /\ a <= b
  BY <1>1
<1>4. a * k <= b * k
  BY <1>3
<1>5. Within(m, tick, new)
  <2>1. PICK c \in Nat : c = a * k
    OBVIOUS
  <2>2. PICK d \in Nat : d = b * k
    OBVIOUS
  <2> QED
    BY <1>1, <1>2, <1>3, <1>4, <2>1, <2>2 DEF Within
<1>6. ASSUME m.finished PROVE m.finishTime * new >= Race
  <2>1. m.finishTime \in Nat
    BY <1>6 DEF Vital, RunnerType
  <2>2. PICK f \in Nat : f = m.finishTime
    BY <2>1
  <2>3. f * old <= f * new /\ f * old >= Race
    BY <1>6, <2>2 DEF InTime
  <2>4. PICK x \in Nat : x = f * old
    OBVIOUS
  <2>5. PICK y \in Nat : y = f * new
    OBVIOUS
  <2> QED
    BY <1>1, <2>2, <2>3, <2>4, <2>5
<1> QED
  BY <1>5, <1>6 DEF InTime

\* Events and tools between the ticks.
LEMMA RestingStep ==
  ASSUME RunnerInv, NEW m, Rests(me, m), Becomes(m), Extra
  PROVE  RunnerInv'
<1>1. m \in RunnerType /\ Vital(m)
  BY DEF Rests
<1>2. me' = m /\ top' \in Nat /\ top <= top' /\ m.velocity <= top'
  BY <1>1, BecomesTop
<1>3. UNCHANGED <<mind, clock>> /\ extras' \in Nat
  BY RunnerKnown DEF Extra
<1>4. Unprofiled(m)
  BY RunnerKnown DEF Unprofiled, Rests
<1>5. Unprofiled(me)'
  BY <1>2, <1>3, <1>4 DEF Unprofiled
<1>6. ASSUME mind = "autopilot" PROVE Within(m, clock, top') /\ InTime(m, top')
  <2>1. Within(m, clock, top) /\ InTime(m, top)
    BY <1>6, RunnerKnown DEF Within, InTime, Rests
  <2>2. PICK new \in Nat : new = top'
    BY <1>2
  <2> QED
    BY <1>1, <1>2, <2>1, <2>2, RunnerKnown, FasterAllowsMore
<1>7. mind' = "autopilot" => (Within(me, clock, top) /\ InTime(me, top))'
  BY <1>2, <1>3, <1>6 DEF Within, InTime
<1>8. RunnerTypeOK'
  BY <1>1, <1>2, <1>3, RunnerKnown DEF RunnerTypeOK
<1>9. Vital(me)'
  BY <1>1, <1>2 DEF Vital
<1> QED
  BY <1>2, <1>5, <1>7, <1>8, <1>9 DEF RunnerInv

LEMMA TickLemma == ASSUME RunnerInv, Tick PROVE RunnerInv' /\ Final(me, me')
<1>1. PICK t \in clock + 1 .. TicksMax - 1, m \in Profiled(me) :
        /\ clock' = t
        /\ IF mind = "llm" THEN Becomes(m) ELSE \E n \in Ticked(m, t) : Becomes(n)
        /\ UNCHANGED <<mind, extras>>
  BY DEF Tick
<1>2. t \in Nat /\ clock < t
  BY <1>1, RunnerKnown, RunnerAssumption DEF Unset
<1>3. Rests(me, m) /\ m.velocity \in Nat
  BY RunnerKnown, ProfiledRests
<1>4. m \in RunnerType /\ Vital(m) /\ m.velocity # Unset
  BY <1>3 DEF Rests, Unset
<1>5. CASE mind = "llm"
  <2>1. me' = m /\ top' \in Nat /\ top <= top' /\ m.velocity <= top'
    BY <1>1, <1>4, <1>5, BecomesTop
  <2>2. RunnerTypeOK' /\ Vital(me)' /\ Unprofiled(me)'
    BY <1>1, <1>2, <1>4, <2>1, RunnerKnown DEF RunnerTypeOK, Vital, Unprofiled
  <2> QED
    BY <1>1, <1>3, <1>5, <2>1, <2>2 DEF RunnerInv, Rests, Final
<1>6. CASE mind = "autopilot"
  <2>1. PICK n \in Ticked(m, t) : Becomes(n)
    BY <1>1, <1>6
  <2>2. n \in RunnerType /\ Vital(n) /\ n.velocity = m.velocity /\ Final(m, n)
    BY <1>2, <1>4, TickedStep
  <2>3. me' = n /\ top' \in Nat /\ top <= top' /\ n.velocity <= top'
    BY <2>1, <2>2, BecomesTop
  <2>4. Within(n, t, top') /\ InTime(n, top')
    <3>1. Within(m, clock, top) /\ InTime(m, top)
      BY <1>3, <1>6, RunnerKnown DEF Within, InTime, Rests
    <3>2. PICK new \in Nat : new = top'
      BY <2>3
    <3>3. PICK last \in Nat \cup {Unset} : last = clock
      BY RunnerKnown
    <3>4. Within(m, last, new) /\ InTime(m, new)
      BY <1>4, <2>3, <3>1, <3>2, <3>3, RunnerKnown, FasterAllowsMore
    <3>5. m.velocity <= new /\ last < t
      BY <1>2, <2>2, <2>3, <3>2, <3>3
    <3>6. Within(n, t, new) /\ InTime(n, new)
      BY <1>2, <1>4, <3>4, <3>5, TickedStep
    <3> QED
      BY <3>2, <3>6
  <2>5. RunnerTypeOK' /\ Vital(me)' /\ Unprofiled(me)'
    BY <1>1, <1>2, <1>4, <2>2, <2>3, RunnerKnown DEF RunnerTypeOK, Vital, Unprofiled
  <2>6. (Within(me, clock, top) /\ InTime(me, top))'
    BY <1>1, <2>3, <2>4 DEF Within, InTime
  <2>7. Final(me, n)
    BY <1>3, <2>2 DEF Final, Rests
  <2> QED
    BY <2>3, <2>5, <2>6, <2>7 DEF RunnerInv
<1> QED
  BY <1>5, <1>6, RunnerKnown

\* A model may call process_tick several times for one tick.
LEMMA CallsProcessTickLemma ==
  ASSUME RunnerInv, CallsProcessTick PROVE RunnerInv' /\ Final(me, me')
<1>1. PICK n \in Ticked(me, clock) : Becomes(n)
  BY DEF CallsProcessTick
<1>2. /\ mind = "llm" /\ clock \in Nat /\ UNCHANGED <<mind, clock>> /\ extras' \in Nat
      /\ me.velocity # Unset
  BY RunnerKnown DEF CallsProcessTick, Extra, Unprofiled
<1>3. n \in RunnerType /\ Vital(n) /\ n.velocity = me.velocity /\ Final(me, n)
  BY <1>2, RunnerKnown, TickedStep
<1>4. me' = n /\ top' \in Nat /\ n.velocity <= top'
  BY <1>1, <1>3, BecomesTop
<1>5. RunnerTypeOK' /\ Vital(me)' /\ Unprofiled(me)'
  BY <1>2, <1>3, <1>4, RunnerKnown DEF RunnerTypeOK, Vital, Unprofiled
<1> QED
  BY <1>2, <1>3, <1>4, <1>5 DEF RunnerInv

\* Whatever an event or a tool is, it leaves the runner where it is.
LEMMA ExtrasRest ==
  ASSUME RunnerInv, CrowdBoost \/ HydrationStation \/ CallsTool
  PROVE  Extra /\ \E m : Rests(me, m) /\ Becomes(m)
<1>1. CASE CrowdBoost
  BY <1>1, RunnerKnown, AcceleratedRests DEF CrowdBoost
<1>2. CASE HydrationStation
  BY <1>2, RunnerKnown, RehydratedRests DEF HydrationStation
<1>3. CASE CallsTool
  <2>1. PICK m \in Profiled(me) :
          \/ Becomes(Accelerated(m)) \/ Becomes(Braked(m))
          \/ \E a \in Amounts : Becomes(Depleted(m, a)) \/ Becomes(Rehydrated(m, a))
    BY <1>3 DEF CallsTool
  <2>2. Rests(me, m)
    BY RunnerKnown, ProfiledRests
  <2>3. m \in RunnerType /\ Vital(m)
    BY <2>2 DEF Rests
  <2>4. PICK n : Rests(m, n) /\ Becomes(n)
    BY <2>1, <2>3, RunnerAssumption, AcceleratedRests, BrakedRests, DepletedRests, RehydratedRests
  <2>5. Rests(me, n)
    BY <2>2, <2>4 DEF Rests
  <2> QED
    BY <1>3, <2>4, <2>5 DEF CallsTool
<1> QED
  BY <1>1, <1>2, <1>3

LEMMA RunnerInitLemma == RunnerInit => RunnerInv
<1> SUFFICES ASSUME RunnerInit PROVE RunnerInv
  OBVIOUS
<1>1. Race \in Nat \ {0} /\ Minutes \in Nat
  BY RunnerAssumption
<1>2. NewRunner \in RunnerType
  BY <1>1 DEF NewRunner, RunnerType, Full, Unset
<1>3. Vital(NewRunner) /\ Unprofiled(NewRunner)
  BY <1>1 DEF NewRunner, Vital, Unprofiled, Full, Exhaustion, RunnerInit
<1>4. Within(NewRunner, Unset, 0) /\ InTime(NewRunner, 0) /\ NewRunner.velocity <= 0
  BY <1>1 DEF NewRunner, Within, InTime, Most, Unset
<1> QED
  BY <1>2, <1>3, <1>4 DEF RunnerInit, RunnerInv, RunnerTypeOK

LEMMA RunnerNextLemma ==
  RunnerInv /\ [RunnerNext]_oneRunnerVars => RunnerInv' /\ (Final(me, me') \/ UNCHANGED me)
<1> SUFFICES ASSUME RunnerInv, [RunnerNext]_oneRunnerVars
             PROVE  RunnerInv' /\ (Final(me, me') \/ UNCHANGED me)
  OBVIOUS
<1>1. CASE Tick
  BY <1>1, TickLemma
<1>2. CASE CallsProcessTick
  BY <1>2, CallsProcessTickLemma
<1>3. CASE CrowdBoost \/ HydrationStation \/ CallsTool
  <2>1. PICK m : Rests(me, m) /\ Becomes(m)
    BY <1>3, ExtrasRest
  <2>2. RunnerInv'
    BY <1>3, <2>1, ExtrasRest, RestingStep
  <2> QED
    BY <2>1, <2>2 DEF Rests, Becomes, Final
<1>4. CASE UNCHANGED oneRunnerVars
  BY <1>4 DEF oneRunnerVars, RunnerInv, RunnerTypeOK, Vital, Unprofiled, Within, InTime
<1> QED
  BY <1>1, <1>2, <1>3, <1>4 DEF RunnerNext

LEMMA AlwaysRunnerInv == RunnerSpec => []RunnerInv
<1>1. RunnerInit => RunnerInv
  BY RunnerInitLemma
<1>2. RunnerInv /\ [RunnerNext]_oneRunnerVars => RunnerInv'
  BY RunnerNextLemma
<1> QED
  BY <1>1, <1>2, PTL DEF RunnerSpec

\* A runner's state keeps its type: its water within the bounds, its distance
\* within the race, whatever a model calls and however many stations it passes.
THEOREM RunnerTypeCorrect == RunnerSpec => []RunnerTypeOK
<1>1. RunnerInv => RunnerTypeOK
  BY DEF RunnerInv
<1> QED
  BY <1>1, AlwaysRunnerInv, PTL

\* The flags of exhaustion, collapse and finish agree with water, distance and
\* time, however ticks, events and tools mix.
THEOREM VitalsAlwaysAgree == RunnerSpec => []VitalsAgree
<1>1. RunnerInv => VitalsAgree
  BY DEF RunnerInv, Vital, VitalsAgree
<1> QED
  BY <1>1, AlwaysRunnerInv, PTL

\* The interpolated time of a finish is never better than the highest velocity
\* allows, for races of any length and ticks of any duration.
THEOREM NobodyEverFinishesEarly == RunnerSpec => []NobodyFinishesEarly
<1>1. RunnerInv => NobodyFinishesEarly
  BY DEF RunnerInv, InTime, NobodyFinishesEarly
<1> QED
  BY <1>1, AlwaysRunnerInv, PTL

\* No event and no tool takes a finish back or moves it.
THEOREM FinishIsAlwaysFinal == RunnerSpec => FinishIsFinal
<1>1. RunnerInv /\ [RunnerNext]_oneRunnerVars =>
        [me.finished => me'.finished /\ me'.distance = me.distance
                        /\ me'.finishTime = me.finishTime]_oneRunnerVars
  BY RunnerNextLemma DEF Final
<1> QED
  BY <1>1, AlwaysRunnerInv, PTL DEF RunnerSpec, FinishIsFinal

----------------------------------------------------------------------------
(* The state of a run and its telemetry.                                   *)

Stages == {"start", "begin", "enter", "ask", "answer", "heard", "relay", "tools", "leave",
           "end", "over"}

Events == {"user_message", "run_start", "agent_start", "model_start", "model_error", "model_end",
           "tool_start", "tool_end", "tool_error", "agent_end", "run_end"}
Names == Events \cup {"a2ui", "text", "json"}
Kinds == {"text", "json", "a2ui", "markup", "error"}

TurnType == [text : Texts, calls : Seq(Results)]
CallStateType == [pc : {"ready", "starting", "running", "ending", "done"}, seen : Nat]
MessageType == [event : Names, kind : Kinds, turn : Nat, call : Nat]

RunTypeOK ==
  /\ voice \in {"speaker", "runner"} /\ stage \in Stages /\ said \in Seq(TurnType)
  /\ calls \in [DOMAIN calls -> CallStateType] /\ DOMAIN calls \subseteq Nat

PipeTypeOK ==
  /\ counter \in Nat /\ issued \in Seq(Nat)
  /\ tasks \subseteq MessageType /\ emitted \in Seq(MessageType)
  /\ queue \in Seq(Nat) /\ batch \in [Workers -> SUBSET Nat]

TelemetryTypeOK == RunTypeOK /\ PipeTypeOK

TurnsInv ==
  /\ stage \in {"heard", "relay", "tools"} => Len(said) > 0
  /\ stage = "tools" => DOMAIN calls = DOMAIN ThisTurn.calls

\* The run has passed the place where a message is handed over.
Past(m) ==
  \/ m.turn < Len(said)
  \/ /\ m.turn = Len(said)
     /\ \/ m.event = "run_start" /\ stage \notin {"start", "begin"}
        \/ m.event = "model_start" /\ stage \in {"answer", "over"}
        \/ m.event \in {"model_error", "run_end"} /\ stage = "over"
        \/ m.event = "model_end"
             /\ stage \in {"relay", "tools", "leave", "ask", "answer", "end", "over"}
        \/ m.event = "text" /\ stage \in {"tools", "leave", "ask", "answer", "end", "over"}
        \/ m.event \in {"tool_start", "tool_end", "tool_error", "a2ui", "json"}
             /\ stage \in {"ask", "answer", "over"}
        \/ /\ stage = "tools" /\ m.call \in DOMAIN calls
           /\ \/ m.event = "tool_start" /\ calls[m.call].pc \in {"running", "ending", "done"}
              \/ m.event \in {"tool_end", "tool_error", "a2ui"} /\ calls[m.call].pc = "done"

\* What ShownOnce asks of a single message.
Right(m) ==
  /\ m.event = "text" => m.call = 0 /\ m.turn > 0 /\ said[m.turn].calls = <<>>
  /\ m.kind = "json" /\ m.event \in {"json", "tool_end"} =>
       m.turn > 0 /\ said[m.turn].calls[m.call] = "json"

DeliveryInv ==
  /\ \A m \in tasks : Past(m) /\ Right(m)
  /\ \A i \in DOMAIN emitted :
       Past(emitted[i]) /\ Right(emitted[i]) /\ emitted[i] \notin tasks
  /\ \A i, j \in DOMAIN emitted : emitted[i] = emitted[j] => i = j
  /\ Len(queue) <= QueueMax /\ \A i \in DOMAIN queue : queue[i] \in DOMAIN emitted
  /\ \A w \in Workers : batch[w] \subseteq DOMAIN emitted
  /\ wire \subseteq DOMAIN emitted

NumbersInv == counter = Len(issued) /\ EachSeqOnce

TelemetryInv == TelemetryTypeOK /\ TurnsInv /\ DeliveryInv /\ NumbersInv

----------------------------------------------------------------------------
(* The messages of one event.                                              *)

\* Messages of this turn and this call, told apart by their events.
OfOneEvent(ms, event, call) ==
  /\ ms \in Seq(MessageType)
  /\ \A i, j \in DOMAIN ms : ms[i] = ms[j] => i = j
  /\ \A i \in DOMAIN ms :
       /\ ms[i].turn = Len(said) /\ ms[i].call = call
       /\ ms[i].event = event \/ (event = "tool_end" /\ ms[i].event = "a2ui")
       /\ (ms[i].event = "tool_end" /\ ms[i].kind = "json") => ThisTurn.calls[call] = "json"
  /\ event \in {"user_message", "agent_start", "agent_end"} => ms = <<>>

LEMMA EmptyBeside == ASSUME NEW S, NEW s \in Seq(S) PROVE <<>> \o s = s /\ s \o <<>> = s
OBVIOUS

LEMMA OneElement ==
  ASSUME NEW S, NEW m \in S
  PROVE  <<m>> \in Seq(S) /\ DOMAIN <<m>> = {1} /\ <<m>>[1] = m
OBVIOUS

LEMMA TwoElements ==
  ASSUME NEW S, NEW m1 \in S, NEW m2 \in S
  PROVE  <<m1, m2>> \in Seq(S) /\ DOMAIN <<m1, m2>> = {1, 2} /\ <<m1, m2>>[1] = m1 /\ <<m1, m2>>[2] = m2
OBVIOUS

LEMMA MessageIsTyped ==
  ASSUME said \in Seq(TurnType), NEW event \in Names, NEW kind \in Kinds, NEW call \in Nat
  PROVE  /\ Message(event, kind, call) \in MessageType
         /\ Message(event, kind, call).event = event /\ Message(event, kind, call).kind = kind
         /\ Message(event, kind, call).turn = Len(said) /\ Message(event, kind, call).call = call
BY DEF Message, MessageType

LEMMA AloneOfOneEvent ==
  ASSUME NEW event \in Events \ {"user_message", "agent_start", "agent_end"}, NEW call \in Nat,
         NEW m \in MessageType, m.turn = Len(said), m.call = call, m.event = event,
         (m.event = "tool_end" /\ m.kind = "json") => ThisTurn.calls[call] = "json"
  PROVE  OfOneEvent(<<m>>, event, call)
<1> DEFINE ms == <<m>>
<1>1. ms \in Seq(MessageType) /\ DOMAIN ms = {1} /\ ms[1] = m
  BY OneElement
<1> HIDE DEF ms
<1>2. \A i, j \in DOMAIN ms : ms[i] = ms[j] => i = j
  BY <1>1
<1>3. ASSUME NEW i \in DOMAIN ms
      PROVE  /\ ms[i].turn = Len(said) /\ ms[i].call = call /\ ms[i].event = event
             /\ (ms[i].event = "tool_end" /\ ms[i].kind = "json") => ThisTurn.calls[call] = "json"
  BY <1>1
<1>4. OfOneEvent(ms, event, call)
  BY <1>1, <1>2, <1>3 DEF OfOneEvent
<1> QED
  BY <1>4 DEF ms

LEMMA BothOfOneEvent ==
  ASSUME NEW call \in Nat, NEW m1 \in MessageType, NEW m2 \in MessageType,
         m1.turn = Len(said), m1.call = call, m1.event = "tool_end", m1.kind = "text",
         m2.turn = Len(said), m2.call = call, m2.event = "a2ui"
  PROVE  OfOneEvent(<<m1, m2>>, "tool_end", call)
<1> DEFINE ms == <<m1, m2>>
<1>1. ms \in Seq(MessageType) /\ DOMAIN ms = {1, 2} /\ ms[1] = m1 /\ ms[2] = m2
  BY TwoElements
<1> HIDE DEF ms
<1>2. \A i, j \in DOMAIN ms : ms[i] = ms[j] => i = j
  BY <1>1
<1>3. ASSUME NEW i \in DOMAIN ms
      PROVE  /\ ms[i].turn = Len(said) /\ ms[i].call = call
             /\ ms[i].event \in {"tool_end", "a2ui"}
             /\ ~(ms[i].event = "tool_end" /\ ms[i].kind = "json")
  BY <1>1
<1>4. OfOneEvent(ms, "tool_end", call)
  BY <1>1, <1>2, <1>3 DEF OfOneEvent
<1> QED
  BY <1>4 DEF ms

LEMMA OneEvent ==
  ASSUME said \in Seq(TurnType), NEW event \in Events, NEW call \in Nat,
         event = "tool_end" => Len(said) > 0 /\ call \in DOMAIN ThisTurn.calls
  PROVE  OfOneEvent(Narrative(event, call) \o Lifecycle(event, call), event, call)
<1>1. /\ event \in Names /\ "a2ui" \in Names
      /\ "json" \in Kinds /\ "text" \in Kinds /\ "a2ui" \in Kinds
  BY DEF Names, Kinds
<1>2. Extracted(event, call) \in {"nothing", "text", "json", "a2ui", "error"}
  <2>1. CASE event = "tool_end"
    <3>1. ThisTurn \in TurnType
      BY <2>1 DEF ThisTurn
    <3>2. ThisTurn.calls \in Seq(Results)
      BY <3>1 DEF TurnType
    <3>3. ThisTurn.calls[call] \in Results
      BY <2>1, <3>2
    <3> QED
      BY <2>1, <3>3 DEF Extracted, Results
  <2>2. CASE event # "tool_end"
    BY <2>2 DEF Extracted, Events
  <2> QED
    BY <2>1, <2>2
<1>3. PICK content \in {"nothing", "text", "json", "a2ui", "error"} : content = Extracted(event, call)
  BY <1>2
<1>4. content = "nothing" \/ content \in Kinds
  BY <1>3 DEF Kinds
<1>5. CASE event \in {"model_start", "tool_start", "run_start", "run_end"}
  <2>1. content = "nothing"
    BY <1>3, <1>5 DEF Extracted
  <2>2. Narrative(event, call) = <<>>
    BY <1>3, <2>1 DEF Narrative
  <2>3. PICK m \in MessageType : m = Message(event, "json", call)
    BY <1>1, MessageIsTyped
  <2>4. m.turn = Len(said) /\ m.call = call /\ m.event = event
    BY <1>1, <2>3, MessageIsTyped
  <2>5. Lifecycle(event, call) = <<m>>
    BY <1>5, <2>3 DEF Lifecycle
  <2>6. Narrative(event, call) \o Lifecycle(event, call) = <<m>>
    BY <2>2, <2>5
  <2> QED
    BY <1>5, <2>4, <2>6, AloneOfOneEvent
<1>6. CASE event \notin {"model_start", "tool_start", "run_start", "run_end"}
  <2>1. Lifecycle(event, call) = <<>>
    BY <1>6 DEF Lifecycle
  <2>2. CASE content = "nothing"
    <3>1. Narrative(event, call) = <<>>
      BY <1>3, <2>2 DEF Narrative
    <3>2. Narrative(event, call) \o Lifecycle(event, call) = <<>>
      BY <2>1, <3>1
    <3> QED
      BY <3>2 DEF OfOneEvent
  <2>3. CASE content # "nothing"
    <3>1. event \in {"model_end", "tool_end", "tool_error", "model_error"}
      BY <1>3, <2>3 DEF Extracted
    <3>2. event = "tool_end" => content = ThisTurn.calls[call]
      BY <1>3 DEF Extracted
    <3>3. CASE content # "a2ui"
      <4>1. PICK m \in MessageType : m = Message(event, content, call)
        BY <1>1, <1>4, <2>3, MessageIsTyped
      <4>2. m.turn = Len(said) /\ m.call = call /\ m.event = event /\ m.kind = content
        BY <1>1, <1>4, <2>3, <4>1, MessageIsTyped
      <4>3. Narrative(event, call) = <<m>>
        BY <1>3, <2>3, <3>3, <4>1 DEF Narrative
      <4>4. Narrative(event, call) \o Lifecycle(event, call) = <<m>>
        BY <2>1, <4>3
      <4> QED
        BY <3>1, <3>2, <4>2, <4>4, AloneOfOneEvent
    <3>4. CASE content = "a2ui"
      <4>1. event = "tool_end"
        BY <1>3, <3>1, <3>4 DEF Extracted
      <4>2. PICK m1 \in MessageType : m1 = Message(event, "text", call)
        BY <1>1, MessageIsTyped
      <4>3. PICK m2 \in MessageType : m2 = Message("a2ui", "a2ui", call)
        BY <1>1, MessageIsTyped
      <4>4. /\ m1.turn = Len(said) /\ m1.call = call /\ m1.event = event /\ m1.kind = "text"
            /\ m2.turn = Len(said) /\ m2.call = call /\ m2.event = "a2ui" /\ m2.kind = "a2ui"
        BY <1>1, <4>2, <4>3, MessageIsTyped
      <4>5. Narrative(event, call) = <<m1, m2>>
        BY <1>3, <3>4, <4>2, <4>3 DEF Narrative
      <4>6. Narrative(event, call) \o Lifecycle(event, call) = <<m1, m2>>
        BY <2>1, <4>5
      <4> QED
        BY <4>1, <4>4, <4>6, BothOfOneEvent
    <3> QED
      BY <3>3, <3>4
  <2> QED
    BY <2>2, <2>3
<1> QED
  BY <1>5, <1>6

----------------------------------------------------------------------------
(* Handing messages over.                                                  *)

LEMMA Concatenated ==
  ASSUME NEW S, NEW s \in Seq(S), NEW t \in Seq(S)
  PROVE  /\ s \o t \in Seq(S) /\ Len(s \o t) = Len(s) + Len(t)
         /\ DOMAIN (s \o t) = 1 .. (Len(s) + Len(t))
         /\ \A i \in DOMAIN s : (s \o t)[i] = s[i]
         /\ \A i \in DOMAIN t : (s \o t)[Len(s) + i] = t[i]
         /\ \A i \in DOMAIN (s \o t) :
              i \in DOMAIN s \/ \E j \in DOMAIN t : i = Len(s) + j
<1>1. Len(s) \in Nat /\ Len(t) \in Nat /\ DOMAIN s = 1 .. Len(s) /\ DOMAIN t = 1 .. Len(t)
  OBVIOUS
<1>2. s \o t \in Seq(S) /\ Len(s \o t) = Len(s) + Len(t) /\ DOMAIN (s \o t) = 1 .. (Len(s) + Len(t))
  OBVIOUS
<1>3. \A i \in DOMAIN s : (s \o t)[i] = s[i]
  OBVIOUS
<1>4. \A i \in DOMAIN t : (s \o t)[Len(s) + i] = t[i]
  BY <1>1
<1>5. ASSUME NEW i \in DOMAIN (s \o t), i \notin DOMAIN s
      PROVE  i - Len(s) \in DOMAIN t /\ i = Len(s) + (i - Len(s))
  BY <1>1, <1>2, <1>5
<1> QED
  BY <1>2, <1>3, <1>4, <1>5

LEMMA NewIndices ==
  ASSUME NEW k \in Nat, NEW n \in Nat
  PROVE  /\ Indices(k, k + n) \in Seq(Nat) /\ Len(Indices(k, k + n)) = n
         /\ \A i \in 1 .. n : Indices(k, k + n)[i] = k + i
<1>1. (k + n) - k = n
  OBVIOUS
<1>2. Indices(k, k + n) = [i \in 1 .. n |-> k + i]
  BY <1>1 DEF Indices
<1> QED
  BY <1>2

\* What is handed to the queue is added to what was emitted; some of it may be
\* dropped.
LEMMA EnqueuedIndices ==
  ASSUME TelemetryTypeOK, DeliveryInv, NEW ms \in Seq(MessageType), Enqueued(ms)
  PROVE  /\ emitted' \in Seq(MessageType) /\ queue' \in Seq(Nat) /\ Len(queue') <= QueueMax
         /\ \A i \in DOMAIN queue' : queue'[i] \in DOMAIN emitted'
         /\ DOMAIN emitted \subseteq DOMAIN emitted'
<1>1. emitted \in Seq(MessageType) /\ queue \in Seq(Nat) /\ QueueMax \in Nat /\ Len(queue) <= QueueMax
  BY TelemetryAssumption DEF TelemetryTypeOK, RunTypeOK, PipeTypeOK, DeliveryInv
<1>2. PICK k \in Nat : k = Len(emitted)
  BY <1>1
<1>3. PICK n \in 0 .. Len(ms) : /\ n <= QueueMax - Len(queue)
                                /\ queue' = queue \o Indices(k, k + n)
  <2>1. Len(ms) \in Nat /\ Len(queue) \in Nat
    BY <1>1
  <2> DEFINE room == QueueMax - Len(queue)
  <2>2. queue' = queue \o Indices(k, k + (IF Len(ms) < room THEN Len(ms) ELSE room))
    BY <1>2 DEF Enqueued
  <2>3. (IF Len(ms) < room THEN Len(ms) ELSE room) \in 0 .. Len(ms)
    BY <1>1, <2>1
  <2>4. (IF Len(ms) < room THEN Len(ms) ELSE room) <= room
    BY <1>1, <2>1
  <2> QED
    BY <2>2, <2>3, <2>4
<1>4. n \in Nat /\ Len(ms) \in Nat
  BY <1>3
<1>5. emitted' = emitted \o ms
  BY DEF Enqueued
<1>6. emitted' \in Seq(MessageType) /\ DOMAIN emitted' = 1 .. (k + Len(ms))
  BY <1>1, <1>2, <1>5, Concatenated
<1>7. DOMAIN emitted = 1 .. k
  BY <1>1, <1>2
<1> DEFINE new == Indices(k, k + n)
<1>8. new \in Seq(Nat) /\ Len(new) = n /\ \A i \in 1 .. n : new[i] = k + i
  BY <1>4, NewIndices
<1> HIDE DEF new
<1>9. \A i \in DOMAIN new : new[i] \in 1 .. (k + Len(ms))
  BY <1>3, <1>4, <1>8
<1>10. queue' = queue \o new
  BY <1>3 DEF new
<1>11. queue' \in Seq(Nat) /\ Len(queue') = Len(queue) + n
  BY <1>1, <1>8, <1>10, Concatenated
<1>12. ASSUME NEW i \in DOMAIN queue' PROVE queue'[i] \in DOMAIN emitted'
  <2>1. CASE i \in DOMAIN queue
    <3>1. queue'[i] = queue[i] /\ queue[i] \in DOMAIN emitted
      BY <1>1, <1>8, <1>10, <2>1, Concatenated DEF DeliveryInv
    <3> QED
      BY <1>4, <1>6, <1>7, <3>1
  <2>2. CASE i \notin DOMAIN queue
    <3>0. \A l \in DOMAIN (queue \o new) : l \in DOMAIN queue \/ \E j \in DOMAIN new : l = Len(queue) + j
      <4>1. queue \in Seq(Nat) /\ new \in Seq(Nat)
        BY <1>1, <1>8
      <4> QED
        BY <4>1, Concatenated
    <3>1. PICK j \in DOMAIN new : i = Len(queue) + j
      BY <1>10, <2>2, <3>0
    <3>2. queue'[i] = new[j]
      BY <1>1, <1>8, <1>10, <3>1, Concatenated
    <3> QED
      BY <1>6, <1>9, <3>2
  <2> QED
    BY <2>1, <2>2
<1>13. Len(queue') <= QueueMax
  BY <1>1, <1>3, <1>11
<1> QED
  BY <1>4, <1>6, <1>7, <1>11, <1>12, <1>13

\* The run goes on from what holds of its messages.
Onward == \A m \in MessageType : Past(m) => Past(m)' /\ (Right(m) => Right(m)')

Unheard(m) == m \notin tasks' /\ \A i \in DOMAIN emitted : emitted[i] # m

LEMMA HandedOver ==
  ASSUME TelemetryTypeOK, DeliveryInv, Onward, NEW ms \in Seq(MessageType), Enqueued(ms),
         tasks' \subseteq tasks, \A i, j \in DOMAIN ms : ms[i] = ms[j] => i = j,
         \A i \in DOMAIN ms : Unheard(ms[i]) /\ Past(ms[i])' /\ Right(ms[i])'
  PROVE  DeliveryInv' /\ emitted' \in Seq(MessageType) /\ queue' \in Seq(Nat)
<1>1. emitted \in Seq(MessageType) /\ emitted' = emitted \o ms
  BY DEF TelemetryTypeOK, RunTypeOK, PipeTypeOK, Enqueued
<1>2. \A m \in tasks : m \in MessageType /\ Past(m) /\ Right(m)
  BY DEF TelemetryTypeOK, RunTypeOK, PipeTypeOK, DeliveryInv
<1>3. \A m \in tasks' : Past(m)' /\ Right(m)'
  BY <1>2 DEF Onward
<1>4. \A i \in DOMAIN emitted : emitted'[i] = emitted[i]
  BY <1>1, Concatenated
<1>5. \A i \in DOMAIN ms : emitted'[Len(emitted) + i] = ms[i]
  BY <1>1, Concatenated
<1>6. \A i \in DOMAIN emitted' : i \in DOMAIN emitted \/ \E j \in DOMAIN ms : i = Len(emitted) + j
  BY <1>1, Concatenated
<1>7. ASSUME NEW i \in DOMAIN emitted
      PROVE  Past(emitted[i])' /\ Right(emitted[i])' /\ emitted[i] \notin tasks'
  <2>1. PICK m \in MessageType : m = emitted[i]
    BY <1>1
  <2>2. Past(m) /\ Right(m) /\ m \notin tasks
    BY <2>1 DEF DeliveryInv
  <2>3. Past(m)' /\ Right(m)' /\ m \notin tasks'
    BY <2>2 DEF Onward
  <2>4. m = emitted'[i]
    BY <1>4, <2>1
  <2> QED
    BY <2>1, <2>3, <2>4 DEF Past, Right
<1>8. ASSUME NEW i \in DOMAIN emitted'
      PROVE  Past(emitted[i])' /\ Right(emitted[i])' /\ emitted'[i] \notin tasks'
  BY <1>4, <1>5, <1>6, <1>7 DEF Unheard
<1>9. ASSUME NEW i \in DOMAIN emitted', NEW j \in DOMAIN emitted', emitted'[i] = emitted'[j] PROVE i = j
  BY <1>4, <1>5, <1>6, <1>9 DEF Unheard, DeliveryInv
<1>10. /\ queue' \in Seq(Nat) /\ emitted' \in Seq(MessageType) /\ Len(queue') <= QueueMax
       /\ \A i \in DOMAIN queue' : queue'[i] \in DOMAIN emitted'
       /\ DOMAIN emitted \subseteq DOMAIN emitted'
  BY EnqueuedIndices
<1>11. batch' = batch /\ wire' = wire
  BY DEF Enqueued
<1>12. (\A w \in Workers : batch'[w] \subseteq DOMAIN emitted') /\ wire' \subseteq DOMAIN emitted'
  BY <1>10, <1>11 DEF DeliveryInv
<1> QED
  BY <1>3, <1>8, <1>9, <1>10, <1>12 DEF DeliveryInv

----------------------------------------------------------------------------
(* The results of a turn's calls.                                          *)

\* A recursion over the first n numbers has a solution.
Solves(f, T, base, step, n) ==
  /\ f \in [0 .. n -> T]
  /\ \A i \in 0 .. n : f[i] = IF i = 0 THEN base ELSE step[i][f[i - 1]]

LEMMA Recursion ==
  ASSUME NEW T, NEW base \in T, NEW step \in [Nat -> [T -> T]], NEW n \in Nat
  PROVE  \E f : Solves(f, T, base, step, n)
<1> DEFINE Has(k) == \E f : Solves(f, T, base, step, k)
<1> DEFINE S == {k \in Nat : Has(k)}
<1>1. 0 \in S
  <2>1. PICK f : f = [i \in 0 .. 0 |-> base]
    OBVIOUS
  <2>2. Solves(f, T, base, step, 0)
    BY <2>1 DEF Solves
  <2> QED
    BY <2>2
<1>2. ASSUME NEW k \in S PROVE k + 1 \in S
  <2>1. k \in Nat
    OBVIOUS
  <2>2. PICK f : Solves(f, T, base, step, k)
    OBVIOUS
  <2>3. f[k] \in T /\ step[k + 1][f[k]] \in T
    BY <2>1, <2>2 DEF Solves
  <2>4. PICK g : g = [i \in 0 .. k + 1 |-> IF i <= k THEN f[i] ELSE step[k + 1][f[k]]]
    OBVIOUS
  <2>5. g \in [0 .. k + 1 -> T]
    BY <2>1, <2>2, <2>3, <2>4 DEF Solves
  <2>6. ASSUME NEW i \in 0 .. k + 1
        PROVE  g[i] = IF i = 0 THEN base ELSE step[i][g[i - 1]]
    <3>1. CASE i = 0
      BY <2>1, <2>2, <2>4, <3>1 DEF Solves
    <3>2. CASE i \in 1 .. k
      <4>1. f[i] = step[i][f[i - 1]]
        BY <2>1, <2>2, <3>2 DEF Solves
      <4>2. g[i] = f[i] /\ g[i - 1] = f[i - 1]
        BY <2>1, <2>4, <3>2
      <4> QED
        BY <2>1, <3>2, <4>1, <4>2
    <3>3. CASE i = k + 1
      BY <2>1, <2>4, <3>3
    <3> QED
      BY <2>1, <3>1, <3>2, <3>3
  <2>7. Solves(g, T, base, step, k + 1)
    BY <2>5, <2>6 DEF Solves
  <2> QED
    BY <2>1, <2>7
<1>3. S = Nat
  <2>1. S \in SUBSET Nat
    OBVIOUS
  <2> HIDE DEF S
  <2> QED
    BY <1>1, <1>2, <2>1, Induction
<1> QED
  BY <1>3

\* JSON results of the calls up to the i-th, each of them once.
JsonResults(ms, i) ==
  /\ ms \in Seq(MessageType)
  /\ \A j, k \in DOMAIN ms : ms[j] = ms[k] => j = k
  /\ \A j \in DOMAIN ms :
       /\ ms[j].turn = Len(said) /\ ms[j].event = "json" /\ ms[j].call \in 1 .. i
       /\ ThisTurn.calls[ms[j].call] = "json"

LEMMA ResultAdded ==
  ASSUME said \in Seq(TurnType), NEW ms, NEW i \in Nat, JsonResults(ms, i),
         NEW result, result = ThisTurn.calls[i + 1]
  PROVE  JsonResults(ms \o Passed(result, i + 1), i + 1)
<1>0. ms \in Seq(MessageType)
  BY DEF JsonResults
<1>1. CASE result # "json"
  <2>1. ms \o Passed(result, i + 1) = ms
    BY <1>0, <1>1, EmptyBeside DEF Passed
  <2>2. \A j \in 1 .. i : j \in 1 .. (i + 1)
    OBVIOUS
  <2>3. JsonResults(ms, i + 1)
    BY <2>2 DEF JsonResults
  <2> QED
    BY <2>1, <2>3
<1>2. CASE result = "json"
  <2>1. "json" \in Names /\ "json" \in Kinds
    BY DEF Names, Kinds
  <2>2. PICK m \in MessageType : m = Message("json", "json", i + 1)
    BY <2>1, MessageIsTyped
  <2>3. m.turn = Len(said) /\ m.event = "json" /\ m.call = i + 1
    BY <2>1, <2>2, MessageIsTyped
  <2>4. PICK more : more = <<m>>
    OBVIOUS
  <2>5. more \in Seq(MessageType) /\ DOMAIN more = {1} /\ more[1] = m
    BY <2>4, OneElement
  <2>6. PICK all : all = ms \o more
    OBVIOUS
  <2>7. /\ all \in Seq(MessageType)
        /\ \A j \in DOMAIN ms : all[j] = ms[j]
        /\ \A j \in DOMAIN all : j \in DOMAIN ms \/ j = Len(ms) + 1
        /\ all[Len(ms) + 1] = m
    BY <1>0, <2>5, <2>6, Concatenated
  <2>8. \A j \in DOMAIN ms : ms[j].call # i + 1 /\ ms[j].call \in 1 .. (i + 1)
    BY DEF JsonResults
  <2>9. ASSUME NEW j \in DOMAIN all
        PROVE  /\ all[j].turn = Len(said) /\ all[j].event = "json" /\ all[j].call \in 1 .. (i + 1)
               /\ ThisTurn.calls[all[j].call] = "json"
    <3>1. CASE j \in DOMAIN ms
      BY <2>7, <2>8, <3>1 DEF JsonResults
    <3>2. CASE j = Len(ms) + 1
      <4>1. all[j] = m /\ i + 1 \in 1 .. (i + 1)
        BY <2>7, <3>2
      <4>2. ThisTurn.calls[m.call] = "json"
        BY <1>2, <2>3
      <4> QED
        BY <2>3, <4>1, <4>2
    <3> QED
      BY <2>7, <3>1, <3>2
  <2>10. ASSUME NEW j \in DOMAIN all, NEW k \in DOMAIN all, all[j] = all[k] PROVE j = k
    BY <2>3, <2>7, <2>8, <2>10 DEF JsonResults
  <2>11. JsonResults(all, i + 1)
    BY <2>7, <2>9, <2>10 DEF JsonResults
  <2> QED
    BY <1>2, <2>2, <2>4, <2>6, <2>11 DEF Passed
<1> QED
  BY <1>1, <1>2

LEMMA PassedAreJson ==
  ASSUME said \in Seq(TurnType), Len(said) > 0
  PROVE  JsonResults(PassedResults, Len(ThisTurn.calls))
<1>1. PICK cs \in Seq(Results) : cs = ThisTurn.calls
  <2>1. ThisTurn \in TurnType
    BY DEF ThisTurn
  <2> QED
    BY <2>1 DEF TurnType
<1>2. PICK n \in Nat : n = Len(cs)
  OBVIOUS
<1> DEFINE passed[i \in 0 .. n] == IF i = 0 THEN <<>> ELSE passed[i - 1] \o Passed(cs[i], i)
<1>3. PassedResults = passed[n]
  BY <1>1, <1>2 DEF PassedResults
<1> DEFINE T == Seq(MessageType)
<1>4. ASSUME NEW i \in Nat, NEW s \in T PROVE s \o Passed(cs[i], i) \in T
  <2>1. "json" \in Names /\ "json" \in Kinds
    BY DEF Names, Kinds
  <2>2. Message("json", "json", i) \in MessageType
    BY <2>1, MessageIsTyped
  <2>3. Passed(cs[i], i) \in T
    BY <2>2 DEF Passed
  <2> QED
    BY <2>3, Concatenated
<1>5. passed = [i \in 0 .. n |-> IF i = 0 THEN <<>> ELSE passed[i - 1] \o Passed(cs[i], i)]
  <2> DEFINE step == [i \in Nat |-> [s \in T |-> s \o Passed(cs[i], i)]]
  <2>1. step \in [Nat -> [T -> T]] /\ <<>> \in T
    BY <1>4
  <2>2. \A i \in Nat, s \in T : step[i][s] = s \o Passed(cs[i], i)
    OBVIOUS
  <2> HIDE DEF step, T
  <2>3. PICK f \in [0 .. n -> T] : \A i \in 0 .. n : f[i] = IF i = 0 THEN <<>> ELSE step[i][f[i - 1]]
    <3>1. \E f : Solves(f, T, <<>>, step, n)
      BY <2>1, Recursion
    <3> QED
      BY <3>1 DEF Solves
  <2>4. ASSUME NEW i \in 0 .. n
        PROVE  f[i] = IF i = 0 THEN <<>> ELSE f[i - 1] \o Passed(cs[i], i)
    <3>1. CASE i = 0
      BY <2>3, <3>1
    <3>2. CASE i # 0
      <4>1. i - 1 \in 0 .. n /\ i \in Nat
        BY <1>2, <3>2
      <4> QED
        BY <2>2, <2>3, <3>2, <4>1
    <3> QED
      BY <3>1, <3>2
  <2>5. f = [i \in 0 .. n |-> IF i = 0 THEN <<>> ELSE f[i - 1] \o Passed(cs[i], i)]
    BY <2>3, <2>4
  <2>6. \E g : g = [i \in 0 .. n |-> IF i = 0 THEN <<>> ELSE g[i - 1] \o Passed(cs[i], i)]
    BY <2>5
  <2> QED
    BY <2>6
<1> HIDE DEF passed, T
<1> DEFINE S == {i \in Nat : i <= n => JsonResults(passed[i], i)}
<1>6. 0 \in S
  <2>1. passed[0] = <<>>
    BY <1>5
  <2>2. JsonResults(<<>>, 0)
    BY DEF JsonResults
  <2> QED
    BY <2>1, <2>2
<1>7. ASSUME NEW i \in S PROVE i + 1 \in S
  <2>1. ASSUME i + 1 <= n PROVE JsonResults(passed[i + 1], i + 1)
    <3>1. JsonResults(passed[i], i)
      BY <2>1
    <3>2. passed[i + 1] = passed[i] \o Passed(cs[i + 1], i + 1)
      <4>1. i + 1 \in 0 .. n /\ i + 1 # 0 /\ (i + 1) - 1 = i
        BY <2>1
      <4>2. passed[i + 1] = passed[(i + 1) - 1] \o Passed(cs[i + 1], i + 1)
        BY <1>5, <4>1
      <4> QED
        BY <4>1, <4>2
    <3> QED
      BY <1>1, <3>1, <3>2, ResultAdded
  <2> QED
    BY <2>1
<1>8. S = Nat
  <2>1. S \in SUBSET Nat
    OBVIOUS
  <2> HIDE DEF S
  <2> QED
    BY <1>6, <1>7, <2>1, Induction
<1>9. JsonResults(passed[n], n)
  BY <1>8
<1> QED
  BY <1>1, <1>2, <1>3, <1>9

----------------------------------------------------------------------------
(* Steps of the telemetry.                                                 *)

LEMMA NothingHandedOver ==
  ASSUME TelemetryTypeOK, DeliveryInv, Onward, UNCHANGED <<tasks, emitted, poolVars>>
  PROVE  DeliveryInv'
<1>1. tasks' = tasks /\ emitted' = emitted /\ queue' = queue /\ batch' = batch /\ wire' = wire
  BY DEF poolVars
<1>2. \A m \in tasks : m \in MessageType /\ Past(m) /\ Right(m)
  BY DEF TelemetryTypeOK, PipeTypeOK, DeliveryInv
<1>3. \A m \in tasks' : Past(m)' /\ Right(m)'
  BY <1>1, <1>2 DEF Onward
<1>4. ASSUME NEW i \in DOMAIN emitted'
      PROVE  Past(emitted[i])' /\ Right(emitted[i])' /\ emitted'[i] \notin tasks'
  <2>1. PICK m \in MessageType : m = emitted[i]
    BY <1>1 DEF TelemetryTypeOK, PipeTypeOK
  <2>2. Past(m) /\ Right(m) /\ m \notin tasks
    BY <1>1, <2>1 DEF DeliveryInv
  <2>3. Past(m)' /\ Right(m)' /\ m = emitted'[i]
    BY <1>1, <2>1, <2>2 DEF Onward
  <2> QED
    BY <1>1, <2>2, <2>3 DEF Past, Right
<1> QED
  BY <1>1, <1>3, <1>4 DEF DeliveryInv

\* New messages of a runner wait in its background tasks.
LEMMA LeftToTasks ==
  ASSUME TelemetryTypeOK, DeliveryInv, Onward, NEW more \in SUBSET MessageType,
         tasks' \subseteq tasks \cup more, UNCHANGED <<emitted, poolVars>>,
         \A m \in more : ~Past(m) /\ Past(m)' /\ Right(m)'
  PROVE  DeliveryInv'
<1>1. emitted' = emitted /\ queue' = queue /\ batch' = batch /\ wire' = wire
  BY DEF poolVars
<1>2. \A m \in tasks : m \in MessageType /\ Past(m) /\ Right(m)
  BY DEF TelemetryTypeOK, PipeTypeOK, DeliveryInv
<1>3. \A m \in tasks' : Past(m)' /\ Right(m)'
  BY <1>1, <1>2 DEF Onward
<1>4. ASSUME NEW i \in DOMAIN emitted'
      PROVE  Past(emitted[i])' /\ Right(emitted[i])' /\ emitted'[i] \notin tasks'
  <2>1. PICK m \in MessageType : m = emitted[i]
    BY <1>1 DEF TelemetryTypeOK, PipeTypeOK
  <2>2. Past(m) /\ Right(m) /\ m \notin tasks
    BY <1>1, <2>1 DEF DeliveryInv
  <2>3. Past(m)' /\ Right(m)' /\ m = emitted'[i] /\ m \notin tasks'
    BY <1>1, <2>1, <2>2 DEF Onward
  <2> QED
    BY <2>3 DEF Past, Right
<1> QED
  BY <1>1, <1>3, <1>4 DEF DeliveryInv

\* Of the events of the plugin, those of the user and of the agent are silent.
Silent == {"user_message", "agent_start", "agent_end"}

\* The run passes the place of the event's messages.
Passes(event, call) ==
  \A m \in MessageType :
    (/\ m.turn = Len(said) /\ m.call = call
     /\ m.event = event \/ (event = "tool_end" /\ m.event = "a2ui"))
    => ~Past(m) /\ Past(m)'

LEMMA Published ==
  ASSUME TelemetryTypeOK, DeliveryInv, NumbersInv, Onward,
         NEW event \in Events, NEW call \in Nat, NEW seen, Publish(event, call, seen),
         event = "tool_end" => Len(said) > 0 /\ call \in DOMAIN ThisTurn.calls,
         said' = said, event \notin Silent => Passes(event, call)
  PROVE  DeliveryInv' /\ PipeTypeOK' /\ NumbersInv'
<1> DEFINE all == Narrative(event, call) \o Lifecycle(event, call)
<1>1. OfOneEvent(all, event, call)
  BY OneEvent DEF TelemetryTypeOK, RunTypeOK
<1>2. PICK ms \in Seq(MessageType) : ms = all
  BY <1>1 DEF OfOneEvent
<1>3. OfOneEvent(ms, event, call)
  BY <1>1, <1>2
<1>4. /\ issued' = Append(issued, counter) /\ counter' = counter + 1
      /\ \/ voice = "speaker" /\ Enqueued(ms) /\ tasks' = tasks
         \/ voice # "speaker" /\ tasks' \subseteq tasks \cup Of(ms) /\ UNCHANGED <<emitted, poolVars>>
  <2> HIDE DEF all
  <2>1. Publish(event, call, seen) <=>
          /\ issued' = Append(issued, Number(seen))
          /\ counter' = Number(seen) + 1
          /\ IF voice = "speaker" THEN Enqueued(all) /\ UNCHANGED tasks
             ELSE /\ tasks' = IF event \in Suppressed THEN tasks ELSE tasks \cup Of(all)
                  /\ UNCHANGED <<emitted, poolVars>>
    BY DEF Publish, all
  <2> QED
    BY <1>2, <2>1 DEF Number
<1> HIDE DEF all
<1>5. ASSUME NEW i \in DOMAIN ms
      PROVE  ms[i] \in MessageType /\ ~Past(ms[i]) /\ Past(ms[i])' /\ Right(ms[i])'
  <2>1. PICK m \in MessageType : m = ms[i]
    OBVIOUS
  <2>2. /\ m.turn = Len(said) /\ m.call = call
        /\ m.event = event \/ (event = "tool_end" /\ m.event = "a2ui")
        /\ (m.event = "tool_end" /\ m.kind = "json") => ThisTurn.calls[call] = "json"
    BY <1>3, <2>1 DEF OfOneEvent
  <2>3. event \notin Silent
    <3>1. event \in Silent => ms = <<>>
      BY <1>3 DEF OfOneEvent, Silent
    <3> QED
      BY <3>1
  <2>4. ~Past(m) /\ Past(m)'
    BY <2>2, <2>3 DEF Passes
  <2>5. m.event # "text" /\ m.event # "json"
    BY <2>2 DEF Events
  <2>6. (m.event = "tool_end" /\ m.kind = "json") => m.turn > 0 /\ said[m.turn].calls[m.call] = "json"
    BY <2>2 DEF ThisTurn
  <2>7. Right(m)'
    BY <2>5, <2>6 DEF Right
  <2> QED
    BY <2>1, <2>4, <2>7
<1>6. \A i, j \in DOMAIN ms : ms[i] = ms[j] => i = j
  BY <1>3 DEF OfOneEvent
<1>7. DeliveryInv' /\ tasks' \subseteq MessageType /\ emitted' \in Seq(MessageType) /\ queue' \in Seq(Nat)
  <2>1. CASE voice = "speaker"
    <3>1. Enqueued(ms) /\ tasks' = tasks
      BY <1>4, <2>1
    <3>2. ASSUME NEW i \in DOMAIN ms PROVE Unheard(ms[i])
      <4>1. ~Past(ms[i])
        BY <1>5
      <4> QED
        BY <3>1, <4>1 DEF Unheard, DeliveryInv
    <3>3. \A i \in DOMAIN ms : Unheard(ms[i]) /\ Past(ms[i])' /\ Right(ms[i])'
      BY <1>5, <3>2
    <3>4. DeliveryInv' /\ emitted' \in Seq(MessageType) /\ queue' \in Seq(Nat)
      BY <1>6, <3>1, <3>3, HandedOver
    <3> QED
      BY <3>1, <3>4 DEF TelemetryTypeOK, PipeTypeOK
  <2>2. CASE voice # "speaker"
    <3>1. tasks' \subseteq tasks \cup Of(ms) /\ UNCHANGED <<emitted, poolVars>>
      BY <1>4, <2>2
    <3>2. Of(ms) \in SUBSET MessageType
      BY <1>5 DEF Of
    <3>3. PICK more \in SUBSET MessageType : more = Of(ms)
      BY <3>2
    <3>4. \A m \in more : ~Past(m) /\ Past(m)' /\ Right(m)'
      <4> TAKE m \in more
      <4>1. PICK i \in DOMAIN ms : m = ms[i]
        BY <3>3 DEF Of
      <4> QED
        BY <1>5, <4>1
    <3>5. DeliveryInv'
      BY <3>1, <3>3, <3>4, LeftToTasks
    <3> QED
      BY <3>1, <3>2, <3>5 DEF TelemetryTypeOK, PipeTypeOK, poolVars
  <2> QED
    BY <2>1, <2>2
<1>8. batch' = batch
  BY <1>4 DEF Enqueued, poolVars
<1>9. PipeTypeOK'
  BY <1>4, <1>7, <1>8 DEF TelemetryTypeOK, PipeTypeOK
<1>10. NumbersInv'
  <2>1. issued \in Seq(Nat) /\ counter = Len(issued) /\ \A i \in DOMAIN issued : issued[i] = i - 1
    BY DEF TelemetryTypeOK, PipeTypeOK, NumbersInv, EachSeqOnce
  <2> QED
    BY <1>4, <2>1 DEF NumbersInv, EachSeqOnce
<1> QED
  BY <1>7, <1>9, <1>10

\* Where the callbacks of a run lie.
NotePlaces ==
  {<<"user_message", "start", "begin">>, <<"run_start", "begin", "enter">>,
   <<"agent_start", "enter", "ask">>, <<"model_start", "ask", "answer">>,
   <<"model_error", "answer", "over">>, <<"model_end", "heard", "relay">>,
   <<"agent_end", "leave", "end">>, <<"run_end", "end", "over">>}

LEMMA NotesStep ==
  ASSUME TelemetryInv, NEW event, NEW from, NEW to, <<event, from, to>> \in NotePlaces,
         Notes(event, from, to)
  PROVE  TelemetryInv'
<1>1. /\ stage = from /\ stage' = to /\ voice' = voice /\ said' = said /\ calls' = calls
      /\ Publish(event, 0, counter)
  BY DEF Notes, Steps
<1>2. event \in Events /\ to \in Stages /\ event # "tool_end"
  BY DEF NotePlaces, Events, Stages
<1>3. ASSUME NEW m \in MessageType, Past(m) PROVE Past(m)'
  BY <1>1, <1>3 DEF Past, NotePlaces
<1>4. Onward
  BY <1>1, <1>3 DEF Onward, Right
<1>5. ASSUME event \notin Silent PROVE Passes(event, 0)
  <2>1. ASSUME NEW m \in MessageType, m.turn = Len(said), m.event = event
        PROVE  ~Past(m) /\ Past(m)'
    <3>1. <<event, from, to>> \in NotePlaces \ {<<"user_message", "start", "begin">>,
             <<"agent_start", "enter", "ask">>, <<"agent_end", "leave", "end">>}
      BY <1>5 DEF Silent
    <3>2. m.turn \in Nat
      BY DEF MessageType
    <3> QED
      BY <1>1, <2>1, <3>1, <3>2 DEF Past, NotePlaces
  <2> QED
    BY <1>2, <2>1 DEF Passes
<1>6. DeliveryInv' /\ PipeTypeOK' /\ NumbersInv'
  BY <1>1, <1>2, <1>4, <1>5, Published DEF TelemetryInv
<1>7. RunTypeOK'
  BY <1>1, <1>2 DEF TelemetryInv, TelemetryTypeOK, RunTypeOK
<1>8. TurnsInv'
  BY <1>1 DEF TelemetryInv, TurnsInv, NotePlaces
<1> QED
  BY <1>6, <1>7, <1>8 DEF TelemetryInv, TelemetryTypeOK

LEMMA AnswerStep == ASSUME TelemetryInv, Answer PROVE TelemetryInv'
<1>1. /\ stage = "answer" /\ stage' = "heard" /\ voice' = voice
      /\ UNCHANGED <<calls, seqVars, tasks, emitted, poolVars>>
  BY DEF Answer, Steps
<1>2. said \in Seq(TurnType)
  BY DEF TelemetryInv, TelemetryTypeOK, RunTypeOK
<1>3. PICK turn \in TurnType : said' = Append(said, turn)
  <2>1. PICK text \in Texts, n \in 0 .. (IF Len(said) + 1 < MaxTurns THEN MaxCalls ELSE 0) :
          \E results \in [1 .. n -> Results] : said' = Append(said, [text |-> text, calls |-> results])
    BY DEF Answer
  <2>2. PICK results \in [1 .. n -> Results] : said' = Append(said, [text |-> text, calls |-> results])
    BY <2>1
  <2>3. n \in Nat
    OBVIOUS
  <2>4. results \in Seq(Results)
    BY <2>2, <2>3
  <2>5. [text |-> text, calls |-> results] \in TurnType
    BY <2>4 DEF TurnType
  <2> QED
    BY <2>2, <2>5
<1>4. said' \in Seq(TurnType) /\ Len(said') = Len(said) + 1 /\ Len(said) \in Nat
  BY <1>2, <1>3
<1>5. ASSUME NEW m \in MessageType, Past(m) PROVE Past(m)' /\ (Right(m) => Right(m)')
  <2>1. m.turn \in Nat /\ m.turn <= Len(said)
    BY <1>4, <1>5 DEF Past, MessageType
  <2>2. Past(m)'
    BY <1>4, <2>1 DEF Past
  <2>3. m.turn > 0 => said'[m.turn] = said[m.turn]
    BY <1>2, <1>3, <2>1
  <2> QED
    BY <2>2, <2>3 DEF Right
<1>6. DeliveryInv'
  <2>1. Onward
    BY <1>5 DEF Onward
  <2> QED
    BY <1>1, <2>1, NothingHandedOver DEF TelemetryInv
<1>7. TelemetryTypeOK' /\ TurnsInv'
  BY <1>1, <1>4 DEF TelemetryInv, TelemetryTypeOK, RunTypeOK, PipeTypeOK, TurnsInv, poolVars, seqVars, Stages
<1>8. NumbersInv'
  BY <1>1 DEF TelemetryInv, NumbersInv, EachSeqOnce, seqVars
<1> QED
  BY <1>6, <1>7, <1>8 DEF TelemetryInv

\* What the dispatcher passes through is new and right; a runner's is not.
LEMMA Relayed ==
  ASSUME TelemetryTypeOK, DeliveryInv, NumbersInv, Onward, NEW ms \in Seq(MessageType), Relay(ms),
         \A i, j \in DOMAIN ms : ms[i] = ms[j] => i = j,
         \A i \in DOMAIN ms : ~Past(ms[i]) /\ Past(ms[i])' /\ Right(ms[i])'
  PROVE  DeliveryInv' /\ PipeTypeOK' /\ NumbersInv'
<1>1. UNCHANGED <<seqVars, tasks>>
  BY DEF Relay
<1>2. PICK sent \in Seq(MessageType) : Enqueued(sent) /\ (sent = ms \/ sent = <<>>)
  <2>1. <<>> \in Seq(MessageType)
    OBVIOUS
  <2> QED
    BY <2>1 DEF Relay
<1>3. ASSUME NEW i \in DOMAIN sent
      PROVE  i \in DOMAIN ms /\ sent[i] = ms[i]
  BY <1>2
<1>4. ASSUME NEW i \in DOMAIN sent
      PROVE  Unheard(sent[i]) /\ Past(sent[i])' /\ Right(sent[i])'
  <2>1. sent[i] = ms[i] /\ ~Past(ms[i]) /\ Past(ms[i])' /\ Right(ms[i])'
    BY <1>3
  <2>2. tasks' = tasks
    BY <1>1
  <2> QED
    BY <2>1, <2>2 DEF Unheard, DeliveryInv
<1>5. \A i, j \in DOMAIN sent : sent[i] = sent[j] => i = j
  BY <1>3
<1>6. DeliveryInv' /\ emitted' \in Seq(MessageType) /\ queue' \in Seq(Nat)
  BY <1>1, <1>2, <1>4, <1>5, HandedOver
<1>7. PipeTypeOK'
  BY <1>1, <1>2, <1>6 DEF TelemetryTypeOK, PipeTypeOK, Enqueued, seqVars
<1>8. NumbersInv'
  BY <1>1 DEF NumbersInv, EachSeqOnce, seqVars
<1> QED
  BY <1>6, <1>7, <1>8

LEMMA RelayTurnStep == ASSUME TelemetryInv, RelayTurn PROVE TelemetryInv'
<1>1. /\ stage = "relay" /\ voice' = voice /\ said' = said /\ Relay(PassedTurn)
      /\ stage' = (IF ThisTurn.calls = <<>> THEN "leave" ELSE "tools")
      /\ calls' = [i \in DOMAIN ThisTurn.calls |-> [pc |-> "ready", seen |-> 0]]
  BY DEF RelayTurn, Steps
<1>2. said \in Seq(TurnType) /\ Len(said) > 0 /\ Len(said) \in Nat
  BY <1>1 DEF TelemetryInv, TelemetryTypeOK, RunTypeOK, TurnsInv
<1>3. Onward
  <2>1. ASSUME NEW m \in MessageType, Past(m) PROVE Past(m)'
    BY <1>1, <2>1 DEF Past
  <2> QED
    BY <1>1, <2>1 DEF Onward, Right
<1>4. PICK ms \in Seq(MessageType) :
        /\ Relay(ms) /\ \A i, j \in DOMAIN ms : ms[i] = ms[j] => i = j
        /\ \A i \in DOMAIN ms : /\ ms[i].turn = Len(said) /\ ms[i].event = "text" /\ ms[i].call = 0
                                /\ ms[i].kind # "json" /\ ThisTurn.calls = <<>>
  <2>1. CASE ThisTurn.text = "none" \/ ThisTurn.calls # <<>>
    <3>1. PassedTurn = <<>> /\ <<>> \in Seq(MessageType)
      BY <2>1 DEF PassedTurn
    <3>2. PICK ms \in Seq(MessageType) : ms = <<>>
      BY <3>1
    <3>3. DOMAIN ms = {} /\ Relay(ms)
      BY <1>1, <3>1, <3>2
    <3> QED
      BY <3>3
  <2>2. CASE ~(ThisTurn.text = "none" \/ ThisTurn.calls # <<>>)
    <3>1. PICK kind \in {"markup", "text"} : kind = IF ThisTurn.text = "block" THEN "markup" ELSE "text"
      OBVIOUS
    <3>2. "text" \in Names /\ kind \in Kinds
      BY DEF Names, Kinds
    <3>3. PICK m \in MessageType : m = Message("text", kind, 0)
      BY <1>2, <3>2, MessageIsTyped
    <3>4. m.turn = Len(said) /\ m.event = "text" /\ m.call = 0 /\ m.kind = kind
      BY <1>2, <3>2, <3>3, MessageIsTyped
    <3>5. PassedTurn = <<m>>
      BY <2>2, <3>1, <3>3 DEF PassedTurn
    <3>6. PICK ms : ms = <<m>>
      OBVIOUS
    <3>7. ms \in Seq(MessageType) /\ DOMAIN ms = {1} /\ ms[1] = m
      BY <3>6, OneElement
    <3>8. Relay(ms)
      BY <1>1, <3>5, <3>6
    <3> QED
      BY <2>2, <3>4, <3>7, <3>8
  <2> QED
    BY <2>1, <2>2
<1>5. ASSUME NEW i \in DOMAIN ms
      PROVE  ~Past(ms[i]) /\ Past(ms[i])' /\ Right(ms[i])'
  <2>1. PICK m \in MessageType : m = ms[i]
    OBVIOUS
  <2>2. /\ m.turn = Len(said) /\ m.event = "text" /\ m.call = 0
        /\ m.kind # "json" /\ ThisTurn.calls = <<>>
    BY <1>4, <2>1
  <2>3. ~Past(m)
    BY <1>1, <1>2, <2>2 DEF Past
  <2>4. Past(m)'
    BY <1>1, <2>2 DEF Past
  <2>5. Right(m)'
    BY <1>1, <1>2, <2>2 DEF Right, ThisTurn
  <2> QED
    BY <2>1, <2>3, <2>4, <2>5
<1>6. DeliveryInv' /\ PipeTypeOK' /\ NumbersInv'
  BY <1>3, <1>4, <1>5, Relayed DEF TelemetryInv
<1>7. ThisTurn.calls \in Seq(Results)
  <2>1. ThisTurn \in TurnType
    BY <1>2 DEF ThisTurn
  <2> QED
    BY <2>1 DEF TurnType
<1>8. RunTypeOK'
  <2>1. stage' \in Stages
    BY <1>1 DEF Stages
  <2>2. DOMAIN calls' \subseteq Nat
    BY <1>1, <1>7
  <2>3. calls' \in [DOMAIN calls' -> CallStateType]
    BY <1>1 DEF CallStateType
  <2> QED
    BY <1>1, <2>1, <2>2, <2>3 DEF TelemetryInv, TelemetryTypeOK, RunTypeOK
<1>9. TurnsInv'
  BY <1>1, <1>2 DEF TurnsInv, ThisTurn
<1> QED
  BY <1>6, <1>8, <1>9 DEF TelemetryInv, TelemetryTypeOK

LEMMA RelayResultsStep == ASSUME TelemetryInv, RelayResults PROVE TelemetryInv'
<1> DEFINE failed == \E i \in DOMAIN calls : ThisTurn.calls[i] = "error"
<1>1. /\ stage = "tools" /\ voice' = voice /\ said' = said /\ calls' = calls
      /\ stage' = (IF failed THEN "over" ELSE "ask")
      /\ Relay(IF failed THEN <<>> ELSE PassedResults)
      /\ \A i \in DOMAIN calls : calls[i].pc = "done"
  BY DEF RelayResults, Steps
<1>2. said \in Seq(TurnType) /\ Len(said) > 0 /\ Len(said) \in Nat
  BY <1>1 DEF TelemetryInv, TelemetryTypeOK, RunTypeOK, TurnsInv
<1> HIDE DEF failed
<1>3. stage' \in {"over", "ask"}
  BY <1>1
<1>4. Onward
  <2>1. ASSUME NEW m \in MessageType, Past(m) PROVE Past(m)'
    BY <1>1, <1>3, <2>1 DEF Past
  <2> QED
    BY <1>1, <2>1 DEF Onward, Right
<1>5. PICK ms \in Seq(MessageType) : Relay(ms) /\ JsonResults(ms, Len(ThisTurn.calls))
  <2>1. JsonResults(<<>>, Len(ThisTurn.calls))
    BY DEF JsonResults
  <2>2. JsonResults(PassedResults, Len(ThisTurn.calls))
    BY <1>2, PassedAreJson
  <2>3. PICK ms : ms = IF failed THEN <<>> ELSE PassedResults
    OBVIOUS
  <2>4. Relay(ms) /\ JsonResults(ms, Len(ThisTurn.calls))
    BY <1>1, <2>1, <2>2, <2>3
  <2> QED
    BY <2>4 DEF JsonResults
<1>6. ASSUME NEW i \in DOMAIN ms
      PROVE  ~Past(ms[i]) /\ Past(ms[i])' /\ Right(ms[i])'
  <2>1. PICK m \in MessageType : m = ms[i]
    OBVIOUS
  <2>2. m.turn = Len(said) /\ m.event = "json" /\ ThisTurn.calls[m.call] = "json"
    BY <1>5, <2>1 DEF JsonResults
  <2>3. ~Past(m)
    BY <1>1, <1>2, <2>2 DEF Past
  <2>4. Past(m)'
    BY <1>1, <1>3, <2>2 DEF Past
  <2>5. Right(m)'
    BY <1>1, <1>2, <2>2 DEF Right, ThisTurn
  <2> QED
    BY <2>1, <2>3, <2>4, <2>5
<1>7. \A i, j \in DOMAIN ms : ms[i] = ms[j] => i = j
  BY <1>5 DEF JsonResults
<1>8. DeliveryInv' /\ PipeTypeOK' /\ NumbersInv'
  BY <1>4, <1>5, <1>6, <1>7, Relayed DEF TelemetryInv
<1>9. RunTypeOK' /\ TurnsInv'
  BY <1>1, <1>3 DEF TelemetryInv, TelemetryTypeOK, RunTypeOK, TurnsInv, Stages
<1> QED
  BY <1>8, <1>9 DEF TelemetryInv, TelemetryTypeOK

\* A callback of one of the calls that run side by side.
LEMMA CallbackStep ==
  ASSUME TelemetryInv, NEW i \in DOMAIN calls, NEW pc, NEW next, Called(i, pc, next),
         <<pc, next>> \in {<<"ready", "starting">>, <<"running", "ending">>,
                           <<"starting", "running">>, <<"ending", "done">>}
  PROVE  /\ Onward /\ RunTypeOK' /\ TurnsInv' /\ said' = said
         /\ stage = "tools" /\ stage' = "tools" /\ calls[i].pc = pc /\ calls'[i].pc = next
         /\ i \in DOMAIN calls'
<1>1. /\ stage = "tools" /\ calls[i].pc = pc /\ voice' = voice /\ stage' = stage /\ said' = said
      /\ calls' = [calls EXCEPT ![i] = [pc |-> next, seen |-> counter]]
  BY DEF Called
<1>2. /\ calls \in [DOMAIN calls -> CallStateType] /\ DOMAIN calls \subseteq Nat /\ counter \in Nat
  BY DEF TelemetryInv, TelemetryTypeOK, RunTypeOK, PipeTypeOK
<1>3. [pc |-> next, seen |-> counter] \in CallStateType
  BY <1>2 DEF CallStateType
<1>4. DOMAIN calls' = DOMAIN calls /\ calls' \in [DOMAIN calls' -> CallStateType]
  BY <1>1, <1>2, <1>3
<1>5. calls'[i].pc = next /\ \A j \in DOMAIN calls \ {i} : calls'[j] = calls[j]
  BY <1>1, <1>2
<1>6. ASSUME NEW m \in MessageType, Past(m) PROVE Past(m)'
  BY <1>1, <1>4, <1>5, <1>6 DEF Past
<1>7. Onward
  BY <1>1, <1>6 DEF Onward, Right
<1>8. RunTypeOK'
  BY <1>1, <1>2, <1>4 DEF TelemetryInv, TelemetryTypeOK, RunTypeOK
<1>9. TurnsInv'
  BY <1>1, <1>4 DEF TelemetryInv, TurnsInv, ThisTurn
<1> QED
  BY <1>1, <1>4, <1>5, <1>7, <1>8, <1>9

LEMMA LookupStep == ASSUME TelemetryInv, NEW i \in DOMAIN calls, Lookup(i) PROVE TelemetryInv'
<1>1. Onward /\ RunTypeOK' /\ TurnsInv'
  BY CallbackStep DEF Lookup
<1>2. UNCHANGED <<seqVars, tasks, emitted, poolVars>>
  BY DEF Lookup
<1>3. DeliveryInv'
  BY <1>1, <1>2, NothingHandedOver DEF TelemetryInv
<1>4. PipeTypeOK' /\ NumbersInv'
  BY <1>2 DEF TelemetryInv, TelemetryTypeOK, PipeTypeOK, NumbersInv, EachSeqOnce, poolVars, seqVars
<1> QED
  BY <1>1, <1>3, <1>4 DEF TelemetryInv, TelemetryTypeOK

LEMMA StartToolStep == ASSUME TelemetryInv, NEW i \in DOMAIN calls, StartTool(i) PROVE TelemetryInv'
<1>1. Called(i, "starting", "running") /\ Publish("tool_start", i, calls[i].seen)
  BY DEF StartTool
<1>2. /\ Onward /\ RunTypeOK' /\ TurnsInv' /\ said' = said /\ stage = "tools" /\ stage' = "tools"
      /\ calls[i].pc = "starting" /\ calls'[i].pc = "running" /\ i \in DOMAIN calls'
  BY <1>1, CallbackStep
<1>3. PICK call \in Nat : call = i
  BY DEF TelemetryInv, TelemetryTypeOK, RunTypeOK
<1>4. Passes("tool_start", call)
  <2>1. ASSUME NEW m \in MessageType, m.turn = Len(said), m.call = call, m.event = "tool_start"
        PROVE  ~Past(m) /\ Past(m)'
    <3>1. m.turn \in Nat
      BY DEF MessageType
    <3> QED
      BY <1>2, <1>3, <2>1, <3>1 DEF Past
  <2> QED
    BY <2>1 DEF Passes
<1>5. "tool_start" \in Events
  BY DEF Events
<1>6. PICK seen : Publish("tool_start", call, seen)
  BY <1>1, <1>3
<1>7. DeliveryInv' /\ PipeTypeOK' /\ NumbersInv'
  BY <1>2, <1>4, <1>5, <1>6, Published DEF TelemetryInv
<1> QED
  BY <1>2, <1>7 DEF TelemetryInv, TelemetryTypeOK

LEMMA EndToolStep == ASSUME TelemetryInv, NEW i \in DOMAIN calls, EndTool(i) PROVE TelemetryInv'
<1>1. PICK event \in {"tool_error", "tool_end"} :
        Called(i, "ending", "done") /\ Publish(event, i, calls[i].seen)
  BY DEF EndTool
<1>2. /\ Onward /\ RunTypeOK' /\ TurnsInv' /\ said' = said /\ stage = "tools" /\ stage' = "tools"
      /\ calls[i].pc = "ending" /\ calls'[i].pc = "done" /\ i \in DOMAIN calls'
  BY <1>1, CallbackStep
<1>3. PICK call \in Nat : call = i
  BY DEF TelemetryInv, TelemetryTypeOK, RunTypeOK
<1>4. Passes(event, call)
  <2>1. ASSUME NEW m \in MessageType, m.turn = Len(said), m.call = call,
               m.event \in {"tool_error", "tool_end", "a2ui"}
        PROVE  ~Past(m) /\ Past(m)'
    <3>1. m.turn \in Nat
      BY DEF MessageType
    <3> QED
      BY <1>2, <1>3, <2>1, <3>1 DEF Past
  <2> QED
    BY <2>1 DEF Passes
<1>5. event \in Events
  BY DEF Events
<1>6. PICK seen : Publish(event, call, seen)
  BY <1>1, <1>3
<1>7. Len(said) > 0 /\ call \in DOMAIN ThisTurn.calls
  BY <1>2, <1>3 DEF TelemetryInv, TurnsInv
<1>8. DeliveryInv' /\ PipeTypeOK' /\ NumbersInv'
  BY <1>2, <1>4, <1>5, <1>6, <1>7, Published DEF TelemetryInv
<1> QED
  BY <1>2, <1>8 DEF TelemetryInv, TelemetryTypeOK

LEMMA RunStepStep == ASSUME TelemetryInv, RunStep PROVE TelemetryInv'
<1>1. CASE HearUser
  BY <1>1, NotesStep DEF HearUser, NotePlaces
<1>2. CASE StartRun
  BY <1>2, NotesStep DEF StartRun, NotePlaces
<1>3. CASE StartAgent
  BY <1>3, NotesStep DEF StartAgent, NotePlaces
<1>4. CASE AskModel
  BY <1>4, NotesStep DEF AskModel, NotePlaces
<1>5. CASE Answer
  BY <1>5, AnswerStep
<1>6. CASE ModelFails
  BY <1>6, NotesStep DEF ModelFails, NotePlaces
<1>7. CASE EndModel
  BY <1>7, NotesStep DEF EndModel, NotePlaces
<1>8. CASE RelayTurn
  BY <1>8, RelayTurnStep
<1>9. CASE RelayResults
  BY <1>9, RelayResultsStep
<1>10. CASE EndAgent
  BY <1>10, NotesStep DEF EndAgent, NotePlaces
<1>11. CASE EndRun
  BY <1>11, NotesStep DEF EndRun, NotePlaces
<1>12. CASE \E i \in DOMAIN calls : Lookup(i) \/ StartTool(i) \/ EndTool(i)
  BY <1>12, LookupStep, StartToolStep, EndToolStep
<1> QED
  BY <1>1, <1>2, <1>3, <1>4, <1>5, <1>6, <1>7, <1>8, <1>9, <1>10, <1>11, <1>12 DEF RunStep

LEMMA RunStaysOnward == ASSUME UNCHANGED runVars PROVE Onward
<1>1. stage' = stage /\ said' = said /\ calls' = calls
  BY DEF runVars
<1> QED
  BY <1>1 DEF Onward, Past, Right

LEMMA RunTaskStep == ASSUME TelemetryInv, NEW m \in tasks, RunTask(m) PROVE TelemetryInv'
<1>1. tasks' = tasks \ {m} /\ Enqueued(<<m>>) /\ UNCHANGED <<runVars, seqVars>>
  BY DEF RunTask
<1>2. m \in MessageType /\ Past(m) /\ Right(m)
  BY DEF TelemetryInv, TelemetryTypeOK, PipeTypeOK, DeliveryInv
<1>3. Past(m)' /\ Right(m)' /\ Onward
  BY <1>1, <1>2, RunStaysOnward DEF Onward
<1>4. Unheard(m)
  BY <1>1 DEF Unheard, TelemetryInv, DeliveryInv
<1>5. PICK ms : ms = <<m>>
  OBVIOUS
<1>6. ms \in Seq(MessageType) /\ DOMAIN ms = {1} /\ ms[1] = m
  BY <1>2, <1>5, OneElement
<1>7. /\ \A i, j \in DOMAIN ms : ms[i] = ms[j] => i = j
      /\ tasks' \subseteq tasks /\ Enqueued(ms)
  BY <1>1, <1>5, <1>6
<1>8. \A i \in DOMAIN ms : Unheard(ms[i]) /\ Past(ms[i])' /\ Right(ms[i])'
  <2> TAKE i \in DOMAIN ms
  <2>1. ms[i] = m
    BY <1>6
  <2> QED
    BY <1>3, <1>4, <2>1
<1>9. DeliveryInv' /\ emitted' \in Seq(MessageType) /\ queue' \in Seq(Nat)
  BY <1>3, <1>6, <1>7, <1>8, HandedOver DEF TelemetryInv
<1>10. PipeTypeOK'
  BY <1>1, <1>9 DEF TelemetryInv, TelemetryTypeOK, PipeTypeOK, Enqueued, seqVars
<1>11. RunTypeOK' /\ TurnsInv' /\ NumbersInv'
  BY <1>1 DEF TelemetryInv, TelemetryTypeOK, RunTypeOK, TurnsInv, ThisTurn, NumbersInv, EachSeqOnce,
              runVars, seqVars
<1> QED
  BY <1>9, <1>10, <1>11 DEF TelemetryInv, TelemetryTypeOK

LEMMA WorkerStepStep == ASSUME TelemetryInv, NEW w \in Workers, WorkerStep(w) PROVE TelemetryInv'
<1>1. UNCHANGED <<runVars, seqVars, tasks, emitted>>
  BY DEF WorkerStep, Take, PublishBatch, LoseBatch
<1>2. /\ queue \in Seq(Nat) /\ batch \in [Workers -> SUBSET Nat] /\ emitted \in Seq(MessageType)
      /\ Len(queue) <= QueueMax /\ \A i \in DOMAIN queue : queue[i] \in DOMAIN emitted
      /\ \A v \in Workers : batch[v] \subseteq DOMAIN emitted
      /\ wire \subseteq DOMAIN emitted
  BY DEF TelemetryInv, TelemetryTypeOK, PipeTypeOK, DeliveryInv
<1>3. /\ queue' \in Seq(Nat) /\ batch' \in [Workers -> SUBSET Nat]
      /\ Len(queue') <= QueueMax /\ \A i \in DOMAIN queue' : queue'[i] \in DOMAIN emitted
      /\ \A v \in Workers : batch'[v] \subseteq DOMAIN emitted
      /\ wire' \subseteq DOMAIN emitted
  <2>1. CASE Take(w)
    <3>1. PICK n \in 0 .. Len(queue) :
            /\ batch' = [batch EXCEPT ![w] = {queue[i] : i \in 1 .. n}]
            /\ queue' = SubSeq(queue, n + 1, Len(queue)) /\ wire' = wire
      <4>1. Len(queue) \in Nat /\ BatchMax \in Nat
        BY <1>2, TelemetryAssumption
      <4>2. (IF Len(queue) < BatchMax THEN Len(queue) ELSE BatchMax) \in 0 .. Len(queue)
        BY <4>1
      <4> QED
        BY <2>1, <4>2 DEF Take
    <3>2. Len(queue) \in Nat /\ n \in Nat /\ QueueMax \in Nat
      BY <1>2, TelemetryAssumption
    <3>3. queue' \in Seq(Nat) /\ Len(queue') = Len(queue) - n
      BY <1>2, <3>1, <3>2
    <3>4. \A i \in DOMAIN queue' : queue'[i] = queue[n + i] /\ n + i \in DOMAIN queue
      BY <1>2, <3>1, <3>2
    <3>5. \A i \in 1 .. n : queue[i] \in DOMAIN emitted /\ queue[i] \in Nat
      BY <1>2, <3>1, <3>2
    <3>6. batch' \in [Workers -> SUBSET Nat] /\ \A v \in Workers : batch'[v] \subseteq DOMAIN emitted
      BY <1>2, <3>1, <3>5
    <3>7. \A i \in DOMAIN queue' : queue'[i] \in DOMAIN emitted
      BY <1>2, <3>4
    <3>8. Len(queue') <= QueueMax
      BY <1>2, <3>2, <3>3
    <3> QED
      BY <1>2, <3>1, <3>3, <3>6, <3>7, <3>8
  <2>2. CASE PublishBatch(w)
    BY <1>2, <2>2 DEF PublishBatch
  <2>3. CASE LoseBatch(w)
    BY <1>2, <2>3 DEF LoseBatch
  <2> QED
    BY <2>1, <2>2, <2>3 DEF WorkerStep
<1>4. stage' = stage /\ said' = said /\ calls' = calls /\ tasks' = tasks /\ emitted' = emitted
  BY <1>1 DEF runVars
<1>5. DeliveryInv'
  BY <1>3, <1>4 DEF TelemetryInv, DeliveryInv, Past, Right
<1>6. PipeTypeOK'
  BY <1>1, <1>3 DEF TelemetryInv, TelemetryTypeOK, PipeTypeOK, seqVars
<1>7. RunTypeOK' /\ TurnsInv' /\ NumbersInv'
  BY <1>1 DEF TelemetryInv, TelemetryTypeOK, RunTypeOK, TurnsInv, ThisTurn, NumbersInv, EachSeqOnce,
              runVars, seqVars
<1> QED
  BY <1>5, <1>6, <1>7 DEF TelemetryInv, TelemetryTypeOK

LEMMA TelemetryInductive == TelemetrySpec => []TelemetryInv
<1>1. TelemetryInit => TelemetryInv
  <2> SUFFICES ASSUME TelemetryInit PROVE TelemetryInv
    OBVIOUS
  <2>1. /\ voice \in {"speaker", "runner"} /\ stage = "start" /\ said = <<>> /\ calls = <<>>
        /\ counter = 0 /\ issued = <<>> /\ tasks = {} /\ emitted = <<>> /\ queue = <<>>
        /\ batch = [w \in Workers |-> {}] /\ wire = {}
    BY DEF TelemetryInit
  <2>2. TelemetryTypeOK
    BY <2>1 DEF TelemetryTypeOK, RunTypeOK, PipeTypeOK, Stages
  <2>3. TurnsInv /\ NumbersInv
    BY <2>1 DEF TurnsInv, NumbersInv, EachSeqOnce
  <2>4. DeliveryInv
    BY <2>1, TelemetryAssumption DEF DeliveryInv
  <2> QED
    BY <2>2, <2>3, <2>4 DEF TelemetryInv
<1>2. TelemetryInv /\ [TelemetryNext]_telemetryVars => TelemetryInv'
  <2> SUFFICES ASSUME TelemetryInv, [TelemetryNext]_telemetryVars PROVE TelemetryInv'
    OBVIOUS
  <2>1. CASE RunStep
    BY <2>1, RunStepStep
  <2>2. CASE \E m \in tasks : RunTask(m)
    BY <2>2, RunTaskStep
  <2>3. CASE \E w \in Workers : WorkerStep(w)
    BY <2>3, WorkerStepStep
  <2>4. CASE UNCHANGED telemetryVars
    <3>1. UNCHANGED <<voice, stage, said, calls, counter, issued, tasks, emitted, queue, batch, wire>>
      BY <2>4 DEF telemetryVars, runVars, seqVars, poolVars
    <3> QED
      BY <3>1 DEF TelemetryInv, TelemetryTypeOK, RunTypeOK, PipeTypeOK, TurnsInv, ThisTurn, DeliveryInv,
                  Past, Right, NumbersInv, EachSeqOnce
  <2> QED
    BY <2>1, <2>2, <2>3, <2>4 DEF TelemetryNext
<1> QED
  BY <1>1, <1>2, PTL DEF TelemetrySpec

\* Of Telemetry: the types of its state.
THEOREM TelemetryTypeCorrect == TelemetrySpec => []TelemetryTypeOK
<1>1. TelemetryInv => TelemetryTypeOK
  BY DEF TelemetryInv
<1> QED
  BY <1>1, TelemetryInductive, PTL

\* Whatever the model says and calls, and in whatever order workers publish:
\* nothing is shown twice, a text in the chat is that of a turn without calls,
\* and only a JSON result arrives as JSON.
THEOREM ShownAlwaysOnce == TelemetrySpec => []ShownOnce
<1>1. TelemetryInv => ShownOnce
  <2> SUFFICES ASSUME TelemetryInv, NEW i \in wire
               PROVE  /\ \A j \in wire \ {i} : emitted[j] # emitted[i]
                      /\ emitted[i].event = "text" =>
                           emitted[i].call = 0 /\ said[emitted[i].turn].calls = <<>>
                      /\ emitted[i].kind = "json" /\ emitted[i].event \in {"json", "tool_end"} =>
                           said[emitted[i].turn].calls[emitted[i].call] = "json"
    BY DEF ShownOnce
  <2>1. i \in DOMAIN emitted /\ Right(emitted[i])
    BY DEF TelemetryInv, DeliveryInv
  <2>2. \A j \in wire \ {i} : emitted[j] # emitted[i]
    BY <2>1 DEF TelemetryInv, DeliveryInv
  <2> QED
    BY <2>1, <2>2 DEF Right
<1> QED
  BY <1>1, TelemetryInductive, PTL

\* The numbers of a session's events are consecutive, however its calls
\* interleave: a number is read and counted up without a pause.
THEOREM EachSeqAlwaysOnce == TelemetrySpec => []EachSeqOnce
<1>1. TelemetryInv => EachSeqOnce
  BY DEF TelemetryInv, NumbersInv
<1> QED
  BY <1>1, TelemetryInductive, PTL
=============================================================================
