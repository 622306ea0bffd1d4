---------------------- MODULE SubscriptionStoreProofs ----------------------
(***************************************************************************)
(* Proofs about SubscriptionStore for any number of connections, sessions, *)
(* gateways, store calls and failures.                                     *)
(*                                                                         *)
(* StoreIsLastWord speaks of the moments between two calls.  InStep says   *)
(* what also holds during a call, by its program counter: what the call    *)
(* has done so far, and that all that it will not touch is right already.  *)
(* A session without overlapping calls has only one to speak of.           *)
(***************************************************************************)
EXTENDS SubscriptionStore, TLAPS

\* The store agrees with what the hubs asked for about s and m.
Agree(s, m) == /\ s \in fwd[m] <=> m \in expected[s]
               /\ m \in rev[s] <=> m \in expected[s]

\* The progress of a Subscribe or an Unsubscribe, and of an UnsubscribeAll.
OneSim(k, s) ==
  LET m == call[k].sim IN
  call[k].pc \in {"sadd fwd", "expire fwd", "sadd rev", "expire rev", "srem fwd", "srem rev"} =>
    /\ m \in Sims
    /\ \A n \in Sims \ {m} : Agree(s, n)
    /\ call[k].pc \in {"sadd fwd", "expire fwd", "sadd rev", "expire rev"} => m \in expected[s]
    /\ call[k].pc \in {"srem fwd", "srem rev"} => m \notin expected[s]
    /\ call[k].pc \in {"expire fwd", "sadd rev", "expire rev"} => s \in fwd[m]
    /\ call[k].pc = "expire rev" => m \in rev[s]
    /\ call[k].pc = "srem rev" => s \notin fwd[m]

AllSims(k, s) ==
  call[k].pc \in {"smembers", "srem", "del"} =>
    /\ expected[s] = {}
    /\ call[k].pc = "smembers" => \A n \in Sims : s \in fwd[n] <=> n \in rev[s]
    /\ call[k].pc = "srem" => \A n \in Sims : s \in fwd[n] => n \in call[k].todo
    /\ call[k].pc = "del" => \A n \in Sims : s \notin fwd[n]

InStep(s) ==
  Orderly(s) =>
    /\ \A j, k \in CallsOf(s) : j = k
    /\ Settled(s) => \A m \in Sims : Agree(s, m)
    /\ \A k \in CallsOf(s) : OneSim(k, s) /\ AllSims(k, s)

\* What the hubs asked for last is in the allowlist of some connection.
ExpectedBacked ==
  \A s \in Sessions \ cut : \A m \in expected[s] :
    \E c \in Clients : SessionOf[c] = s /\ m \in subs[c]

\* Only registered connections have goroutines.
Known ==
  /\ \A c \in Clients : conn[c] = "new" => reader[c] = "new" /\ pump[c] = "new"
  /\ \A k \in Calls : InFlight(k) => conn[call[k].client] # "new"

StoreInv == TypeOK /\ Known /\ ExpectedBacked /\ \A s \in Sessions : InStep(s)

----------------------------------------------------------------------------
(* What a step does to the calls.                                          *)

LEMMA ContinueLemma ==
  ASSUME CallsType, NEW k \in Calls, NEW pc \in CallPCs, InFlight(k), Continue(k, pc)
  PROVE  /\ CallsType'
         /\ call'[k].pc = pc /\ call'[k].client = call[k].client
         /\ call'[k].sim = call[k].sim /\ call'[k].todo = call[k].todo
         /\ \A j \in Calls \ {k} : call'[j] = call[j]
BY DEF CallsType, Continue, InFlight

LEMMA FinishLemma ==
  ASSUME CallsType, NEW k \in Calls, Finish(k)
  PROVE  /\ CallsType'
         /\ call'[k].pc = "done"
         /\ \A j \in Calls \ {k} : call'[j] = call[j]
BY DEF CallsType, Finish, InFlight, Done, NoCall, CallPCs

LEMMA GoLemma ==
  ASSUME CallsType, NEW k \in Calls, NEW pc \in CallPCs, NEW c \in Clients,
         NEW m \in Sims \cup {NoSim}, Go(k, pc, c, m)
  PROVE  /\ CallsType'
         /\ call'[k].pc = pc /\ call'[k].client = c /\ call'[k].sim = m
         /\ \A j \in Calls \ {k} : call'[j] = call[j]
BY DEF CallsType, Go, InFlight

LEMMA PCs ==
  /\ {"sadd fwd", "expire fwd", "sadd rev", "expire rev"} \subseteq CallPCs
  /\ {"srem fwd", "srem rev", "smembers", "srem", "del", "free", "done"} \subseteq CallPCs
BY DEF CallPCs

\* A session whose entries, calls and history a step leaves alone stays in step.
LEMMA Untouched ==
  ASSUME NEW s \in Sessions, InStep(s), Orderly(s)' => Orderly(s),
         rev'[s] = rev[s], \A m \in Sims : s \in fwd'[m] <=> s \in fwd[m],
         expected'[s] = expected[s], CallsOf(s)' = CallsOf(s),
         \A k \in CallsOf(s) : call'[k] = call[k]
  PROVE  InStep(s)'
<1>1. SUFFICES ASSUME Orderly(s)' PROVE InStep(s)'
  BY DEF InStep
<1>2. \A m \in Sims : Agree(s, m)' <=> Agree(s, m)
  BY DEF Agree
<1>3. ASSUME NEW k \in CallsOf(s) PROVE OneSim(k, s)' /\ AllSims(k, s)'
  <2>1. OneSim(k, s) /\ AllSims(k, s) /\ call'[k] = call[k]
    BY <1>1 DEF InStep
  <2>2. OneSim(k, s)'
    BY <2>1, <1>2 DEF OneSim
  <2>3. AllSims(k, s)'
    BY <2>1 DEF AllSims
  <2> QED
    BY <2>2, <2>3
<1> QED
  BY <1>1, <1>2, <1>3 DEF InStep, Settled

\* The calls of the other sessions, when only call k of session s moves.
LEMMA OtherCalls ==
  ASSUME NEW k \in Calls, NEW s \in Sessions, NEW t \in Sessions \ {s},
         k \notin CallsOf(t), k \notin CallsOf(t)',
         \A j \in Calls \ {k} : call'[j] = call[j]
  PROVE  CallsOf(t)' = CallsOf(t) /\ \A j \in CallsOf(t) : call'[j] = call[j]
BY DEF CallsOf, InFlight

----------------------------------------------------------------------------
(* The commands.                                                           *)

\* A command of a call of s moves s only.
LEMMA CommandLemma ==
  ASSUME StoreInv, NEW k \in Calls, NEW s \in Sessions, k \in CallsOf(s),
         UNCHANGED <<connVars, bounds, expected, raced, cut>>,
         CallsType', StoreType',
         InFlight(k)' => call'[k].client = call[k].client,
         \A j \in Calls \ {k} : call'[j] = call[j],
         \A t \in Sessions \ {s} : /\ rev'[t] = rev[t]
                                   /\ \A m \in Sims : t \in fwd'[m] <=> t \in fwd[m],
         Orderly(s) /\ CallsOf(s)' \subseteq {k} => InStep(s)'
  PROVE  StoreInv'
<1>1. TypeOK'
  BY DEF StoreInv, TypeOK, ConnType, HistoryType, connVars, bounds
<1>2. Known' /\ ExpectedBacked'
  BY DEF StoreInv, Known, ExpectedBacked, connVars, InFlight, CallsOf
<1>3. CallsOf(s)' \subseteq CallsOf(s)
  BY DEF CallsOf, InFlight
<1>4. InStep(s)'
  <2>1. SUFFICES ASSUME Orderly(s) PROVE InStep(s)'
    BY DEF InStep, Orderly
  <2>2. CallsOf(s)' \subseteq {k}
    BY <1>3, <2>1 DEF StoreInv, InStep
  <2> QED
    BY <2>1, <2>2
<1>5. ASSUME NEW t \in Sessions \ {s} PROVE InStep(t)'
  <2>1. k \notin CallsOf(t) /\ k \notin CallsOf(t)'
    BY DEF CallsOf
  <2>2. CallsOf(t)' = CallsOf(t) /\ \A j \in CallsOf(t) : call'[j] = call[j]
    BY <2>1, OtherCalls
  <2> QED
    BY <2>2, Untouched DEF StoreInv, Orderly
<1> QED
  BY <1>1, <1>2, <1>4, <1>5 DEF StoreInv

\* What the invariant says of a call that a command belongs to.
LEMMA InStepCall ==
  ASSUME StoreInv, NEW s \in Sessions, Orderly(s), NEW k \in CallsOf(s)
  PROVE  OneSim(k, s) /\ AllSims(k, s)
BY DEF StoreInv, InStep

\* s is in step once its only call, still running or not, has made progress.
LEMMA Progress ==
  ASSUME NEW s \in Sessions, NEW k \in Calls, CallsOf(s)' \subseteq {k},
         k \notin CallsOf(s)' => \A m \in Sims : Agree(s, m)',
         k \in CallsOf(s)' => OneSim(k, s)' /\ AllSims(k, s)'
  PROVE  InStep(s)'
<1>1. CASE k \in CallsOf(s)'
  BY <1>1 DEF InStep, Settled
<1>2. CASE k \notin CallsOf(s)'
  BY <1>2 DEF InStep, Settled
<1> QED
  BY <1>1, <1>2

LEMMA SAddFwdKeeps ==
  ASSUME StoreInv, NEW k \in Calls, NEW s \in Sessions, NEW m \in Sims, SAddFwd(k, s, m)
  PROVE  StoreInv'
<1>1. /\ k \in CallsOf(s) /\ InFlight(k) /\ call[k].pc = "sadd fwd" /\ call[k].sim = m
  BY DEF SAddFwd, Runs, CallsOf
<1>2. /\ CallsType' /\ call'[k].pc = "expire fwd" /\ call'[k].client = call[k].client
      /\ call'[k].sim = m /\ \A j \in Calls \ {k} : call'[j] = call[j]
  BY <1>1, ContinueLemma, PCs DEF SAddFwd, StoreInv, TypeOK
<1>3. /\ StoreType'
      /\ s \in fwd'[m] /\ rev' = rev
      /\ \A t \in Sessions \ {s}, n \in Sims : t \in fwd'[n] <=> t \in fwd[n]
      /\ \A n \in Sims \ {m} : fwd'[n] = fwd[n]
  BY DEF SAddFwd, StoreInv, TypeOK, StoreType
<1>4. Orderly(s) /\ CallsOf(s)' \subseteq {k} => InStep(s)'
  <2>1. HAVE Orderly(s) /\ CallsOf(s)' \subseteq {k}
  <2>2. OneSim(k, s) /\ expected' = expected
    BY <2>1, <1>1, InStepCall DEF SAddFwd, Runs
  <2>3. OneSim(k, s)' /\ AllSims(k, s)'
    BY <2>2, <1>1, <1>2, <1>3 DEF OneSim, AllSims, Agree
  <2>4. k \in CallsOf(s)'
    BY <1>1, <1>2 DEF CallsOf, InFlight
  <2> QED
    BY <2>1, <2>3, <2>4, Progress
<1> QED
  BY <1>1, <1>2, <1>3, <1>4, CommandLemma DEF SAddFwd, Runs

LEMMA ExpireFwdKeeps ==
  ASSUME StoreInv, NEW k \in Calls, NEW s \in Sessions, NEW m \in Sims, ExpireFwd(k, s, m)
  PROVE  StoreInv'
<1>1. /\ k \in CallsOf(s) /\ InFlight(k) /\ call[k].pc = "expire fwd" /\ call[k].sim = m
  BY DEF ExpireFwd, Runs, CallsOf
<1>2. /\ CallsType' /\ call'[k].pc = "sadd rev" /\ call'[k].client = call[k].client
      /\ call'[k].sim = m /\ \A j \in Calls \ {k} : call'[j] = call[j]
      /\ k \in CallsOf(s)'
  BY <1>1, ContinueLemma, PCs DEF ExpireFwd, StoreInv, TypeOK, CallsOf, InFlight
<1>3. /\ StoreType'
      /\ fwd' = fwd /\ rev' = rev
  BY DEF ExpireFwd, RemoveFwd, StoreInv, TypeOK, StoreType
<1>4. Orderly(s) /\ CallsOf(s)' \subseteq {k} => InStep(s)'
  <2>1. HAVE Orderly(s) /\ CallsOf(s)' \subseteq {k}
  <2>2. OneSim(k, s) /\ AllSims(k, s) /\ expected' = expected
    BY <2>1, <1>1, InStepCall DEF ExpireFwd, Runs
  <2>3. OneSim(k, s)' /\ AllSims(k, s)'
    BY <2>2, <1>1, <1>2, <1>3 DEF OneSim, AllSims, Agree
  <2> QED
    BY <2>1, <2>3, <1>2, Progress
<1> QED
  BY <1>1, <1>2, <1>3, <1>4, CommandLemma DEF ExpireFwd, Runs

LEMMA SAddRevKeeps ==
  ASSUME StoreInv, NEW k \in Calls, NEW s \in Sessions, NEW m \in Sims, SAddRev(k, s, m)
  PROVE  StoreInv'
<1>1. /\ k \in CallsOf(s) /\ InFlight(k) /\ call[k].pc = "sadd rev" /\ call[k].sim = m
  BY DEF SAddRev, Runs, CallsOf
<1>2. /\ CallsType' /\ call'[k].pc = "expire rev" /\ call'[k].client = call[k].client
      /\ call'[k].sim = m /\ \A j \in Calls \ {k} : call'[j] = call[j]
      /\ k \in CallsOf(s)'
  BY <1>1, ContinueLemma, PCs DEF SAddRev, StoreInv, TypeOK, CallsOf, InFlight
<1>3. /\ StoreType'
      /\ fwd' = fwd /\ m \in rev'[s]
      /\ \A n \in Sims \ {m} : n \in rev'[s] <=> n \in rev[s]
      /\ \A t \in Sessions \ {s} : rev'[t] = rev[t]
  BY DEF SAddRev, RemoveFwd, StoreInv, TypeOK, StoreType
<1>4. Orderly(s) /\ CallsOf(s)' \subseteq {k} => InStep(s)'
  <2>1. HAVE Orderly(s) /\ CallsOf(s)' \subseteq {k}
  <2>2. OneSim(k, s) /\ AllSims(k, s) /\ expected' = expected
    BY <2>1, <1>1, InStepCall DEF SAddRev, Runs
  <2>3. OneSim(k, s)' /\ AllSims(k, s)'
    BY <2>2, <1>1, <1>2, <1>3 DEF OneSim, AllSims, Agree
  <2> QED
    BY <2>1, <2>3, <1>2, Progress
<1> QED
  BY <1>1, <1>2, <1>3, <1>4, CommandLemma DEF SAddRev, Runs

LEMMA ExpireRevKeeps ==
  ASSUME StoreInv, NEW k \in Calls, NEW s \in Sessions, NEW m \in Sims, ExpireRev(k, s, m)
  PROVE  StoreInv'
<1>1. /\ k \in CallsOf(s) /\ InFlight(k) /\ call[k].pc = "expire rev" /\ call[k].sim = m
  BY DEF ExpireRev, Runs, CallsOf
<1>2. /\ CallsType' /\ call'[k].pc = "done" /\ k \notin CallsOf(s)'
      /\ \A j \in Calls \ {k} : call'[j] = call[j]
  BY <1>1, FinishLemma DEF ExpireRev, StoreInv, TypeOK, CallsOf, InFlight
<1>3. /\ StoreType'
      /\ fwd' = fwd /\ rev' = rev
  BY DEF ExpireRev, RemoveFwd, StoreInv, TypeOK, StoreType
<1>4. Orderly(s) /\ CallsOf(s)' \subseteq {k} => InStep(s)'
  <2>1. HAVE Orderly(s) /\ CallsOf(s)' \subseteq {k}
  <2>2. OneSim(k, s) /\ AllSims(k, s) /\ expected' = expected
    BY <2>1, <1>1, InStepCall DEF ExpireRev, Runs
  <2>3. \A n \in Sims : Agree(s, n)'
    BY <2>2, <1>1, <1>3 DEF OneSim, AllSims, Agree
  <2> QED
    BY <2>1, <2>3, <1>2, Progress
<1> QED
  BY <1>1, <1>2, <1>3, <1>4, CommandLemma DEF ExpireRev, Runs, InFlight

LEMMA SRemFwdKeeps ==
  ASSUME StoreInv, NEW k \in Calls, NEW s \in Sessions, NEW m \in Sims, SRemFwd(k, s, m)
  PROVE  StoreInv'
<1>1. /\ k \in CallsOf(s) /\ InFlight(k) /\ call[k].pc = "srem fwd" /\ call[k].sim = m
  BY DEF SRemFwd, Runs, CallsOf
<1>2. /\ CallsType' /\ call'[k].pc = "srem rev" /\ call'[k].client = call[k].client
      /\ call'[k].sim = m /\ \A j \in Calls \ {k} : call'[j] = call[j]
      /\ k \in CallsOf(s)'
  BY <1>1, ContinueLemma, PCs DEF SRemFwd, StoreInv, TypeOK, CallsOf, InFlight
<1>3. /\ StoreType'
      /\ s \notin fwd'[m] /\ rev' = rev
      /\ \A t \in Sessions \ {s}, n \in Sims : t \in fwd'[n] <=> t \in fwd[n]
      /\ \A n \in Sims \ {m} : fwd'[n] = fwd[n]
  BY DEF SRemFwd, RemoveFwd, StoreInv, TypeOK, StoreType
<1>4. Orderly(s) /\ CallsOf(s)' \subseteq {k} => InStep(s)'
  <2>1. HAVE Orderly(s) /\ CallsOf(s)' \subseteq {k}
  <2>2. OneSim(k, s) /\ AllSims(k, s) /\ expected' = expected
    BY <2>1, <1>1, InStepCall DEF SRemFwd, Runs
  <2>3. OneSim(k, s)' /\ AllSims(k, s)'
    BY <2>2, <1>1, <1>2, <1>3 DEF OneSim, AllSims, Agree
  <2> QED
    BY <2>1, <2>3, <1>2, Progress
<1> QED
  BY <1>1, <1>2, <1>3, <1>4, CommandLemma DEF SRemFwd, Runs

LEMMA SRemRevKeeps ==
  ASSUME StoreInv, NEW k \in Calls, NEW s \in Sessions, NEW m \in Sims, SRemRev(k, s, m)
  PROVE  StoreInv'
<1>1. /\ k \in CallsOf(s) /\ InFlight(k) /\ call[k].pc = "srem rev" /\ call[k].sim = m
  BY DEF SRemRev, Runs, CallsOf
<1>2. /\ CallsType' /\ call'[k].pc = "done" /\ k \notin CallsOf(s)'
      /\ \A j \in Calls \ {k} : call'[j] = call[j]
  BY <1>1, FinishLemma DEF SRemRev, StoreInv, TypeOK, CallsOf, InFlight
<1>3. /\ StoreType'
      /\ fwd' = fwd /\ m \notin rev'[s]
      /\ \A n \in Sims \ {m} : n \in rev'[s] <=> n \in rev[s]
      /\ \A t \in Sessions \ {s} : rev'[t] = rev[t]
  BY DEF SRemRev, RemoveFwd, StoreInv, TypeOK, StoreType
<1>4. Orderly(s) /\ CallsOf(s)' \subseteq {k} => InStep(s)'
  <2>1. HAVE Orderly(s) /\ CallsOf(s)' \subseteq {k}
  <2>2. OneSim(k, s) /\ AllSims(k, s) /\ expected' = expected
    BY <2>1, <1>1, InStepCall DEF SRemRev, Runs
  <2>3. \A n \in Sims : Agree(s, n)'
    BY <2>2, <1>1, <1>3 DEF OneSim, AllSims, Agree
  <2> QED
    BY <2>1, <2>3, <1>2, Progress
<1> QED
  BY <1>1, <1>2, <1>3, <1>4, CommandLemma DEF SRemRev, Runs, InFlight

LEMMA DelKeeps ==
  ASSUME StoreInv, NEW k \in Calls, NEW s \in Sessions, Del(k, s)
  PROVE  StoreInv'
<1>1. /\ k \in CallsOf(s) /\ InFlight(k) /\ call[k].pc = "del" /\ call[k].sim = NoSim
  BY DEF Del, Runs, CallsOf
<1>2. /\ CallsType' /\ call'[k].pc = "done" /\ k \notin CallsOf(s)'
      /\ \A j \in Calls \ {k} : call'[j] = call[j]
  BY <1>1, FinishLemma DEF Del, StoreInv, TypeOK, CallsOf, InFlight
<1>3. /\ StoreType'
      /\ fwd' = fwd /\ rev'[s] = {}
      /\ \A t \in Sessions \ {s} : rev'[t] = rev[t]
  BY DEF Del, RemoveFwd, StoreInv, TypeOK, StoreType
<1>4. Orderly(s) /\ CallsOf(s)' \subseteq {k} => InStep(s)'
  <2>1. HAVE Orderly(s) /\ CallsOf(s)' \subseteq {k}
  <2>2. OneSim(k, s) /\ AllSims(k, s) /\ expected' = expected
    BY <2>1, <1>1, InStepCall DEF Del, Runs
  <2>3. \A n \in Sims : Agree(s, n)'
    BY <2>2, <1>1, <1>3 DEF OneSim, AllSims, Agree
  <2> QED
    BY <2>1, <2>3, <1>2, Progress
<1> QED
  BY <1>1, <1>2, <1>3, <1>4, CommandLemma DEF Del, Runs, InFlight

LEMMA SMembersKeeps ==
  ASSUME StoreInv, NEW k \in Calls, NEW s \in Sessions, SMembers(k, s)
  PROVE  StoreInv'
<1>1. /\ k \in CallsOf(s) /\ InFlight(k) /\ call[k].pc = "smembers"
      /\ fwd' = fwd /\ rev' = rev /\ expected' = expected /\ StoreType'
  BY DEF SMembers, Runs, CallsOf, storeVars, StoreInv, TypeOK, StoreType
<1>2. Orderly(s) => /\ expected[s] = {}
                    /\ \A n \in Sims : s \in fwd[n] <=> n \in rev[s]
  BY <1>1, InStepCall DEF AllSims
<1>3. CASE rev[s] = {}
  <2>1. /\ CallsType' /\ call'[k].pc = "done" /\ k \notin CallsOf(s)'
        /\ \A j \in Calls \ {k} : call'[j] = call[j]
    BY <1>1, <1>3, FinishLemma DEF SMembers, StoreInv, TypeOK, CallsOf, InFlight
  <2>2. Orderly(s) /\ CallsOf(s)' \subseteq {k} => InStep(s)'
    BY <1>1, <1>2, <1>3, <2>1, Progress DEF Agree
  <2> QED
    BY <1>1, <2>1, <2>2, CommandLemma DEF SMembers, Runs, InFlight
<1>4. CASE rev[s] # {}
  <2>1. /\ CallsType' /\ call'[k].pc = "srem" /\ call'[k].client = call[k].client
        /\ call'[k].todo = rev[s] /\ \A j \in Calls \ {k} : call'[j] = call[j]
        /\ k \in CallsOf(s)'
    <3>1. call' = [call EXCEPT ![k].todo = rev[s], ![k].pc = "srem"] /\ rev[s] \subseteq Sims
      BY <1>4 DEF SMembers, StoreInv, TypeOK, StoreType
    <3> QED
      BY <1>1, <3>1, PCs DEF StoreInv, TypeOK, CallsType, CallsOf, InFlight
  <2>2. Orderly(s) /\ CallsOf(s)' \subseteq {k} => InStep(s)'
    <3>1. HAVE Orderly(s) /\ CallsOf(s)' \subseteq {k}
    <3>2. OneSim(k, s)' /\ AllSims(k, s)'
      BY <3>1, <1>1, <1>2, <2>1 DEF OneSim, AllSims
    <3> QED
      BY <3>1, <3>2, <2>1, Progress
  <2> QED
    BY <1>1, <2>1, <2>2, CommandLemma DEF SMembers, Runs
<1> QED
  BY <1>3, <1>4

LEMMA SRemKeeps ==
  ASSUME StoreInv, NEW k \in Calls, NEW s \in Sessions, NEW m \in Sims, SRem(k, s, m)
  PROVE  StoreInv'
<1>1. /\ k \in CallsOf(s) /\ InFlight(k) /\ call[k].pc = "srem" /\ m \in call[k].todo
      /\ expected' = expected
  BY DEF SRem, Runs, CallsOf
<1>2. PICK pc \in {"srem", "del"} :
        /\ call' = [call EXCEPT ![k].todo = @ \ {m}, ![k].pc = pc]
        /\ pc = "del" => call[k].todo = {m}
  BY DEF SRem
<1>3. /\ CallsType' /\ call'[k].pc = pc /\ call'[k].client = call[k].client
      /\ call'[k].todo = call[k].todo \ {m} /\ \A j \in Calls \ {k} : call'[j] = call[j]
      /\ k \in CallsOf(s)'
  BY <1>1, <1>2, PCs DEF StoreInv, TypeOK, CallsType, CallsOf, InFlight
<1>4. /\ StoreType'
      /\ s \notin fwd'[m] /\ rev' = rev
      /\ \A t \in Sessions \ {s}, n \in Sims : t \in fwd'[n] <=> t \in fwd[n]
      /\ \A n \in Sims \ {m} : fwd'[n] = fwd[n]
  BY DEF SRem, RemoveFwd, StoreInv, TypeOK, StoreType
<1>5. Orderly(s) /\ CallsOf(s)' \subseteq {k} => InStep(s)'
  <2>1. HAVE Orderly(s) /\ CallsOf(s)' \subseteq {k}
  <2>2. AllSims(k, s)
    BY <2>1, <1>1, InStepCall
  <2>3. OneSim(k, s)' /\ AllSims(k, s)'
    BY <2>2, <1>1, <1>2, <1>3, <1>4 DEF OneSim, AllSims
  <2> QED
    BY <2>1, <2>3, <1>3, Progress
<1> QED
  BY <1>1, <1>3, <1>4, <1>5, CommandLemma DEF SRem, Runs

LEMMA CallStepKeeps == ASSUME StoreInv, NEW k \in Calls, CallStep(k) PROVE StoreInv'
<1>1. PICK s \in Sessions :
        \/ SMembers(k, s)
        \/ Del(k, s)
        \/ \E m \in Sims : \/ SAddFwd(k, s, m) \/ ExpireFwd(k, s, m)
                           \/ SAddRev(k, s, m) \/ ExpireRev(k, s, m)
                           \/ SRemFwd(k, s, m) \/ SRemRev(k, s, m)
                           \/ SRem(k, s, m)
  BY DEF CallStep
<1> QED
  BY <1>1, SMembersKeeps, DelKeeps, SAddFwdKeeps, ExpireFwdKeeps, SAddRevKeeps, ExpireRevKeeps,
     SRemFwdKeeps, SRemRevKeeps, SRemKeeps

----------------------------------------------------------------------------
(* The connections.                                                        *)

\* A step of a connection that starts no call.
LEMMA ConnLemma ==
  ASSUME StoreInv, UNCHANGED <<storeVars, call, bounds, expected, raced, cut>>,
         ConnType', Known', UNCHANGED subs
  PROVE  StoreInv'
<1>1. TypeOK' /\ ExpectedBacked'
  BY DEF StoreInv, TypeOK, StoreType, CallsType, HistoryType, ExpectedBacked, storeVars, bounds,
     InFlight
<1>2. ASSUME NEW s \in Sessions PROVE InStep(s)'
  <2>1. CallsOf(s)' = CallsOf(s)
    BY DEF CallsOf, InFlight
  <2> QED
    BY <2>1, Untouched DEF StoreInv, storeVars, Orderly
<1> QED
  BY <1>1, <1>2 DEF StoreInv

\* An event of connection c, which starts the call k.
LEMMA EventLemma ==
  ASSUME StoreInv, NEW k \in Calls, NEW c \in Clients, NEW m \in Sims \cup {NoSim},
         NEW pc \in {"sadd fwd", "srem fwd", "smembers"}, Go(k, pc, c, m),
         ConnType', ExpectedBacked',
         expected' \in [Sessions -> SUBSET Sims],
         \A s \in Sessions \ {SessionOf[c]} : expected'[s] = expected[s],
         pc = "sadd fwd" => m \in Sims /\ expected'[SessionOf[c]] = expected[SessionOf[c]] \cup {m},
         pc = "srem fwd" => m \in Sims /\ expected'[SessionOf[c]] = expected[SessionOf[c]] \ {m},
         pc = "smembers" => expected'[SessionOf[c]] = {},
         \A d \in Clients : conn'[d] = "new" => reader'[d] = "new" /\ pump'[d] = "new",
         \A d \in Clients : conn'[d] = "new" => conn[d] = "new",
         conn'[c] # "new"
  PROVE  StoreInv'
<1> DEFINE t == SessionOf[c]
<1>1. t \in Sessions
  BY StoreAssumption
<1>2. pc \in CallPCs /\ CallsType
  BY PCs DEF StoreInv, TypeOK
<1>3. CallsType'
  BY <1>2, GoLemma
<1>4. call'[k].pc = pc /\ call'[k].client = c /\ call'[k].sim = m
  BY <1>2, GoLemma, ZenonT(30)
<1>5. \A j \in Calls : j # k => call'[j] = call[j]
  <2>1. \A j \in Calls \ {k} : call'[j] = call[j]
    BY <1>2, GoLemma, ZenonT(30)
  <2> QED
    BY <2>1, Zenon
<1>6. TypeOK'
  BY <1>1, <1>3 DEF Go, StoreInv, TypeOK, StoreType, HistoryType, storeVars, bounds
<1>7. Known'
  <2>1. ASSUME NEW j \in Calls, InFlight(j)', j # k PROVE conn'[call'[j].client] # "new"
    <3>1. call'[j] = call[j] /\ InFlight(j)
      BY <1>5, <2>1 DEF InFlight
    <3>2. call[j].client \in Clients /\ conn[call[j].client] # "new"
      BY <1>2, <3>1 DEF StoreInv, Known, CallsType
    <3> QED
      BY <3>1, <3>2
  <2> QED
    BY <1>4, <2>1 DEF Known
<1>8. k \in CallsOf(t)' /\ k \notin CallsOf(t) /\ ~InFlight(k)
  BY <1>4 DEF Go, CallsOf, InFlight
<1>9. ASSUME NEW s \in Sessions \ {t} PROVE InStep(s)'
  <2>1. k \notin CallsOf(s) /\ k \notin CallsOf(s)'
    BY <1>4, <1>8 DEF CallsOf
  <2>2. CallsOf(s)' = CallsOf(s) /\ \A j \in CallsOf(s) : call'[j] = call[j]
    <3>1. ASSUME NEW j \in Calls PROVE j \in CallsOf(s)' <=> j \in CallsOf(s)
      <4>1. CASE j = k
        BY <2>1, <4>1
      <4>2. CASE j # k
        BY <1>5, <4>2 DEF CallsOf, InFlight
      <4> QED
        BY <4>1, <4>2
    <3>2. \A j \in CallsOf(s) : j # k /\ call'[j] = call[j]
      BY <1>5, <2>1 DEF CallsOf
    <3> QED
      BY <3>1, <3>2 DEF CallsOf
  <2>3. UNCHANGED storeVars /\ (Orderly(s)' => Orderly(s))
    BY DEF Go, Orderly
  <2> QED
    BY <2>2, <2>3, Untouched DEF StoreInv, storeVars
<1>10. InStep(t)'
  <2>1. SUFFICES ASSUME Orderly(t)' PROVE InStep(t)'
    BY DEF InStep
  <2>2. CallsOf(t) = {} /\ Orderly(t) /\ UNCHANGED storeVars
    BY <1>1, <2>1 DEF Go, Orderly
  <2>3. CallsOf(t)' \subseteq {k}
    BY <1>5, <2>2 DEF CallsOf, InFlight
  <2>4. \A n \in Sims : Agree(t, n)
    BY <1>1, <2>2 DEF StoreInv, InStep, Settled
  <2>5. OneSim(k, t)'
    BY <1>1, <1>4, <2>2, <2>4 DEF OneSim, Agree, storeVars
  <2>6. AllSims(k, t)'
    BY <1>1, <1>4, <2>2, <2>4 DEF AllSims, Agree, storeVars
  <2> QED
    BY <1>1, <1>8, <2>3, <2>5, <2>6, Progress
<1> QED
  BY <1>6, <1>7, <1>9, <1>10 DEF StoreInv

LEMMA RegisterPlainKeeps == ASSUME StoreInv, NEW c \in Clients, RegisterPlain(c) PROVE StoreInv'
<1>1. ConnType' /\ Known'
  BY DEF RegisterPlain, Register, StoreInv, TypeOK, ConnType, CallsType, Known, InFlight
<1> QED
  BY <1>1, ConnLemma DEF RegisterPlain

LEMMA ReadFrameKeeps ==
  ASSUME StoreInv, NEW c \in Clients, NEW m \in Sims, NEW op \in {"subscribe", "unsubscribe"},
         ReadFrame(c, op, m)
  PROVE  StoreInv'
<1>1. ConnType' /\ Known'
  BY StoreAssumption DEF ReadFrame, StoreInv, TypeOK, ConnType, Known, InFlight
<1> QED
  BY <1>1, ConnLemma DEF ReadFrame

LEMMA EndsKeep ==
  ASSUME StoreInv, NEW c \in Clients, ReaderFails(c) \/ PumpFails(c) \/ PumpClosed(c)
  PROVE  StoreInv'
<1>1. ConnType' /\ Known'
  BY DEF ReaderFails, PumpFails, PumpClosed, StoreInv, TypeOK, ConnType, Known, InFlight
<1> QED
  BY <1>1, ConnLemma DEF ReaderFails, PumpFails, PumpClosed

LEMMA RegisterAutoKeeps ==
  ASSUME StoreInv, NEW c \in Clients, NEW m \in Sims, NEW k \in Calls, RegisterAuto(c, m, k)
  PROVE  StoreInv'
<1>1. Go(k, "sadd fwd", c, m)
  BY DEF RegisterAuto, GoSubscribe
<1>2. ConnType'
  BY DEF RegisterAuto, Register, StoreInv, TypeOK, ConnType
<1>3. /\ expected' \in [Sessions -> SUBSET Sims]
      /\ \A s \in Sessions \ {SessionOf[c]} : expected'[s] = expected[s]
      /\ expected'[SessionOf[c]] = expected[SessionOf[c]] \cup {m}
  BY StoreAssumption DEF RegisterAuto, GoSubscribe, StoreInv, TypeOK, HistoryType
<1>4. ExpectedBacked'
  <2>1. cut' = cut /\ m \in subs'[c] /\ \A d \in Clients : subs[d] \subseteq subs'[d]
    BY DEF RegisterAuto, GoSubscribe, Go, StoreInv, TypeOK, ConnType
  <2> QED
    BY <1>3, <2>1 DEF ExpectedBacked, StoreInv
<1>5. /\ conn'[c] # "new" /\ \A d \in Clients : conn'[d] = "new" => conn[d] = "new"
      /\ \A d \in Clients : conn'[d] = "new" => reader'[d] = "new" /\ pump'[d] = "new"
  BY DEF RegisterAuto, Register, StoreInv, TypeOK, ConnType, Known
<1> QED
  BY <1>1, <1>2, <1>3, <1>4, <1>5, EventLemma

LEMMA SubscribeKeeps ==
  ASSUME StoreInv, NEW c \in Clients, NEW k \in Calls, Subscribe(c, k)
  PROVE  StoreInv'
<1> DEFINE m == request[c]
<1>1. Go(k, "sadd fwd", c, m) /\ m \in Sims
  BY DEF Subscribe, GoSubscribe, Taken, StoreInv, TypeOK, ConnType
<1>2. ConnType'
  BY <1>1 DEF Subscribe, Taken, StoreInv, TypeOK, ConnType
<1>3. /\ expected' \in [Sessions -> SUBSET Sims]
      /\ \A s \in Sessions \ {SessionOf[c]} : expected'[s] = expected[s]
      /\ expected'[SessionOf[c]] = expected[SessionOf[c]] \cup {m}
  BY <1>1, StoreAssumption DEF Subscribe, GoSubscribe, StoreInv, TypeOK, HistoryType
<1>4. ExpectedBacked'
  <2>1. cut' = cut /\ m \in subs'[c] /\ \A d \in Clients : subs[d] \subseteq subs'[d]
    BY DEF Subscribe, GoSubscribe, Go, StoreInv, TypeOK, ConnType
  <2> QED
    BY <1>3, <2>1 DEF ExpectedBacked, StoreInv
<1>5. /\ conn'[c] # "new" /\ \A d \in Clients : conn'[d] = "new" => conn[d] = "new"
      /\ \A d \in Clients : conn'[d] = "new" => reader'[d] = "new" /\ pump'[d] = "new"
  BY DEF Subscribe, Taken, StoreInv, TypeOK, ConnType, Known
<1> QED
  BY <1>1, <1>2, <1>3, <1>4, <1>5, EventLemma

LEMMA UnsubscribeKeeps ==
  ASSUME StoreInv, NEW c \in Clients, NEW k \in Calls, Unsubscribe(c, k)
  PROVE  StoreInv'
<1> DEFINE m == request[c]
<1>1. Go(k, "srem fwd", c, m) /\ m \in Sims
  BY DEF Unsubscribe, Taken, StoreInv, TypeOK, ConnType
<1>2. ConnType'
  BY <1>1 DEF Unsubscribe, Taken, StoreInv, TypeOK, ConnType
<1>3. /\ expected' \in [Sessions -> SUBSET Sims]
      /\ \A s \in Sessions \ {SessionOf[c]} : expected'[s] = expected[s]
      /\ expected'[SessionOf[c]] = expected[SessionOf[c]] \ {m}
  BY <1>1, StoreAssumption DEF Unsubscribe, StoreInv, TypeOK, HistoryType
<1>4. ExpectedBacked'
  <2>1. cut' = cut /\ subs[c] \subseteq subs'[c] \cup {m}
        /\ \A d \in Clients \ {c} : subs'[d] = subs[d]
    BY DEF Unsubscribe, Go, StoreInv, TypeOK, ConnType
  <2>2. ASSUME NEW s \in Sessions \ cut, NEW n \in expected'[s]
        PROVE  \E d \in Clients : SessionOf[d] = s /\ n \in subs'[d]
    <3>1. PICK d \in Clients : SessionOf[d] = s /\ n \in subs[d]
      BY <1>3, <2>2 DEF ExpectedBacked, StoreInv
    <3>2. d = c => n # m
      BY <1>3, <2>2, <3>1
    <3> QED
      BY <2>1, <3>1, <3>2
  <2> QED
    BY <2>1, <2>2 DEF ExpectedBacked
<1>5. /\ conn'[c] # "new" /\ \A d \in Clients : conn'[d] = "new" => conn[d] = "new"
      /\ \A d \in Clients : conn'[d] = "new" => reader'[d] = "new" /\ pump'[d] = "new"
  BY DEF Unsubscribe, Taken, StoreInv, TypeOK, ConnType, Known
<1> QED
  BY <1>1, <1>2, <1>3, <1>4, <1>5, EventLemma

LEMMA RunUnregisterKeeps ==
  ASSUME StoreInv, NEW c \in Clients, NEW k \in Calls, RunUnregister(c, k)
  PROVE  StoreInv'
<1>1. Go(k, "smembers", c, NoSim)
  BY DEF RunUnregister
<1>2. ConnType'
  BY DEF RunUnregister, StoreInv, TypeOK, ConnType
<1>3. /\ expected' \in [Sessions -> SUBSET Sims]
      /\ \A s \in Sessions \ {SessionOf[c]} : expected'[s] = expected[s]
      /\ expected'[SessionOf[c]] = {}
  BY StoreAssumption DEF RunUnregister, StoreInv, TypeOK, HistoryType
<1>4. ExpectedBacked'
  <2>1. cut' = cut /\ \A d \in Clients \ {c} : subs'[d] = subs[d]
    BY DEF RunUnregister, Go, StoreInv, TypeOK, ConnType
  <2>2. ASSUME NEW s \in Sessions \ cut, NEW n \in expected'[s]
        PROVE  \E d \in Clients : SessionOf[d] = s /\ n \in subs'[d]
    <3>1. s # SessionOf[c] /\ n \in expected[s]
      BY <1>3, <2>2
    <3>2. PICK d \in Clients : SessionOf[d] = s /\ n \in subs[d]
      BY <3>1 DEF ExpectedBacked, StoreInv
    <3> QED
      BY <2>1, <3>1, <3>2
  <2> QED
    BY <2>1, <2>2 DEF ExpectedBacked
<1>5. /\ conn'[c] # "new" /\ \A d \in Clients : conn'[d] = "new" => conn[d] = "new"
      /\ \A d \in Clients : conn'[d] = "new" => reader'[d] = "new" /\ pump'[d] = "new"
  BY DEF RunUnregister, StoreInv, TypeOK, ConnType, Known
<1> QED
  BY <1>1, <1>2, <1>3, <1>4, <1>5, EventLemma

----------------------------------------------------------------------------
(* Failures and the TTL.  The sessions they touch are cut.                 *)

\* Sessions that are not cut keep their entries and their calls.
LEMMA CutLemma ==
  ASSUME StoreInv, TypeOK', Known', UNCHANGED <<expected, raced>>, cut \subseteq cut',
         \A c \in Clients : SessionOf[c] \notin cut' => subs'[c] = subs[c],
         \A s \in Sessions \ cut' :
           /\ rev'[s] = rev[s] /\ \A m \in Sims : s \in fwd'[m] <=> s \in fwd[m]
           /\ CallsOf(s)' = CallsOf(s) /\ \A k \in CallsOf(s) : call'[k] = call[k]
  PROVE  StoreInv'
<1>1. ExpectedBacked'
  BY DEF ExpectedBacked, StoreInv
<1>2. ASSUME NEW s \in Sessions PROVE InStep(s)'
  <2>1. SUFFICES ASSUME Orderly(s)' PROVE InStep(s)'
    BY DEF InStep
  <2>2. Orderly(s) /\ s \in Sessions \ cut'
    BY <2>1 DEF Orderly
  <2> QED
    BY <2>2, Untouched DEF StoreInv
<1> QED
  BY <1>1, <1>2 DEF StoreInv

LEMMA CallFailsKeeps == ASSUME StoreInv, NEW k \in Calls, CallFails(k) PROVE StoreInv'
<1>1. /\ CallsType' /\ call'[k].pc = "done" /\ \A j \in Calls \ {k} : call'[j] = call[j]
  BY FinishLemma DEF CallFails, StoreInv, TypeOK
<1>2. call[k].client \in Clients /\ SessionOf[call[k].client] \in Sessions
  BY StoreAssumption DEF CallFails, StoreInv, TypeOK, CallsType
<1>3. TypeOK'
  BY <1>1, <1>2, StoreAssumption DEF CallFails, StoreInv, TypeOK, StoreType, ConnType, HistoryType,
     storeVars, connVars
<1>4. Known'
  BY <1>1 DEF CallFails, StoreInv, Known, connVars, InFlight
<1>5. ASSUME NEW s \in Sessions \ cut'
      PROVE  CallsOf(s)' = CallsOf(s) /\ \A j \in CallsOf(s) : call'[j] = call[j]
  BY <1>1 DEF CallFails, CallsOf, InFlight
<1> QED
  BY <1>3, <1>4, <1>5, CutLemma DEF CallFails, storeVars, connVars

LEMMA GatewayStopsKeeps == ASSUME StoreInv, NEW g \in Gateways, GatewayStops(g) PROVE StoreInv'
<1> DEFINE ended == {c \in Clients : GatewayOf[c] = g /\ conn[c] # "new"}
           dead  == {k \in Calls : InFlight(k) /\ GatewayOf[call[k].client] = g}
<1>1. /\ call' = [k \in Calls |-> IF k \in dead THEN Done ELSE call[k]]
      /\ cut' = cut \cup {SessionOf[c] : c \in ended}
      /\ conn' = [c \in Clients |-> IF c \in ended THEN "off" ELSE conn[c]]
      /\ subs' = [c \in Clients |-> IF c \in ended THEN {} ELSE subs[c]]
  BY DEF GatewayStops
<1>2. CallsType'
  BY <1>1 DEF StoreInv, TypeOK, CallsType, InFlight, Done, NoCall, CallPCs
<1>3. ConnType'
  BY DEF GatewayStops, StoreInv, TypeOK, ConnType
<1>4. HistoryType'
  BY <1>1, StoreAssumption DEF GatewayStops, StoreInv, TypeOK, HistoryType
<1>5. TypeOK'
  BY <1>2, <1>3, <1>4 DEF GatewayStops, StoreInv, TypeOK, StoreType, storeVars
<1>6. Known'
  <2>1. \A c \in Clients : conn'[c] = "new" => reader'[c] = "new" /\ pump'[c] = "new"
    BY DEF GatewayStops, StoreInv, Known
  <2>2. ASSUME NEW k \in Calls, InFlight(k)' PROVE conn'[call'[k].client] # "new"
    <3>1. call'[k] = call[k] /\ InFlight(k)
      BY <1>1, <2>2 DEF InFlight, Done, NoCall
    <3>2. call[k].client \in Clients /\ conn[call[k].client] # "new"
      BY <3>1 DEF StoreInv, Known, TypeOK, CallsType
    <3> QED
      BY <1>1, <3>1, <3>2
  <2> QED
    BY <2>1, <2>2 DEF Known
<1>7. ASSUME NEW s \in Sessions \ cut'
      PROVE  CallsOf(s)' = CallsOf(s) /\ \A j \in CallsOf(s) : call'[j] = call[j]
  <2>1. ASSUME NEW k \in Calls, k \in dead PROVE SessionOf[call[k].client] \in cut'
    <3>1. call[k].client \in ended
      BY <2>1 DEF StoreInv, Known, TypeOK, CallsType
    <3> QED
      BY <1>1, <3>1
  <2>2. \A k \in CallsOf(s) : k \notin dead /\ call'[k] = call[k]
    BY <1>1, <2>1 DEF CallsOf
  <2>3. \A k \in Calls : k \in dead => k \notin CallsOf(s)'
    BY <1>1 DEF CallsOf, InFlight, Done, NoCall
  <2> QED
    BY <1>1, <2>2, <2>3 DEF CallsOf, InFlight
<1>8. \A c \in Clients : SessionOf[c] \notin cut' => subs'[c] = subs[c]
  BY <1>1
<1> QED
  BY <1>1, <1>5, <1>6, <1>7, <1>8, CutLemma DEF GatewayStops, storeVars

LEMMA FwdExpiresKeeps == ASSUME StoreInv, NEW m \in Sims, FwdExpires(m) PROVE StoreInv'
<1>1. TypeOK' /\ Known'
  BY StoreAssumption DEF FwdExpires, StoreInv, TypeOK, StoreType, ConnType, CallsType, HistoryType,
     Known, connVars, InFlight
<1>2. ASSUME NEW s \in Sessions \ cut'
      PROVE  CallsOf(s)' = CallsOf(s) /\ \A n \in Sims : s \in fwd'[n] <=> s \in fwd[n]
  BY DEF FwdExpires, CallsOf, InFlight, StoreInv, TypeOK, StoreType
<1> QED
  BY <1>1, <1>2, CutLemma DEF FwdExpires, connVars

LEMMA RevExpiresKeeps == ASSUME StoreInv, NEW s \in Sessions, RevExpires(s) PROVE StoreInv'
<1>1. TypeOK' /\ Known'
  BY StoreAssumption DEF RevExpires, StoreInv, TypeOK, StoreType, ConnType, CallsType, HistoryType,
     Known, connVars, InFlight
<1>2. ASSUME NEW t \in Sessions \ cut'
      PROVE  CallsOf(t)' = CallsOf(t) /\ rev'[t] = rev[t]
  BY DEF RevExpires, CallsOf, InFlight, StoreInv, TypeOK, StoreType
<1> QED
  BY <1>1, <1>2, CutLemma DEF RevExpires, connVars

----------------------------------------------------------------------------
(* The theorems.                                                           *)

LEMMA InitInv == Init => StoreInv
<1> SUFFICES ASSUME Init PROVE StoreInv
  OBVIOUS
<1>1. TypeOK
  BY StoreAssumption DEF Init, TypeOK, StoreType, ConnType, CallsType, HistoryType, NoCall, CallPCs,
     InFlight
<1>2. \A k \in Calls : ~InFlight(k)
  BY DEF Init, InFlight, NoCall
<1>3. Known /\ ExpectedBacked
  BY <1>2 DEF Init, Known, ExpectedBacked
<1>4. \A s \in Sessions : InStep(s)
  BY <1>2 DEF Init, InStep, CallsOf, Agree
<1> QED
  BY <1>1, <1>3, <1>4 DEF StoreInv

LEMMA StutterKeeps == ASSUME StoreInv, UNCHANGED vars PROVE StoreInv'
<1>1. ConnType' /\ Known'
  BY DEF vars, connVars, StoreInv, TypeOK, ConnType, Known, InFlight
<1> QED
  BY <1>1, ConnLemma DEF vars, connVars

LEMMA NextKeeps == ASSUME StoreInv, Next PROVE StoreInv'
<1>1. ASSUME NEW c \in Clients,
             \/ RegisterPlain(c) \/ ReaderFails(c) \/ PumpFails(c) \/ PumpClosed(c)
             \/ \E m \in Sims, op \in {"subscribe", "unsubscribe"} : ReadFrame(c, op, m)
             \/ \E k \in Calls : \/ \E m \in Sims : RegisterAuto(c, m, k)
                                 \/ Subscribe(c, k) \/ Unsubscribe(c, k)
                                 \/ RunUnregister(c, k)
      PROVE  StoreInv'
  BY <1>1, RegisterPlainKeeps, EndsKeep, ReadFrameKeeps, RegisterAutoKeeps, SubscribeKeeps,
     UnsubscribeKeeps, RunUnregisterKeeps
<1>2. ASSUME NEW k \in Calls, CallStep(k) \/ CallFails(k) PROVE StoreInv'
  BY <1>2, CallStepKeeps, CallFailsKeeps
<1> QED
  BY <1>1, <1>2, GatewayStopsKeeps, FwdExpiresKeeps, RevExpiresKeeps DEF Next

\* The inductive invariant holds in every reachable state.
LEMMA Invariant == Spec => []StoreInv
<1>1. StoreInv /\ [Next]_vars => StoreInv'
  BY NextKeeps, StutterKeeps
<1> QED
  BY InitInv, <1>1, PTL DEF Spec

\* Every reachable state is well typed, and a key that has a TTL exists.
THEOREM TypeCorrect == Spec => []TypeOK
<1>1. StoreInv => TypeOK
  BY DEF StoreInv
<1> QED
  BY Invariant, <1>1, PTL

\* Between two calls of a session the two indexes of the store agree with each
\* other and with the last request of the hubs, however many gateways there are.
THEOREM StoreFollowsHubs == Spec => []StoreIsLastWord
<1>1. StoreInv => StoreIsLastWord
  BY DEF StoreInv, InStep, StoreIsLastWord, Agree
<1> QED
  BY Invariant, <1>1, PTL

\* No orderly session has an entry that no connection stands for.
THEOREM NoGhostEntries == Spec => []EntriesBacked
<1>1. StoreInv => EntriesBacked
  BY DEF StoreInv, InStep, EntriesBacked, Agree, ExpectedBacked, Orderly
<1> QED
  BY Invariant, <1>1, PTL
=============================================================================
