------------------------ MODULE RedisRegistryProofs ------------------------
(***************************************************************************)
(* Proofs about RedisRegistry for any number of sessions, agent types,     *)
(* simulations, reapers, flushes and failures.                             *)
(*                                                                         *)
(* LiveIndexed is not inductive.  It is preserved because a reaper prunes  *)
(* only sessions whose key is gone for good (StaleGone, NewUntouched), a   *)
(* set about to be dropped holds exposed sessions only (WindowExposed) and *)
(* so does everything a flush removes (FlushExposed).  Indexed states the  *)
(* property for the steps of Track that lead to a tracked session.         *)
(*                                                                         *)
(* What an Untrack or a flush has removed stays away, since only its own   *)
(* Track could add it (OnlyTrackAdds), which is over (NeverTrackedAgain).  *)
(***************************************************************************)
EXTENDS RedisRegistry, TLAPS

\* Track has added s to g; Track has put g in the active index.
Added(s, g) ==
  \/ op[s].pc = "tracked"
  \/ op[s].pc \in TrackPCs /\ g \notin op[s].todo
  \/ op[s].pc \in {"setSim", "activate"} /\ g \in Front(op[s].todo)

Activated(s, g) ==
  op[s].pc = "tracked" \/ (op[s].pc \in TrackPCs /\ g \notin op[s].todo)

Indexed ==
  \A s \in Sessions, g \in Groups :
    s \in sessionKey /\ s \notin exposed[g] /\ g \in GroupsOf(s) =>
      /\ Added(s, g) => s \in members[g]
      /\ Activated(s, g) => g \in active

\* A session nobody has tracked yet is nowhere.
NewUntouched ==
  \A s \in Sessions : op[s].pc = "new" =>
    /\ s \notin sessionKey
    /\ \A g \in Groups : s \notin members[g]
    /\ \A r \in Reapers : s \notin reap[r].ids

\* What a reaper prunes has no key.
StaleGone == \A r \in Reapers : reap[r].pc = "prune" => reap[r].ids \cap sessionKey = {}

\* In the window before a drop, the members of the group are exposed.
WindowExposed ==
  \A g \in Groups, s \in Sessions : Dropping(g) /\ s \in members[g] => s \in exposed[g]

\* While a flush runs every session is exposed.
FlushExposed ==
  Flushing => \A s \in Sessions, g \in Groups : op[s].pc # "new" => s \in exposed[g]

\* A reaper works on one group at a time.
OneAtATime == \A r \in Reapers : \A g, h \in reap[r].at : g = h

IndexInv ==
  TypeOK /\ NewUntouched /\ StaleGone /\ OneAtATime /\ WindowExposed /\ FlushExposed /\ Indexed

----------------------------------------------------------------------------
(* Typing.                                                                 *)

LEMMA FrontSubset == ASSUME NEW S PROVE Front(S) \subseteq S
BY DEF Front

LEMMA GroupsOfType == ASSUME NEW s \in Sessions PROVE GroupsOf(s) \subseteq Groups
BY RegistryAssumption DEF GroupsOf, Groups

LEMMA TypeInit == Init => TypeOK
BY RegistryAssumption DEF Init, TypeOK, IndexType, OpType, OpPCs, ReapType, ReapPCs, FlushType,
   FlushPCs, BoundType, OwnGroups, NoSweep, NoFlush, GroupsOf

LEMMA SetOpLemma ==
  ASSUME OpType, NEW s \in Sessions, NEW pc \in OpPCs, NEW todo \in SUBSET Groups,
         SetOp(s, pc, todo)
  PROVE  /\ op' \in [Sessions -> [pc : OpPCs, todo : SUBSET Groups]]
         /\ op'[s].pc = pc /\ op'[s].todo = todo
         /\ \A t \in Sessions \ {s} : op'[t] = op[t]
BY DEF SetOp, OpType

LEMMA ContinueLemma ==
  ASSUME OpType, NEW s \in Sessions, NEW pc \in OpPCs, NEW todo \in SUBSET Groups,
         Continue(s, pc, todo)
  PROVE  /\ op' \in [Sessions -> [pc : OpPCs, todo : SUBSET Groups]]
         /\ op'[s].pc = IF todo # {} THEN pc ELSE "untracked"
         /\ op'[s].todo = todo
         /\ \A t \in Sessions \ {s} : op'[t] = op[t]
<1>1. "untracked" \in OpPCs
  BY DEF OpPCs
<1> QED
  BY <1>1, SetOpLemma DEF Continue

LEMMA SetReapLemma ==
  ASSUME ReapType, NEW r \in Reapers, NEW pc \in ReapPCs, NEW ids \in SUBSET Sessions,
         SetReap(r, pc, ids)
  PROVE  /\ ReapType'
         /\ reap'[r].pc = pc /\ reap'[r].ids = ids /\ reap'[r].at = reap[r].at
         /\ \A q \in Reapers \ {r} : reap'[q] = reap[q]
BY DEF SetReap, ReapType

LEMMA NextGroupLemma ==
  ASSUME ReapType, NEW r \in Reapers, NEW g \in Groups, NextGroup(r, g)
  PROVE  /\ ReapType'
         /\ reap'[r].pc \in {"types", "sims"} /\ reap'[r].ids = {} /\ reap'[r].at = {}
         /\ \A q \in Reapers \ {r} : reap'[q] = reap[q]
BY DEF NextGroup, ReapType, ReapPCs

LEMMA PCs ==
  /\ {"tracked", "untracked", "failed", "add", "setSim", "activate"} \subseteq OpPCs
  /\ {"findSim", "delKey", "delSim", "remove", "count", "delete", "deactivate"} \subseteq OpPCs
  /\ {"types", "sims", "exists", "prune", "count", "delete", "deactivate"} \subseteq ReapPCs
BY DEF OpPCs, TrackPCs, UntrackPCs, DropPCs, ReapPCs

LEMMA ReapSame == ASSUME ReapType, UNCHANGED reap PROVE ReapType'
BY DEF ReapType

LEMMA FlushSame == ASSUME FlushType, UNCHANGED flush PROVE FlushType'
BY DEF FlushType

LEMMA OpSame == ASSUME OpType, UNCHANGED <<op, found>> PROVE OpType'
BY DEF OpType

LEMMA TypeSession == ASSUME TypeOK, NEW s \in Sessions, SessionStep(s) PROVE TypeOK'
<1> USE RegistryAssumption, GroupsOfType, ReapSame, FlushSame, PCs
<1>1. CASE SetSessionKey(s)
  BY <1>1, SetOpLemma DEF SetSessionKey, keyVars, indexVars, bounds, TypeOK, IndexType, BoundType,
     OwnGroups, OpType
<1>2. CASE SetSimKey(s)
  BY <1>2, SetOpLemma DEF SetSimKey, keyVars, indexVars, bounds, TypeOK, IndexType, BoundType,
     OwnGroups, OpType
<1>3. CASE FindAgentType(s)
  BY <1>3, SetOpLemma DEF FindAgentType, keyVars, indexVars, bounds, TypeOK, IndexType, BoundType,
     OwnGroups, OpType, GroupsOf, Groups
<1>4. CASE FindSimulation(s)
  <2>1. found' \in [Sessions -> SUBSET Groups] /\ \A t \in Sessions : found'[t] \subseteq GroupsOf(t)
    BY <1>4 DEF FindSimulation, TypeOK, OpType, OwnGroups, GroupsOf, Groups
  <2>2. /\ op' \in [Sessions -> [pc : OpPCs, todo : SUBSET Groups]]
        /\ op'[s].todo = {} /\ \A t \in Sessions \ {s} : op'[t] = op[t]
    BY <1>4, SetOpLemma DEF FindSimulation, TypeOK
  <2>3. BoundType'
    BY <1>4 DEF FindSimulation, TypeOK, BoundType
  <2> QED
    BY <1>4, <2>1, <2>2, <2>3 DEF FindSimulation, keyVars, indexVars, TypeOK, IndexType, OpType,
       OwnGroups
<1>5. CASE DelSessionKey(s)
  BY <1>5, SetOpLemma DEF DelSessionKey, keyVars, indexVars, bounds, TypeOK, IndexType, BoundType,
     OwnGroups, OpType
<1>6. CASE DelSimKey(s)
  BY <1>6, ContinueLemma DEF DelSimKey, keyVars, indexVars, bounds, TypeOK, IndexType, BoundType,
     OwnGroups, OpType
<1>7. ASSUME NEW g \in Groups, AddMember(s, g) PROVE TypeOK'
  BY <1>7, SetOpLemma, FrontSubset DEF AddMember, keyVars, indexVars, bounds, TypeOK, IndexType,
     BoundType, OwnGroups, OpType
<1>8. ASSUME NEW g \in Groups, Activate(s, g) PROVE TypeOK'
  BY <1>8, SetOpLemma, FrontSubset DEF Activate, keyVars, indexVars, bounds, TypeOK, IndexType,
     BoundType, OwnGroups, OpType
<1>9. ASSUME NEW g \in Groups, RemoveMember(s, g) PROVE TypeOK'
  <2>1. PICK pc \in OpPCs, todo \in SUBSET GroupsOf(s) : SetOp(s, pc, todo)
    BY <1>9 DEF RemoveMember, TypeOK, OwnGroups
  <2>2. /\ op' \in [Sessions -> [pc : OpPCs, todo : SUBSET Groups]]
        /\ op'[s].todo = todo /\ \A t \in Sessions \ {s} : op'[t] = op[t]
    BY <2>1, SetOpLemma DEF TypeOK
  <2> QED
    BY <1>9, <2>2 DEF RemoveMember, keyVars, indexVars, bounds, TypeOK, IndexType, BoundType,
       OwnGroups, OpType
<1>10. ASSUME NEW g \in Groups, CountMembers(s, g) PROVE TypeOK'
  <2>1. CASE members[g] # {}
    <3>1. "count" \in OpPCs /\ op[s].todo \ {g} \in SUBSET Groups
      BY DEF OpPCs, UntrackPCs, TypeOK, OpType
    <3>2. /\ op' \in [Sessions -> [pc : OpPCs, todo : SUBSET Groups]]
          /\ op'[s].todo = op[s].todo \ {g} /\ \A t \in Sessions \ {s} : op'[t] = op[t]
      BY <1>10, <2>1, <3>1, ContinueLemma DEF CountMembers, TypeOK
    <3> QED
      BY <1>10, <3>2 DEF CountMembers, keyVars, indexVars, bounds, TypeOK, IndexType, BoundType,
         OwnGroups, OpType
  <2>2. CASE members[g] = {}
    <3>1. PICK pc \in OpPCs : SetOp(s, pc, op[s].todo)
      BY <1>10, <2>2 DEF CountMembers
    <3> QED
      BY <1>10, <3>1, SetOpLemma DEF CountMembers, keyVars, indexVars, bounds, TypeOK, IndexType,
         BoundType, OwnGroups, OpType
  <2> QED
    BY <2>1, <2>2
<1>11. ASSUME NEW g \in Groups, DeleteIndex(s, g) PROVE TypeOK'
  BY <1>11, SetOpLemma, FrontSubset DEF DeleteIndex, keyVars, indexVars, bounds, TypeOK,
     IndexType, BoundType, OwnGroups, OpType
<1>12. ASSUME NEW g \in Groups, Deactivate(s, g) PROVE TypeOK'
  BY <1>12, ContinueLemma, FrontSubset DEF Deactivate, keyVars, indexVars, bounds, TypeOK,
     IndexType, BoundType, OwnGroups, OpType
<1> QED
  BY <1>1, <1>2, <1>3, <1>4, <1>5, <1>6, <1>7, <1>8, <1>9, <1>10, <1>11, <1>12 DEF SessionStep

LEMMA TypeSweep == ASSUME TypeOK, NEW r \in Reapers, SweepStep(r) PROVE TypeOK'
<1> USE RegistryAssumption, OpSame, FlushSame, PCs
<1>1. CASE BeginSweep(r)
  <2>1. ReapType'
    BY <1>1 DEF BeginSweep, TypeOK, ReapType, ReapPCs, Groups
  <2> QED
    BY <1>1, <2>1 DEF BeginSweep, keyVars, indexVars, bounds, TypeOK, IndexType, BoundType,
       OwnGroups
<1>2. CASE BeginSims(r)
  <2>1. ReapType'
    BY <1>2 DEF BeginSims, TypeOK, ReapType, ReapPCs, Groups
  <2> QED
    BY <1>2, <2>1 DEF BeginSims, keyVars, indexVars, bounds, TypeOK, IndexType, BoundType,
       OwnGroups
<1>3. CASE EndSweep(r)
  BY <1>3 DEF EndSweep, keyVars, indexVars, bounds, TypeOK, IndexType, BoundType, OwnGroups,
     ReapType, ReapPCs, NoSweep
<1>4. ASSUME NEW g \in Groups, ListMembers(r, g) PROVE TypeOK'
  <2>1. ReapType'
    <3>1. CASE g \in Types /\ members[g] = {}
      BY <1>4, <3>1, NextGroupLemma DEF ListMembers, TypeOK
    <3>2. CASE ~(g \in Types /\ members[g] = {})
      BY <1>4, <3>2 DEF ListMembers, TypeOK, IndexType, ReapType
    <3> QED
      BY <3>1, <3>2
  <2> QED
    BY <1>4, <2>1 DEF ListMembers, keyVars, indexVars, bounds, TypeOK, IndexType, BoundType,
       OwnGroups
<1>5. ASSUME NEW g \in Groups, CheckKeys(r, g) PROVE TypeOK'
  BY <1>5, SetReapLemma DEF CheckKeys, keyVars, indexVars, bounds, TypeOK, IndexType, BoundType,
     OwnGroups, ReapType, ReapPCs
<1>6. ASSUME NEW g \in Groups, Prune(r, g) PROVE TypeOK'
  BY <1>6, SetReapLemma DEF Prune, keyVars, indexVars, bounds, TypeOK, IndexType, BoundType,
     OwnGroups, ReapPCs
<1>7. ASSUME NEW g \in Groups, CountSwept(r, g) PROVE TypeOK'
  BY <1>7, SetReapLemma, NextGroupLemma DEF CountSwept, keyVars, indexVars, bounds, TypeOK,
     IndexType, BoundType, OwnGroups, DropPCs
<1>8. ASSUME NEW g \in Groups, SweepDrop(r, g) PROVE TypeOK'
  BY <1>8, SetReapLemma, NextGroupLemma DEF SweepDrop, keyVars, indexVars, bounds, TypeOK,
     IndexType, BoundType, OwnGroups, AfterDrop, DropPCs
<1> QED
  BY <1>1, <1>2, <1>3, <1>4, <1>5, <1>6, <1>7, <1>8 DEF SweepStep

LEMMA TypeFlush == ASSUME TypeOK, BeginFlush \/ FlushStep PROVE TypeOK'
<1> USE RegistryAssumption, OpSame, ReapSame
<1>1. CASE BeginFlush
  BY <1>1 DEF BeginFlush, keyVars, indexVars, bounds, TypeOK, IndexType, BoundType, OwnGroups,
     FlushType, FlushPCs, Groups
<1>2. CASE FlushTypes
  BY <1>2 DEF FlushTypes, keyVars, indexVars, bounds, TypeOK, IndexType, BoundType, OwnGroups,
     FlushType, FlushPCs, Groups
<1>3. CASE FlushSims
  BY <1>3 DEF FlushSims, keyVars, indexVars, bounds, TypeOK, IndexType, BoundType, OwnGroups,
     FlushType, FlushPCs
<1>4. CASE EndFlush
  BY <1>4 DEF EndFlush, keyVars, indexVars, bounds, TypeOK, IndexType, BoundType, OwnGroups,
     FlushType, FlushPCs
<1>5. ASSUME NEW g \in Groups, FlushIndex(g) PROVE TypeOK'
  BY <1>5 DEF FlushIndex, keyVars, indexVars, bounds, TypeOK, IndexType, BoundType, OwnGroups,
     FlushType, FlushPCs
<1>6. ASSUME NEW s \in Sessions, FlushKey(s) PROVE TypeOK'
  BY <1>6 DEF FlushKey, keyVars, indexVars, bounds, TypeOK, IndexType, BoundType, OwnGroups,
     FlushType, FlushPCs
<1> QED
  BY <1>1, <1>2, <1>3, <1>4, <1>5, <1>6 DEF FlushStep

\* Failures, expiry and stuttering.
Other ==
  \/ \E s \in Sessions : SessionFail(s) \/ ExpireKey(s)
  \/ \E r \in Reapers : SweepEnds(r) \/ \E g \in Groups : SweepSkips(r, g)
  \/ FlushFail
  \/ \E m \in Sims : ExpireSimSet(m)
  \/ UNCHANGED vars

LEMMA TypeOther == ASSUME TypeOK, Other PROVE TypeOK'
<1> USE RegistryAssumption, OpSame, ReapSame, FlushSame, PCs
<1>1. ASSUME NEW s \in Sessions, SessionFail(s) PROVE TypeOK'
  <2>1. /\ op' \in [Sessions -> [pc : OpPCs, todo : SUBSET Groups]]
        /\ op'[s].todo = {} /\ \A t \in Sessions \ {s} : op'[t] = op[t]
    BY <1>1, SetOpLemma DEF SessionFail, TypeOK
  <2> QED
    BY <1>1, <2>1 DEF SessionFail, keyVars, indexVars, bounds, TypeOK, IndexType, BoundType,
       OwnGroups, OpType
<1>2. ASSUME NEW s \in Sessions, ExpireKey(s) PROVE TypeOK'
  BY <1>2 DEF ExpireKey, keyVars, indexVars, bounds, TypeOK, IndexType, BoundType, OwnGroups
<1>3. ASSUME NEW r \in Reapers, SweepEnds(r) PROVE TypeOK'
  BY <1>3 DEF SweepEnds, keyVars, indexVars, bounds, TypeOK, IndexType, BoundType, OwnGroups,
     NoSweep, ReapType, ReapPCs
<1>4. ASSUME NEW r \in Reapers, NEW g \in Groups, SweepSkips(r, g) PROVE TypeOK'
  <2>1. ReapType'
    <3>1. (\E pc \in ReapPCs : SetReap(r, pc, {})) \/ NextGroup(r, g)
      BY <1>4 DEF SweepSkips, AfterDrop
    <3> QED
      BY <3>1, SetReapLemma, NextGroupLemma DEF TypeOK
  <2> QED
    BY <1>4, <2>1 DEF SweepSkips, keyVars, indexVars, bounds, TypeOK, IndexType, BoundType,
       OwnGroups
<1>5. CASE FlushFail
  BY <1>5 DEF FlushFail, keyVars, indexVars, bounds, TypeOK, IndexType, BoundType, OwnGroups,
     FlushType, FlushPCs, NoFlush
<1>6. ASSUME NEW m \in Sims, ExpireSimSet(m) PROVE TypeOK'
  BY <1>6 DEF ExpireSimSet, keyVars, indexVars, bounds, TypeOK, IndexType, BoundType, OwnGroups,
     Groups
<1>7. CASE UNCHANGED vars
  BY <1>7 DEF vars, keyVars, indexVars, bounds, TypeOK, IndexType, BoundType, OwnGroups
<1> QED
  BY <1>1, <1>2, <1>3, <1>4, <1>5, <1>6, <1>7 DEF Other

LEMMA NextCases ==
  ASSUME [Next]_vars
  PROVE  \/ \E s \in Sessions : SessionStep(s)
         \/ \E r \in Reapers : SweepStep(r)
         \/ BeginFlush \/ FlushStep
         \/ Other
BY DEF Next, Other

\* The state is always well typed, and a session is indexed under its own
\* groups only.
THEOREM TypeCorrect == Spec => []TypeOK
<1>1. TypeOK /\ [Next]_vars => TypeOK'
  BY NextCases, TypeSession, TypeSweep, TypeFlush, TypeOther
<1> QED
  BY TypeInit, <1>1, PTL DEF Spec

----------------------------------------------------------------------------
(* The invariant behind LiveIndexed.                                       *)

LEMMA FrontUnique ==
  ASSUME NEW s \in Sessions, NEW todo \in SUBSET GroupsOf(s), NEW g \in Front(todo), NEW h \in Front(todo)
  PROVE  g = h
BY RegistryAssumption DEF Front, GroupsOf

LEMMA IndexInit == Init => IndexInv
<1> SUFFICES ASSUME Init PROVE IndexInv
  OBVIOUS
<1>1. TypeOK
  BY TypeInit
<1> QED
  BY <1>1 DEF Init, IndexInv, NewUntouched, StaleGone, OneAtATime, WindowExposed, FlushExposed,
     Indexed,
     Dropping, DropPCs, Flushing, Added, Activated, TrackPCs, NoSweep, NoFlush

\* A step that adds no session: it removes an entry or an active group only
\* when the session has no key or is exposed, and opens a window only over an
\* empty set.
Quiet ==
  /\ sessionKey' \subseteq sessionKey
  /\ \A t \in Sessions : op'[t].pc = "new" <=> op[t].pc = "new"
  /\ \A t \in Sessions, g \in Groups :
       (Added(t, g)' => Added(t, g)) /\ (Activated(t, g)' => Activated(t, g))
  /\ \A g \in Groups : members'[g] \subseteq members[g] /\ exposed[g] \subseteq exposed'[g]
  /\ \A r \in Reapers :
       \/ reap'[r].ids \subseteq reap[r].ids
       \/ \E g \in Groups : reap'[r].ids \subseteq members[g]
  /\ StaleGone' /\ OneAtATime'
  /\ \A g \in Groups : Dropping(g)' => Dropping(g) \/ members'[g] = {}
  /\ \A g \in Groups, t \in Sessions :
       t \in sessionKey' /\ t \notin exposed'[g] /\ Added(t, g)' /\ t \in members[g]
         => t \in members'[g]
  /\ \A g \in Groups, t \in Sessions :
       t \in sessionKey' /\ t \notin exposed'[g] /\ Activated(t, g)' /\ t \in members[g]
         => (g \in active => g \in active')
  /\ FlushExposed'

LEMMA QuietPreserves == ASSUME IndexInv, TypeOK', Quiet PROVE IndexInv'
<1>1. NewUntouched'
  BY DEF IndexInv, NewUntouched, Quiet
<1>2. WindowExposed'
  BY DEF IndexInv, WindowExposed, Quiet, TypeOK, IndexType
<1>3. Indexed'
  <2> SUFFICES ASSUME NEW s \in Sessions, NEW g \in Groups, s \in sessionKey',
                      s \notin exposed'[g], g \in GroupsOf(s)
               PROVE  (Added(s, g)' => s \in members'[g]) /\ (Activated(s, g)' => g \in active')
    BY DEF Indexed, GroupsOf
  <2>1. Added(s, g)' => s \in members'[g]
    BY DEF IndexInv, Indexed, Quiet
  <2>2. Activated(s, g)' => Added(s, g)
    BY DEF Activated, Added, Quiet
  <2> QED
    BY <2>1, <2>2 DEF IndexInv, Indexed, Quiet
<1> QED
  BY <1>1, <1>2, <1>3 DEF IndexInv, Quiet

\* The commands of Untrack.
UntrackStep(s) ==
  \/ FindAgentType(s) \/ FindSimulation(s) \/ DelSessionKey(s) \/ DelSimKey(s)
  \/ \E g \in Groups :
       RemoveMember(s, g) \/ CountMembers(s, g) \/ DeleteIndex(s, g) \/ Deactivate(s, g)

\* What they and SessionFail have in common: the session is not, or no longer,
\* one that Track vouches for, and only its own entries go unless the group is
\* being dropped.
Retreat(s) ==
  /\ op[s].pc # "new" /\ op'[s].pc \notin TrackPCs \cup {"new", "tracked"}
  /\ \A t \in Sessions \ {s} : op'[t] = op[t]
  /\ UNCHANGED <<reap, flush, exposed>>
  /\ sessionKey' \subseteq sessionKey
  /\ \A g \in Groups :
       /\ members'[g] \subseteq members[g]
       /\ Dropping(g) \/ (members[g] \ {s} \subseteq members'[g] /\ (g \in active => g \in active'))
       /\ op'[s].pc \in DropPCs /\ g \in Front(op'[s].todo) => Dropping(g) \/ members'[g] = {}

LEMMA RetreatQuiet == ASSUME IndexInv, NEW s \in Sessions, Retreat(s) PROVE Quiet
<1>1. \A t \in Sessions, g \in Groups :
        /\ Added(t, g)' => t # s /\ Added(t, g)
        /\ Activated(t, g)' => t # s /\ Activated(t, g)
  BY DEF Retreat, Added, Activated, TrackPCs
<1>2. \A g \in Groups : Dropping(g)' => Dropping(g) \/ members'[g] = {}
  BY DEF Retreat, Dropping
<1>3. StaleGone' /\ OneAtATime'
  BY DEF Retreat, StaleGone, OneAtATime, IndexInv
<1>4. FlushExposed'
  BY DEF Retreat, FlushExposed, Flushing, IndexInv
<1>5. \A g \in Groups, t \in Sessions : t \in members[g] /\ t \notin exposed'[g] => ~Dropping(g)
  BY DEF Retreat, IndexInv, WindowExposed
<1>6. \A t \in Sessions : op'[t].pc = "new" <=> op[t].pc = "new"
  BY DEF Retreat
<1> QED
  BY <1>1, <1>2, <1>3, <1>4, <1>5, <1>6 DEF Quiet, Retreat

LEMMA QuietUntrack == ASSUME IndexInv, NEW s \in Sessions, UntrackStep(s) PROVE Quiet
<1> SUFFICES Retreat(s)
  BY RetreatQuiet
<1> USE PCs, GroupsOfType
<1>1. CASE FindAgentType(s)
  BY <1>1, SetOpLemma DEF FindAgentType, keyVars, indexVars, bounds, Retreat, IndexInv, TypeOK,
     IndexType, OpType, OwnGroups, TrackPCs, DropPCs
<1>2. CASE FindSimulation(s)
  BY <1>2, SetOpLemma DEF FindSimulation, keyVars, indexVars, bounds, Retreat, IndexInv, TypeOK,
     IndexType, OpType, OwnGroups, TrackPCs, DropPCs
<1>3. CASE DelSessionKey(s)
  BY <1>3, SetOpLemma DEF DelSessionKey, keyVars, indexVars, bounds, Retreat, IndexInv, TypeOK,
     IndexType, OpType, OwnGroups, TrackPCs, DropPCs
<1>4. CASE DelSimKey(s)
  BY <1>4, ContinueLemma DEF DelSimKey, keyVars, indexVars, bounds, Retreat, IndexInv, TypeOK,
     IndexType, OpType, OwnGroups, TrackPCs, DropPCs
<1>5. ASSUME NEW g \in Groups, RemoveMember(s, g) PROVE Retreat(s)
  BY <1>5, SetOpLemma, FrontSubset DEF RemoveMember, keyVars, indexVars, bounds, Retreat,
     IndexInv, TypeOK, IndexType, OpType, OwnGroups, TrackPCs, DropPCs
<1>6. ASSUME NEW g \in Groups, CountMembers(s, g) PROVE Retreat(s)
  <2>1. CASE members[g] # {}
    BY <1>6, <2>1, ContinueLemma, FrontSubset DEF CountMembers, keyVars, indexVars, bounds,
       Retreat, IndexInv, TypeOK, IndexType, OpType, OwnGroups, TrackPCs, DropPCs
  <2>2. CASE members[g] = {}
    <3>1. PICK pc \in DropPCs : SetOp(s, pc, op[s].todo)
      BY <1>6, <2>2 DEF CountMembers, DropPCs
    <3>2. op'[s].pc \in DropPCs /\ op'[s].todo = op[s].todo /\ \A t \in Sessions \ {s} : op'[t] = op[t]
      BY <3>1, SetOpLemma DEF IndexInv, TypeOK, OpType, DropPCs
    <3>3. \A h \in Front(op'[s].todo) : h = g
      BY <1>6, <3>2, FrontUnique DEF CountMembers, IndexInv, TypeOK, OwnGroups
    <3> QED
      BY <1>6, <2>2, <3>2, <3>3 DEF CountMembers, keyVars, indexVars, bounds, Retreat, TrackPCs,
         DropPCs
  <2> QED
    BY <2>1, <2>2
<1>7. ASSUME NEW g \in Groups, DeleteIndex(s, g) PROVE Retreat(s)
  BY <1>7, SetOpLemma, FrontSubset DEF DeleteIndex, keyVars, indexVars, bounds, Retreat, IndexInv,
     TypeOK, IndexType, OpType, OwnGroups, TrackPCs, DropPCs, Dropping
<1>8. ASSUME NEW g \in Groups, Deactivate(s, g) PROVE Retreat(s)
  BY <1>8, ContinueLemma, FrontSubset DEF Deactivate, keyVars, indexVars, bounds, Retreat,
     IndexInv, TypeOK, IndexType, OpType, OwnGroups, TrackPCs, DropPCs, Dropping
<1> QED
  BY <1>1, <1>2, <1>3, <1>4, <1>5, <1>6, <1>7, <1>8 DEF UntrackStep

LEMMA QuietSweep == ASSUME IndexInv, NEW r \in Reapers, SweepStep(r) PROVE Quiet
<1> USE PCs
<1>1. CASE BeginSweep(r)
  BY <1>1 DEF BeginSweep, keyVars, indexVars, bounds, Quiet, IndexInv, TypeOK, IndexType,
     StaleGone, OneAtATime, FlushExposed, Flushing, Dropping, DropPCs, Added, Activated, ReapType
<1>2. CASE BeginSims(r)
  BY <1>2 DEF BeginSims, keyVars, indexVars, bounds, Quiet, IndexInv, TypeOK, IndexType,
     StaleGone, OneAtATime, FlushExposed, Flushing, Dropping, DropPCs, Added, Activated, ReapType
<1>3. CASE EndSweep(r)
  BY <1>3 DEF EndSweep, keyVars, indexVars, bounds, Quiet, IndexInv, TypeOK, IndexType, StaleGone,
     OneAtATime, FlushExposed, Flushing, Dropping, DropPCs, Added, Activated, ReapType, NoSweep
<1>4. ASSUME NEW g \in Groups, ListMembers(r, g) PROVE Quiet
  BY <1>4, NextGroupLemma DEF ListMembers, keyVars, indexVars, bounds, Quiet, IndexInv, TypeOK,
     IndexType, StaleGone, OneAtATime, FlushExposed, Flushing, Dropping, DropPCs, Added,
     Activated, ReapType
<1>5. ASSUME NEW g \in Groups, CheckKeys(r, g) PROVE Quiet
  BY <1>5, SetReapLemma DEF CheckKeys, keyVars, indexVars, bounds, Quiet, IndexInv, TypeOK,
     IndexType, StaleGone, OneAtATime, FlushExposed, Flushing, Dropping, DropPCs, Added,
     Activated, ReapType
<1>6. ASSUME NEW g \in Groups, Prune(r, g) PROVE Quiet
  BY <1>6, SetReapLemma DEF Prune, keyVars, indexVars, bounds, Quiet, IndexInv, TypeOK, IndexType,
     StaleGone, OneAtATime, FlushExposed, Flushing, Dropping, DropPCs, Added, Activated
<1>7. ASSUME NEW g \in Groups, CountSwept(r, g) PROVE Quiet
  <2>1. CASE members[g] # {}
    BY <1>7, <2>1, NextGroupLemma DEF CountSwept, keyVars, indexVars, bounds, Quiet, IndexInv,
       TypeOK, IndexType, StaleGone, OneAtATime, FlushExposed, Flushing, Dropping, DropPCs, Added,
       Activated
  <2>2. CASE members[g] = {}
    <3>1. PICK pc \in DropPCs : SetReap(r, pc, {})
      BY <1>7, <2>2 DEF CountSwept, DropPCs
    <3>2. /\ reap'[r].pc = pc /\ reap'[r].ids = {} /\ reap'[r].at = reap[r].at
          /\ \A q \in Reapers \ {r} : reap'[q] = reap[q]
      BY <3>1, SetReapLemma DEF IndexInv, TypeOK, DropPCs
    <3> QED
      BY <1>7, <2>2, <3>2 DEF CountSwept, keyVars, indexVars, bounds, Quiet, IndexInv, TypeOK,
         IndexType, StaleGone, OneAtATime, FlushExposed, Flushing, Dropping, DropPCs, Added,
         Activated
  <2> QED
    BY <2>1, <2>2
<1>8. ASSUME NEW g \in Groups, SweepDrop(r, g) PROVE Quiet
  <2>1. /\ reap'[r].pc # "prune" /\ reap'[r].ids = {}
        /\ reap'[r].at \subseteq reap[r].at
        /\ \A q \in Reapers \ {r} : reap'[q] = reap[q]
    BY <1>8, SetReapLemma, NextGroupLemma DEF SweepDrop, AfterDrop, IndexInv, TypeOK
  <2>2. Dropping(g)
    BY <1>8 DEF SweepDrop, Dropping
  <2>3. \A h \in Groups : Dropping(h)' => Dropping(h)
    BY <1>8, <2>1 DEF SweepDrop, Dropping
  <2>4. \A s \in members[g] : s \in exposed[g]
    BY <2>2 DEF IndexInv, WindowExposed, TypeOK, IndexType
  <2> QED
    BY <1>8, <2>1, <2>3, <2>4 DEF SweepDrop, keyVars, indexVars, bounds, Quiet, IndexInv, TypeOK,
       IndexType,
       StaleGone, OneAtATime, FlushExposed, Flushing, Added, Activated, Indexed
<1> QED
  BY <1>1, <1>2, <1>3, <1>4, <1>5, <1>6, <1>7, <1>8 DEF SweepStep

LEMMA QuietFlush == ASSUME IndexInv, BeginFlush \/ FlushStep PROVE Quiet
<1>1. CASE BeginFlush
  BY <1>1 DEF BeginFlush, keyVars, indexVars, bounds, Quiet, IndexInv, TypeOK, IndexType,
     StaleGone, OneAtATime, FlushExposed, Flushing, Dropping, DropPCs, Added, Activated, TrackPCs,
     FlushType
<1>2. CASE FlushTypes
  BY <1>2 DEF FlushTypes, keyVars, indexVars, bounds, Quiet, IndexInv, TypeOK, IndexType,
     StaleGone, OneAtATime, FlushExposed, Flushing, Dropping, DropPCs, Added, Activated, TrackPCs,
     FlushType
<1>3. CASE FlushSims
  BY <1>3 DEF FlushSims, keyVars, indexVars, bounds, Quiet, IndexInv, TypeOK, IndexType,
     StaleGone, OneAtATime, FlushExposed, Flushing, Dropping, DropPCs, Added, Activated, TrackPCs,
     FlushType
<1>4. CASE EndFlush
  BY <1>4 DEF EndFlush, keyVars, indexVars, bounds, Quiet, IndexInv, TypeOK, IndexType, StaleGone,
     OneAtATime, FlushExposed, Flushing, Dropping, DropPCs, Added, Activated, TrackPCs, FlushType
<1>5. ASSUME NEW g \in Groups, FlushIndex(g) PROVE Quiet
  BY <1>5 DEF FlushIndex, keyVars, indexVars, bounds, Quiet, IndexInv, TypeOK, IndexType,
     StaleGone, OneAtATime, FlushExposed, Flushing, Dropping, DropPCs, Added, Activated, TrackPCs,
     FlushType, NewUntouched
<1>6. ASSUME NEW s \in Sessions, FlushKey(s) PROVE Quiet
  BY <1>6 DEF FlushKey, keyVars, indexVars, bounds, Quiet, IndexInv, TypeOK, IndexType, StaleGone,
     OneAtATime, FlushExposed, Flushing, Dropping, DropPCs, Added, Activated, TrackPCs, FlushType
<1> QED
  BY <1>1, <1>2, <1>3, <1>4, <1>5, <1>6 DEF FlushStep

LEMMA QuietOther == ASSUME IndexInv, Other PROVE Quiet
<1> USE PCs
<1>1. ASSUME NEW s \in Sessions, SessionFail(s) PROVE Quiet
  <2> SUFFICES Retreat(s)
    BY RetreatQuiet
  <2> QED
    BY <1>1, SetOpLemma DEF SessionFail, keyVars, indexVars, Retreat, IndexInv, TypeOK, IndexType,
       TrackPCs, UntrackPCs, DropPCs
<1>2. ASSUME NEW s \in Sessions, ExpireKey(s) PROVE Quiet
  BY <1>2 DEF ExpireKey, keyVars, indexVars, bounds, Quiet, IndexInv, TypeOK, IndexType,
     StaleGone, OneAtATime, FlushExposed, Flushing, Dropping, DropPCs, Added, Activated
<1>3. ASSUME NEW r \in Reapers, SweepEnds(r) PROVE Quiet
  BY <1>3 DEF SweepEnds, keyVars, indexVars, bounds, Quiet, IndexInv, TypeOK, IndexType,
     StaleGone, OneAtATime, FlushExposed, Flushing, Dropping, DropPCs, Added, Activated, NoSweep,
     ReapType
<1>4. ASSUME NEW r \in Reapers, NEW g \in Groups, SweepSkips(r, g) PROVE Quiet
  BY <1>4, SetReapLemma, NextGroupLemma DEF SweepSkips, keyVars, indexVars, bounds, Quiet,
     IndexInv, TypeOK, IndexType, StaleGone, OneAtATime, FlushExposed, Flushing, Dropping,
     DropPCs, Added, Activated, AfterDrop, ReapType
<1>5. CASE FlushFail
  BY <1>5 DEF FlushFail, keyVars, indexVars, bounds, Quiet, IndexInv, TypeOK, IndexType,
     StaleGone, OneAtATime, FlushExposed, Flushing, Dropping, DropPCs, Added, Activated, NoFlush,
     FlushType
<1>6. ASSUME NEW m \in Sims, ExpireSimSet(m) PROVE Quiet
  BY <1>6 DEF ExpireSimSet, keyVars, indexVars, bounds, Quiet, IndexInv, TypeOK, IndexType,
     StaleGone, OneAtATime, FlushExposed, Flushing, Dropping, DropPCs, Added, Activated, Groups
<1>7. CASE UNCHANGED vars
  BY <1>7 DEF vars, keyVars, indexVars, bounds, Quiet, IndexInv, TypeOK, IndexType, StaleGone,
     OneAtATime, FlushExposed, Flushing, Dropping, DropPCs, Added, Activated
<1> QED
  BY <1>1, <1>2, <1>3, <1>4, <1>5, <1>6, <1>7 DEF Other

\* The commands of Track.
TrackStep(s) ==
  \/ SetSessionKey(s) \/ SetSimKey(s)
  \/ \E g \in Groups : AddMember(s, g) \/ Activate(s, g)

LEMMA TrackPreserves == ASSUME IndexInv, TypeOK', NEW s \in Sessions, TrackStep(s) PROVE IndexInv'
<1> USE PCs, GroupsOfType DEF IndexInv
<1>1. /\ op'[s].pc # "new" /\ op'[s].pc \notin DropPCs
      /\ \A t \in Sessions \ {s} : op'[t] = op[t]
      /\ UNCHANGED <<reap, flush>>
  <2>1. PICK pc \in {"add", "setSim", "activate", "tracked"}, todo \in SUBSET Groups : SetOp(s, pc, todo)
    BY DEF TrackStep, SetSessionKey, SetSimKey, AddMember, Activate, TypeOK, OpType
  <2>2. op'[s].pc = pc /\ \A t \in Sessions \ {s} : op'[t] = op[t]
    BY <2>1, SetOpLemma DEF TypeOK
  <2> QED
    BY <2>2 DEF TrackStep, SetSessionKey, SetSimKey, AddMember, Activate, DropPCs
<1>2. /\ sessionKey' = sessionKey \/ (op[s].pc = "new" /\ sessionKey' = sessionKey \cup {s})
      /\ \A g \in Groups :
           members[g] \subseteq members'[g] /\ members'[g] \subseteq members[g] \cup {s}
      /\ \A g \in Groups : exposed[g] \subseteq exposed'[g]
      /\ active \subseteq active'
  <2>1. CASE SetSessionKey(s) \/ SetSimKey(s)
    BY <2>1 DEF SetSessionKey, SetSimKey, indexVars, TypeOK, IndexType
  <2>2. ASSUME NEW h \in Groups, AddMember(s, h) \/ Activate(s, h)
        PROVE  /\ UNCHANGED sessionKey
               /\ \A g \in Groups :
                    members[g] \subseteq members'[g] /\ members'[g] \subseteq members[g] \cup {s}
               /\ \A g \in Groups : exposed[g] \subseteq exposed'[g]
               /\ active \subseteq active'
    BY <2>2 DEF AddMember, Activate, keyVars, TypeOK, IndexType
  <2> QED
    BY <2>1, <2>2 DEF TrackStep
<1>3. NewUntouched'
  BY <1>1, <1>2 DEF NewUntouched
<1>4. StaleGone' /\ OneAtATime'
  BY <1>1, <1>2 DEF StaleGone, OneAtATime, NewUntouched
<1>5. WindowExposed'
  <2>1. \A g \in Groups : Dropping(g)' => Dropping(g)
    BY <1>1 DEF Dropping
  <2>2. \A g \in Groups : Dropping(g) /\ s \in members'[g] => s \in members[g] \/ s \in exposed'[g]
    BY DEF TrackStep, SetSessionKey, SetSimKey, AddMember, Activate, indexVars, TypeOK, IndexType
  <2> QED
    BY <1>2, <2>1, <2>2 DEF WindowExposed
<1>6. FlushExposed'
  <2> SUFFICES ASSUME Flushing, NEW g \in Groups PROVE s \in exposed'[g]
    BY <1>1, <1>2 DEF FlushExposed, Flushing
  <2>1. CASE op[s].pc = "new"
    BY <2>1 DEF TrackStep, SetSessionKey, SetSimKey, AddMember, Activate
  <2> QED
    BY <1>2, <2>1 DEF FlushExposed
<1>7. Indexed'
  <2> SUFFICES ASSUME NEW t \in Sessions, NEW g \in Groups, t \in sessionKey',
                      t \notin exposed'[g], g \in GroupsOf(t)
               PROVE  (Added(t, g)' => t \in members'[g]) /\ (Activated(t, g)' => g \in active')
    BY DEF Indexed, GroupsOf
  <2>1. CASE t # s
    BY <1>1, <1>2, <2>1 DEF Indexed, Added, Activated
  <2>2. CASE t = s /\ SetSessionKey(s)
    BY <2>2, SetOpLemma DEF SetSessionKey, Added, Activated, Front, TypeOK
  <2>3. CASE t = s /\ SetSimKey(s)
    <3>1. op'[s].pc = "activate" /\ op'[s].todo = op[s].todo
      BY <2>3, SetOpLemma DEF SetSimKey, TypeOK, OpType
    <3> QED
      BY <1>2, <2>3, <3>1 DEF SetSimKey, Indexed, Added, Activated, TrackPCs, indexVars
  <2>4. ASSUME t = s, NEW h \in Groups, AddMember(s, h)
        PROVE  (Added(t, g)' => t \in members'[g]) /\ (Activated(t, g)' => g \in active')
    <3>1. op'[s].pc \in {"setSim", "activate"} /\ op'[s].todo = op[s].todo
      BY <2>4, SetOpLemma DEF AddMember, TypeOK, OpType
    <3>2. Added(s, g)' => Added(s, g) \/ g = h
      BY <2>4, <3>1, FrontUnique DEF AddMember, Added, TrackPCs, TypeOK, OwnGroups
    <3>3. Activated(s, g)' => Activated(s, g)
      BY <2>4, <3>1 DEF AddMember, Activated, TrackPCs
    <3>4. s \in members'[h] /\ sessionKey' = sessionKey
      BY <2>4 DEF AddMember, keyVars, TypeOK, IndexType
    <3> QED
      BY <1>2, <2>4, <3>2, <3>3, <3>4 DEF Indexed
  <2>5. ASSUME t = s, NEW h \in Groups, Activate(s, h)
        PROVE  (Added(t, g)' => t \in members'[g]) /\ (Activated(t, g)' => g \in active')
    <3>1. PICK pc \in {"tracked", "add"} :
            /\ SetOp(s, pc, op[s].todo \ {h})
            /\ pc = "tracked" => op[s].todo \ {h} = {}
      BY <2>5 DEF Activate
    <3>2. op'[s].pc = pc /\ op'[s].todo = op[s].todo \ {h}
      BY <3>1, SetOpLemma DEF TypeOK, OpType
    <3>3. (Added(s, g)' => Added(s, g)) /\ (Activated(s, g)' => Activated(s, g) \/ g = h)
      BY <2>5, <3>1, <3>2 DEF Activate, Added, Activated, TrackPCs
    <3>4. h \in active' /\ sessionKey' = sessionKey /\ members' = members
      BY <2>5 DEF Activate, keyVars
    <3> QED
      BY <1>2, <2>5, <3>3, <3>4 DEF Indexed
  <2> QED
    BY <2>1, <2>2, <2>3, <2>4, <2>5 DEF TrackStep
<1> QED
  BY <1>3, <1>4, <1>5, <1>6, <1>7

LEMMA IndexNext == IndexInv /\ [Next]_vars => IndexInv'
<1> SUFFICES ASSUME IndexInv, [Next]_vars PROVE IndexInv'
  OBVIOUS
<1>1. TypeOK'
  BY NextCases, TypeSession, TypeSweep, TypeFlush, TypeOther DEF IndexInv
<1>2. ASSUME NEW s \in Sessions, SessionStep(s) PROVE IndexInv'
  <2>1. TrackStep(s) \/ UntrackStep(s)
    BY <1>2 DEF SessionStep, TrackStep, UntrackStep
  <2> QED
    BY <1>1, <2>1, TrackPreserves, QuietUntrack, QuietPreserves
<1> QED
  BY <1>1, <1>2, NextCases, QuietSweep, QuietFlush, QuietOther, QuietPreserves

\* The invariant holds in every reachable state.
THEOREM IndexCorrect == Spec => []IndexInv
BY IndexInit, IndexNext, PTL DEF Spec

\* A tracked session with its key stays indexed and its groups active, unless
\* a window or a flush exposed it.
THEOREM LiveAlwaysIndexed == Spec => []LiveIndexed
<1>1. IndexInv => LiveIndexed
  BY GroupsOfType DEF IndexInv, Indexed, LiveIndexed, Live, Added, Activated
<1> QED
  BY <1>1, IndexCorrect, PTL

----------------------------------------------------------------------------
(* UntrackForgets.                                                         *)

\* What an Untrack has removed by each of its steps.
Forgotten ==
  \A s \in Sessions :
    /\ op[s].pc \in {"delSim", "remove", "count", "delete", "deactivate", "untracked"}
         => s \notin sessionKey
    /\ op[s].pc \in {"remove", "count", "delete", "deactivate", "untracked"} => s \notin simKey
    /\ op[s].pc = "remove" => \A g \in found[s] \ op[s].todo : s \notin members[g]
    /\ op[s].pc \in {"count", "delete", "deactivate", "untracked"}
         => \A g \in found[s] : s \notin members[g]

\* Nobody but its own Track adds a session to a key or an index.
LEMMA OnlyTrackAdds ==
  ASSUME TypeOK, [Next]_vars, NEW s \in Sessions, op[s].pc \notin TrackPCs \cup {"new"}
  PROVE  /\ s \in sessionKey' => s \in sessionKey
         /\ s \in simKey' => s \in simKey
         /\ \A g \in Groups : s \in members'[g] => s \in members[g]
<1> USE DEF TypeOK, IndexType, keyVars, indexVars
<1>1. ASSUME NEW t \in Sessions, TrackStep(t)
      PROVE  /\ s \in sessionKey' => s \in sessionKey
             /\ s \in simKey' => s \in simKey
             /\ \A g \in Groups : s \in members'[g] => s \in members[g]
  <2>1. t # s
    BY <1>1 DEF TrackStep, SetSessionKey, SetSimKey, AddMember, Activate, TrackPCs
  <2>2. /\ sessionKey' \subseteq sessionKey \cup {t} /\ simKey' \subseteq simKey \cup {t}
        /\ \A g \in Groups : members'[g] \subseteq members[g] \cup {t}
    BY <1>1 DEF TrackStep, SetSessionKey, SetSimKey, AddMember, Activate
  <2> QED
    BY <2>1, <2>2
<1>2. ASSUME NEW t \in Sessions, UntrackStep(t)
      PROVE  /\ sessionKey' \subseteq sessionKey /\ simKey' \subseteq simKey
             /\ \A g \in Groups : members'[g] \subseteq members[g]
  BY <1>2 DEF UntrackStep, FindAgentType, FindSimulation, DelSessionKey, DelSimKey, RemoveMember,
     CountMembers, DeleteIndex, Deactivate
<1>3. ASSUME NEW r \in Reapers, SweepStep(r)
      PROVE  /\ sessionKey' \subseteq sessionKey /\ simKey' \subseteq simKey
             /\ \A g \in Groups : members'[g] \subseteq members[g]
  BY <1>3 DEF SweepStep, BeginSweep, BeginSims, EndSweep, ListMembers, CheckKeys, Prune,
     CountSwept,
     SweepDrop
<1>4. ASSUME BeginFlush \/ FlushStep
      PROVE  /\ sessionKey' \subseteq sessionKey /\ simKey' \subseteq simKey
             /\ \A g \in Groups : members'[g] \subseteq members[g]
  BY <1>4 DEF FlushStep, BeginFlush, FlushTypes, FlushSims, EndFlush, FlushIndex, FlushKey
<1>5. ASSUME Other
      PROVE  /\ sessionKey' \subseteq sessionKey /\ simKey' \subseteq simKey
             /\ \A g \in Groups : members'[g] \subseteq members[g]
  BY <1>5 DEF Other, SessionFail, ExpireKey, SweepEnds, SweepSkips, FlushFail, ExpireSimSet, vars
<1>6. ASSUME NEW t \in Sessions, SessionStep(t) PROVE TrackStep(t) \/ UntrackStep(t)
  BY <1>6 DEF SessionStep, TrackStep, UntrackStep
<1> QED
  BY NextCases, <1>1, <1>2, <1>3, <1>4, <1>5, <1>6

\* A session's Track and Untrack are only moved by its own steps.
LEMMA OwnSteps ==
  ASSUME TypeOK, [Next]_vars, NEW s \in Sessions
  PROVE  \/ TrackStep(s) \/ UntrackStep(s) \/ SessionFail(s)
         \/ op'[s] = op[s] /\ found'[s] = found[s]
<1>1. ASSUME NEW t \in Sessions, t # s, SessionStep(t) \/ SessionFail(t)
      PROVE  op'[s] = op[s] /\ found'[s] = found[s]
  BY <1>1 DEF SessionStep, SessionFail, SetSessionKey, SetSimKey, AddMember, Activate,
     FindAgentType,
     FindSimulation, DelSessionKey, DelSimKey, RemoveMember, CountMembers, DeleteIndex, Deactivate,
     Continue, SetOp, TypeOK, OpType
<1>2. ASSUME NEW r \in Reapers, SweepStep(r) PROVE UNCHANGED <<op, found>>
  BY <1>2 DEF SweepStep, BeginSweep, BeginSims, EndSweep, ListMembers, CheckKeys, Prune,
     CountSwept,
     SweepDrop
<1>3. BeginFlush \/ FlushStep => UNCHANGED <<op, found>>
  BY DEF FlushStep, BeginFlush, FlushTypes, FlushSims, EndFlush, FlushIndex, FlushKey
<1>4. Other => (\E t \in Sessions : SessionFail(t)) \/ UNCHANGED <<op, found>>
  BY DEF Other, ExpireKey, SweepEnds, SweepSkips, FlushFail, ExpireSimSet, vars
<1>5. SessionStep(s) => TrackStep(s) \/ UntrackStep(s)
  BY DEF SessionStep, TrackStep, UntrackStep
<1> QED
  BY NextCases, <1>1, <1>2, <1>3, <1>4, <1>5

\* An Untrack without an error leaves nothing its lookups found.
THEOREM UntrackAlwaysForgets == Spec => []UntrackForgets
<1>1. Init => Forgotten
  BY DEF Init, Forgotten
<1>2. TypeOK /\ Forgotten /\ [Next]_vars => Forgotten'
  <2> SUFFICES ASSUME TypeOK, Forgotten, [Next]_vars, NEW s \in Sessions
               PROVE
    /\ op'[s].pc \in {"delSim", "remove", "count", "delete", "deactivate", "untracked"}
         => s \notin sessionKey'
    /\ op'[s].pc \in {"remove", "count", "delete", "deactivate", "untracked"} => s \notin simKey'
    /\ op'[s].pc = "remove" => \A g \in found'[s] \ op'[s].todo : s \notin members'[g]
    /\ op'[s].pc \in {"count", "delete", "deactivate", "untracked"}
         => \A g \in found'[s] : s \notin members'[g]
    BY DEF Forgotten
  <2>1. found[s] \subseteq Groups /\ op[s].todo \subseteq Groups
    BY DEF TypeOK, OpType
  <2>2. op[s].pc \in UntrackPCs \cup {"untracked"} => op[s].pc \notin TrackPCs \cup {"new"}
    BY DEF UntrackPCs, TrackPCs, DropPCs
  <2>3. CASE op'[s] = op[s] /\ found'[s] = found[s]
    BY <2>1, <2>2, <2>3, OnlyTrackAdds DEF Forgotten, UntrackPCs, DropPCs
  <2>4. CASE TrackStep(s) \/ SessionFail(s)
    <3>1. PICK pc \in {"add", "setSim", "activate", "tracked", "failed"}, todo \in SUBSET Groups :
            SetOp(s, pc, todo)
      BY <2>4, GroupsOfType DEF TrackStep, SessionFail, SetSessionKey, SetSimKey, AddMember,
         Activate,
         TypeOK, OpType
    <3> QED
      BY <3>1, PCs, SetOpLemma DEF TypeOK
  <2>5. CASE FindAgentType(s) \/ FindSimulation(s) \/ DelSessionKey(s)
    BY <2>5, PCs, SetOpLemma DEF FindAgentType, FindSimulation, DelSessionKey, TypeOK
  <2>6. CASE DelSimKey(s)
    BY <2>1, <2>6, PCs, ContinueLemma DEF DelSimKey, Forgotten, TypeOK
  <2>7. ASSUME NEW g \in Groups, RemoveMember(s, g)
        PROVE  /\ op'[s].pc = "remove" => \A h \in found'[s] \ op'[s].todo : s \notin members'[h]
               /\ op'[s].pc = "count" => \A h \in found'[s] : s \notin members'[h]
               /\ op'[s].pc \in {"remove", "count"}
               /\ s \notin sessionKey' /\ s \notin simKey'
    <3>1. \A h \in found[s] \ (op[s].todo \ {g}) : s \notin members'[h]
      BY <2>1, <2>7 DEF RemoveMember, Forgotten, TypeOK, IndexType
    <3>2. CASE op[s].todo \ {g} = {}
      BY <2>1, <2>7, <3>1, <3>2, PCs, SetOpLemma DEF RemoveMember, Forgotten, TypeOK, keyVars
    <3>3. CASE op[s].todo \ {g} # {}
      BY <2>1, <2>7, <3>1, <3>3, PCs, SetOpLemma DEF RemoveMember, Forgotten, TypeOK, keyVars
    <3> QED
      BY <3>2, <3>3
  <2>8. ASSUME NEW g \in Groups, CountMembers(s, g) \/ DeleteIndex(s, g) \/ Deactivate(s, g)
        PROVE  /\ op'[s].pc \in {"count", "delete", "deactivate", "untracked"}
               /\ \A h \in found'[s] : s \notin members'[h]
               /\ s \notin sessionKey' /\ s \notin simKey'
    <3>1. op'[s].pc \in {"count", "delete", "deactivate", "untracked"} /\ found' = found
      BY <2>1, <2>8, PCs, SetOpLemma, ContinueLemma DEF CountMembers, DeleteIndex, Deactivate,
         TypeOK
    <3>2. op[s].pc \in {"count", "delete", "deactivate"}
      BY <2>8 DEF CountMembers, DeleteIndex, Deactivate
    <3> QED
      BY <2>1, <2>2, <3>1, <3>2, OnlyTrackAdds DEF Forgotten, UntrackPCs, DropPCs
  <2> QED
    BY <2>3, <2>4, <2>5, <2>6, <2>7, <2>8, OwnSteps DEF UntrackStep
<1>3. Forgotten => UntrackForgets
  BY DEF Forgotten, UntrackForgets
<1> QED
  BY <1>1, <1>2, <1>3, TypeCorrect, PTL DEF Spec

----------------------------------------------------------------------------
(* FlushForgets.                                                           *)

\* What a flush has removed of a session it found, by the phase it is in.
Flushed(s) ==
  /\ op[s].pc \notin TrackPCs \cup {"new"}
  /\ flush.pc = "types" /\ s \in members[TypeOf[s]] => TypeOf[s] \in flush.groups
  /\ flush.pc \in {"sims", "keys", "done"} => s \notin members[TypeOf[s]]
  /\ flush.pc = "keys" => /\ s \in sessionKey => s \in flush.keys
                          /\ s \in simKey => s \in flush.simKeys
  /\ flush.pc = "done" => s \notin sessionKey \cup simKey

FlushInv == \A s \in flush.before : Flushed(s)

\* Once its Track is over, a session is never tracked again.
LEMMA NeverTrackedAgain ==
  ASSUME TypeOK, [Next]_vars, NEW s \in Sessions, op[s].pc \notin TrackPCs \cup {"new"}
  PROVE  op'[s].pc \notin TrackPCs \cup {"new"}
<1> USE DEF TypeOK
<1>1. ~TrackStep(s)
  BY DEF TrackStep, SetSessionKey, SetSimKey, AddMember, Activate, TrackPCs
<1>2. CASE SessionFail(s)
  BY <1>2, PCs, SetOpLemma DEF SessionFail, TrackPCs
<1>3. CASE FindAgentType(s) \/ FindSimulation(s) \/ DelSessionKey(s)
  BY <1>3, PCs, SetOpLemma DEF FindAgentType, FindSimulation, DelSessionKey, TrackPCs
<1>4. CASE DelSimKey(s)
  BY <1>4, PCs, ContinueLemma DEF DelSimKey, TrackPCs, OpType
<1>5. ASSUME NEW g \in Groups, RemoveMember(s, g)
      PROVE  op'[s].pc \in {"remove", "count"}
  <2>1. /\ found[s] \in SUBSET Groups /\ op[s].todo \ {g} \in SUBSET Groups
    BY DEF OpType
  <2>2. CASE op[s].todo \ {g} = {}
    BY <1>5, <2>1, <2>2, PCs, SetOpLemma DEF RemoveMember
  <2>3. CASE op[s].todo \ {g} # {}
    BY <1>5, <2>1, <2>3, PCs, SetOpLemma DEF RemoveMember
  <2> QED
    BY <2>2, <2>3
<1>6. ASSUME NEW g \in Groups, CountMembers(s, g) \/ DeleteIndex(s, g) \/ Deactivate(s, g)
      PROVE  op'[s].pc \in {"count", "delete", "deactivate", "untracked"}
  <2>1. op[s].todo \in SUBSET Groups
    BY DEF OpType
  <2> QED
    BY <1>6, <2>1, PCs, SetOpLemma, ContinueLemma DEF CountMembers, DeleteIndex, Deactivate
<1> QED
  BY <1>1, <1>2, <1>3, <1>4, <1>5, <1>6, OwnSteps DEF UntrackStep, TrackPCs

\* A flush begins with the index of every session it promises to remove.
LEMMA FlushBegins ==
  ASSUME IndexInv, BeginFlush, NEW s \in flush'.before
  PROVE  Flushed(s)'
<1>1. s \in Sessions /\ Live(s) /\ s \notin exposed[TypeOf[s]]
  BY DEF BeginFlush
<1>2. TypeOf[s] \in Types /\ TypeOf[s] \in GroupsOf(s) /\ TypeOf[s] \in Groups
  BY <1>1, RegistryAssumption DEF GroupsOf, Groups
<1>3. TypeOf[s] \in active
  BY <1>1, <1>2 DEF IndexInv, Indexed, Live, Activated
<1>4. op'[s].pc \notin TrackPCs \cup {"new"}
  BY <1>1 DEF BeginFlush, Live, TrackPCs
<1> QED
  BY <1>2, <1>3, <1>4 DEF BeginFlush, Flushed

\* Its steps go through the indexes and the keys it has listed, and skip a
\* simulation at most.
LEMMA FlushGoesOn ==
  ASSUME TypeOK, FlushInv, FlushStep \/ FlushFail, NEW s \in flush'.before
  PROVE  Flushed(s)'
<1> USE DEF TypeOK, FlushType, IndexType
<1>1. s \in flush.before /\ s \in Sessions /\ Flushed(s)
  <2>1. flush'.before = flush.before \/ flush'.before = {}
    <3>1. FlushFail => flush'.before = flush.before \/ flush'.before = {}
      BY DEF FlushFail, NoFlush
    <3>2. FlushTypes \/ FlushSims \/ EndFlush => flush'.before = flush.before
      BY DEF FlushTypes, FlushSims, EndFlush
    <3>3. ASSUME NEW g \in Groups, FlushIndex(g) PROVE flush'.before = flush.before
      BY <3>3 DEF FlushIndex
    <3>4. ASSUME NEW t \in Sessions, FlushKey(t) PROVE flush'.before = flush.before
      BY <3>4 DEF FlushKey
    <3> QED
      BY <3>1, <3>2, <3>3, <3>4 DEF FlushStep
  <2> QED
    BY <2>1 DEF FlushInv
<1>2. op'[s].pc \notin TrackPCs \cup {"new"}
  BY <1>1 DEF FlushStep, FlushTypes, FlushSims, EndFlush, FlushIndex, FlushKey, FlushFail, Flushed
<1>3. CASE FlushTypes
  BY <1>1, <1>2, <1>3 DEF FlushTypes, Flushed, keyVars
<1>4. CASE FlushSims
  BY <1>1, <1>2, <1>4 DEF FlushSims, Flushed, keyVars
<1>5. CASE EndFlush
  BY <1>1, <1>2, <1>5 DEF EndFlush, Flushed, keyVars, indexVars
<1>6. ASSUME NEW g \in Groups, FlushIndex(g) PROVE Flushed(s)'
  <2>1. TypeOf[s] \in Groups
    BY <1>1, RegistryAssumption DEF Groups
  <2>2. members'[TypeOf[s]] = IF g = TypeOf[s] THEN {} ELSE members[TypeOf[s]]
    BY <1>6, <2>1 DEF FlushIndex
  <2>3. /\ flush'.pc = flush.pc /\ flush'.groups = flush.groups \ {g}
        /\ flush.pc \in {"types", "sims"}
    BY <1>6 DEF FlushIndex
  <2> QED
    BY <1>1, <1>2, <2>2, <2>3 DEF Flushed
<1>7. ASSUME NEW t \in Sessions, FlushKey(t) PROVE Flushed(s)'
  BY <1>1, <1>2, <1>7 DEF FlushKey, Flushed, indexVars
<1>8. CASE FlushFail
  BY <1>1, <1>2, <1>8 DEF FlushFail, Flushed, NoFlush, keyVars, indexVars
<1> QED
  BY <1>3, <1>4, <1>5, <1>6, <1>7, <1>8 DEF FlushStep

\* What runs beside it removes and never adds.
LEMMA FlushUndisturbed ==
  ASSUME TypeOK, FlushInv, [Next]_vars, UNCHANGED flush, NEW s \in flush'.before
  PROVE  Flushed(s)'
<1>1. s \in flush.before /\ s \in Sessions /\ Flushed(s)
  BY DEF FlushInv, TypeOK, FlushType
<1>2. op[s].pc \notin TrackPCs \cup {"new"} /\ TypeOf[s] \in Groups
  BY <1>1, RegistryAssumption DEF Flushed, Groups
<1> QED
  BY <1>1, <1>2, NeverTrackedAgain, OnlyTrackAdds DEF Flushed

\* A flush without an error leaves nothing of the sessions it found.
THEOREM FlushAlwaysForgets == Spec => []FlushForgets
<1>1. Init => FlushInv
  BY DEF Init, NoFlush, FlushInv
<1>2. IndexInv /\ FlushInv /\ [Next]_vars => FlushInv'
  <2> SUFFICES ASSUME IndexInv, FlushInv, [Next]_vars, NEW s \in flush'.before
               PROVE  Flushed(s)'
    BY DEF FlushInv
  <2>1. TypeOK
    BY DEF IndexInv
  <2>2. BeginFlush \/ FlushStep \/ FlushFail \/ UNCHANGED flush
    <3>1. ASSUME NEW t \in Sessions, SessionStep(t) PROVE UNCHANGED flush
      BY <3>1 DEF SessionStep, SetSessionKey, SetSimKey, AddMember, Activate, FindAgentType,
         FindSimulation, DelSessionKey, DelSimKey, RemoveMember, CountMembers, DeleteIndex,
         Deactivate
    <3>2. ASSUME NEW r \in Reapers, SweepStep(r) PROVE UNCHANGED flush
      BY <3>2 DEF SweepStep, BeginSweep, BeginSims, EndSweep, ListMembers, CheckKeys, Prune,
         CountSwept, SweepDrop
    <3>3. Other => FlushFail \/ UNCHANGED flush
      BY DEF Other, SessionFail, ExpireKey, SweepEnds, SweepSkips, ExpireSimSet, vars
    <3> QED
      BY <3>1, <3>2, <3>3, NextCases
  <2> QED
    BY <2>1, <2>2, FlushBegins, FlushGoesOn, FlushUndisturbed
<1>3. TypeOK /\ FlushInv => FlushForgets
  BY DEF FlushInv, Flushed, FlushForgets
<1> QED
  BY <1>1, <1>2, <1>3, TypeCorrect, IndexCorrect, PTL DEF Spec

=============================================================================
