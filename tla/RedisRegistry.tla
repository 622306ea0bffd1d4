--------------------------- MODULE RedisRegistry ---------------------------
(***************************************************************************)
(* The gateways' session registry in Redis,                                *)
(* src/internal/session/redis_registry.go.                                 *)
(*                                                                         *)
(* A session has a primary key with a TTL and is a member of one or two    *)
(* groups, its agent type and its simulation.  Every group has a reverse   *)
(* index, the set of its sessions, and an active index lists the groups    *)
(* that have one.  Handlers of several gateways, a reaper per gateway and  *)
(* a flush work on these keys at the same time.                            *)
(*                                                                         *)
(* A step is one Redis command: the pipelines are not transactions.  The   *)
(* EXISTS calls of one sweep of the reaper are one step, since the key of  *)
(* a listed session can only disappear.                                    *)
(***************************************************************************)
EXTENDS Naturals, FiniteSets

CONSTANTS
  Sessions,     \* session ids; every spawn uses a fresh UUID
  Types,        \* agent types
  Sims,         \* simulation ids
  TypeOf,       \* agent type of every session
  SimsOf,       \* its simulation as a set, empty when it has none
  Reapers,      \* gateways, each with its reaper
  MaxFlushes,   \* bound: flushes in a behaviour
  MaxFailures   \* bound: commands that fail in a behaviour

Groups == Types \cup Sims

ASSUME RegistryAssumption ==
  /\ Types \cap Sims = {}
  /\ TypeOf \in [Sessions -> Types]
  /\ SimsOf \in [Sessions -> SUBSET Sims]
  /\ \A s \in Sessions, m, n \in Sims : m \in SimsOf[s] /\ n \in SimsOf[s] => m = n
  /\ MaxFlushes \in Nat
  /\ MaxFailures \in Nat

VARIABLES
  sessionKey,  \* sessions whose {prefix}:session:{id} exists
  simKey,      \* sessions whose {prefix}:session:{id}:simulation exists
  members,     \* group -> agent-sessions:{type}, simulation:{id}:sessions
  active,      \* active-agents and active-simulations
  op,          \* session -> Track or Untrack in progress, groups still to do
  found,       \* session -> groups its Untrack has looked up
  reap,        \* reaper -> its sweep
  flush,       \* the flush in progress
  flushes,     \* number of flushes begun
  failures,    \* number of failed commands
  exposed      \* history: group -> sessions a removal or a flush ran into

keyVars == <<sessionKey, simKey>>
indexVars == <<members, active>>
bounds == <<flushes, failures>>
vars == <<keyVars, indexVars, op, found, reap, flush, bounds, exposed>>

GroupsOf(s) == {TypeOf[s]} \cup SimsOf[s]

\* The groups of a list of work that come next: agent types before simulations.
Front(S) == IF S \cap Types # {} THEN S \cap Types ELSE S

TrackPCs == {"add", "setSim", "activate"}
DropPCs == {"delete", "deactivate"}
UntrackPCs == {"findSim", "delKey", "delSim", "remove", "count"} \cup DropPCs

NoSweep == [pc |-> "idle", todo |-> {}, at |-> {}, ids |-> {}]
NoFlush == [pc |-> "idle", groups |-> {}, keys |-> {}, simKeys |-> {}, before |-> {}]

Init ==
  /\ sessionKey = {} /\ simKey = {}
  /\ members = [g \in Groups |-> {}]
  /\ active = {}
  /\ op = [s \in Sessions |-> [pc |-> "new", todo |-> {}]]
  /\ found = [s \in Sessions |-> {}]
  /\ reap = [r \in Reapers |-> NoSweep]
  /\ flush = NoFlush
  /\ flushes = 0 /\ failures = 0
  /\ exposed = [g \in Groups |-> {}]

----------------------------------------------------------------------------
(* TrackSession; BatchTrackSessions is one of these per session.           *)

\* Somebody has counted the group as empty and is about to drop its index.
Dropping(g) ==
  \/ \E s \in Sessions : op[s].pc \in DropPCs /\ g \in Front(op[s].todo)
  \/ \E r \in Reapers : reap[r].pc \in DropPCs /\ g \in reap[r].at

Flushing == flush.pc \notin {"idle", "done"}

SetOp(s, pc, todo) == op' = [op EXCEPT ![s] = [pc |-> pc, todo |-> todo]]

\* Mutant: the test for an empty simulation id is missing.
SetSessionKeyAnySim(s) ==
  /\ op[s].pc = "new"
  /\ sessionKey' = sessionKey \cup {s}
  /\ SetOp(s, "add", Groups)
  /\ exposed' = [g \in Groups |-> exposed[g] \cup IF Flushing THEN {s} ELSE {}]
  /\ UNCHANGED <<simKey, indexVars, found, reap, flush, bounds>>

SetSessionKey(s) ==
  /\ op[s].pc = "new"
  /\ sessionKey' = sessionKey \cup {s}
  /\ SetOp(s, "add", GroupsOf(s))
  /\ exposed' = [g \in Groups |->
                   exposed[g] \cup IF Flushing THEN {s} ELSE {}]
  /\ UNCHANGED <<simKey, indexVars, found, reap, flush, bounds>>

AddMember(s, g) ==
  /\ op[s].pc = "add" /\ g \in Front(op[s].todo)
  /\ members' = [members EXCEPT ![g] = @ \cup {s}]
  /\ exposed' = [exposed EXCEPT ![g] = @ \cup IF Dropping(g) THEN {s} ELSE {}]
  /\ SetOp(s, IF g \in Types THEN "activate" ELSE "setSim", op[s].todo)
  /\ UNCHANGED <<keyVars, active, found, reap, flush, bounds>>

SetSimKey(s) ==
  /\ op[s].pc = "setSim"
  /\ simKey' = simKey \cup {s}
  /\ SetOp(s, "activate", op[s].todo)
  /\ UNCHANGED <<sessionKey, indexVars, found, reap, flush, bounds, exposed>>

Activate(s, g) ==
  /\ op[s].pc = "activate" /\ g \in Front(op[s].todo)
  /\ active' = active \cup {g}
  /\ LET rest == op[s].todo \ {g}
     IN  SetOp(s, IF rest = {} THEN "tracked" ELSE "add", rest)
  /\ UNCHANGED <<keyVars, members, found, reap, flush, bounds, exposed>>

----------------------------------------------------------------------------
(* UntrackSession, called by the handler that tracked the session.         *)

FindAgentType(s) ==
  /\ op[s].pc = "tracked"
  /\ found' = [found EXCEPT ![s] = IF s \in sessionKey THEN {TypeOf[s]} ELSE {}]
  /\ SetOp(s, "findSim", {})
  /\ UNCHANGED <<keyVars, indexVars, reap, flush, bounds, exposed>>

\* The error of this lookup is ignored: the simulation is then not found.
FindSimulation(s) ==
  /\ op[s].pc = "findSim"
  /\ \/ /\ found' = [found EXCEPT ![s] = @ \cup IF s \in simKey THEN SimsOf[s] ELSE {}]
        /\ UNCHANGED failures
     \/ /\ failures < MaxFailures /\ failures' = failures + 1
        /\ UNCHANGED found
  /\ SetOp(s, "delKey", {})
  /\ UNCHANGED <<keyVars, indexVars, reap, flush, flushes, exposed>>

\* The next command of Untrack on its groups, or the end.
Continue(s, pc, todo) ==
  IF todo # {} THEN SetOp(s, pc, todo) ELSE SetOp(s, "untracked", {})

DelSessionKey(s) ==
  /\ op[s].pc = "delKey"
  /\ sessionKey' = sessionKey \ {s}
  /\ SetOp(s, "delSim", {})
  /\ UNCHANGED <<simKey, indexVars, found, reap, flush, bounds, exposed>>

DelSimKey(s) ==
  /\ op[s].pc = "delSim"
  /\ simKey' = simKey \ {s}
  /\ Continue(s, "remove", found[s])
  /\ UNCHANGED <<sessionKey, indexVars, found, reap, flush, bounds, exposed>>

\* Mutant: Untrack leaves the session in its simulation's set.
RemoveTypeMember(s, g) ==
  /\ op[s].pc = "remove" /\ g \in Front(op[s].todo)
  /\ members' = [members EXCEPT ![g] = IF g \in Types THEN @ \ {s} ELSE @]
  /\ SetOp(s, "count", found[s])
  /\ UNCHANGED <<keyVars, active, found, reap, flush, bounds, exposed>>

RemoveMember(s, g) ==
  /\ op[s].pc = "remove" /\ g \in Front(op[s].todo)
  /\ members' = [members EXCEPT ![g] = @ \ {s}]
  /\ LET rest == op[s].todo \ {g}
     IN  IF rest = {} THEN SetOp(s, "count", found[s]) ELSE SetOp(s, "remove", rest)
  /\ UNCHANGED <<keyVars, active, found, reap, flush, bounds, exposed>>

\* SCARD: an empty agent type leaves the active index, an empty simulation
\* also loses its (possibly no longer empty) set.
CountMembers(s, g) ==
  /\ op[s].pc = "count" /\ g \in Front(op[s].todo)
  /\ IF members[g] # {}            THEN Continue(s, "count", op[s].todo \ {g})
     ELSE IF g \in Types           THEN SetOp(s, "deactivate", op[s].todo)
                                   ELSE SetOp(s, "delete", op[s].todo)
  /\ UNCHANGED <<keyVars, indexVars, found, reap, flush, bounds, exposed>>

DeleteIndex(s, g) ==
  /\ op[s].pc = "delete" /\ g \in Front(op[s].todo)
  /\ members' = [members EXCEPT ![g] = {}]
  /\ SetOp(s, "deactivate", op[s].todo)
  /\ UNCHANGED <<keyVars, active, found, reap, flush, bounds, exposed>>

Deactivate(s, g) ==
  /\ op[s].pc = "deactivate" /\ g \in Front(op[s].todo)
  /\ active' = active \ {g}
  /\ Continue(s, "count", op[s].todo \ {g})
  /\ UNCHANGED <<keyVars, members, found, reap, flush, bounds, exposed>>

\* A command of Track or Untrack fails: the call returns the error, the
\* commands before it stay applied.
SessionFail(s) ==
  /\ op[s].pc \in TrackPCs \cup UntrackPCs
  /\ failures < MaxFailures /\ failures' = failures + 1
  /\ SetOp(s, "failed", {})
  /\ UNCHANGED <<keyVars, indexVars, found, reap, flush, flushes, exposed>>

SessionStep(s) ==
  \/ SetSessionKey(s) \/ SetSimKey(s)
  \/ FindAgentType(s) \/ FindSimulation(s) \/ DelSessionKey(s) \/ DelSimKey(s)
  \/ \E g \in Groups :
       \/ AddMember(s, g) \/ Activate(s, g)
       \/ RemoveMember(s, g) \/ CountMembers(s, g) \/ DeleteIndex(s, g) \/ Deactivate(s, g)

----------------------------------------------------------------------------
(* Reap: one sweep of a gateway's reaper.                                  *)

SetReap(r, pc, ids) == reap' = [reap EXCEPT ![r].pc = pc, ![r].ids = ids]

\* The sweep goes on with the next group.
NextGroup(r, g) ==
  reap' = [reap EXCEPT ![r] = [pc |-> IF g \in Types THEN "types" ELSE "sims",
                               todo |-> @.todo \ {g}, at |-> {}, ids |-> {}]]

\* SMEMBERS active-agents.
BeginSweep(r) ==
  /\ reap[r].pc = "idle"
  /\ reap' = [reap EXCEPT ![r].pc = "types", ![r].todo = active \cap Types]
  /\ UNCHANGED <<keyVars, indexVars, op, found, flush, bounds, exposed>>

\* SCAN: the simulations whose set exists.
BeginSims(r) ==
  /\ reap[r].pc = "types" /\ reap[r].todo = {}
  /\ reap' = [reap EXCEPT ![r].pc = "sims",
                          ![r].todo = {m \in Sims : members[m] # {}}]
  /\ UNCHANGED <<keyVars, indexVars, op, found, flush, bounds, exposed>>

EndSweep(r) ==
  /\ reap[r].pc = "sims" /\ reap[r].todo = {}
  /\ reap' = [reap EXCEPT ![r] = NoSweep]
  /\ UNCHANGED <<keyVars, indexVars, op, found, flush, bounds, exposed>>

\* SMEMBERS of a group; an agent type without sessions is skipped.
ListMembers(r, g) ==
  /\ reap[r].pc \in {"types", "sims"} /\ g \in reap[r].todo
  /\ IF g \in Types /\ members[g] = {}
       THEN NextGroup(r, g)
       ELSE reap' = [reap EXCEPT ![r].pc = "exists", ![r].at = {g}, ![r].ids = members[g]]
  /\ UNCHANGED <<keyVars, indexVars, op, found, flush, bounds, exposed>>

\* Mutant: the sweep takes a listed session for stale without asking.
CheckKeysOfNone(r, g) ==
  /\ reap[r].pc = "exists" /\ g \in reap[r].at
  /\ SetReap(r, "prune", reap[r].ids)
  /\ UNCHANGED <<keyVars, indexVars, op, found, flush, bounds, exposed>>

\* EXISTS of every listed session; a simulation's stale sessions lose their
\* simulation key.
CheckKeys(r, g) ==
  /\ reap[r].pc = "exists" /\ g \in reap[r].at
  /\ LET stale == reap[r].ids \ sessionKey
     IN  /\ SetReap(r, "prune", stale)
         /\ simKey' = IF g \in Sims THEN simKey \ stale ELSE simKey
  /\ UNCHANGED <<sessionKey, indexVars, op, found, flush, bounds, exposed>>

\* Mutant: the simulation sweep forgets its SREM.
PruneTypes(r, g) ==
  /\ reap[r].pc = "prune" /\ g \in reap[r].at
  /\ members' = [members EXCEPT ![g] = IF g \in Types THEN @ \ reap[r].ids ELSE @]
  /\ SetReap(r, "count", {})
  /\ UNCHANGED <<keyVars, active, op, found, flush, bounds, exposed>>

Prune(r, g) ==
  /\ reap[r].pc = "prune" /\ g \in reap[r].at
  /\ members' = [members EXCEPT ![g] = @ \ reap[r].ids]
  /\ SetReap(r, "count", {})
  /\ UNCHANGED <<keyVars, active, op, found, flush, bounds, exposed>>

\* SCARD: a type leaves the active index before its set is deleted, a
\* simulation after.
CountSwept(r, g) ==
  /\ reap[r].pc = "count" /\ g \in reap[r].at
  /\ IF members[g] # {} THEN NextGroup(r, g)
     ELSE SetReap(r, IF g \in Types THEN "deactivate" ELSE "delete", {})
  /\ UNCHANGED <<keyVars, indexVars, op, found, flush, bounds, exposed>>

\* What follows a DEL or SREM of the sweep.
AfterDrop(r, g) ==
  IF (reap[r].pc = "deactivate") = (g \in Types)
    THEN SetReap(r, IF g \in Types THEN "delete" ELSE "deactivate", {})
    ELSE NextGroup(r, g)

SweepDrop(r, g) ==
  /\ reap[r].pc \in DropPCs /\ g \in reap[r].at
  /\ IF reap[r].pc = "delete"
       THEN members' = [members EXCEPT ![g] = {}] /\ UNCHANGED active
       ELSE active' = active \ {g} /\ UNCHANGED members
  /\ AfterDrop(r, g)
  /\ UNCHANGED <<keyVars, op, found, flush, bounds, exposed>>

\* An error the sweep logs or ignores: the command is skipped.  An EXISTS
\* that fails leaves its session out of the stale ones.
SweepSkips(r, g) ==
  /\ g \in reap[r].at
  /\ failures < MaxFailures /\ failures' = failures + 1
  /\ \/ reap[r].pc \in DropPCs /\ AfterDrop(r, g)
     \/ g \in Sims /\ reap[r].pc = "count" /\ NextGroup(r, g)
     \/ g \in Sims /\ reap[r].pc = "prune" /\ SetReap(r, "count", {})
     \/ g \in Sims /\ reap[r].pc = "exists" /\ SetReap(r, "prune", {})
  /\ UNCHANGED <<keyVars, indexVars, op, found, flush, flushes, exposed>>

\* An error of the agent sweep ends Reap, as does the end of the gateway.
SweepEnds(r) ==
  /\ reap[r].pc # "idle"
  /\ failures < MaxFailures /\ failures' = failures + 1
  /\ reap' = [reap EXCEPT ![r] = NoSweep]
  /\ UNCHANGED <<keyVars, indexVars, op, found, flush, flushes, exposed>>

SweepStep(r) ==
  \/ BeginSweep(r) \/ BeginSims(r) \/ EndSweep(r)
  \/ \E g \in Groups :
       ListMembers(r, g) \/ CheckKeys(r, g) \/ Prune(r, g) \/ CountSwept(r, g) \/ SweepDrop(r, g)

----------------------------------------------------------------------------
(* Flush: the sessions target of an environment reset.                     *)

Live(s) == op[s].pc = "tracked" /\ s \in sessionKey

\* SMEMBERS active-agents.
BeginFlush ==
  /\ ~Flushing /\ flushes < MaxFlushes
  /\ flushes' = flushes + 1
  /\ flush' = [pc |-> "types", groups |-> active \cap Types, keys |-> {}, simKeys |-> {},
               before |-> {s \in Sessions : Live(s) /\ s \notin exposed[TypeOf[s]]}]
  /\ exposed' = [g \in Groups |-> exposed[g] \cup {s \in Sessions : op[s].pc # "new"}]
  /\ UNCHANGED <<keyVars, indexVars, op, found, reap, failures>>

\* One DEL of the agent-sessions pipeline or of the simulations' scan.
FlushIndex(g) ==
  /\ flush.pc \in {"types", "sims"} /\ g \in flush.groups
  /\ members' = [members EXCEPT ![g] = {}]
  /\ flush' = [flush EXCEPT !.groups = @ \ {g}]
  /\ UNCHANGED <<keyVars, active, op, found, reap, bounds, exposed>>

\* DEL active-agents, then SCAN the simulation sets.
FlushTypes ==
  /\ flush.pc = "types" /\ flush.groups = {}
  /\ active' = active \ Types
  /\ flush' = [flush EXCEPT !.pc = "sims", !.groups = {m \in Sims : members[m] # {}}]
  /\ UNCHANGED <<keyVars, members, op, found, reap, bounds, exposed>>

\* Mutant: the scan for session keys skips the simulation sub-keys, as
\* ListSessions does.
FlushSimsSkipsSubKeys ==
  /\ flush.pc = "sims" /\ flush.groups = {}
  /\ active' = active \ Sims
  /\ flush' = [flush EXCEPT !.pc = "keys", !.keys = sessionKey]
  /\ UNCHANGED <<keyVars, members, op, found, reap, bounds, exposed>>

\* DEL active-simulations, then SCAN the session keys.
FlushSims ==
  /\ flush.pc = "sims" /\ flush.groups = {}
  /\ active' = active \ Sims
  /\ flush' = [flush EXCEPT !.pc = "keys", !.keys = sessionKey, !.simKeys = simKey]
  /\ UNCHANGED <<keyVars, members, op, found, reap, bounds, exposed>>

FlushKey(s) ==
  /\ flush.pc = "keys"
  /\ \/ /\ s \in flush.keys
        /\ sessionKey' = sessionKey \ {s}
        /\ flush' = [flush EXCEPT !.keys = @ \ {s}]
        /\ UNCHANGED simKey
     \/ /\ s \in flush.simKeys
        /\ simKey' = simKey \ {s}
        /\ flush' = [flush EXCEPT !.simKeys = @ \ {s}]
        /\ UNCHANGED sessionKey
  /\ UNCHANGED <<indexVars, op, found, reap, bounds, exposed>>

EndFlush ==
  /\ flush.pc = "keys" /\ flush.keys = {} /\ flush.simKeys = {}
  /\ flush' = [flush EXCEPT !.pc = "done"]
  /\ UNCHANGED <<keyVars, indexVars, op, found, reap, bounds, exposed>>

\* A DEL of a simulation set that fails is ignored, any other error ends Flush.
FlushFail ==
  /\ Flushing
  /\ failures < MaxFailures /\ failures' = failures + 1
  /\ \/ flush' = NoFlush
     \/ /\ flush.pc = "sims"
        /\ \E g \in flush.groups : flush' = [flush EXCEPT !.groups = @ \ {g}]
  /\ UNCHANGED <<keyVars, indexVars, op, found, reap, flushes, exposed>>

FlushStep ==
  \/ FlushTypes \/ FlushSims \/ EndFlush
  \/ \E g \in Groups : FlushIndex(g)
  \/ \E s \in Sessions : FlushKey(s)

----------------------------------------------------------------------------
(* Redis expires keys.  A key outlives the pipeline that sets it, and a    *)
(* simulation's set, with twice the TTL, outlives its sessions' keys.      *)

ExpireKey(s) ==
  /\ op[s].pc \notin TrackPCs
  /\ \/ s \in sessionKey /\ sessionKey' = sessionKey \ {s} /\ UNCHANGED simKey
     \/ s \in simKey /\ simKey' = simKey \ {s} /\ UNCHANGED sessionKey
  /\ UNCHANGED <<indexVars, op, found, reap, flush, bounds, exposed>>

ExpireSimSet(m) ==
  /\ members[m] # {} /\ members[m] \cap sessionKey = {}
  /\ \A s \in Sessions : m \in SimsOf[s] => op[s].pc \notin TrackPCs
  /\ members' = [members EXCEPT ![m] = {}]
  /\ UNCHANGED <<keyVars, active, op, found, reap, flush, bounds, exposed>>

Next ==
  \/ \E s \in Sessions : SessionStep(s) \/ SessionFail(s) \/ ExpireKey(s)
  \/ \E r \in Reapers :
       SweepStep(r) \/ SweepEnds(r) \/ (\E g \in Groups : SweepSkips(r, g))
  \/ BeginFlush \/ FlushStep \/ FlushFail
  \/ \E m \in Sims : ExpireSimSet(m)

Spec == Init /\ [][Next]_vars

\* A sweep begins every REAP_INTERVAL, and the commands of a sweep and of a
\* call in progress are executed.
FairSpec ==
  /\ Spec
  /\ \A r \in Reapers : WF_vars(SweepStep(r))
  /\ \A s \in Sessions :
       WF_vars(op[s].pc \in TrackPCs \cup UntrackPCs /\ SessionStep(s))

----------------------------------------------------------------------------
(* Properties.                                                             *)

OpPCs == {"new", "tracked", "untracked", "failed"} \cup TrackPCs \cup UntrackPCs
ReapPCs == {"idle", "types", "sims", "exists", "prune", "count"} \cup DropPCs
FlushPCs == {"idle", "types", "sims", "keys", "done"}

IndexType ==
  /\ sessionKey \subseteq Sessions /\ simKey \subseteq Sessions
  /\ members \in [Groups -> SUBSET Sessions]
  /\ active \subseteq Groups
  /\ exposed \in [Groups -> SUBSET Sessions]

OpType ==
  /\ op \in [Sessions -> [pc : OpPCs, todo : SUBSET Groups]]
  /\ found \in [Sessions -> SUBSET Groups]

ReapType == reap \in [Reapers -> [pc : ReapPCs, todo : SUBSET Groups, at : SUBSET Groups,
                                  ids : SUBSET Sessions]]

FlushType == flush \in [pc : FlushPCs, groups : SUBSET Groups, keys : SUBSET Sessions,
                        simKeys : SUBSET Sessions, before : SUBSET Sessions]

BoundType == flushes \in 0 .. MaxFlushes /\ failures \in 0 .. MaxFailures

OwnGroups ==
  /\ \A s \in Sessions : op[s].todo \subseteq GroupsOf(s) /\ found[s] \subseteq GroupsOf(s)
  /\ \A g \in Groups, s \in Sessions : s \in members[g] => g \in GroupsOf(s)

\* The types of the variables, and that a session is only ever indexed under
\* the groups it was spawned for.
TypeOK == IndexType /\ OpType /\ ReapType /\ FlushType /\ BoundType /\ OwnGroups

\* A tracked session with its key is in the reverse indexes and its groups are
\* active, however many Untracks, sweeps and failures there were, unless it
\* was added while somebody was between the SCARD and the drop of that index,
\* or a flush ran: that window is the only way to lose a live session.
LiveIndexed ==
  \A s \in Sessions : Live(s) =>
    \A g \in GroupsOf(s) : s \notin exposed[g] => s \in members[g] /\ g \in active

\* An Untrack that returns no error has removed the session's keys and its
\* entries in every group its lookups found, whatever sweeps ran meanwhile.
UntrackForgets ==
  \A s \in Sessions : op[s].pc = "untracked" =>
    /\ s \notin sessionKey \cup simKey
    /\ \A g \in found[s] : s \notin members[g]

\* A flush that returns no error leaves neither key of a session that was
\* completely tracked when it began, nor its entry under its agent type.
FlushForgets ==
  flush.pc = "done" =>
    \A s \in flush.before : s \notin sessionKey \cup simKey \cup members[TypeOf[s]]

\* The entry of a session whose key is gone is pruned in the end, as long as
\* the sweep can find its group: an agent type in the active index, or any
\* simulation whose set exists.
StaleEntriesPruned ==
  \A s \in Sessions, g \in Groups :
    (/\ s \in members[g] /\ s \notin sessionKey /\ op[s].pc \notin TrackPCs
     /\ g \in active \cup Sims)
      ~> (s \notin members[g] \/ g \notin active \cup Sims)
=============================================================================
