------------------------------ MODULE Planner ------------------------------
(***************************************************************************)
(* The planner's session and what its tools do with it.  The model answers *)
(* with a response of one or more tool calls, which run concurrently over  *)
(* one session state; the next response follows when all have returned.    *)
(* A submission goes to the simulator's executor, over a connection that   *)
(* retries; routes, results and their evaluations go to a database.        *)
(***************************************************************************)
EXTENDS Evaluation

CONSTANTS
  Responses,    \* sequences of calls [tool, action] that the model may answer with
  MaxResponses, \* bound: responses to one message
  MaxMessages,  \* bound: messages of the user, each an invocation
  MaxFaults,    \* bound: lost requests and replies, errors of Redis
  Resends,      \* of call_agent
  Plans,        \* texts of plans to evaluate
  Judgements,   \* scores the judging model may give, criterion -> 0..5
  NoValue

\* The model names a tool and an action in each of its calls; a plan states the
\* distances that its text matches, in their order.
ASSUME PlannerAssumption ==
  /\ \A r \in Responses : r \in Seq([tool : STRING, action : STRING])
  /\ \A p \in Plans : p.miles \in Seq(Nat)

VARIABLES
  invocation, answered, \* current invocation, responses to it so far
  session,    \* tool_context.state
  calls,      \* the calls of the current response
  ids,        \* session ids generated so far
  routes,     \* routes planned so far
  db,         \* planned_routes: sequence of [route, evaluation]
  records,    \* simulation_records: set of [id, result]
  summaries,  \* simulation_summaries: set of [id, result]
  simdata,    \* Redis hashes simdata:{id}, by session id
  locked,     \* Redis keys sim:exec_lock, by session id
  races,      \* history: executions at the simulator
  faults

plannerVars == <<invocation, answered, session, calls, ids, routes, db, records, summaries,
          simdata, locked, races, faults>>

remote == <<simdata, locked, races>>
store == <<db, records, summaries>>
chat == <<invocation, answered>>

NoSession == [route |-> 0, assessed |-> 0, evaluation |-> NoValue, evaluated |-> 0, token |-> 0,
              sid |-> 0, announced |-> 0, executed |-> 0, result |-> NoValue, active |-> 0]

PlannerInit ==
  /\ invocation = 1 /\ answered = 0 /\ session = NoSession /\ calls = <<>>
  /\ ids = 0 /\ routes = 0 /\ db = <<>> /\ records = {} /\ summaries = {}
  /\ simdata = <<>> /\ locked = {} /\ races = <<>> /\ faults = 0

Idle == \A c \in DOMAIN calls : calls[c].pc = "done"

\* A response dispatches its calls.
Respond ==
  /\ Idle /\ answered < MaxResponses
  /\ \E r \in Responses :
       calls' = [c \in DOMAIN r |-> [tool |-> r[c].tool, action |-> r[c].action, pc |-> "ready",
                                     route |-> 0, sid |-> 0, race |-> 0, tries |-> 0,
                                     carries |-> FALSE]]
  /\ answered' = answered + 1
  /\ UNCHANGED <<invocation, session, ids, routes, store, remote, faults>>

\* The user's next message is a new invocation.
Message ==
  /\ Idle /\ answered > 0 /\ invocation < MaxMessages
  /\ invocation' = invocation + 1 /\ answered' = 0 /\ calls' = <<>>
  /\ UNCHANGED <<session, ids, routes, store, remote, faults>>

At(c, tool, pc) == calls[c].tool = tool /\ calls[c].pc = pc
Goes(c, pc) == calls' = [calls EXCEPT ![c].pc = pc]
Done(c) == Goes(c, "done")
Keeps(c, pc, route) == calls' = [calls EXCEPT ![c].pc = pc, ![c].route = route]

Fault == faults < MaxFaults /\ faults' = faults + 1

-----------------------------------------------------------------------------
(* Planning, evaluation, memory.                                           *)

\* A new route if there is none or it is forced, unless planning fails.
PlanRoute(c) ==
  /\ At(c, "plan", "ready") /\ Done(c)
  /\ \/ /\ session.route = 0 \/ calls[c].action = "force"
        /\ routes' = routes + 1 /\ session' = [session EXCEPT !.route = routes']
     \/ UNCHANGED <<routes, session>>
  /\ UNCHANGED <<chat, ids, store, remote, faults>>

\* The route is read first, the assessment or evaluation of it comes later.
ReadRoute(c) ==
  /\ At(c, "assess", "ready") \/ At(c, "evaluate", "ready")
  /\ IF session.route = 0 /\ calls[c].tool = "assess" THEN Done(c)
     ELSE Keeps(c, "asking", session.route)
  /\ UNCHANGED <<chat, session, ids, routes, store, remote, faults>>

AssessRoute(c) ==
  /\ At(c, "assess", "asking") /\ Done(c)
  /\ session' = [session EXCEPT !.assessed = calls[c].route]
  /\ UNCHANGED <<chat, ids, routes, store, remote, faults>>

Evaluate(c) ==
  /\ At(c, "evaluate", "asking") /\ Done(c)
  /\ \E p \in Plans : \E e \in Evaluations(p, Judgements) :
       session' = [session EXCEPT !.evaluation = e, !.evaluated = calls[c].route]
  /\ UNCHANGED <<chat, ids, routes, store, remote, faults>>

\* The three operations of the database.
Inserted(route, evaluation, evaluated) ==
  db' = Append(db, [route |-> route, evaluation |-> evaluation, evaluated |-> evaluated])
Existing == DOMAIN db
Recorded(id) == records' = records \cup {[id |-> id, result |-> session.result]}

\* The route is stored with whatever evaluation the session has.
StoreRoute(c) ==
  /\ At(c, "store", "ready") /\ Done(c)
  /\ IF session.route = 0 THEN UNCHANGED <<session, db>>
     ELSE /\ Inserted(session.route, session.evaluation, session.evaluated)
          /\ session' = [session EXCEPT !.active = Len(db')]
  /\ UNCHANGED <<chat, ids, routes, records, summaries, remote, faults>>

\* A stored route becomes the active one; its evaluation comes with it if it
\* has one, else the session keeps the one it has.
ActivateRoute(c) ==
  /\ At(c, "activate", "ready") /\ Done(c)
  /\ \/ Existing = {} /\ UNCHANGED session
     \/ \E id \in Existing :
          session' = [session EXCEPT
            !.route = db[id].route, !.active = id,
            !.evaluation = IF db[id].evaluation = NoValue THEN @ ELSE db[id].evaluation,
            !.evaluated = IF db[id].evaluation = NoValue THEN @ ELSE db[id].evaluated]
  /\ UNCHANGED <<chat, ids, routes, store, remote, faults>>

\* For later searches; it goes without if the embedding or the database fails.
Summarised(id) ==
  \/ summaries' = summaries \cup {[id |-> id, result |-> session.result]}
  \/ UNCHANGED summaries

\* The session's result is recorded for a route that exists, with a summary;
\* the route is the one the model names.
RecordSimulation(c) ==
  /\ At(c, "record", "ready") /\ Done(c)
  /\ \/ (session.result = NoValue \/ Existing = {}) /\ UNCHANGED <<records, summaries>>
     \/ session.result # NoValue /\ \E id \in Existing : Recorded(id) /\ Summarised(id)
  /\ UNCHANGED <<chat, session, ids, routes, db, remote, faults>>

\* A summary need not have a result, nor a route, nor one that exists.
StoreSummary(c) ==
  /\ At(c, "summarise", "ready") /\ Done(c)
  /\ Summarised(0)
  /\ UNCHANGED <<chat, session, ids, routes, db, records, remote, faults>>

-----------------------------------------------------------------------------
(* Simulations.                                                            *)

ExecutedHere == session.executed = invocation

Fresh(s, id) == [s EXCEPT !.token = id, !.sid = id, !.announced = id]

\* The id, its token and the announced id are written without a pause.
StartSimulation(c) ==
  /\ At(c, "start", "ready") /\ Done(c)
  /\ IF session.route = 0 \/ ExecutedHere THEN UNCHANGED <<session, ids>>
     ELSE ids' = ids + 1 /\ session' = Fresh(session, ids')
  /\ UNCHANGED <<chat, routes, store, remote, faults>>

Ready == session.sid # 0 /\ session.sid = session.token

\* Mutant: the guard against a second execution is missing.
EnterUnguarded(c) ==
  /\ At(c, "submit", "ready")
  /\ IF session.route = 0 THEN Done(c) ELSE Keeps(c, "polling", session.route)
  /\ UNCHANGED <<chat, session, ids, routes, store, remote, faults>>

\* submit_plan_to_simulator: the guards, then it waits for an id.
Enter(c) ==
  /\ At(c, "submit", "ready")
  /\ IF session.route = 0 \/ (calls[c].action = "execute" /\ ExecutedHere)
       THEN Done(c) ELSE Keeps(c, "polling", session.route)
  /\ UNCHANGED <<chat, session, ids, routes, store, remote, faults>>

\* The id is announced by an execution only.
Announce(s, c, id) ==
  IF calls[c].action = "execute" /\ s.announced = 0 THEN [s EXCEPT !.announced = id] ELSE s

Take(c, id) == calls' = [calls EXCEPT ![c].pc = "storing", ![c].sid = id]

\* An id that agrees with its token is taken.
PollHit(c) ==
  /\ At(c, "submit", "polling") /\ Ready
  /\ Take(c, session.sid) /\ session' = Announce(session, c, session.sid)
  /\ UNCHANGED <<chat, ids, routes, store, remote, faults>>

\* After two seconds any id will do; without one an execution starts the
\* simulation itself, and a verification makes an id that is not announced.
PollTimeout(c) ==
  /\ At(c, "submit", "polling") /\ ~Ready
  /\ CASE session.sid # 0 ->
            /\ Take(c, session.sid) /\ session' = Announce(session, c, session.sid)
            /\ UNCHANGED ids
       [] session.sid = 0 /\ calls[c].action = "execute" ->
            IF session.route = 0 \/ ExecutedHere THEN Done(c) /\ UNCHANGED <<session, ids>>
            ELSE ids' = ids + 1 /\ session' = Fresh(session, ids') /\ Take(c, ids')
       [] OTHER ->
            ids' = ids + 1 /\ session' = [session EXCEPT !.sid = ids'] /\ Take(c, ids')
  /\ UNCHANGED <<chat, routes, store, remote, faults>>

Stored(id) == IF id \in DOMAIN simdata THEN simdata[id] ELSE 0
WithData(id, r) == [i \in DOMAIN simdata \cup {id} |-> IF i = id THEN r ELSE simdata[i]]

Send(c, carries) == calls' = [calls EXCEPT ![c].pc = "sending", ![c].carries = carries]

\* Mutant: data that is there already is not stored again.
StoreDataOnce(c) ==
  /\ At(c, "submit", "storing")
  /\ \/ /\ UNCHANGED faults /\ Send(c, FALSE)
        /\ simdata' = IF Stored(calls[c].sid) # 0 THEN simdata
                      ELSE WithData(calls[c].sid, calls[c].route)
     \/ Fault /\ UNCHANGED simdata /\ Send(c, TRUE)
  /\ UNCHANGED <<chat, session, ids, routes, store, locked, races>>

\* The route goes to Redis, or with the message if that fails.
StoreData(c) ==
  /\ At(c, "submit", "storing")
  /\ \/ UNCHANGED faults /\ simdata' = WithData(calls[c].sid, calls[c].route) /\ Send(c, FALSE)
     \/ Fault /\ UNCHANGED simdata /\ Send(c, TRUE)
  /\ UNCHANGED <<chat, session, ids, routes, store, locked, races>>

\* The executor takes the lock of the session, or does not run the request;
\* an error of Redis lets it run.  The simulator prefers the stored route to
\* the one in the message, which is there if storing it failed.
Race(c, unguarded, blind) ==
  [sid |-> calls[c].sid, action |-> calls[c].action, invocation |-> invocation,
   response |-> answered, over |-> FALSE, unguarded |-> unguarded,
   reliable |-> ~blind /\ ~calls[c].carries,
   sent |-> {calls[d].route : d \in {e \in DOMAIN calls : calls[e].sid = calls[c].sid}},
   route |-> IF Stored(calls[c].sid) # 0 /\ ~blind THEN Stored(calls[c].sid)
             ELSE IF calls[c].carries THEN calls[c].route ELSE 0]

Run(c, unguarded, blind) ==
  /\ races' = Append(races, Race(c, unguarded, blind))
  /\ calls' = [calls EXCEPT ![c].pc = "waiting", ![c].race = Len(races')]

\* Mutant: the lock is looked at and not kept.
ArriveUnlocked(c) ==
  /\ At(c, "submit", "sending")
  /\ \/ /\ calls[c].sid \notin locked /\ UNCHANGED <<locked, faults>> /\ Run(c, FALSE, FALSE)
     \/ /\ calls[c].sid \in locked /\ Goes(c, "replying") /\ UNCHANGED <<locked, races, faults>>
     \/ /\ Fault /\ UNCHANGED locked
        /\ Run(c, TRUE, FALSE) \/ (calls[c].sid \notin locked /\ Run(c, FALSE, TRUE))
  /\ UNCHANGED <<chat, session, ids, routes, store, simdata>>

Arrive(c) ==
  /\ At(c, "submit", "sending")
  /\ \/ /\ calls[c].sid \notin locked /\ locked' = locked \cup {calls[c].sid}
        /\ UNCHANGED faults /\ Run(c, FALSE, FALSE)
     \/ /\ calls[c].sid \in locked /\ Goes(c, "replying")
        /\ UNCHANGED <<locked, races, faults>>
     \/ /\ Fault
        /\ \/ Run(c, TRUE, FALSE) /\ UNCHANGED locked
           \/ /\ calls[c].sid \notin locked /\ locked' = locked \cup {calls[c].sid}
              /\ Run(c, FALSE, TRUE)
  /\ UNCHANGED <<chat, session, ids, routes, store, simdata>>

\* A call that failed is made again, a few times, unless the error says that
\* this is of no use.
Retried(call) ==
  {[call EXCEPT !.pc = "failed", !.race = 0]} \cup
  IF call.tries = Resends THEN {}
  ELSE {[call EXCEPT !.pc = "sending", !.tries = @ + 1, !.race = 0]}

\* A request is lost or refused, or its reply is late.  A race goes on without
\* the one who waits for it.
Lose(c) ==
  /\ At(c, "submit", "sending") \/ At(c, "submit", "waiting") \/ At(c, "submit", "replying")
  /\ Fault
  /\ \E call \in Retried(calls[c]) : calls' = [calls EXCEPT ![c] = call]
  /\ UNCHANGED <<chat, session, ids, routes, store, remote>>

\* A race ends, and with it an answer, which may say that it failed.
EndRace(k) ==
  /\ ~races[k].over
  /\ races' = [races EXCEPT ![k].over = TRUE]
  /\ calls' = [c \in DOMAIN calls |->
                 IF calls[c].pc = "waiting" /\ calls[c].race = k
                   THEN [calls[c] EXCEPT !.pc = "replying"] ELSE calls[c]]
  /\ UNCHANGED <<chat, session, ids, routes, store, simdata, locked, faults>>

\* The lock expires; it outlasts any race.
Expire(id) ==
  /\ id \in locked /\ \A k \in DOMAIN races : races[k].sid = id => races[k].over
  /\ locked' = locked \ {id}
  /\ UNCHANGED <<chat, session, calls, ids, routes, store, simdata, races, faults>>

\* What the tool call_agent returns: an error is a result as well.
Answer(call) == [ok |-> call.pc = "replying", race |-> call.race]

\* Any result is stored, that of a failed call too, and counts as executed.
Finish(c) ==
  /\ At(c, "submit", "replying") \/ At(c, "submit", "failed")
  /\ Done(c)
  /\ session' = [session EXCEPT !.result = Answer(calls[c]),
                   !.executed = IF calls[c].action = "execute" THEN invocation ELSE @]
  /\ UNCHANGED <<chat, ids, routes, store, remote, faults>>

PlannerNext ==
  \/ Respond \/ Message
  \/ \E c \in DOMAIN calls :
       \/ PlanRoute(c) \/ ReadRoute(c) \/ AssessRoute(c) \/ Evaluate(c)
       \/ StoreRoute(c) \/ ActivateRoute(c) \/ RecordSimulation(c) \/ StoreSummary(c)
       \/ StartSimulation(c) \/ Enter(c) \/ PollHit(c) \/ PollTimeout(c)
       \/ StoreData(c) \/ Arrive(c) \/ Lose(c) \/ Finish(c)
  \/ \E k \in DOMAIN races : EndRace(k)
  \/ \E id \in locked : Expire(id)

PlannerSpec == PlannerInit /\ [][PlannerNext]_plannerVars

-----------------------------------------------------------------------------
Executions == {k \in DOMAIN races : races[k].action = "execute"}

\* However requests are repeated, retried or lost, the simulator never runs two
\* races of a session at a time, unless Redis failed when the lock was taken.
OneRaceAtATime ==
  \A j, k \in DOMAIN races :
    races[j].sid = races[k].sid /\ ~races[j].over /\ ~races[k].over
      /\ ~races[j].unguarded /\ ~races[k].unguarded => j = k

\* One message of the user leads to races from one response only: once an
\* execution has returned, whatever its outcome, the model cannot start another.
RacesOfOneResponse ==
  \A j, k \in Executions :
    races[j].invocation = races[k].invocation => races[j].response = races[k].response

\* A race runs on a route submitted by its own response, never on one that an
\* earlier submission left behind, unless it could not be stored or loaded.
RaceRunsSubmittedRoute ==
  \A k \in DOMAIN races : races[k].reliable => races[k].route \in races[k].sent

\* Neither the database nor the session holds a plan that passed the fallback
\* and is unsafe or of a wrong distance.
PassedIsSafe ==
  \A e \in {session.evaluation} \cup {db[i].evaluation : i \in DOMAIN db} :
    e # NoValue /\ e.method = "heuristic" /\ e.passed => ~WrongDistance(e.plan) /\ ~Unsafe(e.plan)
=============================================================================
