----------------------------- MODULE Telemetry -----------------------------
(***************************************************************************)
(* One run of an agent and what of it reaches the gateway.  Two emitters   *)
(* see the same turns: the dash-log plugin, at each callback of the run,   *)
(* and the dispatcher, which passes the run's events through.  Both put    *)
(* messages in one queue, which a pool of workers publishes in batches.    *)
(*                                                                         *)
(* A planner or simulator ("speaker") awaits its telemetry; a runner       *)
(* leaves it to background tasks, without most of it, and without the      *)
(* dispatcher's.  Texts are abstracted to whether they hold words, only a  *)
(* fenced a2ui block, or nothing.                                          *)
(***************************************************************************)
EXTENDS Naturals, Sequences, FiniteSets

CONSTANTS
  Workers,     \* of the publish pool
  QueueMax, BatchMax,
  MaxTurns,    \* bound: turns of the model
  MaxCalls,    \* bound: calls in one turn
  MaxDrops     \* bound: batches that Redis does not take

ASSUME TelemetryAssumption == QueueMax \in Nat \ {0} /\ BatchMax \in Nat \ {0}

VARIABLES
  voice,       \* speaker or runner
  stage,       \* what the run does next
  said,        \* the model's turns, [text, calls]
  calls,       \* calls of the current turn, [pc, seen]
  counter,     \* _sequence_counters of the session
  issued,      \* history: the numbers that were given out, in order
  tasks,       \* background tasks that will emit a message
  emitted,     \* history: all messages handed to the queue, in order
  queue,       \* _publish_queue: indices of emitted
  batch,       \* worker -> messages it has taken
  wire,        \* indices of the messages published on gateway:broadcast
  drops

runVars == <<voice, stage, said, calls>>
seqVars == <<counter, issued>>
poolVars == <<queue, batch, wire, drops>>
telemetryVars == <<runVars, seqVars, tasks, emitted, poolVars>>

Texts == {"none", "words", "block"}
Results == {"json", "a2ui", "error"}

\* RUNNER_SUPPRESSED_EVENTS
Suppressed == {"run_start", "model_start", "model_end", "tool_start", "run_end"}

TelemetryInit ==
  /\ voice \in {"speaker", "runner"}
  /\ stage = "start" /\ said = <<>> /\ calls = <<>>
  /\ counter = 0 /\ issued = <<>> /\ tasks = {}
  /\ emitted = <<>> /\ queue = <<>>
  /\ batch = [w \in Workers |-> {}] /\ wire = {} /\ drops = 0

-----------------------------------------------------------------------------
(* The queue.                                                              *)

\* A message: its event, its wrapper type, and the turn and call it is about.
Message(event, kind, call) == [event |-> event, kind |-> kind, turn |-> Len(said), call |-> call]

Indices(n, m) == [i \in 1 .. (m - n) |-> n + i]

\* What does not fit is dropped.
Enqueued(ms) ==
  /\ emitted' = emitted \o ms
  /\ LET room == QueueMax - Len(queue)
         n == IF Len(ms) < room THEN Len(ms) ELSE room
     IN queue' = queue \o Indices(Len(emitted), Len(emitted) + n)
  /\ UNCHANGED <<batch, wire, drops>>

Take(w) ==
  /\ batch[w] = {} /\ queue # <<>>
  /\ LET n == IF Len(queue) < BatchMax THEN Len(queue) ELSE BatchMax
     IN /\ batch' = [batch EXCEPT ![w] = {queue[i] : i \in 1 .. n}]
        /\ queue' = SubSeq(queue, n + 1, Len(queue))
  /\ UNCHANGED <<runVars, seqVars, tasks, emitted, wire, drops>>

PublishBatch(w) ==
  /\ batch[w] # {}
  /\ wire' = wire \cup batch[w]
  /\ batch' = [batch EXCEPT ![w] = {}]
  /\ UNCHANGED <<runVars, seqVars, tasks, emitted, queue, drops>>

\* No client, or the pipeline fails: the batch is gone, the worker goes on.
LoseBatch(w) ==
  /\ batch[w] # {} /\ drops < MaxDrops
  /\ drops' = drops + 1
  /\ batch' = [batch EXCEPT ![w] = {}]
  /\ UNCHANGED <<runVars, seqVars, tasks, emitted, queue, wire>>

-----------------------------------------------------------------------------
(* The plugin.                                                             *)

ThisTurn == said[Len(said)]

\* What _emit_narrative finds: a turn's words, of which nothing is left if they
\* are only a block, a result, or the text of an error.
Extracted(event, call) ==
  CASE event = "model_end" -> IF ThisTurn.text = "words" THEN "text" ELSE "nothing"
    [] event = "tool_end" -> ThisTurn.calls[call]
    [] event \in {"tool_error", "model_error"} -> "text"
    [] OTHER -> "nothing"

\* It goes out under the name of its source; an A2UI result as its status and
\* its blocks.
Narrative(event, call) ==
  LET content == Extracted(event, call) IN
  CASE content = "nothing" -> <<>>
    [] content = "a2ui" -> <<Message(event, "text", call), Message("a2ui", "a2ui", call)>>
    [] OTHER -> <<Message(event, content, call)>>

\* _emit_lifecycle_event
Lifecycle(event, call) ==
  IF event \in {"model_start", "tool_start", "run_start", "run_end"}
    THEN <<Message(event, "json", call)>> ELSE <<>>

Of(ms) == {ms[i] : i \in DOMAIN ms}

\* Mutant: the number is read before the id of the session is looked up.
NumberFrom(seen) == seen

\* The number is read and counted up without a pause, after the lookup.
Number(seen) == counter

\* _publish: a suppressed event takes a number, too.
Publish(event, call, seen) ==
  LET ms == Narrative(event, call) \o Lifecycle(event, call)
  IN /\ issued' = Append(issued, Number(seen))
     /\ counter' = Number(seen) + 1
     /\ IF voice = "speaker" THEN Enqueued(ms) /\ UNCHANGED tasks
        ELSE /\ tasks' = IF event \in Suppressed THEN tasks ELSE tasks \cup Of(ms)
             /\ UNCHANGED <<emitted, poolVars>>

\* A background task emits its message, at once or after gateway_delay_seconds.
RunTask(m) ==
  /\ m \in tasks
  /\ tasks' = tasks \ {m}
  /\ Enqueued(<<m>>)
  /\ UNCHANGED <<runVars, seqVars>>

-----------------------------------------------------------------------------
(* The dispatcher.                                                         *)

\* Mutant: an A2UI result is passed through as JSON.
PassedWithA2ui(result, call) ==
  IF result \in {"json", "a2ui"} THEN <<Message("json", "json", call)>> ELSE <<>>

\* A tool's result is passed through, but for A2UI, which is the plugin's.
Passed(result, call) ==
  IF result = "json" THEN <<Message("json", "json", call)>> ELSE <<>>

\* _prepare_pulses for the model's turn: narration between calls is not chat.
\* A text of which nothing is left without its block is passed through whole.
PassedTurn ==
  IF ThisTurn.text = "none" \/ ThisTurn.calls # <<>> THEN <<>>
  ELSE <<Message("text", IF ThisTurn.text = "block" THEN "markup" ELSE "text", 0)>>

PassedResults ==
  LET passed[i \in 0 .. Len(ThisTurn.calls)] ==
        IF i = 0 THEN <<>> ELSE passed[i - 1] \o Passed(ThisTurn.calls[i], i)
  IN passed[Len(ThisTurn.calls)]

Relay(ms) == Enqueued(IF voice = "speaker" THEN ms ELSE <<>>) /\ UNCHANGED <<seqVars, tasks>>

-----------------------------------------------------------------------------
(* The run.                                                                *)

Steps(from, to) == stage = from /\ stage' = to /\ UNCHANGED voice

\* A callback between two calls: nothing else of the run happens beside it.
Notes(event, from, to) ==
  Steps(from, to) /\ Publish(event, 0, counter) /\ UNCHANGED <<said, calls>>

HearUser == Notes("user_message", "start", "begin")
StartRun == Notes("run_start", "begin", "enter")
StartAgent == Notes("agent_start", "enter", "ask")
AskModel == Notes("model_start", "ask", "answer")
ModelFails == Notes("model_error", "answer", "over")

\* The model answers with a text, with calls, or both.
Answer ==
  /\ Steps("answer", "heard")
  /\ \E text \in Texts, n \in 0 .. (IF Len(said) + 1 < MaxTurns THEN MaxCalls ELSE 0) :
       \E results \in [1 .. n -> Results] :
         said' = Append(said, [text |-> text, calls |-> results])
  /\ UNCHANGED <<calls, seqVars, tasks, emitted, poolVars>>

EndModel == Notes("model_end", "heard", "relay")

RelayTurn ==
  /\ Steps("relay", IF ThisTurn.calls = <<>> THEN "leave" ELSE "tools")
  /\ Relay(PassedTurn)
  /\ calls' = [i \in DOMAIN ThisTurn.calls |-> [pc |-> "ready", seen |-> 0]]
  /\ UNCHANGED said

Called(i, pc, next) ==
  /\ stage = "tools" /\ calls[i].pc = pc
  /\ calls' = [calls EXCEPT ![i] = [pc |-> next, seen |-> counter]]
  /\ UNCHANGED <<voice, stage, said>>

\* The calls of a turn run side by side; each callback first awaits the lookup
\* of the id that the session goes by.
Lookup(i) ==
  /\ Called(i, "ready", "starting") \/ Called(i, "running", "ending")
  /\ UNCHANGED <<seqVars, tasks, emitted, poolVars>>

StartTool(i) == Called(i, "starting", "running") /\ Publish("tool_start", i, calls[i].seen)

EndTool(i) ==
  /\ Called(i, "ending", "done")
  /\ Publish(IF ThisTurn.calls[i] = "error" THEN "tool_error" ELSE "tool_end", i, calls[i].seen)

\* The results are one event; an error of a tool ends the run.
RelayResults ==
  LET failed == \E i \in DOMAIN calls : ThisTurn.calls[i] = "error"
  IN /\ \A i \in DOMAIN calls : calls[i].pc = "done"
     /\ Steps("tools", IF failed THEN "over" ELSE "ask")
     /\ Relay(IF failed THEN <<>> ELSE PassedResults)
     /\ UNCHANGED <<said, calls>>

EndAgent == Notes("agent_end", "leave", "end")
EndRun == Notes("run_end", "end", "over")

RunStep ==
  \/ HearUser \/ StartRun \/ StartAgent \/ AskModel \/ Answer \/ ModelFails \/ EndModel
  \/ RelayTurn \/ RelayResults \/ EndAgent \/ EndRun
  \/ \E i \in DOMAIN calls : Lookup(i) \/ StartTool(i) \/ EndTool(i)

WorkerStep(w) == Take(w) \/ PublishBatch(w) \/ LoseBatch(w)

TelemetryNext ==
  \/ RunStep
  \/ \E m \in tasks : RunTask(m)
  \/ \E w \in Workers : WorkerStep(w)

TelemetrySpec == TelemetryInit /\ [][TelemetryNext]_telemetryVars

-----------------------------------------------------------------------------
\* Two emitters, one screen: nothing is shown twice, the chat shows a turn's
\* words only if the turn calls nothing, and A2UI arrives as nothing else.
ShownOnce ==
  \A i \in wire : LET m == emitted[i] IN
    /\ \A j \in wire \ {i} : emitted[j] # m
    /\ m.event = "text" => m.call = 0 /\ said[m.turn].calls = <<>>
    /\ m.kind = "json" /\ m.event \in {"json", "tool_end"} => said[m.turn].calls[m.call] = "json"

\* The numbers of a session's events are consecutive in the order in which they
\* are given, though calls of one turn publish side by side.
EachSeqOnce == \A i \in DOMAIN issued : issued[i] = i - 1
=============================================================================
