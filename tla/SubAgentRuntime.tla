-------------------------- MODULE SubAgentRuntime --------------------------
(***************************************************************************)
(* The sub-agent runtime: SubAgentRegistry, the asyncio.Task each          *)
(* DeepAgentsSpawner run lives in, the health loop of main.py with         *)
(* HealthMonitor and RecoveryExecutor, the recall and tier tools, and the  *)
(* shutdown sequence.                                                      *)
(*                                                                         *)
(* All of it runs on one event loop, so a step here is what happens        *)
(* between two suspension points.  Awaits on the agent store are given     *)
(* program counters of their own; the constant StoreSuspends says whether  *)
(* they hand the loop to somebody else (a SQLite or Postgres store) or not *)
(* (InMemoryStore, whose coroutines never suspend).                        *)
(*                                                                         *)
(* Run k of agent a is the asyncio.Task created after k respawns.          *)
(***************************************************************************)
EXTENDS RecoveryChain

CONSTANTS
  Agents,          \* agent ids; each is spawned at most once (uuid4)
  Tiers,           \* tiers that spawn_agent and switch_agent_model are called with
  MaxIterations,   \* HealthMonitor(max_iterations=...)
  StepBound,       \* bound of the model: streaming steps counted per agent
  StoreSuspends,   \* whether an await on the store yields to other tasks
  IgnoresCancel,   \* whether a sub-agent's graph may swallow a cancellation
  SpawnCanRaise    \* whether Spawner.spawn may raise

ASSUME RuntimeAssumption ==
  /\ MaxIterations \in Nat
  /\ StepBound \in Nat
  /\ StoreSuspends \in BOOLEAN
  /\ IgnoresCancel \in BOOLEAN
  /\ SpawnCanRaise \in BOOLEAN

VARIABLES
  agents,      \* keys of SubAgentRegistry._agents (and of _tasks)
  taskOf,      \* _tasks[a] as a run number; kept after the entry is popped
  info,        \* the AgentInfo objects
  heartbeat,   \* store ("agents", a) "heartbeat"
  result,      \* store ("agents", a) "result": its status
  directive,   \* store ("agents", a) "directive": its action
  run,         \* where each run's coroutine is
  cancelled,   \* runs whose task.cancel() has not been consumed
  waiting,     \* the wait_for(task, 5.0) of the deregister that popped a
  recalls,     \* recall_agent calls suspended at the store
  tick,        \* the health loop
  unsynced,    \* agents the current sync_from_store has still to read
  verdict,     \* reason given to handle_failure in the current tick
  handler,     \* handle_failure(a), a child task of the tick's gather
  main,        \* main() around the shutdown sequence
  drain        \* deregister(a), a child task of shutdown_all's gather

registryVars == <<agents, taskOf, info>>
storeVars    == <<heartbeat, result, directive>>
runVars      == <<run, cancelled, waiting>>
healthVars   == <<tick, unsynced, verdict, handler>>
mainVars     == <<main, drain>>
vars == <<registryVars, storeVars, runVars, recalls, healthVars, mainVars>>

----------------------------------------------------------------------------
Attempts == 0 .. (3 * MaxRetries)

StorePcs == {"starting", "beating", "stepping", "epilogue", "failing"}
LivePcs  == StorePcs \cup {"created", "streaming"}

States == {"unborn", "spawning", "running", "finished", "failed"}

Live(a, k)   == run[a][k] \in LivePcs
Over(a, k)   == run[a][k] = "over"
Active(a)    == info[a].state \in {"spawning", "running"}


(* One event loop.  Unless the store suspends, a coroutine that awaits the *)
(* store keeps the loop: nobody but p may step while p is inside a call.   *)
Turn(p) ==
  StoreSuspends \/
    /\ \A a \in Agents, k \in Attempts :
         run[a][k] \in StorePcs => p = <<"run", a, k>>
    /\ tick = "sync" => p = <<"health">>
    /\ \A a \in Agents : handler[a] = "context" => p = <<"handler", a>>
    /\ \A a \in recalls : p = <<"recall", a>>

NewInfo(tier) ==
  [state |-> "spawning", tier |-> tier, retry |-> 0, iteration |-> 0,
   beat |-> "fresh",     \* or stale: now - last_heartbeat > heartbeat_timeout
   age  |-> "young"]     \* or late: now - created_at > task_timeout

Init ==
  /\ agents = {}
  /\ taskOf = [a \in Agents |-> 0]
  /\ info = [a \in Agents |-> [NewInfo("lite") EXCEPT !.state = "unborn"]]
  /\ heartbeat = [a \in Agents |-> [beat |-> "none", iteration |-> 0]]
  /\ result = [a \in Agents |-> "none"]
  /\ directive = [a \in Agents |-> "none"]
  /\ run = [a \in Agents |-> [k \in Attempts |-> "none"]]
  /\ cancelled = [a \in Agents |-> {}]
  /\ waiting = [a \in Agents |-> "no"]
  /\ recalls = {}
  /\ tick = "sleep"
  /\ unsynced = {}
  /\ verdict = [a \in Agents |-> "none"]
  /\ handler = [a \in Agents |-> "idle"]
  /\ main = "up"
  /\ drain = [a \in Agents |-> "idle"]

----------------------------------------------------------------------------
(* Registry operations that the actions below are made of *)

\* SubAgentRegistry.update_state: nothing happens for an unknown agent.
UpdateState(a, state) ==
  info' = IF a \in agents THEN [info EXCEPT ![a].state = state] ELSE info

\* task.cancel() on the task registered for a, when it is not done.
CancelTask(a) ==
  cancelled' = [cancelled EXCEPT ![a] =
                  IF Live(a, taskOf[a]) THEN @ \cup {taskOf[a]} ELSE @]

\* Mutant of Deregister: the task is not cancelled.
DeregisterLeavesTask(a) == agents' = agents \ {a} /\ UNCHANGED <<taskOf, cancelled, waiting>>

\* deregister pops both entries, cancels a task that is not done, and starts
\* to wait for it.  A second deregister finds nothing and returns at once.
Deregister(a) ==
  /\ agents' = agents \ {a}
  /\ UNCHANGED taskOf
  /\ IF a \in agents /\ Live(a, taskOf[a])
       THEN CancelTask(a) /\ waiting' = [waiting EXCEPT ![a] = "waiting"]
       ELSE UNCHANGED <<cancelled, waiting>>

\* write_heartbeat stamps the current time.
Beat(a, n) ==
  heartbeat' = [heartbeat EXCEPT ![a] = [beat |-> "fresh", iteration |-> n]]

GoTo(a, k, pc) == run' = [run EXCEPT ![a][k] = pc]

----------------------------------------------------------------------------
(* Tools called by the master agent *)

\* spawn_agent, and Swarm._spawn_one: create the task, then register it.
Spawn(a) ==
  /\ info[a].state = "unborn" /\ main # "down" /\ Turn(<<"tool">>)
  /\ \E tier \in Tiers : info' = [info EXCEPT ![a] = NewInfo(tier)]
  /\ GoTo(a, 0, "created")
  /\ agents' = agents \cup {a}
  /\ taskOf' = [taskOf EXCEPT ![a] = 0]
  /\ UNCHANGED <<storeVars, cancelled, waiting, recalls, healthVars, mainVars>>

\* recall_agent leaves the shutdown directive and reads the result (one call at
\* a time for each agent: a second would deregister nothing) ...
RecallAsk(a) ==
  /\ a \in agents \ recalls /\ main # "down" /\ Turn(<<"tool">>)
  /\ directive' = [directive EXCEPT ![a] = "shutdown"]
  /\ recalls' = recalls \cup {a}
  /\ UNCHANGED <<registryVars, heartbeat, result, runVars, healthVars, mainVars>>

\* ... and deregisters, whatever has become of the agent meanwhile.
RecallRemove(a) ==
  /\ a \in recalls /\ Turn(<<"recall", a>>)
  /\ Deregister(a)
  /\ recalls' = recalls \ {a}
  /\ UNCHANGED <<info, storeVars, run, healthVars, mainVars>>

\* switch_agent_model: the tier of the next respawn, and a live directive that
\* takes the single slot whatever was in it.
SwitchTier(a) ==
  /\ a \in agents /\ main # "down" /\ Turn(<<"tool">>)
  /\ \E tier \in Tiers \cap KnownTiers : info' = [info EXCEPT ![a].tier = tier]
  /\ directive' = [directive EXCEPT ![a] = "change_tier"]
  /\ UNCHANGED <<agents, taskOf, heartbeat, result, runVars, recalls, healthVars, mainVars>>

----------------------------------------------------------------------------
(* DeepAgentsSpawner._run, cut at its awaits *)

\* A run executes only while no cancellation is pending on its task.
Proceeds(a, k, pc) ==
  /\ run[a][k] = pc /\ k \notin cancelled[a]
  /\ Turn(<<"run", a, k>>)

RunStart(a, k) ==
  /\ Proceeds(a, k, "created")
  /\ Beat(a, 0)
  /\ GoTo(a, k, "starting")
  /\ UNCHANGED <<registryVars, result, directive, cancelled, waiting, recalls, healthVars, mainVars>>

RunBeat(a, k) ==
  /\ Proceeds(a, k, "starting")
  /\ Beat(a, 1)
  /\ GoTo(a, k, "beating")
  /\ UNCHANGED <<registryVars, result, directive, cancelled, waiting, recalls, healthVars, mainVars>>

RunEnter(a, k) ==
  /\ Proceeds(a, k, "beating")
  /\ UpdateState(a, "running")
  /\ GoTo(a, k, "streaming")
  /\ UNCHANGED <<agents, taskOf, storeVars, cancelled, waiting, recalls, healthVars, mainVars>>

\* A chunk of the stream arrives: count it, then beat and report progress.
RunStep(a, k) ==
  /\ Proceeds(a, k, "streaming")
  /\ a \in agents /\ info[a].iteration < StepBound
  /\ info' = [info EXCEPT ![a].iteration = @ + 1]
  /\ Beat(a, info[a].iteration + 1)
  /\ GoTo(a, k, "stepping")
  /\ UNCHANGED <<agents, taskOf, result, directive, cancelled, waiting, recalls, healthVars, mainVars>>

\* No shutdown directive: a tier change is consumed, the stream goes on.
RunContinue(a, k) ==
  /\ Proceeds(a, k, "stepping") /\ directive[a] # "shutdown"
  /\ directive' = [directive EXCEPT ![a] = "none"]
  /\ GoTo(a, k, "streaming")
  /\ UNCHANGED <<registryVars, heartbeat, result, cancelled, waiting, recalls, healthVars, mainVars>>

\* A shutdown directive breaks the stream; the result is written as stopped.
RunStop(a, k) ==
  /\ Proceeds(a, k, "stepping") /\ directive[a] = "shutdown"
  /\ directive' = [directive EXCEPT ![a] = "none"]
  /\ result' = [result EXCEPT ![a] = "stopped"]
  /\ GoTo(a, k, "epilogue")
  /\ UNCHANGED <<registryVars, heartbeat, cancelled, waiting, recalls, healthVars, mainVars>>

\* Mutant of RunReturn: the result is not written.
RunReturnWithoutResult(a, k) ==
  /\ Proceeds(a, k, "streaming")
  /\ GoTo(a, k, "epilogue")
  /\ UNCHANGED <<registryVars, storeVars, cancelled, waiting, recalls, healthVars, mainVars>>

\* The stream is exhausted and the inbox is empty (success), or the segment
\* cap is reached (stopped).
RunReturn(a, k) ==
  /\ Proceeds(a, k, "streaming")
  /\ \E status \in {"success", "stopped"} : result' = [result EXCEPT ![a] = status]
  /\ GoTo(a, k, "epilogue")
  /\ UNCHANGED <<registryVars, heartbeat, directive, cancelled, waiting, recalls, healthVars, mainVars>>

RunFinish(a, k) ==
  /\ Proceeds(a, k, "epilogue")
  /\ UpdateState(a, "finished")
  /\ GoTo(a, k, "over")
  /\ UNCHANGED <<agents, taskOf, storeVars, cancelled, waiting, recalls, healthVars, mainVars>>

\* except Exception: an unknown tool, an error of the graph, or of the store.
RunFail(a, k) ==
  /\ \E pc \in {"created", "streaming"} \cup
               (IF StoreSuspends THEN StorePcs \ {"failing"} ELSE {}) : Proceeds(a, k, pc)
  /\ UpdateState(a, "failed")
  /\ result' = [result EXCEPT ![a] = "failed"]
  /\ GoTo(a, k, "failing")
  /\ UNCHANGED <<agents, taskOf, heartbeat, directive, cancelled, waiting, recalls, healthVars, mainVars>>

RunFailed(a, k) ==
  /\ Proceeds(a, k, "failing")
  /\ GoTo(a, k, "over")
  /\ UNCHANGED <<registryVars, storeVars, cancelled, waiting, recalls, healthVars, mainVars>>

\* Mutant of RunCancelled: the except clause does not raise again.
RunCancelledSwallowed(a, k) ==
  /\ Live(a, k) /\ k \in cancelled[a] /\ Turn(<<"run", a, k>>)
  /\ cancelled' = [cancelled EXCEPT ![a] = @ \ {k}]
  /\ UNCHANGED <<registryVars, storeVars, run, waiting, recalls, healthVars, mainVars>>

\* The cancellation is thrown at the await: _run re-raises, nothing is recorded.
RunCancelled(a, k) ==
  /\ Live(a, k) /\ k \in cancelled[a] /\ Turn(<<"run", a, k>>)
  /\ GoTo(a, k, "over")
  /\ cancelled' = [cancelled EXCEPT ![a] = @ \ {k}]
  /\ UNCHANGED <<registryVars, storeVars, waiting, recalls, healthVars, mainVars>>

\* A graph or a tool catches the CancelledError and goes on.
RunIgnoresCancel(a, k) ==
  /\ IgnoresCancel
  /\ run[a][k] = "streaming" /\ k \in cancelled[a] /\ Turn(<<"run", a, k>>)
  /\ cancelled' = [cancelled EXCEPT ![a] = @ \ {k}]
  /\ UNCHANGED <<registryVars, storeVars, run, waiting, recalls, healthVars, mainVars>>

----------------------------------------------------------------------------
(* Time: a beat, or the whole run, gets older than its limit.  Only the    *)
(* health loop, and only for agents at work, looks at the clock.           *)

HeartbeatAges(a) ==
  /\ a \in agents /\ Active(a) /\ main = "up"
  /\ info[a].beat = "fresh" \/ heartbeat[a].beat = "fresh"
  /\ info' = [info EXCEPT ![a].beat = "stale"]
  /\ heartbeat' = [heartbeat EXCEPT ![a].beat = IF @ = "fresh" THEN "stale" ELSE @]
  /\ UNCHANGED <<agents, taskOf, result, directive, runVars, recalls, healthVars, mainVars>>

\* created_at is the creation of the AgentInfo; a respawn does not renew it.
AgentAges(a) ==
  /\ a \in agents /\ Active(a) /\ main = "up"
  /\ info[a].age = "young"
  /\ info' = [info EXCEPT ![a].age = "late"]
  /\ UNCHANGED <<agents, taskOf, storeVars, runVars, recalls, healthVars, mainVars>>

----------------------------------------------------------------------------
(* The health loop of main.py *)

\* Mutant of Diagnosis: agents past SPAWNING are not looked at.
DiagnosisSkipsRunning(a) ==
  IF info[a].state # "spawning" THEN "none"
  ELSE IF info[a].iteration > MaxIterations THEN "iteration_limit"
  ELSE IF info[a].age = "late" THEN "task_timeout"
  ELSE "none"

\* Mutant of Diagnosis: the iteration limit is off by one.
DiagnosisAtLimit(a) ==
  IF ~ Active(a) THEN "none"
  ELSE IF info[a].iteration >= MaxIterations THEN "iteration_limit"
  ELSE IF info[a].age = "late" THEN "task_timeout"
  ELSE IF info[a].state = "running" /\ info[a].beat = "stale" THEN "stale_heartbeat"
  ELSE "none"

\* HealthMonitor.check_agent
Diagnosis(a) ==
  IF ~ Active(a) THEN "none"
  ELSE IF info[a].iteration > MaxIterations THEN "iteration_limit"
  ELSE IF info[a].age = "late" THEN "task_timeout"
  ELSE IF info[a].state = "running" /\ info[a].beat = "stale" THEN "stale_heartbeat"
  ELSE "none"

\* asyncio.sleep is over: sync_from_store copies the list of agents.
HealthWake ==
  /\ tick = "sleep" /\ main = "up" /\ Turn(<<"health">>)
  /\ tick' = "sync"
  /\ unsynced' = agents
  /\ UNCHANGED <<registryVars, storeVars, runVars, recalls, verdict, handler, mainVars>>

\* One read of sync_from_store: the store's beat and iteration replace those
\* of the AgentInfo, even when the agent has been deregistered meanwhile.
HealthSync(a) ==
  /\ tick = "sync" /\ a \in unsynced /\ Turn(<<"health">>)
  /\ unsynced' = unsynced \ {a}
  /\ \/ heartbeat[a].beat # "none"
        /\ info' = [info EXCEPT ![a].beat = heartbeat[a].beat,
                                ![a].iteration = heartbeat[a].iteration]
     \/ heartbeat[a].beat = "none" /\ info' = info
     \/ StoreSuspends /\ info' = info     \* a read that fails is skipped
  /\ UNCHANGED <<agents, taskOf, storeVars, runVars, recalls, tick, verdict, handler, mainVars>>

\* check_all, then gather creates one task per unhealthy agent.  They start in
\* a later iteration of the loop, after whatever is ready before them.
HealthCheck ==
  /\ tick = "sync" /\ unsynced = {} /\ Turn(<<"health">>)
  /\ verdict' = [a \in Agents |-> IF a \in agents THEN Diagnosis(a) ELSE "none"]
  /\ handler' = [a \in Agents |-> IF verdict'[a] = "none" THEN "idle" ELSE "queued"]
  /\ tick' = IF \A a \in Agents : verdict'[a] = "none" THEN "sleep" ELSE "handling"
  /\ UNCHANGED <<registryVars, storeVars, runVars, recalls, unsynced, mainVars>>

\* A handler that puts itself back when the agent is not there.
HandleMissingWaits(a) ==
  /\ handler[a] = "queued" /\ a \notin agents /\ Turn(<<"handler", a>>)
  /\ UNCHANGED vars

\* handle_failure on an agent that is gone.
HandleMissing(a) ==
  /\ handler[a] = "queued" /\ a \notin agents /\ Turn(<<"handler", a>>)
  /\ handler' = [handler EXCEPT ![a] = "idle"]
  /\ UNCHANGED <<registryVars, storeVars, runVars, recalls, tick, unsynced, verdict, mainVars>>

\* The bookkeeping of _respawn.
Redo(a, retry) ==
  /\ info' = [info EXCEPT ![a].tier = TierAfter(info[a].retry, @),
                          ![a].retry = retry,
                          ![a].state = "spawning"]
  /\ handler' = [handler EXCEPT ![a] = "context"]
  /\ UNCHANGED <<agents, taskOf, storeVars, run, waiting, recalls, tick, unsynced, verdict, mainVars>>

\* Mutant of HandleRespawn: the old task is not cancelled.
HandleRespawnKeepsOld(a) ==
  /\ handler[a] = "queued" /\ a \in agents /\ Turn(<<"handler", a>>)
  /\ DecideAction(info[a].retry, info[a].tier) # "abort"
  /\ Redo(a, info[a].retry + 1)
  /\ UNCHANGED cancelled

\* Mutant of HandleRespawn: an agent that is gone is respawned too.
HandleRespawnUnchecked(a) ==
  /\ handler[a] = "queued" /\ Turn(<<"handler", a>>)
  /\ DecideAction(info[a].retry, info[a].tier) # "abort"
  /\ CancelTask(a)
  /\ Redo(a, info[a].retry + 1)

\* Mutant of HandleRespawn: retry_count is not incremented.
HandleRespawnUncounted(a) ==
  /\ handler[a] = "queued" /\ a \in agents /\ Turn(<<"handler", a>>)
  /\ DecideAction(info[a].retry, info[a].tier) # "abort"
  /\ CancelTask(a)
  /\ Redo(a, info[a].retry)

\* RETRY, ESCALATE, REASSIGN: _respawn up to the await of the recovery context.
HandleRespawn(a) ==
  /\ handler[a] = "queued" /\ a \in agents /\ Turn(<<"handler", a>>)
  /\ DecideAction(info[a].retry, info[a].tier) # "abort"
  /\ CancelTask(a)
  /\ Redo(a, info[a].retry + 1)

\* ABORT
HandleAbort(a) ==
  /\ handler[a] = "queued" /\ a \in agents /\ Turn(<<"handler", a>>)
  /\ DecideAction(info[a].retry, info[a].tier) = "abort"
  /\ info' = [info EXCEPT ![a].state = "failed"]
  /\ Deregister(a)
  /\ handler' = [handler EXCEPT ![a] = "waiting"]
  /\ UNCHANGED <<storeVars, run, recalls, tick, unsynced, verdict, mainVars>>

\* The rest of _respawn: create the new task, then replace_task, which raises
\* KeyError for an agent that has been deregistered - the task exists all the same.
Respawn(a) ==
  /\ handler[a] = "context" /\ Turn(<<"handler", a>>)
  /\ GoTo(a, info[a].retry, "created")
  /\ taskOf' = IF a \in agents THEN [taskOf EXCEPT ![a] = info[a].retry] ELSE taskOf
  /\ handler' = [handler EXCEPT ![a] = "idle"]
  /\ UNCHANGED <<agents, info, storeVars, cancelled, waiting, recalls, tick, unsynced, verdict, mainVars>>

\* Mutant of RespawnRaises: the agent is left as it is.
RespawnRaisesLeavesSpawning(a) ==
  /\ SpawnCanRaise /\ handler[a] = "context" /\ Turn(<<"handler", a>>)
  /\ handler' = [handler EXCEPT ![a] = "idle"]
  /\ UNCHANGED <<registryVars, storeVars, runVars, recalls, tick, unsynced, verdict, mainVars>>

\* Spawner.spawn raises: the agent is given up.
RespawnRaises(a) ==
  /\ SpawnCanRaise /\ handler[a] = "context" /\ Turn(<<"handler", a>>)
  /\ info' = [info EXCEPT ![a].state = "failed"]
  /\ Deregister(a)
  /\ handler' = [handler EXCEPT ![a] = "waiting"]
  /\ UNCHANGED <<storeVars, run, recalls, tick, unsynced, verdict, mainVars>>

HandlerDone(a) ==
  /\ handler[a] = "waiting" /\ waiting[a] = "no"
  /\ handler' = [handler EXCEPT ![a] = "idle"]
  /\ UNCHANGED <<registryVars, storeVars, runVars, recalls, tick, unsynced, verdict, mainVars>>

\* wait_for returns once the task is done.
WaitEnds(a) ==
  /\ waiting[a] # "no" /\ Over(a, taskOf[a])
  /\ waiting' = [waiting EXCEPT ![a] = "no"]
  /\ UNCHANGED <<registryVars, storeVars, run, cancelled, recalls, healthVars, mainVars>>

\* Five seconds pass: wait_for cancels the task a second time, and has still
\* to see it done before it raises TimeoutError.
WaitTimesOut(a) ==
  /\ waiting[a] = "waiting" /\ Live(a, taskOf[a]) /\ Turn(<<"loop">>)
  /\ CancelTask(a)
  /\ waiting' = [waiting EXCEPT ![a] = "overdue"]
  /\ UNCHANGED <<registryVars, storeVars, run, recalls, healthVars, mainVars>>

\* gather is complete; the loop goes back to sleep.
HealthRest ==
  /\ tick = "handling" /\ \A a \in Agents : handler[a] = "idle"
  /\ tick' = "sleep"
  /\ verdict' = [a \in Agents |-> "none"]
  /\ UNCHANGED <<registryVars, storeVars, runVars, recalls, unsynced, handler, mainVars>>

----------------------------------------------------------------------------
(* Shutdown of main() *)

\* The stop event: the health task is cancelled, and with it its gather.  The
\* wait of a handler in deregister passes the cancellation on to the run, and
\* the handler, which swallows it, has still to see the run done.
ShutdownBegin ==
  /\ main = "up" /\ Turn(<<"main">>)
  /\ main' = "stopHealth"
  /\ handler' = [a \in Agents |-> IF handler[a] = "waiting" THEN "waiting" ELSE "idle"]
  /\ cancelled' = [a \in Agents |->
       IF handler[a] = "waiting" /\ waiting[a] # "no" /\ Live(a, taskOf[a])
         THEN cancelled[a] \cup {taskOf[a]} ELSE cancelled[a]]
  /\ unsynced' = {}
  /\ tick' = "stopping"
  /\ UNCHANGED <<registryVars, storeVars, run, waiting, recalls, verdict, drain>>

\* shutdown_all: a snapshot of the ids, one deregister task for each.
ShutdownAll ==
  /\ main = "stopHealth" /\ Turn(<<"main">>)
  /\ \A a \in Agents : handler[a] = "idle"
  /\ main' = "draining"
  /\ tick' = "stopped"
  /\ drain' = [a \in Agents |-> IF a \in agents THEN "queued" ELSE "idle"]
  /\ UNCHANGED <<registryVars, storeVars, runVars, recalls, unsynced, verdict, handler>>

DrainAgent(a) ==
  /\ drain[a] = "queued" /\ Turn(<<"drain", a>>)
  /\ Deregister(a)
  /\ drain' = [drain EXCEPT ![a] = IF a \in agents THEN "waiting" ELSE "idle"]
  /\ UNCHANGED <<info, storeVars, run, recalls, healthVars, main>>

DrainDone(a) ==
  /\ drain[a] = "waiting" /\ waiting[a] = "no"
  /\ drain' = [drain EXCEPT ![a] = "idle"]
  /\ UNCHANGED <<registryVars, storeVars, runVars, recalls, healthVars, main>>

\* The channels, through which tools are still called, stop last.
StopChannels ==
  /\ main = "draining" /\ Turn(<<"main">>)
  /\ \A a \in Agents : drain[a] = "idle"
  /\ main' = "down"
  /\ UNCHANGED <<registryVars, storeVars, runVars, recalls, healthVars, drain>>

----------------------------------------------------------------------------
RunNext(a, k) ==
  \/ RunStart(a, k)  \/ RunBeat(a, k)   \/ RunEnter(a, k)
  \/ RunStep(a, k)   \/ RunContinue(a, k) \/ RunStop(a, k)
  \/ RunReturn(a, k) \/ RunFinish(a, k) \/ RunFail(a, k) \/ RunFailed(a, k)
  \/ RunCancelled(a, k) \/ RunIgnoresCancel(a, k)

ToolNext(a) == Spawn(a) \/ RecallAsk(a) \/ RecallRemove(a) \/ SwitchTier(a)

HandlerNext(a) ==
  \/ HandleMissing(a) \/ HandleRespawn(a) \/ HandleAbort(a)
  \/ Respawn(a) \/ RespawnRaises(a) \/ HandlerDone(a)

WaitNext(a) == WaitEnds(a) \/ WaitTimesOut(a)

HealthNext == HealthWake \/ HealthCheck \/ HealthRest

MainNext == ShutdownBegin \/ ShutdownAll \/ StopChannels

Next ==
  \/ \E a \in Agents :
       \/ \E k \in Attempts : RunNext(a, k)
       \/ ToolNext(a) \/ HandlerNext(a) \/ WaitNext(a) \/ HealthSync(a)
       \/ HeartbeatAges(a) \/ AgentAges(a)
       \/ DrainAgent(a) \/ DrainDone(a)
  \/ HealthNext
  \/ MainNext

Spec == Init /\ [][Next]_vars

(***************************************************************************)
(* Fairness.  The event loop runs every ready callback, so a coroutine     *)
(* that can go on does; the store answers; the clock does not stop.        *)
(* Nothing obliges a graph to produce its next chunk (RunStep, RunReturn,  *)
(* RunFail), a user to call a tool, or an operator to stop the platform.   *)
(* Starting a run and delivering its cancellation need the loop, which a   *)
(* health tick takes again and again: they are ready and FIFO, hence SF.   *)
(***************************************************************************)
RunMachinery(a) ==
  \E k \in Attempts :
    \/ RunBeat(a, k) \/ RunEnter(a, k) \/ RunContinue(a, k) \/ RunStop(a, k)
    \/ RunFinish(a, k) \/ RunFailed(a, k)

RunReady(a) == \E k \in Attempts : RunStart(a, k) \/ RunCancelled(a, k)

Fairness ==
  /\ \A a \in Agents :
       /\ WF_vars(RunMachinery(a))
       /\ SF_vars(RunReady(a))
       /\ WF_vars(HandleMissing(a) \/ HandleRespawn(a) \/ HandleAbort(a) \/ Respawn(a))
       /\ WF_vars(HandlerDone(a)) /\ WF_vars(WaitNext(a))
       /\ WF_vars(HealthSync(a))
       /\ WF_vars(HeartbeatAges(a)) /\ WF_vars(AgentAges(a))
       /\ WF_vars(RecallRemove(a))
       /\ WF_vars(DrainAgent(a)) /\ WF_vars(DrainDone(a))
  /\ WF_vars(HealthNext)
  /\ WF_vars(ShutdownAll) /\ WF_vars(StopChannels)

FairSpec == Spec /\ Fairness

----------------------------------------------------------------------------
(* Correctness *)

InfoType ==
  [state : States, tier : KnownTiers \cup Tiers, retry : Attempts,
   iteration : Nat, beat : {"fresh", "stale"}, age : {"young", "late"}]

\* Every variable has its type: in particular no agent is ever respawned more
\* than 3 * MaxRetries times, whatever the interleaving of ticks and tools.
TypeOK ==
  /\ agents \in SUBSET Agents
  /\ taskOf \in [Agents -> Attempts]
  /\ info \in [Agents -> InfoType]
  /\ heartbeat \in [Agents -> [beat : {"none", "fresh", "stale"}, iteration : Nat]]
  /\ result \in [Agents -> {"none", "success", "stopped", "failed"}]
  /\ directive \in [Agents -> {"none", "shutdown", "change_tier"}]
  /\ run \in [Agents -> [Attempts -> LivePcs \cup {"none", "over"}]]
  /\ cancelled \in [Agents -> SUBSET Attempts]
  /\ waiting \in [Agents -> {"no", "waiting", "overdue"}]
  /\ recalls \in SUBSET Agents
  /\ tick \in {"sleep", "sync", "handling", "stopping", "stopped"}
  /\ unsynced \in SUBSET Agents
  /\ verdict \in [Agents -> {"none", "iteration_limit", "task_timeout", "stale_heartbeat"}]
  /\ handler \in [Agents -> {"idle", "queued", "context", "waiting"}]
  /\ main \in {"up", "stopHealth", "draining", "down"}
  /\ drain \in [Agents -> {"idle", "queued", "waiting"}]

\* A run that may still act: it is alive and no cancellation is on its way.
Working(a, k) == Live(a, k) /\ k \notin cancelled[a]

\* However recovery, recall and shutdown interleave, at most one run of an
\* agent can still act: the others have been told to stop before it was created.
OneWorkingRun ==
  \A a \in Agents : \A j, k \in Attempts : Working(a, j) /\ Working(a, k) => j = k

\* A run that can still act is the one in the registry, so recall and shutdown
\* reach it ("orphan coroutines" in shutdown_all and main).
NoOrphanRun ==
  \A a \in Agents, k \in Attempts : Working(a, k) => a \in agents /\ taskOf[a] = k

\* The zombie that _respawn defends against: an agent shown as spawning or
\* running with no run behind it, outside the moment of its own respawn.
NoZombie ==
  main = "up" =>
    \A a \in agents : Active(a) /\ handler[a] # "context" => Working(a, taskOf[a])

\* An agent shown as finished has a result to read, and nothing of it still
\* acts; one shown as failed can at most be writing down its failure.
SettledMeansOver ==
  \A a \in agents :
    /\ info[a].state = "finished" =>
         result[a] \in {"success", "stopped"} /\ \A k \in Attempts : ~ Working(a, k)
    /\ info[a].state = "failed" =>
         \A k \in Attempts : Working(a, k) => run[a][k] = "failing"

(* The inductive invariant behind the four above, for a platform whose     *)
(* graphs honour cancellation.  The new facts are: runs are numbered by    *)
(* the retry count, only the newest can work, and none does while a        *)
(* respawn is in progress; only live runs are cancelled; the agent of a    *)
(* waiting deregister is gone; an end is recorded in the order result,     *)
(* state (finish) or state, result (failure).                              *)
UnbornIsBlank(a) ==
  info[a].state = "unborn" =>
    /\ a \notin agents /\ handler[a] # "context" /\ waiting[a] = "no"
    /\ \A k \in Attempts : run[a][k] = "none"

RunsAreNumbered(a) ==
  \A k \in Attempts : run[a][k] # "none" =>
    k <= info[a].retry /\ (handler[a] = "context" => k < info[a].retry)

CancelledAreLive(a) == \A k \in cancelled[a] : Live(a, k)

NewestWorks(a) ==
  \A k \in Attempts : Working(a, k) =>
    k = info[a].retry /\ handler[a] # "context" /\ (a \in agents => k = taskOf[a])

WaitedForIsGone(a) == waiting[a] # "no" => a \notin agents

RespawnIsSpawning(a) ==
  a \in agents /\ handler[a] = "context" => info[a].state = "spawning"

EndsInOrder(a) ==
  a \in agents => \A k \in Attempts : Working(a, k) =>
    /\ run[a][k] = "failing" => info[a].state = "failed"
    /\ run[a][k] = "epilogue" => result[a] \in {"success", "stopped"}

NotOrphaned(a) ==
  ~ StoreSuspends =>
    /\ handler[a] = "context" => a \in agents
    /\ \A k \in Attempts : Working(a, k) => a \in agents

NotZombie(a) ==
  main = "up" /\ a \in agents /\ Active(a) /\ handler[a] # "context" => Working(a, taskOf[a])

SettledIsOver(a) ==
  a \in agents =>
    /\ info[a].state = "finished" =>
         result[a] \in {"success", "stopped"} /\ \A k \in Attempts : ~ Working(a, k)
    /\ info[a].state = "failed" =>
         \A k \in Attempts : Working(a, k) => run[a][k] = "failing"

AgentInv(a) ==
  /\ UnbornIsBlank(a) /\ RunsAreNumbered(a) /\ CancelledAreLive(a)
  /\ NewestWorks(a) /\ WaitedForIsGone(a) /\ RespawnIsSpawning(a)
  /\ EndsInOrder(a) /\ NotOrphaned(a) /\ NotZombie(a) /\ SettledIsOver(a)

\* Handlers exist only between check_all and the end of its gather.
HandlersInTick == tick \in {"sleep", "sync"} => \A a \in Agents : handler[a] = "idle"

IInv == HandlersInTick /\ \A a \in Agents : AgentInv(a)

\* A run that recovery has replaced dies in silence: it never beats, finishes
\* or fails for the agent that goes on without it.
ReplacedRunIsSilent ==
  [][\A a \in agents, k \in Attempts :
       k # taskOf[a] /\ run'[a][k] # run[a][k] =>
         /\ run'[a][k] \in {"created", "over"}
         /\ UNCHANGED <<info, storeVars>>]_vars

\* A deregistered agent never comes back, and gets no new task.
GoneStaysGone ==
  [][\A a \in Agents : info[a].state # "unborn" /\ a \notin agents =>
       /\ a \notin agents'
       /\ \A k \in Attempts : run[a][k] = "none" => run'[a][k] = "none"]_vars

\* The runtime keeps the abstract promise of AgentLife.
Phase(a) ==
  IF info[a].state = "unborn" THEN "absent"
  ELSE IF a \notin agents THEN "gone"
  ELSE IF Active(a) THEN "live"
  ELSE info[a].state

Life == INSTANCE AgentLife WITH
          Limit <- 3 * MaxRetries,
          phase <- [a \in Agents |-> Phase(a)],
          tries <- [a \in Agents |-> info[a].retry]

ImplementsLife == Life!LifeSpec

\* While the platform is up, every agent that is at work comes to an end, even
\* if its graph hangs for ever: it finishes, fails, or the chain aborts it.
EveryAgentSettles ==
  \A a \in Agents :
    (a \in agents /\ Active(a)) ~> (a \notin agents \/ ~ Active(a) \/ main # "up")

\* A tick of the health loop comes to an end: a recovery cannot stall the
\* monitoring of the other agents for ever.
TickEnds == (tick = "handling") ~> (tick # "handling")

\* A platform told to stop goes down.
ShutdownCompletes == (main = "stopHealth") ~> (main = "down")

----------------------------------------------------------------------------
(* What the comments and docs of the code say, and the code does not do *)

\* A failed sub-agent is recovered or aborted (agent_failed, action="pending").
FailedIsRecovered ==
  \A a \in Agents : (a \in agents /\ info[a].state = "failed" /\ main = "up") ~>
                      (a \notin agents \/ info[a].state # "failed" \/ main # "up")
=============================================================================
