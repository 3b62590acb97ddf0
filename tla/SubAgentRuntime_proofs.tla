----------------------- MODULE SubAgentRuntime_proofs -----------------------
(***************************************************************************)
(* Proofs about SubAgentRuntime and RuntimeHistory, for every set of       *)
(* agents and tiers and every value of MaxRetries, MaxIterations and       *)
(* StepBound: the invariants, the life cycle of AgentLife with the two     *)
(* action properties, and the verdicts on first runs.                      *)
(***************************************************************************)
EXTENDS RuntimeHistory, TLAPS

----------------------------------------------------------------------------
(* The chain of recovery decisions *)

\* A recovery that is not an abort happens below 3 * MaxRetries, so the retry
\* count of a respawned agent is still within its bound.
LEMMA RespawnBelowBound ==
  ASSUME NEW retries \in 0..(3 * MaxRetries), NEW tier, DecideAction(retries, tier) # "abort"
  PROVE  retries + 1 \in 0..(3 * MaxRetries)
  BY MaxRetriesAssumption DEF DecideAction

\* Recovery moves only to tiers of the known order.
LEMMA TierAfterKnown ==
  ASSUME NEW retries, NEW Others, NEW tier \in KnownTiers \cup Others
  PROVE  TierAfter(retries, tier) \in KnownTiers \cup Others
  <1>1. CASE DecideAction(retries, tier) # "escalate"
    BY <1>1 DEF TierAfter
  <1>2. CASE DecideAction(retries, tier) = "escalate"
    <2>1. NextTier(tier) # NoTier
      BY <1>2 DEF DecideAction
    <2>2. PICK i \in 1..3 : TierOrder[i] = tier
      BY <2>1 DEF NextTier
    <2>3. (CHOOSE j \in 1..3 : TierOrder[j] = tier) \in 1..3
      BY <2>2
    <2>4. NextTier(tier) \in KnownTiers
      BY <2>2, <2>3 DEF NextTier, KnownTiers, TierOrder
    <2> QED
      BY <1>2, <2>4 DEF TierAfter
  <1> QED
    BY <1>1, <1>2

----------------------------------------------------------------------------
(* The AgentInfo records stay well typed *)

LEMMA InfoFields ==
  ASSUME NEW r \in InfoType
  PROVE  /\ r.state \in States
         /\ r.tier \in KnownTiers \cup Tiers
         /\ r.retry \in Attempts
         /\ r.iteration \in Nat
  BY DEF InfoType

LEMMA NewInfoTyped ==
  ASSUME NEW t \in KnownTiers \cup Tiers
  PROVE  NewInfo(t) \in InfoType
  BY MaxRetriesAssumption DEF NewInfo, InfoType, States, Attempts

\* The updates that set the state only: update_state, and giving an agent up.
LEMMA StateUpdate ==
  ASSUME TypeOK, NEW a \in Agents, NEW s \in States
  PROVE  [info EXCEPT ![a].state = s] \in [Agents -> InfoType]
  <1>1. info \in [Agents -> InfoType]
    BY DEF TypeOK
  <1>2. [info[a] EXCEPT !.state = s] \in InfoType
    BY <1>1 DEF InfoType
  <1> QED
    BY <1>1, <1>2

\* Every action that changes an AgentInfo keeps the type of its fields.
LEMMA InfoTyped ==
  ASSUME TypeOK, NEW a \in Agents, NEW k \in Attempts,
         \/ RunEnter(a, k) \/ RunStep(a, k) \/ RunFinish(a, k) \/ RunFail(a, k)
         \/ Spawn(a) \/ SwitchTier(a) \/ HandleRespawn(a) \/ HandleAbort(a) \/ RespawnRaises(a)
         \/ HealthSync(a) \/ HeartbeatAges(a) \/ AgentAges(a)
  PROVE  info' \in [Agents -> InfoType]
  <1>1. info \in [Agents -> InfoType]
    BY DEF TypeOK
  <1>2. CASE \/ RunEnter(a, k) \/ RunFinish(a, k) \/ RunFail(a, k)
             \/ HandleAbort(a) \/ RespawnRaises(a)
    <2>1. {"running", "finished", "failed"} \subseteq States
      BY DEF States
    <2>2. \E s \in {"running", "finished", "failed"} :
            info' = [info EXCEPT ![a].state = s] \/ info' = info
      BY <1>2 DEF RunEnter, RunFinish, RunFail, HandleAbort, RespawnRaises, UpdateState
    <2> QED
      BY <1>1, <2>1, <2>2, StateUpdate
  <1>3. CASE RunStep(a, k)
    <2> DEFINE r == [info[a] EXCEPT !.iteration = info[a].iteration + 1]
    <2>1. info' = [info EXCEPT ![a] = r]
      BY <1>1, <1>3 DEF RunStep
    <2>2. r \in InfoType
      BY <1>1 DEF InfoType
    <2> QED
      BY <1>1, <2>1, <2>2
  <1>4. CASE Spawn(a)
    <2>1. PICK t \in Tiers : info' = [info EXCEPT ![a] = NewInfo(t)]
      BY <1>4 DEF Spawn
    <2> QED
      BY <1>1, <2>1, NewInfoTyped
  <1>5. CASE SwitchTier(a)
    <2>1. PICK t \in Tiers : info' = [info EXCEPT ![a].tier = t]
      BY <1>5 DEF SwitchTier
    <2> DEFINE r == [info[a] EXCEPT !.tier = t]
    <2>2. info' = [info EXCEPT ![a] = r]
      BY <1>1, <2>1
    <2>3. r \in InfoType
      BY <1>1, <2>1 DEF InfoType
    <2> QED
      BY <1>1, <2>2, <2>3
  <1>6. CASE HandleRespawn(a)
    <2> DEFINE t == TierAfter(info[a].retry, info[a].tier)
               r == [info[a] EXCEPT !.tier = t, !.retry = info[a].retry + 1, !.state = "spawning"]
    <2>1. t \in KnownTiers \cup Tiers
      BY <1>1, InfoFields, TierAfterKnown
    <2>2. info[a].retry + 1 \in Attempts
      BY <1>1, <1>6, InfoFields, RespawnBelowBound DEF HandleRespawn, Redo, Attempts
    <2>3. info' = [info EXCEPT ![a] = r]
      BY <1>1, <1>6 DEF HandleRespawn, Redo
    <2>4. "spawning" \in States
      BY DEF States
    <2>5. r \in InfoType
      BY <1>1, <2>1, <2>2, <2>4 DEF InfoType
    <2> QED
      BY <1>1, <2>3, <2>5
  <1>7. CASE HealthSync(a)
    <2>1. heartbeat[a] \in [beat : {"none", "fresh", "stale"}, iteration : Nat]
      BY DEF TypeOK
    <2> DEFINE r == [info[a] EXCEPT !.beat = heartbeat[a].beat, !.iteration = heartbeat[a].iteration]
    <2>2. heartbeat[a].beat # "none" => r \in InfoType
      BY <1>1, <2>1 DEF InfoType
    <2>3. info' = info \/ (heartbeat[a].beat # "none" /\ info' = [info EXCEPT ![a] = r])
      BY <1>1, <1>7 DEF HealthSync
    <2> QED
      BY <1>1, <2>2, <2>3
  <1>8. CASE HeartbeatAges(a)
    <2> DEFINE r == [info[a] EXCEPT !.beat = "stale"]
    <2>1. r \in InfoType
      BY <1>1 DEF InfoType
    <2> QED
      BY <1>1, <1>8, <2>1 DEF HeartbeatAges
  <1>9. CASE AgentAges(a)
    <2> DEFINE r == [info[a] EXCEPT !.age = "late"]
    <2>1. r \in InfoType
      BY <1>1 DEF InfoType
    <2> QED
      BY <1>1, <1>9, <2>1 DEF AgentAges
  <1> QED
    BY <1>2, <1>3, <1>4, <1>5, <1>6, <1>7, <1>8, <1>9

\* What the registry operations leave well typed.
LEMMA CancelTyped ==
  ASSUME TypeOK, NEW a \in Agents, CancelTask(a)
  PROVE  cancelled' \in [Agents -> SUBSET Attempts]
  <1>1. cancelled[a] \cup {taskOf[a]} \in SUBSET Attempts
    BY DEF TypeOK
  <1> QED
    BY <1>1 DEF CancelTask, TypeOK

LEMMA DeregisterTyped ==
  ASSUME TypeOK, NEW a \in Agents, Deregister(a)
  PROVE  /\ agents' \in SUBSET Agents
         /\ taskOf' = taskOf
         /\ cancelled' \in [Agents -> SUBSET Attempts]
         /\ waiting' \in [Agents -> {"no", "waiting", "overdue"}]
  BY CancelTyped DEF Deregister, TypeOK

LEMMA BeatTyped ==
  ASSUME TypeOK, NEW a \in Agents, NEW n \in Nat, Beat(a, n)
  PROVE  heartbeat' \in [Agents -> [beat : {"none", "fresh", "stale"}, iteration : Nat]]
  BY DEF Beat, TypeOK

LEMMA ZeroAttempt == 0 \in Attempts
  BY MaxRetriesAssumption DEF Attempts

----------------------------------------------------------------------------
(* Type correctness *)

LEMMA InitTyped == Init => TypeOK
  BY MaxRetriesAssumption
     DEF Init, TypeOK, NewInfo, InfoType, Attempts, States, KnownTiers, TierOrder, LivePcs, StorePcs

LEMMA StepTyped ==
  ASSUME TypeOK, [Next]_vars
  PROVE  TypeOK'
  <1> USE DEF TypeOK, registryVars, storeVars, runVars, healthVars, mainVars
  <1>1. ASSUME NEW a \in Agents, NEW k \in Attempts, RunNext(a, k) PROVE TypeOK'
    <2> USE DEF LivePcs, StorePcs
    <2>1. CASE RunStart(a, k)
      BY <2>1, BeatTyped DEF RunStart, Proceeds, GoTo
    <2>2. CASE RunBeat(a, k)
      BY <2>2, BeatTyped DEF RunBeat, Proceeds, GoTo
    <2>3. CASE RunEnter(a, k)
      BY <2>3, InfoTyped DEF RunEnter, Proceeds, UpdateState, GoTo
    <2>4. CASE RunStep(a, k)
      <3>1. info[a].iteration + 1 \in Nat
        BY InfoFields
      <3> QED
        BY <2>4, <3>1, InfoTyped, BeatTyped DEF RunStep, Proceeds, GoTo
    <2>5. CASE RunContinue(a, k)
      BY <2>5 DEF RunContinue, Proceeds, GoTo
    <2>6. CASE RunStop(a, k)
      BY <2>6 DEF RunStop, Proceeds, GoTo
    <2>7. CASE RunReturn(a, k)
      BY <2>7 DEF RunReturn, Proceeds, GoTo
    <2>8. CASE RunFinish(a, k)
      BY <2>8, InfoTyped DEF RunFinish, Proceeds, UpdateState, GoTo
    <2>9. CASE RunFail(a, k)
      BY <2>9, InfoTyped DEF RunFail, Proceeds, UpdateState, GoTo
    <2>10. CASE RunFailed(a, k)
      BY <2>10 DEF RunFailed, Proceeds, GoTo
    <2>11. CASE RunCancelled(a, k)
      BY <2>11 DEF RunCancelled, GoTo
    <2>12. CASE RunIgnoresCancel(a, k)
      BY <2>12 DEF RunIgnoresCancel
    <2> QED
      BY <1>1, <2>1, <2>2, <2>3, <2>4, <2>5, <2>6, <2>7, <2>8, <2>9, <2>10, <2>11, <2>12
      DEF RunNext
  <1>2. ASSUME NEW a \in Agents,
               \/ ToolNext(a) \/ HandlerNext(a) \/ WaitNext(a) \/ HealthSync(a)
               \/ HeartbeatAges(a) \/ AgentAges(a) \/ DrainAgent(a) \/ DrainDone(a)
        PROVE  TypeOK'
    <2> USE DEF LivePcs, StorePcs
    <2>1. CASE Spawn(a)
      BY <2>1, InfoTyped, ZeroAttempt DEF Spawn, GoTo
    <2>2. CASE RecallAsk(a)
      BY <2>2 DEF RecallAsk
    <2>3. CASE RecallRemove(a)
      BY <2>3, DeregisterTyped DEF RecallRemove
    <2>4. CASE SwitchTier(a)
      BY <2>4, InfoTyped DEF SwitchTier
    <2>5. CASE HandleMissing(a)
      BY <2>5 DEF HandleMissing
    <2>6. CASE HandleRespawn(a)
      BY <2>6, InfoTyped, CancelTyped DEF HandleRespawn, Redo
    <2>7. CASE HandleAbort(a)
      BY <2>7, InfoTyped, DeregisterTyped DEF HandleAbort
    <2>8. CASE Respawn(a)
      BY <2>8, InfoFields DEF Respawn, GoTo
    <2>9. CASE RespawnRaises(a)
      BY <2>9, InfoTyped, DeregisterTyped DEF RespawnRaises
    <2>10. CASE HandlerDone(a)
      BY <2>10 DEF HandlerDone
    <2>11. CASE WaitEnds(a)
      BY <2>11 DEF WaitEnds
    <2>12. CASE WaitTimesOut(a)
      BY <2>12, CancelTyped DEF WaitTimesOut
    <2>13. CASE HealthSync(a)
      BY <2>13, InfoTyped DEF HealthSync
    <2>14. CASE HeartbeatAges(a)
      BY <2>14, InfoTyped DEF HeartbeatAges
    <2>15. CASE AgentAges(a)
      BY <2>15, InfoTyped DEF AgentAges
    <2>16. CASE DrainAgent(a)
      BY <2>16, DeregisterTyped DEF DrainAgent
    <2>17. CASE DrainDone(a)
      BY <2>17 DEF DrainDone
    <2> QED
      BY <1>2, <2>1, <2>2, <2>3, <2>4, <2>5, <2>6, <2>7, <2>8, <2>9, <2>10, <2>11, <2>12, <2>13, <2>14, <2>15, <2>16, <2>17
      DEF ToolNext, HandlerNext, WaitNext
  <1>3. CASE HealthWake
    BY <1>3 DEF HealthWake
  <1>4. CASE HealthCheck
    BY <1>4 DEF HealthCheck, Diagnosis
  <1>5. CASE HealthRest
    BY <1>5 DEF HealthRest
  <1>6. CASE ShutdownBegin
    BY <1>6 DEF ShutdownBegin
  <1>7. CASE ShutdownAll
    BY <1>7 DEF ShutdownAll
  <1>8. CASE StopChannels
    BY <1>8 DEF StopChannels
  <1>9. CASE UNCHANGED vars
    BY <1>9 DEF vars
  <1> QED
    BY <1>1, <1>2, <1>3, <1>4, <1>5, <1>6, <1>7, <1>8, <1>9 DEF Next, HealthNext, MainNext

\* Every reachable state is well typed; the interesting part is that the retry
\* count, and with it the number of runs of an agent, keeps its bound.
THEOREM TypeCorrect == Spec => []TypeOK
  BY InitTyped, StepTyped, PTL DEF Spec

----------------------------------------------------------------------------
(* The inductive invariant, for graphs that honour cancellation.           *)

\* Nothing the invariant of agent b looks at changes for the worse.
Same(b) ==
  /\ b \in agents' <=> b \in agents
  /\ taskOf'[b] = taskOf[b]
  /\ info'[b].state = info[b].state /\ info'[b].retry = info[b].retry
  /\ result'[b] = result[b]
  /\ run'[b] = run[b] /\ cancelled'[b] = cancelled[b]
  /\ waiting'[b] # "no" => waiting[b] # "no"
  /\ handler'[b] = "context" <=> handler[b] = "context"
  /\ main' = "up" => main = "up"

LEMMA SameKeeps ==
  ASSUME NEW b \in Agents, AgentInv(b), Same(b)
  PROVE  AgentInv(b)'
  <1> USE DEF Same, Working, Live, Active
  <1>1. \A k \in Attempts : /\ Live(b, k)' <=> Live(b, k)
                            /\ Working(b, k)' <=> Working(b, k)
                            /\ run'[b][k] = run[b][k]
    OBVIOUS
  <1>2. UnbornIsBlank(b)' /\ RunsAreNumbered(b)' /\ CancelledAreLive(b)' /\ WaitedForIsGone(b)'
    BY <1>1 DEF AgentInv, UnbornIsBlank, RunsAreNumbered, CancelledAreLive, WaitedForIsGone
  <1>3. NewestWorks(b)' /\ RespawnIsSpawning(b)' /\ EndsInOrder(b)' /\ NotOrphaned(b)'
    BY <1>1 DEF AgentInv, NewestWorks, RespawnIsSpawning, EndsInOrder, NotOrphaned
  <1>4. NotZombie(b)' /\ SettledIsOver(b)'
    BY <1>1 DEF AgentInv, NotZombie, SettledIsOver
  <1> QED
    BY <1>2, <1>3, <1>4 DEF AgentInv

\* A step of run k of agent a leaves the other runs alone.
LEMMA OtherRuns ==
  ASSUME TypeOK, NEW a \in Agents, NEW k \in Attempts, NEW pc, GoTo(a, k, pc)
  PROVE  /\ run'[a][k] = pc
         /\ \A j \in Attempts \ {k} : run'[a][j] = run[a][j]
         /\ \A b \in Agents \ {a} : run'[b] = run[b]
  BY DEF GoTo, TypeOK

\* Only run k works, and after its step it is at pc and works if that is live.
LEMMA StepOfRun ==
  ASSUME TypeOK, NEW a \in Agents, NEW k \in Attempts, AgentInv(a),
         NEW pc \in LivePcs \cup {"over"},
         Working(a, k), GoTo(a, k, pc), cancelled' = cancelled
  PROVE  /\ k = info[a].retry /\ handler[a] # "context" /\ info[a].state # "unborn"
         /\ a \in agents => k = taskOf[a]
         /\ ~ StoreSuspends => a \in agents
         /\ run'[a][k] = pc
         /\ \A j \in Attempts : run'[a][j] # "none" <=> run[a][j] # "none"
         /\ \A j \in Attempts : Working(a, j)' <=> (j = k /\ pc # "over")
         /\ CancelledAreLive(a)'
         /\ \A b \in Agents \ {a} : run'[b] = run[b]
  <1> USE DEF AgentInv
  <1>1. /\ k = info[a].retry /\ handler[a] # "context"
        /\ \A j \in Attempts : Working(a, j) => j = k
    BY DEF NewestWorks
  <1>2. run[a][k] # "none" /\ k \notin cancelled[a]
    BY DEF Working, Live, LivePcs, StorePcs
  <1>3. info[a].state # "unborn"
    BY <1>2 DEF UnbornIsBlank
  <1>4. pc # "none" /\ (pc \in LivePcs <=> pc # "over")
    BY DEF LivePcs, StorePcs
  <1>5. \A j \in Attempts : run'[a][j] # "none" <=> run[a][j] # "none"
    BY <1>2, <1>4, OtherRuns
  <1>6. \A j \in Attempts : Working(a, j)' <=> (j = k /\ pc # "over")
    BY <1>1, <1>2, <1>4, OtherRuns DEF Working, Live
  <1>7. CancelledAreLive(a)'
    BY <1>2, OtherRuns DEF CancelledAreLive, Live, TypeOK
  <1> QED
    BY <1>1, <1>3, <1>5, <1>6, <1>7, OtherRuns DEF NewestWorks, NotOrphaned

\* The agent of a run at work is shown as such, unless the run is failing.
LEMMA WorkingIsActive ==
  ASSUME TypeOK, NEW a \in Agents, NEW k \in Attempts, AgentInv(a), Working(a, k), a \in agents
  PROVE  /\ run[a][k] # "failing" => Active(a)
         /\ run[a][k] = "failing" => info[a].state = "failed"
         /\ run[a][k] = "epilogue" => result[a] \in {"success", "stopped"}
  <1>1. info[a].state \in States
    BY InfoFields DEF TypeOK
  <1> QED
    BY <1>1 DEF AgentInv, UnbornIsBlank, SettledIsOver, EndsInOrder, States, Active

\* The five things a run at work does to its agent: it goes on, it has written
\* its result, it has failed, it finishes, it is over with its failure.
RunEffect(a, pc) ==
  /\ pc \in LivePcs \cup {"over"}
  /\ \A b \in Agents : info'[b].retry = info[b].retry
  /\ \A b \in Agents \ {a} : info'[b].state = info[b].state /\ result'[b] = result[b]
  /\ a \notin agents => info'[a].state = info[a].state
  /\ a \in agents =>
       \/ pc \notin {"over", "failing", "epilogue"} /\ Active(a)'
       \/ pc = "epilogue" /\ Active(a)' /\ result'[a] \in {"success", "stopped"}
       \/ pc \in {"failing", "over"} /\ info'[a].state = "failed"
       \/ pc = "over" /\ info'[a].state = "finished" /\ result'[a] \in {"success", "stopped"}

LEMMA EffectKeeps ==
  ASSUME TypeOK, NEW a \in Agents, NEW k \in Attempts, AgentInv(a), NEW pc,
         Working(a, k), GoTo(a, k, pc), RunEffect(a, pc),
         UNCHANGED <<agents, taskOf, cancelled, waiting, handler, main>>
  PROVE  AgentInv(a)' /\ \A b \in Agents \ {a} : Same(b)
  <1>1. pc \in LivePcs \cup {"over"}
    BY DEF RunEffect
  <1>2. info'[a].retry = info[a].retry /\ info'[a].state # "unborn"
    BY <1>1, StepOfRun DEF RunEffect, Active
  <1>3. UnbornIsBlank(a)' /\ RunsAreNumbered(a)' /\ NewestWorks(a)'
    BY <1>1, <1>2, StepOfRun DEF AgentInv, UnbornIsBlank, RunsAreNumbered, NewestWorks
  <1>4. WaitedForIsGone(a)' /\ RespawnIsSpawning(a)' /\ CancelledAreLive(a)'
    BY <1>1, StepOfRun DEF AgentInv, WaitedForIsGone, RespawnIsSpawning
  <1>5. EndsInOrder(a)' /\ NotOrphaned(a)'
    BY <1>1, StepOfRun DEF RunEffect, EndsInOrder, NotOrphaned
  <1>6. NotZombie(a)' /\ SettledIsOver(a)'
    BY <1>1, StepOfRun DEF RunEffect, NotZombie, SettledIsOver, Active
  <1>7. \A b \in Agents \ {a} : Same(b)
    BY <1>1, StepOfRun DEF RunEffect, Same
  <1> QED
    BY <1>3, <1>4, <1>5, <1>6, <1>7 DEF AgentInv

\* update_state reaches only a registered agent.
LEMMA StateOnly ==
  ASSUME TypeOK, NEW a \in Agents, NEW s, UpdateState(a, s)
  PROVE  /\ \A b \in Agents : info'[b].retry = info[b].retry
         /\ \A b \in Agents \ {a} : info'[b].state = info[b].state
         /\ info'[a].state = IF a \in agents THEN s ELSE info[a].state
  BY InfoFields DEF UpdateState, TypeOK, InfoType

LEMMA RunKeeps ==
  ASSUME TypeOK, IgnoresCancel = FALSE, NEW a \in Agents, NEW k \in Attempts,
         AgentInv(a), RunNext(a, k)
  PROVE  AgentInv(a)' /\ \A b \in Agents \ {a} : Same(b)
  <1> USE DEF registryVars, storeVars, runVars, healthVars, mainVars
  <1>1. ASSUME NEW pc \in LivePcs, Proceeds(a, k, pc)
        PROVE  /\ Working(a, k) /\ run[a][k] = pc
               /\ a \in agents /\ pc # "failing" => Active(a)
               /\ a \in agents /\ pc = "failing" => info[a].state = "failed"
               /\ a \in agents /\ pc = "epilogue" => result[a] \in {"success", "stopped"}
    BY <1>1, WorkingIsActive DEF Proceeds, Working, Live
  <1> USE DEF LivePcs, StorePcs, RunEffect
  <1>2. CASE RunStart(a, k)
    <2>1. Proceeds(a, k, "created") /\ RunEffect(a, "starting")
      BY <1>1, <1>2 DEF RunStart, Active
    <2> QED
      BY <1>1, <1>2, <2>1, EffectKeeps DEF RunStart
  <1>3. CASE RunBeat(a, k)
    <2>1. Proceeds(a, k, "starting") /\ RunEffect(a, "beating")
      BY <1>1, <1>3 DEF RunBeat, Active
    <2> QED
      BY <1>1, <1>3, <2>1, EffectKeeps DEF RunBeat
  <1>4. CASE RunEnter(a, k)
    <2>1. Proceeds(a, k, "beating") /\ RunEffect(a, "streaming")
      BY <1>1, <1>4, StateOnly DEF RunEnter, Active
    <2> QED
      BY <1>1, <1>4, <2>1, EffectKeeps DEF RunEnter
  <1>5. CASE RunStep(a, k)
    <2>1. /\ \A b \in Agents : info'[b].retry = info[b].retry /\ info'[b].state = info[b].state
      BY <1>5 DEF RunStep, TypeOK, InfoType
    <2>2. Proceeds(a, k, "streaming") /\ RunEffect(a, "stepping")
      BY <1>1, <1>5, <2>1 DEF RunStep, Active
    <2> QED
      BY <1>1, <1>5, <2>2, EffectKeeps DEF RunStep
  <1>6. CASE RunContinue(a, k)
    <2>1. Proceeds(a, k, "stepping") /\ RunEffect(a, "streaming")
      BY <1>1, <1>6 DEF RunContinue, Active
    <2> QED
      BY <1>1, <1>6, <2>1, EffectKeeps DEF RunContinue
  <1>7. CASE RunStop(a, k)
    <2>1. Proceeds(a, k, "stepping") /\ RunEffect(a, "epilogue")
      BY <1>1, <1>7 DEF RunStop, Active, TypeOK
    <2> QED
      BY <1>1, <1>7, <2>1, EffectKeeps DEF RunStop
  <1>8. CASE RunReturn(a, k)
    <2>1. Proceeds(a, k, "streaming") /\ RunEffect(a, "epilogue")
      BY <1>1, <1>8 DEF RunReturn, Active, TypeOK
    <2> QED
      BY <1>1, <1>8, <2>1, EffectKeeps DEF RunReturn
  <1>9. CASE RunFinish(a, k)
    <2>1. Proceeds(a, k, "epilogue") /\ RunEffect(a, "over")
      BY <1>1, <1>9, StateOnly DEF RunFinish
    <2> QED
      BY <1>1, <1>9, <2>1, EffectKeeps DEF RunFinish
  <1>10. CASE RunFail(a, k)
    <2>1. \E pc \in LivePcs : Proceeds(a, k, pc)
      BY <1>10 DEF RunFail
    <2>2. RunEffect(a, "failing")
      BY <1>10, StateOnly DEF RunFail, TypeOK
    <2> QED
      BY <1>1, <1>10, <2>1, <2>2, EffectKeeps DEF RunFail
  <1>11. CASE RunFailed(a, k)
    <2>1. Proceeds(a, k, "failing") /\ RunEffect(a, "over")
      BY <1>1, <1>11 DEF RunFailed
    <2> QED
      BY <1>1, <1>11, <2>1, EffectKeeps DEF RunFailed
  <1>12. CASE RunCancelled(a, k)
    <2>1. /\ run'[a][k] = "over" /\ run[a][k] # "none"
          /\ \A j \in Attempts \ {k} : run'[a][j] = run[a][j]
          /\ \A b \in Agents \ {a} : run'[b] = run[b] /\ cancelled'[b] = cancelled[b]
          /\ cancelled'[a] = cancelled[a] \ {k}
      BY <1>12, OtherRuns DEF RunCancelled, Live, TypeOK
    <2>2. \A j \in Attempts : Working(a, j)' <=> Working(a, j)
      BY <1>12, <2>1 DEF RunCancelled, Working, Live
    <2>3. \A j \in Attempts : Working(a, j) => run'[a][j] = run[a][j]
      BY <1>12, <2>1 DEF RunCancelled, Working
    <2>4. UnbornIsBlank(a)' /\ RunsAreNumbered(a)' /\ WaitedForIsGone(a)' /\ RespawnIsSpawning(a)'
      BY <1>12, <2>1
      DEF RunCancelled, AgentInv, UnbornIsBlank, RunsAreNumbered, WaitedForIsGone, RespawnIsSpawning
    <2>5. CancelledAreLive(a)'
      BY <2>1 DEF AgentInv, CancelledAreLive, Live, TypeOK
    <2>6. NewestWorks(a)' /\ EndsInOrder(a)' /\ NotOrphaned(a)'
      BY <1>12, <2>2, <2>3 DEF RunCancelled, AgentInv, NewestWorks, EndsInOrder, NotOrphaned
    <2>7. NotZombie(a)' /\ SettledIsOver(a)'
      BY <1>12, <2>2, <2>3 DEF RunCancelled, AgentInv, NotZombie, SettledIsOver, Active, TypeOK
    <2> QED
      BY <1>12, <2>1, <2>4, <2>5, <2>6, <2>7 DEF RunCancelled, AgentInv, Same
  <1>13. CASE RunIgnoresCancel(a, k)
    BY <1>13 DEF RunIgnoresCancel
  <1> QED
    BY <1>2, <1>3, <1>4, <1>5, <1>6, <1>7, <1>8, <1>9, <1>10, <1>11, <1>12, <1>13 DEF RunNext

\* Once its registered run is cancelled, no run of the agent works.  When the
\* agent is gone already, what is cancelled is the run that was registered last.
LEMMA CancelSilences ==
  ASSUME TypeOK, NEW a \in Agents, AgentInv(a), CancelTask(a), run' = run
  PROVE  /\ \A j \in Attempts : Working(a, j)' => Working(a, j)
         /\ a \in agents => \A j \in Attempts : ~ Working(a, j)'
         /\ CancelledAreLive(a)'
         /\ \A b \in Agents \ {a} : cancelled'[b] = cancelled[b]
  <1>1. /\ cancelled'[a] = IF Live(a, taskOf[a]) THEN cancelled[a] \cup {taskOf[a]} ELSE cancelled[a]
        /\ \A b \in Agents \ {a} : cancelled'[b] = cancelled[b]
    BY DEF CancelTask, TypeOK
  <1>2. \A j \in Attempts : Working(a, j)' => Working(a, j)
    BY <1>1 DEF Working, Live
  <1>3. ASSUME a \in agents, NEW j \in Attempts PROVE ~ Working(a, j)'
    BY <1>1, <1>2, <1>3 DEF AgentInv, NewestWorks, Working, Live
  <1>4. CancelledAreLive(a)'
    BY <1>1 DEF AgentInv, CancelledAreLive, Live
  <1> QED
    BY <1>1, <1>2, <1>3, <1>4

\* Removing an agent, by recall, abort or shutdown, unless a respawn of it is
\* under way in the one event loop.
LEMMA DeregisterKeeps ==
  ASSUME TypeOK, NEW a \in Agents, AgentInv(a), Deregister(a),
         UNCHANGED <<result, run, main>>,
         ~ StoreSuspends => handler'[a] # "context",
         handler'[a] = "context" => handler[a] = "context",
         \A b \in Agents \ {a} :
           /\ info'[b].state = info[b].state /\ info'[b].retry = info[b].retry
           /\ handler'[b] = handler[b],
         info'[a].retry = info[a].retry,
         info'[a].state = "unborn" <=> info[a].state = "unborn"
  PROVE  AgentInv(a)' /\ \A b \in Agents \ {a} : Same(b)
  <1>1. /\ a \notin agents' /\ \A b \in Agents \ {a} : b \in agents' <=> b \in agents
        /\ taskOf' = taskOf
        /\ \A b \in Agents \ {a} : waiting'[b] = waiting[b]
        /\ waiting'[a] # "no" => a \in agents \/ waiting[a] # "no"
    BY DEF Deregister, TypeOK
  <1>2. /\ \A j \in Attempts : Working(a, j)' => Working(a, j)
        /\ a \in agents => \A j \in Attempts : ~ Working(a, j)'
        /\ CancelledAreLive(a)'
        /\ \A b \in Agents \ {a} : cancelled'[b] = cancelled[b]
    <2>1. CASE a \in agents /\ Live(a, taskOf[a])
      BY <2>1, CancelSilences DEF Deregister
    <2>2. CASE ~ (a \in agents /\ Live(a, taskOf[a]))
      <3>1. cancelled' = cancelled
        BY <2>2 DEF Deregister
      <3> QED
        BY <2>2, <3>1 DEF AgentInv, CancelledAreLive, NewestWorks, Working, Live
    <2> QED
      BY <2>1, <2>2
  <1>3. UnbornIsBlank(a)' /\ RunsAreNumbered(a)' /\ NewestWorks(a)'
    BY <1>1, <1>2 DEF AgentInv, UnbornIsBlank, RunsAreNumbered, NewestWorks
  <1>4. WaitedForIsGone(a)' /\ RespawnIsSpawning(a)' /\ EndsInOrder(a)' /\ NotZombie(a)' /\ SettledIsOver(a)'
    BY <1>1 DEF WaitedForIsGone, RespawnIsSpawning, EndsInOrder, NotZombie, SettledIsOver
  <1>5. NotOrphaned(a)'
    BY <1>1, <1>2 DEF AgentInv, NotOrphaned
  <1>6. \A b \in Agents \ {a} : Same(b)
    BY <1>1, <1>2 DEF Same
  <1> QED
    BY <1>2, <1>3, <1>4, <1>5, <1>6 DEF AgentInv

LEMMA ToolKeeps ==
  ASSUME TypeOK, NEW a \in Agents, AgentInv(a), ToolNext(a) \/ DrainAgent(a)
  PROVE  AgentInv(a)' /\ \A b \in Agents \ {a} : Same(b)
  <1> USE DEF registryVars, storeVars, runVars, healthVars, mainVars
  <1>1. CASE Spawn(a)
    <2>1. /\ \A b \in Agents \ {a} : info'[b] = info[b]
          /\ info'[a].state = "spawning" /\ info'[a].retry = 0
          /\ taskOf'[a] = 0 /\ \A b \in Agents \ {a} : taskOf'[b] = taskOf[b]
      BY <1>1 DEF Spawn, NewInfo, TypeOK
    <2>2. /\ \A j \in Attempts : run[a][j] = "none" /\ j \notin cancelled[a]
          /\ handler[a] # "context" /\ waiting[a] = "no"
      BY <1>1 DEF Spawn, AgentInv, UnbornIsBlank, CancelledAreLive, Live, LivePcs, StorePcs
    <2>3. /\ run'[a][0] = "created" /\ \A j \in Attempts \ {0} : run'[a][j] = "none"
          /\ \A b \in Agents \ {a} : run'[b] = run[b]
      BY <1>1, <2>2, ZeroAttempt, OtherRuns DEF Spawn
    <2>4. \A j \in Attempts : Working(a, j)' <=> j = 0
      BY <1>1, <2>2, <2>3, ZeroAttempt DEF Spawn, Working, Live, LivePcs, StorePcs
    <2>5. UnbornIsBlank(a)' /\ RunsAreNumbered(a)' /\ NewestWorks(a)' /\ CancelledAreLive(a)'
      BY <1>1, <2>1, <2>2, <2>3, <2>4, ZeroAttempt
      DEF Spawn, UnbornIsBlank, RunsAreNumbered, NewestWorks, CancelledAreLive, Attempts, TypeOK
    <2>6. WaitedForIsGone(a)' /\ RespawnIsSpawning(a)' /\ EndsInOrder(a)'
      BY <1>1, <2>1, <2>2, <2>3, <2>4
      DEF Spawn, WaitedForIsGone, RespawnIsSpawning, EndsInOrder
    <2>7. NotOrphaned(a)' /\ NotZombie(a)' /\ SettledIsOver(a)'
      BY <1>1, <2>1, <2>2, <2>4, ZeroAttempt DEF Spawn, NotOrphaned, NotZombie, SettledIsOver
    <2>8. \A b \in Agents \ {a} : Same(b)
      BY <1>1, <2>1, <2>3 DEF Spawn, Same
    <2> QED
      BY <2>5, <2>6, <2>7, <2>8 DEF AgentInv
  <1>2. CASE RecallAsk(a)
    BY <1>2, SameKeeps DEF RecallAsk, Same
  <1>3. CASE RecallRemove(a)
    <2>1. ~ StoreSuspends => handler[a] # "context"
      BY <1>3 DEF RecallRemove, Turn
    <2> QED
      BY <1>3, <2>1, DeregisterKeeps DEF RecallRemove
  <1>4. CASE SwitchTier(a)
    <2>1. \A b \in Agents : info'[b].state = info[b].state /\ info'[b].retry = info[b].retry
      <3>1. PICK t \in Tiers : info' = [info EXCEPT ![a].tier = t]
        BY <1>4 DEF SwitchTier
      <3> QED
        BY <3>1 DEF TypeOK, InfoType
    <2> QED
      BY <1>4, <2>1, SameKeeps DEF SwitchTier, Same
  <1>5. CASE DrainAgent(a)
    <2>1. ~ StoreSuspends => handler[a] # "context"
      BY <1>5 DEF DrainAgent, Turn
    <2> QED
      BY <1>5, <2>1, DeregisterKeeps DEF DrainAgent
  <1> QED
    BY <1>1, <1>2, <1>3, <1>4, <1>5 DEF ToolNext

LEMMA HandlerKeeps ==
  ASSUME TypeOK, NEW a \in Agents, AgentInv(a), HandlerNext(a) \/ WaitNext(a)
  PROVE  AgentInv(a)' /\ \A b \in Agents \ {a} : Same(b)
  <1> USE DEF registryVars, storeVars, runVars, healthVars, mainVars
  <1>1. CASE HandleMissing(a)
    BY <1>1, SameKeeps DEF HandleMissing, Same, TypeOK
  <1>2. CASE HandleRespawn(a)
    <2>1. /\ \A b \in Agents \ {a} : info'[b] = info[b]
          /\ info'[a].state = "spawning" /\ info'[a].retry = info[a].retry + 1
      BY <1>2 DEF HandleRespawn, Redo, TypeOK, InfoType
    <2>2. info[a].retry \in Attempts /\ info[a].state # "unborn"
      BY <1>2, InfoFields DEF HandleRespawn, Redo, AgentInv, UnbornIsBlank, TypeOK
    <2>3. /\ \A j \in Attempts : ~ Working(a, j)'
          /\ CancelledAreLive(a)'
          /\ \A b \in Agents \ {a} : cancelled'[b] = cancelled[b]
      BY <1>2, CancelSilences DEF HandleRespawn, Redo
    <2>4. UnbornIsBlank(a)' /\ RunsAreNumbered(a)' /\ NewestWorks(a)'
      <3>1. \A j \in Attempts : j <= info[a].retry => j < info[a].retry + 1 /\ j <= info[a].retry + 1
        BY <2>2, MaxRetriesAssumption DEF Attempts
      <3> QED
        BY <1>2, <2>1, <2>3, <3>1
        DEF HandleRespawn, Redo, AgentInv, UnbornIsBlank, RunsAreNumbered, NewestWorks
    <2>5. WaitedForIsGone(a)' /\ RespawnIsSpawning(a)' /\ EndsInOrder(a)'
      BY <1>2, <2>1, <2>3
      DEF HandleRespawn, Redo, AgentInv, WaitedForIsGone, RespawnIsSpawning, EndsInOrder
    <2>6. NotOrphaned(a)' /\ NotZombie(a)' /\ SettledIsOver(a)'
      BY <1>2, <2>1, <2>3 DEF HandleRespawn, Redo, NotOrphaned, NotZombie, SettledIsOver, TypeOK
    <2>7. \A b \in Agents \ {a} : Same(b)
      BY <1>2, <2>1, <2>3 DEF HandleRespawn, Redo, Same, TypeOK
    <2> QED
      BY <2>3, <2>4, <2>5, <2>6, <2>7 DEF AgentInv
  <1>3. CASE HandleAbort(a) \/ RespawnRaises(a)
    <2>1. /\ \A b \in Agents \ {a} : info'[b] = info[b]
          /\ info'[a].state = "failed" /\ info'[a].retry = info[a].retry
          /\ \A b \in Agents \ {a} : handler'[b] = handler[b]
          /\ handler'[a] = "waiting"
      BY <1>3 DEF HandleAbort, RespawnRaises, TypeOK, InfoType
    <2>2. info[a].state # "unborn"
      BY <1>3 DEF HandleAbort, RespawnRaises, AgentInv, UnbornIsBlank
    <2> QED
      BY <1>3, <2>1, <2>2, DeregisterKeeps DEF HandleAbort, RespawnRaises
  <1>4. CASE Respawn(a)
    <2> DEFINE k == info[a].retry
    <2>1. k \in Attempts
      BY InfoFields DEF TypeOK
    <2>2. /\ handler[a] = "context" /\ run[a][k] = "none" /\ k \notin cancelled[a]
          /\ info[a].state # "unborn"
          /\ \A j \in Attempts : ~ Working(a, j)
      BY <1>4, <2>1 DEF Respawn, AgentInv, RunsAreNumbered, CancelledAreLive, NewestWorks,
                        UnbornIsBlank, Live, LivePcs, StorePcs, Attempts
    <2>3. /\ run'[a][k] = "created"
          /\ \A j \in Attempts \ {k} : run'[a][j] = run[a][j]
          /\ \A b \in Agents \ {a} : run'[b] = run[b]
      BY <1>4, <2>1, OtherRuns DEF Respawn
    <2>4. \A j \in Attempts : Working(a, j)' <=> j = k
      BY <1>4, <2>1, <2>2, <2>3 DEF Respawn, Working, Live, LivePcs, StorePcs
    <2>5. /\ a \in agents => taskOf'[a] = k
          /\ \A b \in Agents \ {a} : taskOf'[b] = taskOf[b]
          /\ handler'[a] = "idle" /\ \A b \in Agents \ {a} : handler'[b] = handler[b]
      BY <1>4 DEF Respawn, TypeOK
    <2>6. a \in agents => info[a].state = "spawning"
      BY <2>2 DEF AgentInv, RespawnIsSpawning
    <2>7. UnbornIsBlank(a)' /\ RunsAreNumbered(a)' /\ NewestWorks(a)'
      BY <1>4, <2>1, <2>2, <2>3, <2>4, <2>5
      DEF Respawn, AgentInv, UnbornIsBlank, RunsAreNumbered, NewestWorks, Attempts
    <2>8. CancelledAreLive(a)'
      BY <1>4, <2>2, <2>3 DEF Respawn, AgentInv, CancelledAreLive, Live, TypeOK
    <2>9. WaitedForIsGone(a)' /\ RespawnIsSpawning(a)' /\ EndsInOrder(a)'
      BY <1>4, <2>3, <2>4, <2>5 DEF Respawn, AgentInv, WaitedForIsGone, RespawnIsSpawning, EndsInOrder
    <2>10. NotOrphaned(a)' /\ NotZombie(a)' /\ SettledIsOver(a)'
      BY <1>4, <2>1, <2>2, <2>4, <2>5, <2>6 DEF Respawn, AgentInv, NotOrphaned, NotZombie, SettledIsOver
    <2>11. \A b \in Agents \ {a} : Same(b)
      BY <1>4, <2>3, <2>5 DEF Respawn, Same
    <2> QED
      BY <2>7, <2>8, <2>9, <2>10, <2>11 DEF AgentInv
  <1>5. CASE HandlerDone(a)
    BY <1>5, SameKeeps DEF HandlerDone, Same, TypeOK
  <1>6. CASE WaitEnds(a)
    BY <1>6, SameKeeps DEF WaitEnds, Same, TypeOK
  <1>7. CASE WaitTimesOut(a)
    <2>1. a \notin agents /\ info[a].state # "unborn"
      BY <1>7 DEF WaitTimesOut, AgentInv, WaitedForIsGone, UnbornIsBlank
    <2>2. /\ \A j \in Attempts : Working(a, j)' => Working(a, j)
          /\ CancelledAreLive(a)'
          /\ \A b \in Agents \ {a} : cancelled'[b] = cancelled[b]
      BY <1>7, CancelSilences DEF WaitTimesOut
    <2>3. /\ UnbornIsBlank(a)' /\ RunsAreNumbered(a)' /\ NewestWorks(a)' /\ NotOrphaned(a)'
      BY <1>7, <2>1, <2>2
      DEF WaitTimesOut, AgentInv, UnbornIsBlank, RunsAreNumbered, NewestWorks, NotOrphaned
    <2>4. /\ WaitedForIsGone(a)' /\ RespawnIsSpawning(a)' /\ EndsInOrder(a)'
          /\ NotZombie(a)' /\ SettledIsOver(a)'
      BY <1>7, <2>1
      DEF WaitTimesOut, WaitedForIsGone, RespawnIsSpawning, EndsInOrder, NotZombie, SettledIsOver
    <2>5. \A b \in Agents \ {a} : Same(b)
      BY <1>7, <2>2 DEF WaitTimesOut, Same, TypeOK
    <2> QED
      BY <2>2, <2>3, <2>4, <2>5 DEF AgentInv
  <1> QED
    BY <1>1, <1>2, <1>3, <1>4, <1>5, <1>6, <1>7 DEF HandlerNext, WaitNext

LEMMA GlobalKeeps ==
  ASSUME TypeOK, IInv, HealthNext \/ MainNext
  PROVE  IInv'
  <1> USE DEF registryVars, storeVars, runVars, healthVars, mainVars, IInv
  <1>1. CASE HealthWake
    BY <1>1, SameKeeps DEF HealthWake, HandlersInTick, Same
  <1>2. CASE HealthCheck
    <2>1. \A b \in Agents : handler[b] # "context" /\ handler'[b] \in {"idle", "queued"}
      BY <1>2 DEF HealthCheck, HandlersInTick
    <2>2. HandlersInTick'
      BY <1>2 DEF HealthCheck, HandlersInTick
    <2> QED
      BY <1>2, <2>1, <2>2, SameKeeps DEF HealthCheck, Same
  <1>3. CASE HealthRest
    BY <1>3, SameKeeps DEF HealthRest, HandlersInTick, Same
  <1>4. CASE ShutdownBegin
    <2>1. /\ \A b \in Agents : handler'[b] # "context"
          /\ main' # "up" /\ tick' = "stopping"
      BY <1>4 DEF ShutdownBegin
    <2>2. \A b \in Agents, k \in Attempts : Working(b, k)' => Working(b, k)
      BY <1>4 DEF ShutdownBegin, Live, Working
    <2>3. ASSUME NEW b \in Agents PROVE AgentInv(b)'
      <3>1. UnbornIsBlank(b)' /\ RunsAreNumbered(b)' /\ NewestWorks(b)'
        BY <1>4, <2>1, <2>2
        DEF ShutdownBegin, AgentInv, UnbornIsBlank, RunsAreNumbered, NewestWorks
      <3>2. CancelledAreLive(b)'
        BY <1>4 DEF ShutdownBegin, AgentInv, CancelledAreLive, Live
      <3>3. WaitedForIsGone(b)' /\ RespawnIsSpawning(b)' /\ EndsInOrder(b)'
        BY <1>4, <2>1, <2>2
        DEF ShutdownBegin, AgentInv, WaitedForIsGone, RespawnIsSpawning, EndsInOrder
      <3>4. NotOrphaned(b)' /\ NotZombie(b)' /\ SettledIsOver(b)'
        BY <1>4, <2>1, <2>2 DEF ShutdownBegin, AgentInv, NotOrphaned, NotZombie, SettledIsOver
      <3> QED
        BY <3>1, <3>2, <3>3, <3>4 DEF AgentInv
    <2> QED
      BY <2>1, <2>3 DEF HandlersInTick
  <1>5. CASE ShutdownAll
    BY <1>5, SameKeeps DEF ShutdownAll, HandlersInTick, Same
  <1>6. CASE StopChannels
    BY <1>6, SameKeeps DEF StopChannels, HandlersInTick, Same
  <1> QED
    BY <1>1, <1>2, <1>3, <1>4, <1>5, <1>6 DEF HealthNext, MainNext

\* The inductive invariant holds of every reachable state, for any number of
\* agents and respawns and whether or not the store suspends, as long as the
\* graphs honour cancellation.
THEOREM Inductive ==
  ASSUME IgnoresCancel = FALSE
  PROVE  Spec => []IInv
  <1>1. Init => IInv
    <2> SUFFICES ASSUME Init PROVE IInv
      OBVIOUS
    <2> USE DEF Init
    <2>1. \A a \in Agents, k \in Attempts : ~ Working(a, k) /\ run[a][k] = "none"
      BY DEF Working, Live, LivePcs, StorePcs
    <2>2. \A a \in Agents : info[a].state = "unborn" /\ a \notin agents /\ cancelled[a] = {}
      BY DEF NewInfo
    <2> QED
      BY <2>1, <2>2
      DEF IInv, HandlersInTick, AgentInv, UnbornIsBlank, RunsAreNumbered, CancelledAreLive, NewestWorks,
          WaitedForIsGone, RespawnIsSpawning, EndsInOrder, NotOrphaned, NotZombie, SettledIsOver
  <1>2. TypeOK /\ IInv /\ [Next]_vars => IInv'
    <2> SUFFICES ASSUME TypeOK, IInv, [Next]_vars PROVE IInv'
      OBVIOUS
    <2> USE DEF IInv, registryVars, storeVars, runVars, healthVars, mainVars
    <2>1. ASSUME NEW a \in Agents, NEW k \in Attempts, RunNext(a, k) PROVE IInv'
      <3>1. HandlersInTick'
        BY <2>1 DEF RunNext, HandlersInTick, RunStart, RunBeat, RunEnter, RunStep, RunContinue, RunStop,
          RunReturn, RunFinish, RunFail, RunFailed, RunCancelled, RunIgnoresCancel
      <3> QED
        BY <2>1, <3>1, RunKeeps, SameKeeps
    <2>2. ASSUME NEW a \in Agents, ToolNext(a) \/ DrainAgent(a) PROVE IInv'
      <3>1. HandlersInTick'
        BY <2>2 DEF ToolNext, Spawn, RecallAsk, RecallRemove, SwitchTier, DrainAgent, HandlersInTick
      <3> QED
        BY <2>2, <3>1, ToolKeeps, SameKeeps
    <2>3. ASSUME NEW a \in Agents, HandlerNext(a) \/ WaitNext(a) PROVE IInv'
      <3>1. HandlersInTick'
        BY <2>3 DEF HandlerNext, WaitNext, HandleMissing, HandleRespawn, Redo, HandleAbort, Respawn,
          RespawnRaises, HandlerDone, WaitEnds, WaitTimesOut, HandlersInTick, TypeOK
      <3> QED
        BY <2>3, <3>1, HandlerKeeps, SameKeeps
    <2>4. ASSUME NEW a \in Agents, HealthSync(a) \/ HeartbeatAges(a) \/ AgentAges(a) \/ DrainDone(a)
          PROVE  IInv'
      <3>1. \A b \in Agents : info'[b].state = info[b].state /\ info'[b].retry = info[b].retry
        <4>1. CASE HealthSync(a)
          <5> DEFINE r == [info[a] EXCEPT !.beat = heartbeat[a].beat, !.iteration = heartbeat[a].iteration]
          <5>1. info' = info \/ info' = [info EXCEPT ![a] = r]
            BY <4>1 DEF HealthSync, TypeOK
          <5>2. r.state = info[a].state /\ r.retry = info[a].retry
            BY DEF TypeOK, InfoType
          <5> HIDE DEF r
          <5> QED
            BY <5>1, <5>2 DEF TypeOK
        <4>2. CASE HeartbeatAges(a)
          BY <4>2 DEF HeartbeatAges, TypeOK, InfoType
        <4>3. CASE AgentAges(a)
          BY <4>3 DEF AgentAges, TypeOK, InfoType
        <4>4. CASE DrainDone(a)
          BY <4>4 DEF DrainDone
        <4> QED
          BY <2>4, <4>1, <4>2, <4>3, <4>4
      <3>2. \A b \in Agents : Same(b)
        BY <2>4, <3>1 DEF HealthSync, HeartbeatAges, AgentAges, DrainDone, Same
      <3>3. HandlersInTick'
        BY <2>4 DEF HealthSync, HeartbeatAges, AgentAges, DrainDone, HandlersInTick
      <3> QED
        BY <3>2, <3>3, SameKeeps
    <2>5. CASE UNCHANGED vars
      BY <2>5, SameKeeps DEF vars, Same, HandlersInTick
    <2> QED
      BY <2>1, <2>2, <2>3, <2>4, <2>5, GlobalKeeps DEF Next
  <1> QED
    BY <1>1, <1>2, TypeCorrect, PTL DEF Spec

----------------------------------------------------------------------------
(* What it implies *)

\* At most one run of an agent can still act, however recovery, recall and
\* shutdown interleave (_respawn cancels before it creates).
THEOREM AtMostOneWorks ==
  ASSUME IgnoresCancel = FALSE
  PROVE  Spec => []OneWorkingRun
  <1>1. IInv => OneWorkingRun
    BY DEF IInv, AgentInv, NewestWorks, OneWorkingRun
  <1> QED
    BY <1>1, Inductive, PTL

\* With a store that does not suspend, every run that can act is in the
\* registry: recall and shutdown_all reach it.
THEOREM NoneOrphaned ==
  ASSUME IgnoresCancel = FALSE, StoreSuspends = FALSE
  PROVE  Spec => []NoOrphanRun
  <1>1. IInv => NoOrphanRun
    BY DEF IInv, AgentInv, NewestWorks, NotOrphaned, NoOrphanRun
  <1> QED
    BY <1>1, Inductive, PTL

\* No agent is shown as at work with nothing behind it, the zombie that the
\* except clause of _respawn is there to prevent.
THEOREM NoneZombie ==
  ASSUME IgnoresCancel = FALSE
  PROVE  Spec => []NoZombie
  <1>1. IInv /\ TypeOK => NoZombie
    BY DEF IInv, AgentInv, NotZombie, NoZombie, TypeOK
  <1> QED
    BY <1>1, Inductive, TypeCorrect, PTL

\* A finished agent has its result and a failed one nothing left to do but to
\* write down its failure.
THEOREM SettledAreOver ==
  ASSUME IgnoresCancel = FALSE
  PROVE  Spec => []SettledMeansOver
  <1>1. IInv /\ TypeOK => SettledMeansOver
    BY DEF IInv, AgentInv, SettledIsOver, SettledMeansOver, TypeOK
  <1> QED
    BY <1>1, Inductive, TypeCorrect, PTL

----------------------------------------------------------------------------
(* What a step does to the life of an agent *)

LifeSame(b) == Phase(b)' = Phase(b) /\ info'[b].retry = info[b].retry

\* The step of one agent that the abstract specification allows.
LifeMove(a) ==
  \/ LifeSame(a)
  \/ /\ info'[a].retry = info[a].retry
     /\ \/ Phase(a) = "absent" /\ Phase(a)' = "live"
        \/ Phase(a) = "live" /\ Phase(a)' \in {"finished", "failed"}
        \/ Phase(a) \in {"live", "finished", "failed"} /\ Phase(a)' = "gone"
  \/ /\ info'[a].retry = info[a].retry + 1 /\ info[a].retry < 3 * MaxRetries
     /\ Phase(a) \in {"live", "finished", "failed"} /\ Phase(a)' = "live"

\* An agent that was never spawned was never recovered.
UnbornUntried == \A a \in Agents : info[a].state = "unborn" => info[a].retry = 0

Only(a) == \A b \in Agents \ {a} : LifeSame(b)

LEMMA PhaseOf ==
  ASSUME TypeOK, NEW a \in Agents
  PROVE  /\ info[a].state = "unborn" => Phase(a) = "absent"
         /\ info[a].state # "unborn" /\ a \notin agents => Phase(a) = "gone"
         /\ info[a].state # "unborn" /\ a \in agents /\ Active(a) => Phase(a) = "live"
         /\ info[a].state # "unborn" /\ a \in agents /\ ~ Active(a) =>
              Phase(a) = info[a].state /\ Phase(a) \in {"finished", "failed"}
  <1>1. info[a].state \in States
    BY InfoFields DEF TypeOK
  <1> QED
    BY <1>1 DEF Phase, Active, States

\* A registered agent is in one of the three phases that can be left.
LEMMA RegisteredPhase ==
  ASSUME TypeOK, NEW a \in agents, AgentInv(a)
  PROVE  /\ info[a].state # "unborn"
         /\ Phase(a) \in {"live", "finished", "failed"}
  <1>1. a \in Agents /\ info[a].state # "unborn"
    BY DEF TypeOK, AgentInv, UnbornIsBlank
  <1> QED
    BY <1>1, PhaseOf

LEMMA MoveIsLifeStep ==
  ASSUME TypeOK, NEW a \in Agents, Only(a), LifeMove(a)
  PROVE  [Life!LifeNext]_(Life!lifeVars)
  <1> DEFINE ph == [x \in Agents |-> Phase(x)]
             tr == [x \in Agents |-> info[x].retry]
  <1>1. CASE LifeSame(a)
    <2>1. ph' = ph /\ tr' = tr
      BY <1>1 DEF Only, LifeSame
    <2> QED
      BY <2>1 DEF Life!lifeVars
  <1>2. CASE /\ info'[a].retry = info[a].retry
             /\ \/ Phase(a) = "absent" /\ Phase(a)' = "live"
                \/ Phase(a) = "live" /\ Phase(a)' \in {"finished", "failed"}
                \/ Phase(a) \in {"live", "finished", "failed"} /\ Phase(a)' = "gone"
    <2>1. tr' = tr
      BY <1>2 DEF Only, LifeSame
    <2>2. ph' = [ph EXCEPT ![a] = Phase(a)'] /\ ph[a] = Phase(a)
      BY DEF Only, LifeSame
    <2> HIDE DEF ph, tr
    <2>3. Life!Appear(a) \/ Life!Finish(a) \/ Life!Fail(a) \/ Life!Remove(a)
      BY <1>2, <2>1, <2>2 DEF Life!Appear, Life!Finish, Life!Fail, Life!Remove, Life!Become, ph, tr
    <2> QED
      BY <2>3 DEF Life!LifeNext
  <1>3. CASE /\ info'[a].retry = info[a].retry + 1 /\ info[a].retry < 3 * MaxRetries
             /\ Phase(a) \in {"live", "finished", "failed"} /\ Phase(a)' = "live"
    <2>1. tr' = [tr EXCEPT ![a] = tr[a] + 1] /\ tr[a] = info[a].retry
      BY <1>3 DEF Only, LifeSame
    <2>2. ph' = [ph EXCEPT ![a] = "live"] /\ ph[a] = Phase(a)
      BY <1>3 DEF Only, LifeSame
    <2>3. Life!Recover(a)
      BY <1>3, <2>1, <2>2 DEF Life!Recover, Life!Become
    <2> QED
      BY <2>3 DEF Life!LifeNext
  <1> QED
    BY <1>1, <1>2, <1>3 DEF LifeMove

\* A step that changes neither the registry nor state and retry of anybody.
LEMMA NothingMoves ==
  ASSUME agents' = agents,
         \A b \in Agents : info'[b].state = info[b].state /\ info'[b].retry = info[b].retry
  PROVE  \A b \in Agents : LifeSame(b)
  BY DEF LifeSame, Phase, Active

----------------------------------------------------------------------------
(* The runs, the tools and the handlers *)

LEMMA RunMoves ==
  ASSUME TypeOK, IInv, IgnoresCancel = FALSE, NEW a \in Agents, NEW k \in Attempts, RunNext(a, k)
  PROVE  Only(a) /\ LifeMove(a)
  <1> USE DEF registryVars, storeVars, runVars, healthVars, mainVars
  <1>1. AgentInv(a)
    BY DEF IInv
  <1>2. CASE \/ RunStart(a, k) \/ RunBeat(a, k) \/ RunContinue(a, k) \/ RunStop(a, k)
             \/ RunReturn(a, k) \/ RunFailed(a, k) \/ RunCancelled(a, k) \/ RunIgnoresCancel(a, k)
    <2>1. info' = info /\ agents' = agents
      BY <1>2 DEF RunStart, RunBeat, RunContinue, RunStop, RunReturn, RunFailed, RunCancelled, RunIgnoresCancel
    <2> QED
      BY <2>1, NothingMoves DEF Only, LifeMove
  <1>3. CASE RunStep(a, k)
    <2>1. /\ agents' = agents
          /\ \A b \in Agents : info'[b].state = info[b].state /\ info'[b].retry = info[b].retry
      BY <1>3 DEF RunStep, TypeOK, InfoType
    <2> QED
      BY <2>1, NothingMoves DEF Only, LifeMove
  <1>4. CASE RunEnter(a, k) \/ RunFinish(a, k) \/ RunFail(a, k)
    <2>1. Working(a, k) /\ run[a][k] # "failing"
      BY <1>4 DEF RunEnter, RunFinish, RunFail, Proceeds, Working, Live, LivePcs, StorePcs
    <2>2. /\ agents' = agents
          /\ \A b \in Agents \ {a} : info'[b] = info[b]
          /\ info'[a].retry = info[a].retry
          /\ a \notin agents => info'[a].state = info[a].state
          /\ a \in agents => info'[a].state \in {"running", "finished", "failed"}
      BY <1>4 DEF RunEnter, RunFinish, RunFail, UpdateState, TypeOK, InfoType
    <2>3. Only(a)
      BY <2>2 DEF Only, LifeSame, Phase, Active
    <2>4. CASE a \notin agents
      <3>1. LifeSame(a)
        BY <2>2, <2>4 DEF LifeSame, Phase, Active
      <3> QED
        BY <2>3, <3>1 DEF LifeMove
    <2>5. CASE a \in agents
      <3>1. Phase(a) = "live"
        BY <1>1, <2>1, <2>5, PhaseOf, RegisteredPhase, WorkingIsActive
      <3>2. Phase(a)' \in {"live", "finished", "failed"}
        BY <2>2, <2>5 DEF Phase, Active
      <3> QED
        BY <2>2, <2>3, <3>1, <3>2 DEF LifeMove, LifeSame
    <2> QED
      BY <2>3, <2>4, <2>5
  <1> QED
    BY <1>2, <1>3, <1>4 DEF RunNext

\* Whoever is deregistered, with its state set or not, is gone.
LEMMA DeregisterMoves ==
  ASSUME TypeOK, IInv, NEW a \in Agents, Deregister(a),
         \A b \in Agents \ {a} : info'[b] = info[b],
         info'[a].retry = info[a].retry,
         info'[a].state = info[a].state \/ (a \in agents /\ info'[a].state = "failed")
  PROVE  Only(a) /\ LifeMove(a)
  <1>1. agents' = agents \ {a}
    BY DEF Deregister
  <1>2. Only(a)
    BY <1>1 DEF Only, LifeSame, Phase, Active
  <1>3. CASE a \in agents
    <2>1. info[a].state # "unborn" /\ Phase(a) \in {"live", "finished", "failed"}
      BY <1>3, RegisteredPhase DEF IInv
    <2>2. Phase(a)' = "gone"
      BY <1>1, <2>1 DEF Phase
    <2> QED
      BY <1>2, <2>1, <2>2 DEF LifeMove
  <1>4. CASE a \notin agents
    BY <1>1, <1>2, <1>4 DEF LifeMove, LifeSame, Phase, Active
  <1> QED
    BY <1>3, <1>4

LEMMA AgentMoves ==
  ASSUME TypeOK, IInv, UnbornUntried, NEW a \in Agents,
         \/ ToolNext(a) \/ HandlerNext(a) \/ WaitNext(a) \/ HealthSync(a)
         \/ HeartbeatAges(a) \/ AgentAges(a) \/ DrainAgent(a) \/ DrainDone(a)
  PROVE  Only(a) /\ LifeMove(a)
  <1> USE DEF registryVars, storeVars, runVars, healthVars, mainVars
  <1>1. CASE Spawn(a)
    <2>1. /\ \A b \in Agents \ {a} : info'[b] = info[b]
          /\ info'[a].state = "spawning" /\ info'[a].retry = 0
          /\ agents' = agents \cup {a} /\ info[a].state = "unborn"
      BY <1>1 DEF Spawn, NewInfo, TypeOK
    <2>2. Only(a) /\ Phase(a) = "absent" /\ Phase(a)' = "live"
      BY <2>1 DEF Only, LifeSame, Phase, Active
    <2>3. info[a].retry = 0
      BY <2>1 DEF UnbornUntried
    <2> QED
      BY <2>1, <2>2, <2>3 DEF LifeMove
  <1>2. CASE RecallRemove(a) \/ DrainAgent(a)
    BY <1>2, DeregisterMoves DEF RecallRemove, DrainAgent
  <1>3. CASE HandleAbort(a) \/ RespawnRaises(a)
    <2>1. /\ \A b \in Agents \ {a} : info'[b] = info[b]
          /\ info'[a].state = "failed" /\ info'[a].retry = info[a].retry
      BY <1>3 DEF HandleAbort, RespawnRaises, TypeOK, InfoType
    <2>2. CASE a \in agents
      BY <1>3, <2>1, <2>2, DeregisterMoves DEF HandleAbort, RespawnRaises
    <2>3. CASE a \notin agents
      <3>1. agents' = agents
        BY <1>3, <2>3 DEF HandleAbort, RespawnRaises, Deregister
      <3>2. info[a].state # "unborn"
        BY <1>3 DEF IInv, AgentInv, UnbornIsBlank, HandleAbort, RespawnRaises
      <3>3. LifeSame(a) /\ Only(a)
        BY <2>1, <2>3, <3>1, <3>2 DEF Only, LifeSame, Phase, Active
      <3> QED
        BY <3>3 DEF LifeMove
    <2> QED
      BY <2>2, <2>3
  <1>4. CASE HandleRespawn(a)
    <2>1. /\ \A b \in Agents \ {a} : info'[b] = info[b]
          /\ info'[a].state = "spawning" /\ info'[a].retry = info[a].retry + 1
          /\ a \in agents /\ agents' = agents
      BY <1>4 DEF HandleRespawn, Redo, TypeOK, InfoType
    <2>2. info[a].retry < 3 * MaxRetries
      <3>1. info[a].retry + 1 \in Attempts /\ info[a].retry \in Attempts
        BY <1>4, InfoFields, RespawnBelowBound DEF HandleRespawn, TypeOK, Attempts
      <3> QED
        BY <3>1, MaxRetriesAssumption DEF Attempts
    <2>3. Only(a) /\ Phase(a)' = "live"
      BY <2>1 DEF Only, LifeSame, Phase, Active
    <2>4. Phase(a) \in {"live", "finished", "failed"}
      BY <2>1, RegisteredPhase DEF IInv
    <2> QED
      BY <2>1, <2>2, <2>3, <2>4 DEF LifeMove
  <1>5. CASE \/ RecallAsk(a) \/ SwitchTier(a) \/ HandleMissing(a) \/ Respawn(a) \/ HandlerDone(a)
             \/ WaitNext(a) \/ HealthSync(a) \/ HeartbeatAges(a) \/ AgentAges(a) \/ DrainDone(a)
    <2>1. agents' = agents
      BY <1>5 DEF RecallAsk, SwitchTier, HandleMissing, Respawn, HandlerDone, WaitNext, WaitEnds,
                  WaitTimesOut, HealthSync, HeartbeatAges, AgentAges, DrainDone
    <2>2. \A b \in Agents : info'[b].state = info[b].state /\ info'[b].retry = info[b].retry
      <3>1. CASE SwitchTier(a)
        <4>1. PICK t \in Tiers : info' = [info EXCEPT ![a].tier = t]
          BY <3>1 DEF SwitchTier
        <4> QED
          BY <4>1 DEF TypeOK, InfoType
      <3>2. CASE HealthSync(a)
        <4> DEFINE r == [info[a] EXCEPT !.beat = heartbeat[a].beat, !.iteration = heartbeat[a].iteration]
        <4>1. info' = info \/ info' = [info EXCEPT ![a] = r]
          BY <3>2 DEF HealthSync, TypeOK
        <4>2. r.state = info[a].state /\ r.retry = info[a].retry
          BY DEF TypeOK, InfoType
        <4> HIDE DEF r
        <4> QED
          BY <4>1, <4>2 DEF TypeOK
      <3>3. CASE HeartbeatAges(a)
        BY <3>3 DEF HeartbeatAges, TypeOK, InfoType
      <3>4. CASE AgentAges(a)
        BY <3>4 DEF AgentAges, TypeOK, InfoType
      <3>5. CASE \/ RecallAsk(a) \/ HandleMissing(a) \/ Respawn(a) \/ HandlerDone(a)
                 \/ WaitNext(a) \/ DrainDone(a)
        BY <3>5 DEF RecallAsk, HandleMissing, Respawn, HandlerDone, WaitNext, WaitEnds, WaitTimesOut, DrainDone
      <3> QED
        BY <1>5, <3>1, <3>2, <3>3, <3>4, <3>5
    <2> QED
      BY <2>1, <2>2, NothingMoves DEF Only, LifeMove
  <1> QED
    BY <1>1, <1>2, <1>3, <1>4, <1>5 DEF ToolNext, HandlerNext

LEMMA GlobalMoves ==
  ASSUME HealthNext \/ MainNext \/ UNCHANGED vars
  PROVE  \A b \in Agents : LifeSame(b)
  <1> USE DEF registryVars, storeVars, runVars, healthVars, mainVars
  <1>1. agents' = agents /\ info' = info
    BY DEF HealthNext, HealthWake, HealthCheck, HealthRest, MainNext, ShutdownBegin, ShutdownAll,
           StopChannels, vars
  <1> QED
    BY <1>1, NothingMoves

\* Every step moves at most one agent, and moves it as AgentLife allows.
LEMMA StepMoves ==
  ASSUME TypeOK, IInv, UnbornUntried, IgnoresCancel = FALSE, [Next]_vars
  PROVE  \/ \A b \in Agents : LifeSame(b)
         \/ \E a \in Agents : Only(a) /\ LifeMove(a)
  <1>1. ASSUME NEW a \in Agents, NEW k \in Attempts, RunNext(a, k) PROVE Only(a) /\ LifeMove(a)
    BY <1>1, RunMoves
  <1>2. ASSUME NEW a \in Agents,
               \/ ToolNext(a) \/ HandlerNext(a) \/ WaitNext(a) \/ HealthSync(a)
               \/ HeartbeatAges(a) \/ AgentAges(a) \/ DrainAgent(a) \/ DrainDone(a)
        PROVE  Only(a) /\ LifeMove(a)
    BY <1>2, AgentMoves
  <1>3. CASE HealthNext \/ MainNext \/ UNCHANGED vars
    BY <1>3, GlobalMoves
  <1> QED
    BY <1>1, <1>2, <1>3 DEF Next

LEMMA UntriedKeeps ==
  ASSUME TypeOK, TypeOK', UnbornUntried,
         \/ \A b \in Agents : LifeSame(b)
         \/ \E a \in Agents : Only(a) /\ LifeMove(a)
  PROVE  UnbornUntried'
  <1> SUFFICES ASSUME NEW b \in Agents, info'[b].state = "unborn" PROVE info'[b].retry = 0
    BY DEF UnbornUntried
  <1>1. Phase(b)' = "absent"
    BY DEF Phase
  <1>2. LifeSame(b)
    BY <1>1 DEF Only, LifeMove
  <1>3. info[b].state = "unborn"
    <2>1. Phase(b) = "absent"
      BY <1>1, <1>2 DEF LifeSame
    <2> QED
      BY <2>1, PhaseOf
  <1> QED
    BY <1>2, <1>3 DEF LifeSame, UnbornUntried

----------------------------------------------------------------------------
(* The theorems *)

\* Nobody is recovered before being spawned.
LEMMA Untried ==
  ASSUME IgnoresCancel = FALSE
  PROVE  Spec => []UnbornUntried
  <1>1. Init => UnbornUntried
    BY DEF Init, UnbornUntried, NewInfo
  <1>2. TypeOK /\ TypeOK' /\ IInv /\ UnbornUntried /\ [Next]_vars => UnbornUntried'
    BY StepMoves, UntriedKeeps
  <1> QED
    BY <1>1, <1>2, TypeCorrect, Inductive, PTL DEF Spec

\* The whole runtime, with its tasks, heartbeats, recoveries and shutdown,
\* implements the life cycle that teams of agents are built on, for any number
\* of agents and recoveries.
THEOREM RuntimeImplementsLife ==
  ASSUME IgnoresCancel = FALSE
  PROVE  Spec => ImplementsLife
  <1>1. Init => Life!LifeInit
    BY DEF Init, Life!LifeInit, Phase, NewInfo
  <1>2. TypeOK /\ IInv /\ UnbornUntried /\ [Next]_vars => [Life!LifeNext]_(Life!lifeVars)
    <2> SUFFICES ASSUME TypeOK, IInv, UnbornUntried, [Next]_vars
                 PROVE  [Life!LifeNext]_(Life!lifeVars)
      OBVIOUS
    <2>1. CASE \A b \in Agents : LifeSame(b)
      <3>1. /\ [x \in Agents |-> Phase(x)]' = [x \in Agents |-> Phase(x)]
            /\ [x \in Agents |-> info[x].retry]' = [x \in Agents |-> info[x].retry]
        BY <2>1 DEF LifeSame
      <3> QED
        BY <3>1 DEF Life!lifeVars
    <2>2. CASE \E a \in Agents : Only(a) /\ LifeMove(a)
      BY <2>2, MoveIsLifeStep
    <2> QED
      BY <2>1, <2>2, StepMoves
  <1> QED
    BY <1>1, <1>2, TypeCorrect, Inductive, Untried, PTL DEF Spec, ImplementsLife, Life!LifeSpec

\* A removed agent never comes back and gets no new task, when the store does
\* not suspend.
THEOREM GoneForGood ==
  ASSUME IgnoresCancel = FALSE, StoreSuspends = FALSE
  PROVE  Spec => GoneStaysGone
  <1> USE DEF registryVars, storeVars, runVars, healthVars, mainVars
  <1>1. TypeOK /\ IInv /\ UnbornUntried /\ [Next]_vars =>
          [\A a \in Agents : info[a].state # "unborn" /\ a \notin agents =>
             /\ a \notin agents'
             /\ \A k \in Attempts : run[a][k] = "none" => run'[a][k] = "none"]_vars
    <2> SUFFICES ASSUME TypeOK, IInv, UnbornUntried, Next,
                        NEW a \in Agents, info[a].state # "unborn", a \notin agents
                 PROVE  /\ a \notin agents'
                        /\ \A k \in Attempts : run[a][k] = "none" => run'[a][k] = "none"
      OBVIOUS
    <2>1. ~ Spawn(a) /\ ~ Respawn(a)
      BY DEF Spawn, Respawn, IInv, AgentInv, NotOrphaned
    <2>2. ASSUME NEW b \in Agents, NEW k \in Attempts, RunNext(b, k)
          PROVE  /\ agents' = agents
                 /\ \A j \in Attempts : run[a][j] = "none" => run'[a][j] = "none"
      <3>1. agents' = agents
        BY <2>2 DEF RunNext, RunStart, RunBeat, RunEnter, RunStep, RunContinue, RunStop, RunReturn,
                    RunFinish, RunFail, RunFailed, RunCancelled, RunIgnoresCancel
      <3>2. run[b][k] # "none" /\ (run' = run \/ \E pc \in LivePcs \cup {"over"} : GoTo(b, k, pc))
        BY <2>2 DEF RunNext, RunStart, RunBeat, RunEnter, RunStep, RunContinue, RunStop, RunReturn,
                    RunFinish, RunFail, RunFailed, RunCancelled, RunIgnoresCancel, Proceeds, Live,
                    LivePcs, StorePcs
      <3> QED
        BY <3>1, <3>2, OtherRuns
    <2>3. ASSUME NEW b \in Agents \ {a}, Spawn(b) \/ Respawn(b)
          PROVE  a \notin agents' /\ run'[a] = run[a]
      BY <2>3 DEF Spawn, Respawn, GoTo, TypeOK
    <2>4. ASSUME NEW b \in Agents,
                 \/ RecallAsk(b) \/ RecallRemove(b) \/ SwitchTier(b) \/ HandleMissing(b)
                 \/ HandleRespawn(b) \/ HandleAbort(b) \/ RespawnRaises(b) \/ HandlerDone(b)
                 \/ WaitNext(b) \/ HealthSync(b) \/ HeartbeatAges(b) \/ AgentAges(b)
                 \/ DrainAgent(b) \/ DrainDone(b)
          PROVE  agents' \subseteq agents /\ run' = run
      BY <2>4 DEF RecallAsk, RecallRemove, SwitchTier, HandleMissing, HandleRespawn, Redo, HandleAbort,
                  RespawnRaises, HandlerDone, WaitNext, WaitEnds, WaitTimesOut, HealthSync,
                  HeartbeatAges, AgentAges, DrainAgent, DrainDone, Deregister
    <2>5. ASSUME HealthNext \/ MainNext PROVE agents' = agents /\ run' = run
      BY <2>5 DEF HealthNext, HealthWake, HealthCheck, HealthRest, MainNext, ShutdownBegin,
                  ShutdownAll, StopChannels
    <2> QED
      BY <2>1, <2>2, <2>3, <2>4, <2>5 DEF Next, ToolNext, HandlerNext
  <1> QED
    BY <1>1, TypeCorrect, Inductive, Untried, PTL DEF Spec, GoneStaysGone

\* A run that recovery has replaced only dies: it never touches the agent that
\* goes on without it, nor its entries in the store.
THEOREM ReplacedAreSilent ==
  ASSUME IgnoresCancel = FALSE
  PROVE  Spec => ReplacedRunIsSilent
  <1> USE DEF registryVars, storeVars, runVars, healthVars, mainVars
  <1>1. TypeOK /\ IInv /\ [Next]_vars =>
          [\A a \in agents, k \in Attempts :
             k # taskOf[a] /\ run'[a][k] # run[a][k] =>
               /\ run'[a][k] \in {"created", "over"}
               /\ UNCHANGED <<info, storeVars>>]_vars
    <2> SUFFICES ASSUME TypeOK, IInv, Next, NEW a \in agents, NEW k \in Attempts,
                        k # taskOf[a], run'[a][k] # run[a][k]
                 PROVE  run'[a][k] \in {"created", "over"} /\ UNCHANGED <<info, storeVars>>
      OBVIOUS
    <2>1. a \in Agents /\ AgentInv(a) /\ info[a].state # "unborn"
      BY DEF TypeOK, IInv, AgentInv, UnbornIsBlank
    <2>2. ~ Working(a, k)
      BY <2>1 DEF AgentInv, NewestWorks
    <2>3. ASSUME NEW b \in Agents, NEW j \in Attempts, RunNext(b, j)
          PROVE  run'[a][k] \in {"created", "over"} /\ UNCHANGED <<info, storeVars>>
      <3>1. b = a /\ j = k
        <4>1. run' = run \/ \E pc \in LivePcs \cup {"over"} : GoTo(b, j, pc)
          BY <2>3 DEF RunNext, RunStart, RunBeat, RunEnter, RunStep, RunContinue, RunStop, RunReturn,
                      RunFinish, RunFail, RunFailed, RunCancelled, RunIgnoresCancel,
                      LivePcs, StorePcs
        <4> QED
          BY <2>1, <4>1, OtherRuns
      <3>2. RunCancelled(a, k) \/ RunIgnoresCancel(a, k)
        BY <2>2, <2>3, <3>1 DEF RunNext, RunStart, RunBeat, RunEnter, RunStep, RunContinue, RunStop,
                RunReturn, RunFinish, RunFail, RunFailed, Proceeds, Working, Live, LivePcs, StorePcs
      <3> QED
        BY <2>1, <3>2, OtherRuns DEF RunCancelled, RunIgnoresCancel
    <2>4. ASSUME NEW b \in Agents, Spawn(b) \/ Respawn(b)
          PROVE  run'[a][k] \in {"created", "over"} /\ UNCHANGED <<info, storeVars>>
      <3>1. CASE Spawn(b)
        <4>1. b # a
          BY <2>1, <3>1 DEF Spawn
        <4> QED
          BY <2>1, <3>1, <4>1 DEF Spawn, GoTo, TypeOK
      <3>2. CASE Respawn(b)
        BY <2>1, <3>2 DEF Respawn, GoTo, TypeOK
      <3> QED
        BY <2>4, <3>1, <3>2
    <2>5. ASSUME NEW b \in Agents,
                 \/ RecallAsk(b) \/ RecallRemove(b) \/ SwitchTier(b) \/ HandleMissing(b)
                 \/ HandleRespawn(b) \/ HandleAbort(b) \/ RespawnRaises(b) \/ HandlerDone(b)
                 \/ WaitNext(b) \/ HealthSync(b) \/ HeartbeatAges(b) \/ AgentAges(b)
                 \/ DrainAgent(b) \/ DrainDone(b)
          PROVE  run' = run
      BY <2>5 DEF RecallAsk, RecallRemove, SwitchTier, HandleMissing, HandleRespawn, Redo, HandleAbort,
                  RespawnRaises, HandlerDone, WaitNext, WaitEnds, WaitTimesOut, HealthSync,
                  HeartbeatAges, AgentAges, DrainAgent, DrainDone
    <2>6. ASSUME HealthNext \/ MainNext PROVE run' = run
      BY <2>6 DEF HealthNext, HealthWake, HealthCheck, HealthRest, MainNext, ShutdownBegin,
                  ShutdownAll, StopChannels
    <2> QED
      BY <2>3, <2>4, <2>5, <2>6 DEF Next, ToolNext, HandlerNext
  <1> QED
    BY <1>1, TypeCorrect, Inductive, PTL DEF Spec, ReplacedRunIsSilent

----------------------------------------------------------------------------
(* What the monitor counts *)

CountsTyped == cycles \in [Agents -> Nat]

\* What was counted of an agent stays; a step of its stream adds one.
LEMMA CountsGrow ==
  ASSUME CountsTyped, cycles' = Counted, NEW b \in Agents
  PROVE  /\ cycles'[b] \in Nat /\ cycles'[b] >= cycles[b]
         /\ (\E k \in Attempts : Stepped(b, k)) => cycles'[b] = cycles[b] + 1
  <1>1. cycles'[b] = IF \E k \in Attempts : Stepped(b, k) THEN cycles[b] + 1 ELSE cycles[b]
    BY DEF Counted
  <1>2. cycles[b] \in Nat
    BY DEF CountsTyped
  <1> QED
    BY <1>1, <1>2

LEMMA CountsTypedStep ==
  ASSUME CountsTyped, [HNext]_hvars
  PROVE  CountsTyped'
  BY DEF CountsTyped, HNext, hvars, Counted

\* A step in which nothing is new to the monitor of agent b: what it or the
\* store know of the iterations, one of them told the other at most.
Known(b) == {info[b].iteration, heartbeat[b].iteration}

Unmoved(b) ==
  /\ info'[b].iteration \in Known(b) \cup {0} /\ heartbeat'[b].iteration \in Known(b) \cup {0, 1}
  /\ handler'[b] = "queued" => handler[b] = "queued" /\ verdict'[b] = verdict[b]

LEMMA UnmovedKeeps ==
  ASSUME TypeOK, CountsTyped, cycles' = Counted, NEW b \in Agents, IsTold(b), Unmoved(b)
  PROVE  IsTold(b)'
  <1>1. cycles'[b] \in Nat /\ cycles'[b] >= cycles[b]
    BY CountsGrow
  <1>2. /\ info[b].iteration \in Nat /\ heartbeat[b].iteration \in Nat
        /\ cycles[b] \in Nat /\ MaxIterations \in Nat
    BY InfoFields, RuntimeAssumption DEF TypeOK, CountsTyped
  <1>3. \A n \in Known(b) \cup {0, 1} : n <= cycles'[b] + 1
    BY <1>1, <1>2 DEF IsTold, Known
  <1>4. info'[b].iteration <= cycles'[b] + 1 /\ heartbeat'[b].iteration <= cycles'[b] + 1
    BY <1>3 DEF Unmoved
  <1>5. handler'[b] = "queued" /\ verdict'[b] = "iteration_limit" => cycles'[b] >= MaxIterations
    BY <1>1, <1>2 DEF IsTold, Unmoved
  <1> QED
    BY <1>4, <1>5 DEF IsTold

\* Nothing of agent b changes at all.
Untouched(b) ==
  /\ info'[b] = info[b] /\ heartbeat'[b] = heartbeat[b]
  /\ handler'[b] = handler[b] /\ verdict'[b] = verdict[b]

LEMMA UntouchedIsUnmoved ==
  ASSUME NEW b \in Agents, Untouched(b)
  PROVE  Unmoved(b)
  BY DEF Untouched, Unmoved, Known

\* What RunStep writes, in the AgentInfo and in the store, it has counted.
LEMMA StepKeeps ==
  ASSUME TypeOK, CountsTyped, cycles' = Counted, NEW a \in Agents, NEW k \in Attempts, IsTold(a),
         RunStep(a, k)
  PROVE  IsTold(a)'
  <1> USE DEF registryVars, storeVars, runVars, healthVars, mainVars
  <1>1. /\ info[a].iteration \in Nat /\ heartbeat[a].iteration \in Nat
        /\ cycles[a] \in Nat /\ MaxIterations \in Nat
    BY InfoFields, RuntimeAssumption DEF TypeOK, CountsTyped
  <1>2. Stepped(a, k)
    BY OtherRuns DEF RunStep, Proceeds, Stepped
  <1>3. cycles'[a] = cycles[a] + 1
    BY <1>2, CountsGrow
  <1>4. /\ info'[a].iteration = info[a].iteration + 1
        /\ heartbeat'[a].iteration = info[a].iteration + 1
    BY DEF RunStep, Beat, TypeOK, InfoType
  <1>5. handler' = handler /\ verdict' = verdict
    BY DEF RunStep
  <1> QED
    BY <1>1, <1>3, <1>4, <1>5 DEF IsTold

LEMMA RunTells ==
  ASSUME TypeOK, CountsTyped, cycles' = Counted, NEW a \in Agents, NEW k \in Attempts, RunNext(a, k),
         IsTold(a)
  PROVE  IsTold(a)' /\ \A b \in Agents \ {a} : Unmoved(b)
  <1> USE DEF registryVars, storeVars, runVars, healthVars, mainVars
  <1>1. /\ handler' = handler /\ verdict' = verdict
        /\ \A b \in Agents \ {a} : info'[b] = info[b] /\ heartbeat'[b] = heartbeat[b]
    BY DEF RunNext, RunStart, RunBeat, RunEnter, RunStep, RunContinue, RunStop, RunReturn,
           RunFinish, RunFail, RunFailed, RunCancelled, RunIgnoresCancel, Beat, UpdateState, TypeOK
  <1>2. \A b \in Agents \ {a} : Unmoved(b)
    BY <1>1, UntouchedIsUnmoved DEF Untouched
  <1>3. CASE RunStep(a, k)
    BY <1>2, <1>3, StepKeeps
  <1>4. CASE RunStart(a, k) \/ RunBeat(a, k)
    <2>1. info'[a] = info[a] /\ heartbeat'[a].iteration \in {0, 1}
      BY <1>4 DEF RunStart, RunBeat, Beat, TypeOK
    <2>2. Unmoved(a)
      BY <1>1, <2>1 DEF Unmoved, Known
    <2> QED
      BY <1>2, <2>2, UnmovedKeeps
  <1>5. CASE \/ RunEnter(a, k) \/ RunContinue(a, k) \/ RunStop(a, k) \/ RunReturn(a, k)
             \/ RunFinish(a, k) \/ RunFail(a, k) \/ RunFailed(a, k)
             \/ RunCancelled(a, k) \/ RunIgnoresCancel(a, k)
    <2>1. info'[a].iteration = info[a].iteration /\ heartbeat' = heartbeat
      BY <1>5 DEF RunEnter, RunContinue, RunStop, RunReturn, RunFinish, RunFail, RunFailed,
                  RunCancelled, RunIgnoresCancel, UpdateState, TypeOK, InfoType
    <2>2. Unmoved(a)
      BY <1>1, <2>1 DEF Unmoved, Known
    <2> QED
      BY <1>2, <2>2, UnmovedKeeps
  <1> QED
    BY <1>3, <1>4, <1>5 DEF RunNext

LEMMA AgentTells ==
  ASSUME TypeOK, CountsTyped, cycles' = Counted, NEW a \in Agents, IsTold(a),
         \/ ToolNext(a) \/ HandlerNext(a) \/ WaitNext(a) \/ HealthSync(a)
         \/ HeartbeatAges(a) \/ AgentAges(a) \/ DrainAgent(a) \/ DrainDone(a)
  PROVE  \A b \in Agents : Unmoved(b)
  <1> USE DEF registryVars, storeVars, runVars, healthVars, mainVars
  <1>1. \A b \in Agents \ {a} : Untouched(b)
    <2>1. \A b \in Agents \ {a} : info'[b] = info[b] /\ handler'[b] = handler[b]
      BY DEF ToolNext, Spawn, RecallAsk, RecallRemove, SwitchTier, HandlerNext, HandleMissing,
             HandleRespawn, Redo, HandleAbort, Respawn, RespawnRaises, HandlerDone, WaitNext, WaitEnds,
             WaitTimesOut, HealthSync, HeartbeatAges, AgentAges, DrainAgent, DrainDone, Deregister, TypeOK
    <2>2. \A b \in Agents \ {a} : heartbeat'[b] = heartbeat[b] /\ verdict'[b] = verdict[b]
      BY DEF ToolNext, Spawn, RecallAsk, RecallRemove, SwitchTier, HandlerNext, HandleMissing,
             HandleRespawn, Redo, HandleAbort, Respawn, RespawnRaises, HandlerDone, WaitNext, WaitEnds,
             WaitTimesOut, HealthSync, HeartbeatAges, AgentAges, DrainAgent, DrainDone, TypeOK
    <2> QED
      BY <2>1, <2>2 DEF Untouched
  <1>2. \A b \in Agents \ {a} : Unmoved(b)
    BY <1>1, UntouchedIsUnmoved
  <1>3. CASE Spawn(a)
    <2>1. info'[a].iteration = 0 /\ heartbeat' = heartbeat /\ handler' = handler /\ verdict' = verdict
      BY <1>3 DEF Spawn, NewInfo, TypeOK
    <2> QED
      BY <1>2, <2>1 DEF Unmoved, Known
  <1>4. CASE HealthSync(a)
    <2> DEFINE r == [info[a] EXCEPT !.beat = heartbeat[a].beat, !.iteration = heartbeat[a].iteration]
    <2>1. info' = info \/ info' = [info EXCEPT ![a] = r]
      BY <1>4 DEF HealthSync, TypeOK
    <2>2. r.iteration = heartbeat[a].iteration
      BY DEF TypeOK, InfoType
    <2> HIDE DEF r
    <2>3. info'[a].iteration \in Known(a)
      BY <2>1, <2>2 DEF TypeOK, Known
    <2>4. Unmoved(a)
      BY <1>4, <2>3 DEF HealthSync, Unmoved, Known
    <2> QED
      BY <1>2, <2>4
  <1>5. CASE HandleRespawn(a) \/ HandleAbort(a) \/ RespawnRaises(a)
    <2>1. /\ info'[a].iteration = info[a].iteration /\ heartbeat' = heartbeat
          /\ handler'[a] # "queued"
      BY <1>5 DEF HandleRespawn, Redo, HandleAbort, RespawnRaises, Deregister, TypeOK, InfoType
    <2> QED
      BY <1>2, <2>1 DEF Unmoved, Known
  <1>6. CASE \/ RecallAsk(a) \/ RecallRemove(a) \/ HandleMissing(a) \/ HandlerDone(a) \/ WaitNext(a)
             \/ DrainAgent(a) \/ DrainDone(a) \/ Respawn(a)
    <2>1. /\ info' = info /\ heartbeat' = heartbeat /\ verdict' = verdict
          /\ handler'[a] = handler[a] \/ handler'[a] = "idle"
      BY <1>6 DEF RecallAsk, RecallRemove, HandleMissing, HandlerDone, WaitNext, WaitEnds, WaitTimesOut,
                  DrainAgent, DrainDone, Deregister, Respawn, TypeOK
    <2> QED
      BY <1>2, <2>1 DEF Unmoved, Known
  <1>7. CASE SwitchTier(a) \/ HeartbeatAges(a) \/ AgentAges(a)
    <2>1. info'[a].iteration = info[a].iteration
      <3>1. CASE SwitchTier(a)
        <4>1. PICK t \in Tiers : info' = [info EXCEPT ![a].tier = t]
          BY <3>1 DEF SwitchTier
        <4> QED
          BY <4>1 DEF TypeOK, InfoType
      <3>2. CASE HeartbeatAges(a) \/ AgentAges(a)
        BY <3>2 DEF HeartbeatAges, AgentAges, TypeOK, InfoType
      <3> QED
        BY <1>7, <3>1, <3>2
    <2>2. heartbeat'[a].iteration = heartbeat[a].iteration /\ verdict' = verdict /\ handler' = handler
      BY <1>7 DEF SwitchTier, HeartbeatAges, AgentAges, TypeOK
    <2> QED
      BY <1>2, <2>1, <2>2 DEF Unmoved, Known
  <1> QED
    BY <1>3, <1>4, <1>5, <1>6, <1>7 DEF ToolNext, HandlerNext

LEMMA GlobalTells ==
  ASSUME TypeOK, CountsTyped, cycles' = Counted, HealthNext \/ MainNext,
         NEW b \in Agents, IsTold(b)
  PROVE  IsTold(b)'
  <1> USE DEF registryVars, storeVars, runVars, healthVars, mainVars
  <1>1. CASE HealthCheck
    <2>1. info' = info /\ heartbeat' = heartbeat
      BY <1>1 DEF HealthCheck
    <2>2. /\ verdict'[b] = IF b \in agents THEN Diagnosis(b) ELSE "none"
          /\ handler'[b] = IF verdict'[b] = "none" THEN "idle" ELSE "queued"
      BY <1>1 DEF HealthCheck
    <2>3. cycles'[b] \in Nat /\ cycles'[b] >= cycles[b]
      BY CountsGrow
    <2>4. /\ info[b].iteration \in Nat /\ heartbeat[b].iteration \in Nat
          /\ cycles[b] \in Nat /\ MaxIterations \in Nat
      BY InfoFields, RuntimeAssumption DEF TypeOK, CountsTyped
    <2>5. verdict'[b] = "iteration_limit" => info[b].iteration > MaxIterations
      BY <2>2 DEF Diagnosis
    <2> QED
      BY <2>1, <2>3, <2>4, <2>5 DEF IsTold
  <1>2. CASE HealthWake \/ HealthRest \/ MainNext
    <2>1. info' = info /\ heartbeat' = heartbeat
      BY <1>2 DEF HealthWake, HealthRest, MainNext, ShutdownBegin, ShutdownAll, StopChannels
    <2>2. handler'[b] = "queued" => handler[b] = "queued" /\ verdict'[b] = verdict[b]
      BY <1>2 DEF HealthWake, HealthRest, MainNext, ShutdownBegin, ShutdownAll, StopChannels, TypeOK
    <2>3. Unmoved(b)
      BY <2>1, <2>2 DEF Unmoved, Known
    <2> QED
      BY <2>3, UnmovedKeeps
  <1> QED
    BY <1>1, <1>2 DEF HealthNext

LEMMA HistoryStep ==
  ASSUME TypeOK, HInv, [HNext]_hvars
  PROVE  HInv'
  <1>1. CountsTyped /\ \A b \in Agents : IsTold(b)
    BY DEF HInv, CountsTyped
  <1>2. CountsTyped'
    BY <1>1, CountsTypedStep
  <1>3. ASSUME NEW b \in Agents PROVE IsTold(b)'
    <2>1. CASE UNCHANGED hvars
      BY <1>1, <2>1 DEF hvars, vars, registryVars, storeVars, healthVars, IsTold
    <2>2. ASSUME cycles' = Counted, NEW a \in Agents, NEW k \in Attempts, RunNext(a, k) PROVE IsTold(b)'
      BY <1>1, <2>2, RunTells, UnmovedKeeps
    <2>3. ASSUME cycles' = Counted, NEW a \in Agents,
                 \/ ToolNext(a) \/ HandlerNext(a) \/ WaitNext(a) \/ HealthSync(a)
                 \/ HeartbeatAges(a) \/ AgentAges(a) \/ DrainAgent(a) \/ DrainDone(a)
          PROVE  IsTold(b)'
      BY <1>1, <2>3, AgentTells, UnmovedKeeps
    <2>4. CASE cycles' = Counted /\ (HealthNext \/ MainNext)
      BY <1>1, <2>4, GlobalTells
    <2> QED
      BY <2>1, <2>2, <2>3, <2>4 DEF HNext, Next
  <1> QED
    BY <1>2, <1>3 DEF HInv, CountsTyped

\* The invariant of the runtime with its history, with and without graphs that
\* swallow a cancellation.
THEOREM HistoryInvariant == HSpec => [](TypeOK /\ HInv)
  <1>1. HInit => Init /\ HInv
    BY DEF HInit, Init, NewInfo, HInv, IsTold
  <1>2. TypeOK /\ HInv /\ [HNext]_hvars => (TypeOK /\ HInv)'
    <2>1. [HNext]_hvars => [Next]_vars
      BY DEF HNext, hvars
    <2> QED
      BY <2>1, HistoryStep, StepTyped
  <1> QED
    BY <1>1, <1>2, InitTyped, PTL DEF HSpec

\* An agent is condemned by the iteration limit only for cycles it has made, in
\* whichever of its runs, for any number of agents, recoveries and iterations.
THEOREM LimitsAreEarned == HSpec => []LimitIsEarned
  <1>1. TypeOK /\ HInv => LimitIsEarned
    BY DEF HInv, IsTold, LimitIsEarned, Condemned
  <1> QED
    BY <1>1, HistoryInvariant, PTL
=============================================================================
