----------------------------- MODULE SwarmTeams -----------------------------
(***************************************************************************)
(* Teams of sub-agents: Swarm (launch, rollback, phase activation), the    *)
(* HarnessRunner and gates of each team, and the SwarmDriver loop of       *)
(* main.py.  The agents themselves live the life that the sub-agent        *)
(* runtime promises (AgentLife, which SubAgentRuntime implements).         *)
(*                                                                         *)
(* A team template is given by the constants: TeamOf and SeatPhase say     *)
(* which team an agent is declared for and in which of the phases          *)
(* 1..PhaseCount, 0 standing for no phase.                                 *)
(***************************************************************************)
EXTENDS AgentLife

CONSTANTS
  Teams,
  PhaseCount,      \* length of the template's list of phases
  TeamOf,          \* the team each agent is declared for
  SeatPhase,       \* the phase each agent is declared for, 0 for none
  ExplicitGates,   \* gates passed to launch: default stands for none given
  SpawnRaises,     \* whether Spawner.spawn may raise
  Recalls,         \* whether the agents of a team may be recalled
  SpawnSuspends    \* whether Spawner.spawn may hand the loop to another task

ASSUME TeamsAssumption ==
  /\ "none" \notin Teams
  /\ PhaseCount \in Nat \ {0}
  /\ TeamOf \in [Agents -> Teams]
  /\ SeatPhase \in [Agents -> 0..PhaseCount]
  /\ ExplicitGates \in [Teams -> [1..PhaseCount -> {"default", "tasks", "approval", "artifact"}]]
  /\ SpawnRaises \in BOOLEAN /\ Recalls \in BOOLEAN /\ SpawnSuspends \in BOOLEAN

VARIABLES
  launch,       \* where the launch call of each team is
  toSpawn,      \* agents that launch has still to spawn, or to roll back
  teams,        \* keys of Swarm._teams
  members,      \* Swarm._team_agents; {} for a team that has no entry
  index,        \* HarnessRunner._index, counted from 1
  granted,      \* _team_approvals, and artifacts in the workspace
  pending,      \* teams the current tick of the driver has still to visit
  activating,   \* the team whose next phase the driver is staffing, or none
  toActivate,   \* agents activate_phase has still to spawn
  errored,      \* SwarmDriver._errored
  completed,    \* SwarmDriver._completed
  announced     \* team_phase events of each team with status complete

launchVars == <<launch, toSpawn, teams, members>>
driverVars == <<pending, activating, toActivate, errored, completed, announced>>
tvars == <<lifeVars, launchVars, index, granted, driverVars>>

NoTeam == "none"

----------------------------------------------------------------------------
(* The template *)

Crew(t, p) == {a \in Agents : TeamOf[a] = t /\ SeatPhase[a] = p}

Declared(t) == {a \in Agents : TeamOf[a] = t}

IsPhased(t) == \E a \in Declared(t) : SeatPhase[a] # 0

\* A phased template starts with its first phase, a legacy one with everybody.
FirstCrew(t) == IF IsPhased(t) THEN Crew(t, 1) ELSE Declared(t)

\* launch gives the phases that have agents the gate that waits for them.
Gate(t, p) ==
  IF ExplicitGates[t][p] # "default" THEN ExplicitGates[t][p]
  ELSE IF IsPhased(t) /\ Crew(t, p) # {} THEN "tasks" ELSE "none"

Registered(a) == phase[a] \in {"live", "finished", "failed"}

IsFinished(t) == index[t] > PhaseCount

\* A gate that is not scoped to the team: it looks at every registered agent.
GatePassesUnscoped(t) ==
  LET gate == Gate(t, index[t])
  IN  \/ gate = "none"
      \/ gate = "tasks" /\ \A a \in Agents : Registered(a) => phase[a] = "finished"
      \/ gate \in {"approval", "artifact"} /\ <<t, index[t]>> \in granted

\* A gate that looks at the agents of its own phase only.
GatePassesOwnCrew(t) ==
  LET gate == Gate(t, index[t])
  IN  \/ gate = "none"
      \/ gate = "tasks" /\ \A a \in Crew(t, index[t]) : Registered(a) => phase[a] = "finished"
      \/ gate \in {"approval", "artifact"} /\ <<t, index[t]>> \in granted

\* PhaseGate.check, in the context of one team.
GatePasses(t) ==
  LET gate == Gate(t, index[t])
  IN  \/ gate = "none"
      \/ gate = "tasks" /\ \A a \in members[t] : Registered(a) => phase[a] = "finished"
      \/ gate \in {"approval", "artifact"} /\ <<t, index[t]>> \in granted

----------------------------------------------------------------------------
Init ==
  /\ LifeInit
  /\ launch = [t \in Teams |-> "new"]
  /\ toSpawn = [t \in Teams |-> {}]
  /\ teams = {}
  /\ members = [t \in Teams |-> {}]
  /\ index = [t \in Teams |-> 1]
  /\ granted = {}
  /\ pending = {}
  /\ activating = NoTeam
  /\ toActivate = {}
  /\ errored = {}
  /\ completed = {}
  /\ announced = [t \in Teams |-> 0]

\* Spawns that do not suspend run to the end of their loop.
Turn(p) ==
  \/ SpawnSuspends
  \/ /\ \A t \in Teams : launch[t] = "spawning" => p = <<"launch", t>>
     /\ activating # NoTeam => p = <<"driver", activating>>

\* _spawn_one: spawn, register, and enter in the list of the team.
SpawnOne(t, a) == Appear(a) /\ members' = [members EXCEPT ![t] = @ \cup {a}]

----------------------------------------------------------------------------
(* Swarm.launch *)

Launch(t) ==
  /\ launch[t] = "new" /\ Turn(<<"launch", t>>)
  /\ launch' = [launch EXCEPT ![t] = "spawning"]
  /\ toSpawn' = [toSpawn EXCEPT ![t] = FirstCrew(t)]
  /\ UNCHANGED <<lifeVars, teams, members, index, granted, driverVars>>

LaunchSpawn(t, a) ==
  /\ launch[t] = "spawning" /\ a \in toSpawn[t] /\ Turn(<<"launch", t>>)
  /\ SpawnOne(t, a)
  /\ toSpawn' = [toSpawn EXCEPT ![t] = @ \ {a}]
  /\ UNCHANGED <<launch, teams, index, granted, driverVars>>

LaunchReturns(t) ==
  /\ launch[t] = "spawning" /\ toSpawn[t] = {} /\ Turn(<<"launch", t>>)
  /\ teams' = teams \cup {t}
  /\ launch' = [launch EXCEPT ![t] = "returned"]
  /\ UNCHANGED <<lifeVars, toSpawn, members, index, granted, driverVars>>

\* No rollback: the agents spawned so far are left in the registry.
LaunchFailsKeeps(t) ==
  /\ SpawnRaises /\ launch[t] = "spawning" /\ toSpawn[t] # {} /\ Turn(<<"launch", t>>)
  /\ launch' = [launch EXCEPT ![t] = "rollback"]
  /\ toSpawn' = [toSpawn EXCEPT ![t] = {}]
  /\ UNCHANGED <<lifeVars, teams, members, index, granted, driverVars>>

\* A spawn raises: whoever is in the list of the team is to be rolled back.
LaunchFails(t) ==
  /\ SpawnRaises /\ launch[t] = "spawning" /\ toSpawn[t] # {} /\ Turn(<<"launch", t>>)
  /\ launch' = [launch EXCEPT ![t] = "rollback"]
  /\ toSpawn' = [toSpawn EXCEPT ![t] = members[t]]
  /\ UNCHANGED <<lifeVars, teams, members, index, granted, driverVars>>

\* deregister, which awaits the end of the task: others run in between.
RollbackOne(t, a) ==
  /\ launch[t] = "rollback" /\ a \in toSpawn[t] /\ Turn(<<"rollback", t>>)
  /\ IF Registered(a) THEN Remove(a) ELSE UNCHANGED lifeVars
  /\ toSpawn' = [toSpawn EXCEPT ![t] = @ \ {a}]
  /\ UNCHANGED <<launch, teams, members, index, granted, driverVars>>

\* The entries of the team are popped and the exception goes to the caller.
LaunchRaises(t) ==
  /\ launch[t] = "rollback" /\ toSpawn[t] = {} /\ Turn(<<"rollback", t>>)
  /\ launch' = [launch EXCEPT ![t] = "raised"]
  /\ members' = [members EXCEPT ![t] = {}]
  /\ UNCHANGED <<lifeVars, toSpawn, teams, index, granted, driverVars>>

----------------------------------------------------------------------------
(* SwarmDriver.  Between two visits nothing awaits, so a tick hands the    *)
(* loop to others only while a phase is being staffed.                     *)

\* tick: a snapshot of the teams.
DriverWakes ==
  /\ pending = {} /\ activating = NoTeam /\ Turn(<<"tick">>)
  /\ teams # {}
  /\ pending' = teams
  /\ UNCHANGED <<lifeVars, launchVars, index, granted,
                 activating, toActivate, errored, completed, announced>>

Visits(t) == t \in pending /\ activating = NoTeam /\ Turn(<<"tick">>)

Visited(t) == pending' = pending \ {t}

\* _completed is not consulted.
MarkCompleteAgain(t) ==
  /\ completed' = completed \cup {t}
  /\ announced' = [announced EXCEPT ![t] = @ + 1]

MarkComplete(t) ==
  /\ completed' = completed \cup {t}
  /\ announced' = [announced EXCEPT ![t] = IF t \in completed THEN @ ELSE @ + 1]

\* A parked team, a legacy one, or one whose gate is closed.
DriverPasses(t) ==
  /\ Visits(t)
  /\ t \in errored \/ ~ IsPhased(t) \/ (~ IsFinished(t) /\ ~ GatePasses(t))
  /\ Visited(t)
  /\ UNCHANGED <<lifeVars, launchVars, index, granted,
                 activating, toActivate, errored, completed, announced>>

DriverCompletes(t) ==
  /\ Visits(t) /\ t \notin errored /\ IsPhased(t) /\ IsFinished(t)
  /\ MarkComplete(t)
  /\ Visited(t)
  /\ UNCHANGED <<lifeVars, launchVars, index, granted, activating, toActivate, errored>>

\* try_advance passes the gate; the last phase completes the team, any other
\* is staffed before the tick goes on.
DriverAdvances(t) ==
  /\ Visits(t) /\ t \notin errored /\ IsPhased(t) /\ ~ IsFinished(t) /\ GatePasses(t)
  /\ index' = [index EXCEPT ![t] = @ + 1]
  /\ IF index[t] = PhaseCount
       THEN MarkComplete(t) /\ Visited(t) /\ UNCHANGED <<activating, toActivate>>
       ELSE /\ activating' = t
            /\ toActivate' = Crew(t, index[t] + 1)
            /\ UNCHANGED <<pending, completed, announced>>
  /\ UNCHANGED <<lifeVars, launchVars, granted, errored>>

ActivateSpawn(a) ==
  /\ activating # NoTeam /\ a \in toActivate /\ Turn(<<"driver", activating>>)
  /\ SpawnOne(activating, a)
  /\ toActivate' = toActivate \ {a}
  /\ UNCHANGED <<launch, toSpawn, teams, index, granted,
                 pending, activating, errored, completed, announced>>

ActivateReturns ==
  /\ activating # NoTeam /\ toActivate = {} /\ Turn(<<"driver", activating>>)
  /\ activating' = NoTeam
  /\ Visited(activating)
  /\ UNCHANGED <<lifeVars, launchVars, index, granted, toActivate, errored, completed, announced>>

\* The team is not parked: the next tick looks at a phase nobody is in.
ActivateFailsUnparked ==
  /\ SpawnRaises /\ activating # NoTeam /\ toActivate # {} /\ Turn(<<"driver", activating>>)
  /\ activating' = NoTeam
  /\ toActivate' = {}
  /\ Visited(activating)
  /\ UNCHANGED <<lifeVars, launchVars, index, granted, errored, completed, announced>>

\* A spawn raises: the agents spawned before it stay, the team is parked.
ActivateFails ==
  /\ SpawnRaises /\ activating # NoTeam /\ toActivate # {} /\ Turn(<<"driver", activating>>)
  /\ errored' = errored \cup {activating}
  /\ activating' = NoTeam
  /\ toActivate' = {}
  /\ Visited(activating)
  /\ UNCHANGED <<lifeVars, launchVars, index, granted, completed, announced>>

----------------------------------------------------------------------------
(* What happens around the teams *)

\* An agent finishes, fails, is aborted at the end of the recovery chain, or
\* is recalled ...
AgentEnds(a) ==
  /\ Finish(a) \/ Fail(a) \/ ((tries[a] = Limit \/ Recalls) /\ Remove(a))
  /\ UNCHANGED <<launchVars, index, granted, driverVars>>
\* ... or is put back to work.
AgentRecovers(a) == Recover(a) /\ UNCHANGED <<launchVars, index, granted, driverVars>>

AgentStep(a) == Turn(<<"agent", a>>) /\ (AgentEnds(a) \/ AgentRecovers(a))

\* An operator approves, an agent writes the artifact of a phase ...
Grant(t, p) ==
  /\ Gate(t, p) \in {"approval", "artifact"} /\ Turn(<<"other">>)
  /\ t \in teams /\ <<t, p>> \notin granted
  /\ granted' = granted \cup {<<t, p>>}
  /\ UNCHANGED <<lifeVars, launchVars, index, driverVars>>

\* ... or removes it again.
ArtifactGone(t, p) ==
  /\ Gate(t, p) = "artifact" /\ Turn(<<"other">>)
  /\ <<t, p>> \in granted
  /\ granted' = granted \ {<<t, p>>}
  /\ UNCHANGED <<lifeVars, launchVars, index, driverVars>>

LaunchNext(t) ==
  \/ LaunchReturns(t) \/ LaunchRaises(t)
  \/ \E a \in Agents : LaunchSpawn(t, a) \/ RollbackOne(t, a)

DriverVisit(t) == DriverPasses(t) \/ DriverCompletes(t) \/ DriverAdvances(t)

DriverNext ==
  \/ DriverWakes \/ \E t \in Teams : DriverVisit(t)
  \/ ActivateReturns \/ \E a \in Agents : ActivateSpawn(a)

Next ==
  \/ \E t \in Teams : Launch(t) \/ LaunchFails(t) \/ LaunchNext(t)
  \/ DriverNext \/ ActivateFails
  \/ \E a \in Agents : AgentStep(a)
  \/ \E t \in Teams, p \in 1..PhaseCount : Grant(t, p) \/ ArtifactGone(t, p)

Spec == Init /\ [][Next]_tvars

(***************************************************************************)
(* Fairness: launch and driver are coroutines that the loop runs; an agent *)
(* at work comes to an end (EveryAgentSettles of SubAgentRuntime).  No     *)
(* agent has to fail, to be recovered or to be recalled.                   *)
(***************************************************************************)
Fairness ==
  /\ \A t \in Teams : WF_tvars(LaunchNext(t))
  /\ \A t \in Teams : WF_tvars(DriverVisit(t))
  /\ WF_tvars(DriverNext)
  /\ \A a \in Agents : WF_tvars(Turn(<<"agent", a>>) /\ AgentEnds(a) /\ phase[a] = "live")

FairSpec == Spec /\ Fairness

----------------------------------------------------------------------------
(* Correctness *)

TypeOK ==
  /\ LifeTypeOK
  /\ launch \in [Teams -> {"new", "spawning", "returned", "rollback", "raised"}]
  /\ toSpawn \in [Teams -> SUBSET Agents]
  /\ teams \in SUBSET Teams
  /\ members \in [Teams -> SUBSET Agents]
  /\ index \in [Teams -> 1..(PhaseCount + 1)]
  /\ granted \in SUBSET (Teams \X (1..PhaseCount))
  /\ pending \in SUBSET Teams
  /\ activating \in Teams \cup {NoTeam}
  /\ toActivate \in SUBSET Agents
  /\ errored \in SUBSET Teams
  /\ completed \in SUBSET Teams
  /\ announced \in [Teams -> Nat]

\* "Launch is transactional": when it has raised, no agent of the team is left
\* in the registry, whatever the agents did during the rollback; when it has
\* returned, the whole first crew has been spawned and is listed.
LaunchAllOrNothing ==
  \A t \in Teams :
    /\ launch[t] = "raised" => \A a \in Declared(t) : ~ Registered(a)
    /\ t \in teams => FirstCrew(t) \subseteq members[t]

\* A phase is never left or entered unstaffed: everybody of the phases up to
\* the current one has been spawned, unless the driver is at it or has parked
\* the team; nobody of a later phase has.
PhasesInStep ==
  \A t \in teams : \A a \in Declared(t) : SeatPhase[a] # 0 =>
    /\ SeatPhase[a] < index[t] => phase[a] # "absent"
    /\ SeatPhase[a] = index[t] => phase[a] # "absent" \/ activating = t \/ t \in errored
    /\ SeatPhase[a] > index[t] => phase[a] = "absent"

\* A team is announced complete once, when its harness has left its last
\* phase, and never when it was parked on the way.
CompleteOnce ==
  \A t \in Teams :
    /\ announced[t] <= 1
    /\ t \in completed => announced[t] = 1 /\ IsFinished(t) /\ t \notin errored

\* A team does not pass a phase with a task gate while one of its agents is at work
\* or has failed: the gate looks at all agents of the team and at no others.
AdvanceWaits ==
  [][\A t \in Teams : index'[t] # index[t] =>
       /\ index'[t] = index[t] + 1
       /\ Gate(t, index[t]) = "tasks" =>
            \A a \in Declared(t) : phase[a] \in {"absent", "finished", "gone"}]_tvars

\* A team's end: complete, parked, held by a failed agent, or waiting for a
\* grant.
Settled(t) ==
  \/ t \in completed \/ t \in errored \/ ~ IsPhased(t)
  \/ \E a \in members[t] : phase[a] = "failed"
  \/ ~ IsFinished(t) /\ Gate(t, index[t]) \in {"approval", "artifact"}

\* Every team that was launched settles, whatever happens to the other teams.
TeamsSettle == \A t \in Teams : <>[](t \in teams => Settled(t))

=============================================================================
