------------------------- MODULE SwarmTeams_proofs -------------------------
(***************************************************************************)
(* Proofs about SwarmTeams, for every set of teams and agents, every       *)
(* template, every choice of gates and every bound on recoveries.          *)
(***************************************************************************)
EXTENDS SwarmTeams, TLAPS

----------------------------------------------------------------------------
(* The inductive invariant                                                 *)
(*                                                                         *)
(* A team's list holds all of its agents that ever appeared, so a rollback *)
(* and a gate that go by the list miss nobody; how much of the first crew  *)
(* is on it depends on where launch is.                                    *)

ListIsExact(t) ==
  /\ \A a \in members[t] \cup toSpawn[t] : TeamOf[a] = t
  /\ \A a \in members[t] : phase[a] # "absent"
  /\ launch[t] # "raised" => \A a \in Declared(t) : phase[a] # "absent" => a \in members[t]

LaunchInOrder(t) ==
  /\ t \in teams <=> launch[t] = "returned"
  /\ t \notin teams => index[t] = 1
  /\ launch[t] = "new" => members[t] = {} /\ toSpawn[t] = {}
  /\ launch[t] = "spawning" =>
       members[t] \cup toSpawn[t] = FirstCrew(t)
  /\ launch[t] = "returned" => FirstCrew(t) \subseteq members[t] /\ toSpawn[t] = {}
  /\ launch[t] = "rollback" => \A a \in members[t] : a \in toSpawn[t] \/ ~ Registered(a)
  /\ launch[t] = "raised" => \A a \in Declared(t) : ~ Registered(a)

\* The body of PhasesInStep, for one team.
Staffed(t) ==
  \A a \in Declared(t) : SeatPhase[a] # 0 =>
    /\ SeatPhase[a] < index[t] => phase[a] # "absent"
    /\ SeatPhase[a] = index[t] => phase[a] # "absent" \/ activating = t \/ t \in errored
    /\ SeatPhase[a] > index[t] => phase[a] = "absent"

\* While the driver staffs a phase, whoever is not spawned is still to come.
Staffing(t) ==
  activating = t =>
    /\ t \in pending /\ t \notin errored /\ t \notin completed /\ ~ IsFinished(t)
    /\ \A a \in Crew(t, index[t]) : a \in toActivate \/ phase[a] # "absent"
    /\ toActivate \subseteq Crew(t, index[t])

Announced(t) ==
  /\ announced[t] = IF t \in completed THEN 1 ELSE 0
  /\ t \in completed => IsFinished(t) /\ t \notin errored

TeamInv(t) ==
  /\ ListIsExact(t) /\ LaunchInOrder(t) /\ Staffing(t) /\ Announced(t)
  /\ t \in teams => Staffed(t)

DriverInv == pending \subseteq teams /\ completed \subseteq teams /\ errored \subseteq teams

TInv == TypeOK /\ DriverInv /\ \A t \in Teams : TeamInv(t)

----------------------------------------------------------------------------
(* Agents that go about their life *)

\* Nothing that the invariant of team t looks at changes: its agents may only
\* move between phases other than absent, and leave the registry.
Same(t) ==
  /\ launch'[t] = launch[t] /\ toSpawn'[t] = toSpawn[t] /\ members'[t] = members[t]
  /\ index'[t] = index[t] /\ announced'[t] = announced[t]
  /\ t \in teams' <=> t \in teams
  /\ t \in completed' <=> t \in completed
  /\ t \in errored' <=> t \in errored
  /\ activating' = t => activating = t /\ t \in pending' /\ toActivate' = toActivate
  /\ activating = t => activating' = t
  /\ \A a \in Declared(t) : /\ phase'[a] = "absent" <=> phase[a] = "absent"
                            /\ Registered(a)' => Registered(a)

LEMMA SameKeeps ==
  ASSUME TypeOK, NEW t \in Teams, TeamInv(t), Same(t)
  PROVE  TeamInv(t)'
  <1> USE DEF Same, TeamInv
  <1>1. /\ members[t] \subseteq Agents /\ toSpawn[t] \subseteq Agents
        /\ \A a \in members[t] \cup toSpawn[t] : a \in Declared(t)
    BY DEF ListIsExact, Declared, TypeOK
  <1>2. ListIsExact(t)'
    BY <1>1 DEF ListIsExact, Declared
  <1>3. LaunchInOrder(t)'
    BY <1>1 DEF LaunchInOrder, FirstCrew, Crew, Declared, IsPhased
  <1>4. Staffing(t)'
    BY DEF Staffing, Crew, IsFinished, Declared
  <1>5. Announced(t)'
    BY DEF Announced, IsFinished
  <1>6. Staffed(t)' \/ t \notin teams'
    BY DEF Staffed, Declared
  <1> QED
    BY <1>2, <1>3, <1>4, <1>5, <1>6

LEMMA AgentKeeps ==
  ASSUME TInv, NEW a \in Agents, AgentStep(a)
  PROVE  TInv'
  <1> USE DEF TInv
  <1>1. UNCHANGED <<launchVars, index, granted, driverVars>>
    BY DEF AgentStep, AgentEnds, AgentRecovers
  <1>2. LifeTypeOK'
    <2>1. phase \in [Agents -> Phases] /\ tries \in [Agents -> 0..Limit]
      BY DEF TypeOK, LifeTypeOK
    <2>2. CASE AgentEnds(a)
      BY <2>1, <2>2 DEF AgentEnds, Finish, Fail, Remove, Become, LifeTypeOK, Phases
    <2>3. CASE AgentRecovers(a)
      <3>1. tries[a] + 1 \in 0..Limit
        BY <2>1, <2>3, LimitAssumption DEF AgentRecovers, Recover
      <3> QED
        BY <2>1, <2>3, <3>1 DEF AgentRecovers, Recover, Become, LifeTypeOK, Phases
    <2> QED
      BY <2>2, <2>3 DEF AgentStep
  <1>3. \A b \in Agents : /\ phase'[b] = "absent" <=> phase[b] = "absent"
                          /\ Registered(b)' => Registered(b)
    BY DEF AgentStep, AgentEnds, AgentRecovers, Finish, Fail, Recover, Remove, Become, Registered,
           TypeOK, LifeTypeOK
  <1>4. TypeOK' /\ DriverInv'
    BY <1>1, <1>2 DEF TypeOK, DriverInv, launchVars, driverVars
  <1>5. \A t \in Teams : Same(t)
    BY <1>1, <1>3 DEF Same, Declared, launchVars, driverVars, DriverInv, TeamInv, Staffing
  <1> QED
    BY <1>4, <1>5, SameKeeps

----------------------------------------------------------------------------
(* Launch *)

\* What spawning agent a for team t does to the phases.
LEMMA SpawnEffect ==
  ASSUME TypeOK, NEW t \in Teams, NEW a \in Agents, SpawnOne(t, a)
  PROVE  /\ phase[a] = "absent" /\ phase'[a] = "live"
         /\ \A b \in Agents \ {a} : phase'[b] = phase[b]
         /\ members'[t] = members[t] \cup {a}
         /\ \A u \in Teams \ {t} : members'[u] = members[u]
         /\ LifeTypeOK' /\ members' \in [Teams -> SUBSET Agents]
  BY DEF SpawnOne, Appear, Become, TypeOK, LifeTypeOK, Phases

LEMMA LaunchKeeps ==
  ASSUME TInv, NEW t \in Teams, Launch(t) \/ LaunchFails(t) \/ LaunchNext(t)
  PROVE  TInv'
  <1> USE DEF TInv
  <1>1. TypeOK /\ TeamInv(t) /\ DriverInv
    OBVIOUS
  <1>2. UNCHANGED <<index, granted, driverVars>>
    BY DEF Launch, LaunchFails, LaunchNext, LaunchReturns, LaunchRaises, LaunchSpawn, RollbackOne
  <1>3. activating # t \/ launch[t] = "returned"
    BY DEF TeamInv, Staffing, LaunchInOrder, DriverInv
  <1>4. CASE Launch(t)
    <2>1. /\ launch[t] = "new" /\ launch'[t] = "spawning"
          /\ toSpawn'[t] = FirstCrew(t) /\ FirstCrew(t) \in SUBSET Agents
          /\ \A a \in FirstCrew(t) : TeamOf[a] = t
      BY <1>4 DEF Launch, TypeOK, FirstCrew, Crew, Declared
    <2>2. TypeOK' /\ DriverInv'
      BY <1>2, <1>4, <2>1 DEF Launch, TypeOK, DriverInv, lifeVars, driverVars, LifeTypeOK
    <2>3. \A u \in Teams \ {t} : Same(u)
      BY <1>2, <1>4 DEF Launch, Same, TypeOK, lifeVars, driverVars, Registered, TeamInv, Staffing
    <2>4. TeamInv(t)'
      BY <1>1, <1>2, <1>3, <1>4, <2>1
      DEF Launch, TeamInv, ListIsExact, LaunchInOrder, Staffing, Announced, Staffed, driverVars,
          lifeVars, Declared, FirstCrew, Crew, IsPhased, IsFinished
    <2> QED
      BY <2>2, <2>3, <2>4, SameKeeps
  <1>5. ASSUME NEW a \in Agents, LaunchSpawn(t, a) PROVE TInv'
    <2>1. /\ launch[t] = "spawning" /\ a \in toSpawn[t] /\ SpawnOne(t, a)
          /\ toSpawn'[t] = toSpawn[t] \ {a} /\ \A u \in Teams \ {t} : toSpawn'[u] = toSpawn[u]
          /\ UNCHANGED <<launch, teams>>
      BY <1>5 DEF LaunchSpawn, TypeOK
    <2>2. TypeOK' /\ DriverInv'
      BY <1>2, <1>5, <2>1, SpawnEffect DEF LaunchSpawn, TypeOK, DriverInv, driverVars
    <2>3. TeamOf[a] = t /\ a \in Declared(t)
      BY <1>1, <2>1 DEF TeamInv, ListIsExact, Declared
    <2>4. \A u \in Teams \ {t} : Same(u)
      BY <1>2, <2>1, <2>3, SpawnEffect
      DEF Same, Declared, driverVars, Registered, TeamInv, Staffing
    <2>5. t \notin teams /\ t \notin teams'
      BY <1>1, <2>1 DEF TeamInv, LaunchInOrder
    <2>6. ListIsExact(t)'
      BY <1>1, <2>1, <2>3, SpawnEffect DEF TeamInv, ListIsExact, Declared, TypeOK
    <2>7. LaunchInOrder(t)'
      BY <1>1, <1>2, <2>1, <2>5, SpawnEffect
      DEF TeamInv, LaunchInOrder, FirstCrew, Crew, Declared, IsPhased
    <2>8. Staffing(t)' /\ Announced(t)'
      BY <1>1, <1>2, <1>3, <2>1 DEF TeamInv, Staffing, Announced, IsFinished, driverVars
    <2> QED
      BY <2>2, <2>4, <2>5, <2>6, <2>7, <2>8, SameKeeps DEF TeamInv
  <1>6. CASE LaunchReturns(t)
    <2>1. /\ launch[t] = "spawning" /\ toSpawn[t] = {} /\ launch'[t] = "returned"
          /\ \A u \in Teams \ {t} : launch'[u] = launch[u]
          /\ teams' = teams \cup {t} /\ UNCHANGED <<lifeVars, toSpawn, members>>
      BY <1>6 DEF LaunchReturns, TypeOK
    <2>2. TypeOK' /\ DriverInv'
      BY <1>2, <1>6, <2>1 DEF LaunchReturns, TypeOK, DriverInv, lifeVars, driverVars, LifeTypeOK
    <2>3. \A u \in Teams \ {t} : Same(u)
      BY <1>2, <2>1 DEF Same, lifeVars, driverVars, Registered, TeamInv, Staffing
    <2>4. index[t] = 1 /\ index' = index /\ members[t] = FirstCrew(t)
      BY <1>1, <1>2, <2>1 DEF TeamInv, LaunchInOrder
    <2>5. ListIsExact(t)' /\ LaunchInOrder(t)' /\ Staffing(t)' /\ Announced(t)'
      BY <1>1, <1>2, <1>3, <2>1, <2>4
      DEF TeamInv, ListIsExact, LaunchInOrder, Staffing, Announced, lifeVars, driverVars, Declared,
          FirstCrew, Crew, IsPhased, IsFinished
    <2>6. Staffed(t)'
      <3> SUFFICES ASSUME NEW a \in Declared(t), SeatPhase[a] # 0
                   PROVE  /\ ~ SeatPhase[a] < 1
                          /\ SeatPhase[a] = 1 => phase[a] # "absent"
                          /\ SeatPhase[a] > 1 => phase[a] = "absent"
        BY <2>1, <2>4 DEF Staffed, lifeVars, Declared
      <3>1. SeatPhase[a] \in Nat /\ a \in Agents /\ TeamOf[a] = t
        BY TeamsAssumption DEF Declared
      <3>2. IsPhased(t) /\ FirstCrew(t) = Crew(t, 1)
        BY DEF IsPhased, FirstCrew
      <3>3. a \in members[t] <=> SeatPhase[a] = 1
        BY <2>4, <3>1, <3>2 DEF Crew
      <3>4. a \in members[t] <=> phase[a] # "absent"
        BY <1>1, <2>1 DEF TeamInv, ListIsExact
      <3> QED
        BY <3>1, <3>3, <3>4
    <2> QED
      BY <2>2, <2>3, <2>5, <2>6, SameKeeps DEF TeamInv
  <1>7. CASE LaunchFails(t)
    <2>1. /\ launch[t] = "spawning" /\ launch'[t] = "rollback" /\ toSpawn'[t] = members[t]
          /\ \A u \in Teams \ {t} : launch'[u] = launch[u] /\ toSpawn'[u] = toSpawn[u]
          /\ UNCHANGED <<lifeVars, teams, members>>
      BY <1>7 DEF LaunchFails, TypeOK
    <2>2. TypeOK' /\ DriverInv'
      BY <1>2, <1>7, <2>1 DEF LaunchFails, TypeOK, DriverInv, lifeVars, driverVars, LifeTypeOK
    <2>3. \A u \in Teams \ {t} : Same(u)
      BY <1>2, <2>1 DEF Same, lifeVars, driverVars, Registered, TeamInv, Staffing
    <2>4. TeamInv(t)'
      BY <1>1, <1>2, <1>3, <2>1
      DEF TeamInv, ListIsExact, LaunchInOrder, Staffing, Announced, lifeVars, driverVars, Declared,
          IsFinished
    <2> QED
      BY <2>2, <2>3, <2>4, SameKeeps
  <1>8. ASSUME NEW a \in Agents, RollbackOne(t, a) PROVE TInv'
    <2>1. /\ launch[t] = "rollback" /\ a \in toSpawn[t] /\ toSpawn'[t] = toSpawn[t] \ {a}
          /\ \A u \in Teams \ {t} : toSpawn'[u] = toSpawn[u]
          /\ UNCHANGED <<launch, teams, members, tries>>
      BY <1>8 DEF RollbackOne, Remove, lifeVars, TypeOK
    <2>2. /\ ~ Registered(a)' /\ phase' \in [Agents -> Phases]
          /\ \A b \in Agents : /\ phase'[b] = "absent" <=> phase[b] = "absent"
                               /\ Registered(b)' => Registered(b)
      BY <1>1, <1>8 DEF RollbackOne, Remove, Become, Registered, lifeVars, TypeOK, LifeTypeOK, Phases
    <2>3. TypeOK' /\ DriverInv'
      BY <1>2, <1>8, <2>1, <2>2 DEF RollbackOne, TypeOK, DriverInv, driverVars, LifeTypeOK
    <2>4. \A u \in Teams \ {t} : Same(u)
      BY <1>2, <2>1, <2>2 DEF Same, Declared, driverVars, TeamInv, Staffing
    <2>5. members[t] \subseteq Agents
      BY DEF TypeOK
    <2>6. ListIsExact(t)' /\ LaunchInOrder(t)'
      BY <1>1, <1>2, <2>1, <2>2, <2>5 DEF TeamInv, ListIsExact, LaunchInOrder, Declared
    <2>7. Staffing(t)' /\ Announced(t)' /\ t \notin teams'
      BY <1>1, <1>2, <1>3, <2>1 DEF TeamInv, LaunchInOrder, Staffing, Announced, IsFinished, driverVars
    <2> QED
      BY <2>3, <2>4, <2>6, <2>7, SameKeeps DEF TeamInv
  <1>9. CASE LaunchRaises(t)
    <2>1. /\ launch[t] = "rollback" /\ toSpawn[t] = {} /\ launch'[t] = "raised" /\ members'[t] = {}
          /\ \A u \in Teams \ {t} : launch'[u] = launch[u] /\ members'[u] = members[u]
          /\ UNCHANGED <<lifeVars, teams, toSpawn>>
      BY <1>9 DEF LaunchRaises, TypeOK
    <2>2. TypeOK' /\ DriverInv'
      BY <1>2, <1>9, <2>1 DEF LaunchRaises, TypeOK, DriverInv, lifeVars, driverVars, LifeTypeOK
    <2>3. \A u \in Teams \ {t} : Same(u)
      BY <1>2, <2>1 DEF Same, lifeVars, driverVars, Registered, TeamInv, Staffing
    <2>4. \A a \in Declared(t) : ~ Registered(a)'
      BY <1>1, <2>1 DEF TeamInv, ListIsExact, LaunchInOrder, Registered, lifeVars
    <2>5. TeamInv(t)'
      BY <1>1, <1>2, <1>3, <2>1, <2>4
      DEF TeamInv, ListIsExact, LaunchInOrder, Staffing, Announced, driverVars, Declared, IsFinished
    <2> QED
      BY <2>2, <2>3, <2>5, SameKeeps
  <1> QED
    BY <1>4, <1>5, <1>6, <1>7, <1>8, <1>9 DEF LaunchNext

----------------------------------------------------------------------------
(* The driver *)

LEMMA DriverQuiet ==
  ASSUME TInv, \/ DriverWakes \/ UNCHANGED tvars
               \/ \E t \in Teams : DriverPasses(t)
               \/ \E t \in Teams, p \in 1..PhaseCount : Grant(t, p) \/ ArtifactGone(t, p)
  PROVE  TInv'
  <1> USE DEF TInv
  <1>1. /\ UNCHANGED <<lifeVars, launchVars, index, activating, toActivate, errored, completed, announced>>
        /\ pending' = pending \/ (activating = NoTeam /\ pending' \subseteq teams)
        /\ granted' \in SUBSET (Teams \X (1..PhaseCount))
    <2>1. granted \in SUBSET (Teams \X (1..PhaseCount))
      BY DEF TypeOK
    <2>2. CASE DriverWakes \/ \E t \in Teams : DriverPasses(t)
      BY <2>1, <2>2 DEF DriverWakes, DriverPasses, Visits, Visited, DriverInv
    <2>3. ASSUME NEW t \in Teams, NEW p \in 1..PhaseCount, Grant(t, p) \/ ArtifactGone(t, p)
          PROVE  /\ UNCHANGED <<lifeVars, launchVars, index, driverVars>>
                 /\ granted' \in SUBSET (Teams \X (1..PhaseCount))
      BY <2>1, <2>3 DEF Grant, ArtifactGone
    <2>4. CASE UNCHANGED tvars
      BY <2>1, <2>4 DEF tvars, driverVars
    <2> QED
      BY <2>2, <2>3, <2>4 DEF driverVars
  <1>2. TypeOK' /\ DriverInv'
    BY <1>1 DEF TypeOK, DriverInv, LifeTypeOK, lifeVars, launchVars
  <1>3. \A t \in Teams : Same(t)
    BY <1>1, TeamsAssumption DEF Same, NoTeam, Registered, lifeVars, launchVars, TeamInv, Staffing
  <1> QED
    BY <1>2, <1>3, SameKeeps

\* Marking a finished team complete keeps its announcement at one.
LEMMA MarkEffect ==
  ASSUME TInv, NEW t \in teams, MarkComplete(t)
  PROVE  /\ completed' = completed \cup {t} /\ announced'[t] = 1
         /\ \A u \in Teams \ {t} : announced'[u] = announced[u]
         /\ announced' \in [Teams -> Nat] /\ completed' \in SUBSET teams
  <1>1. t \in Teams /\ announced[t] \in Nat
    BY DEF TInv, TypeOK
  <1>2. announced[t] = IF t \in completed THEN 1 ELSE 0
    BY <1>1 DEF TInv, TeamInv, Announced
  <1> QED
    BY <1>1, <1>2 DEF MarkComplete, TInv, TypeOK, DriverInv

LEMMA CompletesKeeps ==
  ASSUME TInv, NEW t \in Teams, DriverCompletes(t)
  PROVE  TInv'
  <1> USE DEF TInv
  <1>1. /\ t \in pending /\ t \in teams /\ activating = NoTeam /\ t \notin errored /\ IsFinished(t)
        /\ MarkComplete(t) /\ pending' = pending \ {t}
        /\ UNCHANGED <<lifeVars, launchVars, index, granted, activating, toActivate, errored>>
    BY DEF DriverCompletes, Visits, Visited, DriverInv
  <1>2. TypeOK' /\ DriverInv'
    BY <1>1, MarkEffect DEF TypeOK, DriverInv, LifeTypeOK, lifeVars, launchVars
  <1>3. \A u \in Teams \ {t} : Same(u)
    BY <1>1, MarkEffect, TeamsAssumption DEF Same, NoTeam, Registered, lifeVars, launchVars
  <1>4. TeamInv(t)'
    <2>1. TeamInv(t) /\ activating # t
      BY <1>1, TeamsAssumption DEF NoTeam
    <2>2. ListIsExact(t)' /\ LaunchInOrder(t)'
      BY <1>1, <2>1 DEF TeamInv, ListIsExact, LaunchInOrder, lifeVars, launchVars, Declared,
           Registered, FirstCrew, Crew, IsPhased
    <2>3. Staffing(t)' /\ Announced(t)' /\ Staffed(t)'
      BY <1>1, <2>1, MarkEffect DEF TeamInv, Staffing, Announced, Staffed, IsFinished, lifeVars, Declared
    <2> QED
      BY <2>2, <2>3 DEF TeamInv
  <1> QED
    BY <1>2, <1>3, <1>4, SameKeeps

\* Passing a gate: the phase that is left is staffed, the next one has nobody.
LEMMA AdvanceKeeps ==
  ASSUME TInv, NEW t \in Teams, DriverAdvances(t)
  PROVE  TInv'
  <1> USE DEF TInv
  <1>1. /\ t \in pending /\ t \in teams /\ activating = NoTeam /\ t \notin errored
        /\ t \notin completed /\ activating # t
        /\ UNCHANGED <<lifeVars, launchVars, granted, errored>>
    BY TeamsAssumption
    DEF DriverAdvances, Visits, DriverInv, TeamInv, Announced, NoTeam
  <1>2. /\ index[t] \in 1..PhaseCount /\ index'[t] = index[t] + 1
        /\ \A u \in Teams \ {t} : index'[u] = index[u]
        /\ index' \in [Teams -> 1..(PhaseCount + 1)]
    <2>1. index[t] \in 1..(PhaseCount + 1) /\ ~ (index[t] > PhaseCount)
      BY DEF DriverAdvances, IsFinished, TypeOK
    <2>2. PhaseCount \in Nat
      BY TeamsAssumption
    <2> QED
      BY <2>1, <2>2 DEF DriverAdvances, TypeOK
  <1>3. Staffed(t)'
    <2> SUFFICES ASSUME NEW a \in Declared(t), SeatPhase[a] # 0
                 PROVE  /\ SeatPhase[a] < index[t] + 1 => phase[a] # "absent"
                        /\ SeatPhase[a] = index[t] + 1 =>
                             phase[a] # "absent" \/ activating' = t \/ t \in errored
                        /\ SeatPhase[a] > index[t] + 1 => phase[a] = "absent"
      BY <1>1, <1>2 DEF Staffed, lifeVars, Declared
    <2>1. /\ SeatPhase[a] < index[t] => phase[a] # "absent"
          /\ SeatPhase[a] = index[t] => phase[a] # "absent"
          /\ SeatPhase[a] > index[t] => phase[a] = "absent"
      BY <1>1 DEF TeamInv, Staffed
    <2>2. SeatPhase[a] \in 0..PhaseCount /\ PhaseCount \in Nat
      BY TeamsAssumption DEF Declared
    <2>3. index[t] # PhaseCount => activating' = t
      BY DEF DriverAdvances
    <2> QED
      BY <1>2, <2>1, <2>2, <2>3
  <1>4. ListIsExact(t)' /\ LaunchInOrder(t)'
    BY <1>1, <1>2 DEF TeamInv, ListIsExact, LaunchInOrder, lifeVars, launchVars, Declared, Registered,
         FirstCrew, Crew, IsPhased
  <1>5. CASE index[t] = PhaseCount
    <2>1. MarkComplete(t) /\ pending' = pending \ {t} /\ UNCHANGED <<activating, toActivate>>
      BY <1>5 DEF DriverAdvances, Visited
    <2>2. TypeOK' /\ DriverInv'
      BY <1>1, <1>2, <2>1, MarkEffect DEF TypeOK, DriverInv, LifeTypeOK, lifeVars, launchVars
    <2>3. \A u \in Teams \ {t} : Same(u)
      BY <1>1, <1>2, <2>1, MarkEffect, TeamsAssumption
      DEF Same, NoTeam, Registered, lifeVars, launchVars
    <2>4. IsFinished(t)'
      BY <1>2, <1>5, TeamsAssumption DEF IsFinished
    <2>5. Staffing(t)' /\ Announced(t)'
      BY <1>1, <2>1, <2>4, MarkEffect DEF Staffing, Announced
    <2> QED
      BY <1>3, <1>4, <2>2, <2>3, <2>5, SameKeeps DEF TeamInv
  <1>6. CASE index[t] # PhaseCount
    <2>1. /\ activating' = t /\ toActivate' = Crew(t, index[t] + 1)
          /\ UNCHANGED <<pending, completed, announced>>
      BY <1>6 DEF DriverAdvances
    <2>2. TypeOK' /\ DriverInv'
      BY <1>1, <1>2, <2>1 DEF TypeOK, DriverInv, LifeTypeOK, lifeVars, launchVars, Crew
    <2>3. \A u \in Teams \ {t} : Same(u)
      BY <1>1, <1>2, <2>1, TeamsAssumption DEF Same, NoTeam, Registered, lifeVars, launchVars
    <2>4. ~ IsFinished(t)'
      BY <1>2, <1>6, TeamsAssumption DEF IsFinished
    <2>5. Staffing(t)' /\ Announced(t)'
      BY <1>1, <1>2, <2>1, <2>4 DEF TeamInv, Staffing, Announced, Crew
    <2> QED
      BY <1>3, <1>4, <2>2, <2>3, <2>5, SameKeeps DEF TeamInv
  <1> QED
    BY <1>5, <1>6

LEMMA ActivateKeeps ==
  ASSUME TInv, ActivateReturns \/ ActivateFails \/ \E a \in Agents : ActivateSpawn(a)
  PROVE  TInv'
  <1> USE DEF TInv
  <1>0. PICK t \in Teams : t = activating
    BY DEF ActivateReturns, ActivateFails, ActivateSpawn, NoTeam, TypeOK
  <1>1. /\ t \in teams /\ t \in pending /\ t \notin errored /\ t \notin completed
        /\ launch[t] = "returned" /\ TeamInv(t) /\ TypeOK
    BY <1>0 DEF TeamInv, Staffing, DriverInv, LaunchInOrder
  <1>2. NoTeam # t
    BY <1>0, TeamsAssumption DEF NoTeam
  <1>3. ASSUME NEW a \in Agents, ActivateSpawn(a) PROVE TInv'
    <2>1. /\ a \in toActivate /\ SpawnOne(t, a) /\ toActivate' = toActivate \ {a}
          /\ UNCHANGED <<launch, toSpawn, teams, index, granted, pending, activating, errored,
                         completed, announced>>
      BY <1>0, <1>3 DEF ActivateSpawn
    <2>2. a \in Crew(t, index[t]) /\ TeamOf[a] = t /\ SeatPhase[a] = index[t]
      BY <1>0, <1>1, <2>1 DEF TeamInv, Staffing, Crew
    <2>3. TypeOK' /\ DriverInv'
      BY <1>0, <1>1, <2>1, SpawnEffect DEF TypeOK, DriverInv
    <2>4. \A u \in Teams \ {t} : Same(u)
      BY <1>0, <1>1, <2>1, <2>2, SpawnEffect DEF Same, Declared, Registered
    <2>5. ListIsExact(t)'
      BY <1>0, <1>1, <2>1, <2>2, SpawnEffect DEF TeamInv, ListIsExact, Declared, TypeOK
    <2>6. LaunchInOrder(t)' /\ Announced(t)'
      BY <1>0, <1>1, <2>1, SpawnEffect
      DEF TeamInv, LaunchInOrder, Announced, FirstCrew, Crew, Declared, IsPhased, IsFinished
    <2>7. Staffing(t)'
      BY <1>0, <1>1, <2>1, SpawnEffect DEF TeamInv, Staffing, Crew, IsFinished
    <2>8. Staffed(t)'
      <3> SUFFICES ASSUME NEW b \in Declared(t), SeatPhase[b] # 0
                   PROVE  /\ SeatPhase[b] < index[t] => phase'[b] # "absent"
                          /\ SeatPhase[b] > index[t] => phase'[b] = "absent"
        BY <1>0, <2>1 DEF Staffed, Declared
      <3>1. b \in Agents /\ SeatPhase[b] \in Nat /\ index[t] \in Nat
        BY <1>1, TeamsAssumption DEF Declared, TypeOK
      <3>2. /\ SeatPhase[b] < index[t] => phase[b] # "absent"
            /\ SeatPhase[b] > index[t] => phase[b] = "absent"
        BY <1>1 DEF TeamInv, Staffed
      <3> QED
        BY <1>0, <1>1, <2>1, <2>2, <3>1, <3>2, SpawnEffect
    <2> QED
      BY <2>3, <2>4, <2>5, <2>6, <2>7, <2>8, SameKeeps DEF TeamInv
  <1>4. CASE ActivateReturns \/ ActivateFails
    <2>1. /\ activating' = NoTeam /\ pending' = pending \ {t}
          /\ toActivate' = {} \/ toActivate' = toActivate
          /\ errored' = errored \cup {t} \/ (errored' = errored /\ toActivate = {})
          /\ UNCHANGED <<lifeVars, launchVars, index, granted, completed, announced>>
      BY <1>0, <1>4 DEF ActivateReturns, ActivateFails, Visited
    <2>2. TypeOK' /\ DriverInv'
      BY <1>0, <1>1, <2>1 DEF TypeOK, DriverInv, LifeTypeOK, lifeVars, launchVars
    <2>3. \A u \in Teams \ {t} : Same(u)
      BY <1>0, <1>1, <2>1, TeamsAssumption DEF Same, NoTeam, Registered, lifeVars, launchVars
    <2>4. ListIsExact(t)' /\ LaunchInOrder(t)' /\ Announced(t)' /\ Staffing(t)'
      BY <1>0, <1>1, <1>2, <2>1
      DEF TeamInv, ListIsExact, LaunchInOrder, Announced, Staffing, lifeVars, launchVars, Declared,
          Registered, FirstCrew, Crew, IsPhased, IsFinished
    <2>5. Staffed(t)'
      <3>1. t \in errored' \/ \A a \in Crew(t, index[t]) : phase[a] # "absent"
        BY <1>0, <1>1, <2>1 DEF TeamInv, Staffing
      <3>2. Staffed(t)
        BY <1>1 DEF TeamInv
      <3> QED
        BY <2>1, <3>1, <3>2 DEF Staffed, Declared, Crew, lifeVars
    <2> QED
      BY <2>2, <2>3, <2>4, <2>5, SameKeeps DEF TeamInv
  <1> QED
    BY <1>3, <1>4

----------------------------------------------------------------------------
(* The theorems *)

LEMMA InitTInv == Init => TInv
  <1> SUFFICES ASSUME Init PROVE TInv
    OBVIOUS
  <1> USE DEF Init, LifeInit
  <1>1. TypeOK
    BY TeamsAssumption, LimitAssumption DEF TypeOK, LifeTypeOK, Phases
  <1>2. ASSUME NEW t \in Teams PROVE TeamInv(t)
    BY <1>2, TeamsAssumption
    DEF TeamInv, ListIsExact, LaunchInOrder, Staffing, Announced, Declared, NoTeam
  <1> QED
    BY <1>1, <1>2 DEF TInv, DriverInv

\* The inductive invariant of the teams, over every interleaving of launches,
\* rollbacks, ticks of the driver and lives of agents.
THEOREM TeamsInvariant == Spec => []TInv
  <1>1. TInv /\ [Next]_tvars => TInv'
    <2> SUFFICES ASSUME TInv, [Next]_tvars PROVE TInv'
      OBVIOUS
    <2>1. ASSUME NEW t \in Teams, Launch(t) \/ LaunchFails(t) \/ LaunchNext(t) PROVE TInv'
      BY <2>1, LaunchKeeps
    <2>2. ASSUME NEW t \in Teams, DriverVisit(t) PROVE TInv'
      BY <2>2, DriverQuiet, CompletesKeeps, AdvanceKeeps DEF DriverVisit
    <2>3. CASE ActivateReturns \/ ActivateFails \/ \E a \in Agents : ActivateSpawn(a)
      BY <2>3, ActivateKeeps
    <2>4. ASSUME NEW a \in Agents, AgentStep(a) PROVE TInv'
      BY <2>4, AgentKeeps
    <2>5. ASSUME \/ DriverWakes \/ UNCHANGED tvars
                 \/ \E t \in Teams, p \in 1..PhaseCount : Grant(t, p) \/ ArtifactGone(t, p)
          PROVE  TInv'
      BY <2>5, DriverQuiet
    <2> QED
      BY <2>1, <2>2, <2>3, <2>4, <2>5 DEF Next, DriverNext
  <1> QED
    BY <1>1, InitTInv, PTL DEF Spec

\* Every variable of the swarm keeps its type.
THEOREM TeamsTypeCorrect == Spec => []TypeOK
  <1>1. TInv => TypeOK
    BY DEF TInv
  <1> QED
    BY <1>1, TeamsInvariant, PTL

\* Launch is transactional: it leaves a whole crew or nobody, for teams of any
\* size and whatever the agents do while it rolls back.
THEOREM LaunchIsTransactional == Spec => []LaunchAllOrNothing
  <1>1. TInv => LaunchAllOrNothing
    BY DEF TInv, TeamInv, LaunchInOrder, LaunchAllOrNothing
  <1> QED
    BY <1>1, TeamsInvariant, PTL

\* Phases are staffed in order, for any number of phases.
THEOREM PhasesStayInStep == Spec => []PhasesInStep
  <1>1. TInv => PhasesInStep
    BY DEF TInv, TypeOK, TeamInv, Staffed, PhasesInStep
  <1> QED
    BY <1>1, TeamsInvariant, PTL

\* A team is announced complete once, after its last phase.
THEOREM TeamsCompleteOnce == Spec => []CompleteOnce
  <1>1. TInv => CompleteOnce
    BY DEF TInv, TeamInv, Announced, CompleteOnce
  <1> QED
    BY <1>1, TeamsInvariant, PTL

\* No team passes a phase with a task gate while one of its agents, of this or an
\* earlier phase, is at work or has failed.
THEOREM AdvancesWait == Spec => AdvanceWaits
  <1>1. TInv /\ [Next]_tvars =>
          [\A t \in Teams : index'[t] # index[t] =>
             /\ index'[t] = index[t] + 1
             /\ Gate(t, index[t]) = "tasks" =>
                  \A a \in Declared(t) : phase[a] \in {"absent", "finished", "gone"}]_tvars
    <2> SUFFICES ASSUME TInv, Next, NEW t \in Teams, index'[t] # index[t]
                 PROVE  /\ index'[t] = index[t] + 1
                        /\ Gate(t, index[t]) = "tasks" =>
                             \A a \in Declared(t) : phase[a] \in {"absent", "finished", "gone"}
      OBVIOUS
    <2>1. DriverAdvances(t)
      <3>1. ASSUME NEW u \in Teams, DriverAdvances(u) PROVE u = t
        BY <3>1 DEF DriverAdvances, TInv, TypeOK
      <3>2. \E u \in Teams : DriverAdvances(u)
        BY DEF Next, Launch, LaunchFails, LaunchNext, LaunchReturns, LaunchRaises, LaunchSpawn,
               RollbackOne, DriverNext, DriverWakes, DriverVisit, DriverPasses, DriverCompletes,
               ActivateReturns, ActivateSpawn, ActivateFails, AgentStep, AgentEnds, AgentRecovers,
               Grant, ArtifactGone
      <3> QED
        BY <3>1, <3>2
    <2>2. /\ index'[t] = index[t] + 1 /\ GatePasses(t) /\ t \in teams
          /\ launch[t] = "returned" /\ ListIsExact(t)
      BY <2>1 DEF DriverAdvances, Visits, TInv, TypeOK, DriverInv, TeamInv, LaunchInOrder
    <2>3. ASSUME Gate(t, index[t]) = "tasks", NEW a \in Declared(t)
          PROVE  phase[a] \in {"absent", "finished", "gone"}
      <3>1. Registered(a) /\ a \in members[t] => phase[a] = "finished"
        BY <2>2, <2>3 DEF GatePasses
      <3>2. phase[a] # "absent" => a \in members[t]
        BY <2>2 DEF ListIsExact
      <3>3. phase[a] \in Phases
        BY DEF Declared, TInv, TypeOK, LifeTypeOK
      <3> QED
        BY <3>1, <3>2, <3>3 DEF Registered, Phases
    <2> QED
      BY <2>2, <2>3
  <1> QED
    BY <1>1, TeamsInvariant, PTL DEF Spec, AdvanceWaits
=============================================================================
