----------------------------- MODULE Scheduler -----------------------------
(***************************************************************************)
(* Scheduled tasks: the tools that keep the task file (tools/cron.py) and  *)
(* the loop that runs what is due (scheduler.py), over crashes and         *)
(* restarts of the platform.                                               *)
(*                                                                         *)
(* The lock of the file is held over code that does not await, so that a   *)
(* critical section is one step.  Only a crash can cut it: the file is     *)
(* opened for writing, which empties it, before it is written.             *)
(***************************************************************************)
EXTENDS Naturals, FiniteSets

CONSTANTS
  Tasks,        \* ids of the tasks that are ever scheduled
  Type,         \* once, interval or cron
  Value,        \* the time, the interval, or the period of the cron slots
  Addressed,    \* tasks whose channel the scheduler knows
  Horizon       \* bound on the clock

ASSUME SchedulerAssumption ==
  /\ Type \in [Tasks -> {"once", "interval", "cron"}]
  /\ Value \in [Tasks -> Nat]
  /\ \A t \in Tasks : Type[t] # "once" => Value[t] > 0
  /\ Addressed \in SUBSET Tasks
  /\ Horizon \in Nat

VARIABLES
  clock,
  stored,       \* tasks in the file
  active,       \* those with active = true
  lastRun,      \* their last_run, or Never
  garbled,      \* a write was cut off: the file is no JSON any more
  platform,     \* up, draining (Scheduler.stop) or down
  invoking,     \* runs of each task that wait for the agent
  sending,      \* runs of each task that wait for the channel
  accepted,     \* history: tasks for which schedule_task has answered with an id
  cancelled,    \* history: tasks for which cancel_task has answered
  started,      \* history: times at which a run of each task began
  lost          \* history: tasks of which a crash has taken a run

fileVars == <<stored, active, lastRun, garbled>>
runVars == <<invoking, sending>>
askVars == <<accepted, cancelled>>
vars == <<clock, fileVars, platform, runVars, askVars, started, lost>>

Never == Horizon + 1

Init ==
  /\ clock = 0
  /\ stored = {} /\ active = {} /\ garbled = FALSE
  /\ lastRun = [t \in Tasks |-> Never]
  /\ platform = "up"
  /\ invoking = [t \in Tasks |-> 0] /\ sending = [t \in Tasks |-> 0]
  /\ accepted = {} /\ cancelled = {}
  /\ started = [t \in Tasks |-> {}]
  /\ lost = {}

Tick ==
  /\ clock < Horizon
  /\ clock' = clock + 1
  /\ UNCHANGED <<fileVars, platform, runVars, askVars, started, lost>>

----------------------------------------------------------------------------
(* The tools *)

Readable == platform # "down" /\ ~ garbled

\* schedule_task appends to what it has read; on a garbled file it raises.
Schedule(t) ==
  /\ Readable /\ t \notin stored
  /\ stored' = stored \cup {t}
  /\ active' = active \cup {t}
  /\ accepted' = accepted \cup {t}
  /\ UNCHANGED <<clock, lastRun, garbled, platform, runVars, cancelled, started, lost>>

Cancel(t) ==
  /\ Readable /\ t \in stored
  /\ active' = active \ {t}
  /\ cancelled' = cancelled \cup {t}
  /\ UNCHANGED <<clock, stored, lastRun, garbled, platform, runVars, accepted, started, lost>>

----------------------------------------------------------------------------
(* The loop *)

\* A slot of the cron expression has passed since x.
SlotSince(t, x) == clock \div Value[t] > x \div Value[t]

\* The interval is compared one unit early.
IsDueEarly(t) ==
  \/ lastRun[t] = Never /\ (Type[t] = "once" => clock >= Value[t])
  \/ /\ lastRun[t] # Never
     /\ \/ Type[t] = "interval" /\ clock - lastRun[t] + 1 >= Value[t]
        \/ Type[t] = "cron" /\ SlotSince(t, lastRun[t])

\* A task that never ran waits for its first slot like any other.
IsDueOnlyAfterRun(t) ==
  \/ Type[t] = "once" /\ lastRun[t] = Never /\ clock >= Value[t]
  \/ Type[t] = "interval" /\ lastRun[t] # Never /\ clock - lastRun[t] >= Value[t]
  \/ Type[t] = "cron" /\ lastRun[t] # Never /\ SlotSince(t, lastRun[t])

IsDue(t) ==
  \/ lastRun[t] = Never /\ (Type[t] = "once" => clock >= Value[t])
  \/ /\ lastRun[t] # Never
     /\ \/ Type[t] = "interval" /\ clock - lastRun[t] >= Value[t]
        \/ Type[t] = "cron" /\ SlotSince(t, lastRun[t])

\* Mutant of NextRun: the interval is counted from now.
NextRunFromNow(t) ==
  CASE Type[t] = "once" -> IF lastRun[t] = Never THEN {Value[t]} ELSE {}
    [] Type[t] = "cron" -> {(clock \div Value[t] + 1) * Value[t]}
    [] OTHER -> {clock + Value[t]}

\* _compute_next_run, which knows nothing of IsDue: no time for a once task that
\* has run; the next slot from now; the interval since the last run, or since
\* the task was created, some time ago.
NextRun(t) ==
  CASE Type[t] = "once" -> IF lastRun[t] = Never THEN {Value[t]} ELSE {}
    [] Type[t] = "cron" -> {(clock \div Value[t] + 1) * Value[t]}
    [] OTHER -> {x + Value[t] : x \in IF lastRun[t] = Never THEN 0 .. clock ELSE {lastRun[t]}}

\* list_tasks and /v1/tasks
Listed == [t \in active |-> NextRun(t)]

\* The flag active is not looked at.
DueIgnoresActive == {t \in stored : IsDue(t)}

Due == {t \in active : IsDue(t)}

\* Runs are marked when they end, not before they start.
MarkLater == UNCHANGED <<lastRun, active>>

\* What the check writes back: the tasks that it is about to run are marked.
Mark ==
  /\ lastRun' = [t \in Tasks |-> IF t \in Due THEN clock ELSE lastRun[t]]
  /\ active' = active \ {t \in Due : Type[t] = "once"}

\* _check_and_run: every due task gets a task of its own, whether or not its
\* last run is over.
Check ==
  /\ platform = "up" /\ ~ garbled /\ Due # {}
  /\ Mark
  /\ invoking' = [t \in Tasks |-> IF t \in Due THEN invoking[t] + 1 ELSE invoking[t]]
  /\ started' = [t \in Tasks |-> IF t \in Due THEN started[t] \cup {clock} ELSE started[t]]
  /\ UNCHANGED <<clock, stored, garbled, platform, sending, askVars, lost>>

\* _execute_task: the agent answers, and the answer goes to the channel or is
\* discarded; or the agent fails.

AgentAnswers(t) ==
  /\ invoking[t] > 0
  /\ invoking' = [invoking EXCEPT ![t] = @ - 1]
  /\ sending' = IF t \in Addressed THEN [sending EXCEPT ![t] = @ + 1] ELSE sending
  /\ UNCHANGED <<clock, fileVars, platform, askVars, started, lost>>

AgentFails(t) ==
  /\ invoking[t] > 0
  /\ invoking' = [invoking EXCEPT ![t] = @ - 1]
  /\ UNCHANGED <<clock, fileVars, platform, sending, askVars, started, lost>>

\* channel.send returns or raises; without a channel nothing would.
Sent(t) ==
  /\ t \in Addressed /\ sending[t] > 0
  /\ sending' = [sending EXCEPT ![t] = @ - 1]
  /\ UNCHANGED <<clock, fileVars, platform, invoking, askVars, started, lost>>

----------------------------------------------------------------------------
(* Stop, crash, restart *)

Stop ==
  /\ platform = "up" /\ platform' = "draining"
  /\ UNCHANGED <<clock, fileVars, runVars, askVars, started, lost>>


Running == {t \in Tasks : invoking[t] + sending[t] > 0}

\* stop waits for every run, without a bound, and returns when none is left.
Stopped ==
  /\ platform = "draining" /\ Running = {} /\ platform' = "down"
  /\ UNCHANGED <<clock, fileVars, runVars, askVars, started, lost>>

\* The process dies, and with it its runs.
Die(losing) ==
  /\ platform' = "down"
  /\ invoking' = [t \in Tasks |-> 0] /\ sending' = [t \in Tasks |-> 0]
  /\ lost' = lost \cup Running \cup losing
  /\ UNCHANGED <<clock, askVars, started>>

Crash ==
  /\ platform # "down"
  /\ Die({}) /\ UNCHANGED fileVars

\* ... after the check has marked the due tasks and before they start.
CrashAfterMark ==
  /\ platform = "up" /\ ~ garbled /\ Due # {}
  /\ Die(Due) /\ Mark
  /\ UNCHANGED <<stored, garbled>>

\* ... in the middle of a write.  A tool may write at any time.
CrashInWrite ==
  /\ Readable
  /\ Die({})
  /\ garbled' = TRUE /\ stored' = {} /\ active' = {}
  /\ lastRun' = [t \in Tasks |-> Never]

Restart ==
  /\ platform = "down" /\ platform' = "up"
  /\ UNCHANGED <<clock, fileVars, runVars, askVars, started, lost>>

Next ==
  \/ Tick \/ Check \/ Stop \/ Stopped \/ Crash \/ CrashAfterMark \/ CrashInWrite \/ Restart
  \/ \E t \in Tasks : Schedule(t) \/ Cancel(t) \/ AgentAnswers(t) \/ AgentFails(t) \/ Sent(t)

Spec == Init /\ [][Next]_vars

(***************************************************************************)
(* Fairness: the loop polls, and stop returns once it may.  Nothing is     *)
(* assumed of the agent and the channels, whose calls have no bound in     *)
(* this code and may hang for ever, of the clock, of the users, or of      *)
(* crashes and restarts.                                                   *)
(***************************************************************************)
Fairness == WF_vars(Check) /\ WF_vars(Stopped)

FairSpec == Spec /\ Fairness

----------------------------------------------------------------------------
(* Correctness *)

Times == 0..Horizon

TypeOK ==
  /\ clock \in Times
  /\ stored \in SUBSET Tasks /\ active \in SUBSET stored
  /\ lastRun \in [Tasks -> Times \cup {Never}]
  /\ garbled \in BOOLEAN
  /\ platform \in {"up", "draining", "down"}
  /\ invoking \in [Tasks -> Nat] /\ sending \in [Tasks -> Nat]
  /\ accepted \in SUBSET Tasks /\ cancelled \in SUBSET Tasks
  /\ started \in [Tasks -> SUBSET Times]
  /\ lost \in SUBSET Tasks

\* However often the platform crashes and restarts, a once task is run at most
\* once, and not before its time.
OnceAtMostOnce ==
  \A t \in Tasks : Type[t] = "once" =>
    /\ Cardinality(started[t]) <= 1
    /\ \A x \in started[t] : x >= Value[t]

\* Between two runs of a recurring task its schedule has come round, over
\* crashes and restarts.
RunsAreSpaced ==
  \A t \in Tasks : \A x, y \in started[t] : x < y =>
    /\ Type[t] = "interval" => y - x >= Value[t]
    /\ Type[t] = "cron" => y \div Value[t] > x \div Value[t]

\* A task of which cancel_task has said that it is cancelled never starts again.
CancelledStayQuiet == [][\A t \in cancelled : started'[t] = started[t]]_vars

\* What the list shows is what the loop will do: a task that is not due becomes
\* due with the tick of the clock that reaches its next run, and with no other
\* (cron.py: _compute_next_run; scheduler.py: _is_due).
NextRunIsKept ==
  [][Tick => \A t \in DOMAIN Listed : ~ IsDue(t) =>
       (IsDue(t)' <=> \E n \in Listed[t] : clock' >= n)]_vars

\* The file knows of every run: while it is readable, no restart can forget
\* one, and every task that was accepted is there.
FileRemembers ==
  ~ garbled => /\ accepted \subseteq stored
               /\ \A t \in Tasks : \A x \in started[t] :
                    t \in stored /\ lastRun[t] # Never /\ lastRun[t] >= x

\* A task that by its schedule and its runs so far should be running.
Owed(t) ==
  /\ t \in accepted \ (cancelled \cup lost)
  /\ IF Type[t] = "once" THEN started[t] = {} /\ clock >= Value[t]
     ELSE \A x \in started[t] : IF Type[t] = "interval" THEN clock - x >= Value[t] ELSE SlotSince(t, x)

\* A task that is due starts, unless it is cancelled, or the platform goes down,
\* or the file is lost, first.
DueTasksStart ==
  \A t \in Tasks : (Owed(t) /\ platform = "up" /\ ~ garbled) ~>
                     (~ Owed(t) \/ platform # "up" \/ garbled)

=============================================================================
