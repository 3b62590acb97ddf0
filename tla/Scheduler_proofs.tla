------------------------- MODULE Scheduler_proofs -------------------------
(***************************************************************************)
(* Proofs about Scheduler, for every set of tasks, every schedule and      *)
(* every Horizon.                                                          *)
(***************************************************************************)
EXTENDS Scheduler, FiniteSetTheorems, TLAPS

----------------------------------------------------------------------------
(* The inductive invariant: nothing lies in the future, and what was       *)
(* cancelled is in the file and not active.                                *)

NothingAhead ==
  \A t \in Tasks : /\ lastRun[t] # Never => lastRun[t] <= clock
                   /\ \A x \in started[t] : x <= clock

CancelledAreInactive ==
  /\ cancelled \cap active = {}
  /\ ~ garbled => cancelled \subseteq stored

SInv == TypeOK /\ FileRemembers /\ NothingAhead /\ CancelledAreInactive
               /\ OnceAtMostOnce /\ RunsAreSpaced

----------------------------------------------------------------------------
(* Slots of a cron expression *)

\* Later times are in later slots, or in the same.
LEMMA SlotsGrow ==
  ASSUME NEW v \in Nat \ {0}, NEW m \in Nat, NEW n \in Nat, m <= n
  PROVE  m \div v <= n \div v
  <1> DEFINE p == n \div v
             q == m \div v
  <1>1. p \in Nat /\ q \in Nat
    OBVIOUS
  <1>2. v * q <= m /\ n < v * p + v
    OBVIOUS
  <1>3. q > p => v * q >= v * p + v
    <2>1. SUFFICES ASSUME q > p PROVE v * q >= v * p + v
      OBVIOUS
    <2>2. q >= p + 1
      BY <1>1, <2>1
    <2>3. PICK d \in Nat : q = p + 1 + d
      BY <1>1, <2>2
    <2>4. v * q = v * p + v + v * d
      BY <1>1, <2>3
    <2>5. v * d \in Nat
      BY <2>3
    <2> QED
      BY <1>1, <2>4, <2>5
  <1> HIDE DEF p, q
  <1>4. q <= p
    BY <1>1, <1>2, <1>3
  <1> QED
    BY <1>4 DEF p, q

\* A tick leads to another slot exactly if it reaches the next slot from now.
LEMMA NextSlot ==
  ASSUME NEW v \in Nat \ {0}, NEW c \in Nat
  PROVE  (c + 1) \div v > c \div v <=> c + 1 >= (c \div v + 1) * v
  <1> DEFINE p == (c + 1) \div v
             q == c \div v
  <1>1. p \in Nat /\ q \in Nat
    OBVIOUS
  <1>2. v * p <= c + 1 /\ c + 1 < v * p + v
    OBVIOUS
  <1>3. q <= p
    BY SlotsGrow
  <1> HIDE DEF p, q
  <1>4. (q + 1) * v = v * q + v /\ v * q \in Nat /\ v * p \in Nat
    BY <1>1
  <1>5. p > q => v * p >= v * q + v
    <2>1. SUFFICES ASSUME p > q PROVE v * p >= v * q + v
      OBVIOUS
    <2>2. p >= q + 1
      BY <1>1, <2>1
    <2>3. PICK d \in Nat : p = q + 1 + d
      BY <1>1, <2>2
    <2>4. v * p = v * q + v + v * d
      BY <1>1, <2>3
    <2>5. v * d \in Nat
      BY <2>3
    <2> QED
      BY <1>4, <2>4, <2>5
  <1>6. ~ p > q => p = q
    BY <1>1, <1>3
  <1>7. p > q <=> c + 1 >= (q + 1) * v
    <2>1. CASE p > q
      BY <1>2, <1>4, <1>5, <2>1
    <2>2. CASE ~ p > q
      <3>1. c + 1 < v * q + v
        BY <1>2, <1>6, <2>2
      <3> QED
        BY <1>4, <2>2, <3>1
    <2> QED
      BY <2>1, <2>2
  <1> QED
    BY <1>7 DEF p, q

----------------------------------------------------------------------------
(* The invariant holds at the start and is kept *)

LEMMA Constants ==
  /\ Horizon \in Nat /\ Never \notin Times
  /\ \A t \in Tasks : /\ Type[t] \in {"once", "interval", "cron"}
                      /\ Value[t] \in Nat
                      /\ Type[t] # "once" => Value[t] \in Nat \ {0}
  BY SchedulerAssumption DEF Never, Times

LEMMA InitSInv == Init => SInv
  <1> SUFFICES ASSUME Init PROVE SInv
    OBVIOUS
  <1>1. TypeOK
    <2>1. clock \in Times /\ {} \in SUBSET Times
      BY Constants DEF Init, Times
    <2>2. started \in [Tasks -> SUBSET Times] /\ lastRun \in [Tasks -> Times \cup {Never}]
      BY <2>1 DEF Init
    <2> QED
      BY <2>1, <2>2 DEF Init, TypeOK
  <1>2. OnceAtMostOnce
    BY FS_EmptySet DEF Init, OnceAtMostOnce
  <1>3. FileRemembers /\ NothingAhead /\ CancelledAreInactive /\ RunsAreSpaced
    BY DEF Init, FileRemembers, NothingAhead, CancelledAreInactive, RunsAreSpaced
  <1> QED
    BY <1>1, <1>2, <1>3 DEF SInv

\* Steps that leave the file, the answers of the tools and the history of runs
\* as they are.
LEMMA QuietStep ==
  ASSUME SInv, clock' \in Times, clock' >= clock, platform' \in {"up", "draining", "down"},
         invoking' \in [Tasks -> Nat], sending' \in [Tasks -> Nat], lost' \in SUBSET Tasks,
         UNCHANGED <<fileVars, askVars, started>>
  PROVE  SInv'
  <1> USE DEF SInv, fileVars, askVars
  <1>1. TypeOK'
    BY DEF TypeOK
  <1>2. NothingAhead'
    <2> SUFFICES ASSUME NEW t \in Tasks
                 PROVE  /\ lastRun[t] # Never => lastRun[t] <= clock'
                        /\ \A x \in started[t] : x <= clock'
      BY DEF NothingAhead
    <2>1. /\ lastRun[t] # Never => lastRun[t] <= clock
          /\ \A x \in started[t] : x <= clock
      BY DEF NothingAhead
    <2>2. clock \in Nat /\ clock' \in Nat /\ lastRun[t] \in Nat /\ started[t] \subseteq Nat
      BY Constants DEF TypeOK, Times, Never
    <2> QED
      BY <2>1, <2>2
  <1>3. FileRemembers' /\ CancelledAreInactive' /\ OnceAtMostOnce' /\ RunsAreSpaced'
    BY DEF FileRemembers, CancelledAreInactive, OnceAtMostOnce, RunsAreSpaced
  <1> QED
    BY <1>1, <1>2, <1>3

LEMMA QuietActions ==
  ASSUME SInv, \/ Tick \/ Stop \/ Stopped \/ Crash \/ Restart
               \/ \E t \in Tasks : AgentAnswers(t) \/ AgentFails(t) \/ Sent(t)
  PROVE  SInv'
  <1>1. TypeOK
    BY DEF SInv
  <1>2. clock \in Nat
    BY <1>1 DEF TypeOK, Times
  <1>3. CASE Tick
    <2>1. clock' \in Times /\ clock' >= clock
      BY <1>1, <1>2, <1>3, Constants DEF Tick, Times
    <2> QED
      BY <1>1, <1>3, <2>1, QuietStep DEF Tick, TypeOK, runVars
  <1>4. CASE Stop \/ Stopped \/ Restart
    BY <1>1, <1>2, <1>4, QuietStep DEF Stop, Stopped, Restart, TypeOK, runVars
  <1>5. CASE Crash
    <2>1. lost' \in SUBSET Tasks
      BY <1>1, <1>5 DEF Crash, Die, Running, TypeOK
    <2>2. invoking' \in [Tasks -> Nat] /\ sending' \in [Tasks -> Nat]
      BY <1>5 DEF Crash, Die
    <2> QED
      BY <1>1, <1>2, <1>5, <2>1, <2>2, QuietStep DEF Crash, Die, TypeOK
  <1>6. ASSUME NEW t \in Tasks, AgentAnswers(t) \/ AgentFails(t) \/ Sent(t) PROVE SInv'
    <2>1. invoking' \in [Tasks -> Nat] /\ sending' \in [Tasks -> Nat]
      BY <1>1, <1>6 DEF AgentAnswers, AgentFails, Sent, TypeOK
    <2> QED
      BY <1>1, <1>2, <1>6, <2>1, QuietStep DEF AgentAnswers, AgentFails, Sent, TypeOK
  <1> QED
    BY <1>3, <1>4, <1>5, <1>6

LEMMA ToolActions ==
  ASSUME SInv, NEW t \in Tasks, Schedule(t) \/ Cancel(t)
  PROVE  SInv'
  <1> USE DEF SInv
  <1>1. CASE Schedule(t)
    <2>1. TypeOK'
      BY <1>1 DEF Schedule, TypeOK, runVars
    <2>2. t \notin cancelled
      BY <1>1 DEF Schedule, Readable, CancelledAreInactive
    <2>3. CancelledAreInactive' /\ FileRemembers'
      BY <1>1, <2>2 DEF Schedule, Readable, CancelledAreInactive, FileRemembers
    <2>4. NothingAhead' /\ OnceAtMostOnce' /\ RunsAreSpaced'
      BY <1>1 DEF Schedule, NothingAhead, OnceAtMostOnce, RunsAreSpaced
    <2> QED
      BY <2>1, <2>3, <2>4
  <1>2. CASE Cancel(t)
    <2>1. TypeOK'
      BY <1>2 DEF Cancel, TypeOK, runVars
    <2>2. CancelledAreInactive' /\ FileRemembers'
      BY <1>2 DEF Cancel, Readable, CancelledAreInactive, FileRemembers
    <2>3. NothingAhead' /\ OnceAtMostOnce' /\ RunsAreSpaced'
      BY <1>2 DEF Cancel, NothingAhead, OnceAtMostOnce, RunsAreSpaced
    <2> QED
      BY <2>1, <2>2, <2>3
  <1> QED
    BY <1>1, <1>2

\* What the check writes back keeps the file well typed and ahead of no clock.
LEMMA MarkKeeps ==
  ASSUME SInv, Mark, UNCHANGED <<clock, stored, garbled, askVars>>
  PROVE  /\ active' \in SUBSET stored'
         /\ lastRun' \in [Tasks -> Times \cup {Never}]
         /\ \A t \in Tasks : lastRun'[t] # Never => lastRun'[t] <= clock'
         /\ CancelledAreInactive'
  <1> USE DEF SInv
  <1>1. clock \in Times /\ clock \in Nat
    BY DEF TypeOK, Times
  <1>2. \A t \in Tasks : lastRun'[t] = IF t \in Due THEN clock ELSE lastRun[t]
    BY DEF Mark
  <1>3. active' \in SUBSET stored' /\ CancelledAreInactive'
    BY DEF Mark, TypeOK, CancelledAreInactive, askVars
  <1>4. lastRun' \in [Tasks -> Times \cup {Never}]
    BY <1>1 DEF Mark, TypeOK
  <1>5. \A t \in Tasks : lastRun'[t] # Never => lastRun'[t] <= clock'
    BY <1>1, <1>2 DEF NothingAhead
  <1> QED
    BY <1>3, <1>4, <1>5

\* A due task has been run in an earlier slot, if at all.
LEMMA DueIsNew ==
  ASSUME SInv, ~ garbled, NEW t \in Due
  PROVE  /\ t \in Tasks /\ t \in stored /\ t \notin cancelled
         /\ Type[t] = "once" => started[t] = {} /\ clock >= Value[t]
         /\ Type[t] = "interval" => \A x \in started[t] : clock - x >= Value[t]
         /\ Type[t] = "cron" => \A x \in started[t] : clock \div Value[t] > x \div Value[t]
  <1> USE DEF SInv
  <1>1. t \in active /\ t \in stored /\ t \in Tasks /\ IsDue(t) /\ t \notin cancelled
    BY DEF Due, TypeOK, CancelledAreInactive
  <1>2. \A x \in started[t] : lastRun[t] # Never /\ lastRun[t] >= x
    BY <1>1 DEF FileRemembers
  <1>3. clock \in Nat /\ lastRun[t] \in Nat /\ started[t] \subseteq Nat
    BY <1>1, Constants DEF TypeOK, Times, Never
  <1>4. Type[t] = "once" => started[t] = {} /\ clock >= Value[t]
    BY <1>1, <1>2 DEF IsDue
  <1>5. Type[t] = "interval" => \A x \in started[t] : clock - x >= Value[t]
    BY <1>1, <1>2, <1>3, Constants DEF IsDue
  <1>6. ASSUME Type[t] = "cron", NEW x \in started[t]
        PROVE  clock \div Value[t] > x \div Value[t]
    <2>1. lastRun[t] # Never /\ lastRun[t] >= x /\ SlotSince(t, lastRun[t])
      BY <1>1, <1>2, <1>6 DEF IsDue
    <2>2. Value[t] \in Nat \ {0} /\ x \in Nat
      BY <1>1, <1>3, <1>6, Constants
    <2>3. x \div Value[t] <= lastRun[t] \div Value[t]
      BY <1>3, <2>1, <2>2, SlotsGrow
    <2>4. /\ x \div Value[t] \in Int /\ lastRun[t] \div Value[t] \in Int
          /\ clock \div Value[t] \in Int
      BY <1>3, <2>2
    <2> QED
      BY <2>1, <2>3, <2>4 DEF SlotSince
  <1> QED
    BY <1>1, <1>4, <1>5, <1>6

LEMMA CheckKeeps ==
  ASSUME SInv, Check
  PROVE  SInv'
  <1> USE DEF SInv
  <1>1. TypeOK /\ Mark /\ ~ garbled /\ UNCHANGED <<clock, stored, garbled, platform, sending, askVars, lost>>
    BY DEF Check
  <1>2. clock \in Times /\ clock \in Nat
    BY DEF TypeOK, Times
  <1>3. \A t \in Tasks : started'[t] = IF t \in Due THEN started[t] \cup {clock} ELSE started[t]
    BY DEF Check
  <1>4. /\ started' \in [Tasks -> SUBSET Times]
        /\ invoking' \in [Tasks -> Nat]
    BY <1>2 DEF Check, TypeOK
  <1>5. TypeOK'
    BY <1>1, <1>4, MarkKeeps DEF TypeOK, askVars
  <1>6. NothingAhead'
    <2>1. \A t \in Tasks : \A x \in started'[t] : x <= clock'
      <3> SUFFICES ASSUME NEW t \in Tasks, NEW x \in started'[t] PROVE x <= clock
        BY <1>1
      <3>1. x \in started[t] \/ x = clock
        BY <1>3
      <3> QED
        BY <1>2, <3>1 DEF NothingAhead
    <2> QED
      BY <1>1, <2>1, MarkKeeps DEF NothingAhead
  <1>7. FileRemembers'
    <2> SUFFICES ASSUME NEW t \in Tasks, NEW x \in started'[t]
                 PROVE  t \in stored /\ lastRun'[t] # Never /\ lastRun'[t] >= x
      BY <1>1 DEF FileRemembers, askVars
    <2>1. CASE t \in Due
      <3>1. lastRun'[t] = clock /\ t \in stored
        BY <1>1, <2>1, DueIsNew DEF Mark
      <3>2. x <= clock
        BY <1>6, <1>1 DEF NothingAhead
      <3>3. x \in Nat
        BY <1>4 DEF Times
      <3> QED
        BY <1>2, <3>1, <3>2, <3>3, Constants
    <2>2. CASE t \notin Due
      BY <1>1, <1>3, <2>2 DEF FileRemembers, Mark
    <2> QED
      BY <2>1, <2>2
  <1>8. OnceAtMostOnce'
    <2> SUFFICES ASSUME NEW t \in Tasks, Type[t] = "once"
                 PROVE  /\ Cardinality(started'[t]) <= 1
                        /\ \A x \in started'[t] : x >= Value[t]
      BY DEF OnceAtMostOnce
    <2>1. CASE t \in Due
      <3>1. started'[t] = {clock} /\ clock >= Value[t]
        BY <1>1, <1>3, <2>1, DueIsNew
      <3> QED
        BY <3>1, FS_Singleton
    <2>2. CASE t \notin Due
      BY <1>3, <2>2 DEF OnceAtMostOnce
    <2> QED
      BY <2>1, <2>2
  <1>9. RunsAreSpaced'
    <2> SUFFICES ASSUME NEW t \in Tasks, NEW x \in started'[t], NEW y \in started'[t], x < y
                 PROVE  /\ Type[t] = "interval" => y - x >= Value[t]
                        /\ Type[t] = "cron" => y \div Value[t] > x \div Value[t]
      BY DEF RunsAreSpaced
    <2>1. CASE x \in started[t] /\ y \in started[t]
      BY <2>1 DEF RunsAreSpaced
    <2>2. CASE ~ (x \in started[t] /\ y \in started[t])
      <3>1. t \in Due /\ (x = clock \/ y = clock)
        BY <1>3, <2>2
      <3>2. x <= clock /\ y <= clock /\ x \in Nat /\ y \in Nat
        BY <1>1, <1>4, <1>6 DEF NothingAhead, Times
      <3>3. y = clock /\ x \in started[t]
        <4>1. clock \in Nat /\ x <= clock /\ y <= clock
          BY <1>1, <1>2, <3>2
        <4>2. ~ (x = clock)
          BY <3>2, <4>1
        <4>3. x \in started[t]
          <5>1. started'[t] = started[t] \cup {clock}
            BY <1>3, <3>1
          <5> QED
            BY <4>2, <5>1
        <4> QED
          BY <3>1, <4>2, <4>3
      <3> QED
        BY <1>1, <3>1, <3>3, DueIsNew
    <2> QED
      BY <2>1, <2>2
  <1> QED
    BY <1>1, <1>5, <1>6, <1>7, <1>8, <1>9, MarkKeeps

LEMMA CrashKeeps ==
  ASSUME SInv, CrashAfterMark \/ CrashInWrite
  PROVE  SInv'
  <1> USE DEF SInv
  <1>1. /\ UNCHANGED <<clock, askVars, started>> /\ platform' = "down"
        /\ invoking' \in [Tasks -> Nat] /\ sending' \in [Tasks -> Nat]
    BY DEF CrashAfterMark, CrashInWrite, Die
  <1>2. lost' \in SUBSET Tasks
    BY DEF CrashAfterMark, CrashInWrite, Die, Running, Due, TypeOK
  <1>3. OnceAtMostOnce' /\ RunsAreSpaced'
    BY <1>1 DEF OnceAtMostOnce, RunsAreSpaced
  <1>4. CASE CrashAfterMark
    <2>1. Mark /\ ~ garbled /\ UNCHANGED <<stored, garbled>>
      BY <1>4 DEF CrashAfterMark
    <2>2. TypeOK'
      BY <1>1, <1>2, <2>1, MarkKeeps DEF TypeOK, askVars
    <2>3. NothingAhead'
      BY <1>1, <2>1, MarkKeeps DEF NothingAhead
    <2>4. FileRemembers'
      <3> SUFFICES ASSUME NEW t \in Tasks, NEW x \in started[t]
                   PROVE  t \in stored /\ lastRun'[t] # Never /\ lastRun'[t] >= x
        BY <1>1, <2>1 DEF FileRemembers, askVars
      <3>1. clock \in Nat /\ clock # Never /\ x <= clock /\ x \in Nat
        BY Constants DEF NothingAhead, TypeOK, Times
      <3>2. lastRun'[t] = clock \/ lastRun'[t] = lastRun[t]
        BY <2>1 DEF Mark
      <3> QED
        BY <2>1, <3>1, <3>2 DEF FileRemembers
    <2> QED
      BY <1>1, <1>3, <2>1, <2>2, <2>3, <2>4, MarkKeeps
  <1>5. CASE CrashInWrite
    <2>1. garbled' = TRUE /\ stored' = {} /\ active' = {} /\ lastRun' = [t \in Tasks |-> Never]
      BY <1>5 DEF CrashInWrite
    <2>2. TypeOK'
      BY <1>1, <1>2, <2>1 DEF TypeOK, askVars
    <2>3. NothingAhead' /\ FileRemembers' /\ CancelledAreInactive'
      BY <1>1, <2>1 DEF NothingAhead, FileRemembers, CancelledAreInactive
    <2> QED
      BY <1>3, <2>2, <2>3
  <1> QED
    BY <1>4, <1>5

LEMMA StutterKeeps ==
  ASSUME SInv, UNCHANGED vars
  PROVE  SInv'
  BY DEF SInv, vars, fileVars, runVars, askVars, TypeOK, FileRemembers, NothingAhead,
         CancelledAreInactive, OnceAtMostOnce, RunsAreSpaced

LEMMA NextSInv == SInv /\ [Next]_vars => SInv'
  <1> SUFFICES ASSUME SInv, [Next]_vars PROVE SInv'
    OBVIOUS
  <1>1. CASE Tick \/ Stop \/ Stopped \/ Crash \/ Restart
    BY <1>1, QuietActions
  <1>2. CASE Check
    BY <1>2, CheckKeeps
  <1>3. CASE CrashAfterMark \/ CrashInWrite
    BY <1>3, CrashKeeps
  <1>4. ASSUME NEW t \in Tasks, AgentAnswers(t) \/ AgentFails(t) \/ Sent(t) PROVE SInv'
    BY <1>4, QuietActions
  <1>5. ASSUME NEW t \in Tasks, Schedule(t) \/ Cancel(t) PROVE SInv'
    BY <1>5, ToolActions
  <1>6. CASE UNCHANGED vars
    BY <1>6, StutterKeeps
  <1> QED
    BY <1>1, <1>2, <1>3, <1>4, <1>5, <1>6 DEF Next

----------------------------------------------------------------------------
(* The theorems *)

\* The inductive invariant of the scheduler holds over every crash and restart.
THEOREM SchedulerInvariant == Spec => []SInv
  BY InitSInv, NextSInv, PTL DEF Spec

\* Every variable of the scheduler keeps its type; no task is active that is
\* not in the file.
THEOREM SchedulerTypeCorrect == Spec => []TypeOK
  <1>1. SInv => TypeOK
    BY DEF SInv
  <1> QED
    BY <1>1, SchedulerInvariant, PTL

\* A once task runs at most once and not before its time, however often the
\* platform crashes, for any number of tasks.
THEOREM OnceRunsOnce == Spec => []OnceAtMostOnce
  <1>1. SInv => OnceAtMostOnce
    BY DEF SInv
  <1> QED
    BY <1>1, SchedulerInvariant, PTL

\* No slot of a recurring task is run twice, for every interval and period.
THEOREM SlotsRunOnce == Spec => []RunsAreSpaced
  <1>1. SInv => RunsAreSpaced
    BY DEF SInv
  <1> QED
    BY <1>1, SchedulerInvariant, PTL

\* The file knows of every run and of every accepted task until it is cut off.
THEOREM FileKnowsRuns == Spec => []FileRemembers
  <1>1. SInv => FileRemembers
    BY DEF SInv
  <1> QED
    BY <1>1, SchedulerInvariant, PTL

\* What cancel_task has confirmed never starts again.
THEOREM CancelledNeverStart == Spec => CancelledStayQuiet
  <1>1. SInv /\ [Next]_vars => [\A t \in cancelled : started'[t] = started[t]]_vars
    <2> SUFFICES ASSUME SInv, Next, NEW t \in cancelled PROVE started'[t] = started[t]
      OBVIOUS
    <2>1. t \in Tasks /\ t \notin Due
      BY DEF SInv, TypeOK, CancelledAreInactive, Due
    <2>2. CASE Check
      BY <2>1, <2>2 DEF Check
    <2>3. CASE ~ Check
      BY <2>3 DEF Next, Tick, Stop, Stopped, Crash, CrashAfterMark, CrashInWrite, Die, Restart,
                  Schedule, Cancel, AgentAnswers, AgentFails, Sent
    <2> QED
      BY <2>2, <2>3
  <1> QED
    BY <1>1, SchedulerInvariant, PTL DEF Spec, CancelledStayQuiet

\* What list_tasks shows is what the loop will do, for every schedule: a task
\* that is not due becomes so with the tick that reaches its next run.
THEOREM ListedAreKept == Spec => NextRunIsKept
  <1>1. ASSUME SInv, Tick, NEW t \in DOMAIN Listed, ~ IsDue(t)
        PROVE  IsDue(t)' <=> \E n \in Listed[t] : clock' >= n
    <2>1. t \in active /\ t \in Tasks /\ Listed[t] = NextRun(t)
      BY <1>1 DEF SInv, TypeOK, Listed
    <2>2. /\ clock \in Nat /\ clock' = clock + 1 /\ lastRun' = lastRun
          /\ lastRun[t] \in Times \cup {Never}
      BY <1>1, <2>1, Constants DEF SInv, TypeOK, Times, Tick, fileVars
    <2>3. lastRun[t] # Never => lastRun[t] \in Nat /\ lastRun[t] <= clock
      BY <1>1, <2>1, <2>2 DEF SInv, NothingAhead, Times
    <2>4. CASE Type[t] = "once"
      BY <1>1, <2>1, <2>2, <2>4 DEF IsDue, NextRun
    <2>5. CASE Type[t] = "interval"
      <3>1. lastRun[t] # Never
        BY <1>1, <2>5 DEF IsDue
      <3>2. Value[t] \in Nat
        BY <2>1, Constants
      <3>3. IsDue(t)' <=> clock' - lastRun[t] >= Value[t]
        BY <2>2, <2>5, <3>1 DEF IsDue, Never
      <3>4. Listed[t] = {lastRun[t] + Value[t]}
        BY <2>1, <2>5, <3>1 DEF NextRun
      <3> QED
        BY <2>2, <2>3, <3>1, <3>2, <3>3, <3>4
    <2>6. CASE Type[t] = "cron"
      <3> DEFINE v == Value[t]
                 x == lastRun[t]
      <3>1. x # Never
        BY <1>1, <2>6 DEF IsDue
      <3>2. v \in Nat \ {0}
        BY <2>1, <2>6, Constants
      <3>3. x \in Nat /\ x <= clock
        BY <2>3, <3>1
      <3>4. ~ clock \div v > x \div v
        BY <1>1, <2>6, <3>1 DEF IsDue, SlotSince
      <3>5. x \div v <= clock \div v
        BY <2>2, <3>2, <3>3, SlotsGrow
      <3>6. x \div v \in Nat /\ clock \div v \in Nat
        BY <2>2, <3>2, <3>3
      <3>7. x \div v = clock \div v
        BY <3>4, <3>5, <3>6
      <3>8. IsDue(t)' <=> (clock + 1) \div v > x \div v
        BY <2>2, <2>6, <3>1 DEF IsDue, SlotSince, Never
      <3>9. Listed[t] = {(clock \div v + 1) * v}
        BY <2>1, <2>6 DEF NextRun
      <3>10. (clock + 1) \div v > clock \div v <=> clock + 1 >= (clock \div v + 1) * v
        BY <2>2, <3>2, NextSlot
      <3> QED
        BY <2>2, <3>7, <3>8, <3>9, <3>10
    <2> QED
      BY <2>1, <2>4, <2>5, <2>6, Constants
  <1>2. SInv /\ [Next]_vars
          => [Tick => \A t \in DOMAIN Listed : ~ IsDue(t) =>
                (IsDue(t)' <=> \E n \in Listed[t] : clock' >= n)]_vars
    BY <1>1
  <1> QED
    BY <1>2, SchedulerInvariant, PTL DEF Spec, NextRunIsKept
=============================================================================
