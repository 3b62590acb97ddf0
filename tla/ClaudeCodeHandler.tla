------------------------- MODULE ClaudeCodeHandler -------------------------
(***************************************************************************)
(* The Telegram handler of the Claude Code mode over the bridge: messages  *)
(* and the commands that run claude wait for the lock of their user, the   *)
(* other cc: commands and the buttons do not.  Which button means which    *)
(* session is the matter of ClaudeCodeMenus: here the user chooses.        *)
(***************************************************************************)
EXTENDS ClaudeCodeBridge

CONSTANTS MaxRequests     \* bound on the requests that take the lock and the saves that fail, together

ASSUME HandlerAssumption == MaxRequests \in Nat

VARIABLES
  queue,       \* the tasks that hold (the head) or wait for the lock of a user
  accepted,    \* a cc: text was accepted in the mode and its task has not run
  requests     \* number of requests so far

lockVars == <<queue, accepted, requests>>
vars == <<bridgeVars, lockVars>>

Init ==
  /\ BridgeInit
  /\ queue = [u \in Users |-> <<>>]
  /\ accepted = [u \in Users |-> FALSE]
  /\ requests = 0

-----------------------------------------------------------------------------
(* Messages and the lock *)

\* process_message: a text waits for the lock of its user.
Enqueue(u, kind) ==
  /\ requests < MaxRequests
  /\ requests' = requests + 1
  /\ queue' = [queue EXCEPT ![u] = Append(@, kind)]

Message(u) ==
  /\ InMode(u)
  /\ Enqueue(u, "message")
  /\ UNCHANGED <<bridgeVars, accepted>>

Release(u) ==
  /\ queue' = [queue EXCEPT ![u] = Tail(@)]
  /\ UNCHANGED <<accepted, requests>>

\* The lock is free for the head of the queue: its process starts.  The user
\* may have left the mode meanwhile.
Start(u) ==
  /\ queue[u] # <<>> /\ flight[u] = Idle
  /\ \/ Head(queue[u]) \in {"message", "memory"} /\ BeginSend(u, Head(queue[u]))
     \/ Head(queue[u]) = "compact" /\ state[u].session # NoSession /\ BeginFork(u)
  /\ UNCHANGED <<files, state, savedVars, strays, lockVars>>

NothingToFork(u) ==
  /\ queue[u] # <<>> /\ flight[u] = Idle
  /\ Head(queue[u]) = "compact" /\ state[u].session = NoSession
  /\ Release(u)
  /\ UNCHANGED bridgeVars

Finish(u) ==
  /\ At(u, {"answered"})
  /\ AfterProcess(u)
  /\ Release(u)
  /\ UNCHANGED <<files, strays>>

\* Mutant of TimeLimit: the lock stays with the task.
TimeLimitKeepsLock(u) ==
  /\ flight[u] # Idle /\ flight[u].kind = "message"
  /\ strays' = strays \cup Left(u)
  /\ flight' = [flight EXCEPT ![u] = Idle]
  /\ UNCHANGED <<files, state, savedVars, lockVars>>

\* wait_for(send_message, 300): the coroutine is cancelled, the process is not.
TimeLimit(u) ==
  /\ flight[u] # Idle /\ flight[u].kind = "message"
  /\ strays' = strays \cup Left(u)
  /\ flight' = [flight EXCEPT ![u] = Idle]
  /\ Release(u)
  /\ UNCHANGED <<files, state, savedVars>>

-----------------------------------------------------------------------------
(* cc: commands, which take no lock *)

Accept(u) ==
  /\ InMode(u) /\ ~ accepted[u]
  /\ accepted' = [accepted EXCEPT ![u] = TRUE]
  /\ UNCHANGED <<bridgeVars, queue, requests>>

\* The task of an accepted text runs; the user may have left the mode.
Runs(u) ==
  /\ accepted[u]
  /\ accepted' = [accepted EXCEPT ![u] = FALSE]

Activate(u, p, path, s) ==
  /\ ActivateSession(u, p, path, s, FALSE)
  /\ UNCHANGED <<files, flight, strays>>

CmdClear(u) ==
  /\ Runs(u)
  /\ Activate(u, state[u].project, state[u].path, NoSession)
  /\ UNCHANGED <<queue, requests>>

CmdProject(u) ==
  /\ Runs(u)
  /\ \E p \in ProjectsOnDisk : \E path \in Peeked(p) : Activate(u, p, path, NoSession)
  /\ UNCHANGED <<queue, requests>>

CmdResume(u) ==
  /\ Runs(u)
  /\ state[u].project # NoProject
  /\ \E s \in SessionsOf(state[u].project) : Activate(u, state[u].project, state[u].path, s)
  /\ UNCHANGED <<queue, requests>>

CmdModel(u) ==
  /\ Runs(u)
  /\ \E m \in Models : SetModel(u, m)
  /\ UNCHANGED <<files, flight, strays, queue, requests>>

\* cc:compact and cc:memory look for a session, then wait for the lock.
CmdLocked(u, kind) ==
  /\ Runs(u)
  /\ state[u].session # NoSession
  /\ Enqueue(u, kind)
  /\ UNCHANGED bridgeVars

CmdCompact(u) == CmdLocked(u, "compact")
CmdMemory(u)  == CmdLocked(u, "memory")

\* The other commands, and those that find nothing to work on, only answer.
CmdAnswers(u) ==
  /\ Runs(u)
  /\ UNCHANGED <<bridgeVars, queue, requests>>

\* The exit button, /cc exit and the cc:exit callback.
Exit(u) ==
  /\ ExitMode(u)
  /\ UNCHANGED <<files, strays, lockVars>>

\* _start_new_conversation (cc:new): a project of the list in the cache.
ChooseNew(u) ==
  /\ \E p \in ProjectsOnDisk : \E path \in Peeked(p) : Activate(u, p, path, NoSession)
  /\ UNCHANGED lockVars

\* _activate_conversation (cc:conv): a project of the one cache and a session of
\* the other, which is one of the same project only as long as the list of the
\* projects has not been read again.
Choose(u) ==
  /\ \E p, q \in ProjectsOnDisk : \E path \in Peeked(p) : \E s \in SessionsOf(q) :
       ActivateSession(u, p, path, s, q # p)
  /\ UNCHANGED <<files, flight, strays, lockVars>>

-----------------------------------------------------------------------------
Crash ==
  /\ \E torn \in BOOLEAN : Restart(torn)
  /\ queue' = [u \in Users |-> <<>>]
  /\ accepted' = [u \in Users |-> FALSE]
  /\ UNCHANGED requests

\* In a terminal only new sessions: what an old one does to the order of the
\* files, a user who resumes it does as well.
Environment ==
  /\ StrayWrites \/ \E p \in Projects : TerminalSession(p, NoSession)
  /\ UNCHANGED <<lockVars>>

Running(u) ==
  /\ ProcessWrites(u) \/ ProcessAnswers(u) \/ GatewayRefuses(u) \/ ClientGivesUp(u)
  /\ UNCHANGED <<lockVars>>

Step ==
  \/ \E u \in Users :
       \/ Message(u) \/ Start(u) \/ NothingToFork(u) \/ Finish(u) \/ TimeLimit(u)
       \/ Accept(u) \/ CmdClear(u) \/ CmdProject(u) \/ CmdResume(u) \/ CmdModel(u)
       \/ CmdCompact(u) \/ CmdMemory(u) \/ CmdAnswers(u) \/ Exit(u)
       \/ ChooseNew(u) \/ Choose(u) \/ Running(u)
  \/ Environment
  \/ Crash

Next == Step /\ requests' + failures' <= MaxRequests       \* bound

Spec == Init /\ [][Next]_vars

\* The event loop runs what is ready and the 300 seconds pass; nothing says
\* that a claude process ends (cc.timeout is 0 unless it is set).
FairSpec == Spec /\ \A u \in Users :
  WF_vars(Start(u) \/ NothingToFork(u)) /\ WF_vars(Finish(u)) /\ WF_vars(TimeLimit(u))

-----------------------------------------------------------------------------
TypeOK ==
  /\ BridgeTypeOK
  /\ queue \in [Users -> Seq({"message", "memory", "compact"})]
  /\ accepted \in [Users -> BOOLEAN]
  /\ requests \in 0 .. MaxRequests

\* What is to be saved says of every user in the mode what memory says, and has
\* nothing about anybody else; who has left the mode holds no project and no
\* session, whatever a send that was under way finds afterwards (bridge.py:
\* exit_mode puts a new object in place, _persist_user looks at the mode).  The
\* file, and with it what a restart brings back, says the same unless the last
\* save failed, which goes unnoticed (store.py:52).
StoreAgrees ==
  /\ \A u \in Users :
       IF InMode(u) THEN store[u] = state[u]
       ELSE /\ store[u] = Absent
            /\ state[u].project = NoProject /\ state[u].session = NoSession
  /\ unsaved \/ disk = store

\* The session of a user is one of the user's project, so that claude finds it
\* there to resume, unless a button took project and session from the lists of
\* two projects (claude_code.py:738-752: an old button, pressed after the list of
\* the projects was read again) and no session has been detected or activated
\* since (bridge.py: _detect_new_session, activate_session).
SessionOfProject ==
  \A u \in Users :
    state[u].session # NoSession /\ ~ state[u].mixed =>
      state[u].session \in SessionsOf(state[u].project)

\* Every request is answered in the end, unless a cc:compact or cc:memory holds
\* the lock with a process that never ends: these two have no time limit.
RequestsAnswered ==
  \A u \in Users :
    \/ []<>(queue[u] = <<>>)
    \/ <>[](flight[u] # Idle /\ flight[u].kind \in {"compact", "memory"})
=============================================================================
