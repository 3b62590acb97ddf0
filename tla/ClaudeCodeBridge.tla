------------------------- MODULE ClaudeCodeBridge -------------------------
(***************************************************************************)
(* The Claude Code bridge: who is in the mode, in which project and        *)
(* session; the session files that the claude processes write on disk; a   *)
(* send or a fork, which reads the user's state, runs a process and looks  *)
(* at the state again when the process has answered.  The process runs     *)
(* locally or through the gateway; both may leave it behind.               *)
(* ClaudeCodeHandler adds the Telegram handler that calls all this.        *)
(***************************************************************************)
EXTENDS SequencesExt, Listing

CONSTANTS Users,         \* ids of the users in private chats
          Projects,      \* directories under projects_dir
          Here,          \* the directory in which the platform, or the gateway, runs itself
          AllowedCwd,    \* paths with which the gateway runs a command; all without a gateway
          Models,        \* models (and efforts) a user may ask for
          Dated,         \* sessions whose file has a timestamp that can be read
          OldSessions,   \* sessions on disk at the start
          MaxSessions,   \* bound on the sessions ever written
          MaxFailures    \* bound on the saves that fail

Sessions   == 1 .. MaxSessions      \* in the order they begin
NoSession  == 0
NoProject  == "none"
Nowhere    == "nowhere"             \* the encoded name of a project, which is no directory
Paths      == Projects \cup {NoProject, Nowhere}

ASSUME BridgeAssumption ==
  /\ Here \in Projects /\ NoProject \in AllowedCwd /\ AllowedCwd \subseteq Paths
  /\ Projects \cap {NoProject, Nowhere} = {} /\ "default" \notin Models
  /\ OldSessions \in Nat /\ MaxSessions \in Nat /\ OldSessions <= MaxSessions
  /\ MaxFailures \in Nat

\* mixed is history: project and session were taken from lists of two projects.
UserSession == [mode    : {"ciana", "claude_code"},
                project : Projects \cup {NoProject},
                path    : Paths,
                session : Sessions \cup {NoSession},
                model   : Models \cup {"default"},
                mixed   : BOOLEAN]
NewState == [mode |-> "ciana", project |-> NoProject, path |-> NoProject, session |-> NoSession,
             model |-> "default", mixed |-> FALSE]
Absent   == [mode |-> "absent"]     \* no entry in the state file

\* The process of a send or a fork, and the coroutine that waits for it.  It
\* holds the UserSession object of its beginning, which is the user's own until
\* exit_mode puts another in its place.
Idle  == [kind |-> "idle"]
Process == [path : Paths, resume : Sessions \cup {NoSession}, fork : BOOLEAN]
Flight == [kind   : {"message", "memory", "compact"},
           own    : BOOLEAN,                          \* its object is still the user's
           known  : SUBSET Sessions,                  \* existing_sessions
           proc   : Process,
           phase  : {"running", "written", "answered"}]

VARIABLES
  files,    \* the session files, the last one modified first
  state,    \* _user_states
  store,    \* _store: what JsonStore has in memory
  disk,     \* the state file, as it is going to be read
  unsaved,  \* history: the last save has failed
  failures, \* number of saves that have failed
  flight,   \* the send or fork of each user that is under way
  strays    \* processes that nobody waits for and that have not yet written

savedVars  == <<store, disk, unsaved, failures>>
bridgeVars == <<files, state, savedVars, flight, strays>>

File == [id : Sessions, project : Projects]

SessionsOf(p) == {f.id : f \in {g \in Range(files) : g.project = p}}

\* Mutant of Detected: the files of every project are looked through.
DetectedAnywhere(p, known) ==
  LET new == {i \in DOMAIN files : files[i].id \notin known}
  IN IF new = {} THEN NoSession
     ELSE files[CHOOSE i \in new : \A j \in new : i <= j].id

\* _detect_new_session: the last one modified that was not known.
Detected(p, known) ==
  LET new == {i \in DOMAIN files : files[i].project = p /\ files[i].id \notin known}
  IN IF new = {} THEN NoSession
     ELSE files[CHOOSE i \in new : \A j \in new : i <= j].id

\* list_projects: by the last activity.
ProjectsOnDisk == {f.project : f \in Range(files)}
LastActive(p) == CHOOSE i \in DOMAIN files :
                   files[i].project = p /\ \A j \in DOMAIN files : files[j].project = p => i <= j
ListProjects ==
  Listed(ProjectsOnDisk, [p \in ProjectsOnDisk |-> {q \in ProjectsOnDisk : LastActive(q) <= LastActive(p)}])

\* _peek_cwd: the directory that the newest file of a project names; if that
\* cannot be read the encoded name of the project has to do.
Peeked(p) == {p, Nowhere}

\* list_conversations: the newest first, by the first timestamp in the file.  A
\* session whose file has none goes by the time of the file, so that it may come
\* anywhere; one whose file cannot be read is left out (_parse_conversation).
ConversationLists(p) ==
  {cs \in SeqOf(SessionsOf(p), Cardinality(SessionsOf(p))) :
     \A i, j \in DOMAIN cs : i < j =>
       cs[i] # cs[j] /\ ({cs[i], cs[j]} \subseteq Dated => cs[i] > cs[j])}

InMode(u) == state[u].mode = "claude_code"

\* JsonStore._save swallows an OSError: the file stays as it was, or is cut off,
\* does not parse and is going to count as an empty one.
NoEntries == [u \in Users |-> Absent]

SaveFails ==
  /\ failures < MaxFailures /\ failures' = failures + 1
  /\ disk' \in {disk, NoEntries} /\ unsaved' = TRUE

Save(entries) ==
  /\ store' = entries
  /\ \/ disk' = entries /\ unsaved' = FALSE /\ UNCHANGED failures
     \/ SaveFails

\* _persist_user: only the current state of a user in the mode is written.
PersistUser(u, st) ==
  IF st.mode = "claude_code" THEN Save([store EXCEPT ![u] = st]) ELSE UNCHANGED savedVars

SetState(u, st) ==
  /\ state' = [state EXCEPT ![u] = st]
  /\ PersistUser(u, st)

ActivateSession(u, p, path, s, mixed) ==
  SetState(u, [state[u] EXCEPT !.mode = "claude_code", !.project = p, !.path = path,
                               !.session = s, !.mixed = mixed])

SetModel(u, m) == SetState(u, [state[u] EXCEPT !.model = m])

\* exit_mode: a new object takes the place of the old one, which a send or a
\* fork under way still holds; the store saves if it had an entry.
ExitMode(u) ==
  /\ state' = [state EXCEPT ![u] = NewState]
  /\ IF store[u] = Absent THEN UNCHANGED savedVars ELSE Save([store EXCEPT ![u] = Absent])
  /\ flight' = IF flight[u] = Idle THEN flight
               ELSE [flight EXCEPT ![u].own = FALSE]

-----------------------------------------------------------------------------
(* A send or a fork *)

\* send_message and fork_session up to the process: the command line is built
\* from the state, the snapshot only if it is going to be needed.
Begin(u, kind, snapshot) ==
  flight' = [flight EXCEPT ![u] =
    [kind |-> kind, own |-> TRUE,
     known |-> IF snapshot THEN SessionsOf(state[u].project) ELSE {},
     proc |-> [path |-> state[u].path, resume |-> state[u].session, fork |-> kind = "compact"], phase |-> "running"]]

BeginSend(u, kind) == Begin(u, kind, state[u].session = NoSession /\ state[u].project # NoProject)
BeginFork(u)       == Begin(u, "compact", state[u].project # NoProject)

\* What follows the process: a send looks for a new session only if there is
\* none now, a fork always does.
Looks(u) == /\ state[u].project # NoProject
            /\ flight[u].kind = "compact" \/ state[u].session = NoSession

\* Mutant of AfterProcess: the session found is not persisted.
AfterProcessUnsaved(u) ==
  LET new == Detected(state[u].project, flight[u].known)
  IN /\ state' = IF flight[u].own /\ Looks(u) /\ new # NoSession
                 THEN [state EXCEPT ![u].session = new, ![u].mixed = FALSE] ELSE state
     /\ flight' = [flight EXCEPT ![u] = Idle]
     /\ UNCHANGED savedVars

\* An object that is no longer the user's may get a session too; it does not
\* show, for _persist_user writes the one that has taken its place.
AfterProcess(u) ==
  LET new == Detected(state[u].project, flight[u].known)
  IN /\ IF ~ flight[u].own
        THEN state' = state /\ (UNCHANGED savedVars \/ PersistUser(u, state[u]))
        ELSE IF Looks(u) /\ new # NoSession
             THEN SetState(u, [state[u] EXCEPT !.session = new, !.mixed = FALSE])
             ELSE UNCHANGED <<state, savedVars>>
     /\ flight' = [flight EXCEPT ![u] = Idle]

At(u, phases) == flight[u] # Idle /\ flight[u].phase \in phases

\* What the gateway looks at before it runs the command; the bridge and the
\* command are always those of its allowlist.
Allowed(proc) == proc.path \in AllowedCwd

\* Where a process runs: without a path, and with one that is no directory, where
\* the one who starts it does.
Cwd(proc) == IF proc.path \in Projects THEN proc.path ELSE Here

\* _execute_command gives an answer: the output of a process that has ended,
\* or an error (it failed, the time limit killed it, the gateway could not be
\* reached).  What follows is the same for both.
ProcessAnswers(u) ==
  /\ At(u, {"running", "written"}) /\ Allowed(flight[u].proc)
  /\ flight' = [flight EXCEPT ![u].phase = "answered"]
  /\ UNCHANGED <<files, state, savedVars, strays>>

GatewayRefuses(u) ==
  /\ At(u, {"running"})
  /\ ~ Allowed(flight[u].proc)
  /\ flight' = [flight EXCEPT ![u].phase = "answered"]
  /\ UNCHANGED <<files, state, savedVars, strays>>

\* The gateway's client gives up: the process goes on without anyone waiting.
Left(u) == IF At(u, {"running"}) /\ Allowed(flight[u].proc) THEN {flight[u].proc} ELSE {}

ClientGivesUp(u) ==
  /\ Left(u) # {}
  /\ flight' = [flight EXCEPT ![u].phase = "answered"]
  /\ strays' = strays \cup Left(u)
  /\ UNCHANGED <<files, state, savedVars>>

-----------------------------------------------------------------------------
(* The claude processes and the files they write *)

\* The session that a process writes: a fresh one, or the one it resumes; none
\* when the session is not one of its directory.
Writes(proc) ==
  IF proc.resume # NoSession /\ proc.resume \notin SessionsOf(Cwd(proc)) THEN NoSession
  ELSE IF proc.resume = NoSession \/ proc.fork THEN Len(files) + 1 ELSE proc.resume

Write(proc) ==
  LET f == [id |-> Writes(proc), project |-> Cwd(proc)]
      others == IF f \in Range(files)
                THEN RemoveAt(files, CHOOSE i \in DOMAIN files : files[i] = f) ELSE files
  IN /\ f.id \in Sessions
     /\ files' = <<f>> \o others

ProcessWrites(u) ==
  /\ At(u, {"running"}) /\ Allowed(flight[u].proc)
  /\ Write(flight[u].proc)
  /\ flight' = [flight EXCEPT ![u].phase = "written"]
  /\ UNCHANGED <<state, savedVars, strays>>

StrayWrites ==
  \E proc \in strays :
    /\ Write(proc)
    /\ strays' = strays \ {proc}
    /\ UNCHANGED <<state, savedVars, flight>>

\* Somebody works with Claude Code in a terminal, in a new session or an old.
TerminalSession(p, s) ==
  /\ Write([path |-> p, resume |-> s, fork |-> FALSE])
  /\ UNCHANGED <<state, savedVars, flight, strays>>

-----------------------------------------------------------------------------
BridgeInit ==
  /\ \E home \in [1 .. OldSessions -> Projects] :
       files = [i \in 1 .. OldSessions |->
                  [id |-> OldSessions + 1 - i, project |-> home[OldSessions + 1 - i]]]
  /\ state = [u \in Users |-> NewState]
  /\ store = NoEntries /\ disk = NoEntries /\ unsaved = FALSE /\ failures = 0
  /\ flight = [u \in Users |-> Idle]
  /\ strays = {}

\* The platform stops at any point and starts again (_restore_states).  If it
\* stops inside _save, the file does not parse.
Restart(torn) ==
  /\ disk' = IF torn THEN NoEntries ELSE disk
  /\ store' = disk' /\ unsaved' = FALSE
  /\ state' = [u \in Users |-> IF store'[u] = Absent THEN NewState ELSE store'[u]]
  /\ strays' = strays \cup UNION {Left(u) : u \in Users}
  /\ flight' = [u \in Users |-> Idle]
  /\ UNCHANGED <<files, failures>>

\* The sessions are numbered as they begin.
SessionsNumbered == {f.id : f \in Range(files)} = 1 .. Len(files)

BridgeTypeOK ==
  /\ files \in Seq(File)
  /\ state \in [Users -> UserSession]
  /\ store \in [Users -> {Absent} \cup UserSession] /\ disk \in [Users -> {Absent} \cup UserSession]
  /\ unsaved \in BOOLEAN /\ failures \in 0 .. MaxFailures
  /\ flight \in [Users -> {Idle} \cup Flight]
  /\ strays \subseteq Process
=============================================================================
