---------------------------- MODULE DreamMemory ----------------------------
(***************************************************************************)
(* Long-term memory.  The consolidator appends summaries to history.jsonl; *)
(* a dream takes the entries behind the dream cursor, asks a model about    *)
(* them, adds its notes to MEMORY.md, commits the workspace and moves the   *)
(* cursor.  The loop of main and the /dream command run dreams at the same  *)
(* time.  The other /dream commands look at a repository of their own.      *)
(***************************************************************************)
EXTENDS Integers, Sequences, FiniteSets

CONSTANTS Dreamers,     \* the dream loop and the /dream command
          Loop,         \* the one of them that comes back by itself
          MaxBatch,     \* max_batch_size
          MaxEntries,   \* bound on the summaries appended
          MaxFaults     \* bound on crashes and failures

ASSUME DreamAssumption ==
  /\ Loop \in Dreamers /\ IsFiniteSet(Dreamers)
  /\ MaxBatch \in Nat \ {0} /\ MaxEntries \in Nat /\ MaxFaults \in Nat

Ids     == 1 .. MaxEntries          \* the summaries, in the order they come
Garbage == 0                        \* a line that does not parse
Broken  == -1                       \* a line torn inside a character: it does not even decode
Lines   == Ids \cup {Garbage, Broken}
Idle    == [batch |-> {}, size |-> 0]
Repos   == {"workspace", "memory"}

VARIABLES
  history,      \* the lines of history.jsonl
  ended,        \* its last line has its newline
  appended,     \* number of summaries that were to be appended
  cursor,       \* .cursor
  dreamCursor,  \* .dream_cursor
  run,          \* the dreams that wait for the model: the summaries of the batch, and how many entries
  legible,      \* MEMORY.md of the workspace decodes
  file,         \* the notes in the MEMORY.md of a directory: summaries noted
  head,         \* what the last commit of a repository has of it
  commits,      \* what each of its commits has; none: not a repository yet
  faults,       \* number of faults so far
  dreamt,       \* history: summaries whose dream has come to its notes
  noted,        \* history: of these, those the model had something to say about
  trouble       \* history: two dreams overlapped, or a line that could be read no longer can

historyVars == <<history, ended, appended, cursor>>
gitVars     == <<legible, file, head, commits>>
ghosts      == <<dreamt, noted>>
vars == <<historyVars, dreamCursor, run, gitVars, faults, ghosts, trouble>>

Init ==
  /\ history = <<>> /\ ended = TRUE /\ appended = 0
  /\ cursor = 0 /\ dreamCursor = 0
  /\ run = [d \in Dreamers |-> Idle]
  /\ legible = TRUE
  /\ file = [r \in Repos |-> {}]
  /\ head = [r \in Repos |-> {}]
  /\ commits = [r \in Repos |-> {}]
  /\ faults = 0
  /\ dreamt = {} /\ noted = {} /\ trouble = FALSE

Fault == faults < MaxFaults /\ faults' = faults + 1

-----------------------------------------------------------------------------
(* The history *)

\* _read_all_entries raises if the file does not decode.  If it does, a line that
\* does not parse is passed over, and the others are counted.
Readable   == \A i \in DOMAIN history : history[i] # Broken
Parsed     == {i \in DOMAIN history : history[i] \in Ids}
EntryNo(i) == Cardinality({j \in Parsed : j <= i})
NumEntries == Cardinality(Parsed)

\* The entries from after number lo up to number hi.
Entries(lo, hi) == {history[i] : i \in {j \in Parsed : lo < EntryNo(j) /\ EntryNo(j) <= hi}}

\* What reaches the file is a line of its own only if the last one has ended.
Joined(line) == IF Broken \in {history[Len(history)], line} THEN Broken ELSE Garbage

WriteLine(line) ==
  history' = IF ended THEN Append(history, line) ELSE [history EXCEPT ![Len(history)] = Joined(line)]

Summary == appended < MaxEntries /\ appended' = appended + 1
Spoils  == ~ ended /\ Len(history) \in Parsed

\* Consolidator.append: a line, then the cursor.
AppendSummary ==
  /\ Summary
  /\ WriteLine(appended + 1)
  /\ ended' = TRUE
  /\ cursor' = cursor + 1
  /\ trouble' = (trouble \/ Spoils)
  /\ UNCHANGED <<dreamCursor, run, gitVars, faults, ghosts>>

\* It stops halfway with the process, or on a full disk: in the line, which
\* parses if only its newline is missing, and does not decode if it is torn
\* inside a character (the summaries are written as they are, ensure_ascii =
\* False); after it; or with an empty .cursor.
AppendStops ==
  /\ Summary /\ Fault
  /\ \/ /\ \E line \in {appended + 1, Garbage, Broken} : WriteLine(line)
        /\ ended' = FALSE
        /\ UNCHANGED cursor
     \/ /\ WriteLine(appended + 1)
        /\ ended' = TRUE
        /\ cursor' \in {cursor, 0}
  /\ trouble' = (trouble \/ Spoils)
  /\ run' \in {run, [d \in Dreamers |-> Idle]}
  /\ UNCHANGED <<dreamCursor, gitVars, ghosts>>

-----------------------------------------------------------------------------
(* The git store of a directory *)

\* init: a repository whose first commit has none of the tracked files.
Opened(r) == IF commits[r] = {} THEN {{}} ELSE commits[r]

\* auto_commit, if there is something to commit.
Commit(r) ==
  /\ head' = [head EXCEPT ![r] = file'[r]]
  /\ commits' = [commits EXCEPT ![r] = Opened(r) \cup {file'[r]}]

-----------------------------------------------------------------------------
(* A dream *)

\* run, up to the call of the model.  If the history does not decode it raises,
\* which dream_loop logs and /dream passes on.
Begin(d) ==
  LET size == IF NumEntries - dreamCursor < MaxBatch THEN NumEntries - dreamCursor ELSE MaxBatch
  IN /\ run[d] = Idle /\ Readable
     /\ dreamCursor < NumEntries
     /\ run' = [run EXCEPT ![d] = [batch |-> Entries(dreamCursor, dreamCursor + size), size |-> size]]
     /\ trouble' = (trouble \/ \E e \in Dreamers : run[e] # Idle)
     /\ UNCHANGED <<historyVars, dreamCursor, gitVars, faults, ghosts>>

\* dream_loop sleeps, dreams and comes back, whatever has become of the dream.
DreamLoop == Begin(Loop)

\* /dream
DreamCommand(d) == d # Loop /\ Begin(d)

\* The notes of the model about the batch, if it has any, go to MEMORY.md.
Notes(d, worth) ==
  LET batch == run[d].batch
  IN /\ file' = IF worth THEN [file EXCEPT !["workspace"] = @ \cup batch] ELSE file
     /\ dreamt' = dreamt \cup batch
     /\ noted' = IF worth THEN noted \cup batch ELSE noted \ batch

\* Mutants of Advance: the cursor goes to the end of the history; it stays.
AdvanceToEnd(d) == dreamCursor' = NumEntries
AdvanceForgotten(d) == UNCHANGED dreamCursor

Advance(d) == dreamCursor' = dreamCursor + run[d].size

\* The rest of run, in one go: nothing in it awaits.
Complete(d) ==
  /\ run[d] # Idle /\ legible
  /\ \E worth \in BOOLEAN : Notes(d, worth)
  /\ Commit("workspace")
  /\ Advance(d)
  /\ run' = [run EXCEPT ![d] = Idle]
  /\ UNCHANGED <<legible, historyVars, faults, trouble>>

\* Phase 2 cannot read MEMORY.md: the dream has failed, and nothing is changed.
NotesFail(d) ==
  /\ run[d] # Idle /\ ~ legible
  /\ run' = [run EXCEPT ![d] = Idle]
  /\ UNCHANGED <<historyVars, dreamCursor, gitVars, faults, ghosts, trouble>>

\* The same as Complete up to a write that raises or does not return: in
\* MEMORY.md, which may be left empty or torn inside a character, before or
\* after the commit, or with an empty cursor.
StopsInNotes ==
  /\ \/ UNCHANGED <<file, legible>>
     \/ file' = [file EXCEPT !["workspace"] = {}] /\ legible' \in BOOLEAN
  /\ UNCHANGED <<head, commits, dreamCursor, ghosts>>

\* Mutant of StopsLater: the cursor is moved before the commit.
StopsLaterCursorFirst(d) ==
  /\ \E worth \in BOOLEAN : Notes(d, worth)
  /\ UNCHANGED <<legible, head, commits>>
  /\ dreamCursor' \in {dreamCursor, 0} \/ Advance(d)

StopsLater(d) ==
  /\ \E worth \in BOOLEAN : Notes(d, worth)
  /\ UNCHANGED legible
  /\ \/ UNCHANGED <<head, commits, dreamCursor>>
     \/ Commit("workspace") /\ dreamCursor' \in {dreamCursor, 0}

DreamStops(d) ==
  /\ run[d] # Idle /\ legible
  /\ Fault
  /\ StopsInNotes \/ StopsLater(d)
  /\ run' \in {[run EXCEPT ![d] = Idle], [e \in Dreamers |-> Idle]}
  /\ UNCHANGED <<historyVars, trouble>>

\* Phase 1 fails, or shutdown cancels the loop while it waits.
ModelFails(d) ==
  /\ run[d] # Idle
  /\ Fault
  /\ run' = [run EXCEPT ![d] = Idle]
  /\ UNCHANGED <<historyVars, dreamCursor, gitVars, ghosts, trouble>>

Crash ==
  /\ Fault
  /\ run' = [d \in Dreamers |-> Idle]
  /\ UNCHANGED <<historyVars, dreamCursor, gitVars, ghosts, trouble>>

-----------------------------------------------------------------------------
(* The others who write *)

\* PUT of the management API: a text of the user's in the place of MEMORY.md.
MemoryUpdate ==
  /\ file' = [file EXCEPT !["workspace"] = {}] /\ legible' = TRUE
  /\ UNCHANGED <<historyVars, dreamCursor, run, head, commits, faults, ghosts, trouble>>

\* /dream-log opens the repository under memory/, /dream-restore takes the
\* files of one of its commits to that directory.
DreamLog ==
  /\ commits' = [commits EXCEPT !["memory"] = Opened("memory")]
  /\ UNCHANGED <<historyVars, dreamCursor, run, legible, file, head, faults, ghosts, trouble>>

DreamRestore ==
  /\ \E snapshot \in Opened("memory") : file' = [file EXCEPT !["memory"] = snapshot]
  /\ Commit("memory")
  /\ UNCHANGED <<historyVars, dreamCursor, run, legible, faults, ghosts, trouble>>

-----------------------------------------------------------------------------
Next ==
  \/ AppendSummary \/ AppendStops
  \/ DreamLoop
  \/ \E d \in Dreamers : DreamCommand(d) \/ Complete(d) \/ NotesFail(d) \/ DreamStops(d) \/ ModelFails(d)
  \/ Crash
  \/ MemoryUpdate \/ DreamLog \/ DreamRestore

Spec == Init /\ [][Next]_vars

\* The loop of main wakes up again and again, and a call of the model returns.
FairSpec == Spec /\ WF_vars(DreamLoop) /\ \A d \in Dreamers : WF_vars(Complete(d) \/ NotesFail(d))

-----------------------------------------------------------------------------
TypeOK ==
  /\ history \in Seq(Lines) /\ Len(history) <= appended
  /\ ended \in BOOLEAN /\ (~ ended => history # <<>>)
  /\ appended \in 0 .. MaxEntries
  /\ cursor \in 0 .. appended
  /\ dreamCursor \in 0 .. MaxEntries + MaxBatch * Cardinality(Dreamers)
  /\ run \in [Dreamers -> [batch : SUBSET Ids, size : 0 .. MaxBatch]]
  /\ legible \in BOOLEAN
  /\ file \in [Repos -> SUBSET Ids] /\ head \in [Repos -> SUBSET Ids]
  /\ commits \in [Repos -> SUBSET SUBSET Ids]
  /\ faults \in 0 .. MaxFaults
  /\ noted \subseteq dreamt /\ dreamt \subseteq Ids
  /\ trouble \in BOOLEAN

Passed == Entries(0, dreamCursor)

\* The cursor passes no summary that has not been dreamt, whatever stops on the
\* way, unless two dreams overlapped (each advances the cursor by its own batch,
\* dream.py:148) or a line was spoilt by the next (consolidator.py:70).
NoneSkipped == ~ trouble => Passed \subseteq dreamt

\* The notes about a summary that the cursor has passed are in a commit, though
\* a crash fell between notes, commit and cursor and the user has replaced
\* MEMORY.md since (dream.py: commit first, then the cursor).
NotesAreKept == ~ trouble => Passed \cap noted \subseteq UNION commits["workspace"]

\* Once summaries and faults end, every summary in the history has been dreamt,
\* unless two dreams overlapped or a line was spoilt, and unless a file no longer
\* decodes: a line of history.jsonl torn inside a character fails every later
\* dream (consolidator.py:74 raises what :78 does not catch), and so does a torn
\* MEMORY.md until the user replaces it (dream.py:123) (main.py: dream_loop).
HistoryIsDreamt ==
  <>[](Readable /\ legible /\ ~ trouble => {history[i] : i \in Parsed} \subseteq dreamt)
=============================================================================
