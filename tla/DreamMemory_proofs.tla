-------------------------- MODULE DreamMemory_proofs --------------------------
(***************************************************************************)
(* Proofs about DreamMemory, for every finite set of dreamers and every    *)
(* value of MaxBatch, MaxEntries and MaxFaults.                            *)
(***************************************************************************)
EXTENDS DreamMemory, FiniteSetTheorems, TLAPS

Running == {d \in Dreamers : run[d] # Idle}

\* How far dreams that overlap can take the cursor: every dream that waits
\* stands for a batch that the cursor has still to make.
CursorBound ==
  dreamCursor + MaxBatch * Cardinality(Running) <= MaxEntries + MaxBatch * Cardinality(Dreamers)

\* Every summary is in one line, and those to come are in none.
SummariesAreNumbered ==
  /\ \A i, j \in Parsed : history[i] = history[j] => i = j
  /\ \A i \in Parsed : history[i] <= appended

CursorInHistory == dreamCursor <= NumEntries

\* The dream that waits for the model is alone, and its batch is what the
\* history still has behind the cursor.
OneDream ==
  \A d \in Running :
    /\ dreamCursor + run[d].size <= NumEntries
    /\ run[d].batch = Entries(dreamCursor, dreamCursor + run[d].size)
    /\ \A e \in Running : e = d

----------------------------------------------------------------------------
(* The entries of the history *)

LEMMA EntriesCounted ==
  ASSUME TypeOK
  PROVE  /\ Parsed \subseteq 1..Len(history) /\ IsFiniteSet(Parsed)
         /\ Len(history) \in Nat /\ NumEntries \in 0..MaxEntries
         /\ \A i \in Nat : EntryNo(i) \in 0..NumEntries
  <1>1. Len(history) \in Nat /\ Len(history) <= MaxEntries /\ Parsed \subseteq 1..Len(history)
    BY DreamAssumption DEF TypeOK, Parsed
  <1>2. IsFiniteSet(1..Len(history)) /\ Cardinality(1..Len(history)) = Len(history)
    BY <1>1, FS_Interval
  <1>3. IsFiniteSet(Parsed) /\ NumEntries \in Nat /\ NumEntries <= Len(history)
    BY <1>1, <1>2, FS_Subset, FS_CardinalityType DEF NumEntries
  <1>4. ASSUME NEW i \in Nat PROVE EntryNo(i) \in 0..NumEntries
    <2>1. {j \in Parsed : j <= i} \in SUBSET Parsed
      OBVIOUS
    <2>2. EntryNo(i) \in Nat /\ EntryNo(i) <= NumEntries
      BY <1>3, <2>1, FS_Subset, FS_CardinalityType DEF EntryNo, NumEntries
    <2> QED
      BY <1>3, <2>2
  <1> QED
    BY <1>1, <1>3, <1>4, DreamAssumption

LEMMA EntriesAreSummaries ==
  ASSUME TypeOK, NEW lo, NEW hi
  PROVE  Entries(lo, hi) \subseteq Ids
  BY DEF TypeOK, Entries, Parsed

\* Entries follow one another, and do not repeat.
LEMMA EntriesJoin ==
  ASSUME TypeOK, NEW lo \in Nat, NEW hi \in Nat, lo <= hi
  PROVE  /\ Entries(0, hi) = Entries(0, lo) \cup Entries(lo, hi)
         /\ Entries(0, 0) = {}
         /\ SummariesAreNumbered => Entries(0, lo) \cap Entries(lo, hi) = {}
  <1>1. \A i \in Parsed : EntryNo(i) \in Nat /\ i \in Nat
    BY EntriesCounted
  <1>2. \A i \in Parsed : EntryNo(i) > 0
    <2> SUFFICES ASSUME NEW i \in Parsed PROVE EntryNo(i) # 0
      BY <1>1
    <2>1. {j \in Parsed : j <= i} \in SUBSET Parsed /\ i \in {j \in Parsed : j <= i}
      BY <1>1
    <2>2. IsFiniteSet({j \in Parsed : j <= i})
      BY <2>1, EntriesCounted, FS_Subset
    <2> QED
      BY <2>1, <2>2, FS_EmptySet DEF EntryNo
  <1>3. Entries(0, hi) = Entries(0, lo) \cup Entries(lo, hi)
    BY <1>1, <1>2 DEF Entries
  <1>4. Entries(0, 0) = {}
    BY <1>1 DEF Entries
  <1>5. SummariesAreNumbered => Entries(0, lo) \cap Entries(lo, hi) = {}
    BY <1>1 DEF Entries, SummariesAreNumbered
  <1> QED
    BY <1>3, <1>4, <1>5

\* A line may be added to the history, and none that parses is lost.
Grown ==
  /\ Parsed \subseteq Parsed'
  /\ \A i \in Parsed : history'[i] = history[i]
  /\ \A j \in Parsed' \ Parsed : j = Len(history) + 1

LEMMA EntriesStay ==
  ASSUME TypeOK, Grown
  PROVE  /\ NumEntries <= NumEntries'
         /\ \A lo, hi \in Nat : hi <= NumEntries => Entries(lo, hi)' = Entries(lo, hi)
  <1> DEFINE n == Len(history)
  <1>1. Parsed \subseteq 1..n /\ IsFiniteSet(Parsed) /\ n \in Nat /\ NumEntries \in Nat
    BY EntriesCounted
  <1>2. Parsed' = Parsed \/ Parsed' = Parsed \cup {n + 1}
    BY DEF Grown
  <1>3. IsFiniteSet(Parsed') /\ NumEntries <= NumEntries'
    <2>1. IsFiniteSet(Parsed')
      BY <1>1, <1>2, FS_AddElement
    <2>2. Parsed \in SUBSET Parsed'
      BY DEF Grown
    <2> QED
      BY <2>1, <2>2, FS_Subset DEF NumEntries
  <1> HIDE DEF n
  <1>4. ASSUME NEW i \in Parsed PROVE EntryNo(i)' = EntryNo(i)
    <2>1. i <= n /\ ~ (n + 1 <= i)
      BY <1>1
    <2>2. {j \in Parsed' : j <= i} = {j \in Parsed : j <= i}
      BY <1>2, <2>1
    <2> QED
      BY <2>2 DEF EntryNo
  <1>5. ASSUME NEW j \in Parsed' \ Parsed PROVE EntryNo(j)' = NumEntries + 1
    <2>1. j = n + 1 /\ Parsed' = Parsed \cup {j}
      BY <1>2
    <2>2. \A k \in Parsed \cup {j} : k <= j
      BY <1>1, <2>1
    <2>3. {k \in Parsed' : k <= j} = Parsed \cup {j}
      BY <2>1, <2>2
    <2> QED
      BY <1>1, <2>3, FS_AddElement DEF EntryNo, NumEntries
  <1>6. ASSUME NEW lo \in Nat, NEW hi \in Nat, hi <= NumEntries
        PROVE  Entries(lo, hi)' = Entries(lo, hi)
    <2>1. \A j \in Parsed' \ Parsed : ~ (EntryNo(j)' <= hi)
      BY <1>1, <1>5, <1>6
    <2>2. {j \in Parsed' : lo < EntryNo(j)' /\ EntryNo(j)' <= hi}
            = {j \in Parsed : lo < EntryNo(j) /\ EntryNo(j) <= hi}
      BY <1>4, <2>1 DEF Grown
    <2> QED
      BY <2>2 DEF Entries, Grown
  <1> QED
    BY <1>3, <1>6

\* What is written ends the last line, or is lost in it.
LEMMA WriteGrows ==
  ASSUME TypeOK, NEW line \in Lines, WriteLine(line)
  PROVE  /\ history' \in Seq(Lines) /\ history' # <<>>
         /\ Len(history') <= Len(history) + 1
         /\ ~ Spoils => Grown /\ \A i \in Parsed' \ Parsed : history'[i] = line
  <1> DEFINE n == Len(history)
  <1>1. history \in Seq(Lines) /\ n \in Nat /\ Joined(line) \in Lines \ Ids
    <2>1. Garbage \in Lines \ Ids /\ Broken \in Lines \ Ids
      BY DreamAssumption DEF Lines, Ids, Garbage, Broken
    <2> QED
      BY <2>1 DEF TypeOK, Joined
  <1>2. CASE ended
    <2>1. history' = Append(history, line)
      BY <1>2 DEF WriteLine
    <2>2. /\ history' \in Seq(Lines) /\ Len(history') = n + 1
          /\ \A i \in 1..n : history'[i] = history[i]
          /\ history'[n + 1] = line
      BY <1>1, <2>1
    <2>3. DOMAIN history' = 1..(n + 1) /\ DOMAIN history = 1..n
      BY <1>1, <2>2
    <2>4. Parsed \subseteq Parsed' /\ \A j \in Parsed' \ Parsed : j = n + 1
      BY <1>1, <2>2, <2>3 DEF Parsed
    <2>5. \A i \in Parsed : history'[i] = history[i]
      BY <2>2, <2>3 DEF Parsed
    <2> QED
      BY <2>2, <2>4, <2>5 DEF Grown
  <1>3. CASE ~ ended
    <2>1. history' = [history EXCEPT ![n] = Joined(line)] /\ n \in 1..n
      BY <1>1, <1>3 DEF WriteLine, TypeOK
    <2>2. history' \in Seq(Lines) /\ Len(history') = n
      BY <1>1, <2>1
    <2>3. ~ Spoils => Parsed' = Parsed /\ \A i \in Parsed : history'[i] = history[i]
      BY <1>1, <1>3, <2>1, <2>2 DEF Spoils, Parsed
    <2>4. ~ Spoils => Grown /\ Parsed' = Parsed
      BY <2>3 DEF Grown
    <2> QED
      BY <1>1, <2>1, <2>2, <2>4
  <1> QED
    BY <1>2, <1>3

----------------------------------------------------------------------------
(* The bound of the cursor *)

LEMMA Products ==
  ASSUME NEW m \in Nat, NEW a \in Nat, NEW b \in Nat
  PROVE  /\ m * a \in Nat
         /\ a <= b => m * a <= m * b
         /\ a < b => m * a + m <= m * b
  <1>1. m * a \in Nat /\ m * b \in Nat
    OBVIOUS
  <1>2. a <= b => m * a <= m * b
    OBVIOUS
  <1>3. a < b => m * a + m <= m * b
    OBVIOUS
  <1> QED
    BY <1>1, <1>2, <1>3

LEMMA RunningCounted ==
  /\ IsFiniteSet(Running) /\ Cardinality(Running) \in 0..Cardinality(Dreamers)
  /\ Cardinality(Dreamers) \in Nat
  <1>1. Running \in SUBSET Dreamers /\ IsFiniteSet(Dreamers)
    BY DreamAssumption DEF Running
  <1> QED
    BY <1>1, FS_Subset, FS_CardinalityType

\* The bound of the type follows from the other, and that is kept as long as
\* only dreams end.
LEMMA BoundTyped ==
  ASSUME NEW c \in Nat, NEW S \in SUBSET Dreamers,
         c + MaxBatch * Cardinality(S) <= MaxEntries + MaxBatch * Cardinality(Dreamers)
  PROVE  c \in 0 .. MaxEntries + MaxBatch * Cardinality(Dreamers)
  <1>1. Cardinality(S) \in Nat /\ Cardinality(Dreamers) \in Nat
    BY DreamAssumption, FS_Subset, FS_CardinalityType
  <1>2. MaxBatch * Cardinality(S) \in Nat /\ MaxBatch * Cardinality(Dreamers) \in Nat
    BY <1>1, Products, DreamAssumption
  <1> QED
    BY <1>2, DreamAssumption

LEMMA BoundKept ==
  ASSUME CursorBound, dreamCursor \in Nat, dreamCursor' \in Nat, dreamCursor' <= dreamCursor,
         Running' \subseteq Running
  PROVE  CursorBound'
  <1>1. /\ IsFiniteSet(Running) /\ Cardinality(Running) \in Nat /\ MaxBatch \in Nat
        /\ MaxEntries \in Nat /\ Cardinality(Dreamers) \in Nat
    BY RunningCounted, DreamAssumption
  <1>2. Cardinality(Running') \in Nat /\ Cardinality(Running') <= Cardinality(Running)
    <2>1. Running' \in SUBSET Running
      OBVIOUS
    <2> QED
      BY <1>1, <2>1, FS_Subset, FS_CardinalityType
  <1>3. /\ MaxBatch * Cardinality(Running') <= MaxBatch * Cardinality(Running)
        /\ MaxBatch * Cardinality(Running') \in Nat /\ MaxBatch * Cardinality(Running) \in Nat
        /\ MaxBatch * Cardinality(Dreamers) \in Nat
    BY <1>1, <1>2, Products
  <1> QED
    BY <1>1, <1>3 DEF CursorBound

\* A batch that has been dreamt moves the cursor on its own account.
LEMMA BoundAdvanced ==
  ASSUME CursorBound, dreamCursor \in Nat, NEW d \in Running, NEW n \in 0..MaxBatch,
         dreamCursor' = dreamCursor + n, Running' \subseteq Running \ {d}
  PROVE  CursorBound'
  <1>1. /\ IsFiniteSet(Running) /\ Cardinality(Running) \in Nat /\ MaxBatch \in Nat
        /\ MaxEntries \in Nat /\ Cardinality(Dreamers) \in Nat
    BY RunningCounted, DreamAssumption
  <1>2. Cardinality(Running') \in Nat /\ Cardinality(Running') < Cardinality(Running)
    <2>1. IsFiniteSet(Running \ {d}) /\ Cardinality(Running \ {d}) = Cardinality(Running) - 1
      BY <1>1, FS_RemoveElement
    <2>2. Running' \in SUBSET (Running \ {d})
      OBVIOUS
    <2>3. Cardinality(Running') \in Nat /\ Cardinality(Running') <= Cardinality(Running \ {d})
      BY <2>1, <2>2, FS_Subset, FS_CardinalityType
    <2> QED
      BY <1>1, <2>1, <2>3
  <1>3. /\ MaxBatch * Cardinality(Running') + MaxBatch <= MaxBatch * Cardinality(Running)
        /\ MaxBatch * Cardinality(Running') \in Nat /\ MaxBatch * Cardinality(Running) \in Nat
        /\ MaxBatch * Cardinality(Dreamers) \in Nat
    BY <1>1, <1>2, Products
  <1> QED
    BY <1>1, <1>3 DEF CursorBound

\* A dream that begins finds the cursor inside the history.
LEMMA BoundBegun ==
  ASSUME TypeOK, dreamCursor < NumEntries, dreamCursor' = dreamCursor
  PROVE  CursorBound'
  <1>1. NumEntries \in 0..MaxEntries
    BY EntriesCounted
  <1>2. /\ Cardinality(Running') \in 0..Cardinality(Dreamers)
        /\ Cardinality(Dreamers) \in Nat /\ MaxBatch \in Nat
        /\ MaxEntries \in Nat /\ dreamCursor \in Nat
    <2>1. Running' \in SUBSET Dreamers /\ IsFiniteSet(Dreamers)
      BY DreamAssumption DEF Running
    <2> QED
      BY <2>1, FS_Subset, FS_CardinalityType, DreamAssumption DEF TypeOK
  <1>3. MaxBatch * Cardinality(Running') <= MaxBatch * Cardinality(Dreamers)
    BY <1>2, Products
  <1>4. MaxBatch * Cardinality(Running') \in Nat /\ MaxBatch * Cardinality(Dreamers) \in Nat
    BY <1>2, Products
  <1> QED
    BY <1>1, <1>2, <1>3, <1>4 DEF CursorBound

----------------------------------------------------------------------------
(* Types *)

LEMMA IdleTyped == Idle \in [batch : SUBSET Ids, size : 0..MaxBatch] /\ Idle.size = 0
  BY DreamAssumption DEF Idle

LEMMA NotesTyped ==
  ASSUME TypeOK, NEW d \in Dreamers, NEW worth \in BOOLEAN, Notes(d, worth)
  PROVE  /\ file' \in [Repos -> SUBSET Ids]
         /\ noted' \subseteq dreamt' /\ dreamt' \subseteq Ids
  <1>1. run[d].batch \in SUBSET Ids
    BY DEF TypeOK
  <1> QED
    BY <1>1 DEF Notes, TypeOK

LEMMA CommitTyped ==
  ASSUME TypeOK, NEW r \in Repos, file' \in [Repos -> SUBSET Ids], Commit(r)
  PROVE  /\ head' \in [Repos -> SUBSET Ids]
         /\ commits' \in [Repos -> SUBSET SUBSET Ids]
         /\ commits'[r] = Opened(r) \cup {file'[r]}
  BY DEF Commit, Opened, TypeOK

\* A batch is a batch.
LEMMA BatchSize ==
  ASSUME TypeOK, NEW d \in Dreamers, Begin(d)
  PROVE  \E size \in 1..MaxBatch :
           /\ dreamCursor + size <= NumEntries
           /\ run' = [run EXCEPT ![d] = [batch |-> Entries(dreamCursor, dreamCursor + size), size |-> size]]
  <1> DEFINE size == IF NumEntries - dreamCursor < MaxBatch THEN NumEntries - dreamCursor ELSE MaxBatch
  <1>1. NumEntries \in Nat /\ dreamCursor \in Nat /\ MaxBatch \in Nat \ {0} /\ dreamCursor < NumEntries
    BY EntriesCounted, DreamAssumption DEF TypeOK, Begin
  <1>2. size \in 1..MaxBatch /\ dreamCursor + size <= NumEntries
    BY <1>1
  <1>3. run' = [run EXCEPT ![d] = [batch |-> Entries(dreamCursor, dreamCursor + size), size |-> size]]
    BY DEF Begin
  <1> HIDE DEF size
  <1> QED
    BY <1>2, <1>3

\* The rest of a dream, as far as it comes.
Rest(d) == Complete(d) \/ DreamStops(d)

\* A dream ends without having got that far.
Ends(d) == ModelFails(d) \/ NotesFail(d)

LEMMA RestOfRun ==
  ASSUME TypeOK, NEW d \in Dreamers, Rest(d)
  PROVE  /\ d \in Running /\ run' \in [Dreamers -> [batch : SUBSET Ids, size : 0..MaxBatch]]
         /\ Running' \subseteq Running \ {d}
         /\ \A e \in Running' : run'[e] = run[e]
         /\ \/ dreamCursor' = dreamCursor + run[d].size
            \/ dreamCursor' = dreamCursor
            \/ dreamCursor' = 0
         /\ run[d].size \in 0..MaxBatch /\ dreamCursor \in Nat /\ dreamCursor' \in Nat
  <1>1. run[d].size \in 0..MaxBatch /\ MaxBatch \in Nat /\ dreamCursor \in Nat
    BY DreamAssumption DEF TypeOK
  <1>2. d \in Running
    BY DEF Rest, Complete, DreamStops, Running
  <1>3. run' = [run EXCEPT ![d] = Idle] \/ run' = [e \in Dreamers |-> Idle]
    BY DEF Rest, Complete, DreamStops
  <1>4. /\ run' \in [Dreamers -> [batch : SUBSET Ids, size : 0..MaxBatch]]
        /\ Running' \subseteq Running \ {d}
        /\ \A e \in Running' : run'[e] = run[e]
    BY <1>3, IdleTyped DEF TypeOK, Running
  <1>5. \/ dreamCursor' = dreamCursor + run[d].size
        \/ dreamCursor' = dreamCursor
        \/ dreamCursor' = 0
    BY DEF Rest, Complete, DreamStops, Advance, StopsInNotes, StopsLater
  <1> QED
    BY <1>1, <1>2, <1>4, <1>5

LEMMA StepBounded ==
  ASSUME TypeOK, CursorBound, [Next]_vars
  PROVE  /\ dreamCursor' \in 0 .. MaxEntries + MaxBatch * Cardinality(Dreamers)
         /\ run' \in [Dreamers -> [batch : SUBSET Ids, size : 0..MaxBatch]]
         /\ CursorBound'
  <1>1. dreamCursor \in Nat /\ run \in [Dreamers -> [batch : SUBSET Ids, size : 0..MaxBatch]]
    BY DEF TypeOK
  <1>2. SUFFICES /\ dreamCursor' \in Nat
                 /\ run' \in [Dreamers -> [batch : SUBSET Ids, size : 0..MaxBatch]]
                 /\ CursorBound'
    <2>1. Running' \in SUBSET Dreamers
      BY DEF Running
    <2> QED
      BY <1>2, <2>1, BoundTyped DEF CursorBound
  <1>3. ASSUME NEW d \in Dreamers, Begin(d)
        PROVE  /\ dreamCursor' \in Nat
               /\ run' \in [Dreamers -> [batch : SUBSET Ids, size : 0..MaxBatch]]
               /\ CursorBound'
    <2>1. PICK size \in 1..MaxBatch :
            run' = [run EXCEPT ![d] = [batch |-> Entries(dreamCursor, dreamCursor + size), size |-> size]]
      BY <1>3, BatchSize
    <2>2. [batch |-> Entries(dreamCursor, dreamCursor + size), size |-> size]
             \in [batch : SUBSET Ids, size : 0..MaxBatch]
      BY EntriesAreSummaries
    <2>3. dreamCursor' = dreamCursor /\ dreamCursor < NumEntries
      BY <1>3 DEF Begin
    <2> QED
      BY <1>1, <2>1, <2>2, <2>3, BoundBegun
  <1>4. ASSUME NEW d \in Dreamers, Rest(d)
        PROVE  /\ dreamCursor' \in Nat
               /\ run' \in [Dreamers -> [batch : SUBSET Ids, size : 0..MaxBatch]]
               /\ CursorBound'
    <2>1. /\ d \in Running /\ run' \in [Dreamers -> [batch : SUBSET Ids, size : 0..MaxBatch]]
          /\ Running' \subseteq Running \ {d}
          /\ \/ dreamCursor' = dreamCursor + run[d].size
             \/ dreamCursor' = dreamCursor
             \/ dreamCursor' = 0
          /\ run[d].size \in 0..MaxBatch /\ dreamCursor \in Nat /\ dreamCursor' \in Nat
      BY <1>4, RestOfRun
    <2>2. CASE dreamCursor' = dreamCursor + run[d].size
      BY <2>1, <2>2, BoundAdvanced
    <2>3. CASE dreamCursor' = dreamCursor \/ dreamCursor' = 0
      BY <2>1, <2>3, BoundKept
    <2> QED
      BY <2>1, <2>2, <2>3
  <1>5. CASE \/ AppendSummary \/ AppendStops \/ (\E d \in Dreamers : Ends(d)) \/ Crash
             \/ MemoryUpdate \/ DreamLog \/ DreamRestore \/ UNCHANGED vars
    <2>1. dreamCursor' = dreamCursor
      BY <1>5 DEF AppendSummary, AppendStops, Ends, ModelFails, NotesFail, Crash, MemoryUpdate, DreamLog, DreamRestore, vars
    <2>2. \/ run' = run \/ run' = [e \in Dreamers |-> Idle]
          \/ \E d \in Dreamers : run' = [run EXCEPT ![d] = Idle]
      BY <1>5 DEF AppendSummary, AppendStops, Ends, ModelFails, NotesFail, Crash, MemoryUpdate, DreamLog, DreamRestore, vars
    <2>3. /\ run' \in [Dreamers -> [batch : SUBSET Ids, size : 0..MaxBatch]]
          /\ Running' \subseteq Running
      BY <1>1, <2>2, IdleTyped DEF Running
    <2> QED
      BY <1>1, <2>1, <2>3, BoundKept
  <1> QED
    BY <1>3, <1>4, <1>5, DreamAssumption DEF Next, DreamLoop, DreamCommand, Rest, Ends

LEMMA WriteTyped ==
  ASSUME TypeOK, AppendSummary \/ AppendStops
  PROVE  /\ history' \in Seq(Lines) /\ Len(history') <= appended'
         /\ ended' \in BOOLEAN /\ (~ ended' => history' # <<>>)
         /\ appended' \in 0..MaxEntries /\ cursor' \in 0..appended'
         /\ faults' \in 0..MaxFaults /\ trouble' \in BOOLEAN
  <1>1. appended \in Nat /\ MaxEntries \in Nat /\ MaxFaults \in Nat /\ Len(history) \in Nat
        /\ appended < MaxEntries /\ appended' = appended + 1
    BY DreamAssumption DEF TypeOK, AppendSummary, AppendStops, Summary
  <1>2. appended + 1 \in Ids
    BY <1>1 DEF Ids
  <1>3. PICK line \in Lines : WriteLine(line)
    BY <1>2 DEF AppendSummary, AppendStops, Lines
  <1>4. history' \in Seq(Lines) /\ history' # <<>> /\ Len(history') <= Len(history) + 1
    BY <1>3, WriteGrows
  <1>5. ended' \in BOOLEAN /\ trouble' \in BOOLEAN
    BY DEF AppendSummary, AppendStops, TypeOK
  <1>6. cursor' \in {cursor + 1, cursor, 0} /\ cursor \in 0..appended
    BY DEF AppendSummary, AppendStops, TypeOK
  <1>7. faults' \in 0..MaxFaults
    BY <1>1 DEF AppendSummary, AppendStops, Fault, TypeOK
  <1>8. Len(history') \in Nat /\ Len(history) <= appended
    BY <1>4 DEF TypeOK
  <1> QED
    BY <1>1, <1>4, <1>5, <1>6, <1>7, <1>8

LEMMA RestTyped ==
  ASSUME TypeOK, NEW d \in Dreamers, Rest(d)
  PROVE  /\ file' \in [Repos -> SUBSET Ids] /\ head' \in [Repos -> SUBSET Ids]
         /\ commits' \in [Repos -> SUBSET SUBSET Ids]
         /\ noted' \subseteq dreamt' /\ dreamt' \subseteq Ids /\ legible' \in BOOLEAN
         /\ UNCHANGED historyVars /\ trouble' = trouble /\ faults' \in 0..MaxFaults
  <1>1. UNCHANGED historyVars /\ trouble' = trouble /\ faults' \in 0..MaxFaults
    BY DreamAssumption DEF Rest, Complete, DreamStops, Fault, TypeOK
  <1>2. "workspace" \in Repos /\ legible' \in BOOLEAN
    BY DEF Repos, Rest, Complete, DreamStops, StopsInNotes, StopsLater, TypeOK
  <1>3. CASE \/ \E worth \in BOOLEAN : Notes(d, worth)
    <2>1. /\ file' \in [Repos -> SUBSET Ids]
          /\ noted' \subseteq dreamt' /\ dreamt' \subseteq Ids
      BY <1>3, NotesTyped
    <2>2. Commit("workspace") \/ UNCHANGED <<head, commits>>
      BY DEF Rest, Complete, DreamStops, StopsInNotes, StopsLater
    <2>3. head' \in [Repos -> SUBSET Ids] /\ commits' \in [Repos -> SUBSET SUBSET Ids]
      BY <1>2, <2>1, <2>2, CommitTyped DEF TypeOK
    <2> QED
      BY <1>1, <1>2, <2>1, <2>3
  <1>4. CASE StopsInNotes
    BY <1>1, <1>2, <1>4 DEF StopsInNotes, TypeOK, ghosts
  <1> QED
    BY <1>3, <1>4 DEF Rest, Complete, DreamStops, StopsLater

LEMMA StepTyped ==
  ASSUME TypeOK, CursorBound, [Next]_vars
  PROVE  TypeOK'
  <1>1. /\ dreamCursor' \in 0 .. MaxEntries + MaxBatch * Cardinality(Dreamers)
        /\ run' \in [Dreamers -> [batch : SUBSET Ids, size : 0..MaxBatch]]
    BY StepBounded
  <1>2. CASE AppendSummary \/ AppendStops
    <2>1. UNCHANGED gitVars /\ UNCHANGED ghosts
      BY <1>2 DEF AppendSummary, AppendStops
    <2> QED
      BY <1>1, <1>2, <2>1, WriteTyped DEF TypeOK, gitVars, ghosts
  <1>3. ASSUME NEW d \in Dreamers, Begin(d) PROVE TypeOK'
    <2>1. /\ UNCHANGED <<historyVars, gitVars, faults, ghosts>>
          /\ trouble' \in BOOLEAN
      BY <1>3 DEF Begin, TypeOK
    <2> QED
      BY <1>1, <2>1 DEF TypeOK, historyVars, gitVars, ghosts
  <1>4. ASSUME NEW d \in Dreamers, Rest(d) PROVE TypeOK'
    BY <1>1, <1>4, RestTyped DEF TypeOK, historyVars
  <1>5. CASE (\E d \in Dreamers : Ends(d)) \/ Crash \/ UNCHANGED vars
    <2>1. /\ UNCHANGED <<historyVars, gitVars, ghosts, trouble>>
          /\ faults' \in 0..MaxFaults
      BY <1>5, DreamAssumption DEF Ends, ModelFails, NotesFail, Crash, Fault, TypeOK, vars
    <2> QED
      BY <1>1, <2>1 DEF TypeOK, historyVars, gitVars, ghosts
  <1>6. CASE MemoryUpdate \/ DreamLog \/ DreamRestore
    <2>1. UNCHANGED <<historyVars, faults, ghosts, trouble>> /\ legible' \in BOOLEAN
      BY <1>6 DEF MemoryUpdate, DreamLog, DreamRestore, TypeOK
    <2>2. "memory" \in Repos /\ Opened("memory") \in SUBSET SUBSET Ids
      BY DEF Repos, Opened, TypeOK
    <2>3. file' \in [Repos -> SUBSET Ids]
      BY <1>6, <2>2 DEF MemoryUpdate, DreamLog, DreamRestore, TypeOK
    <2>4. head' \in [Repos -> SUBSET Ids] /\ commits' \in [Repos -> SUBSET SUBSET Ids]
      BY <1>6, <2>2, <2>3, CommitTyped DEF MemoryUpdate, DreamLog, DreamRestore, TypeOK
    <2> QED
      BY <1>1, <2>1, <2>3, <2>4 DEF TypeOK, historyVars, ghosts
  <1> QED
    BY <1>2, <1>3, <1>4, <1>5, <1>6, DreamAssumption DEF Next, DreamLoop, DreamCommand, Rest, Ends

----------------------------------------------------------------------------
(* Nothing is skipped, and the notes are kept *)

Kept == SummariesAreNumbered /\ CursorInHistory /\ OneDream
          /\ Passed \subseteq dreamt /\ Passed \cap noted \subseteq UNION commits["workspace"]

\* A summary comes behind all the others.
LEMMA WriteKeeps ==
  ASSUME TypeOK, TypeOK', Kept, AppendSummary \/ AppendStops, ~ trouble'
  PROVE  Kept'
  <1>1. appended \in Nat /\ appended' = appended + 1 /\ dreamCursor \in Nat /\ dreamCursor' = dreamCursor
        /\ UNCHANGED gitVars /\ UNCHANGED ghosts /\ appended + 1 \in Ids
    BY DreamAssumption DEF TypeOK, AppendSummary, AppendStops, Summary, Ids
  <1>2. PICK line \in {appended + 1, Garbage, Broken} : WriteLine(line)
    BY DEF AppendSummary, AppendStops
  <1>3. ~ Spoils
    BY DEF AppendSummary, AppendStops
  <1>4. Grown /\ \A i \in Parsed' \ Parsed : history'[i] = line
    <2>1. line \in Lines
      BY <1>1, <1>2 DEF Lines
    <2> QED
      BY <1>2, <1>3, <2>1, WriteGrows
  <1>5. NumEntries <= NumEntries' /\ NumEntries \in Nat
        /\ \A lo, hi \in Nat : hi <= NumEntries => Entries(lo, hi)' = Entries(lo, hi)
    BY <1>4, EntriesStay, EntriesCounted
  <1>6. SummariesAreNumbered'
    <2>1. \A i \in Parsed' \ Parsed : history'[i] = appended + 1
      <3>1. Garbage \notin Ids /\ Broken \notin Ids
        BY DreamAssumption DEF Ids, Garbage, Broken
      <3> QED
        BY <1>2, <1>4, <3>1 DEF Parsed
    <2>2. \A i \in Parsed : history[i] \in Nat /\ history[i] <= appended
      BY DEF Kept, SummariesAreNumbered, Parsed, Ids
    <2>3. \A i \in Parsed : i \in Parsed' /\ history'[i] = history[i]
      BY <1>4 DEF Grown
    <2>4. \A i, j \in Parsed' \ Parsed : i = j
      BY <1>4 DEF Grown
    <2>5. \A i \in Parsed' : history'[i] <= appended + 1
      BY <1>1, <2>1, <2>2, <2>3
    <2>6. \A i, j \in Parsed' : history'[i] = history'[j] => i = j
      BY <1>1, <2>1, <2>2, <2>3, <2>4 DEF Kept, SummariesAreNumbered
    <2> QED
      BY <1>1, <2>5, <2>6 DEF SummariesAreNumbered
  <1>7. CursorInHistory'
    <2>1. NumEntries' \in Nat
      <3>1. Parsed' = Parsed \/ Parsed' = Parsed \cup {Len(history) + 1}
        BY <1>4 DEF Grown
      <3>2. IsFiniteSet(Parsed')
        <4>1. IsFiniteSet(Parsed)
          BY EntriesCounted
        <4> QED
          BY <3>1, <4>1, FS_AddElement
      <3> QED
        BY <3>2, FS_CardinalityType DEF NumEntries
    <2> QED
      BY <1>1, <1>5, <2>1 DEF Kept, CursorInHistory
  <1>8. Passed' = Passed
    BY <1>1, <1>5 DEF Passed, Kept, CursorInHistory
  <1>9. OneDream'
    <2>1. Running' \subseteq Running /\ \A d \in Running' : run'[d] = run[d]
      <3>1. run' = run \/ run' = [d \in Dreamers |-> Idle]
        BY DEF AppendSummary, AppendStops
      <3> QED
        BY <3>1 DEF Running
    <2>2. ASSUME NEW d \in Running'
          PROVE  /\ dreamCursor' + run'[d].size <= NumEntries'
                 /\ run'[d].batch = Entries(dreamCursor, dreamCursor + run[d].size)'
                 /\ \A e \in Running' : e = d
      <3>1. d \in Running /\ run'[d] = run[d] /\ run[d].size \in Nat
        BY <2>1, <2>2, DreamAssumption DEF Running, TypeOK
      <3>2. /\ dreamCursor + run[d].size <= NumEntries
            /\ run[d].batch = Entries(dreamCursor, dreamCursor + run[d].size)
            /\ \A e \in Running : e = d
        BY <3>1 DEF Kept, OneDream
      <3>3. dreamCursor + run[d].size \in Nat
        BY <1>1, <3>1
      <3>4. Entries(dreamCursor, dreamCursor + run[d].size)' = Entries(dreamCursor, dreamCursor + run[d].size)
        BY <1>1, <1>5, <3>1, <3>2, <3>3
      <3>5. NumEntries' \in Nat
        <4>1. Parsed' = Parsed \/ Parsed' = Parsed \cup {Len(history) + 1}
          BY <1>4 DEF Grown
        <4>2. IsFiniteSet(Parsed')
          BY <4>1, EntriesCounted, FS_AddElement
        <4> QED
          BY <4>2, FS_CardinalityType DEF NumEntries
      <3> QED
        BY <1>1, <1>5, <2>1, <3>1, <3>2, <3>3, <3>4, <3>5
    <2> QED
      BY <1>1, <2>2 DEF OneDream
  <1> QED
    BY <1>1, <1>6, <1>7, <1>8, <1>9 DEF Kept, gitVars, ghosts

LEMMA SameEntries ==
  ASSUME history' = history
  PROVE  /\ Parsed' = Parsed /\ NumEntries' = NumEntries
         /\ \A lo, hi \in Nat : Entries(lo, hi)' = Entries(lo, hi)
  <1>1. Parsed' = Parsed
    BY DEF Parsed
  <1>2. \A i : EntryNo(i)' = EntryNo(i)
    BY <1>1 DEF EntryNo
  <1> QED
    BY <1>1, <1>2 DEF NumEntries, Entries

LEMMA BeginKeeps ==
  ASSUME TypeOK, Kept, NEW d \in Dreamers, Begin(d), ~ trouble'
  PROVE  Kept'
  <1>1. PICK size \in 1..MaxBatch :
          /\ dreamCursor + size <= NumEntries
          /\ run' = [run EXCEPT ![d] = [batch |-> Entries(dreamCursor, dreamCursor + size), size |-> size]]
    BY BatchSize
  <1>2. /\ UNCHANGED <<history, appended, dreamCursor, commits, dreamt, noted>>
        /\ dreamCursor \in Nat /\ dreamCursor + size \in Nat
        /\ \A e \in Dreamers : run[e] = Idle
    <2>1. dreamCursor \in Nat /\ size \in Nat
      BY DreamAssumption DEF TypeOK
    <2>2. \A e \in Dreamers : run[e] = Idle
      BY Zenon DEF Begin
    <2>3. UNCHANGED <<history, appended, dreamCursor, commits, dreamt, noted>>
      BY DEF Begin, historyVars, gitVars, ghosts
    <2> QED
      BY <2>1, <2>2, <2>3
  <1>3. /\ Parsed' = Parsed /\ NumEntries' = NumEntries
        /\ \A lo, hi \in Nat : Entries(lo, hi)' = Entries(lo, hi)
    BY <1>2, SameEntries
  <1>4. Passed' = Passed
    BY <1>2, <1>3 DEF Passed
  <1>5. SummariesAreNumbered' /\ CursorInHistory'
    BY <1>2, <1>3 DEF Kept, SummariesAreNumbered, CursorInHistory
  <1>6. /\ Running' \subseteq {d}
        /\ run'[d].size = size
        /\ run'[d].batch = Entries(dreamCursor, dreamCursor + size)
    BY <1>1, <1>2 DEF Running, TypeOK
  <1>7. OneDream'
    <2> SUFFICES ASSUME NEW e \in Running'
                 PROVE  /\ dreamCursor' + run'[e].size <= NumEntries'
                        /\ run'[e].batch = Entries(dreamCursor, dreamCursor + run[e].size)'
                        /\ \A f \in Running' : f = e
      BY DEF OneDream
    <2>1. e = d /\ \A f \in Running' : f = e
      BY <1>6
    <2>2. Entries(dreamCursor, dreamCursor + run[e].size)' = Entries(dreamCursor, dreamCursor + size)
      BY <1>2, <1>3, <1>6, <2>1
    <2> QED
      BY <1>1, <1>2, <1>3, <1>6, <2>1, <2>2
  <1> QED
    BY <1>2, <1>4, <1>5, <1>7 DEF Kept

\* What the workspace has in its commits stays there.
LEMMA CommitKeeps ==
  ASSUME TypeOK, file' \in [Repos -> SUBSET Ids], Commit("workspace")
  PROVE  (UNION commits["workspace"]) \cup file'["workspace"] \subseteq UNION commits'["workspace"]
  <1>1. commits'["workspace"] = Opened("workspace") \cup {file'["workspace"]}
    BY CommitTyped DEF Repos
  <1>2. commits["workspace"] \subseteq Opened("workspace")
    BY DEF Opened
  <1> QED
    BY <1>1, <1>2

LEMMA RestKeeps ==
  ASSUME TypeOK, Kept, NEW d \in Dreamers, Rest(d), ~ trouble'
  PROVE  Kept'
  <1> DEFINE c == dreamCursor
             n == run[d].size
             batch == run[d].batch
  <1>1. /\ d \in Running /\ Running' = {}
        /\ c' = c + n \/ c' = c \/ c' = 0
        /\ n \in Nat /\ c \in Nat /\ c' \in Nat /\ c + n \in Nat
    BY RestOfRun, DreamAssumption DEF Kept, OneDream
  <1>2. /\ UNCHANGED <<history, appended>>
        /\ file' \in [Repos -> SUBSET Ids]
    BY RestTyped DEF historyVars
  <1>3. /\ c + n <= NumEntries /\ NumEntries \in Nat
        /\ batch = Entries(c, c + n)
    BY <1>1, EntriesCounted DEF Kept, OneDream
  <1>4. /\ Parsed' = Parsed /\ NumEntries' = NumEntries
        /\ \A lo, hi \in Nat : Entries(lo, hi)' = Entries(lo, hi)
    BY <1>2, SameEntries
  <1>5. /\ Passed = Entries(0, c)
        /\ c' = c + n => Passed' = Passed \cup batch
        /\ c' = c => Passed' = Passed
        /\ c' = 0 => Passed' = {}
        /\ Passed \cap batch = {}
    <2>1. Passed = Entries(0, c)
      BY DEF Passed
    <2>2. ASSUME NEW m \in Nat, c' = m PROVE Passed' = Entries(0, m)
      BY <1>4, <2>2 DEF Passed
    <2>3. /\ Entries(0, c + n) = Entries(0, c) \cup Entries(c, c + n)
          /\ Entries(0, 0) = {}
          /\ Entries(0, c) \cap Entries(c, c + n) = {}
      BY <1>1, EntriesJoin DEF Kept
    <2> QED
      BY <1>1, <1>3, <2>1, <2>2, <2>3
  <1>6. SummariesAreNumbered' /\ CursorInHistory' /\ OneDream'
    <2>1. CursorInHistory'
      BY <1>1, <1>3, <1>4 DEF Kept, CursorInHistory
    <2> QED
      BY <1>1, <1>2, <1>4, <2>1 DEF Kept, SummariesAreNumbered, OneDream
  <1> HIDE DEF c, n, batch
  <1>7. ASSUME NEW worth \in BOOLEAN, Notes(d, worth),
               \/ Commit("workspace")
               \/ commits' = commits /\ c' = c
        PROVE  Kept'
    <2>1. /\ dreamt' = dreamt \cup batch
          /\ worth => noted' = noted \cup batch /\ batch \subseteq file'["workspace"]
          /\ ~ worth => noted' = noted \ batch
      BY <1>7 DEF Notes, batch, TypeOK, Repos
    <2>2. Passed' \subseteq Passed \cup batch
      BY <1>1, <1>5
    <2>3. Passed' \subseteq dreamt'
      BY <2>1, <2>2 DEF Kept
    <2>4. Passed' \cap noted' \subseteq UNION commits'["workspace"]
      <3>1. CASE Commit("workspace")
        <4>1. (UNION commits["workspace"]) \cup file'["workspace"] \subseteq UNION commits'["workspace"]
          BY <1>2, <3>1, CommitKeeps
        <4>2. CASE worth
          BY <2>1, <2>2, <4>1, <4>2 DEF Kept
        <4>3. CASE ~ worth
          BY <2>1, <2>2, <4>1, <4>3 DEF Kept
        <4> QED
          BY <4>2, <4>3
      <3>2. CASE commits' = commits /\ c' = c
        <4>1. Passed' = Passed
          BY <1>5, <3>2
        <4>2. noted' \subseteq noted \cup batch
          BY <2>1
        <4> QED
          BY <1>5, <3>2, <4>1, <4>2 DEF Kept
      <3> QED
        BY <1>7, <3>1, <3>2
    <2> QED
      BY <1>6, <2>3, <2>4 DEF Kept
  <1>8. \/ StopsInNotes /\ c' = c
        \/ \E worth \in BOOLEAN : Notes(d, worth) /\ (Commit("workspace") \/ (commits' = commits /\ c' = c))
    BY DEF Rest, Complete, DreamStops, StopsInNotes, StopsLater, c
  <1>9. CASE StopsInNotes /\ c' = c
    <2>1. dreamt' = dreamt /\ noted' = noted /\ commits' = commits
      BY <1>9 DEF StopsInNotes, ghosts
    <2> QED
      BY <1>5, <1>6, <1>9, <2>1 DEF Kept
  <1> QED
    BY <1>7, <1>8, <1>9

\* The steps of the others neither read nor write what a dream relies on.
LEMMA OthersKeep ==
  ASSUME TypeOK, Kept,
         \/ (\E d \in Dreamers : Ends(d)) \/ Crash
         \/ MemoryUpdate \/ DreamLog \/ DreamRestore \/ UNCHANGED vars
  PROVE  Kept'
  <1>1. UNCHANGED <<history, appended, dreamCursor, dreamt, noted>> /\ dreamCursor \in Nat
    BY DEF Ends, ModelFails, NotesFail, Crash, MemoryUpdate, DreamLog, DreamRestore, vars, historyVars, ghosts, TypeOK
  <1>2. commits'["workspace"] = commits["workspace"]
    BY DEF Ends, ModelFails, NotesFail, Crash, MemoryUpdate, DreamLog, DreamRestore, Commit, vars, gitVars, TypeOK, Repos
  <1>3. Running' \subseteq Running /\ \A d \in Running' : run'[d] = run[d]
    <2>1. \/ run' = run \/ run' = [e \in Dreamers |-> Idle]
          \/ \E d \in Dreamers : run' = [run EXCEPT ![d] = Idle]
      BY DEF Ends, ModelFails, NotesFail, Crash, MemoryUpdate, DreamLog, DreamRestore, vars
    <2> QED
      BY <2>1 DEF Running, TypeOK
  <1>4. /\ Parsed' = Parsed /\ NumEntries' = NumEntries
        /\ \A lo, hi \in Nat : Entries(lo, hi)' = Entries(lo, hi)
    BY <1>1, SameEntries
  <1>5. Passed' = Passed
    BY <1>1, <1>4 DEF Passed
  <1>6. SummariesAreNumbered' /\ CursorInHistory'
    BY <1>1, <1>4 DEF Kept, SummariesAreNumbered, CursorInHistory
  <1>7. OneDream'
    <2> SUFFICES ASSUME NEW d \in Running'
                 PROVE  /\ dreamCursor' + run'[d].size <= NumEntries'
                        /\ run'[d].batch = Entries(dreamCursor, dreamCursor + run[d].size)'
                        /\ \A e \in Running' : e = d
      BY DEF OneDream
    <2>1. d \in Running /\ run'[d] = run[d] /\ dreamCursor + run[d].size \in Nat
      BY <1>1, <1>3, DreamAssumption DEF TypeOK, Running
    <2>2. Entries(dreamCursor, dreamCursor + run[d].size)' = Entries(dreamCursor, dreamCursor + run[d].size)
      BY <1>1, <1>4, <2>1
    <2> QED
      BY <1>1, <1>3, <1>4, <2>1, <2>2 DEF Kept, OneDream
  <1> QED
    BY <1>1, <1>2, <1>5, <1>6, <1>7 DEF Kept

----------------------------------------------------------------------------
(* The theorems *)

\* Types, the overshoot of the cursor, and what holds as long as neither two
\* dreams overlap nor a line is spoilt.
THEOREM DreamInvariant == Spec => [](TypeOK /\ CursorBound /\ (~ trouble => Kept))
  <1>1. Init => TypeOK /\ CursorBound /\ Kept
    <2> SUFFICES ASSUME Init PROVE TypeOK /\ CursorBound /\ Kept
      OBVIOUS
    <2>1. TypeOK
      <3>1. 0 \in 0 .. MaxEntries + MaxBatch * Cardinality(Dreamers)
        <4>1. MaxBatch * Cardinality(Dreamers) \in Nat
          BY RunningCounted, Products, DreamAssumption
        <4> QED
          BY <4>1, DreamAssumption
      <3>2. /\ history \in Seq(Lines) /\ Len(history) <= appended
            /\ ended /\ appended \in 0..MaxEntries /\ cursor \in 0..appended
            /\ faults \in 0..MaxFaults /\ dreamt = {} /\ noted = {} /\ trouble \in BOOLEAN
        <4>1. history = <<>> /\ ended = TRUE /\ trouble = FALSE
          BY DEF Init
        <4>2. history \in Seq(Lines) /\ Len(history) = 0
          BY <4>1
        <4>3. /\ appended = 0 /\ cursor = 0 /\ faults = 0 /\ dreamt = {} /\ noted = {}
          BY DEF Init
        <4>4. /\ Len(history) <= appended /\ appended \in 0..MaxEntries
              /\ cursor \in 0..appended /\ faults \in 0..MaxFaults
          BY <4>2, <4>3, DreamAssumption
        <4>5. ended /\ trouble \in BOOLEAN
          BY <4>1, Zenon
        <4> QED
          BY <4>2, <4>3, <4>4, <4>5
      <3>3. /\ run \in [Dreamers -> [batch : SUBSET Ids, size : 0..MaxBatch]]
            /\ file \in [Repos -> SUBSET Ids] /\ head \in [Repos -> SUBSET Ids]
            /\ commits \in [Repos -> SUBSET SUBSET Ids]
        BY IdleTyped DEF Init
      <3>4. dreamCursor = 0 /\ ended \in BOOLEAN /\ legible \in BOOLEAN
        BY DEF Init
      <3> QED
        BY <3>1, <3>2, <3>3, <3>4 DEF TypeOK
    <2>2. Running = {} /\ Parsed = {} /\ dreamCursor = 0
      BY DEF Init, Running, Parsed
    <2>3. CursorBound
      <3>1. /\ Cardinality({}) = 0 /\ Cardinality(Dreamers) \in Nat
            /\ MaxBatch * 0 \in Nat /\ 0 <= Cardinality(Dreamers)
            /\ MaxEntries \in Nat /\ MaxBatch \in Nat
        BY RunningCounted, Products, DreamAssumption, FS_EmptySet
      <3>2. MaxBatch * 0 <= MaxBatch * Cardinality(Dreamers)
        BY <3>1, Products
      <3>3. MaxBatch * Cardinality(Dreamers) \in Nat
        BY <3>1, Products
      <3> QED
        BY <2>2, <3>1, <3>2, <3>3 DEF CursorBound
    <2>4. Passed = {} /\ NumEntries = 0
      BY <2>2, FS_EmptySet DEF Passed, Entries, NumEntries
    <2> QED
      BY <2>1, <2>2, <2>3, <2>4 DEF Kept, SummariesAreNumbered, CursorInHistory, OneDream
  <1>2. TypeOK /\ CursorBound /\ (~ trouble => Kept) /\ [Next]_vars
          => (TypeOK /\ CursorBound /\ (~ trouble => Kept))'
    <2> SUFFICES ASSUME TypeOK, CursorBound, ~ trouble => Kept, [Next]_vars
                 PROVE  TypeOK' /\ CursorBound' /\ (~ trouble' => Kept')
      OBVIOUS
    <2>1. TypeOK' /\ CursorBound'
      BY StepTyped, StepBounded
    <2>2. ~ trouble' => ~ trouble
      BY DEF Next, AppendSummary, AppendStops, DreamLoop, DreamCommand, Begin, Complete, DreamStops,
             NotesFail, ModelFails, Crash, MemoryUpdate, DreamLog, DreamRestore, vars
    <2>3. ASSUME ~ trouble' PROVE Kept'
      BY <2>1, <2>2, <2>3, WriteKeeps, BeginKeeps, RestKeeps, OthersKeep, DreamAssumption
         DEF Next, DreamLoop, DreamCommand, Rest, Ends
    <2> QED
      BY <2>1, <2>3
  <1> QED
    BY <1>1, <1>2, PTL DEF Spec

\* Every reachable state of the memory is well typed; in particular the dream
\* cursor stays below the bound on the summaries and one full batch for each
\* dreamer, however many dreams overlap (dream.py: run).
THEOREM TypeCorrect == Spec => []TypeOK
  BY DreamInvariant, PTL

\* The cursor passes no summary that has not been dreamt, for any number of
\* dreamers, summaries and faults.
THEOREM NoneAreSkipped == Spec => []NoneSkipped
  <1>1. TypeOK /\ CursorBound /\ (~ trouble => Kept) => NoneSkipped
    BY DEF Kept, NoneSkipped
  <1> QED
    BY <1>1, DreamInvariant, PTL

\* The notes about what the cursor has passed are in a commit.
THEOREM NotesStayInCommits == Spec => []NotesAreKept
  <1>1. TypeOK /\ CursorBound /\ (~ trouble => Kept) => NotesAreKept
    BY DEF Kept, NotesAreKept
  <1> QED
    BY <1>1, DreamInvariant, PTL
=============================================================================
