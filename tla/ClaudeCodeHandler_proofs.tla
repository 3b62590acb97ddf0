---------------------- MODULE ClaudeCodeHandler_proofs ----------------------
(***************************************************************************)
(* Proofs about ClaudeCodeHandler over ClaudeCodeBridge, for any users,     *)
(* projects, gateways and session files.                                    *)
(***************************************************************************)
EXTENDS ClaudeCodeHandler, SequenceTheorems, WellFoundedInduction, TLAPS

----------------------------------------------------------------------------
(* Facts about the operators *)

BridgeSound == BridgeTypeOK /\ SessionsNumbered

\* A nonempty set of natural numbers has a least element.
LEMMA Least ==
  ASSUME NEW S \in SUBSET Nat, S # {}
  PROVE  \E x \in S : \A y \in S : x <= y
  <1> DEFINE R == OpToRel(<, Nat)
  <1>1. \A x, y \in Nat : x < y => <<x, y>> \in R
    BY DEF OpToRel
  <1>2. IsWellFoundedOn(R, Nat)
    BY NatLessThanWellFounded
  <1> HIDE DEF R
  <1>3. S \subseteq Nat /\ S # {}
    OBVIOUS
  <1>4. \E x \in S : \A y \in S : <<y, x>> \notin R
    BY <1>2, <1>3, WFMin
  <1>5. PICK x \in S : \A y \in S : <<y, x>> \notin R
    BY <1>4
  <1>6. ASSUME NEW y \in S PROVE x <= y
    <2>1. x \in Nat /\ y \in Nat /\ ~ (y < x)
      BY <1>1, <1>3, <1>5
    <2> QED
      BY <2>1
  <1> QED
    BY <1>6

LEMMA FilesFacts ==
  ASSUME BridgeSound
  PROVE  /\ files \in Seq(File) /\ Range(files) \subseteq File
         /\ ProjectsOnDisk \subseteq Projects
         /\ \A p : SessionsOf(p) \subseteq Sessions
  <1>1. files \in Seq(File)
    BY DEF BridgeSound, BridgeTypeOK, SessionsNumbered
  <1>2. Range(files) \subseteq File
    BY <1>1 DEF Range
  <1> QED
    BY <1>1, <1>2 DEF File, ProjectsOnDisk, SessionsOf

\* What _detect_new_session finds is a session of the project.
LEMMA DetectedFacts ==
  ASSUME BridgeSound, NEW p, NEW known
  PROVE  Detected(p, known) \in {NoSession} \cup SessionsOf(p)
  <1> DEFINE new == {i \in DOMAIN files : files[i].project = p /\ files[i].id \notin known}
             first == CHOOSE i \in new : \A j \in new : i <= j
  <1>1. files \in Seq(File)
    BY FilesFacts
  <1>2. CASE new = {}
    BY <1>2 DEF Detected
  <1>3. CASE new # {}
    <2>1. new \in SUBSET Nat
      BY <1>1
    <2>2. \E i \in new : \A j \in new : i <= j
      BY <1>3, <2>1, Least
    <2>3. first \in new
      BY <2>2
    <2>4. files[first] \in Range(files) /\ files[first].project = p
      BY <2>3 DEF Range
    <2>5. files[first].id \in SessionsOf(p)
      BY <2>4 DEF SessionsOf
    <2>6. Detected(p, known) = files[first].id
      BY <1>3 DEF Detected
    <2> QED
      BY <2>5, <2>6
  <1> QED
    BY <1>2, <1>3

\* An element moved to the front of a sequence.
LEMMA MovedToFront ==
  ASSUME NEW S, NEW s \in Seq(S), NEW i \in DOMAIN s
  PROVE  LET t == <<s[i]>> \o RemoveAt(s, i)
         IN t \in Seq(S) /\ Len(t) = Len(s) /\ Range(t) = Range(s)
  <1> DEFINE before == SubSeq(s, 1, i - 1)
             after == SubSeq(s, i + 1, Len(s))
             r == RemoveAt(s, i)
             t == <<s[i]>> \o r
  <1>1. i \in 1 .. Len(s) /\ s[i] \in S /\ Len(s) \in Nat
    OBVIOUS
  <1>2. /\ before \in Seq(S) /\ Len(before) = i - 1
        /\ \A j \in 1 .. i - 1 : before[j] = s[j]
    <2>1. 1 \in Int /\ i - 1 \in Int /\ \A j \in 1 .. i - 1 : s[j] \in S
      BY <1>1
    <2>2. /\ before \in Seq(S)
          /\ Len(before) = IF 1 <= i - 1 THEN (i - 1) - 1 + 1 ELSE 0
          /\ \A j \in 1 .. (i - 1) - 1 + 1 : before[j] = s[1 + j - 1]
      BY <2>1, SubSeqProperties
    <2> HIDE DEF before
    <2> QED
      BY <1>1, <2>2
  <1>3. /\ after \in Seq(S) /\ Len(after) = Len(s) - i
        /\ \A j \in 1 .. Len(s) - i : after[j] = s[i + j]
    <2>1. i + 1 \in Int /\ Len(s) \in Int /\ \A j \in i + 1 .. Len(s) : s[j] \in S
      BY <1>1
    <2>2. /\ after \in Seq(S)
          /\ Len(after) = IF i + 1 <= Len(s) THEN Len(s) - (i + 1) + 1 ELSE 0
          /\ \A j \in 1 .. Len(s) - (i + 1) + 1 : after[j] = s[(i + 1) + j - 1]
      BY <2>1, SubSeqProperties
    <2> HIDE DEF after
    <2> QED
      BY <1>1, <2>2
  <1>4. r = before \o after
    BY DEF RemoveAt
  <1> HIDE DEF before, after, r
  <1>5. /\ r \in Seq(S) /\ Len(r) = Len(s) - 1
         /\ \A j \in 1 .. Len(r) : r[j] = IF j < i THEN s[j] ELSE s[j + 1]
    <2>1. /\ r \in Seq(S) /\ Len(r) = Len(before) + Len(after)
          /\ \A j \in 1 .. Len(before) + Len(after) :
               r[j] = IF j <= Len(before) THEN before[j] ELSE after[j - Len(before)]
      BY <1>2, <1>3, <1>4, ConcatProperties
    <2>2. Len(r) = Len(s) - 1
      BY <1>1, <1>2, <1>3, <2>1
    <2>3. ASSUME NEW j \in 1 .. Len(r) PROVE r[j] = IF j < i THEN s[j] ELSE s[j + 1]
      <3>1. CASE j < i
        BY <1>1, <1>2, <1>3, <2>1, <2>2, <3>1
      <3>2. CASE ~ j < i
        <4>1. j - (i - 1) \in 1 .. Len(s) - i /\ i + (j - (i - 1)) = j + 1
          BY <1>1, <2>2, <3>2
        <4>2. r[j] = after[j - (i - 1)]
          BY <1>1, <1>2, <1>3, <2>1, <2>2, <3>2
        <4> QED
          BY <1>3, <3>2, <4>1, <4>2
      <3> QED
        BY <3>1, <3>2
    <2> QED
      BY <2>1, <2>2, <2>3
  <1>6. /\ t \in Seq(S) /\ Len(t) = Len(s) /\ t[1] = s[i]
        /\ \A j \in 2 .. Len(t) : t[j] = r[j - 1]
    <2>1. <<s[i]>> \in Seq(S) /\ Len(<<s[i]>>) = 1 /\ <<s[i]>>[1] = s[i]
      BY <1>1
    <2>2. /\ t \in Seq(S) /\ Len(t) = 1 + Len(r)
          /\ \A j \in 1 .. 1 + Len(r) : t[j] = IF j <= 1 THEN <<s[i]>>[j] ELSE r[j - 1]
      BY <1>5, <2>1, ConcatProperties
    <2> HIDE DEF t
    <2> QED
      BY <1>1, <1>5, <2>1, <2>2
  <1> HIDE DEF t
  <1>7. ASSUME NEW j \in 2 .. Len(t)
        PROVE  t[j] = IF j - 1 < i THEN s[j - 1] ELSE s[j]
    <2>1. j - 1 \in 1 .. Len(r) /\ (j - 1) + 1 = j /\ t[j] = r[j - 1]
      BY <1>1, <1>6, <1>5
    <2> QED
      BY <1>5, <2>1
  <1>8. ASSUME NEW x \in Range(t) PROVE x \in Range(s)
    <2>1. PICK j \in 1 .. Len(s) : x = t[j]
      BY <1>6 DEF Range
    <2>2. CASE j = 1
      BY <1>1, <1>6, <2>1, <2>2 DEF Range
    <2>3. CASE j # 1
      <3>1. j \in 2 .. Len(t) /\ j - 1 \in 1 .. Len(s)
        BY <1>1, <1>6, <2>1, <2>3
      <3> QED
        BY <1>7, <2>1, <3>1 DEF Range
    <2> QED
      BY <2>2, <2>3
  <1>9. ASSUME NEW x \in Range(s) PROVE x \in Range(t)
    <2>1. PICK j \in 1 .. Len(s) : x = s[j]
      BY DEF Range
    <2>2. CASE j = i
      BY <1>1, <1>6, <2>1, <2>2 DEF Range
    <2>3. CASE j < i
      <3>1. j + 1 \in 2 .. Len(t) /\ t[j + 1] = s[j]
        BY <1>1, <1>6, <1>7, <2>3
      <3> QED
        BY <1>6, <2>1, <3>1 DEF Range
    <2>4. CASE j > i
      <3>1. j \in 2 .. Len(t) /\ t[j] = s[j]
        BY <1>1, <1>6, <1>7, <2>4
      <3> QED
        BY <1>6, <2>1, <3>1 DEF Range
    <2> QED
      BY <1>1, <2>2, <2>3, <2>4
  <1> QED
    BY <1>6, <1>8, <1>9 DEF t, r

\* What a claude process writes: a new session, or an old one moves to the front.
LEMMA WriteFacts ==
  ASSUME BridgeSound, NEW proc \in Process, Write(proc)
  PROVE  /\ files' \in Seq(File) /\ {f.id : f \in Range(files')} = 1 .. Len(files')
         /\ Range(files) \subseteq Range(files')
  <1> DEFINE f == [id |-> Writes(proc), project |-> Cwd(proc)]
  <1>0. Cwd(proc) \in Projects
    BY BridgeAssumption DEF Cwd
  <1>1. f.id \in Sessions /\ f \in File
    BY <1>0 DEF Write, File
  <1>2. files \in Seq(File) /\ {g.id : g \in Range(files)} = 1 .. Len(files)
    BY DEF BridgeSound, BridgeTypeOK, SessionsNumbered
  <1>3. CASE f \in Range(files)
    <2> DEFINE i == CHOOSE i \in DOMAIN files : files[i] = f
    <2>1. i \in DOMAIN files /\ files[i] = f
      BY <1>3 DEF Range
    <2>2. files' = <<files[i]>> \o RemoveAt(files, i)
      BY <1>3, <2>1 DEF Write
    <2> HIDE DEF i
    <2>3. files' \in Seq(File) /\ Len(files') = Len(files) /\ Range(files') = Range(files)
      BY <1>2, <2>1, <2>2, MovedToFront
    <2> QED
      BY <1>2, <2>3
  <1>4. CASE f \notin Range(files)
    <2>1. f.id = Len(files) + 1
      <3>1. SUFFICES ASSUME f.id # Len(files) + 1 PROVE FALSE
        OBVIOUS
      <3>2. f.id # NoSession
        BY <1>1 DEF Sessions, NoSession
      <3>3. f.id = proc.resume /\ f.id \in SessionsOf(Cwd(proc))
        BY <3>1, <3>2 DEF Writes
      <3>4. PICK g \in Range(files) : g.project = Cwd(proc) /\ g.id = f.id
        BY <3>3 DEF SessionsOf
      <3>5. g \in File
        BY <3>4, FilesFacts
      <3>6. g = f
        BY <1>1, <3>4, <3>5 DEF File
      <3> QED
        BY <1>4, <3>4, <3>6
    <2>2. files' = <<f>> \o files
      BY <1>4 DEF Write
    <2> HIDE DEF f
    <2>3. files' \in Seq(File) /\ Len(files') = Len(files) + 1 /\ files'[1] = f
      BY <1>1, <1>2, <2>2
    <2>4. \A j \in 1 .. Len(files) : files'[j + 1] = files[j]
      BY <1>1, <1>2, <2>2
    <2>5. Range(files') = {f} \cup Range(files)
      <3>1. f \in Range(files')
        BY <1>2, <2>3 DEF Range
      <3>2. ASSUME NEW j \in 1 .. Len(files) PROVE files[j] \in Range(files')
        <4>1. j + 1 \in 1 .. Len(files')
          BY <1>2, <2>3
        <4> QED
          BY <2>3, <2>4, <4>1 DEF Range
      <3>3. ASSUME NEW j \in 1 .. Len(files'), j # 1 PROVE files'[j] \in Range(files)
        <4>1. j - 1 \in 1 .. Len(files) /\ (j - 1) + 1 = j
          BY <1>2, <2>3, <3>3
        <4>2. files'[j] = files[j - 1]
          BY <2>4, <4>1
        <4> QED
          BY <1>2, <4>1, <4>2 DEF Range
      <3> QED
        BY <1>2, <2>3, <3>1, <3>2, <3>3 DEF Range
    <2>6. {g.id : g \in Range(files')} = {f.id} \cup 1 .. Len(files)
      BY <1>2, <2>5
    <2>7. {f.id} \cup 1 .. Len(files) = 1 .. Len(files')
      BY <1>2, <2>1, <2>3
    <2> QED
      BY <2>3, <2>5, <2>6, <2>7
  <1> QED
    BY <1>3, <1>4

----------------------------------------------------------------------------
(* The inductive invariant: the properties and the types of the bridge *)

\* What a state is like that a user in the mode can have, and that a restart
\* can give back.
Restorable(st) ==
  /\ st \in UserSession /\ st.mode = "claude_code"
  /\ st.session # NoSession /\ ~ st.mixed => st.session \in SessionsOf(st.project)

\* The file may be older than memory after a save that failed, but what it has
\* of a user is a state of the mode that was right when it was saved.
DiskSound == \A u \in Users : disk[u] # Absent => Restorable(disk[u])

SavesSound ==
  /\ store \in [Users -> {Absent} \cup UserSession] /\ disk \in [Users -> {Absent} \cup UserSession]
  /\ unsaved \in BOOLEAN /\ failures \in 0 .. MaxFailures
  /\ DiskSound /\ (unsaved \/ disk = store)

BridgeInv == BridgeSound /\ StoreAgrees /\ SessionOfProject /\ DiskSound
LockTypeOK ==
  /\ queue \in [Users -> Seq({"message", "memory", "compact"})]
  /\ accepted \in [Users -> BOOLEAN]
  /\ requests \in 0 .. MaxRequests
\* Who runs claude is at the head of the queue for the lock.
HoldsLock == \A u \in Users : flight[u] # Idle => queue[u] # <<>>
HInv == BridgeInv /\ LockTypeOK /\ HoldsLock

LEMMA Strings ==
  /\ NewState \in UserSession /\ Absent \notin UserSession
  /\ NoEntries \in [Users -> {Absent} \cup UserSession]
  /\ NoSession \notin Sessions /\ Idle \notin Flight
  BY DEF NewState, UserSession, Absent, NoEntries, Paths, NoSession, Sessions, Idle, Flight

LEMMA BridgeParts ==
  BridgeInv <=> /\ files \in Seq(File) /\ SessionsNumbered
                /\ state \in [Users -> UserSession]
                /\ flight \in [Users -> {Idle} \cup Flight] /\ strays \subseteq Process
                /\ SavesSound /\ StoreAgrees /\ SessionOfProject
  BY DEF BridgeInv, BridgeSound, BridgeTypeOK, SavesSound, StoreAgrees

\* No session is ever removed, so that a state stays one that can be restored.
LEMMA RestorableStays ==
  ASSUME Range(files) \subseteq Range(files'), NEW st, Restorable(st)
  PROVE  Restorable(st)'
  <1>1. \A p : SessionsOf(p) \subseteq SessionsOf(p)'
    BY DEF SessionsOf
  <1> QED
    BY <1>1 DEF Restorable

\* What memory is going to save of a user is the user's state.
LEMMA StoreRestorable ==
  ASSUME BridgeInv
  PROVE  \A u \in Users : /\ store[u] # Absent => Restorable(store[u])
                          /\ InMode(u) => store[u] = state[u]
  BY BridgeParts DEF StoreAgrees, SessionOfProject, Restorable, InMode

\* What does not change a state cannot break its agreement with the file.
LEMMA StatesStay ==
  ASSUME BridgeInv, UNCHANGED <<state, savedVars>>, Range(files) \subseteq Range(files')
  PROVE  SavesSound' /\ StoreAgrees' /\ SessionOfProject'
  <1> USE DEF savedVars
  <1>1. StoreAgrees'
    BY DEF BridgeInv, StoreAgrees, InMode
  <1>2. \A p : SessionsOf(p) \subseteq SessionsOf(p)'
    BY DEF SessionsOf
  <1>3. SessionOfProject'
    BY <1>2 DEF BridgeInv, SessionOfProject
  <1>4. DiskSound'
    BY <1>2 DEF BridgeInv, DiskSound, Restorable
  <1>5. SavesSound'
    BY <1>4, BridgeParts DEF SavesSound
  <1> QED
    BY <1>1, <1>3, <1>5

\* A save that succeeds, and one that fails and leaves the file as it was or
\* empty.
LEMMA SaveKeeps ==
  ASSUME BridgeInv, NEW entries \in [Users -> {Absent} \cup UserSession],
         \A v \in Users : entries[v] # Absent => Restorable(entries[v]),
         Save(entries), UNCHANGED files
  PROVE  SavesSound' /\ store' = entries
  <1>1. SavesSound
    BY BridgeParts
  <1>2. \A st : Restorable(st)' <=> Restorable(st)
    BY DEF Restorable, SessionsOf
  <1>3. NoEntries \in [Users -> {Absent} \cup UserSession] /\ \A v \in Users : NoEntries[v] = Absent
    BY Strings DEF NoEntries
  <1>4. store' = entries
    BY DEF Save
  <1>5. CASE disk' = entries /\ unsaved' = FALSE /\ UNCHANGED failures
    <2>1. DiskSound'
      BY <1>2, <1>5 DEF DiskSound
    <2> QED
      BY <1>1, <1>4, <1>5, <2>1 DEF SavesSound
  <1>6. CASE SaveFails
    <2>1. failures' \in 0 .. MaxFailures
      BY <1>1, <1>6, BridgeAssumption DEF SaveFails, SavesSound
    <2>2. disk' \in [Users -> {Absent} \cup UserSession] /\ unsaved' = TRUE
      BY <1>1, <1>3, <1>6 DEF SaveFails, SavesSound
    <2>3. DiskSound'
      BY <1>1, <1>2, <1>3, <1>6 DEF SaveFails, SavesSound, DiskSound
    <2> QED
      BY <1>4, <2>1, <2>2, <2>3 DEF SavesSound
  <1> QED
    BY <1>4, <1>5, <1>6 DEF Save

\* A new state for a user: of the mode with a session of its project, or one
\* that has none.
LEMMA SetStateKeeps ==
  ASSUME BridgeInv, NEW u \in Users, NEW st \in UserSession, SetState(u, st), UNCHANGED files,
         st.mode = "claude_code" \/ (~ InMode(u) /\ st.project = NoProject /\ st.session = NoSession),
         st.session # NoSession /\ ~ st.mixed => st.session \in SessionsOf(st.project)
  PROVE  /\ SavesSound' /\ StoreAgrees' /\ SessionOfProject'
         /\ state' \in [Users -> UserSession]
  <1>1. /\ state \in [Users -> UserSession] /\ state' = [state EXCEPT ![u] = st]
        /\ store \in [Users -> {Absent} \cup UserSession]
    BY BridgeParts DEF SetState, SavesSound
  <1>2. /\ state' \in [Users -> UserSession] /\ state'[u] = st
        /\ \A v \in Users \ {u} : state'[v] = state[v]
    BY <1>1
  <1>3. SessionOfProject'
    <2>1. \A p : SessionsOf(p)' = SessionsOf(p)
      BY DEF SessionsOf
    <2> QED
      BY <1>2, <2>1 DEF BridgeInv, SessionOfProject
  <1>4. SavesSound' /\ store'[u] = (IF st.mode = "claude_code" THEN st ELSE store[u])
        /\ \A v \in Users \ {u} : store'[v] = store[v]
    <2>1. CASE st.mode = "claude_code"
      <3> DEFINE entries == [store EXCEPT ![u] = st]
      <3>1. /\ entries \in [Users -> {Absent} \cup UserSession] /\ entries[u] = st
            /\ \A v \in Users \ {u} : entries[v] = store[v]
        BY <1>1
      <3>2. Restorable(st)
        BY <2>1 DEF Restorable
      <3>3. \A v \in Users : entries[v] # Absent => Restorable(entries[v])
        BY <3>1, <3>2, StoreRestorable
      <3>4. Save(entries)
        BY <2>1 DEF SetState, PersistUser
      <3> HIDE DEF entries
      <3>5. SavesSound' /\ store' = entries
        BY <3>1, <3>3, <3>4, SaveKeeps
      <3> QED
        BY <2>1, <3>1, <3>5
    <2>2. CASE st.mode # "claude_code"
      <3>1. UNCHANGED savedVars
        BY <2>2 DEF SetState, PersistUser
      <3>2. DiskSound'
        BY <3>1 DEF savedVars, BridgeInv, DiskSound, Restorable, SessionsOf
      <3> QED
        BY <2>2, <3>1, <3>2, BridgeParts DEF SavesSound, savedVars
    <2> QED
      BY <2>1, <2>2
  <1>5. StoreAgrees'
    <2>1. ASSUME NEW v \in Users \ {u}
          PROVE  IF InMode(v)' THEN store'[v] = state'[v]
                 ELSE /\ store'[v] = Absent
                      /\ state'[v].project = NoProject /\ state'[v].session = NoSession
      BY <1>2, <1>4 DEF BridgeInv, StoreAgrees, InMode
    <2>2. IF InMode(u)' THEN store'[u] = state'[u]
          ELSE /\ store'[u] = Absent
               /\ state'[u].project = NoProject /\ state'[u].session = NoSession
      BY <1>2, <1>4 DEF BridgeInv, StoreAgrees, InMode
    <2>3. (unsaved \/ disk = store)'
      BY <1>4 DEF SavesSound
    <2> QED
      BY <2>1, <2>2, <2>3 DEF StoreAgrees
  <1> QED
    BY <1>2, <1>3, <1>4, <1>5

LEMMA ActivateKeeps ==
  ASSUME BridgeInv, NEW u \in Users, NEW p \in Projects \cup {NoProject}, NEW path \in Paths,
         NEW n \in Sessions \cup {NoSession}, NEW mixed \in BOOLEAN,
         ActivateSession(u, p, path, n, mixed), UNCHANGED <<files, flight, strays>>,
         n # NoSession /\ ~ mixed => n \in SessionsOf(p)
  PROVE  BridgeInv'
  <1> DEFINE st == [state[u] EXCEPT !.mode = "claude_code", !.project = p, !.path = path,
                                    !.session = n, !.mixed = mixed]
  <1>1. state[u] \in UserSession
    BY BridgeParts
  <1>2. /\ st \in UserSession /\ st.mode = "claude_code" /\ st.project = p /\ st.session = n
        /\ st.mixed = mixed
    BY <1>1 DEF UserSession
  <1>3. SetState(u, st)
    BY DEF ActivateSession
  <1> HIDE DEF st
  <1>4. /\ SavesSound' /\ StoreAgrees' /\ SessionOfProject'
        /\ state' \in [Users -> UserSession]
    BY <1>2, <1>3, SetStateKeeps
  <1>5. SessionsNumbered'
    BY BridgeParts DEF SessionsNumbered
  <1> QED
    BY <1>4, <1>5, BridgeParts
       DEF BridgeInv, BridgeSound, BridgeTypeOK, SavesSound

LEMMA SetModelKeeps ==
  ASSUME BridgeInv, NEW u \in Users, NEW m \in Models, SetModel(u, m),
         UNCHANGED <<files, flight, strays>>
  PROVE  BridgeInv'
  <1> DEFINE st == [state[u] EXCEPT !.model = m]
  <1>1. state[u] \in UserSession
    BY BridgeParts
  <1>2. /\ st \in UserSession /\ st.mixed = state[u].mixed
        /\ st.mode = state[u].mode /\ st.project = state[u].project /\ st.session = state[u].session
    BY <1>1 DEF UserSession
  <1>3. SetState(u, st)
    BY DEF SetModel
  <1> HIDE DEF st
  <1>4. st.mode = "claude_code" \/ (~ InMode(u) /\ st.project = NoProject /\ st.session = NoSession)
    BY <1>2 DEF BridgeInv, StoreAgrees, InMode
  <1>5. st.session # NoSession /\ ~ st.mixed => st.session \in SessionsOf(st.project)
    BY <1>2 DEF BridgeInv, SessionOfProject
  <1>6. /\ SavesSound' /\ StoreAgrees' /\ SessionOfProject'
        /\ state' \in [Users -> UserSession]
    BY <1>2, <1>3, <1>4, <1>5, SetStateKeeps
  <1>7. SessionsNumbered'
    BY BridgeParts DEF SessionsNumbered
  <1> QED
    BY <1>6, <1>7, BridgeParts
       DEF BridgeInv, BridgeSound, BridgeTypeOK, SavesSound

\* A change of one user's flight that is well typed.
LEMMA FlightTypes ==
  ASSUME BridgeSound, NEW u \in Users, flight[u] # Idle
  PROVE  /\ flight[u] \in Flight /\ flight[u].proc \in Process
         /\ \A ph \in {"running", "written", "answered"} :
              [flight EXCEPT ![u].phase = ph] \in [Users -> {Idle} \cup Flight]
         /\ [flight EXCEPT ![u].own = FALSE] \in [Users -> {Idle} \cup Flight]
         /\ [flight EXCEPT ![u] = Idle] \in [Users -> {Idle} \cup Flight]
  <1>1. flight \in [Users -> {Idle} \cup Flight] /\ flight[u] \in Flight
    BY DEF BridgeSound, BridgeTypeOK, SessionsNumbered
  <1>2. flight[u].proc \in Process
    BY <1>1 DEF Flight
  <1>3. \A ph \in {"running", "written", "answered"} : [flight[u] EXCEPT !.phase = ph] \in Flight
    BY <1>1 DEF Flight
  <1>4. [flight[u] EXCEPT !.own = FALSE] \in Flight
    BY <1>1 DEF Flight
  <1> QED
    BY <1>1, <1>2, <1>3, <1>4

LEMMA LeftTypes ==
  ASSUME BridgeSound, NEW u \in Users
  PROVE  Left(u) \subseteq Process
  BY FlightTypes DEF Left, At

LEMMA ExitKeeps ==
  ASSUME BridgeInv, NEW u \in Users, ExitMode(u), UNCHANGED <<files, strays>>
  PROVE  BridgeInv'
  <1>1. BridgeSound
    BY DEF BridgeInv
  <1>2. /\ state' \in [Users -> UserSession] /\ state'[u] = NewState
        /\ \A v \in Users \ {u} : state'[v] = state[v]
    BY Strings, BridgeParts DEF ExitMode
  <1>3. flight' \in [Users -> {Idle} \cup Flight]
    BY <1>1, FlightTypes, BridgeParts DEF ExitMode
  <1>4. SavesSound' /\ store'[u] = Absent /\ \A v \in Users \ {u} : store'[v] = store[v]
    <2>1. CASE store[u] = Absent
      <3>1. UNCHANGED savedVars
        BY <2>1 DEF ExitMode
      <3>2. DiskSound'
        BY <3>1 DEF savedVars, BridgeInv, DiskSound, Restorable, SessionsOf
      <3> QED
        BY <2>1, <3>1, <3>2, BridgeParts DEF SavesSound, savedVars
    <2>2. CASE store[u] # Absent
      <3> DEFINE entries == [store EXCEPT ![u] = Absent]
      <3>1. /\ entries \in [Users -> {Absent} \cup UserSession] /\ entries[u] = Absent
            /\ \A v \in Users \ {u} : entries[v] = store[v]
        BY BridgeParts DEF SavesSound
      <3>2. \A v \in Users : entries[v] # Absent => Restorable(entries[v])
        BY <3>1, StoreRestorable
      <3>3. Save(entries)
        BY <2>2 DEF ExitMode
      <3> HIDE DEF entries
      <3>4. SavesSound' /\ store' = entries
        BY <3>1, <3>2, <3>3, SaveKeeps
      <3> QED
        BY <3>1, <3>4
    <2> QED
      BY <2>1, <2>2
  <1>5. StoreAgrees'
    <2>1. \A v \in Users : IF InMode(v)' THEN store'[v] = state'[v]
                           ELSE /\ store'[v] = Absent
                                /\ state'[v].project = NoProject /\ state'[v].session = NoSession
      BY <1>2, <1>4 DEF BridgeInv, StoreAgrees, InMode, NewState
    <2>2. (unsaved \/ disk = store)'
      BY <1>4 DEF SavesSound
    <2> QED
      BY <2>1, <2>2 DEF StoreAgrees
  <1>6. \A p : SessionsOf(p)' = SessionsOf(p)
    BY DEF SessionsOf
  <1>7. SessionOfProject'
    BY <1>2, <1>6 DEF BridgeInv, SessionOfProject, NewState
  <1>8. SessionsNumbered'
    BY BridgeParts DEF SessionsNumbered
  <1> QED
    BY <1>2, <1>3, <1>4, <1>5, <1>7, <1>8, BridgeParts
       DEF BridgeInv, BridgeSound, BridgeTypeOK, SavesSound

\* Steps of processes that change no state of a user.
LEMMA FlightsKeep ==
  ASSUME BridgeInv, UNCHANGED <<files, state, savedVars>>,
         flight' \in [Users -> {Idle} \cup Flight], strays' \subseteq Process
  PROVE  BridgeInv'
  <1>1. SavesSound' /\ StoreAgrees' /\ SessionOfProject'
    BY StatesStay
  <1>2. SessionsNumbered'
    BY BridgeParts DEF SessionsNumbered
  <1> QED
    BY <1>1, <1>2, BridgeParts
       DEF BridgeInv, BridgeSound, BridgeTypeOK, SavesSound

\* The process of a request has answered: a session of the project may be found,
\* unless the object is no longer the user's.
LEMMA AfterProcessKeeps ==
  ASSUME BridgeInv, NEW u \in Users, flight[u] # Idle, AfterProcess(u), UNCHANGED <<files, strays>>
  PROVE  BridgeInv'
  <1> DEFINE new == Detected(state[u].project, flight[u].known)
             st == [state[u] EXCEPT !.session = new, !.mixed = FALSE]
  <1>1. BridgeSound
    BY DEF BridgeInv
  <1>2. flight' \in [Users -> {Idle} \cup Flight] /\ strays' \subseteq Process
    BY <1>1, FlightTypes, BridgeParts DEF AfterProcess
  <1>3. CASE UNCHANGED <<state, savedVars>>
    BY <1>2, <1>3, FlightsKeep
  <1>4. CASE ~ flight[u].own /\ ~ UNCHANGED savedVars
    <2>1. state' = state /\ PersistUser(u, state[u])
      BY <1>4 DEF AfterProcess
    <2>2. InMode(u) /\ Save([store EXCEPT ![u] = state[u]])
      BY <1>4, <2>1 DEF PersistUser, InMode
    <2>3. [store EXCEPT ![u] = state[u]] = store
      BY <2>2, StoreRestorable, BridgeParts DEF SavesSound
    <2>4. Save(store)
      BY <2>2, <2>3
    <2>5. SavesSound' /\ store' = store
      BY <2>4, SaveKeeps, StoreRestorable, BridgeParts DEF SavesSound
    <2>6. StoreAgrees'
      <3>1. (unsaved \/ disk = store)'
        BY <2>5 DEF SavesSound
      <3> QED
        BY <2>1, <2>5, <3>1 DEF BridgeInv, StoreAgrees, InMode
    <2>7. SessionOfProject' /\ SessionsNumbered'
      BY <2>1, BridgeParts DEF SessionOfProject, SessionsNumbered, SessionsOf
    <2> QED
      BY <1>2, <2>1, <2>5, <2>6, <2>7, BridgeParts
         DEF BridgeInv, BridgeSound, BridgeTypeOK, SavesSound
  <1>5. CASE flight[u].own /\ Looks(u) /\ new # NoSession
    <2>1. SetState(u, st)
      BY <1>5 DEF AfterProcess
    <2>2. new \in SessionsOf(state[u].project) /\ new \in Sessions
      BY <1>1, <1>5, DetectedFacts, FilesFacts
    <2> HIDE DEF new
    <2>3. /\ st \in UserSession /\ st.session = new
          /\ st.mode = state[u].mode /\ st.project = state[u].project
      BY <2>2, BridgeParts DEF UserSession
    <2>4. st.mode = "claude_code"
      BY <1>5, <2>3 DEF Looks, BridgeInv, StoreAgrees, InMode
    <2> HIDE DEF st
    <2>5. /\ SavesSound' /\ StoreAgrees' /\ SessionOfProject'
          /\ state' \in [Users -> UserSession]
      BY <2>1, <2>2, <2>3, <2>4, SetStateKeeps
    <2>6. SessionsNumbered'
      BY BridgeParts DEF SessionsNumbered
    <2> QED
      BY <1>2, <2>5, <2>6, BridgeParts
         DEF BridgeInv, BridgeSound, BridgeTypeOK, SavesSound
  <1>6. CASE flight[u].own /\ ~ (Looks(u) /\ new # NoSession)
    <2>1. UNCHANGED <<state, savedVars>>
      BY <1>6 DEF AfterProcess
    <2> QED
      BY <1>3, <2>1
  <1>7. CASE ~ flight[u].own /\ UNCHANGED savedVars
    <2>1. state' = state
      BY <1>7 DEF AfterProcess
    <2> QED
      BY <1>3, <1>7, <2>1
  <1> QED
    BY <1>4, <1>5, <1>6, <1>7

LEMMA BeginTypes ==
  ASSUME BridgeSound, NEW u \in Users, NEW kind \in {"message", "memory", "compact"},
         NEW snapshot \in BOOLEAN, Begin(u, kind, snapshot)
  PROVE  flight' \in [Users -> {Idle} \cup Flight]
  <1>1. state[u] \in UserSession
    BY DEF BridgeSound, BridgeTypeOK, SessionsNumbered
  <1>3. [path |-> state[u].path, resume |-> state[u].session, fork |-> kind = "compact"] \in Process
    BY <1>1 DEF Process, UserSession
  <1>4. (IF snapshot THEN SessionsOf(state[u].project) ELSE {}) \in SUBSET Sessions
    BY FilesFacts
  <1>5. flight'[u] \in Flight /\ flight' = [flight EXCEPT ![u] = flight'[u]]
    BY <1>3, <1>4 DEF Begin, Flight, BridgeSound, BridgeTypeOK, SessionsNumbered
  <1> QED
    BY <1>5 DEF BridgeSound, BridgeTypeOK, SessionsNumbered

LEMMA WriteKeeps ==
  ASSUME BridgeInv, NEW proc \in Process, Write(proc), UNCHANGED <<state, savedVars>>,
         flight' \in [Users -> {Idle} \cup Flight], strays' \subseteq Process
  PROVE  BridgeInv'
  <1>1. /\ files' \in Seq(File) /\ {f.id : f \in Range(files')} = 1 .. Len(files')
        /\ Range(files) \subseteq Range(files')
    BY WriteFacts DEF BridgeInv
  <1>2. SavesSound' /\ StoreAgrees' /\ SessionOfProject'
    BY <1>1, StatesStay
  <1>3. SessionsNumbered'
    BY <1>1 DEF SessionsNumbered
  <1> QED
    BY <1>1, <1>2, <1>3, BridgeParts
       DEF BridgeInv, BridgeSound, BridgeTypeOK, SavesSound

\* After a restart the users are where the file says, or nowhere.
LEMMA RestartKeeps ==
  ASSUME BridgeInv, NEW torn \in BOOLEAN, Restart(torn)
  PROVE  BridgeInv'
  <1>1. BridgeSound
    BY DEF BridgeInv
  <1>2. \A st : Restorable(st)' <=> Restorable(st)
    BY DEF Restorable, SessionsOf, Restart
  <1>3. NoEntries \in [Users -> {Absent} \cup UserSession] /\ \A v \in Users : NoEntries[v] = Absent
    BY Strings DEF NoEntries
  <1>4. /\ disk' \in [Users -> {Absent} \cup UserSession] /\ store' = disk'
        /\ unsaved' = FALSE /\ UNCHANGED <<files, failures>>
        /\ \A u \in Users : disk'[u] # Absent => Restorable(disk'[u])
    BY <1>3, BridgeParts DEF Restart, SavesSound, DiskSound
  <1>5. SavesSound'
    <2>1. DiskSound'
      BY <1>2, <1>4 DEF DiskSound
    <2> QED
      BY <1>4, <2>1, BridgeParts DEF SavesSound
  <1>6. /\ \A u \in Users : state'[u] = IF store'[u] = Absent THEN NewState ELSE store'[u]
        /\ state' \in [Users -> UserSession]
    BY <1>4, Strings DEF Restart
  <1>7. StoreAgrees'
    <2>1. ASSUME NEW u \in Users
          PROVE  IF InMode(u)' THEN store'[u] = state'[u]
                 ELSE /\ store'[u] = Absent
                      /\ state'[u].project = NoProject /\ state'[u].session = NoSession
      <3>1. CASE store'[u] = Absent
        BY <1>6, <3>1 DEF InMode, NewState
      <3>2. CASE store'[u] # Absent
        BY <1>4, <1>6, <3>2 DEF Restorable, InMode
      <3> QED
        BY <3>1, <3>2
    <2> QED
      BY <1>4, <2>1 DEF StoreAgrees
  <1>8. SessionOfProject'
    <2>1. ASSUME NEW u \in Users, state'[u].session # NoSession, ~ state'[u].mixed
          PROVE  state'[u].session \in SessionsOf(state'[u].project)
      BY <1>4, <1>6, <2>1 DEF Restorable, NewState
    <2>2. \A p : SessionsOf(p)' = SessionsOf(p)
      BY <1>4 DEF SessionsOf
    <2> QED
      BY <2>1, <2>2 DEF SessionOfProject
  <1>9. strays' \subseteq Process
    BY <1>1, LeftTypes, BridgeParts DEF Restart
  <1>10. flight' \in [Users -> {Idle} \cup Flight] /\ SessionsNumbered'
    BY <1>4, BridgeParts DEF Restart, SessionsNumbered
  <1> QED
    BY <1>4, <1>5, <1>6, <1>7, <1>8, <1>9, <1>10, BridgeParts
       DEF BridgeInv, BridgeSound, BridgeTypeOK, SavesSound

----------------------------------------------------------------------------
(* The handler *)

LEMMA LockKept == BridgeSound /\ LockTypeOK /\ HoldsLock /\ [Next]_vars => LockTypeOK' /\ HoldsLock'
  <1> DEFINE Kinds == {"message", "memory", "compact"}
  <1> SUFFICES ASSUME BridgeSound, LockTypeOK, HoldsLock, [Next]_vars
               PROVE  LockTypeOK' /\ HoldsLock'
    OBVIOUS
  <1> USE DEF lockVars, bridgeVars
  <1>1. /\ queue \in [Users -> Seq(Kinds)] /\ accepted \in [Users -> BOOLEAN]
        /\ requests \in 0 .. MaxRequests /\ DOMAIN flight = Users
    BY DEF LockTypeOK, BridgeSound, BridgeTypeOK, SessionsNumbered
  <1>2. ASSUME NEW u \in Users, NEW kind \in Kinds, Enqueue(u, kind), UNCHANGED flight,
               accepted' \in [Users -> BOOLEAN]
        PROVE  LockTypeOK' /\ HoldsLock'
    <2>1. Append(queue[u], kind) \in Seq(Kinds) /\ Append(queue[u], kind) # <<>>
      BY <1>1
    <2>2. queue' = [queue EXCEPT ![u] = Append(queue[u], kind)] /\ requests' \in 0 .. MaxRequests
      BY <1>1, <1>2, HandlerAssumption DEF Enqueue
    <2>3. queue' \in [Users -> Seq(Kinds)] /\ \A v \in Users : queue[v] # <<>> => queue'[v] # <<>>
      BY <1>1, <2>1, <2>2
    <2> QED
      BY <1>2, <2>2, <2>3 DEF LockTypeOK, HoldsLock
  <1>3. ASSUME NEW u \in Users, Release(u), queue[u] # <<>>, flight'[u] = Idle,
               \A v \in Users \ {u} : flight'[v] = flight[v]
        PROVE  LockTypeOK' /\ HoldsLock'
    <2>1. Tail(queue[u]) \in Seq(Kinds)
      BY <1>1, <1>3
    <2>2. queue' = [queue EXCEPT ![u] = Tail(queue[u])] /\ UNCHANGED <<accepted, requests>>
      BY <1>3 DEF Release
    <2>3. queue' \in [Users -> Seq(Kinds)] /\ \A v \in Users \ {u} : queue'[v] = queue[v]
      BY <1>1, <2>1, <2>2
    <2> QED
      BY <1>1, <1>3, <2>2, <2>3 DEF LockTypeOK, HoldsLock
  <1>4. ASSUME UNCHANGED <<queue, requests>>, accepted' \in [Users -> BOOLEAN],
               \A v \in Users : flight'[v] # Idle => flight[v] # Idle \/ queue[v] # <<>>
        PROVE  LockTypeOK' /\ HoldsLock'
    BY <1>4 DEF LockTypeOK, HoldsLock
  <1>5. CASE \E u \in Users : \/ Message(u) \/ CmdCompact(u) \/ CmdMemory(u)
    <2>1. PICK u \in Users : \/ Message(u) \/ CmdCompact(u) \/ CmdMemory(u)
      BY <1>5
    <2>2. accepted' \in [Users -> BOOLEAN]
      BY <1>1, <2>1 DEF Message, CmdCompact, CmdMemory, CmdLocked, Runs
    <2>3. UNCHANGED flight /\ \E kind \in Kinds : Enqueue(u, kind)
      BY <2>1 DEF Message, CmdCompact, CmdMemory, CmdLocked
    <2> QED
      BY <1>2, <2>2, <2>3
  <1>6. CASE \E u \in Users : NothingToFork(u)
    BY <1>3, <1>6 DEF NothingToFork
  <1>7. CASE \E u \in Users : Finish(u) \/ TimeLimit(u)
    <2>1. PICK u \in Users : Finish(u) \/ TimeLimit(u)
      BY <1>7
    <2>2. flight[u] # Idle /\ Release(u) /\ flight' = [flight EXCEPT ![u] = Idle]
      BY <2>1 DEF Finish, At, AfterProcess, TimeLimit
    <2> QED
      BY <1>1, <1>3, <2>2 DEF HoldsLock
  <1>8. CASE \E u \in Users : Accept(u) \/ CmdClear(u) \/ CmdProject(u) \/ CmdResume(u)
                                \/ CmdModel(u) \/ CmdAnswers(u)
    <2>1. PICK u \in Users : Accept(u) \/ CmdClear(u) \/ CmdProject(u) \/ CmdResume(u)
                               \/ CmdModel(u) \/ CmdAnswers(u)
      BY <1>8
    <2>2. UNCHANGED <<queue, requests, flight>>
      BY <2>1 DEF Accept, CmdClear, CmdProject, CmdResume, CmdModel, CmdAnswers, Activate
    <2>3. accepted' \in [Users -> BOOLEAN]
      BY <1>1, <2>1 DEF Accept, CmdClear, CmdProject, CmdResume, CmdModel, CmdAnswers, Runs
    <2> QED
      BY <1>4, <2>2, <2>3
  <1>9. CASE \E u \in Users : Start(u) \/ Running(u) \/ Exit(u)
    <2>1. PICK u \in Users : Start(u) \/ Running(u) \/ Exit(u)
      BY <1>9
    <2>2. UNCHANGED lockVars
      BY <2>1 DEF Start, Running, Exit
    <2>3. \A v \in Users \ {u} : flight'[v] = flight[v]
      BY <1>1, <2>1 DEF Start, BeginSend, BeginFork, Begin, Running, ProcessWrites,
                        ProcessAnswers, GatewayRefuses, ClientGivesUp, Exit, ExitMode
    <2>4. flight'[u] # Idle => flight[u] # Idle \/ queue[u] # <<>>
      BY <2>1 DEF Start, Running, ProcessWrites, ProcessAnswers, GatewayRefuses,
                  ClientGivesUp, Left, At, Exit, ExitMode
    <2> QED
      BY <1>1, <1>4, <2>2, <2>3, <2>4
  <1>10. CASE (\E u \in Users : ChooseNew(u) \/ Choose(u)) \/ Environment \/ UNCHANGED vars
    <2>1. UNCHANGED <<lockVars, flight>>
      BY <1>10 DEF ChooseNew, Choose, Activate, Environment, StrayWrites, TerminalSession, vars
    <2> QED
      BY <1>1, <1>4, <2>1
  <1>11. CASE Crash
    <2>1. queue' = [u \in Users |-> <<>>] /\ accepted' = [u \in Users |-> FALSE]
          /\ UNCHANGED requests /\ flight' = [u \in Users |-> Idle]
      BY <1>11 DEF Crash, Restart
    <2> QED
      BY <1>1, <2>1 DEF LockTypeOK, HoldsLock
  <1> QED
    BY <1>5, <1>6, <1>7, <1>8, <1>9, <1>10, <1>11 DEF Next, Step

LEMMA BridgeKept == BridgeInv /\ [Next]_vars => BridgeInv'
  <1> SUFFICES ASSUME BridgeInv, [Next]_vars PROVE BridgeInv'
    OBVIOUS
  <1> USE DEF lockVars, bridgeVars
  <1>1. BridgeSound
    BY DEF BridgeInv
  <1>2. flight \in [Users -> {Idle} \cup Flight] /\ strays \subseteq Process
    BY <1>1 DEF BridgeSound, BridgeTypeOK, SessionsNumbered
  <1>3. CASE UNCHANGED bridgeVars
    BY <1>2, <1>3, FlightsKeep
  <1>4. CASE \E u \in Users : Message(u) \/ NothingToFork(u) \/ Accept(u) \/ CmdCompact(u)
                                \/ CmdMemory(u) \/ CmdAnswers(u)
    BY <1>3, <1>4 DEF Message, NothingToFork, Accept, CmdCompact, CmdMemory, CmdLocked, CmdAnswers
  <1>5. ASSUME NEW u \in Users, Start(u) PROVE BridgeInv'
    <2>1. \/ \E kind \in {"message", "memory"} : BeginSend(u, kind)
          \/ BeginFork(u)
      BY <1>5 DEF Start
    <2>2. \E kind \in {"message", "memory", "compact"}, snapshot \in BOOLEAN : Begin(u, kind, snapshot)
      BY <2>1 DEF BeginSend, BeginFork
    <2>3. flight' \in [Users -> {Idle} \cup Flight]
      BY <1>1, <2>2, BeginTypes
    <2>4. UNCHANGED <<files, state, savedVars, strays>>
      BY <1>5 DEF Start
    <2> QED
      BY <1>2, <2>3, <2>4, FlightsKeep
  <1>6. ASSUME NEW u \in Users, Finish(u) PROVE BridgeInv'
    BY <1>6, AfterProcessKeeps DEF Finish, At
  <1>7. ASSUME NEW u \in Users, TimeLimit(u) PROVE BridgeInv'
    <2>1. flight' \in [Users -> {Idle} \cup Flight]
      BY <1>1, <1>7, FlightTypes DEF TimeLimit
    <2>2. strays' \subseteq Process
      BY <1>1, <1>2, <1>7, LeftTypes DEF TimeLimit
    <2> QED
      BY <1>7, <2>1, <2>2, FlightsKeep DEF TimeLimit
  <1>8. ASSUME NEW u \in Users,
               CmdClear(u) \/ CmdProject(u) \/ CmdResume(u) \/ ChooseNew(u) \/ Choose(u)
        PROVE  BridgeInv'
    <2>1. /\ state[u].project \in Projects \cup {NoProject} /\ state[u].path \in Paths
          /\ ProjectsOnDisk \subseteq Projects /\ \A p : SessionsOf(p) \subseteq Sessions
      BY <1>1, FilesFacts DEF BridgeSound, BridgeTypeOK, UserSession
    <2>2. \A p \in ProjectsOnDisk : p \in Projects \cup {NoProject} /\ Peeked(p) \subseteq Paths
      BY <2>1 DEF Peeked, Paths
    <2>3. \E p \in Projects \cup {NoProject}, path \in Paths, n \in Sessions \cup {NoSession},
             mixed \in BOOLEAN :
            /\ ActivateSession(u, p, path, n, mixed)
            /\ n # NoSession /\ ~ mixed => n \in SessionsOf(p)
      <3>1. CASE CmdClear(u) \/ CmdProject(u) \/ CmdResume(u) \/ ChooseNew(u)
        BY <2>1, <2>2, <3>1 DEF CmdClear, CmdProject, CmdResume, ChooseNew, Activate
      <3>2. CASE Choose(u)
        BY <2>1, <2>2, <3>2 DEF Choose
      <3> QED
        BY <1>8, <3>1, <3>2
    <2>4. UNCHANGED <<files, flight, strays>>
      BY <1>8 DEF CmdClear, CmdProject, CmdResume, ChooseNew, Choose, Activate
    <2> QED
      BY <2>3, <2>4, ActivateKeeps
  <1>9. ASSUME NEW u \in Users, CmdModel(u) PROVE BridgeInv'
    BY <1>9, SetModelKeeps DEF CmdModel
  <1>10. ASSUME NEW u \in Users, Exit(u) PROVE BridgeInv'
    BY <1>10, ExitKeeps DEF Exit
  <1>11. ASSUME NEW u \in Users, Running(u) PROVE BridgeInv'
    <2>1. CASE ProcessWrites(u)
      <3>1. flight[u] # Idle /\ Write(flight[u].proc)
        BY <2>1 DEF ProcessWrites, At
      <3>2. flight[u].proc \in Process /\ flight' \in [Users -> {Idle} \cup Flight]
        BY <1>1, <2>1, <3>1, FlightTypes DEF ProcessWrites
      <3> QED
        BY <1>2, <2>1, <3>1, <3>2, WriteKeeps DEF ProcessWrites
    <2>2. CASE ProcessAnswers(u) \/ GatewayRefuses(u) \/ ClientGivesUp(u)
      <3>1. flight[u] # Idle /\ flight' = [flight EXCEPT ![u].phase = "answered"]
        BY <2>2 DEF ProcessAnswers, GatewayRefuses, ClientGivesUp, Left, At
      <3>2. flight' \in [Users -> {Idle} \cup Flight]
        BY <1>1, <3>1, FlightTypes
      <3>3. UNCHANGED <<files, state, savedVars>> /\ strays' \subseteq strays \cup Left(u)
        BY <2>2 DEF ProcessAnswers, GatewayRefuses, ClientGivesUp
      <3> QED
        BY <1>1, <1>2, <3>2, <3>3, LeftTypes, FlightsKeep
    <2> QED
      BY <1>11, <2>1, <2>2 DEF Running
  <1>12. CASE Environment
    <2>1. CASE StrayWrites
      <3>1. PICK proc \in strays : Write(proc) /\ strays' = strays \ {proc}
                                   /\ UNCHANGED <<state, savedVars, flight>>
        BY <2>1 DEF StrayWrites
      <3> QED
        BY <1>2, <3>1, WriteKeeps
    <2>2. CASE \E p \in Projects : TerminalSession(p, NoSession)
      <3>1. PICK p \in Projects : TerminalSession(p, NoSession)
        BY <2>2
      <3>2. [path |-> p, resume |-> NoSession, fork |-> FALSE] \in Process
        BY DEF Process, Paths
      <3> QED
        BY <1>2, <3>1, <3>2, WriteKeeps DEF TerminalSession
    <2> QED
      BY <1>12, <2>1, <2>2 DEF Environment
  <1>13. CASE Crash
    BY <1>13, RestartKeeps DEF Crash
  <1>14. CASE UNCHANGED vars
    BY <1>3, <1>14 DEF vars
  <1> QED
    BY <1>4, <1>5, <1>6, <1>7, <1>8, <1>9, <1>10, <1>11, <1>12, <1>13, <1>14 DEF Next, Step

----------------------------------------------------------------------------
(* The theorems *)

LEMMA InitHInv == Init => HInv
  <1> SUFFICES ASSUME Init PROVE HInv
    OBVIOUS
  <1> DEFINE n == OldSessions
  <1>1. PICK home \in [1 .. n -> Projects] :
          files = [i \in 1 .. n |-> [id |-> n + 1 - i, project |-> home[n + 1 - i]]]
    BY DEF Init, BridgeInit
  <1>2. n \in Nat /\ MaxSessions \in Nat /\ n <= MaxSessions
    BY BridgeAssumption
  <1>3. \A i \in 1 .. n : n + 1 - i \in 1 .. n
    BY <1>2
  <1>4. \A i \in 1 .. n : n + 1 - i \in Sessions /\ home[n + 1 - i] \in Projects
    BY <1>1, <1>2, <1>3 DEF Sessions
  <1>5. files \in Seq(File) /\ Len(files) = n
    <2>1. \A i \in 1 .. n : [id |-> n + 1 - i, project |-> home[n + 1 - i]] \in File
      BY <1>4 DEF File
    <2>2. files \in [1 .. n -> File]
      BY <1>1, <2>1
    <2> HIDE DEF n
    <2> QED
      BY <1>2, <2>2
  <1>6. {f.id : f \in Range(files)} = 1 .. n
    <2>1. \A i \in 1 .. n : files[i].id = n + 1 - i
      BY <1>1
    <2>2. Range(files) = {files[i] : i \in 1 .. n}
      BY <1>5 DEF Range
    <2>3. ASSUME NEW m \in 1 .. n PROVE m \in {f.id : f \in Range(files)}
      <3>1. n + 1 - m \in 1 .. n /\ n + 1 - (n + 1 - m) = m
        BY <1>2
      <3> QED
        BY <2>1, <2>2, <3>1
    <2>4. ASSUME NEW f \in Range(files) PROVE f.id \in 1 .. n
      BY <1>3, <2>1, <2>2
    <2> HIDE DEF n
    <2> QED
      BY <2>3, <2>4
  <1>7. BridgeSound
    <2>1. SessionsNumbered /\ state \in [Users -> UserSession]
      BY <1>5, <1>6, Strings DEF Init, BridgeInit, SessionsNumbered
    <2>2. failures \in 0 .. MaxFailures
      <3>1. failures = 0 /\ MaxFailures \in Nat
        BY BridgeAssumption DEF Init, BridgeInit
      <3> QED
        BY <3>1
    <2>3. unsaved \in BOOLEAN
      BY DEF Init, BridgeInit
    <2> QED
      BY <1>5, <2>1, <2>2, <2>3, Strings DEF Init, BridgeInit, BridgeSound, BridgeTypeOK
  <1>8. StoreAgrees /\ SessionOfProject /\ DiskSound
    BY DEF Init, BridgeInit, StoreAgrees, SessionOfProject, DiskSound, InMode, NewState, NoEntries
  <1>9. LockTypeOK /\ HoldsLock
    BY HandlerAssumption DEF Init, BridgeInit, LockTypeOK, HoldsLock
  <1> QED
    BY <1>7, <1>8, <1>9 DEF HInv, BridgeInv

\* The invariant of the mode: users, what is to be saved, the file, the session
\* files, the processes and the lock agree, over saves that fail, buttons of old
\* lists and crashes (bridge.py: send_message, fork_session, exit_mode,
\* _restore_states; store.py: _save).
THEOREM HandlerInvariant == Spec => []HInv
  <1>1. HInv /\ [Next]_vars => HInv'
    BY BridgeKept, LockKept DEF HInv, BridgeInv
  <1> QED
    BY <1>1, InitHInv, PTL DEF Spec

\* Every reachable state is well typed, and the session files are those that
\* processes have written so far, each once (bridge.py: list_conversations).
THEOREM HandlerTypeCorrect == Spec => [](TypeOK /\ SessionsNumbered)
  <1>1. HInv => TypeOK /\ SessionsNumbered
    BY DEF HInv, BridgeInv, BridgeSound, LockTypeOK, TypeOK
  <1> QED
    BY <1>1, HandlerInvariant, PTL

\* What is to be saved is what memory has of every user in the mode, and nothing
\* else, whatever sends, exits and crashes meet, and so is the file, but for a
\* save that failed and that no later one has made good (bridge.py:
\* _persist_user, exit_mode; store.py: _save).
THEOREM StoreFollows == Spec => []StoreAgrees
  <1>1. HInv => StoreAgrees
    BY DEF HInv, BridgeInv
  <1> QED
    BY <1>1, HandlerInvariant, PTL

\* The session of a user is one of the user's project, whichever process wrote
\* the session that a send or a fork has found and whatever file a restart has
\* read, unless the user took the two from lists of two projects (bridge.py:
\* _detect_new_session; claude_code.py: _activate_conversation).
THEOREM SessionsInProject == Spec => []SessionOfProject
  <1>1. HInv => SessionOfProject
    BY DEF HInv, BridgeInv
  <1> QED
    BY <1>1, HandlerInvariant, PTL
=============================================================================
