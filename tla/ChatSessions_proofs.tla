------------------------ MODULE ChatSessions_proofs ------------------------
(***************************************************************************)
(* Proofs about ChatSessions, for any chats, requests and updates and for   *)
(* every MaxSeen that is at least twice the Lag of Telegram.                *)
(***************************************************************************)
EXTENDS ChatSessions, WellFoundedInduction, TLAPS

----------------------------------------------------------------------------
(* The inductive invariant *)

Known == 1 .. Len(sent) \cup Requests

\* A message that was handled is remembered, or too old to come again.
ForgottenAreOld ==
  \A i \in Ids : handled[i] > 0 =>
    /\ i \in 1 .. Len(sent)
    /\ sent[i].kind # "command" => i \in seen \/ i + Lag <= latest

\* Nothing has happened on a thread beyond the counter of its chat.
FreshAbove ==
  \A k \in Keys : \A n \in Counts : n > counters[k] => threads[k][n] = {}

\* A turn is on a thread of its message's chat, not beyond the counter.
TurnsInPlace ==
  \A t \in turns : /\ t.of \in Known /\ t.key = KeyOf(t.of)
                   /\ t.key \in Keys => t.session <= counters[t.key]

\* Turns that are on a thread together are known to overlap.
OverlapsKnown ==
  \A t, u \in turns : t # u /\ t.key = u.key /\ t.session = u.session => t.of \in crowded

\* What NothingForgotten says, and that every turn that will write the thread
\* has read the message there.
Held(x, n) ==
  /\ x \in threads[KeyOf(x)][n]
  /\ \A t \in turns : t.key = KeyOf(x) /\ t.session = n => x \in t.base

HeldByTurns ==
  /\ answered \subseteq Known
  /\ \A x \in answered \ crowded : \E n \in Counts : Held(x, n)

CInv == TypeOK /\ UpdatesOnce /\ ForgottenAreOld /\ FreshAbove
               /\ TurnsInPlace /\ OverlapsKnown /\ HeldByTurns

----------------------------------------------------------------------------
(* Facts about the operators *)

\* A nonempty set of natural numbers below a bound has a greatest element.
LEMMA GreatestBelow ==
  ASSUME NEW b \in Nat, NEW S \in SUBSET (0 .. b), S # {}
  PROVE  /\ Max(S) \in S
         /\ \A n \in S : Max(S) >= n
  <1> DEFINE R == OpToRel(<, Nat)
             T == {b - n : n \in S}
  <1>1. \A x, y \in Nat : x < y => <<x, y>> \in R
    BY DEF OpToRel
  <1>2. T \subseteq Nat /\ T # {}
    <2>1. \A n \in S : b - n \in Nat
      OBVIOUS
    <2> QED
      BY <2>1
  <1>3. IsWellFoundedOn(R, Nat)
    BY NatLessThanWellFounded
  <1> HIDE DEF R
  <1>4. \E x \in T : \A y \in T : <<y, x>> \notin R
    BY <1>2, <1>3, WFMin
  <1>5. PICK n \in S : \A y \in T : <<y, b - n>> \notin R
    BY <1>4
  <1>6. ASSUME NEW m \in S PROVE n >= m
    <2>1. b - m \in T /\ b - m \in Nat /\ b - n \in Nat
      OBVIOUS
    <2>2. ~ (b - m < b - n)
      BY <1>1, <1>5, <2>1
    <2> QED
      BY <2>2
  <1>7. \E x \in S : \A y \in S : x >= y
    BY <1>6
  <1> QED
    BY <1>7 DEF Max

\* The greater of the last id and a new one.
LEMMA Later ==
  ASSUME NEW m \in Nat, NEW n \in Nat
  PROVE  Max({m, n}) = IF m >= n THEN m ELSE n
  <1>1. CASE m >= n
    <2>1. \E x \in {m, n} : \A y \in {m, n} : x >= y
      BY <1>1
    <2> QED
      BY <1>1, <2>1 DEF Max
  <1>2. CASE ~ m >= n
    <2>1. \E x \in {m, n} : \A y \in {m, n} : x >= y
      BY <1>2
    <2> QED
      BY <1>2, <2>1 DEF Max
  <1> QED
    BY <1>1, <1>2

\* After a restart the counters are numbers of sessions again, and no thread
\* that remembers something is beyond them.
LEMMA SyncedFacts ==
  ASSUME TypeOK, NEW loaded \in [Keys -> Counts]
  PROVE  /\ Synced(loaded) \in [Keys -> Counts]
         /\ \A k \in Keys : \A n \in Counts : n > Synced(loaded)[k] => threads[k][n] = {}
  <1>1. ASSUME NEW k \in Keys
        PROVE  /\ Synced(loaded)[k] \in Counts
               /\ \A n \in Counts : n > Synced(loaded)[k] => threads[k][n] = {}
    <2> DEFINE S == {loaded[k]} \cup {n \in Counts : threads[k][n] # {}}
    <2>1. MaxUpdates \in Nat /\ S \in SUBSET (0 .. MaxUpdates) /\ S # {}
      BY ChatAssumption DEF Counts
    <2>2. Max(S) \in S /\ \A n \in S : Max(S) >= n
      BY <2>1, GreatestBelow
    <2>3. Synced(loaded)[k] = Max(S)
      BY DEF Synced
    <2>4. Max(S) \in Counts
      BY <2>1, <2>2 DEF Counts
    <2> HIDE DEF S
    <2>5. ASSUME NEW n \in Counts, n > Max(S) PROVE threads[k][n] = {}
      <3>1. n \notin S
        BY <2>2, <2>4, <2>5, ChatAssumption DEF Counts
      <3> QED
        BY <3>1 DEF S
    <2> QED
      BY <2>3, <2>4, <2>5
  <1> QED
    BY <1>1 DEF Synced

LEMMA Constants ==
  /\ MaxUpdates \in Nat /\ MaxSeen \in Nat /\ Lag \in Nat /\ 2 * Lag <= MaxSeen
  /\ Ids \subseteq Nat /\ Counts \subseteq Nat /\ 0 \in Counts
  BY ChatAssumption DEF Ids, Counts

\* The key and the session of a message are those of a thread.
LEMMA KeyFacts ==
  ASSUME TypeOK, NEW x \in Known
  PROVE  /\ KeyOf(x) \in AllKeys /\ Session(KeyOf(x)) \in Counts
         /\ x \in Ids \cup Requests
  <1>1. KeyOf(x) \in AllKeys
    <2>1. CASE x \in Requests
      BY <2>1 DEF KeyOf, AllKeys
    <2>2. CASE x \notin Requests
      <3>1. x \in 1 .. Len(sent)
        BY <2>2 DEF Known
      <3>2. sent[x] \in Update
        BY <3>1 DEF TypeOK
      <3> QED
        BY <2>2, <3>2 DEF KeyOf, AllKeys, Update
    <2> QED
      BY <2>1, <2>2
  <1>2. Session(KeyOf(x)) \in Counts
    BY <1>1, Constants DEF Session, TypeOK
  <1>3. x \in Ids \cup Requests
    BY Constants DEF Known, TypeOK, Ids
  <1> QED
    BY <1>1, <1>2, <1>3

----------------------------------------------------------------------------
(* Types *)

LEMMA ZeroTyped == Zero \in [Keys -> Counts]
  BY Constants DEF Zero

LEMMA InitTypeOK == Init => TypeOK
  <1> SUFFICES ASSUME Init PROVE TypeOK
    OBVIOUS
  <1>1. /\ counters \in [Keys -> Counts] /\ file \in [Keys -> Counts]
        /\ handled \in [Ids -> Nat]
        /\ threads \in [AllKeys -> [Counts -> SUBSET (Ids \cup Requests)]]
    BY Constants DEF Init
  <1>2. sent = <<>> /\ Len(sent) <= MaxUpdates /\ latest \in 0 .. Len(sent)
    BY Constants DEF Init
  <1> QED
    BY <1>1, <1>2 DEF Init, TypeOK

LEMMA NoteTypes ==
  ASSUME TypeOK, NEW i \in Ids, Note(i)
  PROVE  /\ sent' = sent /\ i \in 1 .. Len(sent) /\ sent[i] \in Update
         /\ latest' \in 0 .. Len(sent)
         /\ latest' >= latest /\ latest' >= i
  <1>1. /\ sent' = sent /\ i \in 1 .. Len(sent) /\ latest \in Nat /\ i \in Nat
        /\ latest' = Max({latest, i})
    BY Constants DEF Note, Arrives, TypeOK
  <1>2. latest' = IF latest >= i THEN latest ELSE i
    BY <1>1, Later
  <1>3. sent[i] \in Update
    BY <1>1 DEF TypeOK
  <1> QED
    BY <1>1, <1>2, <1>3 DEF TypeOK

LEMMA TypeKept == TypeOK /\ [Next]_vars => TypeOK'
  <1> SUFFICES ASSUME TypeOK, [Next]_vars PROVE TypeOK'
    OBVIOUS
  <1> USE DEF routeVars, ghosts
  <1>1. CASE Send
    <2>1. PICK m \in Update : sent' = Append(sent, m)
      BY <1>1 DEF Send
    <2>2. Len(sent) < MaxUpdates /\ Len(sent) \in Nat /\ MaxUpdates \in Nat
      BY <1>1, Constants DEF Send, TypeOK
    <2>3. /\ sent' \in Seq(Update) /\ Len(sent') = Len(sent) + 1
          /\ 1 .. Len(sent) \subseteq 1 .. Len(sent') /\ 0 .. Len(sent) \subseteq 0 .. Len(sent')
      BY <2>1, <2>2 DEF TypeOK
    <2> QED
      BY <1>1, <2>2, <2>3 DEF Send, TypeOK
  <1>2. CASE \E i \in Ids : Duplicate(i) \/ Text(i) \/ Unreadable(i) \/ Ignored(i) \/ New(i) \/ Other(i)
    <2>1. PICK i \in Ids : Duplicate(i) \/ Text(i) \/ Unreadable(i) \/ Ignored(i) \/ New(i) \/ Other(i)
      BY <1>2
    <2>2. Note(i)
      BY <2>1 DEF Duplicate, Text, Unreadable, Ignored, New, Other, Command, Handle
    <2>3. /\ sent' = sent /\ i \in 1 .. Len(sent) /\ sent[i] \in Update
          /\ latest' \in 0 .. Len(sent)
      BY <2>2, NoteTypes
    <2>4. CASE Duplicate(i)
      BY <2>3, <2>4 DEF Duplicate, TypeOK
    <2>5. ASSUME Handle(i) PROVE seen' \in SUBSET Ids /\ handled' \in [Ids -> Nat]
      <3>1. Remember(i) \subseteq seen \cup {i}
        BY DEF Remember
      <3>2. handled[i] + 1 \in Nat
        BY DEF TypeOK
      <3> QED
        BY <2>5, <3>1, <3>2 DEF Handle, Counted, TypeOK
    <2>6. CASE Text(i)
      BY <2>3, <2>5, <2>6 DEF Text, TypeOK
    <2>7. CASE Unreadable(i) \/ Ignored(i)
      BY <2>3, <2>5, <2>7 DEF Unreadable, Ignored, TypeOK
    <2>8. ASSUME Command(i) PROVE handled' \in [Ids -> Nat]
      <3>1. handled[i] + 1 \in Nat
        BY DEF TypeOK
      <3> QED
        BY <2>8, <3>1 DEF Command, Counted, TypeOK
    <2>9. CASE New(i)
      <3>1. sent[i].key \in Keys
        BY <2>3 DEF Update
      <3>2. counters' \in [Keys -> Counts]
        BY <2>9, <3>1 DEF New, Reset, TypeOK
      <3>3. file' \in [Keys -> Counts]
        BY <2>9, <3>2, ZeroTyped DEF New, Reset, Saved, TypeOK
      <3> QED
        BY <2>3, <2>8, <2>9, <3>2, <3>3 DEF New, Command, TypeOK
    <2>10. CASE Other(i)
      BY <2>3, <2>8, <2>10 DEF Other, Command, TypeOK
    <2> QED
      BY <2>1, <2>4, <2>6, <2>7, <2>9, <2>10
  <1>3. CASE \E r \in Requests : Post(r)
    BY <1>3 DEF Post, TypeOK
  <1>4. CASE \E x \in Ids \cup Requests : Begin(x) \/ Drop(x)
    <2>1. PICK x \in Ids \cup Requests : Begin(x) \/ Drop(x)
      BY <1>4
    <2>2. CASE Drop(x)
      BY <2>2 DEF Drop, TypeOK
    <2>3. CASE Begin(x)
      <3> DEFINE k == KeyOf(x)
                 n == Session(k)
                 turn == [of |-> x, key |-> k, session |-> n, base |-> threads[k][n]]
      <3>1. x \in Known
        BY <2>3 DEF Begin, TypeOK, Known
      <3>2. k \in AllKeys /\ n \in Counts
        BY <3>1, KeyFacts
      <3>3. turns' = turns \cup {turn} /\ threads' = [threads EXCEPT ![k][n] = @ \cup {x}]
        BY <2>3 DEF Begin
      <3>4. crowded' \subseteq crowded \cup {x} \cup {u.of : u \in turns}
        BY <2>3 DEF Begin, OnThread
      <3> HIDE DEF k, n
      <3>5. turn \in Turn
        BY <3>2 DEF TypeOK, Turn
      <3>6. threads' \in [AllKeys -> [Counts -> SUBSET (Ids \cup Requests)]]
        BY <3>2, <3>3 DEF TypeOK
      <3>7. crowded' \subseteq Ids \cup Requests
        BY <3>4 DEF TypeOK, Turn
      <3>8. tasks' \subseteq tasks
        BY <2>3 DEF Begin
      <3>9. UNCHANGED <<sent, latest, seen, routeVars, requests, handled, answered>>
        BY <2>3 DEF Begin
      <3> QED
        BY <3>3, <3>5, <3>6, <3>7, <3>8, <3>9 DEF TypeOK
    <2> QED
      BY <2>1, <2>2, <2>3
  <1>5. CASE \E t \in turns : End(t) \/ Fail(t)
    <2>1. PICK t \in turns : End(t) \/ Fail(t)
      BY <1>5
    <2>2. t \in Turn
      BY DEF TypeOK
    <2>3. CASE Fail(t)
      BY <2>3 DEF Fail, TypeOK
    <2>4. CASE End(t)
      <3>1. threads' \in [AllKeys -> [Counts -> SUBSET (Ids \cup Requests)]]
        BY <2>2, <2>4 DEF End, Remembers, TypeOK, Turn
      <3>2. answered' \subseteq Ids \cup Requests
        BY <2>2, <2>4 DEF End, TypeOK, Turn
      <3> QED
        BY <2>4, <3>1, <3>2 DEF End, TypeOK
    <2> QED
      BY <2>1, <2>3, <2>4
  <1>6. CASE Crash
    <2>1. PICK loaded \in {file, Zero} :
            /\ counters' = Synced(loaded)
            /\ file' \in {loaded, Zero} \cup [Keys -> Counts]
      BY <1>6 DEF Crash
    <2>2. loaded \in [Keys -> Counts] /\ counters' \in [Keys -> Counts]
      BY <2>1, ZeroTyped, SyncedFacts DEF TypeOK
    <2>3. file' \in [Keys -> Counts] /\ handled' \in [Ids -> Nat]
      BY <1>6, <2>1, <2>2, ZeroTyped DEF Crash
    <2> QED
      BY <1>6, <2>2, <2>3 DEF Crash, TypeOK
  <1>7. CASE UNCHANGED vars
    BY <1>7 DEF vars, TypeOK
  <1> QED
    BY <1>1, <1>2, <1>3, <1>4, <1>5, <1>6, <1>7 DEF Next

----------------------------------------------------------------------------
(* Updates *)

\* What Remember cuts is too old to come again.
LEMMA RememberFacts ==
  ASSUME TypeOK, NEW i \in Ids, NEW j \in seen \cup {i}, j \notin Remember(i)
  PROVE  j + Lag < i
  <1>1. /\ j \in Nat /\ i \in Nat /\ Lag \in Nat /\ MaxSeen \in Nat /\ 2 * Lag <= MaxSeen
    BY Constants DEF TypeOK
  <1>2. ~ j + MaxSeen \div 2 >= i
    BY DEF Remember
  <1>3. Lag <= MaxSeen \div 2 /\ MaxSeen \div 2 \in Nat
    BY <1>1
  <1> QED
    BY <1>1, <1>2, <1>3

LEMMA UpdatesKept ==
  TypeOK /\ UpdatesOnce /\ ForgottenAreOld /\ [Next]_vars => UpdatesOnce' /\ ForgottenAreOld'
  <1> SUFFICES ASSUME TypeOK, UpdatesOnce, ForgottenAreOld, [Next]_vars
               PROVE  UpdatesOnce' /\ ForgottenAreOld'
    OBVIOUS
  <1> USE DEF routeVars, ghosts
  <1>1. CASE \E i \in Ids : Duplicate(i) \/ Text(i) \/ Unreadable(i) \/ Ignored(i) \/ New(i) \/ Other(i)
    <2>1. PICK i \in Ids : Duplicate(i) \/ Text(i) \/ Unreadable(i) \/ Ignored(i) \/ New(i) \/ Other(i)
      BY <1>1
    <2>2. Note(i)
      BY <2>1 DEF Duplicate, Text, Unreadable, Ignored, New, Other, Command, Handle
    <2>3. /\ sent' = sent /\ i \in 1 .. Len(sent)
          /\ latest' >= latest /\ latest' >= i /\ latest' \in Nat /\ latest \in Nat
          /\ Ids \subseteq Nat /\ Lag \in Nat /\ handled \in [Ids -> Nat]
      BY <2>2, NoteTypes, Constants DEF TypeOK
    <2>4. CASE UNCHANGED <<seen, handled>>
      BY <2>3, <2>4 DEF UpdatesOnce, ForgottenAreOld
    <2>5. CASE Command(i)
      <3>1. handled' = [handled EXCEPT ![i] = @ + 1] /\ seen' = seen /\ sent[i].kind = "command"
        BY <2>5 DEF Command, Counted
      <3>2. UpdatesOnce'
        BY <2>3, <3>1 DEF UpdatesOnce
      <3>3. ASSUME NEW j \in Ids, handled'[j] > 0
            PROVE  /\ j \in 1 .. Len(sent)
                   /\ sent[j].kind # "command" => j \in seen' \/ j + Lag <= latest'
        <4>1. CASE j = i
          BY <2>3, <3>1, <4>1
        <4>2. CASE j # i
          <5>1. handled[j] > 0
            BY <2>3, <3>1, <3>3, <4>2 DEF TypeOK
          <5>2. /\ j \in 1 .. Len(sent)
                /\ sent[j].kind # "command" => j \in seen \/ j + Lag <= latest
            BY <5>1 DEF ForgottenAreOld
          <5>3. j + Lag <= latest => j + Lag <= latest'
            BY <2>3
          <5> QED
            BY <3>1, <5>2, <5>3
        <4> QED
          BY <4>1, <4>2
      <3>4. ForgottenAreOld'
        BY <2>3, <3>3 DEF ForgottenAreOld
      <3> QED
        BY <3>2, <3>4
    <2>6. CASE Handle(i)
      <3>1. /\ i \notin seen /\ seen' = Remember(i) /\ sent[i].kind # "command"
            /\ handled' = [handled EXCEPT ![i] = @ + 1]
        BY <2>6 DEF Handle, Counted
      <3>2. ~ i + Lag <= latest
        BY <2>2, <2>3 DEF Note, Arrives
      <3>3. handled[i] = 0
        BY <2>3, <3>1, <3>2 DEF ForgottenAreOld
      <3>4. UpdatesOnce'
        BY <2>3, <3>1, <3>3 DEF UpdatesOnce
      <3>5. ASSUME NEW j \in Ids, handled'[j] > 0, sent[j].kind # "command", j \notin seen'
            PROVE  j + Lag <= latest'
        <4>1. CASE j \in seen \cup {i}
          <5>1. j + Lag < i
            BY <3>1, <3>5, <4>1, RememberFacts
          <5> QED
            BY <2>3, <5>1
        <4>2. CASE j \notin seen \cup {i}
          <5>1. handled[j] > 0 /\ j + Lag <= latest
            BY <2>3, <3>1, <3>5, <4>2 DEF ForgottenAreOld
          <5> QED
            BY <2>3, <5>1
        <4> QED
          BY <4>1, <4>2
      <3>6. ASSUME NEW j \in Ids, handled'[j] > 0 PROVE j \in 1 .. Len(sent)
        BY <2>3, <3>1, <3>6 DEF ForgottenAreOld
      <3>7. ForgottenAreOld'
        BY <2>3, <3>5, <3>6 DEF ForgottenAreOld
      <3> QED
        BY <3>4, <3>7
    <2> QED
      BY <2>1, <2>4, <2>5, <2>6 DEF Duplicate, Text, Unreadable, Ignored, New, Other
  <1>2. CASE Crash
    <2>1. sent' = sent /\ handled' = [i \in Ids |-> 0] /\ 1 .. Len(sent) \subseteq Ids
      BY <1>2, Constants DEF Crash, TypeOK, Ids
    <2> QED
      BY <2>1 DEF UpdatesOnce, ForgottenAreOld
  <1>3. CASE Send
    <2>1. PICK m \in Update : sent' = Append(sent, m)
      BY <1>3 DEF Send
    <2>2. /\ Len(sent) \in Nat /\ Len(sent) < MaxUpdates /\ handled \in [Ids -> Nat]
          /\ UNCHANGED <<latest, seen, handled>>
      BY <1>3 DEF Send, TypeOK
    <2>3. /\ Len(sent') = Len(sent) + 1
          /\ \A i \in 1 .. Len(sent) : sent'[i] = sent[i]
      BY <2>1, <2>2 DEF TypeOK
    <2>4. Len(sent) + 1 \in Ids /\ ~ handled[Len(sent) + 1] > 0
      BY <2>2, Constants DEF Ids, ForgottenAreOld
    <2>5. \A i \in 1 .. Len(sent') : i \in 1 .. Len(sent) \/ i = Len(sent) + 1
      BY <2>2, <2>3
    <2>6. UpdatesOnce'
      <3>1. ASSUME NEW i \in 1 .. Len(sent'), sent'[i].kind # "command" PROVE handled'[i] <= 1
        <4>1. CASE i \in 1 .. Len(sent)
          BY <2>2, <2>3, <3>1, <4>1 DEF UpdatesOnce
        <4>2. CASE i = Len(sent) + 1
          BY <2>2, <2>4, <4>2
        <4> QED
          BY <2>5, <4>1, <4>2
      <3> QED
        BY <3>1 DEF UpdatesOnce
    <2>7. 1 .. Len(sent) \subseteq 1 .. Len(sent')
      BY <2>2, <2>3
    <2>8. ForgottenAreOld'
      BY <2>2, <2>3, <2>7 DEF ForgottenAreOld
    <2> QED
      BY <2>6, <2>8
  <1>4. CASE UNCHANGED <<sent, latest, seen, handled>>
    BY <1>4 DEF UpdatesOnce, ForgottenAreOld
  <1>5. CASE \/ (\E r \in Requests : Post(r)) \/ UNCHANGED vars
             \/ (\E x \in Ids \cup Requests : Begin(x) \/ Drop(x))
             \/ (\E t \in turns : End(t) \/ Fail(t))
    <2>1. UNCHANGED <<sent, latest, seen, handled>>
      BY <1>5 DEF Post, Begin, Drop, End, Fail, vars
    <2> QED
      BY <1>4, <2>1
  <1> QED
    BY <1>1, <1>2, <1>3, <1>5 DEF Next

----------------------------------------------------------------------------
(* Threads *)

\* What is known of a message stays so while updates are sent.
LEMMA KnownStays ==
  ASSUME TypeOK, [Next]_vars
  PROVE  /\ Known \subseteq Known'
         /\ \A x \in Known : KeyOf(x)' = KeyOf(x)
  <1> USE DEF routeVars, ghosts
  <1>1. CASE Send
    <2>1. PICK m \in Update : sent' = Append(sent, m)
      BY <1>1 DEF Send
    <2>2. /\ Len(sent') = Len(sent) + 1 /\ Len(sent) \in Nat
          /\ \A i \in 1 .. Len(sent) : sent'[i] = sent[i]
      BY <2>1 DEF TypeOK
    <2> QED
      BY <2>2 DEF Known, KeyOf
  <1>2. CASE sent' = sent
    BY <1>2 DEF Known, KeyOf
  <1>3. CASE Next /\ ~ Send
    <2>1. sent' = sent
      BY <1>3 DEF Next, Duplicate, Text, Unreadable, Ignored, New, Other, Command, Handle, Note, Post, Begin, Drop,
                  End, Fail, Crash
    <2> QED
      BY <1>2, <2>1
  <1>4. CASE UNCHANGED vars
    BY <1>2, <1>4 DEF vars
  <1> QED
    BY <1>1, <1>3, <1>4

\* A step that leaves turns, counters, threads and the histories alone.
LEMMA ThreadsStay ==
  ASSUME TypeOK, FreshAbove, TurnsInPlace, OverlapsKnown, HeldByTurns, [Next]_vars,
         UNCHANGED <<turns, counters, threads, answered, crowded>>
  PROVE  FreshAbove' /\ TurnsInPlace' /\ OverlapsKnown' /\ HeldByTurns'
  <1>1. Known \subseteq Known' /\ \A x \in Known : KeyOf(x)' = KeyOf(x)
    BY KnownStays
  <1>2. TurnsInPlace'
    BY <1>1 DEF TurnsInPlace
  <1>3. ASSUME NEW x \in answered \ crowded PROVE \E n \in Counts : Held(x, n)'
    <2>1. x \in Known /\ KeyOf(x)' = KeyOf(x)
      BY <1>1 DEF HeldByTurns
    <2>2. PICK n \in Counts : Held(x, n)
      BY DEF HeldByTurns
    <2>3. Held(x, n)'
      BY <2>1, <2>2 DEF Held
    <2> QED
      BY <2>3
  <1>4. HeldByTurns'
    BY <1>1, <1>3 DEF HeldByTurns
  <1> QED
    BY <1>2, <1>4 DEF FreshAbove, OverlapsKnown

LEMMA BeginKeeps ==
  ASSUME TypeOK, FreshAbove, TurnsInPlace, OverlapsKnown, HeldByTurns,
         NEW x \in Ids \cup Requests, Begin(x)
  PROVE  FreshAbove' /\ TurnsInPlace' /\ OverlapsKnown' /\ HeldByTurns'
  <1> DEFINE k == KeyOf(x)
             n == Session(k)
             turn == [of |-> x, key |-> k, session |-> n, base |-> threads[k][n]]
  <1>1. x \in Known
    BY DEF Begin, TypeOK, Known
  <1>2. k \in AllKeys /\ n \in Counts /\ (k \in Keys => n = counters[k])
    BY <1>1, KeyFacts DEF Session
  <1>3. turns' = turns \cup {turn} /\ threads' = [threads EXCEPT ![k][n] = @ \cup {x}]
    BY DEF Begin
  <1>4. crowded \subseteq crowded'
    BY DEF Begin
  <1>5. ASSUME NEW u \in turns, u.key = k, u.session = n
        PROVE  x \in crowded' /\ u.of \in crowded'
    <2>1. u \in OnThread(turn)
      BY <1>5 DEF OnThread
    <2> QED
      BY <2>1 DEF Begin
  <1>6. counters' = counters /\ sent' = sent /\ answered' = answered
    BY DEF Begin, routeVars
  <1>7. Known' = Known /\ \A y \in Known : KeyOf(y)' = KeyOf(y)
    BY <1>6 DEF Known, KeyOf
  <1>8. /\ turn.of = x /\ turn.key = k /\ turn.session = n /\ turn.base = threads[k][n]
        /\ KeyOf(x)' = k
    BY <1>1, <1>7
  <1> HIDE DEF k, n, turn
  <1>9. threads \in [AllKeys -> [Counts -> SUBSET (Ids \cup Requests)]] /\ counters \in [Keys -> Counts]
    BY DEF TypeOK
  <1>10. FreshAbove'
    <2> SUFFICES ASSUME NEW l \in Keys, NEW m \in Counts, m > counters[l]
                 PROVE  threads'[l][m] = {}
      BY <1>6 DEF FreshAbove
    <2>1. ~ (l = k /\ m = n)
      BY <1>2, <1>9, Constants
    <2>2. threads'[l][m] = threads[l][m]
      BY <1>2, <1>3, <1>9, <2>1 DEF AllKeys
    <2> QED
      BY <2>2 DEF FreshAbove
  <1>11. TurnsInPlace'
    <2>1. \A t \in turns : t.of \in Known' /\ t.key = KeyOf(t.of)' /\ (t.key \in Keys => t.session <= counters'[t.key])
      BY <1>6, <1>7 DEF TurnsInPlace
    <2>2. turn.key \in Keys => turn.session <= counters'[turn.key]
      BY <1>2, <1>6, <1>8, <1>9, Constants
    <2> QED
      BY <1>1, <1>3, <1>7, <1>8, <2>1, <2>2 DEF TurnsInPlace
  <1>12. OverlapsKnown'
    BY <1>3, <1>4, <1>5, <1>8 DEF OverlapsKnown
  <1>13. ASSUME NEW y \in answered \ crowded' PROVE \E m \in Counts : Held(y, m)'
    <2>1. y \in Known /\ KeyOf(y)' = KeyOf(y) /\ y \in answered \ crowded
      BY <1>4, <1>7, <1>13 DEF HeldByTurns
    <2>2. PICK m \in Counts : Held(y, m)
      BY <2>1 DEF HeldByTurns
    <2>3. KeyOf(y) \in AllKeys
      BY <2>1, KeyFacts
    <2>4. y \in threads'[KeyOf(y)][m]
      BY <1>2, <1>3, <1>9, <2>2, <2>3 DEF Held
    <2>5. turn.key = KeyOf(y) /\ turn.session = m => y \in turn.base
      BY <1>8, <2>2 DEF Held
    <2>6. Held(y, m)'
      BY <1>3, <2>1, <2>2, <2>4, <2>5 DEF Held
    <2> QED
      BY <2>6
  <1>14. HeldByTurns'
    BY <1>6, <1>7, <1>13 DEF HeldByTurns
  <1> QED
    BY <1>10, <1>11, <1>12, <1>14

LEMMA EndKeeps ==
  ASSUME TypeOK, FreshAbove, TurnsInPlace, OverlapsKnown, HeldByTurns,
         NEW t \in turns, End(t)
  PROVE  FreshAbove' /\ TurnsInPlace' /\ OverlapsKnown' /\ HeldByTurns'
  <1> DEFINE k == t.key
             n == t.session
  <1>1. t.of \in Known /\ k = KeyOf(t.of) /\ k \in AllKeys /\ n \in Counts
        /\ (k \in Keys => n <= counters[k])
    BY DEF TurnsInPlace, TypeOK, Turn
  <1>2. turns' = turns \ {t} /\ threads' = [threads EXCEPT ![k][n] = t.base \cup {t.of}]
    BY DEF End, Remembers
  <1>3. /\ counters' = counters /\ sent' = sent /\ crowded' = crowded
        /\ answered' = answered \cup {t.of}
    BY DEF End, routeVars
  <1>4. Known' = Known /\ \A y \in Known : KeyOf(y)' = KeyOf(y)
    BY <1>3 DEF Known, KeyOf
  <1>5. threads \in [AllKeys -> [Counts -> SUBSET (Ids \cup Requests)]] /\ counters \in [Keys -> Counts]
    BY DEF TypeOK
  <1> HIDE DEF k, n
  <1>6. FreshAbove'
    <2> SUFFICES ASSUME NEW l \in Keys, NEW m \in Counts, m > counters[l]
                 PROVE  threads'[l][m] = {}
      BY <1>3 DEF FreshAbove
    <2>1. ~ (l = k /\ m = n)
      <3>1. m \in Nat /\ n \in Nat /\ counters[l] \in Nat
        BY <1>1, <1>5, Constants
      <3>2. l = k => n <= counters[l]
        BY <1>1
      <3> QED
        BY <3>1, <3>2
    <2>2. threads'[l][m] = threads[l][m]
      BY <1>1, <1>2, <1>5, <2>1 DEF AllKeys
    <2> QED
      BY <2>2 DEF FreshAbove
  <1>7. TurnsInPlace' /\ OverlapsKnown'
    BY <1>2, <1>3, <1>4 DEF TurnsInPlace, OverlapsKnown
  <1>8. ASSUME NEW y \in answered' \ crowded PROVE \E m \in Counts : Held(y, m)'
    <2>1. y \in Known /\ KeyOf(y)' = KeyOf(y)
      BY <1>1, <1>3, <1>4 DEF HeldByTurns
    <2>2. KeyOf(y) \in AllKeys
      BY <2>1, KeyFacts
    <2>3. CASE y = t.of
      <3>1. y \in threads'[k][n]
        BY <1>1, <1>2, <1>5, <2>3
      <3>2. ASSUME NEW u \in turns', u.key = k, u.session = n PROVE FALSE
        <4>1. u \in turns /\ u # t /\ t.key = k /\ t.session = n
          BY <1>2, <3>2 DEF k, n
        <4>2. t.of \in crowded
          BY <3>2, <4>1 DEF OverlapsKnown
        <4> QED
          BY <1>8, <2>3, <4>2
      <3>3. Held(y, n)'
        BY <1>1, <2>1, <2>3, <3>1, <3>2 DEF Held
      <3> QED
        BY <1>1, <3>3
    <2>4. CASE y # t.of
      <3>1. y \in answered \ crowded
        BY <1>3, <1>8, <2>4
      <3>2. PICK m \in Counts : Held(y, m)
        BY <3>1 DEF HeldByTurns
      <3>3. y \in threads'[KeyOf(y)][m]
        <4>1. CASE KeyOf(y) = k /\ m = n
          <5>1. y \in t.base
            BY <3>2, <4>1 DEF Held, k, n
          <5> QED
            BY <1>1, <1>2, <1>5, <4>1, <5>1
        <4>2. CASE ~ (KeyOf(y) = k /\ m = n)
          BY <1>1, <1>2, <1>5, <2>2, <3>2, <4>2 DEF Held
        <4> QED
          BY <4>1, <4>2
      <3>4. Held(y, m)'
        BY <1>2, <2>1, <3>2, <3>3 DEF Held
      <3> QED
        BY <3>4
    <2> QED
      BY <2>3, <2>4
  <1>9. HeldByTurns'
    BY <1>1, <1>3, <1>4, <1>8 DEF HeldByTurns
  <1> QED
    BY <1>6, <1>7, <1>9

\* Fewer turns, and counters that have not fallen below a thread: /new, a
\* failure of the agent, a crash.
LEMMA FewerTurnsKeep ==
  ASSUME TypeOK, FreshAbove, TurnsInPlace, OverlapsKnown, HeldByTurns,
         turns' \subseteq turns, FreshAbove', UNCHANGED <<sent, threads, answered, crowded>>,
         \A t \in turns' : t.key \in Keys => t.session <= counters'[t.key]
  PROVE  TurnsInPlace' /\ OverlapsKnown' /\ HeldByTurns'
  <1>1. Known' = Known /\ \A x \in Known : KeyOf(x)' = KeyOf(x)
    BY DEF Known, KeyOf
  <1>2. TurnsInPlace' /\ OverlapsKnown'
    BY <1>1 DEF TurnsInPlace, OverlapsKnown
  <1>3. ASSUME NEW x \in answered \ crowded PROVE \E n \in Counts : Held(x, n)'
    <2>1. KeyOf(x)' = KeyOf(x)
      BY <1>1 DEF HeldByTurns
    <2>2. PICK n \in Counts : Held(x, n)
      BY DEF HeldByTurns
    <2>3. Held(x, n)'
      BY <2>1, <2>2 DEF Held
    <2> QED
      BY <2>3
  <1> QED
    BY <1>1, <1>2, <1>3 DEF HeldByTurns

LEMMA ThreadsKept ==
  TypeOK /\ FreshAbove /\ TurnsInPlace /\ OverlapsKnown /\ HeldByTurns /\ [Next]_vars
    => FreshAbove' /\ TurnsInPlace' /\ OverlapsKnown' /\ HeldByTurns'
  <1> SUFFICES ASSUME TypeOK, FreshAbove, TurnsInPlace, OverlapsKnown, HeldByTurns, [Next]_vars
               PROVE  FreshAbove' /\ TurnsInPlace' /\ OverlapsKnown' /\ HeldByTurns'
    OBVIOUS
  <1> USE DEF routeVars, ghosts
  <1>1. CASE \E i \in Ids : New(i)
    <2>1. PICK i \in Ids : New(i)
      BY <1>1
    <2>2. sent[i] \in Update
      BY <2>1, NoteTypes DEF New, Command
    <2> DEFINE k == sent[i].key
    <2>3. /\ k \in Keys /\ counters' = [counters EXCEPT ![k] = @ + 1]
          /\ UNCHANGED <<sent, turns, threads, answered, crowded>>
      BY <2>1, <2>2 DEF New, Command, Note, Reset, Update
    <2>4. /\ counters \in [Keys -> Counts]
          /\ \A l \in Keys : counters'[l] \in Nat /\ counters'[l] >= counters[l] /\ counters[l] \in Nat
      <3> HIDE DEF k
      <3>1. counters \in [Keys -> Counts]
        BY DEF TypeOK
      <3>2. \A l \in Keys : counters[l] \in Nat
        BY <3>1, Constants
      <3>3. ASSUME NEW l \in Keys PROVE counters'[l] = IF l = k THEN counters[l] + 1 ELSE counters[l]
        BY <2>3, <3>1
      <3>4. ASSUME NEW l \in Keys PROVE counters'[l] \in Nat /\ counters'[l] >= counters[l]
        BY <3>2, <3>3
      <3> QED
        BY <3>1, <3>2, <3>4
    <2> HIDE DEF k
    <2>5. FreshAbove'
      <3> SUFFICES ASSUME NEW l \in Keys, NEW n \in Counts, n > counters'[l]
                   PROVE  threads'[l][n] = {}
        BY DEF FreshAbove
      <3>1. n \in Nat
        BY Constants
      <3>2. n > counters[l]
        BY <2>4, <3>1
      <3> QED
        BY <2>3, <3>2 DEF FreshAbove
    <2>6. \A t \in turns : t.session \in Nat
      BY Constants DEF TypeOK, Turn
    <2>7. \A t \in turns : t.key \in Keys => t.session <= counters'[t.key]
      BY <2>4, <2>6 DEF TurnsInPlace
    <2> QED
      BY <2>3, <2>5, <2>7, FewerTurnsKeep
  <1>2. CASE \E x \in Ids \cup Requests : Begin(x)
    BY <1>2, BeginKeeps
  <1>3. CASE \E t \in turns : End(t)
    BY <1>3, EndKeeps
  <1>4. CASE \E t \in turns : Fail(t)
    <2>1. turns' \subseteq turns /\ UNCHANGED <<counters, sent, threads, answered, crowded>>
      BY <1>4 DEF Fail
    <2> QED
      BY <2>1, FewerTurnsKeep DEF FreshAbove, TurnsInPlace
  <1>5. CASE Crash
    <2>1. file \in [Keys -> Counts]
      BY DEF TypeOK
    <2>2. PICK loaded \in [Keys -> Counts] : counters' = Synced(loaded)
      BY <1>5, <2>1, ZeroTyped DEF Crash
    <2>3. turns' = {} /\ UNCHANGED <<sent, threads, answered, crowded>>
      BY <1>5 DEF Crash
    <2>4. FreshAbove'
      BY <2>2, <2>3, SyncedFacts DEF FreshAbove
    <2> QED
      BY <2>3, <2>4, FewerTurnsKeep
  <1>6. CASE UNCHANGED <<turns, counters, threads, answered, crowded>>
    BY <1>6, ThreadsStay
  <1>7. CASE \/ Send \/ UNCHANGED vars
             \/ \E i \in Ids : Duplicate(i) \/ Text(i) \/ Unreadable(i) \/ Ignored(i) \/ Other(i)
             \/ \E r \in Requests : Post(r)
             \/ \E x \in Ids \cup Requests : Drop(x)
    <2>1. UNCHANGED <<turns, counters, threads, answered, crowded>>
      BY <1>7 DEF Send, Duplicate, Text, Unreadable, Ignored, Other, Command, Post, Drop, vars
    <2> QED
      BY <1>6, <2>1
  <1> QED
    BY <1>1, <1>2, <1>3, <1>4, <1>5, <1>7 DEF Next

----------------------------------------------------------------------------
(* The theorems *)

LEMMA InitCInv == Init => CInv
  <1> SUFFICES ASSUME Init PROVE CInv
    OBVIOUS
  <1>1. TypeOK
    BY InitTypeOK
  <1>2. UpdatesOnce /\ ForgottenAreOld /\ FreshAbove
    BY DEF Init, UpdatesOnce, ForgottenAreOld, FreshAbove, AllKeys
  <1>3. TurnsInPlace /\ OverlapsKnown /\ HeldByTurns
    BY DEF Init, TurnsInPlace, OverlapsKnown, HeldByTurns
  <1> QED
    BY <1>1, <1>2, <1>3 DEF CInv

\* The invariant of the chats: updates, counters, threads and turns agree, over
\* any crashes (channel.py: _handle_message; router.py: get_thread_id).
THEOREM ChatInvariant == Spec => []CInv
  <1>1. CInv /\ [Next]_vars => CInv'
    BY TypeKept, UpdatesKept, ThreadsKept DEF CInv
  <1> QED
    BY <1>1, InitCInv, PTL DEF Spec

\* Every reachable state is well typed.
THEOREM ChatsTypeCorrect == Spec => []TypeOK
  <1>1. CInv => TypeOK
    BY DEF CInv
  <1> QED
    BY <1>1, ChatInvariant, PTL

\* No message is handled twice by a process, as long as it remembers twice as
\* many updates as Telegram may deliver again (channel.py: _seen_updates).  The
\* commands, /new among them, are not messages in this sense: nothing looks at
\* their ids.
THEOREM UpdatesHandledOnce == Spec => []UpdatesOnce
  <1>1. CInv => UpdatesOnce
    BY DEF CInv
  <1> QED
    BY <1>1, ChatInvariant, PTL

\* An answered message stays in a thread of its chat, unless its turn overlapped
\* with another there (router.py: handle_message).
THEOREM AnswersStay == Spec => []NothingForgotten
  <1>1. CInv => NothingForgotten
    BY DEF CInv, HeldByTurns, Held, NothingForgotten
  <1> QED
    BY <1>1, ChatInvariant, PTL

\* /new leads to an empty thread, whatever was under way and whatever a crash
\* has left of the counters (router.py: reset_session).
THEOREM ResetsAreFresh == Spec => ResetStartsFresh
  <1>1. CInv /\ [Next]_vars
          => [\A i \in Ids : New(i) => threads[sent[i].key][counters'[sent[i].key]] = {}]_vars
    <2> SUFFICES ASSUME CInv, NEW i \in Ids, New(i)
                 PROVE  threads[sent[i].key][counters'[sent[i].key]] = {}
      OBVIOUS
    <2>1. TypeOK /\ FreshAbove
      BY DEF CInv
    <2>2. sent[i].key \in Keys
      BY <2>1, NoteTypes DEF New, Command, Update
    <2> DEFINE k == sent[i].key
    <2>3. counters' = [counters EXCEPT ![k] = @ + 1] /\ counters[k] + 1 \in Counts
      BY DEF New, Reset
    <2>4. counters \in [Keys -> Counts] /\ counters[k] \in Nat
      BY <2>1, <2>2, Constants DEF TypeOK
    <2>5. counters'[k] \in Counts /\ counters'[k] > counters[k]
      BY <2>2, <2>3, <2>4
    <2> QED
      BY <2>1, <2>2, <2>5 DEF FreshAbove
  <1> QED
    BY <1>1, ChatInvariant, PTL DEF Spec, ResetStartsFresh
=============================================================================
