--------------------------- MODULE ChatSessions ---------------------------
(***************************************************************************)
(* How a message of a chat reaches the agent.  The Telegram channel drops   *)
(* updates it has seen and hands the others to a task each; the router      *)
(* numbers the sessions of a key (channel, chat and user), keeps the        *)
(* numbers in a JSON file and runs the agent on the thread of the current   *)
(* session; the agent framework keeps the threads in checkpoints.  A        *)
(* request of the API channel takes the same way under a key of its own.    *)
(***************************************************************************)
EXTENDS Naturals, Sequences, FiniteSets, FiniteSetsExt

CONSTANTS Keys,          \* channel_chat_user of the Telegram chats
          Requests,      \* requests to the API channel, each a chat of its own
          MaxSeen,       \* MAX_SEEN_UPDATES
          Lag,           \* updates that Telegram may deliver again
          MaxUpdates     \* bound on the updates sent

\* Telegram hands out at most 100 updates at a time and confirms them with the
\* next call; MAX_SEEN_UPDATES is 1000.
ASSUME ChatAssumption ==
  /\ MaxSeen \in Nat /\ Lag \in Nat /\ MaxUpdates \in Nat
  /\ 2 * Lag <= MaxSeen
  /\ Keys \cap Requests = {}

Ids == 1 .. MaxUpdates
Counts == 0 .. MaxUpdates         \* bound on the sessions of a chat, redelivered resets included
Zero == [k \in Keys |-> 0]         \* what a file that is missing or does not parse is read as
Update == [key : Keys, kind : {"text", "command", "ignored"}]

VARIABLES
  sent,      \* the updates at Telegram, in the order of their ids
  latest,    \* the last id delivered to this process
  seen,      \* _seen_updates
  tasks,     \* messages and requests whose task has not started
  turns,     \* agent invocations under way
  counters,  \* _session_counters
  file,      \* session_counters.json
  threads,   \* the checkpoints: what each thread of a key remembers
  requests,  \* API requests that wait for the end of their answer
  handled,   \* history: how often this process has handled an update
  answered,  \* history: messages whose turn has come to its end
  crowded    \* history: messages whose turn overlapped another on its thread

vars == <<sent, latest, seen, tasks, turns, counters, file, threads, requests, handled, answered, crowded>>
ghosts == <<answered, crowded>>
routeVars == <<counters, file>>

AllKeys == Keys \cup Requests
Turn == [of : Ids \cup Requests, key : AllKeys, session : Counts, base : SUBSET (Ids \cup Requests)]

Init ==
  /\ sent = <<>>
  /\ latest = 0
  /\ seen = {}
  /\ tasks = {}
  /\ turns = {}
  /\ counters = [k \in Keys |-> 0]
  /\ file = [k \in Keys |-> 0]
  /\ threads = [k \in AllKeys |-> [n \in Counts |-> {}]]
  /\ requests = {}
  /\ handled = [i \in Ids |-> 0]
  /\ answered = {} /\ crowded = {}

-----------------------------------------------------------------------------
(* Telegram *)

Send ==
  /\ Len(sent) < MaxUpdates
  /\ \E m \in Update : sent' = Append(sent, m)
  /\ UNCHANGED <<latest, seen, tasks, turns, routeVars, threads, requests, handled, ghosts>>

\* An update comes in its turn, or once more while it is not confirmed.
Arrives(i) == i \in 1 .. Len(sent) /\ i <= latest + 1 /\ i + Lag > latest

\* Mutant of Remember: what is cut are the newest.
RememberOldest(i) ==
  LET all == seen \cup {i}
  IN IF Cardinality(all) > MaxSeen THEN {j \in all : j + MaxSeen \div 2 < i} ELSE all

\* _handle_message: the ids seen, cut to the newest half when they are too many.
Remember(i) ==
  LET all == seen \cup {i}
  IN IF Cardinality(all) > MaxSeen THEN {j \in all : j + MaxSeen \div 2 >= i} ELSE all

Note(i) ==
  /\ Arrives(i)
  /\ latest' = Max({latest, i})
  /\ UNCHANGED sent

Duplicate(i) ==
  /\ Note(i)
  /\ sent[i].kind # "command" /\ i \in seen
  /\ UNCHANGED <<seen, tasks, turns, routeVars, threads, requests, handled, ghosts>>

Counted(i) == handled' = [handled EXCEPT ![i] = @ + 1]

Handle(i) ==
  /\ Note(i)
  /\ sent[i].kind # "command" /\ i \notin seen
  /\ seen' = Remember(i)
  /\ Counted(i)

\* A task in the background for a message to the agent: a text, or a voice or a
\* photo that has been fetched.
Text(i) ==
  /\ Handle(i)
  /\ sent[i].kind = "text"
  /\ tasks' = tasks \cup {i}
  /\ UNCHANGED <<turns, routeVars, threads, requests, ghosts>>

\* A voice or a photo that cannot be fetched is lost: its id is kept.
Unreadable(i) ==
  /\ Handle(i)
  /\ sent[i].kind = "text"
  /\ UNCHANGED <<tasks, turns, routeVars, threads, requests, ghosts>>

\* A text for the Claude Code mode.
Ignored(i) ==
  /\ Handle(i)
  /\ sent[i].kind = "ignored"
  /\ UNCHANGED <<tasks, turns, routeVars, threads, requests, ghosts>>

\* JsonStore swallows an OSError: the file stays as it was, or is cut off and no
\* longer parses.
Saved(old, new) == {new, old, Zero}

\* reset_session
Reset(k) ==
  /\ counters[k] + 1 \in Counts
  /\ counters' = [counters EXCEPT ![k] = @ + 1]
  /\ file' \in Saved(file, counters')

\* Commands and buttons have handlers of their own, which look at no id: one
\* that is delivered again is handled again.
Command(i) ==
  /\ Note(i)
  /\ sent[i].kind = "command"
  /\ handled[i] < MaxUpdates                  \* bound
  /\ Counted(i)
  /\ UNCHANGED <<seen, tasks, turns, threads, requests, ghosts>>

\* /new: _cmd_new awaits the router.
New(i) == Command(i) /\ Reset(sent[i].key)

\* /new of someone who is not allowed, or something else.
Other(i) == Command(i) /\ UNCHANGED routeVars

-----------------------------------------------------------------------------
(* The API channel *)

\* _handle_chat_completions: a fresh request id is chat and user in one.  The
\* handler waits for the end of its queue; the callback has no hand in it.
Post(r) ==
  /\ r \notin requests \cup tasks /\ threads[r][0] = {}
  /\ requests' = requests \cup {r}
  /\ tasks' = tasks \cup {r}
  /\ UNCHANGED <<sent, latest, seen, turns, routeVars, threads, handled, ghosts>>

-----------------------------------------------------------------------------
(* The router and the agent *)

KeyOf(x) == IF x \in Requests THEN x ELSE sent[x].key

\* get_thread_id; only Telegram resets a session.
Session(k) == IF k \in Keys THEN counters[k] ELSE 0

OnThread(t) == {u \in turns : u.key = t.key /\ u.session = t.session}

\* handle_message up to ainvoke, which reads the thread and writes it back
\* with the message.
Begin(x) ==
  LET k == KeyOf(x)
      n == Session(k)
      turn == [of |-> x, key |-> k, session |-> n, base |-> threads[k][n]]
  IN /\ x \in tasks
     /\ tasks' = tasks \ {x}
     /\ turns' = turns \cup {turn}
     /\ threads' = [threads EXCEPT ![k][n] = @ \cup {x}]
     /\ crowded' = IF OnThread(turn) = {} THEN crowded
                   ELSE crowded \cup {x} \cup {u.of : u \in OnThread(turn)}
     /\ UNCHANGED <<sent, latest, seen, routeVars, requests, handled, answered>>

\* The router has nothing to say to it: the user is not allowed, the trigger of
\* a group or a text is missing, or it is a /dream command.
Drop(x) ==
  /\ x \in tasks
  /\ tasks' = tasks \ {x}
  /\ UNCHANGED <<sent, latest, seen, turns, routeVars, threads, requests, handled, ghosts>>

\* Mutant of Remembers: the thread is looked up when the agent has answered.
RemembersAtEnd(t) ==
  threads' = [threads EXCEPT ![t.key][Session(t.key)] = t.base \cup {t.of}]

\* The last checkpoint of a turn: what it began with and its own message.
Remembers(t) ==
  threads' = [threads EXCEPT ![t.key][t.session] = t.base \cup {t.of}]

\* The agent answers, and the channel sends the answer; the answer to a
\* request goes nowhere.
End(t) ==
  /\ t \in turns
  /\ turns' = turns \ {t}
  /\ Remembers(t)
  /\ answered' = answered \cup {t.of}
  /\ UNCHANGED <<sent, latest, seen, tasks, routeVars, requests, handled, crowded>>

\* The agent raises, and the channel sends an apology.
Fail(t) ==
  /\ t \in turns
  /\ turns' = turns \ {t}
  /\ UNCHANGED <<sent, latest, seen, tasks, routeVars, threads, requests, handled, ghosts>>

-----------------------------------------------------------------------------
(* Restart *)

\* Mutant of Synced: the checkpoints are not looked at.
SyncedNot(loaded) == loaded

\* _sync_counters_with_checkpoints: no counter is below a thread there is.
Synced(loaded) ==
  [k \in Keys |-> Max({loaded[k]} \cup {n \in Counts : threads[k][n] # {}})]

\* A crash while /new saves the counters leaves a file that does not parse.
InNew == \E i \in Ids : Arrives(i) /\ sent[i].kind = "command"

\* Each counter that is raised is saved with those before it, if it can be saved.
Crash ==
  /\ \E loaded \in {file} \cup (IF InNew THEN {Zero} ELSE {}) :
       /\ counters' = Synced(loaded)
       /\ IF counters' = loaded THEN file' = loaded
          ELSE file' \in {Zero} \cup {f \in [Keys -> Counts] :
                                      \A k \in Keys : f[k] \in {loaded[k], counters'[k]}}
  /\ seen' = {} /\ handled' = [i \in Ids |-> 0]
  /\ tasks' = {} /\ turns' = {} /\ requests' = {}
  /\ UNCHANGED <<sent, latest, threads, ghosts>>

-----------------------------------------------------------------------------
Next ==
  \/ Send
  \/ \E i \in Ids : Duplicate(i) \/ Text(i) \/ Unreadable(i) \/ Ignored(i) \/ New(i) \/ Other(i)
  \/ \E r \in Requests : Post(r)
  \/ \E x \in Ids \cup Requests : Begin(x) \/ Drop(x)
  \/ \E t \in turns : End(t) \/ Fail(t)
  \/ Crash

Spec == Init /\ [][Next]_vars

\* Tasks run, and every call of the agent comes back.
FairSpec == Spec
  /\ WF_vars(\E x \in Ids \cup Requests : Begin(x) \/ Drop(x))
  /\ WF_vars(\E t \in turns : End(t) \/ Fail(t))

-----------------------------------------------------------------------------
TypeOK ==
  /\ sent \in Seq(Update) /\ Len(sent) <= MaxUpdates
  /\ latest \in 0 .. Len(sent)
  /\ seen \subseteq Ids
  /\ tasks \subseteq 1 .. Len(sent) \cup Requests
  /\ turns \subseteq Turn
  /\ counters \in [Keys -> Counts] /\ file \in [Keys -> Counts]
  /\ threads \in [AllKeys -> [Counts -> SUBSET (Ids \cup Requests)]]
  /\ requests \subseteq Requests
  /\ handled \in [Ids -> Nat]
  /\ answered \subseteq Ids \cup Requests /\ crowded \subseteq Ids \cup Requests

\* A message that Telegram delivers again is not handled again by the same
\* process, though only the newest ids are kept (channel.py: _seen_updates).
\* Commands are excepted, /new among them: their handlers (channel.py:105, 225)
\* do not look at the id, and a redelivered one is handled again.
UpdatesOnce ==
  \A i \in 1 .. Len(sent) : sent[i].kind # "command" => handled[i] <= 1

\* /new leads to a thread that remembers nothing, whatever was under way and
\* though the counters of every chat may have been lost by a crash or never have
\* reached the disk (router.py: reset_session, _sync_counters_with_checkpoints).
ResetStartsFresh ==
  [][\A i \in Ids : New(i) => threads[sent[i].key][counters'[sent[i].key]] = {}]_vars

\* A message that the agent has answered stays in a thread of its chat, unless
\* its turn overlapped with another on that thread, of which the last to end
\* overwrites the other (router.py:203).
NothingForgotten ==
  \A x \in answered \ crowded : \E n \in Counts : x \in threads[KeyOf(x)][n]

\* What _non_stream_response says of itself: "Collect all chunks and return a
\* single JSON response" (api.py:289): a request comes to an end.
RequestEnds == \A r \in Requests : r \in requests ~> r \notin requests
=============================================================================
