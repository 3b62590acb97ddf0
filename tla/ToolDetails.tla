----------------------------- MODULE ToolDetails -----------------------------
(***************************************************************************)
(* The buttons under an answer that show what the agent did: the details   *)
(* are kept in memory under a key that counts from one in every process,    *)
(* the newest ones only, while the buttons stay in the chat.                *)
(***************************************************************************)
EXTENDS AnswerEvents

CONSTANTS MaxStored,     \* _max_stored
          MaxBlocks      \* bound on the blocks of an answer

ASSUME DetailsAssumption == MaxStored \in Nat \ {0} /\ MaxBlocks \in Nat

VARIABLES
  printed,    \* the blocks that the process of the answer has printed
  counter,    \* _counter
  details,    \* _details: by key, the items and whether messages with them are listed
  offers      \* the buttons in the chat; own: of this process

storeVars == <<counter, details, offers>>
detailVars == <<printed, storeVars>>

Item  == {Thinking} \cup {Call(c, o) : c \in Calls, o \in Outcomes} \cup {Unknown(c, o) : c \in Calls, o \in Outcomes}
Offer == [key : Nat \ {0}, items : Seq(Item), face : {"expand", "collapse"}, own : BOOLEAN]

DetailsInit == printed = <<>> /\ counter = 0 /\ details = <<>> /\ offers = {}

-----------------------------------------------------------------------------
(* What is printed *)

\* A call is made once and answered at most once, after it was made; a result
\* may come without its call.
Admissible(raw) ==
  \A i, j \in DOMAIN raw : i < j /\ raw[i].id = raw[j].id /\ raw[i].id # "" =>
    raw[i].kind = "use" /\ raw[j].kind = "result"

PrintBlock(b) ==
  /\ Len(printed) < MaxBlocks
  /\ Admissible(Append(printed, b))
  /\ printed' = Append(printed, b)
  /\ UNCHANGED storeVars

\* The lines of an output: the process may be cut off before the last one, and
\* others may have got in; an old claude prints a single object.
Lines(raw) == [i \in DOMAIN raw |-> Message(<<raw[i]>>)]
Outputs == {Lines(printed), <<Junk>> \o Lines(printed), Lines(printed) \o <<Final>>,
            <<Legacy(printed)>>}

-----------------------------------------------------------------------------
(* The details *)

\* Mutant of Trimmed: the oldest keys remain.
TrimmedNewest(ds) ==
  LET oldest == {k \in DOMAIN ds : Cardinality({j \in DOMAIN ds : j < k}) < MaxStored}
  IN [k \in oldest |-> ds[k]]

\* The newest keys remain.
Trimmed(ds) ==
  LET newest == {k \in DOMAIN ds : Cardinality({j \in DOMAIN ds : j > k}) < MaxStored}
  IN [k \in newest |-> ds[k]]

Entry(items) == [items |-> items, posted |-> FALSE]
With(key, entry) == [k \in DOMAIN details \cup {key} |-> IF k = key THEN entry ELSE details[k]]

Key == counter + 1

\* store and expand_button; the message may not reach the chat.
StoreItems(items) ==
  /\ counter' = counter + 1
  /\ details' = Trimmed(With(Key, Entry(items)))
  /\ offers' \in {offers, offers \cup {[key |-> Key, items |-> items, face |-> "expand", own |-> TRUE]}}

\* An answer reaches the chat.
ShowAnswer(output) ==
  LET items == DetailItems(ParseResponse(output))
  IN /\ IF items = <<>> THEN UNCHANGED storeVars ELSE StoreItems(items)
     /\ printed' = <<>>

\* The markup of the message changes, unless Telegram refuses.
Remark(o, face) == offers' \in {offers, (offers \ {o}) \cup {[o EXCEPT !.face = face]}}

\* _handle_expand: the items are sent, each on its own; those that arrive are
\* listed in the entry.
Expand(o) ==
  /\ o.face = "expand" /\ o.key \in DOMAIN details
  /\ \E sent \in BOOLEAN : details' = [details EXCEPT ![o.key].posted = sent]
  /\ Remark(o, "collapse")
  /\ UNCHANGED <<printed, counter>>

\* _handle_collapse: the messages listed are deleted.
Collapse(o) ==
  /\ o.face = "collapse" /\ o.key \in DOMAIN details
  /\ details[o.key].posted
  /\ details' = [details EXCEPT ![o.key].posted = FALSE]
  /\ Remark(o, "expand")
  /\ UNCHANGED <<printed, counter>>

\* The process stops: the buttons stay.
DetailsRestart ==
  /\ printed' = <<>> /\ counter' = 0 /\ details' = <<>>
  /\ offers' = {[o EXCEPT !.own = FALSE] : o \in offers}

DetailsTypeOK ==
  /\ printed \in Seq(Blocks) /\ Len(printed) <= MaxBlocks
  /\ counter \in Nat
  /\ DOMAIN details \subseteq 1 .. counter /\ Cardinality(DOMAIN details) <= MaxStored
  /\ \A k \in DOMAIN details : details[k].items \in Seq(Item) /\ details[k].posted \in BOOLEAN
  /\ offers \subseteq Offer

-----------------------------------------------------------------------------
\* A button of this process shows the details of its own answer, and for the
\* newest answers it does show them (tool_details.py: store).
DetailsAreOwn ==
  \A o \in offers : o.own =>
    /\ o.key \in DOMAIN details => details[o.key].items = o.items
    /\ o.key + MaxStored > counter => o.key \in DOMAIN details

-----------------------------------------------------------------------------
(* What the events of an answer should say *)

\* What the results of a call say, or that it has none.
Truth(c, raw) ==
  LET results == {b \in Range(raw) : b.kind = "result" /\ b.id = c}
  IN IF results = {} THEN {Silent} ELSE {b.outcome : b \in results}

OfKind(s, kinds) == Picked(s, {i \in DOMAIN s : s[i].kind \in kinds})
IdsOf(s)   == [i \in DOMAIN s |-> s[i].id]
TalesOf(s) == [i \in DOMAIN s |-> <<s[i].id, s[i].outcome>>]

\* The calls in their order, each with its own result; of results without a
\* call the failures, each once; and all that was said and thought.
Faithful(events, raw) ==
  LET calls == OfKind(events, {"call"})
  IN /\ IdsOf(calls) = IdsOf(OfKind(raw, {"use"}))
     /\ \A i \in DOMAIN calls : {calls[i].outcome} = Truth(calls[i].id, raw)
     /\ TalesOf(OfKind(events, {"unknown"})) =
          TalesOf(Picked(raw, {i \in DOMAIN raw : /\ raw[i].kind = "result" /\ raw[i].outcome.failed
                                                  /\ Use(raw[i].id) \notin Range(raw)}))
     /\ events = Empty \/ OfKind(events, {"text", "thinking"}) = OfKind(raw, {"text", "thinking"})

\* The same as messages of the platform's own agent.  plain: its model says what
\* it says as a string, so that a text beside a call stands in one message with
\* it; it can be any text before a call.
Beside(raw) == {i \in DOMAIN raw : raw[i] = Text /\ i + 1 \in DOMAIN raw /\ raw[i + 1].kind = "use"}

MessageAt(i, raw, plain) ==
  CASE raw[i].kind = "use" -> AI(IF plain /\ i - 1 \in Beside(raw) THEN <<Text>> ELSE <<>>, plain, <<raw[i].id>>)
    [] raw[i].kind = "result" -> ToolMessage(raw[i].id, raw[i].outcome)
    [] OTHER -> AI(<<raw[i]>>, plain /\ raw[i] = Text, <<>>)

\* The blocks that make a message of their own.
Apart(raw, plain) == IF plain THEN DOMAIN raw \ Beside(raw) ELSE DOMAIN raw
AsMessages(raw, plain) == Picked([i \in DOMAIN raw |-> MessageAt(i, raw, plain)], Apart(raw, plain))

NoneStray(raw) == \A i \in DOMAIN raw : raw[i].kind = "result" => ~ Stray(i, raw)

\* Whatever claude prints, and wherever it is cut off, the details say of every
\* call what its own result says, which of a call that was cut off is the same
\* as of one that succeeded and said nothing (bridge.py: _build_response).  Of
\* the same turn the platform's own agent shows the same, also when the thread
\* has had such a turn before, except the text beside a call where the content
\* is a string (agent_response.py: extract_agent_response).
AnswersAreTrue ==
  /\ Faithful(BuildResponse(printed), printed)
  /\ NoneStray(printed) =>
       \A plain \in BOOLEAN :
         LET turn == AsMessages(printed, plain)
         IN OrEmpty(Extract(turn \o <<Human>> \o turn)) = BuildResponse(Picked(printed, Apart(printed, plain)))
=============================================================================
