---------------------------- MODULE AnswerEvents ----------------------------
(***************************************************************************)
(* From the output of an agent to what a user is shown: the Claude Code     *)
(* bridge reads the lines that a claude process has printed, the platform   *)
(* reads the messages of its own agent; both pair the calls of tools with   *)
(* their results and leave the rest to the same rendering.                  *)
(***************************************************************************)
EXTENDS SequencesExt, Listing

CONSTANT Calls          \* ids of tool calls

ASSUME EventsAssumption == "" \notin Calls

\* Blocks of content.  Which text or which input does not matter here.
Text       == [kind |-> "text", id |-> ""]
Thinking   == [kind |-> "thinking", id |-> ""]
Use(c)     == [kind |-> "use", id |-> c]
Result(c, o) == [kind |-> "result", id |-> c, outcome |-> o]

\* What is_error and result_text say of a result; said: the text is not empty.
Outcomes == [failed : BOOLEAN, said : BOOLEAN]
Silent   == [failed |-> FALSE, said |-> FALSE]

Blocks == {Text, Thinking} \cup {Use(c) : c \in Calls} \cup {Result(c, o) : c \in Calls, o \in Outcomes}

\* Events.  A call without a result carries the same as one that succeeded and
\* said nothing; a detail shows a check mark for both (tool_detail_html).
Call(c, o) == [kind |-> "call", id |-> c, outcome |-> o]
Unknown(c, o) == [kind |-> "unknown", id |-> c, outcome |-> o]
Empty   == <<Text>>                   \* "(empty response)"
Failure == <<[kind |-> "error"]>>     \* CCResponse(error)

OrEmpty(events) == IF events = <<>> THEN Empty ELSE events

-----------------------------------------------------------------------------
(* The bridge *)

\* Mutant of ResultsFor: results are taken in their order, whatever their id.
ResultsForAny(c, raw) == {i \in DOMAIN raw : raw[i].kind = "result"}

ResultsFor(c, raw) == {i \in DOMAIN raw : raw[i].kind = "result" /\ raw[i].id = c}

\* results_by_id keeps the last result of a call.
OutcomeOf(c, raw) ==
  IF ResultsFor(c, raw) = {} THEN Silent ELSE raw[Max(ResultsFor(c, raw))].outcome

\* A result that no call and no result before it has accounted for.
Stray(i, raw) == ~ \E j \in 1 .. i - 1 : raw[j].kind \in {"use", "result"} /\ raw[j].id = raw[i].id

EventAt(i, raw) ==
  CASE raw[i].kind = "use" -> <<Call(raw[i].id, OutcomeOf(raw[i].id, raw))>>
    [] raw[i].kind = "result" -> IF Stray(i, raw) /\ raw[i].outcome.failed
                                 THEN <<Unknown(raw[i].id, raw[i].outcome)>> ELSE <<>>
    [] OTHER -> <<raw[i]>>

\* _build_response
BuildResponse(raw) == OrEmpty(Flattened([i \in DOMAIN raw |-> EventAt(i, raw)]))

\* _parse_content_blocks, for a single object: no result is looked for.
ParseContentBlocks(content) ==
  LET told == Picked(content, {i \in DOMAIN content : content[i].kind \in {"use", "text"}})
  IN OrEmpty([i \in DOMAIN told |-> IF told[i].kind = "use" THEN Call(told[i].id, Silent) ELSE told[i]])

\* Lines of output: a message of the stream has its content one level down.
Junk == [type |-> "junk", content |-> <<>>]
Final == [type |-> "result", content |-> <<>>]
Message(content) == [type |-> "message", content |-> content]
Legacy(content) == [type |-> "legacy", content |-> content]

\* _parse_single_json: whatever has no content at its top is quoted as text.
ParseSingle(line) == IF line.type = "legacy" THEN ParseContentBlocks(line.content) ELSE <<Text>>

\* _parse_cc_json_response
ParseResponse(lines) ==
  LET parsed == Picked(lines, {i \in DOMAIN lines : lines[i].type # "junk"})
  IN CASE lines = <<>> -> Empty
       [] lines # <<>> /\ parsed = <<>> -> Failure
       [] Len(parsed) = 1 -> ParseSingle(parsed[1])
       [] OTHER -> BuildResponse(Flattened([i \in DOMAIN parsed |-> parsed[i].content]))

-----------------------------------------------------------------------------
(* The agent of the platform *)

Human == [type |-> "human"]
\* plain: the content is a string and not a list of blocks.
AI(content, plain, calls) == [type |-> "ai", content |-> content, plain |-> plain, calls |-> calls]
ToolMessage(c, o) == [type |-> "tool", id |-> c, outcome |-> o]

\* The messages after the last one of the user.
TurnOf(messages) ==
  SubSeq(messages, SelectLastInSeq(messages, LAMBDA m : m.type = "human") + 1, Len(messages))

\* tool_results keeps the last message of a call.
Answered(c, turn) ==
  LET results == {i \in DOMAIN turn : turn[i].type = "tool" /\ turn[i].id = c}
  IN IF results = {} THEN Silent ELSE turn[Max(results)].outcome

\* What an agent's message says, a string only when it calls no tool, and then
\* its calls.
EventsOf(m, turn) ==
  IF m.type # "ai" THEN <<>>
  ELSE (IF m.plain /\ m.calls # <<>> THEN <<>> ELSE m.content)
       \o [i \in DOMAIN m.calls |-> Call(m.calls[i], Answered(m.calls[i], turn))]

\* extract_agent_response
Extract(messages) ==
  LET turn == TurnOf(messages)
  IN Flattened([i \in DOMAIN turn |-> EventsOf(turn[i], turn)])

-----------------------------------------------------------------------------
(* Rendering *)

\* render_events: a detail for each call and each thought; an error has none.
DetailItems(events) ==
  Picked(events, {i \in DOMAIN events : events[i].kind \in {"call", "unknown", "thinking"}})
=============================================================================
