---------------------------- MODULE AgentMailbox ----------------------------
(***************************************************************************)
(* What reaches a sub-agent at work: tasks and skills through its inbox,   *)
(* tools and tiers through its AgentInfo and the directive slot, all taken *)
(* up by the segment loop of DeepAgentsSpawner._stream_run, over the       *)
(* recoveries that replace its run.  One agent, from spawn to the end.     *)
(*                                                                         *)
(* The store is the one that is wired in, whose coroutines never suspend:  *)
(* sending, draining, and all between the end of a segment and the start   *)
(* of the next is one step.  A run that recovery replaces dies in silence  *)
(* (ReplacedRunIsSilent of SubAgentRuntime), so there is one run at a time.*)
(***************************************************************************)
EXTENDS RecoveryChain, Functions

CONSTANTS
  Tasks,        \* what assign_task is called with, once each
  Skills,       \* skill names of subscribe_skill
  Tiers,        \* tiers that spawn_agent and switch_agent_model are called with
  Tools,        \* known tools of subscribe_tool
  MaxSegments,  \* _MAX_SEGMENTS
  StepBound     \* bound of the model: steps streamed over all runs

ASSUME MailboxAssumption ==
  /\ Tasks \cap Skills = {} /\ {"task", "ai"} \cap (Tasks \cup Skills) = {}
  /\ Tiers \subseteq KnownTiers
  /\ MaxSegments \in Nat \ {0} /\ StepBound \in Nat

VARIABLES
  life,       \* live (SPAWNING, RUNNING), finished, failed, or gone
  retries,    \* AgentInfo.retry_count
  tier,       \* AgentInfo.tier
  tools,      \* AgentInfo.tools
  skills,     \* AgentInfo.skills
  inbox,      \* store "inbox"
  directive,  \* store "directive": the tier of a change_tier, or none
  run,        \* the coroutine: new, streaming, over
  convo,      \* messages: the task, what was drained, what the model said
  segment,    \* segment_count
  stepped,    \* saw_step of the current segment
  built,      \* tools the graph of the current segment was built with
  active,     \* the tier in the context of the run's task
  hinted,     \* skills named in the prompt of the run
  seen,       \* costed_ids, as positions in convo
  counted,    \* counted
  iteration,  \* AgentInfo.iteration
  sent,       \* history: everything put in the inbox
  lost,       \* history: how much of it replaced runs had drained
  owed,       \* history: tools an inbox message may rely on
  charges,    \* history: how often each message of convo was charged
  raised      \* history: recovery raised the tier over an unread directive

infoVars == <<life, retries, tier, tools, skills>>
runVars  == <<run, convo, segment, stepped, built, active, hinted, seen, counted, charges>>
mailVars == <<inbox, sent, lost>>
vars == <<infoVars, runVars, mailVars, directive, iteration, owed, raised>>

Messages == Tasks \cup Skills
Positions == 1..Len(convo)

Init ==
  /\ life = "live" /\ retries = 0 /\ tier \in Tiers
  /\ tools \in SUBSET Tools /\ skills = {}
  /\ inbox = <<>> /\ directive = NoTier
  /\ run = "new" /\ convo = <<>> /\ segment = 0 /\ stepped = FALSE
  /\ built = {} /\ active = tier /\ hinted = {} /\ seen = {} /\ counted = 0
  /\ iteration = 0
  /\ sent = <<>> /\ lost = 0 /\ owed = [m \in Messages |-> {}]
  /\ charges = <<>> /\ raised = FALSE

----------------------------------------------------------------------------
(* Tools of the master agent: they ask whether the agent is registered,    *)
(* not whether it is still at work.                                        *)

Send(m) ==
  /\ inbox' = Append(inbox, m) /\ sent' = Append(sent, m)
  /\ owed' = [owed EXCEPT ![m] = tools]
  /\ UNCHANGED lost

AssignTask(t) ==
  /\ life # "gone" /\ t \notin Range(sent)
  /\ Send(t)
  /\ UNCHANGED <<infoVars, runVars, directive, iteration, raised>>

SubscribeSkill(s) ==
  /\ life # "gone" /\ s \notin skills
  /\ skills' = skills \cup {s}
  /\ Send(s)
  /\ UNCHANGED <<life, retries, tier, tools, runVars, directive, iteration, raised>>

SubscribeTool(t) ==
  /\ life # "gone" /\ t \notin tools
  /\ tools' = tools \cup {t}
  /\ UNCHANGED <<life, retries, tier, skills, runVars, mailVars, directive, iteration, owed, raised>>

\* What is revoked nobody may rely on.
UnsubscribeTool(t) ==
  /\ life # "gone" /\ t \in tools
  /\ tools' = tools \ {t}
  /\ owed' = [m \in Messages |-> owed[m] \ {t}]
  /\ UNCHANGED <<life, retries, tier, skills, runVars, mailVars, directive, iteration, raised>>

SwitchModel(t) ==
  /\ life # "gone"
  /\ tier' = t /\ directive' = t /\ raised' = FALSE
  /\ UNCHANGED <<life, retries, tools, skills, runVars, mailVars, iteration, owed>>

Recall ==
  /\ life # "gone" /\ life' = "gone" /\ run' = "over"
  /\ UNCHANGED <<retries, tier, tools, skills, convo, segment, stepped, built, active,
                 hinted, seen, counted, charges, mailVars, directive, iteration, owed, raised>>

----------------------------------------------------------------------------
(* The run *)

\* The echo is taken for news.
BeginSegmentUnseeded(messages, n) ==
  /\ convo' = messages /\ segment' = n /\ stepped' = FALSE
  /\ built' = tools
  /\ seen' = {} /\ counted' = 0
  /\ charges' = [i \in 1..Len(messages) |-> IF i \in DOMAIN charges THEN charges[i] ELSE 0]

\* The graph is built once per run.
BeginSegmentBuiltOnce(messages, n) ==
  /\ convo' = messages /\ segment' = n /\ stepped' = FALSE
  /\ built' = IF n = 1 THEN tools ELSE built
  /\ seen' = 1..Len(messages) /\ counted' = 0
  /\ charges' = [i \in 1..Len(messages) |-> IF i \in DOMAIN charges THEN charges[i] ELSE 0]

\* The graph is built from the current tools; the first chunk of its stream
\* echoes the conversation, none of which is charged again.
BeginSegment(messages, n) ==
  /\ convo' = messages /\ segment' = n /\ stepped' = FALSE
  /\ built' = tools
  /\ seen' = 1..Len(messages) /\ counted' = 0
  /\ charges' = [i \in 1..Len(messages) |-> IF i \in DOMAIN charges THEN charges[i] ELSE 0]

\* A respawned run does not repeat what the agent has been nudged about.
StartUnhinted ==
  /\ run = "new" /\ run' = "streaming"
  /\ active' = tier /\ hinted' = {}
  /\ BeginSegment(<<"task">>, 1)
  /\ UNCHANGED <<infoVars, mailVars, directive, iteration, owed, raised>>

\* A respawned run inherits the tier of the run before.
StartKeepsTier ==
  /\ run = "new" /\ run' = "streaming"
  /\ active' = active /\ hinted' = skills
  /\ BeginSegment(<<"task">>, 1)
  /\ UNCHANGED <<infoVars, mailVars, directive, iteration, owed, raised>>

\* Prologue and first segment.
Start ==
  /\ run = "new" /\ run' = "streaming"
  /\ active' = tier /\ hinted' = skills
  /\ BeginSegment(<<"task">>, 1)
  /\ UNCHANGED <<infoVars, mailVars, directive, iteration, owed, raised>>

\* One chunk: the model's message is charged, then the directive is obeyed.
Step ==
  LET n   == Len(convo) + 1
      new == {i \in (counted + 1)..n : i \notin seen /\ Append(convo, "ai")[i] = "ai"}
  IN  /\ run = "streaming" /\ iteration < StepBound
      /\ convo' = Append(convo, "ai") /\ stepped' = TRUE
      /\ charges' = [i \in 1..n |-> (IF i < n THEN charges[i] ELSE 0) + (IF i \in new THEN 1 ELSE 0)]
      /\ seen' = seen \cup ((counted + 1)..n)
      /\ counted' = n
      /\ iteration' = iteration + 1
      /\ active' = IF directive # NoTier THEN directive ELSE active
      /\ directive' = NoTier
      /\ UNCHANGED <<infoVars, mailVars, run, segment, built, hinted, owed, raised>>

\* The stream may end: it has made a step, or it is a follow-up segment.
SegmentOver == run = "streaming" /\ (stepped \/ segment > 1)

Ends(how) ==
  /\ run' = "over" /\ life' = how
  /\ UNCHANGED <<retries, tier, tools, skills, stepped, built, active, hinted, directive,
                 iteration, owed, raised>>

\* The graph raises, or its first stream is empty.
RunFails ==
  /\ run \in {"new", "streaming"} /\ Ends("failed")
  /\ UNCHANGED <<convo, segment, seen, counted, charges, mailVars>>

\* drain_inbox has found nothing: result and state are written at once.
GoIdle ==
  /\ SegmentOver /\ inbox = <<>> /\ Ends("finished")
  /\ UNCHANGED <<convo, segment, seen, counted, charges, mailVars>>

\* The inbox is not cleared.
DrainKeeps == UNCHANGED mailVars

Drain == inbox' = <<>> /\ UNCHANGED <<sent, lost>>

NextSegment ==
  /\ SegmentOver /\ inbox # <<>> /\ segment < MaxSegments
  /\ Drain
  /\ BeginSegment(convo \o inbox, segment + 1)
  /\ UNCHANGED <<infoVars, run, active, hinted, directive, iteration, owed, raised>>

\* The cap is looked at after the drain: what was drained is not worked on.
CapSegments ==
  /\ SegmentOver /\ inbox # <<>> /\ segment = MaxSegments
  /\ Drain /\ Ends("finished")
  /\ segment' = segment + 1 /\ convo' = convo \o inbox
  /\ charges' = [i \in 1..Len(convo \o inbox) |-> IF i \in DOMAIN charges THEN charges[i] ELSE 0]
  /\ UNCHANGED <<seen, counted>>

----------------------------------------------------------------------------
(* Recovery, as RecoveryExecutor carries it out (SubAgentRuntime has the   *)
(* steps): the verdict may be older than the end of the run.  Inbox,       *)
(* directive, tools and skills outlive the run; the conversation does not. *)

NewRun ==
  /\ run' = "new" /\ convo' = <<>> /\ charges' = <<>> /\ segment' = 0 /\ stepped' = FALSE
  /\ seen' = {} /\ counted' = 0
  /\ UNCHANGED <<built, active, hinted>>

Recover ==
  /\ life # "gone" /\ DecideAction(retries, tier) # "abort"
  /\ life' = "live" /\ retries' = retries + 1 /\ tier' = TierAfter(retries, tier)
  /\ raised' = (raised \/ (tier' # tier /\ directive # NoTier))
  /\ NewRun
  /\ lost' = Len(sent) - Len(inbox)
  /\ UNCHANGED <<tools, skills, inbox, sent, directive, iteration, owed>>

Abort ==
  /\ life # "gone" /\ DecideAction(retries, tier) = "abort"
  /\ life' = "gone" /\ run' = "over"
  /\ UNCHANGED <<retries, tier, tools, skills, convo, segment, stepped, built, active,
                 hinted, seen, counted, charges, mailVars, directive, iteration, owed, raised>>

Next ==
  \/ \E t \in Tasks : AssignTask(t)
  \/ \E s \in Skills : SubscribeSkill(s)
  \/ \E t \in Tools : SubscribeTool(t) \/ UnsubscribeTool(t)
  \/ \E t \in Tiers : SwitchModel(t)
  \/ Recall \/ Start \/ Step \/ RunFails \/ GoIdle \/ NextSegment \/ CapSegments
  \/ Recover \/ Abort

Spec == Init /\ [][Next]_vars

----------------------------------------------------------------------------
(* Correctness *)

TypeOK ==
  /\ life \in {"live", "finished", "failed", "gone"}
  /\ retries \in 0..(3 * MaxRetries)
  /\ tier \in KnownTiers /\ active \in KnownTiers /\ directive \in KnownTiers \cup {NoTier}
  /\ tools \in SUBSET Tools /\ built \in SUBSET Tools
  /\ skills \in SUBSET Skills /\ hinted \in SUBSET Skills
  /\ inbox \in Seq(Messages) /\ sent \in Seq(Messages) /\ lost \in Nat
  /\ run \in {"new", "streaming", "over"}
  /\ convo \in Seq(Messages \cup {"task", "ai"})
  /\ segment \in 0..(MaxSegments + 1) /\ stepped \in BOOLEAN
  /\ seen \in SUBSET Nat /\ counted \in Nat /\ iteration \in 0..StepBound
  /\ owed \in [Messages -> SUBSET Tools]
  /\ charges \in [Positions -> Nat]
  /\ raised \in BOOLEAN

\* Where in the order of sending m is: every message is sent once.
Place(m) == CHOOSE i \in DOMAIN sent : sent[i] = m

\* What the agent has before it: its conversation, then what the inbox holds.
Held == convo \o inbox

\* Only a recovery loses mail, and only what the run it replaced had drained:
\* all that was sent after that is in the conversation, where no segment drops
\* it, or in the inbox, once and in the order of sending, and nothing that was
\* lost comes back (store.py: send_inbox, drain_inbox; spawner.py:
\* _stream_run).  What the cap drains is in the conversation too, of a run that
\* has ended.
MailIsKept ==
  /\ {Place(m) : m \in Range(Held) \cap Messages} = (lost + 1) .. Len(sent)
  /\ \A p, q \in DOMAIN Held :
       p < q /\ {Held[p], Held[q]} \subseteq Messages => Place(Held[p]) < Place(Held[q])

\* Every message of the model is charged once: neither the echo at the start
\* of a segment nor what a segment carries over from the last is charged again,
\* and nothing is left out.
ChargedOnce == \A i \in Positions : charges[i] = IF convo[i] = "ai" THEN 1 ELSE 0

\* A skill, once subscribed, is known to every run: from its prompt, from its
\* conversation, or it will be from the inbox, also across recoveries.
SkillsAreKnown ==
  run = "streaming" => skills \subseteq hinted \cup Range(inbox) \cup Range(convo)

\* A task that was assigned after a tool was subscribed finds that tool in the
\* segment that works on it ("effective next segment"), unless it was revoked.
ToolsAreThere ==
  run = "streaming" => \A m \in Range(convo) \cap Messages : owed[m] \subseteq built

\* An agent that has obeyed its directive runs on the tier that the registry
\* shows, unless recovery has raised that tier over the head of the directive.
TierFollows == run = "streaming" /\ directive = NoTier /\ ~ raised => active = tier
=============================================================================
