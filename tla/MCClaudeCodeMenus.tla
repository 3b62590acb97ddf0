-------------------------- MODULE MCClaudeCodeMenus --------------------------
(***************************************************************************)
(* A small instance of ClaudeCodeMenus for TLC.  Lists and answers share    *)
(* the crashes and the count, and nothing else: a property of one of them   *)
(* that fails, fails in a behaviour in which the other does not move.       *)
(***************************************************************************)
EXTENDS ClaudeCodeMenus

NoLists   == Len(files) = OldSessions /\ \A u \in Users : projects[u] = <<>> /\ state[u] = NewState
NoAnswers == printed = <<>> /\ counter = 0 /\ offers = {}

\* CONSTRAINT: the two do not interleave, and the sessions there were are those
\* of one project where answers are shown.
OneAtATime == NoAnswers \/ (NoLists /\ \A f \in Range(files) : f.project = Here)
=============================================================================
