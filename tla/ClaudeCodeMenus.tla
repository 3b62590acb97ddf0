-------------------------- MODULE ClaudeCodeMenus --------------------------
(***************************************************************************)
(* The keyboards of the Claude Code mode.  A list message shows what the    *)
(* bridge finds on disk and leaves it in the caches of the user; a button   *)
(* carries only positions in these caches, and stays in the chat for ever,  *)
(* while sessions are written and other lists are shown.  An answer comes   *)
(* with a button for its details (ToolDetails), which stays as long.        *)
(***************************************************************************)
EXTENDS ClaudeCodeBridge, ToolDetails

CONSTANTS PageSize,      \* CC_PAGE_SIZE
          MaxShown       \* bound on the lists and answers shown and the blocks printed

ASSUME MenuAssumption == PageSize \in Nat \ {0} /\ MaxShown \in Nat

VARIABLES
  projects,    \* _projects_cache
  convs,       \* _conversations_cache
  buttons,     \* <<proj_idx, conv_idx>> of the buttons in the chat; conv_idx 0: new session
  shown,       \* history: what the list made last says, if it is one of conversations in the chat
  count        \* of the lists and answers shown and the blocks printed so far

menuVars == <<projects, convs, buttons, shown, count>>
vars == <<bridgeVars, menuVars, detailVars>>

Nothing == [at |-> 0]
List == [at : Nat \ {0}, project : Projects, sessions : Seq(Sessions), page : Nat]

Init ==
  /\ BridgeInit
  /\ projects = [u \in Users |-> <<>>]
  /\ convs = [u \in Users |-> <<>>]
  /\ buttons = [u \in Users |-> {}]
  /\ shown = [u \in Users |-> Nothing]
  /\ count = 0
  /\ DetailsInit

\* The positions on a page, and the pages that _pagination_row leads to.
OnPage(list, page) == {j \in DOMAIN list : (j - 1) \div PageSize = page}
Pages(list) == 0 .. ((Len(list) + PageSize - 1) \div PageSize) - 1
Turns(list, page) == {q \in Pages(list) : q = page + 1 \/ q + 1 = page}

Counted == count < MaxShown /\ count' = count + 1

-----------------------------------------------------------------------------
(* Lists *)

\* _show_project_list: one button for each project, to open it.
ShowProjects(u) ==
  /\ Counted
  /\ projects' = [projects EXCEPT ![u] = ListProjects]
  /\ shown' = [shown EXCEPT ![u] = Nothing]
  /\ UNCHANGED <<bridgeVars, detailVars, convs, buttons>>

\* _show_conversation_list: the project is the one that the cache has at the
\* position now, its conversations are read again.  The caches change before
\* Telegram is called, which may not show the list.
ShowConversations(u, list, i, page) ==
  \E cs \in ConversationLists(list[i]) :
    /\ Counted
    /\ convs' = [convs EXCEPT ![u] = cs]
    /\ \/ /\ buttons' = [buttons EXCEPT ![u] = @ \cup ({i} \X ({0} \cup OnPage(cs, page)))]
          /\ shown' = [shown EXCEPT ![u] =
                         [at |-> i, project |-> list[i], sessions |-> cs, page |-> page]]
       \/ /\ shown' = [shown EXCEPT ![u] = Nothing]
          /\ UNCHANGED buttons

\* cc:proj
OpenProject(u) ==
  /\ \E i \in DOMAIN projects[u] : ShowConversations(u, projects[u], i, 0)
  /\ UNCHANGED <<bridgeVars, detailVars, projects>>

\* cc:cpage, from the row under the list shown last.
TurnPage(u) ==
  /\ shown[u] # Nothing
  /\ shown[u].at \in DOMAIN projects[u]
  /\ \E page \in Turns(shown[u].sessions, shown[u].page) :
       ShowConversations(u, projects[u], shown[u].at, page)
  /\ UNCHANGED <<bridgeVars, detailVars, projects>>

\* show_menu and cc:convs_menu: the conversations of the active project.
ShowMenu(u) ==
  /\ InMode(u)
  /\ projects' = [projects EXCEPT ![u] = ListProjects]
  /\ \E i \in DOMAIN projects'[u] :
       /\ projects'[u][i] = state[u].project
       /\ ShowConversations(u, projects'[u], i, 0)
  /\ UNCHANGED <<bridgeVars, detailVars>>

-----------------------------------------------------------------------------
(* Buttons *)

\* activate_session, with the path that was read with the list of projects.
Activate(u, p, s) ==
  \E path \in Peeked(p) :
    ActivateSession(u, p, path, s, s # NoSession /\ s \notin SessionsOf(p))

\* Mutant of Press: the lists are read again from the disk.
PressReads(u, b) ==
  /\ b[1] \in DOMAIN ListProjects
  /\ \E cs \in ConversationLists(ListProjects[b[1]]) :
       /\ b[2] \in {0} \cup DOMAIN cs
       /\ Activate(u, ListProjects[b[1]], IF b[2] = 0 THEN NoSession ELSE cs[b[2]])
  /\ UNCHANGED <<files, flight, strays, menuVars, detailVars>>

\* _activate_conversation and _start_new_conversation: the caches as they are
\* now, each on its own, so that the session need not be one of the project;
\* past their end the handler only says that they have expired.
Press(u, b) ==
  /\ b[1] \in DOMAIN projects[u]
  /\ b[2] \in {0} \cup DOMAIN convs[u]
  /\ Activate(u, projects[u][b[1]], IF b[2] = 0 THEN NoSession ELSE convs[u][b[2]])
  /\ UNCHANGED <<files, flight, strays, menuVars, detailVars>>

Exit(u) == InMode(u) /\ ExitMode(u) /\ UNCHANGED <<files, strays, menuVars, detailVars>>

-----------------------------------------------------------------------------
(* Answers *)

\* An answer of the mode takes shape.  The session that its process writes is a
\* matter of ClaudeCodeHandler.
Printing(b) ==
  /\ Counted
  /\ PrintBlock(b)
  /\ UNCHANGED <<bridgeVars, projects, convs, buttons, shown>>

Answer(output) ==
  /\ Counted
  /\ ShowAnswer(output)
  /\ UNCHANGED <<bridgeVars, projects, convs, buttons, shown>>

\* cc:tools and cc:tclose
Details(o) ==
  /\ Expand(o) \/ Collapse(o)
  /\ UNCHANGED <<bridgeVars, menuVars>>

\* The caches do not outlive the process, the buttons in the chat do.
Crash ==
  /\ \E torn \in BOOLEAN : Restart(torn)
  /\ projects' = [u \in Users |-> <<>>]
  /\ convs' = [u \in Users |-> <<>>]
  /\ DetailsRestart
  /\ UNCHANGED <<buttons, shown, count>>

Terminal ==
  /\ \E p \in Projects : \E s \in SessionsOf(p) \cup {NoSession} : TerminalSession(p, s)
  /\ UNCHANGED <<menuVars, detailVars>>

Next ==
  \/ \E u \in Users :
       \/ ShowProjects(u) \/ OpenProject(u) \/ TurnPage(u) \/ ShowMenu(u) \/ Exit(u)
       \/ \E b \in buttons[u] : Press(u, b)
  \/ \E b \in Blocks : Printing(b)
  \/ \E output \in Outputs : Answer(output)
  \/ \E o \in offers : Details(o)
  \/ Terminal
  \/ Crash

Spec == Init /\ [][Next]_vars

-----------------------------------------------------------------------------
TypeOK ==
  /\ BridgeTypeOK /\ DetailsTypeOK
  /\ projects \in [Users -> Seq(Projects)]
  /\ convs \in [Users -> Seq(Sessions)]
  /\ buttons \in [Users -> SUBSET (Nat \X Nat)]
  /\ shown \in [Users -> {Nothing} \cup List]
  /\ count \in 0 .. MaxShown

\* A button of the list shown last activates the project and the session that
\* the list shows, or nothing, though files have come and moved since, unless a
\* later list did not reach the chat
\* (claude_code.py: _projects_cache, _conversations_cache).
ButtonsActAsShown ==
  [][\A u \in Users : shown[u] # Nothing =>
       \A j \in {0} \cup OnPage(shown[u].sessions, shown[u].page) :
         Press(u, <<shown[u].at, j>>) =>
           /\ InMode(u)'
           /\ state'[u].project = shown[u].project
           /\ state'[u].session = IF j = 0 THEN NoSession ELSE shown[u].sessions[j]]_vars
=============================================================================
