------------------------------ MODULE Console -------------------------------
(***************************************************************************)
(* The authenticated console: which view is open, what is selected, which  *)
(* dialog is in front, and what the keys and the buttons send.             *)
(*                                                                         *)
(* The user decides on requests while the feed changes the queue under the *)
(* views.  The state of a component lives as long as React keeps it        *)
(* mounted: the dialog of a DetailView is lost with it, and in the Queue   *)
(* view one DetailView is reused for whatever request is selected.         *)
(*                                                                         *)
(* ui is the state of App and of the views it mounts; openedFor remembers  *)
(* the request that was shown when the dialog of a DetailView was opened.  *)
(***************************************************************************)
EXTENDS ConsoleViews

CONSTANTS Items,     \* the requests: [id, agent, term, ts, event]
          Terms, AgentIds, Keys, ProjectIds

VARIABLES queue,     \* the requests of the reducer, in the order they came
          ui,
          sent       \* the decisions handed to approve() and deny()

consoleVars == <<queue, ui, sent>>

Views == {"inbox", "board", "queue", "history", "sessions", "projects", "worktrees", "burn", "agents",
          "config", "terminals"}
DetailModals == {"deny-msg", "context", "always"}
Ids(q) == {q[i].id : i \in DOMAIN q}

ConsoleInit ==
  /\ queue = <<>>
  /\ sent = <<>>
  /\ ui = [view |-> "inbox", selectedId |-> None, focusTerminalId |-> None, showSpawn |-> FALSE,
           spawnDefaultProject |-> None, sessionAgent |-> None, agentDrilldown |-> None,
           showHelp |-> FALSE, pendingReauth |-> FALSE, modal |-> None, openedFor |-> None,
           expandedDeferred |-> None, pendingInstall |-> None, term |-> None, dock |-> None]

-----------------------------------------------------------------------------
(* The rows and the DetailView that are mounted *)

DockRows(u, q) == {q[i].id : i \in {j \in DOMAIN q : u.term # None /\ q[j].term = u.term}}

Detail(u, q) ==
  CASE u.view \in {"inbox", "queue"} /\ u.selectedId \in Ids(q) -> u.selectedId
    [] u.view = "terminals" /\ u.dock \in DockRows(u, q) -> u.dock
    [] OTHER -> None

(* The requests a view lets the user decide. *)
Offered(u, q) ==
  CASE u.view \in {"inbox", "queue"} -> Ids(q)
    [] u.view = "agents" /\ u.agentDrilldown # None -> {q[i].id : i \in {j \in DOMAIN q : q[j].agent = u.agentDrilldown}}
    [] u.view = "terminals" -> DockRows(u, q)
    [] OTHER -> {}

(* React's commit of state v over u: a component that is not in the new     *)
(* tree loses its state.  The rows of Inbox and of the terminal's dock are  *)
(* keyed by their request; the DetailView beside the Queue has no key.      *)
DetailStays(u, q, v, r) ==
  /\ v.view = u.view
  /\ Detail(u, q) # None /\ Detail(v, r) # None
  /\ v.view = "queue" \/ Detail(v, r) = Detail(u, q)
Commit(v, r) ==
  LET stays(view) == v.view = view /\ (ui.view = view)
  IN  [v EXCEPT !.modal = IF DetailStays(ui, queue, v, r) THEN v.modal ELSE None,
                !.expandedDeferred = IF v.view = "inbox" THEN v.expandedDeferred ELSE None,
                !.pendingInstall = IF v.view = "projects" THEN v.pendingInstall ELSE None,
                !.term = IF stays("terminals") THEN v.term ELSE None,
                !.dock = IF stays("terminals") /\ v.term # None THEN v.dock ELSE None]

Render(v) == ui' = Commit(v, queue) /\ UNCHANGED <<queue, sent>>

DialogOpen(u) == u.showHelp \/ u.showSpawn \/ u.pendingReauth \/ u.modal # None \/ u.pendingInstall # None

(* approve and deny of useWisphive, followed by the view's own reset *)
Decide(id, verdict, note, v) ==
  /\ sent' = Append(sent, [id |-> id, verdict |-> verdict, note |-> note])
  /\ ui' = Commit(v, queue)
  /\ UNCHANGED queue

Unselected(u) == [u EXCEPT !.selectedId = None]
AfterDecision(u) == IF u.view \in {"inbox", "queue"} THEN Unselected(u) ELSE u

-----------------------------------------------------------------------------
(* The feed: requests come and go whatever the user is doing, and the       *)
(* daemon may ask for the password at any time.                             *)

FeedChanges ==
  /\ queue' \in Seq(Items)
  /\ ui' = Commit(ui, queue')
  /\ UNCHANGED sent

ReauthAsked == Render([ui EXCEPT !.pendingReauth = TRUE])

(* The terminal list arrives: a pending focus is honoured or given up. *)
FocusArrives ==
  /\ ui.view = "terminals" /\ ui.focusTerminalId # None
  /\ \/ Render([ui EXCEPT !.term = ui.focusTerminalId, !.focusTerminalId = None])
     \/ Render([ui EXCEPT !.focusTerminalId = None])

-----------------------------------------------------------------------------
(* Clicks; a dialog's overlay covers everything behind it *)

SwitchView(view) == ~DialogOpen(ui) /\ Render([ui EXCEPT !.view = view])

SelectRow ==
  /\ ~DialogOpen(ui) /\ ui.view \in {"inbox", "queue"}
  /\ \E id \in Ids(queue) : Render([ui EXCEPT !.selectedId = id])

(* Approve and Deny of InboxRow, of the selected row of Queue, of the       *)
(* agent's pending list and of the dock's rows.                             *)
RowHasButtons(u, id) == IF u.view = "inbox" THEN id # u.selectedId
                        ELSE IF u.view = "queue" THEN id = u.selectedId
                        ELSE TRUE
RowDecision ==
  /\ ~DialogOpen(ui)
  /\ \E id \in Offered(ui, queue), verdict \in {"approve", "deny"} :
       RowHasButtons(ui, id) /\ Decide(id, verdict, None, AfterDecision(ui))

ToggleDockRow ==
  /\ ~DialogOpen(ui) /\ ui.view = "terminals"
  /\ \E id \in DockRows(ui, queue) :
       Render([ui EXCEPT !.dock = IF Detail(ui, queue) = id THEN None ELSE id])

SelectTerminal ==
  /\ ~DialogOpen(ui) /\ ui.view = "terminals"
  /\ \E t \in Terms \cup {None} : Render([ui EXCEPT !.term = t])

(* The actions of DetailView, by the event of its request. *)
EventOf(id) == {queue[i].event : i \in {j \in DOMAIN queue : queue[j].id = id}}
StopEvents == {"Stop", "SubagentStop"}
PromptEvents == {"UserPromptSubmit", "ConfigChange"}
ModalsFor(event) ==
  IF event \in StopEvents THEN {} ELSE IF event \in PromptEvents THEN {"deny-msg"} ELSE DetailModals

DetailDecision ==
  /\ ~DialogOpen(ui) /\ Detail(ui, queue) # None
  /\ \/ Decide(Detail(ui, queue), "approve", None, AfterDecision(ui))
     \/ /\ \E event \in EventOf(Detail(ui, queue)) : event \notin StopEvents
        /\ Decide(Detail(ui, queue), "deny", None, AfterDecision(ui))

OpenModal ==
  /\ ~DialogOpen(ui) /\ Detail(ui, queue) # None
  /\ \E event \in EventOf(Detail(ui, queue)) : \E kind \in ModalsFor(event) :
       Render([ui EXCEPT !.modal = kind, !.openedFor = Detail(ui, queue)])

SubmitModal ==
  /\ ui.modal # None /\ ~ui.pendingReauth
  /\ Decide(Detail(ui, queue), IF ui.modal = "deny-msg" THEN "deny" ELSE "approve", ui.modal,
            [AfterDecision(ui) EXCEPT !.modal = None])

CloseDialog ==
  \/ ui.showHelp /\ Render([ui EXCEPT !.showHelp = FALSE])
  \/ ui.showSpawn /\ Render([ui EXCEPT !.showSpawn = FALSE, !.spawnDefaultProject = None])
  \/ ui.pendingReauth /\ Render([ui EXCEPT !.pendingReauth = FALSE])
  \/ ui.modal # None /\ Render([ui EXCEPT !.modal = None])
  \/ ui.pendingInstall # None /\ Render([ui EXCEPT !.pendingInstall = None])

(* Links between the views.  A lane of the Board links to a pending request *)
(* or to a deferred row.                                                    *)
OpenInboxRequest(id) == Render([ui EXCEPT !.selectedId = id, !.view = "inbox"])
OpenInboxDeferred(key) ==
  Render([ui EXCEPT !.selectedId = None, !.expandedDeferred = key, !.view = "inbox"])
BoardLink ==
  /\ ~DialogOpen(ui) /\ ui.view = "board"
  /\ \/ \E id \in Ids(queue) : OpenInboxRequest(id)
     \/ \E key \in Keys : OpenInboxDeferred(key)

ToggleDeferred ==
  /\ ~DialogOpen(ui) /\ ui.view = "inbox"
  /\ \E key \in Keys :
       Render([ui EXCEPT !.expandedDeferred = IF ui.expandedDeferred = key THEN None ELSE key])

FocusTerminal ==
  /\ ~DialogOpen(ui) /\ ui.view = "inbox"
  /\ \E t \in Terms : Render([ui EXCEPT !.focusTerminalId = t, !.view = "terminals"])

SelectAgent ==
  /\ ~DialogOpen(ui) /\ ui.view = "agents" /\ ui.agentDrilldown = None
  /\ \E a \in AgentIds : Render([ui EXCEPT !.agentDrilldown = a])
LeaveAgent ==
  /\ ~DialogOpen(ui) /\ ui.view = "agents" /\ ui.agentDrilldown # None
  /\ Render([ui EXCEPT !.agentDrilldown = None])
SelectSession ==
  /\ ~DialogOpen(ui) /\ ui.view = "sessions"
  /\ \E a \in (IF ui.sessionAgent = None THEN AgentIds ELSE {None}) :
       Render([ui EXCEPT !.sessionAgent = a])

ProjectLinks ==
  /\ ~DialogOpen(ui) /\ ui.view = "projects"
  /\ \E p \in ProjectIds :
       \/ Render([ui EXCEPT !.view = "history"])
       \/ Render([ui EXCEPT !.spawnDefaultProject = p, !.showSpawn = TRUE])
       \/ Render([ui EXCEPT !.pendingInstall = p])

OpenSpawn == ~DialogOpen(ui) /\ Render([ui EXCEPT !.showSpawn = TRUE])

-----------------------------------------------------------------------------
(* Keys.  A key typed into a field, and every key but Escape while a        *)
(* dialog is open, does nothing.                                            *)

(* The order on screen: oldest first in the Inbox, as it came in the Queue. *)
Before(i, j) == IF ui.view = "inbox" /\ queue[i].ts # queue[j].ts
                THEN queue[i].ts < queue[j].ts ELSE i < j
FirstRow(i) == i \in DOMAIN queue /\ \A j \in DOMAIN queue \ {i} : Before(i, j)
NextRow(i, j) == Before(i, j) /\ ~\E k \in DOMAIN queue : Before(i, k) /\ Before(k, j)
Selected(i) == queue[i].id = ui.selectedId

KeysActive == ~DialogOpen(ui) /\ ui.view \in {"inbox", "queue"}
MoveTo(i) == Render([ui EXCEPT !.selectedId = queue[i].id])

KeyNext ==
  /\ KeysActive
  /\ \E j \in DOMAIN queue :
       /\ IF \E i \in DOMAIN queue : Selected(i)
          THEN \E i \in DOMAIN queue : Selected(i) /\ (NextRow(i, j) \/ (j = i /\ ~\E k \in DOMAIN queue : Before(i, k)))
          ELSE FirstRow(j)
       /\ MoveTo(j)

KeyPrev ==
  /\ KeysActive
  /\ \E j \in DOMAIN queue :
       /\ IF \E i \in DOMAIN queue : Selected(i) /\ ~FirstRow(i)
          THEN \E i \in DOMAIN queue : Selected(i) /\ NextRow(j, i)
          ELSE FirstRow(j)
       /\ MoveTo(j)

(* Enter selects the first row when none is; on a focused row the row's own *)
(* handler runs first and the two may be rendered together or in turn.      *)
KeyEnter ==
  /\ KeysActive /\ ui.selectedId = None
  /\ \E i \in DOMAIN queue : FirstRow(i) /\ MoveTo(i)

KeyDecides ==
  /\ KeysActive /\ ui.selectedId # None
  /\ \E verdict \in {"approve", "deny"} : Decide(ui.selectedId, verdict, None, Unselected(ui))

(* onBack: the first of the layers that is there *)
BackBehindDialogs(u) ==
  IF u.selectedId # None THEN Unselected(u)
  ELSE IF u.agentDrilldown # None THEN [u EXCEPT !.agentDrilldown = None]
  ELSE [u EXCEPT !.sessionAgent = None]
Back(u) ==
  IF u.showHelp THEN [u EXCEPT !.showHelp = FALSE]
  ELSE IF u.showSpawn THEN [u EXCEPT !.showSpawn = FALSE, !.spawnDefaultProject = None]
  ELSE BackBehindDialogs(u)

(* Escape in a dialog: every Modal closes in its own capturing listener;    *)
(* then, unless a field has the focus, the window's listener goes back one  *)
(* more layer, before or after React has rendered the first.                *)
Closed(u) == [u EXCEPT !.showHelp = FALSE, !.showSpawn = FALSE, !.spawnDefaultProject = None,
                       !.pendingReauth = FALSE, !.modal = None, !.pendingInstall = None]
KeyEscape ==
  IF ~DialogOpen(ui) THEN Render(Back(ui))
  ELSE \/ Render(Closed(ui))
       \/ Render(BackBehindDialogs(Closed(ui)))

KeyHelp == ~DialogOpen(ui) /\ Render([ui EXCEPT !.showHelp = TRUE])

-----------------------------------------------------------------------------
Click ==
  \/ \E view \in Views : SwitchView(view)
  \/ SelectRow \/ RowDecision \/ ToggleDockRow \/ SelectTerminal \/ DetailDecision
  \/ OpenModal \/ SubmitModal \/ CloseDialog
  \/ BoardLink \/ ToggleDeferred \/ FocusTerminal
  \/ SelectAgent \/ LeaveAgent \/ SelectSession \/ ProjectLinks \/ OpenSpawn
Key == KeyNext \/ KeyPrev \/ KeyEnter \/ KeyDecides \/ KeyEscape \/ KeyHelp
ConsoleNext == FeedChanges \/ ReauthAsked \/ FocusArrives \/ Click \/ Key

ConsoleSpec == ConsoleInit /\ [][ConsoleNext]_consoleVars

-----------------------------------------------------------------------------
AllIds == {item.id : item \in Items}
UiType ==
  [view : Views, selectedId : AllIds \cup {None}, focusTerminalId : Terms \cup {None},
   showSpawn : BOOLEAN, spawnDefaultProject : ProjectIds \cup {None},
   sessionAgent : AgentIds \cup {None}, agentDrilldown : AgentIds \cup {None},
   showHelp : BOOLEAN, pendingReauth : BOOLEAN, modal : DetailModals \cup {None},
   openedFor : AllIds \cup {None}, expandedDeferred : Keys \cup {None},
   pendingInstall : ProjectIds \cup {None}, term : Terms \cup {None}, dock : AllIds \cup {None}]

(* What the variables may hold. *)
ConsoleTypeOK == queue \in Seq(Items) /\ ui \in UiType /\ sent \in Seq([id : AllIds, verdict : {"approve", "deny"},
                                                               note : DetailModals \cup {None}])

(* While the dialog of a DetailView is open, the request beside it is the   *)
(* one it was opened for, although the DetailView of the Queue is reused    *)
(* and the feed, the keys and the links move the selection.                 *)
DialogKeepsRequest ==
  ui.modal # None => ui.openedFor # None /\ ui.openedFor = Detail(ui, queue)

(* A decision is about something the user has in front of him: a message or *)
(* an Always Allow goes with the request its dialog was opened for; any     *)
(* other is for a request the open view offers, or for a selected one that  *)
(* has just left the queue, and never while a dialog is open.               *)
DecisionsAreMeant ==
  sent' # sent =>
    LET c == sent'[Len(sent')] IN
    IF c.note # None
    THEN c.note = ui.modal /\ c.id = ui.openedFor /\ c.id \in Ids(queue)
    ELSE /\ ~DialogOpen(ui)
         /\ \/ c.id \in Offered(ui, queue)
            \/ c.id = ui.selectedId /\ ui.view \in {"inbox", "queue"} /\ c.id \notin Ids(queue)
=============================================================================
