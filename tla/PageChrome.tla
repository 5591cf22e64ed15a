----------------------------- MODULE PageChrome -----------------------------
(***************************************************************************)
(* The surfaces that the impeccable live script draws over the page it     *)
(* edits (live-browser.js): the contextual bar and its rows, the action    *)
(* picker, the Tune popover, the edit badge, the annotation overlay, the   *)
(* insert placeholder, inline copy editing and voice input.                *)
(*                                                                         *)
(* The script keeps one closure of variables and every handler is a chain  *)
(* of calls that update it, so the state is one record p and every         *)
(* function of the script is an operator from p to p.  LivePage.tla has    *)
(* the state machine.  Positions, colours and wording are left out: of a   *)
(* surface the model keeps whether it is displayed and what it holds.      *)
(***************************************************************************)
EXTENDS Naturals, Sequences, SequencesExt

\* The page has one element with text and one without; "ph" is the insert
\* placeholder, an element of the script's own making.
PageElements == {"txt", "img"}

\* The texts the text element may show; it starts with "orig".
Texts == {"orig", "new", "newer"}

(***************************************************************************)
(* What each init function leaves behind.                                  *)
(***************************************************************************)

AnnotInit ==
  [over |-> FALSE, pins |-> <<>>, strokes |-> {}, note |-> 0, typed |-> FALSE,
   ptr |-> [kind |-> "none", idx |-> 0, moved |-> FALSE], last |-> 0]

\* display and row of the bar, the prompt in its input, the Create gate, and
\* whether a 250 ms hide timer runs whose sequence number still counts.
BarInit ==
  [bar |-> [on |-> FALSE, row |-> "none", text |-> FALSE, gate |-> FALSE],
   hide |-> FALSE]

PickerInit == [picker |-> "none", fading |-> FALSE]

TuneInit == [tune |-> FALSE, knob |-> FALSE]

EditInit ==
  [badge |-> "hidden", rows |-> FALSE, base |-> "orig", draft |-> FALSE,
   dom |-> "orig", saves |-> {}, apply |-> FALSE]

ChatInit ==
  [steer |-> [locked |-> FALSE, req |-> 0, text |-> FALSE, open |-> FALSE,
              timer |-> 0, sends |-> {}, asks |-> {}],
   voice |-> [mode |-> "none", rec |-> FALSE, listening |-> FALSE,
              suppress |-> FALSE, fresh |-> FALSE, heard |-> FALSE, submit |-> "none"]]

SelectionInit ==
  [pick |-> TRUE, ins |-> FALSE, kind |-> "replace", sel |-> "none",
   hov |-> "none", line |-> FALSE, ph |-> FALSE]

\* posts and fin: accepts in flight and cleanups scheduled, "cur" for the
\* session on display and "old" for one before it.  sent is what the last
\* generate event carried: its element and the elements its annotations were
\* drawn on.
SessionInit ==
  [session |-> FALSE, vars |-> 0, lock |-> FALSE, pend |-> FALSE, posts |-> {},
   fin |-> {}, discard |-> FALSE, conn |-> TRUE, alive |-> TRUE,
   sent |-> [el |-> "none", on |-> {}]]

\* f @@ g of TLC, in a form that can be reasoned about.
With(f, g) == [x \in DOMAIN f \cup DOMAIN g |-> IF x \in DOMAIN f THEN f[x] ELSE g[x]]

\* init: the state is IDLE until the last line, which enters PICKING when a
\* tool is active.
PageInit ==
  LET surfaces == With(With(AnnotInit, BarInit), With(PickerInit, TuneInit))
      tools    == With(With(EditInit, ChatInit), SelectionInit)
  IN With(With(surfaces, tools), With(SessionInit, [st |-> "PICKING"]))

(***************************************************************************)
(* Voice input.                                                            *)
(***************************************************************************)

\* stopVoice({suppressSubmit: true}): the engine's callbacks are cut, so a
\* late result or end of the released recogniser does nothing.
StopVoice(p) ==
  [p EXCEPT !.voice = [@ EXCEPT !.mode = "none", !.rec = FALSE,
                                !.listening = FALSE, !.suppress = TRUE]]

\* startVoice after its guards: a recogniser that has not started listening
\* is aborted and replaced.
StartVoice(p, mode, submit) ==
  [p EXCEPT !.voice = [mode |-> mode, rec |-> TRUE, listening |-> FALSE,
                       suppress |-> FALSE, fresh |-> TRUE, heard |-> FALSE,
                       submit |-> submit],
            !.steer.open = @ \/ mode = "steer"]

\* The input the recogniser writes to, or wrote to before its row was rebuilt.
HasSpeech(p) ==
  IF ~p.voice.fresh THEN p.voice.heard
  ELSE IF p.voice.mode = "steer" THEN p.steer.text
  ELSE p.bar.text

(***************************************************************************)
(* Annotations.                                                            *)
(***************************************************************************)

ClearAnnotations(p) ==
  [p EXCEPT !.pins = <<>>, !.strokes = {}, !.note = 0, !.typed = FALSE,
            !.ptr = AnnotInit.ptr, !.last = 0]

ShowAnnotOverlay(p) == IF p.sel = "none" THEN p ELSE [p EXCEPT !.over = TRUE]

\* An open note is dropped without touching the pins.
HideAnnotOverlay(p) == [p EXCEPT !.over = FALSE, !.note = 0, !.typed = FALSE]

\* splice(i, 1); a pin deleted by a double click while the note of a later one
\* is open leaves that note's index past the end, where it removes nothing.
Splice(s, i) == IF i \in DOMAIN s THEN RemoveAt(s, i) ELSE s

\* A note that was emptied takes its pin with it.
FinalizeEditingPin(p) ==
  IF p.note = 0 THEN p
  ELSE [p EXCEPT !.pins = IF p.typed THEN [@ EXCEPT ![p.note].text = TRUE]
                          ELSE Splice(@, p.note),
                 !.note = 0, !.typed = FALSE]

\* Escape keeps a pin that had text before this edit.
CancelEditingPin(p) ==
  IF p.note = 0 THEN p
  ELSE [p EXCEPT !.pins = IF p.note \in DOMAIN @ /\ @[p.note].text THEN @
                          ELSE Splice(@, p.note),
                 !.note = 0, !.typed = FALSE]

BeginEditPin(p, i) ==
  IF i \notin DOMAIN p.pins THEN p
  ELSE [p EXCEPT !.note = i, !.typed = p.pins[i].text]

\* canCreateInsert: a prompt, a pin or a stroke.
CanCreateInsert(p) == p.bar.text \/ p.pins # <<>> \/ p.strokes # {}

SyncInsertCreateButton(p) ==
  IF p.bar.row = "insert" THEN [p EXCEPT !.bar.gate = CanCreateInsert(p)] ELSE p

Annotated(p) == {p.pins[i].on : i \in DOMAIN p.pins} \cup p.strokes

(***************************************************************************)
(* Insert placeholder.                                                     *)
(***************************************************************************)

HideInsertLine(p) == [p EXCEPT !.line = FALSE]

FinalizeInsertSession(p) == [p EXCEPT !.ph = FALSE, !.kind = "replace"]

ClearInsertPicking(p) == FinalizeInsertSession(HideInsertLine(p))

CreateInsertPlaceholder(p) == [p EXCEPT !.ph = TRUE]

(***************************************************************************)
(* Inline copy editing and its badge.                                      *)
(***************************************************************************)

HasTextRows(e) == e = "txt"

\* The text of every row is remembered as the original for this edit.
EnableInlineEdit(p) ==
  IF ~HasTextRows(p.sel) THEN p
  ELSE [p EXCEPT !.rows = TRUE, !.base = p.dom, !.draft = FALSE]

DisableInlineEdit(p) == [p EXCEPT !.rows = FALSE, !.draft = FALSE]

RestoreInlineEditDrafts(p) ==
  IF p.rows /\ p.draft THEN [p EXCEPT !.dom = p.base] ELSE p

RenderEditBadge(p, mode) == [p EXCEPT !.badge = mode]

BadgeFor(p) == RenderEditBadge(p, IF HasTextRows(p.sel) THEN "idle" ELSE "hidden")

(***************************************************************************)
(* The bar.                                                                *)
(***************************************************************************)

\* hideActionPicker: the picker fades for 180 ms; the timer is not guarded.
HideActionPicker(p) ==
  [p EXCEPT !.picker = IF @ = "none" THEN "none" ELSE "fading", !.fading = TRUE]

\* Every row is built anew: its input is empty, and a recogniser that was
\* writing to the old input keeps it.
BuildRow(p, row) ==
  [p EXCEPT
     !.bar = [on |-> p.bar.on, row |-> row, text |-> FALSE,
              gate |-> row = "insert" /\ (p.pins # <<>> \/ p.strokes # {})],
     !.voice = IF @.mode = "configure" /\ @.fresh
               THEN [@ EXCEPT !.fresh = FALSE, !.heard = p.bar.text] ELSE @]

\* The configure mode shows the row of the kind being configured.
RowFor(p, mode) ==
  IF mode = "configure" THEN (IF p.kind = "insert" THEN "insert" ELSE "configure")
  ELSE mode

\* showBar as it would be without the new sequence number.
ShowBar_SameSeq(p, mode) ==
  LET q == BuildRow(p, RowFor(p, mode)) IN [q EXCEPT !.bar.on = TRUE]

\* showBar takes a new sequence number, so that no hide timer counts any more.
ShowBar(p, mode) ==
  LET q == BuildRow(p, RowFor(p, mode))
  IN [q EXCEPT !.bar.on = TRUE, !.hide = FALSE]

UpdateBarContent(p, mode) ==
  IF p.bar.on THEN BuildRow(p, RowFor(p, mode)) ELSE p

CloseTunePopover(p) ==
  LET q == [p EXCEPT !.tune = FALSE]
  IN IF p.st = "CYCLING" THEN UpdateBarContent(q, "cycling") ELSE q

\* hideBar as it would be without restoring the drafts.
HideBar_KeepsDrafts(p) ==
  LET a == StopVoice(p)
      b == IF a.kind = "insert" THEN ClearInsertPicking(a) ELSE a
  IN DisableInlineEdit(CloseTunePopover(HideActionPicker([b EXCEPT !.hide = TRUE])))

\* hideBar fades the bar out, but takes down everything it anchors at once.
HideBar(p) ==
  LET a == StopVoice(p)
      b == IF a.kind = "insert" THEN ClearInsertPicking(a) ELSE a
      c == CloseTunePopover(HideActionPicker(
             [b EXCEPT !.hide = TRUE]))
      d == IF c.st = "EDITING" THEN RestoreInlineEditDrafts(c) ELSE c
  IN DisableInlineEdit(d)

(***************************************************************************)
(* Leaving a mode.                                                         *)
(***************************************************************************)

TeardownConfigureChrome(p) ==
  RenderEditBadge(ClearAnnotations(HideAnnotOverlay(HideBar(p))), "hidden")

ExitConfigureToPicking(p, clearHover) ==
  LET q == TeardownConfigureChrome(p)
  IN [q EXCEPT !.st = "PICKING", !.hov = IF clearHover THEN "none" ELSE @]

CancelInsertConfigure(p) ==
  LET q == ClearInsertPicking(ClearAnnotations(HideAnnotOverlay(HideBar(p))))
  IN [q EXCEPT !.sel = "none", !.st = IF p.ins THEN "PICKING" ELSE "IDLE"]

\* cancelEditing returns to CONFIGURING, whatever became of the selection.
CancelEditing(p) ==
  LET q == [DisableInlineEdit(RestoreInlineEditDrafts(p)) EXCEPT !.st = "CONFIGURING"]
  IN RenderEditBadge(ShowAnnotOverlay(ShowBar(q, "configure")), "idle")

CancelEditingToPicking(p) ==
  LET q == HideBar(DisableInlineEdit(RestoreInlineEditDrafts(p)))
      r == RenderEditBadge(ClearAnnotations(HideAnnotOverlay(q)), "hidden")
  IN [r EXCEPT !.st = "PICKING", !.hov = "none"]

RemoveConfigureSelection(p) ==
  IF p.kind = "insert" THEN CancelInsertConfigure(p)
  ELSE ExitConfigureToPicking([p EXCEPT !.sel = "none"], TRUE)

\* cleanup: the end of a session.
Cleanup(p) ==
  LET q == RenderEditBadge(FinalizeInsertSession(HideBar(p)), "hidden")
  IN [q EXCEPT !.lock = FALSE, !.session = FALSE, !.sel = "none", !.st = "PICKING"]

\* cleanupAcceptedSession leaves the insert placeholder to the observer.
CleanupAccepted(p) ==
  LET q == RenderEditBadge(HideBar(p), "hidden")
  IN [q EXCEPT !.lock = FALSE, !.session = FALSE, !.sel = "none", !.pend = FALSE,
               !.st = "PICKING"]

\* The cycling row is never shown without a variant: the session ends instead.
ShowOrUpdateCyclingBar(p) ==
  IF p.vars = 0 THEN Cleanup(p)
  ELSE IF p.bar.on THEN UpdateBarContent(p, "cycling")
  ELSE ShowBar(p, "cycling")

\* The same with the annotations kept, as if only a click cleared them.
Configure_KeepsAnnotations(p, e) ==
  BadgeFor(ShowBar(ShowAnnotOverlay([p EXCEPT !.sel = e, !.st = "CONFIGURING"]), "configure"))

\* Select an element: from the mouse, from Enter, or by arrow keys.
Configure(p, e) ==
  LET q == ClearAnnotations([p EXCEPT !.sel = e, !.st = "CONFIGURING"])
  IN BadgeFor(ShowBar(ShowAnnotOverlay(q), "configure"))

\* The shared tail of handleGo and handleInsertCreate: a session of its own,
\* to which what is still in flight for an earlier one does not belong.
Aged(set) == IF set = {} THEN {} ELSE {"old"}
Generate(p) ==
  LET q == [p EXCEPT !.pend = FALSE, !.session = TRUE, !.vars = 0,
                     !.posts = Aged(@), !.fin = Aged(@),
                     !.sent = [el |-> p.sel, on |-> Annotated(p)],
                     !.st = "GENERATING"]
      r == ShowBar(ClearAnnotations(HideAnnotOverlay(q)), "generating")
  IN [r EXCEPT !.lock = TRUE]

(***************************************************************************)
(* Steer chat.                                                             *)
(***************************************************************************)

\* unlockSteerChat: the text comes back only with an error.
UnlockSteer(p, restore) ==
  [p EXCEPT !.steer = [@ EXCEPT !.locked = FALSE, !.req = 0, !.timer = 0,
                                !.text = restore, !.open = restore]]

\* submitSteerMessage after its guard.
SubmitSteer(p, id) ==
  LET q == StopVoice(p)
  IN [q EXCEPT !.steer = [@ EXCEPT !.locked = TRUE, !.req = id, !.timer = id,
                                   !.open = TRUE, !.sends = @ \cup {id},
                                   !.asks = @ \cup {id}]]

\* syncPageChatVisual, with collapsePageChat refused while listening.
SyncPageChatVisual(p) ==
  IF p.steer.locked THEN p
  ELSE IF p.steer.text THEN [p EXCEPT !.steer.open = TRUE]
  ELSE IF p.voice.listening THEN p
  ELSE [p EXCEPT !.steer.open = FALSE]

=============================================================================
