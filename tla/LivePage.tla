------------------------------ MODULE LivePage ------------------------------
(***************************************************************************)
(* The state machine of the live page (live-browser.js): what a user's     *)
(* clicks, keys and speech, the script's own timers, the answers to its    *)
(* requests and the server's events do to the chrome of PageChrome.tla.    *)
(*                                                                         *)
(* The life of a session between the page, the server and the agent is in  *)
(* LiveSession.tla; here it is reduced to what changes the chrome.         *)
(* Keyboard focus is not tracked: a key may reach any control on display.  *)
(***************************************************************************)
EXTENDS PageChrome, DetectScan

CONSTANTS
  MaxClicks,   \* user steps in a behaviour
  MaxSteer     \* steer requests in a behaviour

ASSUME PageBounds == MaxClicks \in Nat /\ MaxSteer \in Nat

VARIABLES page, clicks, asked

pvars == <<page, clicks, asked>>
chromeVars == <<page, clicks, asked, live, script, wire>>

\* A user step that counts, and any other event.
User(q) ==
  /\ page.alive /\ clicks < MaxClicks
  /\ clicks' = clicks + 1
  /\ page' = q
  /\ UNCHANGED <<asked, dvars>>
Event(q) == page.alive /\ page' = q /\ UNCHANGED <<clicks, asked, dvars>>

ChromeInit ==
  /\ page = PageInit
  /\ clicks = 0
  /\ asked = 0
  /\ OverlaysInit

(***************************************************************************)
(* Picking.                                                                *)
(***************************************************************************)

\* handleMouseMove over an element, or over nothing pickable.
MouseMove ==
  /\ ~page.apply /\ page.st = "PICKING"
  /\ \/ page.ins /\ \E b \in BOOLEAN : b # page.line /\ Event([page EXCEPT !.line = b])
     \/ ~page.ins /\ page.pick
          /\ \E e \in PageElements \ {page.hov} : Event([page EXCEPT !.hov = e])

\* A click on the page outside the script's own surfaces: handleClick closes
\* what it does not belong to before the state decides what it means.
ClickPage ==
  LET a == IF page.picker # "none" THEN HideActionPicker(page) ELSE page
      b == IF a.tune THEN CloseTunePopover(a) ELSE a
  IN CASE page.apply -> User(a)
       [] ~page.apply /\ b.st = "EDITING" /\ b.sel # "none" -> User(CancelEditingToPicking(b))
       [] ~page.apply /\ b.st = "CONFIGURING" /\ b.sel # "none" ->
            User(IF b.kind = "insert" THEN CancelInsertConfigure(b)
                 ELSE ExitConfigureToPicking(b, TRUE))
       [] ~page.apply /\ b.st = "PICKING" /\ b.ins /\ b.line ->
            LET c == HideInsertLine(CreateInsertPlaceholder(b))
                d == ClearAnnotations([c EXCEPT !.kind = "insert", !.sel = "ph",
                                                !.st = "CONFIGURING"])
            IN User(ShowBar(ShowAnnotOverlay(d), "configure"))
       [] ~page.apply /\ b.st = "PICKING" /\ ~b.ins /\ b.pick /\ b.hov # "none" ->
            User(Configure(b, b.hov))
       [] OTHER -> b # page /\ User(b)

\* Enter on the hovered element, and the arrow keys in PICKING and CONFIGURING.
KeyPick ==
  /\ ~page.apply
  /\ \/ page.st = "PICKING" /\ page.hov # "none" /\ User(Configure(page, page.hov))
     \/ \E e \in PageElements :
          \/ /\ page.st = "PICKING" /\ page.hov \in PageElements \ {e}
             /\ User([page EXCEPT !.hov = e])
          \/ /\ page.st = "CONFIGURING" /\ page.sel \in PageElements \ {e}
             /\ ~page.bar.text
             /\ User(DisableInlineEdit(Configure(page, e)))

\* Escape outside the inputs.
Escape ==
  /\ ~page.apply
  /\ CASE page.picker # "none" -> User(HideActionPicker(page))
       [] page.picker = "none" /\ page.st = "EDITING" -> User(CancelEditing(page))
       [] page.picker = "none" /\ page.st = "CONFIGURING" ->
            User(IF page.kind = "insert" THEN CancelInsertConfigure(page)
                 ELSE ExitConfigureToPicking(page, FALSE))
       [] page.picker = "none" /\ page.st = "PICKING" /\ ~page.ins /\ ~page.pick ->
            User([page EXCEPT !.st = "IDLE"])
       [] OTHER -> FALSE

\* togglePick, from its button or from Escape in PICKING.
TogglePick ==
  /\ ~page.apply
  /\ IF ~page.pick
     THEN LET q == ClearInsertPicking([page EXCEPT !.pick = TRUE, !.ins = FALSE])
          IN User(IF q.st = "IDLE" THEN [q EXCEPT !.st = "PICKING"] ELSE q)
     ELSE LET q == TeardownConfigureChrome([page EXCEPT !.pick = FALSE])
          IN User([HideActionPicker(q) EXCEPT
                     !.sel = "none", !.hov = "none", !.kind = "replace",
                     !.st = IF @ \in {"PICKING", "CONFIGURING"} THEN "IDLE" ELSE @])

\* toggleInsert, from its button or from Escape in PICKING.
ToggleInsert ==
  /\ ~page.apply
  /\ IF ~page.ins
     THEN LET q == [HideActionPicker(HideBar([page EXCEPT !.ins = TRUE, !.pick = FALSE]))
                      EXCEPT !.sel = "none", !.kind = "replace"]
          IN User(IF q.st = "CONFIGURING" THEN CancelInsertConfigure(q)
                  ELSE IF q.st = "IDLE" THEN [q EXCEPT !.st = "PICKING"] ELSE q)
     ELSE LET q == ClearInsertPicking([page EXCEPT !.ins = FALSE])
          IN User(IF q.st = "PICKING" /\ ~q.pick THEN [q EXCEPT !.st = "IDLE"] ELSE q)

(***************************************************************************)
(* The configure rows.                                                     *)
(***************************************************************************)

ConfigureRow == page.bar.on /\ page.bar.row = "configure"
InsertRow == page.bar.on /\ page.bar.row = "insert"

\* Typing in the row's input; the insert row re-evaluates its Create gate.
TypePrompt ==
  /\ (ConfigureRow \/ InsertRow) /\ ~page.apply
  /\ User(SyncInsertCreateButton([page EXCEPT !.bar.text = ~@]))

\* The selection pill's clear button.
ClickPill == (ConfigureRow \/ InsertRow) /\ ~page.apply /\ User(RemoveConfigureSelection(page))

\* toggleActionPicker: a picker that is still fading counts as open.
ClickAction ==
  /\ ConfigureRow /\ ~page.apply
  /\ User(IF page.picker # "none" THEN HideActionPicker(page)
          ELSE [page EXCEPT !.picker = "open"])

\* A chip of the picker: the row is rebuilt and the prompt put back.
ChooseAction ==
  /\ page.picker = "open"
  /\ LET q == UpdateBarContent(HideActionPicker(page), "configure")
     IN User(IF q.bar.row = "configure" /\ page.bar.row = "configure"
             THEN [q EXCEPT !.bar.text = page.bar.text] ELSE q)

\* handleGo.
GoFrom(p) ==
  LET q == Generate(DisableInlineEdit(FinalizeEditingPin(StopVoice(p))))
  IN IF p.badge = "hidden" THEN q ELSE RenderEditBadge(q, "idle-disabled")
CanGo(p) == ~p.apply /\ p.sel # "none" /\ p.st = "CONFIGURING"
Go == ConfigureRow /\ CanGo(page) /\ User(GoFrom(page))

\* handleInsertCreate, from the button or Enter while the gate is open.
CanCreate(p) ==
  /\ p.ph /\ p.st = "CONFIGURING" /\ p.kind = "insert"
  /\ CanCreateInsert(FinalizeEditingPin(p))
CreateFrom(p) ==
  IF CanCreate(p) THEN Generate(StopVoice([FinalizeEditingPin(p) EXCEPT !.sel = "ph"]))
  ELSE IF p.ph /\ p.st = "CONFIGURING" /\ p.kind = "insert" THEN FinalizeEditingPin(p)
  ELSE p
Create ==
  /\ InsertRow /\ page.bar.gate /\ ~page.apply
  /\ CreateFrom(page) # page
  /\ User(CreateFrom(page))

(***************************************************************************)
(* Annotations.  Clicks on pins, strokes and empty space of the overlay.   *)
(***************************************************************************)

\* onAnnotDown on the Clear chip, on a stroke, on a pin, or on empty space.
AnnotDown ==
  /\ page.over /\ page.ptr.kind = "none"
  /\ \/ (page.pins # <<>> \/ page.strokes # {}) /\ User(ClearAnnotations(page))
     \/ \E s \in page.strokes : User([page EXCEPT !.strokes = @ \ {s}])
     \/ \E i \in DOMAIN page.pins :
          \/ \* the second press within the double-click window deletes the pin
             /\ page.last = i
             /\ User([page EXCEPT !.pins = Splice(@, i), !.last = 0,
                                  !.note = IF @ = i THEN 0 ELSE @,
                                  !.typed = IF page.note = i THEN FALSE ELSE @])
          \/ LET q == IF page.note \notin {0, i} THEN FinalizeEditingPin(page) ELSE page
             IN User(IF q.note = i \/ i \notin DOMAIN q.pins THEN [q EXCEPT !.last = i]
                     ELSE [q EXCEPT !.last = i,
                             !.ptr = [kind |-> "pin", idx |-> i, moved |-> FALSE]])
     \/ User(IF page.note # 0 THEN FinalizeEditingPin(page)
             ELSE [page EXCEPT !.ptr = [kind |-> "new", idx |-> 0, moved |-> FALSE]])

\* onAnnotMove past the drag threshold.
AnnotMove ==
  /\ page.over /\ page.ptr.kind # "none" /\ ~page.ptr.moved
  /\ Event([page EXCEPT !.ptr.moved = TRUE])

\* onAnnotUp: a drag moves a pin or leaves a stroke, a click opens a note.
AnnotUp ==
  /\ page.over /\ page.ptr.kind # "none"
  /\ LET q == [page EXCEPT !.ptr = AnnotInit.ptr]
         r == CASE page.ptr.kind = "pin" /\ page.ptr.moved -> [q EXCEPT !.last = 0]
                [] page.ptr.kind = "pin" /\ ~page.ptr.moved -> BeginEditPin(q, page.ptr.idx)
                [] page.ptr.kind = "new" /\ page.ptr.moved ->
                     SyncInsertCreateButton([q EXCEPT !.strokes = @ \cup {page.sel}])
                [] OTHER ->
                     LET s == [q EXCEPT !.pins = Append(@, [text |-> FALSE, on |-> page.sel])]
                     IN SyncInsertCreateButton(BeginEditPin(s, Len(s.pins)))
     IN Event(r)

\* The note's input: typing, Enter or blur, Escape.
NoteInput ==
  /\ page.over /\ page.note # 0
  /\ \/ User([page EXCEPT !.typed = ~@])
     \/ Event(FinalizeEditingPin(page))
     \/ User(CancelEditingPin(page))

(***************************************************************************)
(* Inline copy editing.                                                    *)
(***************************************************************************)

\* enterEditingMode, from the badge.
ClickEdit ==
  /\ page.badge = "idle" /\ ~page.apply
  /\ LET q == HideAnnotOverlay(HideBar([page EXCEPT !.st = "EDITING"]))
     IN User(EnableInlineEdit(RenderEditBadge(q, "editing")))

\* Typing in the text, and Escape inside it, which restores that text only.
TypeCopy ==
  /\ page.rows
  /\ \/ \E t \in Texts \ {page.dom} : User([page EXCEPT !.dom = t, !.draft = TRUE])
     \/ User([page EXCEPT !.dom = page.base, !.draft = FALSE])

ClickCancel == page.badge = "editing" /\ User(CancelEditing(page))

\* applyEditing: without a change it cancels; else the change is posted and
\* the page stays as it is until the answer.
ClickSave ==
  /\ page.badge = "editing" /\ ~page.apply
  /\ User(IF page.rows /\ page.draft /\ page.dom # page.base
          THEN [page EXCEPT !.saves = @ \cup {page.dom}]
          ELSE CancelEditing(page))

\* The answer of /manual-edit-stash: a success re-enters CONFIGURING, whatever
\* the user did meanwhile; a failure only shows a toast.
SaveAnswered ==
  \E t \in page.saves, ok \in BOOLEAN :
    LET q == [page EXCEPT !.saves = @ \ {t}]
        r == [DisableInlineEdit(q) EXCEPT !.st = "CONFIGURING"]
    IN Event(IF ok THEN RenderEditBadge(ShowAnnotOverlay(ShowBar(r, "configure")), "idle")
             ELSE q)

\* refreshLiveControlsForManualApply: an apply of pending copy edits starts or
\* ends (CopyEdits.tla).  The row keeps its prompt; the insert row does not.
RefreshLiveControls(p) ==
  LET a == IF p.apply THEN CloseTunePopover(HideActionPicker(p)) ELSE p
      b == IF a.bar.on /\ a.st = "CONFIGURING"
           THEN LET u == UpdateBarContent(a, "configure")
                IN IF u.bar.row = "configure" /\ a.bar.row = "configure"
                   THEN [u EXCEPT !.bar.text = a.bar.text] ELSE u
           ELSE a
  IN IF b.badge = "hidden" THEN b
     ELSE IF b.apply THEN RenderEditBadge(b, "idle-disabled")
     ELSE IF b.st = "CONFIGURING" /\ HasTextRows(b.sel) THEN RenderEditBadge(b, "idle")
     ELSE b
ApplyFlips ==
  \/ ~page.apply /\ User(RefreshLiveControls([page EXCEPT !.apply = TRUE]))
  \/ page.apply /\ Event(RefreshLiveControls([page EXCEPT !.apply = FALSE]))

(***************************************************************************)
(* The script's timers.                                                    *)
(***************************************************************************)

\* hideBar's 250 ms timer; one that was superseded would do nothing.
HideTimer == page.hide /\ Event([page EXCEPT !.hide = FALSE, !.bar.on = FALSE])

\* hideActionPicker's 180 ms timer has no such number.
PickerTimer ==
  page.fading /\ Event([page EXCEPT !.fading = FALSE, !.picker = "none"])

(***************************************************************************)
(* The session, as far as the chrome shows it.                             *)
(***************************************************************************)

\* The variant observer: one more variant is in the page; with the last of
\* two the session cycles.
VariantArrives ==
  /\ page.conn /\ page.session /\ page.vars < 2
  /\ LET q == [page EXCEPT !.vars = @ + 1, !.sel = "txt"]
         r == IF q.kind = "insert" THEN FinalizeInsertSession(q) ELSE q
     IN Event(IF q.vars = 2
              THEN DisableInlineEdit(ShowOrUpdateCyclingBar([r EXCEPT !.st = "CYCLING"]))
              ELSE IF q.st = "GENERATING" THEN UpdateBarContent(q, "generating") ELSE q)

CyclingRow == page.bar.on /\ page.bar.row = "cycling" /\ page.st = "CYCLING"

\* toggleTunePopover, and a knob of the panel; opening applies the defaults.
ClickTune ==
  /\ CyclingRow /\ ~page.apply
  /\ User(IF page.tune THEN CloseTunePopover(page)
          ELSE ShowOrUpdateCyclingBar([page EXCEPT !.tune = TRUE, !.knob = FALSE]))
TurnKnob == page.tune /\ ~page.knob /\ User([page EXCEPT !.knob = TRUE])

\* handleAccept, and the failure of its post.
ClickAccept ==
  /\ CyclingRow /\ ~page.apply /\ ~page.pend
  /\ page.session /\ page.vars > 0
  /\ LET q == UpdateBarContent([page EXCEPT !.st = "SAVING"], "saving")
     IN User([q EXCEPT !.pend = TRUE, !.posts = @ \cup {"cur"}])
AcceptAnswered ==
  \E which \in page.posts, ok \in BOOLEAN :
    LET q == [page EXCEPT !.posts = @ \ {which}]
        r == [q EXCEPT !.pend = @ /\ which # "cur", !.st = "CYCLING"]
    IN Event(IF ok THEN q ELSE ShowOrUpdateCyclingBar(r))

\* The complete event, for the accept that is pending.
Complete ==
  /\ page.conn /\ page.pend /\ "cur" \notin page.fin
  /\ LET q == UpdateBarContent([page EXCEPT !.st = "CONFIRMED"], "confirmed")
     IN Event([q EXCEPT !.fin = @ \cup {"cur"}])

\* The cleanup after it: at once when the page's DOM is already clean, else by
\* a second timer that looks whether the accept is still the pending one.
AcceptCleanup ==
  \E which \in page.fin, clean \in BOOLEAN :
    LET q == [page EXCEPT !.fin = @ \ {which}]
    IN Event(IF clean \/ (which = "cur" /\ q.pend) THEN CleanupAccepted(q) ELSE q)

\* handleDiscard, from its button or Escape, and its answer.
ClickDiscard ==
  /\ page.st = "CYCLING" /\ page.session /\ ~page.apply /\ ~page.discard
  /\ User([page EXCEPT !.discard = TRUE])
DiscardAnswered ==
  /\ page.discard
  /\ \E ok \in BOOLEAN :
       LET q == [page EXCEPT !.discard = FALSE] IN Event(IF ok THEN Cleanup(q) ELSE q)

\* The server's discarded and error events.  An error of the pending accept
\* goes back to cycling; any other one only takes the bar down.
Discarded == page.conn /\ page.session /\ Event(Cleanup(page))
ErrorMsg ==
  /\ page.conn /\ page.session
  /\ \/ page.pend /\ Event(UpdateBarContent([page EXCEPT !.pend = FALSE, !.st = "CYCLING"],
                                           "cycling"))
     \/ ~page.pend /\ Event([RenderEditBadge(HideBar(page), "hidden") EXCEPT !.st = "PICKING"])

\* handleServerLost, after the last reconnect.
ServerLost ==
  /\ page.conn
  /\ LET q == HideAnnotOverlay(HideBar(page))
     IN Event([q EXCEPT !.conn = FALSE, !.lock = FALSE, !.sel = "none",
                        !.st = IF page.session THEN page.st ELSE "IDLE"])

(***************************************************************************)
(* The steer chat and voice input.                                         *)
(***************************************************************************)

\* Typing in the chat, and Escape in it.
TypeSteer ==
  /\ ~page.steer.locked
  /\ User(SyncPageChatVisual([page EXCEPT !.steer.text = ~@]))

\* Enter in the chat, or the end of a dictation: submitSteerMessage.
SteerFrom(p) == IF p.steer.text /\ ~p.steer.locked THEN SubmitSteer(p, asked + 1) ELSE StopVoice(p)
Steers(q) ==
  /\ page' = q
  /\ asked' = IF q.steer.req = asked + 1 THEN asked + 1 ELSE asked
  /\ asked' <= MaxSteer
  /\ UNCHANGED dvars
Steer ==
  /\ page.alive /\ clicks < MaxClicks /\ clicks' = clicks + 1
  /\ page.steer.text /\ ~page.steer.locked
  /\ Steers(SteerFrom(page))

\* The post of a steer request fails: the chat is unlocked, whichever request
\* it is waiting for by then.
SteerSent ==
  \E id \in page.steer.sends, ok \in BOOLEAN :
    LET q == [page EXCEPT !.steer.sends = @ \ {id}]
    IN Event(IF ok THEN q ELSE UnlockSteer([q EXCEPT !.steer.asks = @ \ {id}], TRUE))

\* The agent's steer_done or error counts only for the request on display.
SteerAnswered ==
  \E id \in page.steer.asks, ok \in BOOLEAN :
    LET q == [page EXCEPT !.steer.asks = @ \ {id}]
    IN page.conn /\ Event(IF q.steer.req = id THEN UnlockSteer(q, ~ok) ELSE q)

\* The await timer of the last request.
SteerTimeout ==
  /\ page.steer.timer # 0
  /\ Event(IF page.steer.locked /\ page.steer.req = page.steer.timer
           THEN UnlockSteer(page, TRUE) ELSE [page EXCEPT !.steer.timer = 0])

\* toggleSteerVoice and toggleConfigureVoice, with startVoice's guards.
ClickVoice ==
  LET v == page.voice
      stop(mode) == v.listening /\ v.mode = mode
  IN \/ /\ ~page.steer.locked
        /\ \/ stop("steer") /\ User(StopVoice(page))
           \/ /\ ~v.listening /\ page.st # "CONFIGURING"
              /\ User(StartVoice(page, "steer", "steer"))
     \/ /\ ConfigureRow \/ InsertRow
        /\ \/ stop("configure") /\ User(StopVoice(page))
           \/ /\ ~v.listening /\ page.st = "CONFIGURING"
              /\ User(StartVoice(page, "configure",
                                 IF page.kind = "insert" THEN "create" ELSE "go"))

\* The recogniser starts, hears something, or fails.
SpeechHeard(p) ==
  IF ~p.voice.fresh THEN [p EXCEPT !.voice.heard = TRUE]
  ELSE IF p.voice.mode = "steer" THEN SyncPageChatVisual([p EXCEPT !.steer.text = TRUE])
  ELSE [p EXCEPT !.bar.text = TRUE]
VoiceHears ==
  /\ page.voice.rec
  /\ \/ ~page.voice.listening /\ Event([page EXCEPT !.voice.listening = TRUE])
     \/ page.voice.listening /\ ~HasSpeech(page) /\ Event(SpeechHeard(page))
     \/ Event(StopVoice(page))

\* finishVoiceSession: what was heard is submitted, unless the mode is over.
VoiceEnds ==
  LET v == page.voice
      heard == ~v.suppress /\ HasSpeech(page)
      q == [page EXCEPT !.voice = [@ EXCEPT !.mode = "none", !.rec = FALSE,
                                            !.listening = FALSE, !.suppress = FALSE]]
      submits(submit) == heard /\ v.mode = "configure" /\ q.st = "CONFIGURING" /\ v.submit = submit
  IN /\ page.alive /\ v.rec /\ UNCHANGED clicks
     /\ Steers(CASE heard /\ v.mode = "steer" /\ ~q.steer.locked -> SteerFrom(q)
                 [] submits("create") -> CreateFrom(q)
                 [] submits("go") /\ CanGo(q) -> GoFrom(q)
                 [] OTHER -> q)

(***************************************************************************)
(* Detect, and the end.                                                    *)
(***************************************************************************)

ClickDetect ==
  /\ page.alive /\ ~page.apply /\ clicks < MaxClicks
  /\ clicks' = clicks + 1
  /\ DetectOn \/ DetectOff
  /\ UNCHANGED <<page, asked>>

DetectStep == (Deliver \/ ScriptLoads \/ AnalysisSettles) /\ UNCHANGED pvars

\* teardown, from the exit button or the server's shutdown: every surface is
\* removed; the text of the page is what the calls before that leave.
Teardown ==
  /\ page.alive
  /\ page' = [PageInit EXCEPT !.alive = FALSE, !.st = "IDLE",
                              !.dom = HideBar(Cleanup(StopVoice(page))).dom]
  /\ clicks' = MaxClicks /\ asked' = MaxSteer
  /\ DetectExit

\* The buttons of the bar at the foot of the page.
GlobalBar == TogglePick \/ ToggleInsert \/ ClickDetect \/ Teardown

UserStep ==
  \/ MouseMove \/ ClickPage \/ KeyPick \/ Escape \/ GlobalBar
  \/ TypePrompt \/ ClickPill \/ ClickAction \/ ChooseAction \/ Go \/ Create
  \/ AnnotDown \/ AnnotMove \/ AnnotUp \/ NoteInput
  \/ ClickEdit \/ TypeCopy \/ ClickCancel \/ ClickSave
  \/ ClickTune \/ TurnKnob \/ ClickAccept \/ ClickDiscard
  \/ TypeSteer \/ Steer \/ ClickVoice
PageEvent ==
  \/ HideTimer \/ PickerTimer \/ SaveAnswered \/ ApplyFlips
  \/ VariantArrives \/ AcceptAnswered \/ Complete \/ AcceptCleanup
  \/ DiscardAnswered \/ Discarded \/ ErrorMsg \/ ServerLost
  \/ SteerSent \/ SteerAnswered \/ SteerTimeout \/ VoiceHears \/ VoiceEnds
  \/ DetectStep

ChromeNext == UserStep \/ PageEvent

ChromeSpec == ChromeInit /\ [][ChromeNext]_chromeVars

(***************************************************************************)
(* Properties.                                                             *)
(***************************************************************************)

\* While an element is being configured and the server is there, the bar is on
\* display, and no hide timer that still counts is running: the bar a user is
\* typing into cannot vanish because it was hidden 250 ms ago (barHideSeq).
ConfigureBarStays ==
  page.alive /\ page.conn /\ page.st = "CONFIGURING" /\ page.sel # "none"
    => page.bar.on /\ ~page.hide

\* Annotations drawn on one element are never sent as annotations of another,
\* however the selection moved before Go.  Not so while a session runs: a late
\* variant of it takes over the selection, annotated or not.
AnnotationsFit ==
  [][ page'.sent # page.sent /\ ~page.session
        => page'.sent.on \subseteq {page'.sent.el} ]_chromeVars

\* A user step that ends an edit leaves nothing behind: with no save on its
\* way, the page shows the text it showed when the edit began.
UnsavedTextUndone ==
  [][ page.st = "EDITING" /\ page.rows /\ page.saves = {} /\ clicks' # clicks
        /\ page'.st # "EDITING" => page'.dom = page.base ]_chromeVars

=============================================================================
