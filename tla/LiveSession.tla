---------------------------- MODULE LiveSession -----------------------------
(***************************************************************************)
(* A variant session of live mode from Go to Accept or Discard: the page's *)
(* script (live-browser.js), the helper server with its event queue and    *)
(* leases (live-server.mjs), the durable journal (live/session-store.mjs), *)
(* the poll script and the agent behind it (live-poll.mjs,                 *)
(* live-complete.mjs), and the source file they all work on (SourceWrap).  *)
(*                                                                         *)
(* Requests of the page are independent fetches: they may arrive in any    *)
(* order (up).  Pushed events arrive in order on one stream (wire).  The   *)
(* page's picture of the file is refreshed by hot reload (hmr) or, where   *)
(* there is none, fetched after the agent's done.                          *)
(***************************************************************************)
EXTENDS SourceWrap

CONSTANTS Ids,        \* session ids, drawn in turn by Go
          NoId,       \* no session
          Files,      \* source files: [lines, jsx, key, tag, text, css, hmr, pos,
                      \* edits: copy edits staged for it]
          Variants,   \* number of variants asked for
          MaxExtras,  \* bound on faults and delivered checkpoints together
          MaxClicks,  \* bound on accepts and discards
          MaxUp       \* bound on requests in flight

ASSUME LiveAssumption ==
    /\ NoId \notin Ids /\ Variants \in Nat \ {0}
    /\ {MaxExtras, MaxClicks, MaxUp} \subseteq Nat
    /\ \A f, g \in Files : [f EXCEPT !.lines = g.lines] = g => f = g

VARIABLES
    src,                 \* the file
    dom,                 \* id |-> variants of its wrapper in the page, -1 if absent
    st, sid,             \* state, currentSessionId
    arrived, visible,    \* arrivedVariants, visibleVariant
    pending,             \* pendingAcceptedSession: [id, v, fin]
    observer,            \* session the variantObserver watches, NoId if off
    known,               \* the page knows the session's source file
    saved, handled,      \* localStorage: [id, st, arrived, visible, file], handled id
    capture,             \* generate events whose screenshot is being taken
    timers,              \* set of [kind, id]: accept1, accept2, swap, inject
    mark, rev,           \* a checkpoint is queued; checkpointRevision
    auth, sse,           \* the page has the server's token; its stream: open, retry, closed
    up, answers, wire,   \* requests, their answers, pushed events
    alive, queue,        \* the server and its pendingEvents
    cache, disk, torn,   \* snapshots in memory, in the journal; torn last lines
    agent, job,          \* the agent polls; the event it works on
    drawn, clicks, faults, \* ids used, clicks and faults so far
    lost                 \* history: of what is said once, what did not arrive or
                         \* was forgotten by a reload

browser == <<st, sid, arrived, visible, pending, observer, known, saved, handled,
             capture, timers, mark, rev>>
net     == <<auth, sse, up, answers, wire>>
server  == <<alive, queue, cache, disk, torn>>
vars    == <<src, lost, dom, browser, net, server, agent, job, drawn, clicks, faults>>

NoSession == [id |-> NoId, v |-> 0, fin |-> FALSE]
NoSave    == [id |-> NoId, st |-> "IDLE", arrived |-> 0, visible |-> 0, file |-> FALSE]
NoJob     == [id |-> NoId, type |-> "none", v |-> 0, step |-> "none"]
Fresh     == [phase |-> "new", ev |-> "none", v |-> 0, rev |-> 0, file |-> FALSE]

Body(s, v) == <<Line(0, <<Open("p", NoKey), Text(<<s, v>>), Close("p")>>)>>

\* variants of s the file holds between its markers, -1 without markers
InSource(lines, s) ==
    LET B == FindMarkerBlock(lines, s)
    IN  IF B = {} THEN -1
        ELSE Cardinality({v \in 1..Variants : \E b \in B : \E i \in b.start .. b.end :
                              Text(<<s, v>>).key \in Keys(lines[i])})
\* the file's lines before live mode
Original == (CHOOSE f \in Files : [f EXCEPT !.lines = src.lines] = src).lines
Rendered(lines) == [s \in Ids |-> InSource(lines, s)]
Applied(s, v)   == \E i \in DOMAIN src.lines : Text(<<s, v>>).key \in Keys(src.lines[i])

Init ==
    /\ src \in Files
    /\ dom = [s \in Ids |-> -1]
    /\ st = "PICKING" /\ sid = NoId /\ arrived = 0 /\ visible = 0
    /\ pending = NoSession /\ observer = NoId /\ known = FALSE
    /\ saved = NoSave /\ handled = NoId
    /\ capture = {} /\ timers = {} /\ mark = FALSE /\ rev = 0
    /\ auth = TRUE /\ sse = "open" /\ up = {} /\ answers = {} /\ wire = <<>>
    /\ alive = TRUE /\ queue = <<>>
    /\ cache = [s \in Ids |-> Fresh] /\ disk = [s \in Ids |-> Fresh] /\ torn = {}
    /\ agent = TRUE /\ job = NoJob /\ drawn = {} /\ clicks = 0 /\ faults = 0 /\ lost = {}

-----------------------------------------------------------------------------
(* The journal: live/session-store.mjs *)

\* applyEvent
Finished == {"completed", "discarded"}
ApplyEvent(p, e) ==
    LET asked(phase) == [p EXCEPT !.phase = phase, !.ev = e.type, !.v = e.v]
        over(phase)  == [p EXCEPT !.phase = phase, !.ev = "none"]
    IN  CASE e.type = "generate"   -> asked("generate_requested")
          [] e.type = "accept"     -> asked("accept_requested")
          [] e.type = "discard"    -> asked("discard_requested")
          [] e.type = "agent_done" -> [over("variants_ready") EXCEPT !.file = TRUE]
          [] e.type = "carbonize"  -> over("carbonize_required")
          [] e.type = "discarded"  -> over("discarded")
          [] e.type = "complete"   -> over("completed")
          [] e.type = "error"      -> over("agent_error")
          [] e.type = "checkpoint" ->
                IF p.phase \in Finished \/ e.v < p.rev THEN p
                ELSE [p EXCEPT !.phase = e.phase, !.rev = e.v]

\* appendEvent; a line that follows a torn one is unreadable with it
AppendEvent(s, e) ==
    /\ cache' = [cache EXCEPT ![s] = ApplyEvent(@, e)]
    /\ disk'  = IF s \in torn THEN disk ELSE [disk EXCEPT ![s] = ApplyEvent(@, e)]
    /\ torn'  = torn \ {s}

\* listActiveSessions: getSnapshot reads the journal again
ActiveSessions == {s \in Ids : disk[s] # Fresh /\ disk[s].phase \notin Finished}

\* activeSessionSummaries, as they are when the stream opens
Summaries == {[id |-> s, phase |-> disk[s].phase, file |-> disk[s].file] : s \in ActiveSessions}

-----------------------------------------------------------------------------
(* The queue: live-server.mjs *)

\* enqueueEvent
Enqueue(q, e) ==
    IF \E i \in DOMAIN q : q[i].id = e.id /\ q[i].id # NoId /\ q[i].type = e.type
    THEN q ELSE Append(q, [id |-> e.id, type |-> e.type, v |-> e.v, leased |-> FALSE])

\* acknowledgePendingEvent: the first entry with the id, whatever its type
Ack(q, s) ==
    LET I == {i \in DOMAIN q : q[i].id = s}
    IN  IF I = {} THEN q ELSE RemoveAt(q, Min(I))

\* what the page and the server tell each other once: other messages are made
\* up for by a hot reload, a fetch or the next connection
Once == {"generate", "accept", "complete", "discarded"}
Lose(types) == lost' = lost \cup (types \cap Once)

\* broadcast: a page without a stream hears nothing
Push(m) == /\ wire' = IF sse = "open" THEN Append(wire, m) ELSE wire
           /\ Lose(IF sse = "open" THEN {} ELSE {m.type})

Req(type, s, v, phase) == [type |-> type, id |-> s, v |-> v, phase |-> phase]
Msg(type, s)           == [type |-> type, id |-> s, active |-> {}]

\* POST /events: journal first, then the queue; a rejected or lost request is
\* answered with an error
Post(r) ==
    /\ r \in up /\ up' = up \ {r}
    /\ LET ok == alive /\ auth IN
       /\ answers' = IF r.type \in {"accept", "discard"}
                     THEN answers \cup {[type |-> r.type, id |-> r.id, ok |-> ok]} ELSE answers
       /\ IF ok THEN /\ AppendEvent(r.id, r)
                     /\ queue' = IF r.type = "checkpoint" THEN queue ELSE Enqueue(queue, r)
                ELSE UNCHANGED <<cache, disk, torn, queue>>
       /\ Lose(IF ok \/ r.type # "generate" THEN {} ELSE {r.type})
    /\ UNCHANGED <<src, dom, browser, auth, sse, wire, alive, agent, job, drawn, clicks, faults>>

\* POST /poll: the reply acknowledges, is journalled and is pushed to the page
PollReply(s, type) ==
    LET acked    == \E i \in DOMAIN queue : queue[i].id = s
        existing == disk[s] # Fresh
        skip     == ~acked /\ disk[s].phase \in Finished
        entry    == IF type = "done" THEN "agent_done" ELSE type
        pushed   == IF type = "carbonize" THEN "agent_done" ELSE type
    IN  /\ queue' = Ack(queue, s)
        /\ IF (acked \/ existing) /\ ~skip
           THEN AppendEvent(s, Req(entry, s, 0, "none")) ELSE UNCHANGED <<cache, disk, torn>>
        /\ IF acked \/ existing THEN Push(Msg(pushed, s)) ELSE UNCHANGED <<wire, lost>>

\* the lease of an event whose agent died runs out
LeaseExpires ==
    \E i \in DOMAIN queue :
        /\ queue[i].leased /\ ~(job.id = queue[i].id /\ job.type = queue[i].type)
        /\ queue' = [queue EXCEPT ![i].leased = FALSE]
        /\ UNCHANGED <<src, lost, dom, browser, net, alive, cache, disk, torn, agent, job, drawn, clicks, faults>>

\* eight seconds without a page: an anonymous exit tells the agent to stop
ExitTimer ==
    /\ alive /\ sse # "open"
    /\ \A i \in DOMAIN queue : queue[i].type # "exit"
    /\ queue' = Append(queue, [id |-> NoId, type |-> "exit", v |-> 0, leased |-> FALSE])
    /\ UNCHANGED <<src, lost, dom, browser, net, alive, cache, disk, torn, agent, job, drawn, clicks, faults>>

\* GET /events: a queued exit is withdrawn, the page is told what is active
Connected ==
    /\ sse' = "open" /\ wire' = <<[type |-> "connected", id |-> NoId, active |-> Summaries]>>
    /\ queue' = SelectSeq(queue, LAMBDA e : e.type # "exit")
    /\ cache' = disk

-----------------------------------------------------------------------------
(* The agent: live-poll.mjs, live-accept.mjs, live-complete.mjs *)

agentIdle == <<dom, browser, drawn, clicks, faults>>

\* GET /poll: the first entry without a lease; an exit is gone once delivered
Poll ==
    LET A == {i \in DOMAIN queue : ~queue[i].leased}
    IN  /\ agent /\ job = NoJob /\ alive /\ A # {}
        /\ LET e == queue[Min(A)] IN
           IF e.type = "exit"
           THEN /\ agent' = FALSE /\ queue' = RemoveAt(queue, Min(A)) /\ UNCHANGED job
           ELSE /\ job' = [id |-> e.id, type |-> e.type, v |-> e.v, step |-> "got"]
                /\ queue' = [queue EXCEPT ![Min(A)].leased = TRUE] /\ UNCHANGED agent
        /\ UNCHANGED <<agentIdle, lost, src, net, alive, cache, disk, torn>>

\* live-wrap, or live-insert next to the anchor; a session whose wrapper is
\* already there is not scaffolded again
Wrap ==
    /\ job.type = "generate" /\ job.step = "got"
    /\ LET C == Resolve(src.lines, src.key, src.tag, src.text)
           done == InSource(src.lines, job.id) # -1
           at == CHOOSE c \in C : TRUE
       IN  /\ src' = IF done \/ C = {} THEN src
                     ELSE [src EXCEPT !.lines =
                             IF src.pos = "replace" THEN WrapLines(@, job.id, at, src.jsx, src.edits)
                             ELSE InsertLines(@, job.id, at, src.jsx, src.pos)]
           /\ job' = [job EXCEPT !.step = IF done \/ C # {} THEN "wrapped" ELSE "error"]
    /\ UNCHANGED <<agentIdle, lost, net, server, agent>>

\* all variants are written in one edit
WriteVariants ==
    /\ job.type = "generate" /\ job.step = "wrapped"
    /\ job' = [job EXCEPT !.step = "done"]
    /\ LET at(n, ls) == AddVariant(ls, job.id, n, Body(job.id, n), src.css /\ n = 1)
           all[n \in 0..Variants] == IF n = 0 THEN src.lines ELSE at(Variants + 1 - n, all[n - 1])
       IN  src' = IF InSource(src.lines, job.id) > 0 THEN src ELSE [src EXCEPT !.lines = all[Variants]]
    /\ UNCHANGED <<agentIdle, lost, net, server, agent>>

RunAccept_SkipsCleanup ==
    /\ job.type \in {"accept", "discard"} /\ job.step = "got"
    /\ \E b \in FindMarkerBlock(src.lines, job.id) : \E x \in ExtractVariant(src.lines, b, job.v) :
          src' = [src EXCEPT !.lines = AcceptLines(@, b, src.jsx, job.id, job.v, x)]
    /\ job' = [job EXCEPT !.step = "complete"]
    /\ UNCHANGED <<agentIdle, lost, net, server, agent>>

\* live-accept, and completionTypeForAcceptResult of what it printed
RunAccept ==
    /\ job.type \in {"accept", "discard"} /\ job.step = "got"
    /\ LET B == FindMarkerBlock(src.lines, job.id)
           b == CHOOSE x \in B : TRUE
           X == IF B = {} THEN {} ELSE ExtractVariant(src.lines, b, job.v)
       IN  CASE job.type = "discard" /\ B # {} ->
                  /\ src' = [src EXCEPT !.lines = DiscardLines(@, b, src.jsx)]
                  /\ job' = [job EXCEPT !.step = "discarded"]
             [] job.type = "accept" /\ X # {} ->
                  /\ src' = [src EXCEPT !.lines =
                               AcceptLines(@, b, src.jsx, job.id, job.v, CHOOSE x \in X : TRUE)]
                  /\ job' = [job EXCEPT !.step = IF HasCss(src.lines, b) THEN "carbonize" ELSE "complete"]
             [] OTHER ->
                  /\ job' = [job EXCEPT !.step = IF job.type = "accept" THEN "agent_done" ELSE "error"]
                  /\ UNCHANGED src
    /\ UNCHANGED <<agentIdle, lost, net, server, agent>>

\* postReply; what cannot be delivered is completed by live-complete or, for a
\* generate, left to the redelivery after the restart
Reply ==
    /\ job.step \in {"done", "error", "agent_done", "carbonize", "complete", "discarded"}
    /\ IF alive THEN PollReply(job.id, job.step) ELSE UNCHANGED <<queue, cache, disk, torn, wire, lost>>
    /\ job' = CASE job.step = "carbonize" -> [job EXCEPT !.step = "cleanup"]
                [] ~alive /\ job.step \in Finished \cup {"complete"} ->
                      [job EXCEPT !.step = "finish"]
                [] OTHER -> NoJob
    /\ UNCHANGED <<agentIdle, src, auth, sse, up, answers, alive, agent>>

\* the agent folds the accepted variant's CSS into the project
Carbonize ==
    /\ job.step = "cleanup"
    /\ src' = [src EXCEPT !.lines = Carbonized(@, job.id, job.v, Body(job.id, job.v))]
    /\ job' = [job EXCEPT !.step = "finish"]
    /\ UNCHANGED <<agentIdle, lost, net, server, agent>>

\* live-complete: through the server, or straight into the journal
Complete ==
    /\ job.step = "finish" /\ job' = NoJob
    /\ LET type == IF job.type = "discard" THEN "discarded" ELSE "complete" IN
       IF alive THEN PollReply(job.id, type)
       ELSE AppendEvent(job.id, Req(type, job.id, 0, "none")) /\ UNCHANGED <<queue, wire, lost>>
    /\ UNCHANGED <<agentIdle, src, auth, sse, up, answers, alive, agent>>

-----------------------------------------------------------------------------
(* The page: live-browser.js *)

pageIdle == <<src, lost, alive, disk, torn, agent, job, drawn, faults>>

\* saveSession
Save(s, state, n, v) ==
    saved' = IF s = NoId THEN saved 
        ELSE [id |-> s, st |-> state, arrived |-> n, visible |-> v, file |-> known]

\* queueCheckpoint; not tracked when none can be delivered any more
QueueCheckpoint == mark' = (mark \/ rev + faults < MaxExtras)

\* checkpointPayload, sendCheckpoint; one that is lost is not missed
Checkpoint(s, state) ==
    \/ /\ s # NoId /\ rev + faults < MaxExtras
       /\ rev' = rev + 1 /\ up' = up \cup {Req("checkpoint", s, rev + 1, state)}
    \/ UNCHANGED <<rev, up>>

Start(s, fresh) == [kind |-> fresh, id |-> s]

\* handleGo: the screenshot is taken before the event is sent
Go(s) ==
    /\ st = "PICKING" /\ s \in Ids \ drawn /\ drawn' = drawn \cup {s}
    /\ st' = "GENERATING" /\ sid' = s /\ arrived' = 0 /\ visible' = 0
    /\ pending' = NoSession /\ known' = FALSE /\ observer' = s
    /\ capture' = capture \cup {s}
    /\ Save(s, "GENERATING", 0, 0) /\ Checkpoint(s, "generating")
    /\ UNCHANGED <<src, lost, dom, handled, timers, mark, auth, sse, answers, wire,
                   server, agent, job, clicks, faults>>

\* captureAndEmit: nothing is checked again, a failure to send is swallowed
Emit(s) ==
    /\ s \in capture /\ Cardinality(up) < MaxUp
    /\ capture' = capture \ {s} /\ up' = up \cup {Req("generate", s, 0, "none")}
    /\ UNCHANGED <<src, lost, dom, st, sid, arrived, visible, pending, observer, known, saved,
                   handled, timers, mark, rev, auth, sse, answers, wire, server, agent, job,
                   drawn, clicks, faults>>

\* queueCheckpoint's timer: session and state are read when it fires
MarkFires ==
    /\ mark /\ mark' = FALSE /\ Cardinality(up) < MaxUp /\ Checkpoint(sid, st)
    /\ UNCHANGED <<pageIdle, clicks, dom, st, sid, arrived, visible, pending, observer, known, saved,
                   handled, capture, timers, auth, sse, answers, wire, queue, cache>>

Shown(s, n) ==
    IF visible > 0 THEN visible
    ELSE IF saved.id = s /\ saved.visible \in 1..n THEN saved.visible ELSE 1

\* hot reload renders the file; startVariantObserver's callback counts
HotReload ==
    LET new == Rendered(src.lines)
        n   == IF observer = NoId THEN -1 ELSE new[observer]
        news == n > arrived
        state == IF news /\ n >= Variants THEN "CYCLING" ELSE st
    IN  /\ src.hmr /\ new # dom /\ dom' = new
        /\ IF news
           THEN /\ arrived' = n /\ visible' = Shown(observer, n) /\ st' = state
                /\ IF sid = NoId THEN UNCHANGED mark ELSE QueueCheckpoint
                /\ Save(sid, state, n, Shown(observer, n))
           ELSE UNCHANGED <<arrived, visible, st, mark, saved>>
        /\ UNCHANGED <<pageIdle, clicks, sid, pending, observer, known, handled, capture, timers, rev,
                       net, queue, cache>>

Click == clicks < MaxClicks /\ clicks' = clicks + 1

\* selectVariant
SelectVariant(v) ==
    /\ clicks < MaxClicks /\ st = "CYCLING" /\ v \in 1..arrived /\ v # visible
    /\ visible' = v /\ QueueCheckpoint /\ Save(sid, st, arrived, v)
    /\ UNCHANGED <<pageIdle, clicks, dom, st, sid, arrived, pending, observer, known, handled, capture,
                   timers, rev, net, queue, cache>>

Accept ==
    /\ Click /\ st = "CYCLING" /\ pending.id = NoId /\ sid # NoId /\ arrived > 0 /\ Cardinality(up) < MaxUp
    /\ st' = "SAVING" /\ pending' = [id |-> sid, v |-> visible, fin |-> FALSE]
    /\ Save(sid, "SAVING", arrived, visible)
    /\ up' = up \cup {Req("accept", sid, visible, "none")}
    /\ UNCHANGED <<pageIdle, dom, sid, arrived, visible, observer, known, handled, capture, timers,
                   mark, rev, auth, sse, answers, wire, queue, cache>>

Discard ==
    /\ Click /\ st = "CYCLING" /\ sid # NoId /\ Cardinality(up) < MaxUp
    /\ up' = up \cup {Req("discard", sid, 0, "none")}
    /\ UNCHANGED <<pageIdle, dom, browser, auth, sse, answers, wire, queue, cache>>

\* cleanup: the wrapper is hidden now and swapped out later
Cleanup ==
    /\ timers' = IF sid = NoId THEN timers ELSE timers \cup {Start(sid, "swap")}
    /\ observer' = NoId /\ saved' = NoSave /\ known' = FALSE /\ sid' = NoId
    /\ st' = "PICKING"

\* markSessionHandled
MarkHandled == handled' = IF sid = NoId THEN handled ELSE sid

Answered_Confirms(a) ==
    /\ a \in answers /\ answers' = answers \ {a}
    /\ st' = IF a.type = "accept" /\ a.ok THEN "CONFIRMED" ELSE st
    /\ UNCHANGED <<pending, timers, observer, saved, known, sid, handled>>
    /\ UNCHANGED <<pageIdle, clicks, dom, arrived, visible, capture, mark, rev, auth, sse, up, wire,
                   queue, cache>>

\* the answers of accept and discard; a discard's cleans up whatever is current
Answered(a) ==
    /\ a \in answers /\ answers' = answers \ {a}
    /\ CASE a.type = "accept" /\ ~a.ok ->
              /\ pending' = IF pending.id = a.id THEN NoSession ELSE pending
              /\ st' = "CYCLING"
              /\ UNCHANGED <<timers, observer, saved, known, sid, handled>>
         [] a.type = "discard" /\ a.ok -> MarkHandled /\ Cleanup /\ UNCHANGED pending
         [] OTHER -> UNCHANGED <<pending, st, timers, observer, saved, known, sid, handled>>
    /\ UNCHANGED <<pageIdle, clicks, dom, arrived, visible, capture, mark, rev, auth, sse, up, wire,
                   queue, cache>>

OnDone_NoFallback(m) ==
    /\ known' = TRUE
    /\ st' = IF st = "GENERATING" /\ arrived >= Variants THEN "CYCLING" ELSE st
    /\ UNCHANGED <<sid, arrived, visible, pending, observer, saved, handled, mark, timers>>

\* done: the variants are here, or they are fetched
OnDone(m) ==
    /\ known' = TRUE
    /\ st' = IF st = "GENERATING" /\ arrived >= Variants THEN "CYCLING" ELSE st
    /\ timers' = IF st = "GENERATING" /\ arrived < Variants /\ m.id = sid
                 THEN timers \cup {Start(sid, "inject")} ELSE timers
    /\ UNCHANGED <<sid, arrived, visible, pending, observer, saved, handled, mark>>

\* maybeCompleteAcceptedSession
OnComplete(m) ==
    CASE pending.id # m.id \/ pending.fin ->
           UNCHANGED <<st, sid, arrived, visible, pending, observer, known, saved, handled, timers, mark>>
      [] sid \notin {NoId, pending.id} ->
           /\ pending' = NoSession
           /\ UNCHANGED <<st, sid, arrived, visible, observer, known, saved, handled, timers, mark>>
      [] OTHER ->
           /\ pending' = [pending EXCEPT !.fin = TRUE] /\ MarkHandled /\ st' = "CONFIRMED"
           /\ timers' = timers \cup {Start(m.id, "accept1")}
           /\ UNCHANGED <<sid, arrived, visible, observer, known, saved, mark>>

OnDiscarded(m) ==
    IF m.id = sid THEN MarkHandled /\ Cleanup /\ UNCHANGED <<arrived, visible, pending, mark>>
    ELSE UNCHANGED <<st, sid, arrived, visible, pending, observer, known, saved, handled, timers, mark>>

OnError(m) ==
    /\ IF pending.id = m.id THEN pending' = NoSession /\ st' = "CYCLING"
                            ELSE st' = "PICKING" /\ UNCHANGED pending
    /\ UNCHANGED <<sid, arrived, visible, observer, known, saved, handled, timers, mark>>

\* restoreSessionWithoutWrapper, from connected or from a page load
Restorable(active) ==
    /\ saved.id # NoId /\ saved.id # handled /\ saved.st \in {"GENERATING", "CYCLING"}
    /\ active = {} \/ \E a \in active :
          a.id = saved.id /\ a.phase \notin {"discard_requested", "accept_requested"}
Restored(active) ==
    LET s == saved.id
        file == known \/ saved.file \/ \E a \in active : a.id = s /\ a.file
    IN  /\ sid' = s /\ st' = "GENERATING" /\ arrived' = saved.arrived
        /\ visible' = IF saved.visible \in 1..Variants THEN saved.visible
                      ELSE IF saved.arrived > 0 THEN 1 ELSE 0
        /\ saved' = [saved EXCEPT !.st = "GENERATING", !.file = file]
        /\ observer' = s /\ known' = file /\ QueueCheckpoint
        /\ timers' = IF file THEN timers \cup {Start(s, "fetch")} ELSE timers

OnConnected(m) ==
    /\ IF (\A s \in Ids : dom[s] = -1) /\ Restorable(m.active) THEN Restored(m.active)
       ELSE /\ st' = IF st = "IDLE" THEN "PICKING" ELSE st
            /\ UNCHANGED <<sid, arrived, visible, observer, known, saved, timers, mark>>
    /\ UNCHANGED <<pending, handled>>

Receive ==
    /\ wire # <<>> /\ wire' = Tail(wire)
    /\ LET m == Head(wire) IN
       CASE m.type = "done"      -> OnDone(m)
         [] m.type = "complete"  -> OnComplete(m)
         [] m.type = "discarded" -> OnDiscarded(m)
         [] m.type = "error"     -> OnError(m)
         [] m.type = "connected" -> OnConnected(m)
         [] m.type = "agent_done" ->
              UNCHANGED <<st, sid, arrived, visible, pending, observer, known, saved, handled,
                          timers, mark>>
    /\ UNCHANGED <<pageIdle, clicks, dom, capture, rev, auth, sse, up, answers, queue, cache>>

\* cleanupAcceptedSession
AcceptedCleanup ==
    /\ observer' = NoId /\ saved' = NoSave /\ known' = FALSE /\ sid' = NoId
    /\ pending' = NoSession /\ st' = "PICKING"

\* scheduleAcceptCleanup's first timer does not ask whether it is still current
Accept1Fires(t) ==
    /\ IF dom[t.id] = -1
       THEN AcceptedCleanup /\ timers' = timers \ {t}
       ELSE /\ timers' = (timers \ {t}) \cup {Start(t.id, "accept2")}
            /\ UNCHANGED <<observer, saved, known, sid, pending, st>>
    /\ UNCHANGED <<dom, arrived, visible, mark>>

Accept2Fires(t) ==
    /\ timers' = timers \ {t}
    /\ IF pending.id = t.id
       THEN AcceptedCleanup /\ dom' = [dom EXCEPT ![t.id] = -1]
       ELSE UNCHANGED <<observer, saved, known, sid, pending, st, dom>>
    /\ UNCHANGED <<arrived, visible, mark>>

SwapFires(t) ==
    /\ timers' = timers \ {t} /\ dom' = [dom EXCEPT ![t.id] = -1]
    /\ UNCHANGED <<observer, saved, known, sid, pending, st, arrived, visible, mark>>

\* the source fallback: checked, then fetched
InjectFires(t) ==
    /\ timers' = (timers \ {t}) \cup
          IF arrived < Variants /\ st = "GENERATING" /\ t.id = sid THEN {Start(t.id, "fetch")} ELSE {}
    /\ UNCHANGED <<dom, observer, saved, known, sid, pending, st, arrived, visible, mark>>

\* injectVariantsFromSource: nothing is checked again when the source arrives;
\* without a wrapper in the page the original's first child is the anchor, and
\* the wrapper of an insertion has no original
FetchFires(t) ==
    LET n == InSource(src.lines, t.id)
        v == IF sid = t.id /\ visible \in 1..n THEN visible
             ELSE IF saved.id = t.id /\ saved.visible \in 1..n THEN saved.visible ELSE 1
    IN  CASE ~alive \/ ~auth \/ n = -1 \/ (dom[t.id] = -1 /\ src.pos # "replace") ->
               /\ timers' = timers \ {t}
               /\ UNCHANGED <<dom, observer, saved, known, sid, pending, st, arrived, visible, mark>>
          [] n = 0 ->
               /\ timers' = (timers \ {t}) \cup IF sid = NoId THEN {} ELSE {Start(sid, "swap")}
               /\ dom' = [dom EXCEPT ![t.id] = 0] /\ arrived' = 0
               /\ observer' = NoId /\ saved' = NoSave /\ known' = FALSE /\ sid' = NoId
               /\ st' = "PICKING" /\ UNCHANGED <<pending, visible, mark>>
          [] OTHER ->
               /\ timers' = timers \ {t} /\ dom' = [dom EXCEPT ![t.id] = n]
               /\ arrived' = n /\ visible' = v /\ st' = "CYCLING" /\ Save(sid, "CYCLING", n, v)
               /\ UNCHANGED <<observer, known, sid, pending, mark>>

TimerFires(t) ==
    /\ t \in timers
    /\ CASE t.kind = "accept1" -> Accept1Fires(t)
         [] t.kind = "accept2" -> Accept2Fires(t)
         [] t.kind = "swap"    -> SwapFires(t)
         [] t.kind = "inject"  -> InjectFires(t)
         [] t.kind = "fetch"   -> FetchFires(t)
    /\ UNCHANGED <<pageIdle, clicks, handled, capture, rev, net, queue, cache>>

-----------------------------------------------------------------------------
(* Faults, and what follows them *)

\* what a broken stream takes with it
Undelivered == {wire[i].type : i \in DOMAIN wire}

Fault == rev + faults < MaxExtras /\ faults' = faults + 1

\* the server dies, perhaps while it appends a line
Crash ==
    /\ alive /\ Fault /\ alive' = FALSE /\ queue' = <<>> /\ wire' = <<>>
    /\ auth' = FALSE /\ cache' = disk
    /\ sse' = IF sse = "open" THEN "retry" ELSE sse
    /\ \E T \in SUBSET {r.id : r \in up} : Cardinality(T) <= 1 /\ torn' = torn \cup T
    /\ Lose(Undelivered)
    /\ UNCHANGED <<src, dom, browser, up, answers, disk, agent, job, drawn, clicks>>

\* restorePendingEventsFromStore, session by session
Restart ==
    /\ ~alive /\ alive' = TRUE /\ cache' = disk
    /\ \E q \in SetToSeqs({[id |-> s, type |-> disk[s].ev, v |-> disk[s].v, leased |-> FALSE] :
                               s \in {r \in ActiveSessions : disk[r].ev # "none"}}) : queue' = q
    /\ UNCHANGED <<src, lost, dom, browser, net, disk, torn, agent, job, drawn, clicks, faults>>

\* the event stream breaks; EventSource retries by itself
SseDrops ==
    /\ sse = "open" /\ Fault /\ sse' = "retry" /\ wire' = <<>>
    /\ Lose(Undelivered)
    /\ UNCHANGED <<src, dom, browser, auth, up, answers, server, agent, job, drawn, clicks>>

SseReconnects ==
    /\ sse = "retry" /\ alive /\ auth /\ Connected
    /\ UNCHANGED <<src, lost, dom, browser, auth, up, answers, alive, disk, torn, agent, job,
                   drawn, clicks, faults>>

\* a restarted server has another token: the stream is refused for good
SseRefused ==
    /\ sse = "retry" /\ alive /\ ~auth /\ sse' = "closed"
    /\ UNCHANGED <<src, lost, dom, browser, auth, up, answers, wire, server, agent, job, drawn, clicks, faults>>

\* handleServerLost, after SSE_MAX_RETRIES failures
ServerLost ==
    /\ sse = "retry" /\ ~alive /\ sse' = "closed" /\ observer' = NoId
    /\ Save(sid, st, arrived, visible)
    /\ st' = IF sid = NoId THEN "IDLE" ELSE st
    /\ UNCHANGED <<src, lost, dom, sid, arrived, visible, pending, known, handled, capture, timers,
                   mark, rev, auth, up, answers, wire, server, agent, job, drawn, clicks, faults>>

\* the operator reloads the page: resumeSession
Reload ==
    LET new == Rendered(src.lines)
        W   == {s \in Ids : new[s] # -1}
    IN  /\ alive /\ Fault /\ auth' = TRUE /\ Connected /\ dom' = new
        /\ up' = {} /\ answers' = {} /\ capture' = {} /\ pending' = NoSession
        /\ \/ \E s \in W \ {handled} :
                LET v == IF saved.id = s /\ saved.visible \in 1..new[s] THEN saved.visible
                         ELSE IF new[s] > 0 THEN 1 ELSE 0
                    state == IF new[s] >= Variants THEN "CYCLING" ELSE "GENERATING"
                IN  /\ sid' = s /\ arrived' = new[s] /\ visible' = v /\ st' = state
                    /\ saved' = [id |-> s, st |-> state, arrived |-> new[s], visible |-> v,
                                 file |-> saved.file /\ saved.id = s]
                    /\ known' = (saved.file /\ saved.id = s)
                    /\ observer' = s /\ timers' = {} /\ UNCHANGED handled
           \/ /\ W = {} /\ Restorable({})
              /\ sid' = saved.id /\ st' = "GENERATING" /\ arrived' = saved.arrived
              /\ visible' = saved.visible /\ known' = saved.file
              /\ saved' = [saved EXCEPT !.st = "GENERATING"] /\ observer' = saved.id
              /\ timers' = IF saved.file THEN {Start(saved.id, "fetch")} ELSE {}
              /\ UNCHANGED handled
           \/ /\ handled \in W \/ (W = {} /\ ~Restorable({}))
              /\ sid' = NoId /\ st' = "IDLE" /\ arrived' = 0 /\ visible' = 0 /\ known' = FALSE
              /\ observer' = NoId /\ timers' = {}
              /\ saved' = IF W = {} THEN NoSave ELSE saved
              /\ handled' = IF W = {} THEN NoId ELSE handled
        /\ mark' = (sid' # NoId /\ rev + faults' < MaxExtras)
        /\ Lose(Undelivered \cup {r.type : r \in up} \cup {"generate" : s \in capture}
                  \cup IF pending = NoSession THEN {} ELSE {"accept"})
        /\ UNCHANGED <<src, rev, alive, disk, torn, agent, job, drawn, clicks>>

\* the agent is interrupted before the poll script has run live-accept
AgentDies ==
    /\ job.step \in {"got", "wrapped", "done"} /\ Fault /\ job' = NoJob
    /\ UNCHANGED <<src, lost, dom, browser, net, server, agent, drawn, clicks>>

\* the operator runs live mode again after an exit
AgentStarts ==
    /\ ~agent /\ sse = "open" /\ agent' = TRUE
    /\ UNCHANGED <<src, lost, dom, browser, net, server, job, drawn, clicks, faults>>

-----------------------------------------------------------------------------
Operator == \/ \E s \in Ids : Go(s)
            \/ \E v \in 1..Variants : SelectVariant(v)
            \/ Accept \/ Discard \/ Reload \/ AgentStarts
Faulty   == Crash \/ SseDrops \/ AgentDies
PageStep == \/ \E s \in Ids : Emit(s)
            \/ MarkFires \/ Receive
            \/ \E a \in answers : Answered(a)
            \/ \E t \in timers : TimerFires(t)
            \/ SseReconnects \/ SseRefused \/ ServerLost \/ HotReload
ServerStep == (\E r \in up : Post(r)) \/ LeaseExpires \/ ExitTimer \/ Restart
AgentStep == Poll \/ Wrap \/ WriteVariants \/ RunAccept \/ Reply \/ Carbonize \/ Complete
Next == Operator \/ Faulty \/ PageStep \/ ServerStep \/ AgentStep

\* while a process has something to do, one of them goes on, and the agent
\* does not stop half-way through an edit; the operator and the faults owe
\* nothing
Fairness ==
    /\ WF_vars(ServerStep \/ Poll \/ Reply \/ Complete \/ PageStep)
    /\ []<>(job.step \notin {"got", "wrapped", "cleanup"})
Spec == Init /\ [][Next]_vars /\ Fairness

-----------------------------------------------------------------------------
(* Properties *)


\* When the page tells the operator that the accept is confirmed
\* (maybeCompleteAcceptedSession), the wrapper is out of the source and the
\* variant that was on screen is in it.  Only a page that was reloaded while it
\* saved may confirm the variant it had accepted before: the server drops the
\* second accept as a duplicate of the first.
ConfirmedIsApplied ==
    st = "CONFIRMED" /\ pending.id # NoId =>
        /\ InSource(src.lines, pending.id) = -1
        /\ \/ Applied(pending.id, pending.v)
           \/ "accept" \in lost /\ \E v \in 1..Variants : Applied(pending.id, v)

\* A session the journal calls completed or discarded has no scaffold left in
\* the source: neither wrapper nor carbonize block (reference/live.md: "removed
\* all variant markers").
FinishedIsClean ==
    \A s \in Ids : disk[s].phase \in Finished =>
        \A i \in DOMAIN src.lines : \A j \in DOMAIN src.lines[i].toks :
            src.lines[i].toks[j].key \notin {Mark("start", s).key, CarbonizeKey(s)}

\* When every wrapper is gone and no variant was accepted, the file reads as
\* it did before live mode touched it, however the session ended; only copy
\* edits that were staged for the wrapped element may have come in with it
\* (wrapCli puts them into the original it wraps, handleDiscard writes that back).
DiscardRestores ==
    (\A s \in Ids : InSource(src.lines, s) = -1 /\ \A v \in 1..Variants : ~Applied(s, v))
        => \/ SameText(src.lines, Original)
           \/ \E e \in src.edits : SameText(src.lines, Edited(Original, e))

\* The page does not stay in a transient state, whatever breaks: a generating
\* session gets its variants or an error, a saving one is confirmed or handed
\* back, a confirmed one is cleaned up.  That needs an agent, a page that knows
\* the server's token, nothing lost that is said only once and, for an
\* insertion, hot reload (the source fallback looks for the original it has not).
SessionsSettle ==
    []<>(\/ st \in {"IDLE", "PICKING", "CYCLING"}
         \/ ~agent \/ ~auth \/ lost # {}
         \/ src.pos # "replace" /\ ~src.hmr)

=============================================================================
