----------------------------- MODULE Terminals ------------------------------
(***************************************************************************)
(* Terminal sessions from the PTY to the browser's pane: the sequence lock *)
(* and the attach seam of the daemon (terminal.rs, handle_terminal_command)*)
(* one console connection with its three sources of frames (the loop's own *)
(* writes, the bounded channel its workers fill, the broadcast feed), and  *)
(* the Terminals view with the pane it mounts (components/Terminals.tsx,   *)
(* TerminalView.tsx, the terminal router of useWisphive.ts).               *)
(*                                                                         *)
(* A frame is a position in its session's history and either "out" (PTY    *)
(* output) or "other" (input and resize, which share the sequence).  A     *)
(* pane's screen is the sequence of its writes, each with the positions it *)
(* painted: a catchup repaints those below its boundary, a chunk adds one. *)
(***************************************************************************)
EXTENDS Naturals, FiniteSets, Sequences

CONSTANTS Sess,      \* terminal session ids
          Past,      \* those that ended before the console connected
          NoSession, \* the absence of one
          RxCap,     \* frames an attachment's receiver holds (256)
          ConnCap,   \* the connection's worker channel (1024)
          MaxOut,    \* bound on output frames of a session
          MaxClicks, \* bound on the operator's actions
          MaxDrops   \* bound on lost connections

ASSUME TerminalsAssumption ==
    /\ NoSession \notin Sess
    /\ Past \subseteq Sess
    /\ {RxCap, ConnCap} \subseteq Nat \ {0}
    /\ {MaxOut, MaxClicks, MaxDrops} \subseteq Nat

VARIABLES
    row,     \* status of each session's row
    live,    \* sessions in the manager's map
    hist,    \* per session, its frames in sequence order
    unsent,  \* frames assigned and not broadcast yet
    seam,    \* the attach the connection's loop is awaiting
    att,     \* the connection's attachments
    replays, \* replay streams being sent
    conn,    \* the worker channel
    feed,    \* broadcasts this connection has yet to write
    up, down,\* the wire, in each direction
    linked,  \* the console's socket is open
    drops,
    mounted, \* the Terminals view is shown
    list,    \* the console's terminals, id to status
    sel,     \* selectedId
    replay,  \* replayMode
    liveRef, \* liveSelectionRef
    screen,  \* what the mounted pane has written, [outs, by, kind]
    focus,   \* focusSessionId
    timer,   \* the session a focus deadline runs for
    notice,  \* focusNotice
    lossy,   \* attachments that lost a frame on purpose
    serial,  \* attachments and replays granted so far
    clicks

daemonVars == <<row, live, hist, unsent>>
loopVars   == <<seam, att, replays, conn, feed, lossy, serial>>
wireVars   == <<up, down, linked, drops>>
viewVars   == <<mounted, sel, replay, liveRef, screen, focus, timer, notice>>
termVars == <<daemonVars, loopVars, wireVars, viewVars, list, clicks>>

NoSeam == [id |-> NoSession]
NoAtt  == [on |-> FALSE]

(* Output positions below n: what a parser snapshot taken there shows.     *)
OutBelow(s, n) == {i \in 1..Len(hist[s]) : i < n /\ hist[s][i] = "out"}

(* The identity of an attachment or replay, with its boundary.             *)
GrantOf(s, from) == [n |-> serial, id |-> s, from |-> from]

TermInit ==
    /\ row \in {r \in [Sess -> {"absent", "running", "ended"}] :
                \A s \in Sess : r[s] = "ended" <=> s \in Past}
    /\ live = {s \in Sess : row[s] = "running"}
    /\ hist = [s \in Sess |-> IF row[s] = "absent" THEN <<>> ELSE <<"out">>]
    /\ unsent = [s \in Sess |-> {}]
    /\ seam = NoSeam
    /\ att = [s \in Sess |-> NoAtt]
    /\ replays = {} /\ conn = <<>> /\ feed = <<>> /\ lossy = {}
    /\ serial = 0
    /\ up = <<>> /\ down = <<>> /\ linked = TRUE /\ drops = 0
    /\ mounted = FALSE
    /\ list = [s \in {} |-> ""]
    /\ sel = NoSession /\ replay = FALSE /\ liveRef = NoSession
    /\ screen = <<>> /\ focus = NoSession /\ timer = NoSession /\ notice = NoSession
    /\ clicks = 0

-----------------------------------------------------------------------------
(* The session's threads.                                                  *)

(* Parser update and sequence number, one critical section.                *)
Assign(s, kind) ==
    /\ hist' = [hist EXCEPT ![s] = Append(@, kind)]
    /\ unsent' = [unsent EXCEPT ![s] = @ \cup {Len(hist[s]) + 1}]

(* ingest_output up to the end of its critical section.                    *)
Ingest(s) ==
    /\ s \in live /\ unsent[s] = {}
    /\ Cardinality(OutBelow(s, Len(hist[s]) + 1)) < MaxOut
    /\ Assign(s, "out")
    /\ UNCHANGED <<row, live, loopVars, wireVars, viewVars, list, clicks>>

(* A receiver with room keeps the frame; a full one has lagged, and its    *)
(* next read is the error that ends the forwarder.                         *)
Deliver(rx, i) ==
    IF rx.lag \/ Len(rx.q) = RxCap THEN [q |-> <<>>, lag |-> TRUE]
                                   ELSE [rx EXCEPT !.q = Append(@, i)]

(* bcast.send to whatever is subscribed at that moment.                    *)
Publish(s) == \E i \in unsent[s] :
    /\ unsent' = [unsent EXCEPT ![s] = @ \ {i}]
    /\ att' = IF att[s].on
              THEN [att EXCEPT ![s].rx = Deliver(@, i)] ELSE att
    /\ seam' = IF seam.id = s THEN [seam EXCEPT !.rx = Deliver(@, i)] ELSE seam
    /\ UNCHANGED <<row, live, hist, replays, conn, feed, lossy, serial, wireVars,
                   viewVars, list, clicks>>

(* run_waiter: row, then the broadcast, then the map.                      *)
Ended(s) ==
    /\ s \in live /\ unsent[s] = {}
    /\ row' = [row EXCEPT ![s] = "ended"]
    /\ live' = live \ {s}
    /\ feed' = IF linked THEN Append(feed, [type |-> "ended", id |-> s])
                         ELSE feed
    /\ UNCHANGED <<hist, unsent, seam, att, replays, conn, lossy, serial, wireVars,
                   viewVars, list, clicks>>

-----------------------------------------------------------------------------
(* The connection's workers.                                               *)

TrySend(m) == IF Len(conn) < ConnCap THEN Append(conn, m) ELSE conn

(* The forwarder of an attachment: frames below its boundary are skipped,  *)
(* a full channel drops the frame, a lagged receiver ends the forwarder.   *)
Forward(s) ==
    LET a == att[s] i == Head(a.rx.q) IN
    /\ a.on /\ (a.rx.q # <<>> \/ a.rx.lag \/ s \notin live)
    /\ IF a.rx.q # <<>> THEN
          /\ att' = [att EXCEPT ![s].rx.q = Tail(@)]
          /\ conn' = IF i < a.by.from THEN conn
                     ELSE TrySend([type |-> "chunk", id |-> s, at |-> i,
                                   by |-> a.by])
          /\ lossy' = IF i >= a.by.from /\ Len(conn) >= ConnCap
                      THEN lossy \cup {a.by} ELSE lossy
       ELSE
          /\ att' = [att EXCEPT ![s] = NoAtt]
          /\ conn' = IF a.rx.lag THEN TrySend([type |-> "error"]) ELSE conn
          /\ lossy' = IF a.rx.lag THEN lossy \cup {a.by} ELSE lossy
    /\ UNCHANGED <<daemonVars, seam, replays, feed, serial, wireVars, viewVars,
                   list, clicks>>

(* One event of a replay stream; send().await waits for room.              *)
StreamReplay(r) ==
    /\ r.left # {} => Len(conn) < ConnCap
    /\ IF r.left = {} THEN /\ replays' = replays \ {r}
                           /\ UNCHANGED conn
       ELSE LET i == CHOOSE x \in r.left : \A y \in r.left : x <= y IN
            /\ conn' = Append(conn, [type |-> "replay", id |-> r.id, at |-> i,
                                     by |-> r.by])
            /\ replays' = (replays \ {r}) \cup {[r EXCEPT !.left = @ \ {i}]}
    /\ UNCHANGED <<daemonVars, seam, att, feed, lossy, serial, wireVars, viewVars, list,
                   clicks>>

(* The select loop writes what its workers and the feed produced, unless   *)
(* it is inside a command.                                                 *)
PumpConn ==
    /\ seam = NoSeam /\ conn # <<>>
    /\ down' = Append(down, Head(conn)) /\ conn' = Tail(conn)
    /\ UNCHANGED <<daemonVars, seam, att, replays, feed, lossy, serial, up, linked, drops,
                   viewVars, list, clicks>>

PumpFeed ==
    /\ seam = NoSeam /\ feed # <<>>
    /\ down' = Append(down, Head(feed)) /\ feed' = Tail(feed)
    /\ UNCHANGED <<daemonVars, seam, att, replays, conn, lossy, serial, up, linked, drops,
                   viewVars, list, clicks>>

-----------------------------------------------------------------------------
(* Commands, in the order the connection reads them.                       *)

Rows == [s \in {x \in Sess : row[x] # "absent"} |-> row[s]]
ListFrame == [type |-> "list", rows |-> Rows]
ErrorFrame == [type |-> "error"]

TermCreate(s) ==
    /\ row' = [row EXCEPT ![s] = "running"] /\ live' = live \cup {s}
    /\ down' = Append(down, [type |-> "created", id |-> s])
    /\ UNCHANGED <<hist, unsent, loopVars>>

(* The boundary, the snapshot and the subscription are taken together,     *)
(* before the wait for the batcher.                                        *)
TermAttach(s) ==
    /\ att' = [att EXCEPT ![s] = NoAtt]
    /\ IF s \in live
       THEN /\ seam' = [id |-> s, by |-> GrantOf(s, Len(hist[s]) + 1),
                        rx |-> [q |-> <<>>, lag |-> FALSE]]
            /\ serial' = serial + 1
            /\ UNCHANGED down
       ELSE down' = Append(down, ErrorFrame) /\ UNCHANGED <<seam, serial>>
    /\ UNCHANGED <<daemonVars, replays, conn, feed, lossy>>

TermDetach(s) ==
    /\ att' = [att EXCEPT ![s] = NoAtt]
    /\ UNCHANGED <<daemonVars, seam, replays, conn, feed, lossy, serial, down>>

(* write_input and resize: a numbered frame that is no output.             *)
TermWrite(s) ==
    /\ IF s \in live
       THEN Assign(s, "other") /\ UNCHANGED <<row, live, down>>
       ELSE UNCHANGED daemonVars /\ down' = Append(down, ErrorFrame)
    /\ UNCHANGED loopVars

(* close: the attachment goes, the child is killed; Ended reports it.      *)
TermClose(s) ==
    /\ att' = [att EXCEPT ![s] = NoAtt]
    /\ down' = IF s \in live THEN down ELSE Append(down, ErrorFrame)
    /\ UNCHANGED <<daemonVars, seam, replays, conn, feed, lossy, serial>>

TermList ==
    down' = Append(down, ListFrame) /\ UNCHANGED <<daemonVars, loopVars>>

(* set_group, set_sort_order and set_pinned broadcast the refreshed list.  *)
TermSetMeta ==
    /\ feed' = Append(feed, ListFrame)
    /\ UNCHANGED <<daemonVars, seam, att, replays, conn, lossy, serial, down>>

(* The replay gate may refuse; a granted replay is a task of its own that  *)
(* sends what the batcher has written by then, some prefix of the frames.  *)
TermReplay(s) ==
    /\ \/ /\ \E n \in {k \in 0..Len(hist[s]) : \A i \in unsent[s] : k < i} :
              replays' = replays \cup {[id |-> s, by |-> GrantOf(s, 0),
                                        left |-> OutBelow(s, n + 1)]}
          /\ serial' = serial + 1
          /\ UNCHANGED down
       \/ down' = Append(down, ErrorFrame) /\ UNCHANGED <<replays, serial>>
    /\ UNCHANGED <<daemonVars, seam, att, conn, feed, lossy>>

ReadCommand ==
    /\ seam = NoSeam /\ up # <<>>
    /\ up' = Tail(up)
    /\ LET c == Head(up) IN
       CASE c.op = "create" -> TermCreate(c.id)
         [] c.op = "attach" -> TermAttach(c.id)
         [] c.op = "detach" -> TermDetach(c.id)
         [] c.op = "write"  -> TermWrite(c.id)
         [] c.op = "close"  -> TermClose(c.id)
         [] c.op = "list"   -> TermList
         [] c.op = "meta"   -> TermSetMeta
         [] c.op = "replay" -> TermReplay(c.id)
    /\ UNCHANGED <<linked, drops, viewVars, list, clicks>>

(* mutant: the catchup repaints the screen as it is when it is sent.       *)
FinishAttach_Resnapshots ==
    /\ seam # NoSeam
    /\ down' = Append(down, [type |-> "catchup", id |-> seam.id, by |-> seam.by,
                             outs |-> OutBelow(seam.id, Len(hist[seam.id]) + 1)])
    /\ att' = [att EXCEPT ![seam.id] = [on |-> TRUE, by |-> seam.by,
                                        rx |-> seam.rx]]
    /\ seam' = NoSeam
    /\ UNCHANGED <<daemonVars, replays, conn, feed, lossy, serial, up, linked,
                   drops, viewVars, list, clicks>>

(* The end of attach_with: the catchup is written by the loop itself, the  *)
(* forwarder starts with the receiver subscribed at the boundary.          *)
FinishAttach ==
    /\ seam # NoSeam
    /\ down' = Append(down, [type |-> "catchup", id |-> seam.id, by |-> seam.by,
                             outs |-> OutBelow(seam.id, seam.by.from)])
    /\ att' = [att EXCEPT ![seam.id] = [on |-> TRUE, by |-> seam.by,
                                        rx |-> seam.rx]]
    /\ seam' = NoSeam
    /\ UNCHANGED <<daemonVars, replays, conn, feed, lossy, serial, up, linked, drops,
                   viewVars, list, clicks>>

-----------------------------------------------------------------------------
(* The socket.                                                             *)

(* The loop aborts its forwarders; replay tasks find the channel closed.   *)
Drop ==
    /\ linked /\ drops < MaxDrops
    /\ linked' = FALSE /\ drops' = drops + 1
    /\ up' = <<>> /\ down' = <<>> /\ conn' = <<>> /\ feed' = <<>>
    /\ seam' = NoSeam /\ att' = [s \in Sess |-> NoAtt] /\ replays' = {}
    /\ UNCHANGED <<daemonVars, lossy, serial, viewVars, list, clicks>>

Relink ==
    /\ ~linked /\ linked' = TRUE
    /\ UNCHANGED <<daemonVars, loopVars, up, down, drops, viewVars, list, clicks>>

-----------------------------------------------------------------------------
(* The view.                                                               *)

Sent(cmds) == up' = IF linked THEN up \o cmds ELSE up
Cmd(op, s) == [op |-> op, id |-> s]
Detaching == IF liveRef = NoSession THEN <<>> ELSE <<Cmd("detach", liveRef)>>

UserActs == clicks < MaxClicks /\ clicks' = clicks + 1

(* A pane whose session comes back into the list is mounted anew, blank,   *)
(* and a live one sends its fitted size.                                   *)
Refit(known) ==
    IF sel \in known \ DOMAIN list /\ ~replay THEN <<Cmd("write", sel)>> ELSE <<>>

(* mutant: a replay leaves the live forwarder of the pane running.         *)
Select_KeepsLive(s, isReplay, known) ==
    /\ sel' = s /\ replay' = isReplay
    /\ screen' = IF sel = s /\ replay = isReplay THEN screen ELSE <<>>
    /\ liveRef' = IF isReplay THEN NoSession ELSE s
    /\ Sent(Refit(known) \o
            IF isReplay THEN <<Cmd("replay", s)>>
            ELSE Detaching \o <<Cmd("attach", s)>>
                 \o (IF sel = s /\ ~replay THEN <<>> ELSE <<Cmd("write", s)>>))

(* handleSelect with the commit it causes: the pane is keyed by session    *)
(* and mode, so only another key mounts a new one; a live pane sends its   *)
(* fitted size when it mounts.                                             *)
Select(s, isReplay, known) ==
    /\ sel' = s /\ replay' = isReplay
    /\ screen' = IF sel = s /\ replay = isReplay THEN screen ELSE <<>>
    /\ liveRef' = IF isReplay THEN NoSession ELSE s
    /\ Sent(Refit(known) \o Detaching \o
            IF isReplay THEN <<Cmd("replay", s)>>
            ELSE <<Cmd("attach", s)>>
                 \o (IF sel = s /\ ~replay THEN <<>> ELSE <<Cmd("write", s)>>))

(* The focus effect once its target is listed.                             *)
HonourFocus(known) ==
    /\ focus \in known
    /\ Select(focus, FALSE, known)
    /\ focus' = NoSession /\ timer' = NoSession /\ notice' = NoSession

(* The effect otherwise: a deadline for a request that has none.  A pane   *)
(* whose session left the list is unmounted.                               *)
AwaitFocus(known) ==
    /\ focus \notin known
    /\ timer' = focus
    /\ screen' = IF sel \in known THEN screen ELSE <<>>
    /\ Sent(Refit(known))
    /\ UNCHANGED <<focus, notice, sel, replay, liveRef>>

FocusEffect(known) == HonourFocus(known) \/ AwaitFocus(known)

(* The view mounts: it asks for the sessions and runs its focus effect.  A *)
(* deep link from the inbox sets the focus and shows the view.             *)
Show(target) ==
    LET f == IF target = NoSession THEN focus ELSE target IN
    /\ ~mounted /\ UserActs
    /\ mounted' = TRUE
    /\ IF f \in DOMAIN list
       THEN /\ sel' = f /\ liveRef' = f /\ focus' = NoSession /\ timer' = NoSession
            /\ Sent(<<Cmd("list", NoSession), Cmd("attach", f), Cmd("write", f)>>)
       ELSE /\ focus' = f /\ timer' = f
            /\ Sent(<<Cmd("list", NoSession)>>)
            /\ UNCHANGED <<sel, liveRef>>
    /\ UNCHANGED <<daemonVars, loopVars, down, linked, drops, replay, screen,
                   notice, list>>

(* FOCUS_WAIT_MS passed.                                                   *)
GiveUp ==
    /\ mounted /\ timer # NoSession
    /\ notice' = timer /\ focus' = NoSession /\ timer' = NoSession
    /\ UNCHANGED <<daemonVars, loopVars, wireVars, mounted, sel, replay, liveRef,
                   screen, list, clicks>>

(* Leaving the view detaches once and forgets the component's state.       *)
Hide ==
    /\ mounted /\ UserActs
    /\ Sent(Detaching)
    /\ mounted' = FALSE /\ timer' = NoSession /\ notice' = NoSession
    /\ sel' = NoSession /\ replay' = FALSE /\ liveRef' = NoSession /\ screen' = <<>>
    /\ UNCHANGED <<daemonVars, loopVars, down, linked, drops, focus, list>>

(* A sidebar item: running sessions open live, or replay on demand; ended  *)
(* ones only replay.                                                       *)
Open(s, isReplay) ==
    /\ mounted /\ s \in DOMAIN list /\ UserActs
    /\ ~isReplay => list[s] = "running"
    /\ Select(s, isReplay, DOMAIN list)
    /\ UNCHANGED <<daemonVars, loopVars, down, linked, drops, mounted, focus,
                   timer, notice, list>>

(* handleBack.                                                             *)
HandleBack ==
    /\ mounted /\ sel # NoSession /\ UserActs
    /\ Sent(Detaching)
    /\ sel' = NoSession /\ replay' = FALSE /\ liveRef' = NoSession /\ screen' = <<>>
    /\ UNCHANGED <<daemonVars, loopVars, down, linked, drops, mounted, focus,
                   timer, notice, list>>

(* The mounted pane registers a handler for its session, nobody else does. *)
Registered(s) == mounted /\ sel = s /\ s \in DOMAIN list

(* The toolbar and the item's buttons; typing needs a live pane.           *)
Order(op, s) ==
    /\ mounted /\ UserActs
    /\ \/ op = "create" /\ row[s] = "absent" /\ ~\E i \in DOMAIN up : up[i].id = s
       \/ op = "close" /\ s \in DOMAIN list /\ list[s] = "running"
       \/ op = "meta" /\ s \in DOMAIN list
       \/ op = "write" /\ Registered(s) /\ ~replay
    /\ Sent(<<Cmd(op, s)>>)
    /\ UNCHANGED <<daemonVars, loopVars, down, linked, drops, viewVars, list>>

-----------------------------------------------------------------------------
(* Frames reach the console.                                               *)

(* Only output of the pane's own mode reaches its handler.                 *)
Shown(m) == Registered(m.id) /\ replay = (m.type = "replay")

Painted(outs, m) == [outs |-> outs, by |-> m.by, kind |-> m.type]

(* A catchup resets the terminal first.                                    *)
Written(m) ==
    IF ~Shown(m) THEN screen
    ELSE IF m.type = "catchup" THEN <<Painted(m.outs, m)>>
    ELSE IF hist[m.id][m.at] = "out" THEN Append(screen, Painted({m.at}, m))
    ELSE screen

Listed(m) ==
    CASE m.type = "created" -> [s \in DOMAIN list \cup {m.id} |->
                                  IF s = m.id THEN "running" ELSE list[s]]
      [] m.type = "list"    -> m.rows
      [] m.type = "ended"   -> [s \in DOMAIN list |->
                                  IF s = m.id THEN "ended" ELSE list[s]]
      [] OTHER -> list

(* A frame updates the console; a new list runs the view's focus effect,   *)
(* and a session that left the list unmounts its pane.                     *)
Receive ==
    /\ down # <<>> /\ down' = Tail(down)
    /\ LET m == Head(down) IN
       IF m.type \in {"chunk", "catchup", "replay"}
       THEN /\ screen' = Written(m)
            /\ UNCHANGED <<up, mounted, sel, replay, liveRef, focus, timer,
                           notice, list>>
       ELSE /\ list' = Listed(m)
            /\ UNCHANGED mounted
            /\ IF mounted /\ list' # list THEN FocusEffect(DOMAIN list')
               ELSE UNCHANGED <<up, sel, replay, liveRef, screen, focus, timer,
                                notice>>
    /\ UNCHANGED <<daemonVars, loopVars, linked, drops, clicks>>

-----------------------------------------------------------------------------
Daemon ==
    \/ \E s \in Sess : Ingest(s) \/ Publish(s) \/ Ended(s)
                       \/ Forward(s)
    \/ \E r \in replays : StreamReplay(r)
    \/ PumpConn \/ PumpFeed \/ ReadCommand \/ FinishAttach

Operator ==
    \/ \E t \in Sess \cup {NoSession} : Show(t)
    \/ \E s \in Sess, b \in BOOLEAN : Open(s, b)
    \/ \E s \in Sess, op \in {"create", "close", "meta", "write"} : Order(op, s)
    \/ Hide \/ HandleBack

TermNext == Daemon \/ Operator \/ Receive \/ GiveUp \/ Drop \/ Relink

(* The browser's timers fire; nobody else owes anything.                   *)
TermSpec == TermInit /\ [][TermNext]_termVars /\ WF_termVars(GiveUp)

-----------------------------------------------------------------------------
(* The writes of one attachment on the screen, and what they painted.      *)
Writes(a) == {i \in DOMAIN screen : screen[i].by = a}
OnScreen(a) == UNION {screen[i].outs : i \in Writes(a)}

(* The attach seam is exact: what a pane shows of an attachment since its  *)
(* catchup is the session's output from the start, each frame once and in  *)
(* order and none skipped, unless the daemon dropped one because the       *)
(* client was slow (terminal.rs attach_with, the forwarder).               *)
SeamExact ==
    ~replay /\ screen # <<>> /\ screen[1].kind = "catchup" =>
        LET a == screen[1].by IN
        a \notin lossy =>
            /\ \A i, j \in Writes(a) : i < j =>
                  \A x \in screen[i].outs, y \in screen[j].outs : x < y
            /\ OnScreen(a) \subseteq OutBelow(sel, Len(hist[sel]) + 1)
            /\ \A x \in OnScreen(a) : OutBelow(sel, x) \subseteq OnScreen(a)

(* Nobody streams to a pane nobody views: once the commands sent have been *)
(* read, the only forwarder still running is the viewed pane's.            *)
NoLeakedForwarder ==
    up = <<>> /\ seam = NoSeam =>
        {s \in Sess : att[s].on} \subseteq {liveRef}

=============================================================================
