------------------------------ MODULE WebFeed -------------------------------
(***************************************************************************)
(* How the browser console follows the daemon: the sockets it dials        *)
(* (hooks/useWisphive.ts: connect, onclose, the auth-change effect), the   *)
(* subscription and the three snapshots handle_tui gives each of them, the *)
(* bounded broadcast channel behind it, and the reducer that folds the     *)
(* frames into the state the operator acts on.                             *)
(*                                                                         *)
(* A socket slot may be reused once its socket is closed.  Frames are in a *)
(* subscription's ring (sub), then on the wire, then applied.  A token is  *)
(* a number, 0 is "none stored"; the server forgets revoked ones.          *)
(***************************************************************************)
EXTENDS WebReducer, SequencesExt

CONSTANTS Ids,        \* decisions
          Agents,     \* hook-registered sessions
          Rows,       \* deferred native prompts in the audit log
          Procs,      \* managed agent processes
          Kinds,      \* kinds of disk and configuration alert
          Socks,      \* WebSocket slots
          NoSock,     \* wsRef.current = null
          RingCap,    \* capacity of the broadcast channel (256 in the daemon)
          WireCap,    \* frames a connection holds before a write blocks
          MaxTokens,  \* bound on logins
          MaxFaults,  \* bound on lost connections and failed probes
          MaxEvents,  \* bound on registry, audit, process and alert changes
          Relogin     \* a login may finish while a token is stored

ASSUME FeedAssumption ==
    /\ NoSock \notin Socks
    /\ {RingCap, WireCap} \subseteq Nat \ {0}
    /\ {MaxTokens, MaxFaults, MaxEvents} \subseteq Nat
    /\ Relogin \in BOOLEAN

VARIABLES
    pend,     \* the daemon's decision queue, oldest first
    seen,     \* decisions that ever entered it
    reg,      \* the agent registry
    rows,     \* deferred rows without an answer in the audit log
    procs,    \* the managed process registry
    raised,   \* alerts the daemon has latched
    out,      \* registry and audit frames not broadcast yet
    events,   \* those changes so far
    sock,     \* per slot: readyState, handler, token, feed phase, ring, wire
    wsRef,    \* the socket the hook talks to
    opened,   \* wsEverOpenedRef
    timer,    \* the reconnect timer is armed
    probe,    \* the token an /api/me probe was sent with, 0 when none
    token,    \* the stored token
    valid,    \* the tokens the server accepts
    issued,   \* tokens issued so far
    view,     \* the console's state
    faults    \* connections and probes lost so far

factVars   == <<reg, rows, procs, raised>>
daemonVars == <<pend, seen, factVars, out, events>>
dialVars   == <<wsRef, opened, timer, probe>>
authVars   == <<token, valid, issued>>
feedVars == <<daemonVars, sock, dialVars, authVars, view, faults>>

-----------------------------------------------------------------------------
(* Sockets *)

Phases == {"none", "hello", "subscribe", "agents", "queue", "audit", "live"}

NewSock(state, tok) ==
    [rs |-> state, hook |-> TRUE, tok |-> tok, srv |-> "none",
     sub |-> <<>>, wire |-> <<>>, lag |-> FALSE]
ClosedSock == NewSock("closed", 0)

IsOpen(s) == s # NoSock /\ sock[s].rs = "open"
\* mutant: the subscription starts after the snapshots
Subscribed_Late(s) == sock[s].srv = "live"

Subscribed(s) == sock[s].srv \in {"agents", "queue", "audit", "live"}

FeedInit ==
    /\ pend = <<>> /\ seen = {} /\ reg = {} /\ rows = {}
    /\ procs = {} /\ raised = {} /\ out = {} /\ events = 0
    /\ sock = [s \in Socks |-> ClosedSock]
    /\ wsRef = NoSock /\ opened = FALSE /\ timer = FALSE /\ probe = 0
    /\ token = 0 /\ valid = {} /\ issued = 0
    /\ view = EmptyView /\ faults = 0

-----------------------------------------------------------------------------
(* The daemon *)

\* tui_tx.send: every subscription keeps the newest RingCap frames
Broadcast(m) ==
    sock' = [s \in Socks |->
        IF ~Subscribed(s) THEN sock[s]
        ELSE IF Len(sock[s].sub) < RingCap
             THEN [sock[s] EXCEPT !.sub = Append(@, m)]
             ELSE [sock[s] EXCEPT !.sub = Append(Tail(@), m), !.lag = TRUE]]

Enqueue(d) ==
    /\ d \notin seen
    /\ pend' = Append(pend, d) /\ seen' = seen \cup {d}
    /\ Broadcast([type |-> "new_decision", id |-> d])
    /\ UNCHANGED <<factVars, out, events, dialVars, authVars, view, faults>>

Resolve(d) ==
    /\ d \in ToSet(pend)
    /\ pend' = Without(pend, d)
    /\ Broadcast([type |-> "decision_resolved", id |-> d])
    /\ UNCHANGED <<seen, factVars, out, events, dialVars, authVars, view, faults>>

\* Something the daemon keeps changes and is announced: at once, or, where the
\* lock is released first, by a frame broadcast later.
Counted == events < MaxEvents /\ events' = events + 1
AnnounceLater(m) ==
    /\ Counted
    /\ out' = out \cup {m}
    /\ UNCHANGED <<pend, seen, sock, dialVars, authVars, view, faults>>
AnnounceNow(m) ==
    /\ Counted
    /\ Broadcast(m)
    /\ UNCHANGED <<pend, seen, out, dialVars, authVars, view, faults>>

Register(a) ==
    /\ a \notin reg /\ reg' = reg \cup {a}
    /\ AnnounceLater([type |-> "agent_connected", agent |-> a])
    /\ UNCHANGED <<rows, procs, raised>>

Reap(a) ==
    /\ a \in reg /\ reg' = reg \ {a}
    /\ AnnounceLater([type |-> "agent_disconnected", agent |-> a])
    /\ UNCHANGED <<rows, procs, raised>>

Defer(q) ==
    /\ q \notin rows /\ rows' = rows \cup {q}
    /\ AnnounceLater([type |-> "audit_decision", row |-> q])
    /\ UNCHANGED <<reg, procs, raised>>

Answer(q) ==
    /\ q \in rows /\ rows' = rows \ {q}
    /\ AnnounceLater([type |-> "deferred_resolved", row |-> q])
    /\ UNCHANGED <<reg, procs, raised>>

Launch(p) ==
    /\ p \notin procs /\ procs' = procs \cup {p}
    /\ AnnounceLater([type |-> "agent_spawned", agent |-> p])
    /\ UNCHANGED <<reg, rows, raised>>

Exit(p) ==
    /\ p \in procs /\ procs' = procs \ {p}
    /\ AnnounceNow([type |-> "agent_exited", agent |-> p])
    /\ UNCHANGED <<reg, rows, raised>>

\* check_disk_alerts and the config watcher announce the two edges of a latch
Alert(k) ==
    /\ raised' = IF k \in raised THEN raised \ {k} ELSE raised \cup {k}
    /\ AnnounceNow([type |-> "alert", kind |-> k, active |-> k \notin raised])
    /\ UNCHANGED <<reg, rows, procs>>

Publish(m) ==
    /\ m \in out
    /\ out' = out \ {m}
    /\ Broadcast(m)
    /\ UNCHANGED <<pend, seen, factVars, events, dialVars, authVars, view, faults>>

-----------------------------------------------------------------------------
(* One connection, on the server's side *)

Room(s) == Len(sock[s].wire) < WireCap

\* the phase s is in, the one it moves to and the frame it writes
SendFrame(s, from, to, m) ==
    /\ sock[s].rs = "open" /\ sock[s].srv = from /\ Room(s)
    /\ sock' = [sock EXCEPT ![s].srv = to, ![s].wire = Append(@, m)]
    /\ UNCHANGED <<daemonVars, dialVars, authVars, view, faults>>

\* bridge: handshake with the daemon, the Welcome line passed on
SendWelcome(s) == SendFrame(s, "hello", "subscribe", [type |-> "welcome"])

\* handle_tui subscribes before it takes the first snapshot
Subscribe(s) ==
    /\ sock[s].rs = "open" /\ sock[s].srv = "subscribe"
    /\ sock' = [sock EXCEPT ![s].srv = "agents"]
    /\ UNCHANGED <<daemonVars, dialVars, authVars, view, faults>>

SendAgents(s) ==
    SendFrame(s, "agents", "queue",
          [type |-> "agents_snapshot", agents |-> SetToSeq(reg)])

SendQueue(s) ==
    SendFrame(s, "queue", "audit", [type |-> "queue_snapshot", items |-> pend])

SendAudit(s) ==
    SendFrame(s, "audit", "live", [type |-> "audit_snapshot", rows |-> rows])

\* the select loop forwards; a lagged receiver resumes at the oldest frame kept
Forward(s) ==
    /\ sock[s].rs = "open" /\ sock[s].srv = "live" /\ Room(s)
    /\ sock[s].sub # <<>>
    /\ sock' = [sock EXCEPT ![s].sub = Tail(@),
                            ![s].wire = Append(@, Head(sock[s].sub))]
    /\ UNCHANGED <<daemonVars, dialVars, authVars, view, faults>>

\* queryManagedAgents, polled while the Agents view is open, and its reply
PollAgents(s) ==
    /\ view.connected
    /\ SendFrame(s, "live", "live", [type |-> "agent_list", agents |-> procs])

-----------------------------------------------------------------------------
(* The hook's side of a connection *)

\* connect(): nothing while the current socket is open, nothing to dial with
\* without a token, else a new socket becomes wsRef.  socks is the table the
\* caller leaves, tok the token stored when it runs.
Connect(socks, tok) ==
    \/ /\ wsRef # NoSock /\ socks[wsRef].rs = "open"
       /\ sock' = socks
       /\ UNCHANGED <<wsRef, opened, view>>
    \/ /\ ~(wsRef # NoSock /\ socks[wsRef].rs = "open") /\ tok = 0
       /\ sock' = socks /\ view' = [view EXCEPT !.connected = FALSE]
       /\ UNCHANGED <<wsRef, opened>>
    \/ /\ ~(wsRef # NoSock /\ socks[wsRef].rs = "open") /\ tok # 0
       /\ \E s \in Socks :
            /\ socks[s].rs = "closed"
            /\ sock' = [socks EXCEPT ![s] = NewSock("connecting", tok)]
            /\ wsRef' = s
       /\ opened' = FALSE
       /\ UNCHANGED view

\* setWebToken and its auth-change notification: redial unless open
StoreToken ==
    /\ issued < MaxTokens /\ (Relogin \/ token = 0)
    /\ issued' = issued + 1 /\ token' = issued' /\ valid' = valid \cup {issued'}
    /\ IF IsOpen(wsRef) THEN UNCHANGED <<sock, dialVars, view>>
       ELSE /\ timer' = FALSE
            /\ Connect(sock, issued')
            /\ UNCHANGED probe
    /\ UNCHANGED <<daemonVars, faults>>

\* mutants: the timer, or the probe, is left running
TearDown_KeepsTimer(socks) ==
    /\ token' = 0
    /\ probe' = 0 /\ wsRef' = NoSock
    /\ sock' = IF wsRef = NoSock THEN socks ELSE [socks EXCEPT ![wsRef] = ClosedSock]
    /\ UNCHANGED <<opened, timer, issued, daemonVars>>

\* clearWebToken and its notification: timer and probe cancelled, the close
\* handler detached before the socket is closed
TearDown(socks) ==
    /\ token' = 0
    /\ timer' = FALSE /\ probe' = 0 /\ wsRef' = NoSock
    /\ sock' = IF wsRef = NoSock THEN socks ELSE [socks EXCEPT ![wsRef] = ClosedSock]
    /\ UNCHANGED <<opened, issued, daemonVars>>

Logout ==
    /\ token # 0
    /\ TearDown(sock)
    /\ valid' = valid \ {token}
    /\ UNCHANGED <<view, faults>>

\* the server revokes the stored token; open connections stay open
Revoke ==
    /\ token \in valid
    /\ valid' = valid \ {token}
    /\ UNCHANGED <<daemonVars, sock, dialVars, token, issued, view, faults>>

\* the upgrade is accepted
Accept(s) ==
    /\ sock[s].rs = "connecting" /\ sock[s].tok \in valid
    /\ sock' = [sock EXCEPT ![s].rs = "open", ![s].srv = "hello"]
    /\ opened' = TRUE
    /\ UNCHANGED <<daemonVars, wsRef, timer, probe, authVars, view, faults>>

\* mutant: no probe, whatever the close code says
OnClose_NoProbe(s) ==
    /\ sock' = [sock EXCEPT ![s] = ClosedSock]
    /\ view' = [view EXCEPT !.connected = FALSE]
    /\ timer' = TRUE
    /\ UNCHANGED <<daemonVars, wsRef, opened, probe, authVars>>

\* onclose with 1006: disconnected, a probe when this socket never opened,
\* and always a reconnect in two seconds
OnClose(s) ==
    /\ sock' = [sock EXCEPT ![s] = ClosedSock]
    /\ view' = [view EXCEPT !.connected = FALSE]
    /\ timer' = TRUE
    /\ probe' = IF ~opened /\ token # 0 THEN token ELSE probe
    /\ UNCHANGED <<daemonVars, wsRef, opened, authVars>>

\* the upgrade is refused for its token
Refuse(s) ==
    /\ sock[s].rs = "connecting" /\ sock[s].tok \notin valid
    /\ OnClose(s)
    /\ UNCHANGED faults

\* the connection is lost, dialling or open
Drop(s) ==
    /\ sock[s].rs \in {"connecting", "open"} /\ faults < MaxFaults
    /\ faults' = faults + 1
    /\ OnClose(s)

\* closed with 1008, 4401 or 4403: the token goes, nothing is redialled
PolicyClose(s) ==
    /\ sock[s].rs = "open" /\ sock[s].tok \notin valid
    /\ TearDown([sock EXCEPT ![s] = ClosedSock])
    /\ view' = [view EXCEPT !.connected = FALSE]
    /\ UNCHANGED <<valid, faults>>

ReconnectTimer ==
    /\ timer
    /\ timer' = FALSE
    /\ Connect(sock, token)
    /\ UNCHANGED <<daemonVars, probe, authVars, faults>>

\* the probe's answer: apiFetch drops the stored token when the one it sent
\* is rejected
ProbeRejected ==
    /\ probe # 0 /\ probe \notin valid
    /\ TearDown(sock)
    /\ UNCHANGED <<valid, view, faults>>

ProbeAccepted ==
    /\ probe \in valid
    /\ probe' = 0
    /\ UNCHANGED <<daemonVars, sock, wsRef, opened, timer, authVars, view, faults>>

ProbeLost ==
    /\ probe # 0 /\ faults < MaxFaults
    /\ faults' = faults + 1 /\ probe' = 0
    /\ UNCHANGED <<daemonVars, sock, wsRef, opened, timer, authVars, view>>

\* onmessage: handleMessage on the next frame, whatever socket it came from
Receive(s) ==
    /\ sock[s].rs = "open" /\ sock[s].wire # <<>>
    /\ view' = Reduce(view, Head(sock[s].wire))
    /\ sock' = [sock EXCEPT ![s].wire = Tail(@)]
    /\ UNCHANGED <<daemonVars, dialVars, authVars, faults>>

-----------------------------------------------------------------------------
DaemonStep ==
    \/ \E d \in Ids : Enqueue(d) \/ Resolve(d)
    \/ \E a \in Agents : Register(a) \/ Reap(a)
    \/ \E q \in Rows : Defer(q) \/ Answer(q)
    \/ \E p \in Procs : Launch(p) \/ Exit(p)
    \/ \E k \in Kinds : Alert(k)

FeedStep(s) ==
    \/ SendWelcome(s) \/ Subscribe(s) \/ SendAgents(s) \/ SendQueue(s)
    \/ SendAudit(s) \/ Forward(s) \/ Receive(s) \/ Accept(s) \/ Refuse(s)

UserStep == StoreToken \/ Logout \/ Revoke

FaultStep == ProbeLost \/ \E s \in Socks : Drop(s) \/ PolicyClose(s)

FeedNext ==
    \/ DaemonStep \/ UserStep \/ FaultStep
    \/ \E m \in out : Publish(m)
    \/ \E s \in Socks : FeedStep(s) \/ PollAgents(s)
    \/ ReconnectTimer \/ ProbeRejected \/ ProbeAccepted

\* Timers fire, tasks run and the network answers; nobody has to log in, and
\* nothing has to fail.  The Agents view keeps polling while it is open,
\* and select! picks a ready branch at random: neither starves the other.
FeedFairness ==
    /\ \A s \in Socks : WF_feedVars(FeedStep(s))
    /\ \A s \in Socks : SF_feedVars(Forward(s)) /\ SF_feedVars(PollAgents(s))
    /\ WF_feedVars(\E m \in out : Publish(m))
    /\ WF_feedVars(ReconnectTimer)
    /\ WF_feedVars(ProbeRejected \/ ProbeAccepted)

FeedSpec == FeedInit /\ [][FeedNext]_feedVars /\ FeedFairness

-----------------------------------------------------------------------------
(* Properties *)

FeedTypeOK ==
    /\ pend \in Seq(Ids) /\ seen \subseteq Ids /\ reg \subseteq Agents
    /\ rows \subseteq Rows /\ procs \subseteq Procs /\ raised \subseteq Kinds
    /\ events \in 0..MaxEvents /\ faults \in 0..MaxFaults
    /\ wsRef \in Socks \cup {NoSock} /\ {opened, timer} \subseteq BOOLEAN
    /\ {token, probe, issued} \subseteq 0..MaxTokens /\ valid \subseteq 1..MaxTokens
    /\ \A s \in Socks :
        /\ sock[s].rs \in {"connecting", "open", "closed"} /\ sock[s].srv \in Phases
        /\ Len(sock[s].sub) <= RingCap /\ Len(sock[s].wire) <= WireCap
    /\ view.queue \in Seq(Ids) /\ view.agents \in Seq(Agents)

\* The state after some frames have been applied
Replay(v, frames) ==
    LET after[i \in 0..Len(frames)] ==
            IF i = 0 THEN v ELSE Reduce(after[i - 1], frames[i])
    IN  after[Len(frames)]

\* What the console will show once everything sent on s, then everything
\* waiting for it, has been applied
Pending(s) == Replay(Replay(view, sock[s].wire), sock[s].sub)

\* Once the queue snapshot of the current connection is on its way, what is
\* shown plus what is in flight is exactly the daemon's queue: no decision
\* is missed between the snapshot and the live frames and none survives its
\* resolution, however frames and snapshots interleave.  Excepted is a
\* subscription that lagged: nothing resynchronises it.
QueueCatchesUp ==
    \A s \in Socks :
        (/\ s = wsRef /\ ~sock[s].lag
         /\ sock[s].rs = "open" /\ sock[s].srv \in {"audit", "live"})
            => ToSet(Pending(s).queue) = ToSet(pend)

\* Without a stored token the page holds no connection and will not dial:
\* teardown leaves no socket, timer or probe behind.
LoggedOutIsDown ==
    (token = 0)
        => /\ \A s \in Socks : sock[s].rs = "closed"
           /\ ~timer /\ probe = 0

\* Connection losses and revocations over, the console is logged out or
\* shows the daemon's queue: no reconnect loop, no frozen "disconnected".
Settles ==
    <>[](\/ token = 0
         \/ wsRef # NoSock /\ sock[wsRef].lag
         \/ view.connected /\ ToSet(view.queue) = ToSet(pend))

\* The managed list the operator stops processes from is right in the end
\* whatever was lost to lag or announced out of order: the poll repairs it.
PollRepairs == <>[](token = 0 \/ view.managed = procs)

=============================================================================
