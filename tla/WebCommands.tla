---------------------------- MODULE WebCommands -----------------------------
(***************************************************************************)
(* What the operator does in the browser console and what becomes of it:   *)
(* approvals that the daemon bounces for reauthentication and the console  *)
(* replays after the password (hooks/useWisphive.ts, SudoModal.tsx), hook  *)
(* installs gated the same way, and spawn requests whose answers carry a   *)
(* correlation id (SpawnModal.tsx).                                        *)
(*                                                                         *)
(* The refs (stash, gated, installs) change when a handler runs; the state *)
(* (view) changes when React runs the queued updaters (todo), which may    *)
(* be later and, for an updater with side effects, twice.                  *)
(***************************************************************************)
EXTENDS WebReducer, SequencesExt, FiniteSetsExt

CONSTANTS Ids,        \* decisions
          Sudo,       \* those of a sudo-class tool
          Projects,   \* projects whose hooks can be installed
          MaxClicks,  \* bound on the operator's commands
          MaxDrops,   \* bound on lost connections and page resets
          MaxQueue    \* bound on frames, commands and updaters in flight

ASSUME CommandsAssumption ==
    /\ Sudo \subseteq Ids /\ Ids \cap Projects = {}
    /\ NoId \notin Ids \cup Projects
    /\ {MaxClicks, MaxDrops, MaxQueue} \subseteq Nat

Keys == Ids \cup Projects      \* request_id of a gated command
Corrs == 1..MaxClicks          \* correlation ids of spawn requests

VARIABLES
    pend,      \* the daemon's pending decisions
    seen,      \* decisions that ever were
    fresh,     \* this device's reauthentication is within REAUTH_TTL
    spawned,   \* corr |-> decision the daemon queued for it, NoId before
    failed,    \* corrs whose worker reported a failure
    conn,      \* number of the current connection, 0 while down
    drops,     \* connections so far
    up,        \* commands on their way to the daemon
    wire,      \* frames on their way to the browser
    todo,      \* setState updaters not run yet
    view,      \* the console's state
    stash,     \* approveStashRef: "none", "tool" or "blank" (no tool known)
    gated,     \* pendingReauthsRef
    installs,  \* installStashRef
    reauth,    \* the modal's request: "idle", "sent" or "ok"
    clicks,    \* commands so far
    sent,      \* key |-> times sent since the operator last asked for it
    gone,      \* keys the operator abandoned since
    via        \* corr |-> connection the spawn request was sent on

daemonVars == <<pend, seen, fresh, spawned, failed>>
netVars    == <<conn, drops, up, wire>>
refVars    == <<stash, gated, installs>>
ghostVars  == <<sent, gone, via>>
vars == <<daemonVars, netVars, todo, view, refVars, reauth, clicks, ghostVars>>

Init ==
    /\ pend = {} /\ seen = {} /\ fresh = FALSE
    /\ spawned = [c \in Corrs |-> NoId] /\ failed = {}
    /\ conn = 1 /\ drops = 0 /\ up = <<>> /\ wire = <<>>
    /\ todo = <<>> /\ view = Welcome(EmptyView)
    /\ stash = [d \in Ids |-> "none"] /\ gated = {} /\ installs = {}
    /\ reauth = "idle" /\ clicks = 0
    /\ sent = [k \in Keys |-> 0] /\ gone = {} /\ via = [c \in Corrs |-> 0]

Room == Len(wire) + Len(up) + Len(todo) < MaxQueue

-----------------------------------------------------------------------------
(* The daemon *)

\* on this connection: handle_tui writes broadcasts and replies to one stream
Broadcast(m) == wire' = IF conn = 0 THEN wire ELSE Append(wire, m)

Enqueue(d) ==
    /\ d \notin seen /\ Room
    /\ pend' = pend \cup {d} /\ seen' = seen \cup {d}
    /\ Broadcast([type |-> "new_decision", id |-> d])
    /\ UNCHANGED <<fresh, spawned, failed, conn, drops, up, todo, view,
                   refVars, reauth, clicks, ghostVars>>

\* another reviewer, a timeout or the hook's death
OtherResolve(d) ==
    /\ d \in pend /\ Room
    /\ pend' = pend \ {d}
    /\ Broadcast([type |-> "decision_resolved", id |-> d])
    /\ UNCHANGED <<seen, fresh, spawned, failed, conn, drops, up, todo, view,
                   refVars, reauth, clicks, ghostVars>>

\* REAUTH_TTL passes
Lapse ==
    /\ fresh /\ fresh' = FALSE
    /\ UNCHANGED <<pend, seen, spawned, failed, netVars, todo, view, refVars,
                   reauth, clicks, ghostVars>>

Reply(m) == wire' = Append(wire, m)

DoResolve(d) ==
    /\ pend' = pend \ {d}
    /\ IF d \in pend THEN Broadcast([type |-> "decision_resolved", id |-> d])
                     ELSE UNCHANGED wire

\* Approve: a pending sudo-class decision is bounced unless the device is
\* fresh; otherwise resolve, which a stale id makes a no-op
DoApprove(d) ==
    IF d \in pend \cap Sudo /\ ~fresh
    THEN Reply([type |-> "web_reauth_required", id |-> d]) /\ UNCHANGED pend
    ELSE DoResolve(d)

\* InstallHooks: gated whatever the project; the install succeeds or fails
DoInstall(p) ==
    /\ IF ~fresh THEN Reply([type |-> "web_reauth_required", id |-> p])
       ELSE \E ok \in BOOLEAN :
              Reply([type |-> "install_hooks_result", project |-> p, ok |-> ok])
    /\ UNCHANGED pend

\* SpawnAgent: refused at once, or queued for approval and acknowledged
DoSpawn(c) ==
    \/ /\ Reply([type |-> "command_error", corr |-> c, text |-> "refused"])
       /\ UNCHANGED <<pend, seen, spawned>>
    \/ \E d \in Ids \ seen :
       /\ pend' = pend \cup {d} /\ seen' = seen \cup {d}
       /\ spawned' = [spawned EXCEPT ![c] = d]
       /\ wire' = wire \o <<[type |-> "agent_spawn_queued", corr |-> c, id |-> d],
                           [type |-> "new_decision", id |-> d]>>

\* process_client_message on the next command of the connection
ReadCommand ==
    /\ up # <<>>
    /\ LET c == Head(up) IN
       /\ \/ c.type = "approve" /\ DoApprove(c.key) /\ UNCHANGED <<seen, spawned>>
          \/ c.type = "deny" /\ DoResolve(c.key) /\ UNCHANGED <<seen, spawned>>
          \/ c.type = "install_hooks" /\ DoInstall(c.key) /\ UNCHANGED <<seen, spawned>>
          \/ c.type = "spawn_agent" /\ DoSpawn(c.key)
    /\ up' = Tail(up)
    /\ UNCHANGED <<fresh, failed, conn, drops, todo, view, refVars, reauth,
                   clicks, ghostVars>>

\* the spawn worker: its decision was denied, expired or the launch failed;
\* only the connection that asked is told
WorkerFails(c) ==
    /\ spawned[c] # NoId /\ spawned[c] \notin pend /\ c \notin failed
    /\ failed' = failed \cup {c}
    /\ IF via[c] = conn
       THEN Reply([type |-> "command_error", corr |-> c, text |-> "failed"])
       ELSE UNCHANGED wire
    /\ UNCHANGED <<pend, seen, fresh, spawned, conn, drops, up, todo, view,
                   refVars, reauth, clicks, ghostVars>>

\* /api/auth/reauth with the right password touches the device
ReauthHandled ==
    /\ reauth = "sent"
    /\ reauth' = "ok" /\ fresh' = TRUE
    /\ UNCHANGED <<pend, seen, spawned, failed, netVars, todo, view, refVars,
                   clicks, ghostVars>>

-----------------------------------------------------------------------------
(* The connection *)

Drop ==
    /\ conn # 0 /\ drops < MaxDrops
    /\ conn' = 0 /\ drops' = drops + 1
    /\ up' = <<>> /\ wire' = <<>>
    /\ UNCHANGED <<daemonVars, todo, view, refVars, reauth, clicks, ghostVars>>

\* reconnected: the refs survive, the queue comes as a snapshot
Relink ==
    /\ conn = 0
    /\ conn' = drops + 1
    /\ \E q \in SetToSeqs(pend) :
          wire' = <<[type |-> "welcome"], [type |-> "queue_snapshot", items |-> q]>>
    /\ UNCHANGED <<daemonVars, drops, up, todo, view, refVars, reauth,
                   clicks, ghostVars>>

\* A wrong password is a 401: apiFetch drops the token, the shell unmounts
\* and its state and refs go with it.
WrongPassword ==
    /\ reauth = "sent" /\ drops < MaxDrops
    /\ conn' = 0 /\ drops' = drops + 1
    /\ up' = <<>> /\ wire' = <<>> /\ todo' = <<>>
    /\ view' = EmptyView /\ reauth' = "idle"
    /\ stash' = [d \in Ids |-> "none"] /\ gated' = {} /\ installs' = {}
    /\ UNCHANGED <<daemonVars, clicks, ghostVars>>

\* onmessage: the refs change at once, the state through an updater
Receive ==
    /\ wire # <<>>
    /\ LET m == Head(wire) IN
       /\ todo' = Append(todo, [do |-> "reduce", m |-> m])
       /\ gated' = IF m.type = "web_reauth_required" THEN gated \cup {m.id} ELSE gated
       /\ stash' = IF m.type = "decision_resolved" THEN [stash EXCEPT ![m.id] = "none"]
                   ELSE stash
    /\ wire' = Tail(wire)
    /\ UNCHANGED <<daemonVars, conn, drops, up, view, installs, reauth,
                   clicks, ghostVars>>

-----------------------------------------------------------------------------
(* The operator *)

Modal == view.reauth # NoId
Counted == clicks < MaxClicks /\ Room /\ clicks' = clicks + 1

\* send(): written to an open socket, else an error row unless quiet
Send(c) ==
    IF conn # 0 THEN up' = Append(up, c) /\ UNCHANGED todo
    ELSE UNCHANGED up /\ todo' = Append(todo, [do |-> "error", text |-> c.type])

\* the ghost record of an explicit request for k
Asked(k) == sent' = [sent EXCEPT ![k] = IF conn = 0 THEN 0 ELSE 1] /\ gone' = gone \ {k}

\* A row that is shown, or a selection that outlived its row
Selectable(d) == d \in ToSet(view.queue) \cup (seen \ pend)

\* approve(), from a row, the detail pane or y on the selection: the tool is
\* looked up in the queue as shown
Approve(d) ==
    /\ ~Modal /\ Counted
    /\ Selectable(d)
    /\ stash' = [stash EXCEPT ![d] = IF d \in ToSet(view.queue) THEN "tool" ELSE "blank"]
    /\ Send([type |-> "approve", key |-> d])
    /\ Asked(d)
    /\ UNCHANGED <<daemonVars, conn, drops, wire, view, gated, installs, reauth, via>>

Deny(d) ==
    /\ ~Modal /\ Counted
    /\ Selectable(d)
    /\ Send([type |-> "deny", key |-> d])
    /\ UNCHANGED <<daemonVars, conn, drops, wire, view, refVars, reauth, ghostVars>>

InstallHooks(p) ==
    /\ ~Modal /\ Counted
    /\ installs' = installs \cup {p}
    /\ Send([type |-> "install_hooks", key |-> p])
    /\ Asked(p)
    /\ UNCHANGED <<daemonVars, conn, drops, wire, view, stash, gated, reauth, via>>

\* SpawnModal blocks a second submit once the first is queued, and while it is
\* pending until PENDING_TIMEOUT_MS have passed
MaySubmit == view.spawn.phase # "queued"

SpawnAgent ==
    /\ ~Modal /\ Counted /\ MaySubmit
    /\ LET c == clicks' IN
       /\ up' = IF conn # 0 THEN Append(up, [type |-> "spawn_agent", key |-> c]) ELSE up
       /\ todo' = Append(todo, [do |-> "spawn", corr |-> c, sent |-> conn # 0])
       /\ via' = [via EXCEPT ![c] = conn]
    /\ UNCHANGED <<daemonVars, conn, drops, wire, view, refVars, reauth, sent, gone>>

\* the modal is closed: clearSpawnStatus
ClearSpawn ==
    /\ view.spawn.phase # "none" /\ Room
    /\ todo' = Append(todo, [do |-> "clear"])
    /\ UNCHANGED <<daemonVars, netVars, view, refVars, reauth, clicks, ghostVars>>

Dismiss ==
    /\ view.errors # <<>>
    /\ view' = DismissError(view, view.errors[1].id)
    /\ UNCHANGED <<daemonVars, netVars, todo, refVars, reauth, clicks, ghostVars>>

SubmitReauth ==
    /\ Modal /\ reauth = "idle"
    /\ reauth' = "sent"
    /\ UNCHANGED <<daemonVars, netVars, todo, view, refVars, clicks, ghostVars>>

\* 200: onSuccess queues retryPendingApprove's updater.  Any other answer
\* leaves the modal open with an error.
ReauthAnswered ==
    /\ Room
    /\ \/ /\ reauth = "ok" /\ todo' = Append(todo, [do |-> "retry"])
       \/ /\ reauth \in {"sent", "ok"} /\ UNCHANGED todo
    /\ reauth' = "idle"
    /\ UNCHANGED <<daemonVars, netVars, view, refVars, clicks, ghostVars>>

\* Esc or Cancel; the unmounting modal aborts its request.  The ghost gone
\* holds what had accumulated under the modal then, unless a replay is already
\* queued.  (The modal itself may name a gate that is no longer among them.)
CancelReauth ==
    /\ Modal /\ Room
    /\ \A i \in DOMAIN todo : todo[i].do \notin {"retry", "dismiss"}
    /\ todo' = Append(todo, [do |-> "dismiss"])
    /\ reauth' = "idle"
    /\ gone' = gone \cup gated
    /\ UNCHANGED <<daemonVars, netVars, view, refVars, clicks, sent, via>>

-----------------------------------------------------------------------------
(* React runs the next updater *)

\* the batch behind the modal, or the one gate it shows
Batch(g) == IF g = {} /\ Modal THEN {view.reauth} ELSE g

\* mutant: only what the modal names is given up
DismissUpdater_One ==
    /\ gated' = gated \ {view.reauth}
    /\ stash' = [d \in Ids |-> IF d = view.reauth THEN "none" ELSE stash[d]]
    /\ installs' = installs \ {view.reauth}
    /\ view' = [view EXCEPT !.reauth = NoId]
    /\ UNCHANGED <<up, sent>>

\* dismissReauth
DismissUpdater ==
    /\ gated' = {}
    /\ stash' = [d \in Ids |-> IF d \in Batch(gated) THEN "none" ELSE stash[d]]
    /\ installs' = installs \ Batch(gated)
    /\ view' = [view EXCEPT !.reauth = NoId]
    /\ UNCHANGED <<up, sent>>

\* what a batch replays
Replayed(batch) ==
    {k \in batch : \/ k \in installs
                   \/ k \in Ids /\ stash[k] = "tool" /\ k \in ToSet(view.queue)}
ReplayCommand(k) ==
    [type |-> IF k \in Projects THEN "install_hooks" ELSE "approve", key |-> k]

\* the commands a replay sends, and the error rows it leaves when it cannot
Replays(keys) == SetToSeqs({ReplayCommand(k) : k \in keys})
NotSent(keys) ==
    SetToSeq({[do |-> "error", text |-> ReplayCommand(k).type] : k \in keys})

\* mutant: the stash survives its replay
RetryUpdater_KeepsStash ==
    \E again \in {{}, Batch({})} :
        LET first  == Replayed(Batch(gated))
            second == Replayed(again)
        IN
        /\ gated' = {}
        /\ view' = [view EXCEPT !.reauth = NoId]
        /\ IF conn = 0
           THEN UNCHANGED <<up, sent>> /\ todo' = Tail(todo) \o NotSent(first)
           ELSE /\ \E cs \in Replays(first), ds \in Replays(second) : up' = up \o cs \o ds
                /\ sent' = [k \in Keys |-> sent[k] + (IF k \in first THEN 1 ELSE 0)
                                                   + (IF k \in second THEN 1 ELSE 0)]
                /\ todo' = Tail(todo)
        /\ UNCHANGED <<stash, installs>>

\* retryPendingApprove: each gated command still wanted and still listed is
\* sent.  A second run of the updater finds an empty batch and falls back to
\* the gate on show; what the first run handled has no stash any more.
RetryUpdater ==
    \E again \in {{}, Batch({})} :
        LET batch == Batch(gated) \cup again
            keys  == Replayed(batch)
        IN
        /\ gated' = {}
        /\ stash' = [d \in Ids |-> IF d \in batch THEN "none" ELSE stash[d]]
        /\ installs' = installs \ batch
        /\ view' = [view EXCEPT !.reauth = NoId]
        /\ IF conn = 0
           THEN UNCHANGED <<up, sent>> /\ todo' = Tail(todo) \o NotSent(keys)
           ELSE /\ \E cs \in Replays(keys) : up' = up \o cs
                /\ sent' = [k \in Keys |-> sent[k] + (IF k \in keys THEN 1 ELSE 0)]
                /\ todo' = Tail(todo)

\* the updaters that only compute the next state
NextView(u) ==
    CASE u.do = "reduce" -> Reduce(view, u.m)
      [] u.do = "error"  -> [view EXCEPT !.errors = AppendError(@, "client", u.text)]
      [] u.do = "spawn"  -> [view EXCEPT !.spawn =
                               [phase |-> IF u.sent THEN "pending" ELSE "refused",
                                corr |-> u.corr, decision |-> NoId]]
      [] u.do = "clear"  -> [view EXCEPT !.spawn = Idle]

PureUpdater(u) ==
    /\ view' = NextView(u)
    /\ installs' = IF u.do = "reduce" /\ u.m.type = "install_hooks_result"
                   THEN installs \ {u.m.project} ELSE installs
    /\ todo' = Tail(todo)
    /\ UNCHANGED <<up, sent, gated, stash>>

RunUpdater ==
    /\ todo # <<>>
    /\ \/ Head(todo).do = "dismiss" /\ DismissUpdater /\ todo' = Tail(todo)
       \/ Head(todo).do = "retry" /\ RetryUpdater
       \/ Head(todo).do \notin {"dismiss", "retry"} /\ PureUpdater(Head(todo))
    /\ UNCHANGED <<daemonVars, conn, drops, wire, reauth, clicks, gone, via>>

-----------------------------------------------------------------------------
Next ==
    \/ \E d \in Ids : Enqueue(d) \/ OtherResolve(d) \/ Approve(d) \/ Deny(d)
    \/ \E p \in Projects : InstallHooks(p)
    \/ \E c \in Corrs : WorkerFails(c)
    \/ SpawnAgent \/ ClearSpawn \/ Dismiss
    \/ SubmitReauth \/ ReauthHandled \/ ReauthAnswered \/ CancelReauth \/ WrongPassword
    \/ Lapse \/ ReadCommand \/ Receive \/ RunUpdater \/ Drop \/ Relink

Spec == Init /\ [][Next]_vars

-----------------------------------------------------------------------------
(* Properties *)

\* One click is worth at most two sends: the command itself and, after a
\* reauthentication, one replay of it, however many gates, updater runs and
\* reconnects intervene.
OneReplayPerClick == \A k \in Keys : sent[k] <= 2

\* What had accumulated under the password prompt when the operator cancelled
\* it is not sent again unless it is asked for again, not even by a later
\* prompt's success (dismissReauth).
AbandonedStays ==
    [][\A k \in gone : k \in gone' => sent'[k] <= sent[k]]_vars

\* The spawn modal never waits for an answer that is not coming: while it
\* shows "pending" and its connection lives, the request or its answer is
\* still under way.
PendingIsAwaited ==
    (view.spawn.phase = "pending" /\ via[view.spawn.corr] = conn)
        => \/ \E i \in DOMAIN up : up[i].key = view.spawn.corr
           \/ \E i \in DOMAIN wire : wire[i].type \in {"command_error", "agent_spawn_queued"}
                                       /\ wire[i].corr = view.spawn.corr
           \/ \E i \in DOMAIN todo : \/ todo[i].do \in {"spawn", "clear"}
                                     \/ /\ todo[i].do = "reduce"
                                        /\ todo[i].m.type \in
                                             {"command_error", "agent_spawn_queued"}
                                        /\ todo[i].m.corr = view.spawn.corr

=============================================================================
