----------------------------- MODULE WebReducer -----------------------------
(***************************************************************************)
(* The state the browser console keeps (hooks/useWisphive.ts) and the      *)
(* transition each daemon frame makes in it: one operator per case of the  *)
(* functional updater of handleMessage.  A frame is a record with a type   *)
(* field and the ids the case looks at; every text, timestamp and payload  *)
(* is left out.                                                            *)
(*                                                                         *)
(* Lists the code appends to without looking (queue, agents) are sequences *)
(* so that a row delivered twice is visible; lists it keys by id (managed, *)
(* audit, alerts) are sets.                                                *)
(***************************************************************************)
EXTENDS Naturals, Sequences

CONSTANTS NoId,        \* null: no request, no decision, no project
          MaxErrors    \* MAX_ERRORS: retained error rows

ASSUME MaxErrorsAssumption == MaxErrors \in Nat \ {0}

Idle == [phase |-> "none", corr |-> NoId, decision |-> NoId]

\* useState's initial value
EmptyView ==
    [connected |-> FALSE, queue |-> <<>>, agents |-> <<>>, ended |-> {},
     managed |-> {}, audit |-> {}, timeline |-> NoId, hookStatus |-> {},
     hookErrors |-> {}, reauth |-> NoId, alerts |-> {}, errors |-> <<>>,
     spawn |-> Idle]

-----------------------------------------------------------------------------
(* Error rows *)

\* appendError: an immediate duplicate raises the last row's count, anything
\* else is appended under the next id and the oldest row past the cap goes.
AppendError(errors, source, text) ==
    LET n == Len(errors) IN
    IF n > 0 /\ errors[n].source = source /\ errors[n].text = text
    THEN [errors EXCEPT ![n].count = @ + 1]
    ELSE LET id  == IF n > 0 THEN errors[n].id + 1 ELSE 1
             row == [id |-> id, source |-> source, text |-> text, count |-> 1]
             all == Append(errors, row)
         IN  IF n + 1 > MaxErrors THEN Tail(all) ELSE all

\* dismissError
DismissError(v, id) ==
    [v EXCEPT !.errors = SelectSeq(@, LAMBDA e : e.id # id)]

-----------------------------------------------------------------------------
(* Decisions, agents, audit rows *)

\* filter: the rows of q other than d, in their order
Without(q, d) ==
    LET rest[i \in 0..Len(q)] ==
            IF i = 0 THEN <<>>
            ELSE IF q[i] # d THEN Append(rest[i - 1], q[i]) ELSE rest[i - 1]
    IN  rest[Len(q)]

Welcome(v) == [v EXCEPT !.connected = TRUE]

QueueSnapshot(v, m) == [v EXCEPT !.queue = m.items]

\* appended without looking for the id
NewDecision(v, m) == [v EXCEPT !.queue = Append(@, m.id)]

DecisionResolved(v, m) == [v EXCEPT !.queue = Without(@, m.id)]

AuditSnapshot(v, m) == [v EXCEPT !.audit = m.rows]

\* mergeAuditDecisions keeps one row per auditKey
AuditDecision(v, m) == [v EXCEPT !.audit = @ \cup {m.row}]

DeferredResolved(v, m) == [v EXCEPT !.audit = @ \ {m.row}]

AgentsSnapshot(v, m) ==
    [v EXCEPT !.agents = m.agents,
              !.ended = @ \ {m.agents[i] : i \in DOMAIN m.agents}]

AgentConnected(v, m) ==
    [v EXCEPT !.agents = Append(@, m.agent), !.ended = @ \ {m.agent}]

AgentDisconnected(v, m) ==
    [v EXCEPT !.agents = Without(@, m.agent),
              !.ended = @ \cup {m.agent}]

-----------------------------------------------------------------------------
(* Managed processes, timelines, hook installs, alerts *)

AgentSpawned(v, m) == [v EXCEPT !.managed = @ \cup {m.agent}]
AgentExited(v, m) == [v EXCEPT !.managed = @ \ {m.agent}]
\* mutant: a reply only adds
AgentList_Merges(v, m) == [v EXCEPT !.managed = @ \cup m.agents]

AgentList(v, m) == [v EXCEPT !.managed = m.agents]

\* history_response, sessions, projects, worktrees, burn: the reply replaces
\* whatever the channel showed
HistoryResponse(v, m) == [v EXCEPT !.timeline = m.agent]

ProjectHookStatus(v, m) == [v EXCEPT !.hookStatus = @ \cup {m.project}]

InstallHooksResult(v, m) ==
    IF m.ok THEN [v EXCEPT !.hookStatus = @ \cup {m.project},
                           !.hookErrors = @ \ {m.project}]
            ELSE [v EXCEPT !.hookErrors = @ \cup {m.project}]

\* disk_alert and config_alert: at most one row per kind
AlertFrame(v, m) ==
    [v EXCEPT !.alerts = IF m.active THEN @ \cup {m.kind} ELSE @ \ {m.kind}]

-----------------------------------------------------------------------------
(* Errors, spawn tracking, reauthentication *)

ErrorFrame(v, m) == [v EXCEPT !.errors = AppendError(@, "daemon", m.text)]

TermError(v, m) == [v EXCEPT !.errors = AppendError(@, "terminal", m.text)]

\* mutant: an error that names a request never reaches the modal
CommandError_Banner(v, m) == ErrorFrame(v, m)

\* A correlated failure of the tracked spawn goes to the modal, any other to
\* the banner.
CommandError(v, m) ==
    IF v.spawn.phase \in {"pending", "queued"} /\ m.corr = v.spawn.corr
    THEN [v EXCEPT !.spawn.phase = "refused"]
    ELSE ErrorFrame(v, m)

AgentSpawnQueued(v, m) ==
    IF v.spawn.phase = "pending" /\ m.corr = v.spawn.corr
    THEN [v EXCEPT !.spawn.phase = "queued", !.spawn.decision = m.id]
    ELSE v

WebReauthRequired(v, m) == [v EXCEPT !.reauth = m.id]

-----------------------------------------------------------------------------
\* The switch of handleMessage's updater; types without a case (replay done,
\* reimport complete, unknown) leave the state alone.
Reduce(v, m) ==
    CASE m.type = "welcome"            -> Welcome(v)
      [] m.type = "queue_snapshot"     -> QueueSnapshot(v, m)
      [] m.type = "new_decision"       -> NewDecision(v, m)
      [] m.type = "decision_resolved"  -> DecisionResolved(v, m)
      [] m.type = "audit_snapshot"     -> AuditSnapshot(v, m)
      [] m.type = "audit_decision"     -> AuditDecision(v, m)
      [] m.type = "deferred_resolved"  -> DeferredResolved(v, m)
      [] m.type = "agents_snapshot"    -> AgentsSnapshot(v, m)
      [] m.type = "agent_connected"    -> AgentConnected(v, m)
      [] m.type = "agent_disconnected" -> AgentDisconnected(v, m)
      [] m.type = "agent_spawned"      -> AgentSpawned(v, m)
      [] m.type = "agent_exited"       -> AgentExited(v, m)
      [] m.type = "agent_list"         -> AgentList(v, m)
      [] m.type = "history_response"   -> HistoryResponse(v, m)
      [] m.type = "project_hook_status" -> ProjectHookStatus(v, m)
      [] m.type = "install_hooks_result" -> InstallHooksResult(v, m)
      [] m.type = "alert"              -> AlertFrame(v, m)
      [] m.type = "error"              -> ErrorFrame(v, m)
      [] m.type = "term_error"         -> TermError(v, m)
      [] m.type = "command_error"      -> CommandError(v, m)
      [] m.type = "agent_spawn_queued" -> AgentSpawnQueued(v, m)
      [] m.type = "web_reauth_required" -> WebReauthRequired(v, m)
      [] OTHER                         -> v

=============================================================================
