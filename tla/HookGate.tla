------------------------------ MODULE HookGate ------------------------------
(***************************************************************************)
(* One gated tool call, end to end: the hook process that blocks on a      *)
(* decision, the daemon task that serves it (handle_hook), the reviewers   *)
(* that resolve the queue (handle_decision_command), the two SQLite tables *)
(* they all write, and a daemon that may crash and restart at any point.   *)
(*                                                                         *)
(* A request r stands for its hook process, its connection and its         *)
(* handler.  Every await of the code is a step boundary; the sections      *)
(* under the queue mutex, and single SQL statements, are atomic.           *)
(***************************************************************************)
EXTENDS DecisionQueue, Naturals

CONSTANTS Clients,       \* review connections (TUI and web)
          WebClients,    \* those that carry an authenticated device id
          SudoRequests,  \* requests for a sudo-class tool
          BadRequests,   \* requests whose agent id is reserved or malformed
          Tools, ToolOf, \* ToolOf[r]: the tool request r wants to run
          ToolCalls,     \* the tool_use_ids agents give their tool calls
          CallOf,        \* CallOf[id]: the tool_use_id a request carries, or
                         \* None; requests of several hook events may share one
          Filters,       \* bulk filters, each the set of requests it matches
          Ops,           \* the review commands the clients use
          Faults,        \* what may go wrong: see FaultKinds
          Boot,          \* the startup task that drains orphaned rows
          MaxCrashes     \* bound: daemon crashes in one behaviour

AllOps == {"approve", "deny", "ask", "approve_all", "deny_all",
           "approve_permission"}

FaultKinds == {"timeout", "kill", "db", "mode"}

DecidedBy == {"human", "timeout:approve", "channel_dropped:approve",
              "hook_disconnected:abandoned", "daemon_restart:failopen"}

LogRows == [decision : Decisions, by : DecidedBy]

Jobs == [stage : {"select", "insert", "delete"}, id : Ids,
         decision : Decisions, by : DecidedBy]

ASSUME GateAssumption ==
    /\ WebClients \subseteq Clients
    /\ SudoRequests \subseteq Requests
    /\ BadRequests \subseteq Requests
    /\ ToolOf \in [Requests -> Tools]
    /\ CallOf \in [Ids -> ToolCalls \cup {None}]
    /\ None \notin ToolCalls
    /\ Filters \subseteq SUBSET Requests
    /\ Ops \subseteq AllOps
    /\ Faults \subseteq FaultKinds
    /\ Requests \cap Clients = {}
    /\ Boot \notin Requests \cup Clients
    /\ None \notin Tools
    /\ None \notin Clients
    /\ None \notin LogRows \cup Jobs     \* Option: a row or a job is Some
    /\ MaxCrashes \in Nat

VARIABLES phase,     \* the daemon: "down", "draining" (Server::new), then "up",
                     \* or "undrained" if the drain failed
          crashes,   \* crashes so far
          mode,      \* the mode file: "active" or "off"
          rules,     \* tools with a persisted Always Allow rule
          hook,      \* the hook process, and what it told the agent
          handler,   \* how far the request's handle_hook task is
          waited,    \* which branch of its select! fired
          verdict,   \* the decision it will record and send
          resp,      \* what the hook can read from its socket
          pending_decisions,  \* ids with a row in that table
          decision_log,       \* id |-> audit row, or None
          ingested,           \* tool calls whose audit row came from events.jsonl
          job,       \* a writer's call of resolve_pending_by in progress
          cmd,       \* a client's command in progress
          fresh      \* web clients inside their reauth grace

procVars == <<hook, handler, waited, verdict, resp>>
dbVars   == <<pending_decisions, decision_log, ingested>>
envVars  == <<phase, crashes, mode, rules, fresh>>
vars == <<queueVars, procVars, dbVars, envVars, job, cmd>>

Writers == Requests \cup Clients \cup {Boot}

Commands == [op : AllOps, stage : {"resolve", "persist"}, ids : SUBSET Ids,
             rule : Tools \cup {None}]

HandlerStates == {"none", "accepted", "admitted", "persisted", "waiting",
                  "settling", "settled", "logging", "deleting", "replying",
                  "closed", "failed", "lost"}

\* The socket is bound and connections are served.
Serving == phase \in {"up", "undrained"}

\* A task that still runs: everything but not started and finished.
Running(r) == handler[r] \notin {"none", "closed", "failed", "lost"}

TypeOK ==
    /\ QueueTypeOK
    /\ phase \in {"down", "draining", "up", "undrained"}
    /\ crashes \in 0..MaxCrashes
    /\ mode \in {"active", "off"}
    /\ rules \subseteq Tools
    /\ hook \in [Requests -> {"new", "waiting", "killed"} \cup Decisions]
    /\ handler \in [Requests -> HandlerStates]
    /\ waited \in [Requests -> {"none", "resolved", "dropped", "timeout", "gone"}]
    /\ verdict \in [Requests -> {"none"} \cup Decisions]
    /\ resp \in [Requests -> {"none", "eof"} \cup Decisions]
    /\ pending_decisions \subseteq Ids
    /\ decision_log \in [Ids -> LogRows \cup {None}]
    /\ ingested \subseteq ToolCalls
    /\ job \in [Writers -> Jobs \cup {None}]
    /\ cmd \in [Clients -> Commands \cup {None}]
    /\ fresh \subseteq WebClients

Init ==
    /\ QueueInit
    /\ phase = "up"
    /\ crashes = 0
    /\ mode = "active"
    /\ rules = {}
    /\ hook = [r \in Requests |-> "new"]
    /\ handler = [r \in Requests |-> "none"]
    /\ waited = [r \in Requests |-> "none"]
    /\ verdict = [r \in Requests |-> "none"]
    /\ resp = [r \in Requests |-> "none"]
    /\ pending_decisions = {}
    /\ decision_log = [id \in Ids |-> None]
    /\ ingested = {}
    /\ job = [w \in Writers |-> None]
    /\ cmd = [c \in Clients |-> None]
    /\ fresh = {}

-----------------------------------------------------------------------------
(* resolve_pending_by: SELECT the pending row, INSERT OR IGNORE it into the *)
(* audit log, DELETE it; three statements, no transaction.                  *)

StartJob(w, id, d, by) ==
    job' = [job EXCEPT ![w] = [stage |-> "select", id |-> id,
                               decision |-> d, by |-> by]]

\* No pending row: nothing is logged, the DELETE still runs.
JobSelect(w) ==
    /\ job[w] # None
    /\ job[w].stage = "select"
    /\ job' = [job EXCEPT ![w].stage =
                  IF job[w].id \in pending_decisions THEN "insert" ELSE "delete"]
    /\ UNCHANGED <<queueVars, procVars, dbVars, envVars, cmd>>

\* The tool calls with a row in the audit log, under whatever id: its unique
\* index on tool_use_id (rows without one are not indexed).
CallsLogged ==
    (ingested \cup {CallOf[id] : id \in {i \in Ids : decision_log[i] # None}}) \ {None}

\* INSERT OR IGNORE under two keys, the id and the tool_use_id: a resolution
\* that meets either is dropped with a warning.
Recorded(id, d, by) ==
    IF decision_log[id] = None /\ CallOf[id] \notin CallsLogged
    THEN [decision_log EXCEPT ![id] = [decision |-> d, by |-> by]]
    ELSE decision_log

JobInsert(w) ==
    /\ job[w] # None
    /\ job[w].stage = "insert"
    /\ decision_log' = Recorded(job[w].id, job[w].decision, job[w].by)
    /\ job' = [job EXCEPT ![w].stage = "delete"]
    /\ UNCHANGED <<queueVars, procVars, pending_decisions, ingested, envVars, cmd>>

JobDelete(w) ==
    /\ job[w] # None
    /\ job[w].stage = "delete"
    /\ pending_decisions' = pending_decisions \ {job[w].id}
    /\ job' = [job EXCEPT ![w] = None]
    /\ UNCHANGED <<queueVars, procVars, decision_log, ingested, envVars, cmd>>

\* A handler that ends without an answer closes the socket: the hook reads EOF.
HangUp(r) ==
    /\ handler' = [handler EXCEPT ![r] = "failed"]
    /\ resp' = [resp EXCEPT ![r] = "eof"]

\* A statement fails.  A handler's `?' ends its task before it answered; a
\* client's eager_persist swallows the error (for Boot see DrainFails).
JobFail(w) ==
    /\ "db" \in Faults
    /\ w # Boot
    /\ job[w] # None
    /\ job' = [job EXCEPT ![w] = None]
    /\ \/ /\ w \in Requests
          /\ HangUp(w)
       \/ /\ w \in Clients
          /\ UNCHANGED <<handler, resp>>
    /\ UNCHANGED <<queueVars, hook, waited, verdict, dbVars, envVars, cmd>>

JobStep(w) == JobSelect(w) \/ JobInsert(w) \/ JobDelete(w)

\* A line about an auto-approved tool call, imported from events.jsonl: at
\* startup, by the tail, or when a client asks.  Its row has an id of its own.
IngestLine(t) ==
    /\ phase # "down"
    /\ t \notin CallsLogged
    /\ ingested' = ingested \cup {t}
    /\ UNCHANGED <<queueVars, procVars, pending_decisions, decision_log, envVars,
                   job, cmd>>

-----------------------------------------------------------------------------
(* The hook process *)

HookAnswers(r, d) == hook' = [hook EXCEPT ![r] = d]

\* Gating is off: approved without asking anyone.
HookModeOff(r) ==
    /\ hook[r] = "new"
    /\ mode = "off"
    /\ HookAnswers(r, "approve")
    /\ UNCHANGED <<queueVars, handler, waited, verdict, resp, dbVars, envVars,
                   job, cmd>>

\* A persisted Always Allow rule answers before the daemon is asked.
HookAutoApprove(r) ==
    /\ hook[r] = "new"
    /\ mode = "active"
    /\ ToolOf[r] \in rules
    /\ HookAnswers(r, "approve")
    /\ UNCHANGED <<queueVars, handler, waited, verdict, resp, dbVars, envVars,
                   job, cmd>>

\* Connect, handshake and DecisionRequest reach a serving daemon.
HookConnect(r) ==
    /\ hook[r] = "new"
    /\ mode = "active"
    /\ ToolOf[r] \notin rules
    /\ Serving
    /\ hook' = [hook EXCEPT ![r] = "waiting"]
    /\ handler' = [handler EXCEPT ![r] = "accepted"]
    /\ UNCHANGED <<queueVars, waited, verdict, resp, dbVars, envVars, job, cmd>>

\* No daemon behind the socket: fail open (ADR-0001).
HookUnreachable(r) ==
    /\ hook[r] = "new"
    /\ mode = "active"
    /\ ToolOf[r] \notin rules
    /\ ~Serving
    /\ HookAnswers(r, "approve")
    /\ UNCHANGED <<queueVars, handler, waited, verdict, resp, dbVars, envVars,
                   job, cmd>>

\* The response is honoured; EOF instead of one is "daemon unreachable" and
\* approves.
HookRead(r) ==
    /\ hook[r] = "waiting"
    /\ resp[r] # "none"
    /\ HookAnswers(r, IF resp[r] = "eof" THEN "approve" ELSE resp[r])
    /\ UNCHANGED <<queueVars, handler, waited, verdict, resp, dbVars, envVars,
                   job, cmd>>

\* The agent, and its hook, are interrupted: the tool does not run.
HookKill(r) ==
    /\ "kill" \in Faults
    /\ hook[r] = "waiting"
    /\ HookAnswers(r, "killed")
    /\ UNCHANGED <<queueVars, handler, waited, verdict, resp, dbVars, envVars,
                   job, cmd>>

-----------------------------------------------------------------------------
(* handle_hook *)

Goto(r, state) == handler' = [handler EXCEPT ![r] = state]

\* write_msg(DecisionResponse), and the connection is done.
Respond(r, d) ==
    /\ Goto(r, "closed")
    /\ resp' = [resp EXCEPT ![r] = d]

\* An untrusted agent id is denied before any registry or database work.
RejectIdentity(r) ==
    /\ handler[r] = "accepted"
    /\ r \in BadRequests
    /\ Respond(r, "deny")
    /\ UNCHANGED <<queueVars, hook, waited, verdict, dbVars, envVars, job, cmd>>

\* The mode is read again at the daemon's boundary.
RejectMode(r) ==
    /\ handler[r] = "accepted"
    /\ r \notin BadRequests
    /\ mode # "active"
    /\ Respond(r, "deny")
    /\ UNCHANGED <<queueVars, hook, waited, verdict, dbVars, envVars, job, cmd>>

Admit(r) ==
    /\ handler[r] = "accepted"
    /\ r \notin BadRequests
    /\ mode = "active"
    /\ Goto(r, "admitted")
    /\ UNCHANGED <<queueVars, hook, waited, verdict, resp, dbVars, envVars, job, cmd>>

\* persist_pending: INSERT OR IGNORE.
PersistPending(r) ==
    /\ handler[r] = "admitted"
    /\ pending_decisions' = pending_decisions \cup {IdOf[r]}
    /\ Goto(r, "persisted")
    /\ UNCHANGED <<queueVars, hook, waited, verdict, resp, decision_log, ingested,
                   envVars, job, cmd>>

\* persist_pending(..)? or delete_pending(..)? returns an error.
HandlerDbError(r) ==
    /\ "db" \in Faults
    /\ handler[r] \in {"admitted", "deleting"}
    /\ HangUp(r)
    /\ UNCHANGED <<queueVars, hook, waited, verdict, dbVars, envVars, job, cmd>>

HandlerEnqueue(r) ==
    /\ handler[r] = "persisted"
    /\ Enqueue(r)
    /\ Goto(r, "waiting")
    /\ UNCHANGED <<hook, waited, verdict, resp, dbVars, envVars, job, cmd>>

\* Variant: the refused duplicate cleans up under its id.
RejectDuplicate_Cleans(r) ==
    /\ handler[r] = "persisted"
    /\ IsDuplicate(IdOf[r])
    /\ FinalizeLocal(IdOf[r])
    /\ Respond(r, "deny")
    /\ UNCHANGED <<hook, waited, verdict, dbVars, envVars, job, cmd>>

\* A duplicate id is denied; the first request's row and entry stay.
RejectDuplicate(r) ==
    /\ handler[r] = "persisted"
    /\ IsDuplicate(IdOf[r])
    /\ Respond(r, "deny")
    /\ UNCHANGED <<queueVars, hook, waited, verdict, dbVars, envVars, job, cmd>>

\* The select!: whichever branch is ready may fire, in any order.
WaitResolved(r) ==
    /\ handler[r] = "waiting"
    /\ rx[r] \in Decisions
    /\ waited' = [waited EXCEPT ![r] = "resolved"]
    /\ verdict' = [verdict EXCEPT ![r] = rx[r]]
    /\ Goto(r, "settled")
    /\ UNCHANGED <<queueVars, hook, resp, dbVars, envVars, job, cmd>>

\* Variant: any completion of the channel counts as a drop.
Fires_AnyCompletion(r, why) ==
    \/ why = "dropped" /\ rx[r] # "open"
    \/ why = "timeout" /\ "timeout" \in Faults
    \/ why = "gone" /\ hook[r] = "killed"

\* Variant: the wait has no timeout.
Fires_NoTimeout(r, why) ==
    \/ why = "dropped" /\ rx[r] = "dropped"
    \/ why = "gone" /\ hook[r] = "killed"

\* The other branches: the sender was dropped, the sleep elapsed, or the read
\* half of the socket completed.
Fires(r, why) ==
    \/ why = "dropped" /\ rx[r] = "dropped"
    \/ why = "timeout" /\ "timeout" \in Faults
    \/ why = "gone" /\ hook[r] = "killed"

WaitOtherwise(r, why) ==
    /\ handler[r] = "waiting"
    /\ Fires(r, why)
    /\ waited' = [waited EXCEPT ![r] = why]
    /\ Goto(r, "settling")
    /\ UNCHANGED <<queueVars, hook, verdict, resp, dbVars, envVars, job, cmd>>

\* Variant: the fallback arms leave the queue entry behind.
Settle_KeepsEntry(r) ==
    /\ handler[r] = "settling"
    /\ verdict' = [verdict EXCEPT ![r] =
                      IF waited[r] = "gone" THEN "deny" ELSE "approve"]
    /\ Goto(r, "settled")
    /\ UNCHANGED <<queueVars, hook, waited, resp, dbVars, envVars, job, cmd>>

\* The three fallback arms forget the queue entry: timeout and a dropped
\* channel approve, a hook that is gone is recorded as denied.
Settle(r) ==
    /\ handler[r] = "settling"
    /\ FinalizeLocal(IdOf[r])
    /\ verdict' = [verdict EXCEPT ![r] =
                      IF waited[r] = "gone" THEN "deny" ELSE "approve"]
    /\ Goto(r, "settled")
    /\ UNCHANGED <<hook, waited, resp, dbVars, envVars, job, cmd>>

Attribution(r) ==
    CASE waited[r] = "timeout" -> "timeout:approve"
      [] waited[r] = "dropped" -> "channel_dropped:approve"
      [] waited[r] = "gone"    -> "hook_disconnected:abandoned"
      [] OTHER                 -> "human"

\* An Ask leaves no audit row, only the pending row is deleted.
RecordOutcome(r) ==
    /\ handler[r] = "settled"
    /\ \/ /\ verdict[r] = "ask"
          /\ Goto(r, "deleting")
          /\ UNCHANGED job
       \/ /\ verdict[r] # "ask"
          /\ Goto(r, "logging")
          /\ StartJob(r, IdOf[r], verdict[r], Attribution(r))
    /\ UNCHANGED <<queueVars, hook, waited, verdict, resp, dbVars, envVars, cmd>>

\* Variant: a deferred request leaves its pending row behind.
DeletePending_Forgotten(r) ==
    /\ handler[r] = "deleting"
    /\ Goto(r, "replying")
    /\ UNCHANGED <<queueVars, hook, waited, verdict, resp, dbVars,
                   envVars, job, cmd>>

DeletePending(r) ==
    /\ handler[r] = "deleting"
    /\ pending_decisions' = pending_decisions \ {IdOf[r]}
    /\ Goto(r, "replying")
    /\ UNCHANGED <<queueVars, hook, waited, verdict, resp, decision_log, ingested,
                   envVars, job, cmd>>

\* The outcome is recorded; a hook that is gone gets no answer.
Recording(r) ==
    /\ handler[r] = "logging"
    /\ job[r] = None
    /\ Goto(r, IF waited[r] = "gone" THEN "closed" ELSE "replying")
    /\ UNCHANGED <<queueVars, hook, waited, verdict, resp, dbVars, envVars, job, cmd>>

Reply(r) ==
    /\ handler[r] = "replying"
    /\ Respond(r, verdict[r])
    /\ UNCHANGED <<queueVars, hook, waited, verdict, dbVars, envVars, job, cmd>>

HandlerStep(r) ==
    \/ RejectIdentity(r) \/ RejectMode(r) \/ Admit(r) \/ PersistPending(r)
    \/ HandlerEnqueue(r) \/ RejectDuplicate(r)
    \/ WaitResolved(r) \/ \E why \in {"dropped", "timeout", "gone"} : WaitOtherwise(r, why)
    \/ Settle(r) \/ RecordOutcome(r) \/ DeletePending(r) \/ Recording(r) \/ Reply(r)

-----------------------------------------------------------------------------
(* Review commands (handle_decision_command): a first lock to look at the   *)
(* queue, a second one to resolve, then the eager audit write of every id.  *)

\* Ids a client has been shown in this or an earlier state of its list: it
\* may act on one long after somebody else settled it.
Shown == {IdOf[r] : r \in {q \in Requests : rx[q] # "none"}}

\* The sudo gate bounces the approval (WebReauthRequired, nothing changes).
Gated(c, r) == c \in WebClients /\ c \notin fresh /\ r \in SudoRequests

Begin(c, op, ids, stage, rule) ==
    cmd' = [cmd EXCEPT ![c] = [op |-> op, stage |-> stage, ids |-> ids,
                               rule |-> rule]]

Idle(c) == Serving /\ cmd[c] = None

\* Approve: peek, sudo gate; Always Allow remembers the peeked tool.  A
\* request that is not pending is not gated: its resolve will miss.
LookApprove(c, id) ==
    /\ Idle(c)
    /\ "approve" \in Ops
    /\ \A r \in Peek(id) : ~Gated(c, r)
    /\ \E rule \in {None} \cup {ToolOf[r] : r \in Peek(id)} :
          Begin(c, "approve", {id}, "resolve", rule)
    /\ UNCHANGED <<queueVars, procVars, dbVars, envVars, job>>

\* Deny and Ask: only the managed-spawn test precedes the resolve.
LookRefuse(c, op, id) ==
    /\ Idle(c)
    /\ op \in Ops \cap {"deny", "ask"}
    /\ Begin(c, op, {id}, "resolve", None)
    /\ UNCHANGED <<queueVars, procVars, dbVars, envVars, job>>

\* ApprovePermission: the suggestion must come from a pending request (a bad
\* index is an error and leaves the request pending).
LookPermission(c, id) ==
    /\ Idle(c)
    /\ "approve_permission" \in Ops
    /\ Peek(id) # {}
    /\ \A r \in Peek(id) : ~Gated(c, r)
    /\ Begin(c, "approve_permission", {id}, "resolve", None)
    /\ UNCHANGED <<queueVars, procVars, dbVars, envVars, job>>

\* A web ApproveAll, or any DenyAll, first collects the matching ids; the sudo
\* gate holds back the sudo-class ones of a web approve.
LookBulk(c, op, F) ==
    /\ Idle(c)
    /\ op \in Ops \cap {"approve_all", "deny_all"}
    /\ op = "approve_all" => c \in WebClients
    /\ LET matching == {r \in Snapshot \cap F : op = "approve_all" => ~Gated(c, r)}
       IN Begin(c, op, {IdOf[r] : r \in matching}, "resolve", None)
    /\ UNCHANGED <<queueVars, procVars, dbVars, envVars, job>>

\* The terminal client's ApproveAll resolves under a single lock.
ApproveAllTui(c, F) ==
    /\ Idle(c)
    /\ "approve_all" \in Ops
    /\ c \notin WebClients
    /\ ResolveAll(F, "approve")
    /\ Begin(c, "approve_all", BulkTargets(F), "persist", None)
    /\ UNCHANGED <<procVars, dbVars, envVars, job>>

DecisionOf(op) == CASE op \in {"deny", "deny_all"} -> "deny"
                    [] op = "ask"                  -> "ask"
                    [] OTHER                       -> "approve"

\* Variant: every approval is written to the log, resolved or not.
ToPersist_Always(op, ids) == IF op = "ask" THEN {} ELSE ids

\* The ids whose resolution is written eagerly: those that were still pending;
\* nothing for an Ask; ApprovePermission does not look at resolve's result.
ToPersist(op, ids) ==
    CASE op = "ask"                -> {}
      [] op = "approve_permission" -> ids
      [] OTHER                     -> {id \in ids : CanResolve(id)}

ResolveCommand(c) ==
    /\ cmd[c] # None
    /\ cmd[c].stage = "resolve"
    /\ LET op   == cmd[c].op
           todo == ToPersist(op, cmd[c].ids)
       IN /\ ResolveIds(cmd[c].ids, DecisionOf(op))
          /\ \/ /\ todo = {}
                /\ cmd' = [cmd EXCEPT ![c] = None]
             \/ /\ todo # {}
                /\ cmd' = [cmd EXCEPT ![c].stage = "persist", ![c].ids = todo]
    /\ UNCHANGED <<procVars, dbVars, envVars, job>>

EagerPersist(c, id) ==
    /\ cmd[c] # None
    /\ cmd[c].stage = "persist"
    /\ id \in cmd[c].ids
    /\ job[c] = None
    /\ StartJob(c, id, DecisionOf(cmd[c].op), "human")
    /\ cmd' = [cmd EXCEPT ![c].ids = @ \ {id}]
    /\ UNCHANGED <<queueVars, procVars, dbVars, envVars>>

\* Everything is written; the Always Allow rule is saved, or cannot be.
FinishCommand(c) ==
    /\ cmd[c] # None
    /\ cmd[c].stage = "persist"
    /\ cmd[c].ids = {}
    /\ job[c] = None
    /\ \/ UNCHANGED rules
       \/ cmd[c].rule # None /\ rules' = rules \cup {cmd[c].rule}
    /\ cmd' = [cmd EXCEPT ![c] = None]
    /\ UNCHANGED <<queueVars, procVars, dbVars, phase, crashes, mode, fresh, job>>

MarkDeviceFresh(c) ==
    /\ Idle(c)
    /\ c \in WebClients \ fresh
    /\ fresh' = fresh \cup {c}
    /\ UNCHANGED <<queueVars, procVars, dbVars, phase, crashes, mode, rules, job, cmd>>

GraceLapses(c) ==
    /\ c \in fresh
    /\ fresh' = fresh \ {c}
    /\ UNCHANGED <<queueVars, procVars, dbVars, phase, crashes, mode, rules, job, cmd>>

ClientStep(c) ==
    \/ \E id \in Shown : \/ LookApprove(c, id)
                         \/ LookPermission(c, id)
                         \/ \E op \in {"deny", "ask"} : LookRefuse(c, op, id)
    \/ \E F \in Filters : \/ ApproveAllTui(c, F)
                          \/ \E op \in {"approve_all", "deny_all"} : LookBulk(c, op, F)
    \/ ResolveCommand(c)
    \/ \E id \in Ids : EagerPersist(c, id)
    \/ FinishCommand(c)
    \/ MarkDeviceFresh(c)
    \/ GraceLapses(c)

-----------------------------------------------------------------------------
(* The daemon process *)

SetMode == /\ "mode" \in Faults
           /\ mode' = IF mode = "active" THEN "off" ELSE "active"
           /\ UNCHANGED <<queueVars, procVars, dbVars, phase, crashes, rules,
                          fresh, job, cmd>>

\* The process dies: everything in memory is gone, every socket closes; what
\* was already written to a socket can still be read.
Crash ==
    /\ phase # "down"
    /\ crashes < MaxCrashes
    /\ crashes' = crashes + 1
    /\ phase' = "down"
    /\ pending_senders' = [id \in Ids |-> None]
    /\ pending_items' = {}
    /\ claimed_items' = [id \in Ids |-> None]
    /\ managed_spawn_ids' = {}
    /\ claims' = {}
    /\ rx' = [r \in Requests |-> IF rx[r] = "open" THEN "dropped" ELSE rx[r]]
    /\ view' = {}
    /\ handler' = [r \in Requests |-> IF Running(r) THEN "lost" ELSE handler[r]]
    /\ resp' = [r \in Requests |->
                   IF Running(r) /\ resp[r] = "none" THEN "eof" ELSE resp[r]]
    /\ job' = [w \in Writers |-> None]
    /\ cmd' = [c \in Clients |-> None]
    /\ fresh' = {}
    /\ UNCHANGED <<hook, waited, verdict, dbVars, mode, rules>>

\* Server::new: open the database, then drain_orphaned_pending ...
Restart == /\ phase = "down"
           /\ phase' = "draining"
           /\ UNCHANGED <<queueVars, procVars, dbVars, crashes, mode, rules,
                          fresh, job, cmd>>

\* ... row by row: the hook behind it failed open, so it is logged approved.
DrainRow(id) ==
    /\ phase = "draining"
    /\ job[Boot] = None
    /\ id \in pending_decisions
    /\ StartJob(Boot, id, "approve", "daemon_restart:failopen")
    /\ UNCHANGED <<queueVars, procVars, dbVars, envVars, cmd>>

\* ... and only then is the socket bound.
Bind == /\ phase = "draining"
        /\ job[Boot] = None
        /\ pending_decisions = {}
        /\ phase' = "up"
        /\ UNCHANGED <<queueVars, procVars, dbVars, crashes, mode, rules,
                       fresh, job, cmd>>

\* A drain that fails is only logged: the daemon serves with the rows it left.
DrainFails == /\ "db" \in Faults
              /\ phase = "draining"
              /\ phase' = "undrained"
              /\ job' = [job EXCEPT ![Boot] = None]
              /\ UNCHANGED <<queueVars, procVars, dbVars, crashes, mode, rules,
                             fresh, cmd>>

DaemonStep == Restart \/ Bind \/ DrainFails \/ \E id \in Ids : DrainRow(id)

HookStep(r) == \/ HookModeOff(r) \/ HookAutoApprove(r) \/ HookConnect(r)
               \/ HookUnreachable(r) \/ HookRead(r)

Next == \/ \E r \in Requests : \/ HookStep(r) \/ HookKill(r)
                               \/ HandlerStep(r) \/ HandlerDbError(r)
        \/ \E c \in Clients : ClientStep(c)
        \/ \E w \in Writers : JobStep(w) \/ JobFail(w)
        \/ \E t \in ToolCalls : IngestLine(t)
        \/ DaemonStep \/ SetMode \/ Crash

Spec == Init /\ [][Next]_vars

\* The runtime keeps running tasks whose futures are ready, timers fire, a
\* hook blocked on its socket wakes up.  Nothing is assumed of reviewers, nor
\* that anyone restarts the daemon.
Fairness == /\ \A r \in Requests : /\ WF_vars(HandlerStep(r))
                                   /\ WF_vars(HookRead(r))
            /\ \A w \in Writers : WF_vars(JobStep(w))

FairSpec == Spec /\ Fairness

-----------------------------------------------------------------------------
(* Properties *)

\* The audit log says what the hook was told: a hook that received a
\* reviewer's approve or deny finds exactly that decision under its id,
\* whichever of eager_persist and handle_hook wrote the row, and whatever
\* stale commands, failed statements and crashes came between.  Its row is
\* missing only where the log already has a row of the same tool call: the
\* audit gap resolve_pending_by warns of (itr#347).
AuditMatchesReply ==
    \A r \in Requests :
        waited[r] = "resolved" /\ resp[r] \in {"approve", "deny"} =>
            \/ /\ decision_log[IdOf[r]] # None
               /\ decision_log[IdOf[r]].decision = resp[r]
            \/ /\ decision_log[IdOf[r]] = None
               /\ CallOf[IdOf[r]] \in CallsLogged

\* A reviewer's Deny that reached the queue in time is overridden only when
\* the wait had already timed out, when the database failed under the handler
\* or when the daemon died: no interleaving of commands, audit writes, mode
\* changes and disconnects turns it into an approval.
DenyStands ==
    \A r \in Requests :
        rx[r] = "deny" /\ hook[r] = "approve" =>
            waited[r] = "timeout" \/ handler[r] \in {"failed", "lost"}

\* Every listed item has a handler that still waits for it or is about to
\* remove it: no reviewer is shown a request nobody waits for (itr#363).
NoZombieItems ==
    \A r \in pending_items : handler[r] \in {"waiting", "settling"}

\* While the daemon serves after a complete drain, a row of pending_decisions
\* belongs to a handler that is still at work on it, or to one whose database
\* write failed.
RowsHaveOwners ==
    phase = "up" =>
        \A id \in pending_decisions : \E r \in Requests :
            /\ IdOf[r] = id
            /\ handler[r] \in {"persisted", "waiting", "settling", "settled",
                              "logging", "deleting", "failed"}

\* A dropped channel approves without a review.  While the daemon lives that
\* happens to a request only if another one with its id timed out or lost its
\* hook: that handler's late finalize_local(id) took the sender of this one.
DropsHaveTwins ==
    \A r \in Requests :
        waited[r] = "dropped" =>
            \E q \in Requests \ {r} : /\ IdOf[q] = IdOf[r]
                                      /\ waited[q] \in {"timeout", "gone"}

\* A blocked hook is always released, even if no reviewer ever looks.
HooksReleased ==
    \A r \in Requests : hook[r] = "waiting" ~> hook[r] # "waiting"
=============================================================================
