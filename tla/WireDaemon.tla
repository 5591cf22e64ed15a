----------------------------- MODULE WireDaemon -----------------------------
(***************************************************************************)
(* What serde writes for the messages of the daemon: the types of          *)
(* wisphive_protocol, as predicates on the JSON values of Wire.  A field   *)
(* that is skipped when it is None or empty is then undefined; an Option   *)
(* that is not skipped is written as null.                                 *)
(***************************************************************************)
EXTENDS Wire

(***************************************************************************)
(* Scalars.                                                                *)
(***************************************************************************)

Str(v) == v.js = "string"
Bool(v) == v.js = "boolean"
Uuid(v) == v.js = "string" /\ v.form = "uuid"
Word(v, words) == v.js = "string" /\ v.text \in words
Value(v) == v.js \in {"null", "boolean", "number", "string", "array", "object"} /\ v.finite
Number(v, low, high) == v.js = "number" /\ v.integer /\ v.value \in low..high
U16(v) == Number(v, 0, 65535)
U32(v) == Number(v, 0, 4294967295)
I32(v) == Number(v, -2147483648, 2147483647)

\* 64-bit counters and positions, while they are exact in a double.
U64(v) == Number(v, 0, 9007199254740991)
I64(v) == Number(v, -9007199254740991, 9007199254740991)

\* chrono writes a DateTime<Utc> of the proleptic Gregorian calendar.
LeapYear(y) == y % 4 = 0 /\ ~(y % 100 = 0 /\ y % 400 # 0)
UtcTime(v) ==
  /\ v.js = "string" /\ v.form = "time"
  /\ v.year \in 0..9999 /\ v.month \in 1..12 /\ v.day \in 1..31
  /\ v.month \in {4, 6, 9, 11} => v.day <= 30
  /\ v.month = 2 => v.day <= IF LeapYear(v.year) THEN 29 ELSE 28
  /\ v.hour \in 0..23 /\ v.minute \in 0..59 /\ v.second \in 0..60
  /\ v.offsetHour = 0 /\ v.offsetMinute = 0

Skipped(P(_), v) == v.js = "undefined" \/ P(v)
Nullable(P(_), v) == v.js = "null" \/ P(v)
Vec(P(_), v) == v.js = "array" /\ \A i \in 1..Len(v.elems) : P(v.elems[i])

AgentType(v) == Word(v, {"codex", "claude_code", "red", "local_llm"})
AgentTypeLabel(v) == Str(v)
HookEventType(v) ==
  Word(v, {"PreToolUse", "PostToolUse", "PostToolUseFailure", "PermissionRequest", "Elicitation",
           "ElicitationResult", "InstructionsLoaded", "UserPromptSubmit", "Stop", "SubagentStop",
           "SubagentStart", "StopFailure", "ConfigChange", "TeammateIdle", "TaskCompleted",
           "WorktreeCreate", "WorktreeRemove", "PreCompact", "PostCompact", "SessionStart",
           "SessionEnd", "Notification", "Unknown"})
Decision(v) == Word(v, {"approve", "deny", "ask"})
AuditDecisionKind(v) == Word(v, {"auto_approved", "deferred", "denied"})
TerminalStatus(v) == Word(v, {"running", "exited", "killed", "orphaned"})
TerminalDirection(v) == Word(v, {"input", "output", "resize"})
DiskAlertKind(v) == Word(v, {"archive_size", "low_disk_space"})
ConfigAlertKind(v) == Word(v, {"policy_widened", "untrusted_config"})

(***************************************************************************)
(* Structures.                                                             *)
(***************************************************************************)

PermissionRule(o) == o.js = "object" /\ Str(o.toolName) /\ Str(o.ruleContent)
PermissionSuggestion(o) ==
  /\ o.js = "object" /\ Str(o.type) /\ Skipped(LAMBDA v : Vec(PermissionRule, v), o.rules)
  /\ Str(o.behavior) /\ Str(o.destination) /\ Skipped(Str, o.mode)
DecisionRequest(o) ==
  /\ o.js = "object" /\ Uuid(o.id) /\ Str(o.agent_id) /\ AgentType(o.agent_type) /\ Str(o.project)
  /\ Str(o.tool_name) /\ Value(o.tool_input) /\ UtcTime(o.timestamp) /\ HookEventType(o.hook_event_name)
  /\ Skipped(Str, o.tool_use_id)
  /\ Skipped(LAMBDA v : Vec(PermissionSuggestion, v), o.permission_suggestions)
  /\ Skipped(Value, o.event_data) /\ Skipped(Uuid, o.terminal_session_id)
HistoryEntry(o) ==
  /\ o.js = "object" /\ Uuid(o.id) /\ Str(o.agent_id) /\ AgentTypeLabel(o.agent_type) /\ Str(o.project)
  /\ Str(o.tool_name) /\ Value(o.tool_input) /\ Decision(o.decision)
  /\ UtcTime(o.requested_at) /\ UtcTime(o.resolved_at)
  /\ Skipped(Value, o.tool_result) /\ Skipped(Str, o.tool_use_id) /\ Skipped(Str, o.hook_event_name)
  /\ Skipped(Uuid, o.terminal_session_id) /\ Skipped(Str, o.decided_by) /\ Skipped(Str, o.config_hash)
AuditDecision(o) ==
  /\ o.js = "object" /\ AuditDecisionKind(o.kind) /\ Nullable(Str, o.decided_by) /\ Str(o.project)
  /\ Str(o.agent_id) /\ Skipped(Uuid, o.terminal_session_id) /\ Str(o.tool_name) /\ UtcTime(o.ts)
  /\ Skipped(Str, o.tool_use_id) /\ Skipped(Bool, o.resolved) /\ Skipped(Value, o.tool_input)
AgentInfo(o) ==
  /\ o.js = "object" /\ Str(o.agent_id) /\ AgentType(o.agent_type) /\ Str(o.project)
  /\ UtcTime(o.connected_at) /\ UtcTime(o.last_seen)
ManagedAgent(o) ==
  /\ o.js = "object" /\ Str(o.agent_id) /\ AgentType(o.agent_type) /\ U32(o.pid) /\ Str(o.project)
  /\ Nullable(Str, o.model) /\ Nullable(Str, o.name) /\ UtcTime(o.started_at)
  /\ Skipped(Str, o.reasoning) /\ Skipped(U32, o.max_turns) /\ Skipped(Str, o.permission_mode)
SessionSummary(o) ==
  /\ o.js = "object" /\ Str(o.agent_id) /\ AgentTypeLabel(o.agent_type) /\ Str(o.project)
  /\ UtcTime(o.first_seen) /\ UtcTime(o.last_seen) /\ U32(o.total_calls) /\ U32(o.approved)
  /\ U32(o.denied) /\ Bool(o.is_live) /\ U32(o.pending_count)
ProjectSummary(o) ==
  /\ o.js = "object" /\ Str(o.project) /\ UtcTime(o.first_seen) /\ UtcTime(o.last_seen)
  /\ U32(o.total_calls) /\ U32(o.approved) /\ U32(o.denied) /\ U32(o.agent_count)
  /\ U32(o.pending_count) /\ Bool(o.has_live_agents)
WorktreeChange(o) ==
  /\ o.js = "object" /\ Str(o.path) /\ Str(o.status) /\ Skipped(Str, o.orig_path)
  /\ Skipped(Str, o.attributed_to) /\ Skipped(Str, o.attributed_tool)
WorktreeStatus(o) ==
  /\ o.js = "object" /\ Str(o.project) /\ Bool(o.is_git_repo) /\ Skipped(Str, o.branch) /\ Bool(o.detached)
  /\ Skipped(Str, o.head) /\ Skipped(Str, o.upstream) /\ Skipped(U32, o.ahead) /\ Skipped(U32, o.behind)
  /\ Vec(WorktreeChange, o.changes) /\ Bool(o.changes_truncated) /\ Skipped(Str, o.diffstat)
  /\ UtcTime(o.probed_at) /\ Skipped(Str, o.error)
ArtifactTouch(o) ==
  /\ o.js = "object" /\ Str(o.agent_id) /\ Str(o.project) /\ Str(o.tool_name)
  /\ Skipped(Value, o.tool_input) /\ UtcTime(o.ts)
ProjectHookStatus(o) ==
  /\ o.js = "object" /\ Str(o.project) /\ Str(o.mode) /\ Bool(o.claude_installed) /\ Bool(o.codex_installed)
  /\ Vec(Str, o.missing_events) /\ Bool(o.all_installed) /\ Bool(o.all_enabled)
TerminalSessionMeta(o) ==
  /\ o.js = "object" /\ Uuid(o.id) /\ Skipped(Str, o.label) /\ Str(o.command)
  /\ Skipped(LAMBDA v : Vec(Str, v), o.args) /\ Str(o.cwd) /\ U16(o.cols) /\ U16(o.rows)
  /\ UtcTime(o.started_at) /\ Skipped(UtcTime, o.ended_at) /\ Skipped(I32, o.exit_code)
  /\ TerminalStatus(o.status) /\ Skipped(Str, o.group_name) /\ I64(o.sort_order)
  /\ Skipped(Str, o.created_by) /\ Skipped(LAMBDA v : Vec(Str, v), o.replay_acl) /\ Bool(o.pinned)

(***************************************************************************)
(* ServerMessage, in the order of the enum.                                *)
(***************************************************************************)

ReviewMessage(m) ==
  LET is(type) == m.type.text = type
  IN \/ is("welcome") /\ U32(m.version)
     \/ /\ is("decision_response") /\ Uuid(m.id) /\ Decision(m.decision) /\ Skipped(Str, m.message)
        /\ Skipped(Value, m.updated_input) /\ Skipped(Str, m.additional_context)
        /\ Skipped(PermissionSuggestion, m.selected_permission)
     \/ is("queue_snapshot") /\ Vec(DecisionRequest, m.items)
     \/ is("new_decision") /\ DecisionRequest(m)
     \/ is("decision_resolved") /\ Uuid(m.id) /\ Decision(m.decision)
     \/ is("audit_snapshot") /\ Vec(AuditDecision, m.items)
     \/ is("audit_decision") /\ AuditDecision(m)
     \/ /\ is("deferred_resolved") /\ Str(m.tool_use_id) /\ Str(m.agent_id) /\ Str(m.tool_name)
        /\ UtcTime(m.ts) /\ Skipped(Str, m.answer_summary)
     \/ is("agent_connected") /\ AgentInfo(m)
     \/ is("agent_disconnected") /\ Str(m.agent_id)
     \/ is("agent_spawned") /\ ManagedAgent(m)
     \/ is("agent_exited") /\ Str(m.agent_id) /\ Nullable(I32, m.exit_code)
     \/ is("agent_list") /\ Vec(ManagedAgent, m.agents) /\ Skipped(Str, m.correlation_id)
     \/ is("agent_spawn_queued") /\ DecisionRequest(m.decision) /\ Skipped(Str, m.correlation_id)
     \/ /\ is("agent_stop_response") /\ Str(m.agent_id) /\ Nullable(I32, m.exit_code)
        /\ Skipped(Str, m.correlation_id)
     \/ is("command_error") /\ Str(m.message) /\ Skipped(Str, m.correlation_id)

QueryMessage(m) ==
  LET is(type) == m.type.text = type
  IN \/ is("history_response") /\ Vec(HistoryEntry, m.entries) /\ Skipped(Str, m.request_id)
     \/ is("sessions_response") /\ Vec(SessionSummary, m.sessions)
     \/ is("projects_response") /\ Vec(ProjectSummary, m.projects)
     \/ is("worktrees_response") /\ Vec(WorktreeStatus, m.worktrees)
     \/ is("burn_response") /\ Vec(ArtifactTouch, m.touches)
     \/ is("project_hook_status") /\ ProjectHookStatus(m)
     \/ is("install_hooks_result") /\ Str(m.project) /\ Skipped(ProjectHookStatus, m.status) /\ Skipped(Str, m.error)
     \/ is("agents_snapshot") /\ Vec(AgentInfo, m.agents)
     \/ is("reimport_complete") /\ U64(m.count)
     \/ is("error") /\ Str(m.message)
     \/ is("overloaded") /\ Str(m.message)

ServiceMessage(m) ==
  LET is(type) == m.type.text = type
  IN \/ is("web_login_failure") /\ Str(m.ip) /\ U32(m.attempt_count) /\ UtcTime(m.at)
     \/ is("web_login_success") /\ Str(m.device_id) /\ Str(m.device_name) /\ Str(m.ip) /\ UtcTime(m.at)
     \/ is("web_device_registered") /\ Str(m.device_id) /\ Str(m.device_name) /\ UtcTime(m.at)
     \/ is("web_device_revoked") /\ Str(m.device_id) /\ UtcTime(m.at)
     \/ is("web_reauth_required") /\ Str(m.device_id) /\ Str(m.request_id) /\ Str(m.tool_name) /\ UtcTime(m.at)
     \/ is("mark_device_fresh_ack") /\ Str(m.device_id)
     \/ is("disk_alert") /\ DiskAlertKind(m.kind) /\ Bool(m.active) /\ Str(m.message) /\ UtcTime(m.at)
     \/ is("config_alert") /\ ConfigAlertKind(m.kind) /\ Bool(m.active) /\ Str(m.message) /\ UtcTime(m.at)

TerminalMessage(m) ==
  LET is(type) == m.type.text = type
  IN \/ is("term_created") /\ TerminalSessionMeta(m)
     \/ is("term_list_response") /\ Vec(TerminalSessionMeta, m.sessions)
     \/ /\ is("term_chunk") \/ is("term_replay_chunk")
        /\ Uuid(m.id) /\ U64(m.seq) /\ I64(m.ts_us) /\ TerminalDirection(m.direction) /\ Str(m.data)
     \/ is("term_catchup") /\ Uuid(m.id) /\ U16(m.cols) /\ U16(m.rows) /\ U64(m.next_seq) /\ Str(m.screen)
     \/ is("term_ended") /\ Uuid(m.id) /\ Skipped(I32, m.exit_code) /\ TerminalStatus(m.status)
     \/ is("term_replay_done") /\ Uuid(m.id) /\ U64(m.total_events)
     \/ is("term_error") /\ Skipped(Uuid, m.id) /\ Str(m.message)

ServerMessage(m) ==
  /\ m.js = "object" /\ m.type.js = "string"
  /\ ReviewMessage(m) \/ QueryMessage(m) \/ ServiceMessage(m) \/ TerminalMessage(m)

\* Answers no browser gets: overloaded is written to a socket at the connection
\* cap before its greeting, agent_stop_response answers a command the console
\* does not have.
UnknownToBrowser == {"overloaded", "agent_stop_response"}

=============================================================================
