-------------------------------- MODULE Wire --------------------------------
(***************************************************************************)
(* The messages of the daemon and the browser's reader of them.            *)
(*                                                                         *)
(* Two descriptions of the wire format are kept by hand: the Rust types    *)
(* that serde writes (wisphive_protocol) and the readers of                *)
(* frontend/src/types/protocol.ts, which throw at the first field they do  *)
(* not expect.  A throw loses the whole message, snapshots included.       *)
(*                                                                         *)
(* A JSON value v is known by v.js, the kind typeof and Array.isArray tell *)
(* apart; reading a key that an object lacks gives a value whose js is     *)
(* "undefined".  A string has a text and a form ("uuid", "time" or         *)
(* "plain"), a time its parts, a number its value and whether it is an     *)
(* integer, an array its elements.  finite says that no number in v is     *)
(* beyond the range of a double.                                           *)
(***************************************************************************)
EXTENDS Integers, Sequences

MAX_SAFE_INTEGER == 9007199254740991

(***************************************************************************)
(* The readers of protocol.ts: whether they return instead of throwing.    *)
(***************************************************************************)

ReadObject(v) == v.js = "object"
ReadString(v) == v.js = "string"
ReadBoolean(v) == v.js = "boolean"
ReadJsonValue(v) == v.js \in {"null", "string", "boolean", "number", "array", "object"} /\ v.finite

ReadOneOf(v, words) == ReadString(v) /\ v.text \in words
ReadAgentType(v) == ReadOneOf(v, {"codex", "claude_code", "red", "local_llm"})
ReadAgentTypeLabel(v) == ReadString(v)
ReadHookEventType(v) ==
  ReadOneOf(v, {"PreToolUse", "PostToolUse", "PostToolUseFailure", "PermissionRequest", "Elicitation",
                "ElicitationResult", "InstructionsLoaded", "UserPromptSubmit", "Stop", "SubagentStop",
                "SubagentStart", "StopFailure", "ConfigChange", "TeammateIdle", "TaskCompleted",
                "WorktreeCreate", "WorktreeRemove", "PreCompact", "PostCompact", "SessionStart",
                "SessionEnd", "Notification", "Unknown"})
ReadUuid(v) == ReadString(v) /\ v.form = "uuid"

DaysInMonth(year, month) ==
  CASE month = 2 -> IF year % 4 = 0 /\ (year % 100 # 0 \/ year % 400 = 0) THEN 29 ELSE 28
    [] month \in {4, 6, 9, 11} -> 30
    [] OTHER -> 31
ReadRfc3339(v) ==
  /\ ReadString(v) /\ v.form = "time"
  /\ v.month >= 1 /\ v.month <= 12
  /\ v.day >= 1 /\ v.day <= DaysInMonth(v.year, v.month)
  /\ v.hour <= 23 /\ v.minute <= 59 /\ v.second <= 60
  /\ v.offsetHour <= 23 /\ v.offsetMinute <= 59

ReadBoundedInteger(v, minimum, maximum) ==
  /\ v.js = "number" /\ v.integer
  /\ -MAX_SAFE_INTEGER <= v.value /\ v.value <= MAX_SAFE_INTEGER
  /\ minimum <= v.value /\ v.value <= maximum
ReadU16(v) == ReadBoundedInteger(v, 0, 65535)
ReadU32(v) == ReadBoundedInteger(v, 0, 4294967295)
ReadI32(v) == ReadBoundedInteger(v, -2147483648, 2147483647)
ReadU64Safe(v) == ReadBoundedInteger(v, 0, MAX_SAFE_INTEGER)
ReadI64Safe(v) == ReadBoundedInteger(v, -MAX_SAFE_INTEGER, MAX_SAFE_INTEGER)

ReadDecision(v) == ReadOneOf(v, {"approve", "deny", "ask"})
ReadAuditDecisionKind(v) == ReadOneOf(v, {"auto_approved", "deferred", "denied"})
ReadTerminalStatus(v) == ReadOneOf(v, {"running", "exited", "killed", "orphaned"})
ReadTerminalDirection(v) == ReadOneOf(v, {"input", "output", "resize"})
ReadDiskAlertKind(v) == ReadOneOf(v, {"archive_size", "low_disk_space"})
ReadConfigAlertKind(v) == ReadOneOf(v, {"policy_widened", "untrusted_config"})

ArrayOf(Parse(_), v) == v.js = "array" /\ \A i \in 1..Len(v.elems) : Parse(v.elems[i])
OptionalField(Parse(_), v) == v.js \in {"undefined", "null"} \/ Parse(v)
OptionalJsonField(v) == v.js = "undefined" \/ ReadJsonValue(v)

(***************************************************************************)
(* The parsers of the structures.                                          *)
(***************************************************************************)

ParsePermissionRule(o) == ReadObject(o) /\ ReadString(o.toolName) /\ ReadString(o.ruleContent)
ParsePermissionSuggestion(o) ==
  /\ ReadObject(o) /\ ReadString(o.behavior) /\ ReadString(o.type) /\ ReadString(o.destination)
  /\ OptionalField(ReadString, o.mode)
  /\ OptionalField(LAMBDA v : ArrayOf(ParsePermissionRule, v), o.rules)
ParseDecisionRequest(o) ==
  /\ ReadObject(o) /\ ReadUuid(o.id) /\ ReadString(o.agent_id) /\ ReadAgentType(o.agent_type)
  /\ ReadString(o.project) /\ ReadString(o.tool_name) /\ ReadJsonValue(o.tool_input)
  /\ ReadRfc3339(o.timestamp) /\ ReadHookEventType(o.hook_event_name)
  /\ OptionalField(ReadString, o.tool_use_id)
  /\ OptionalField(LAMBDA v : ArrayOf(ParsePermissionSuggestion, v), o.permission_suggestions)
  /\ OptionalJsonField(o.event_data) /\ OptionalField(ReadUuid, o.terminal_session_id)
ParseHistoryEntry(o) ==
  /\ ReadObject(o) /\ ReadUuid(o.id) /\ ReadString(o.agent_id) /\ ReadAgentTypeLabel(o.agent_type)
  /\ ReadString(o.project) /\ ReadString(o.tool_name) /\ ReadJsonValue(o.tool_input)
  /\ ReadDecision(o.decision) /\ ReadRfc3339(o.requested_at) /\ ReadRfc3339(o.resolved_at)
  /\ OptionalJsonField(o.tool_result) /\ OptionalField(ReadString, o.tool_use_id)
  /\ OptionalField(ReadString, o.hook_event_name) /\ OptionalField(ReadUuid, o.terminal_session_id)
  /\ OptionalField(ReadString, o.decided_by) /\ OptionalField(ReadString, o.config_hash)
ParseAuditDecision(o) ==
  /\ ReadObject(o) /\ ReadAuditDecisionKind(o.kind) /\ OptionalField(ReadString, o.decided_by)
  /\ ReadString(o.project) /\ ReadString(o.agent_id) /\ OptionalField(ReadUuid, o.terminal_session_id)
  /\ ReadString(o.tool_name) /\ ReadRfc3339(o.ts) /\ OptionalField(ReadString, o.tool_use_id)
  /\ OptionalField(ReadBoolean, o.resolved) /\ OptionalJsonField(o.tool_input)
ParseAgentInfo(o) ==
  /\ ReadObject(o) /\ ReadString(o.agent_id) /\ ReadAgentType(o.agent_type) /\ ReadString(o.project)
  /\ ReadRfc3339(o.connected_at) /\ ReadRfc3339(o.last_seen)
ParseManagedAgent(o) ==
  /\ ReadObject(o) /\ ReadString(o.agent_id) /\ ReadAgentType(o.agent_type) /\ ReadU32(o.pid)
  /\ ReadString(o.project) /\ OptionalField(ReadString, o.model) /\ OptionalField(ReadString, o.name)
  /\ ReadRfc3339(o.started_at) /\ OptionalField(ReadString, o.reasoning)
  /\ OptionalField(ReadU32, o.max_turns) /\ OptionalField(ReadString, o.permission_mode)
ParseSessionSummary(o) ==
  /\ ReadObject(o) /\ ReadString(o.agent_id) /\ ReadAgentTypeLabel(o.agent_type) /\ ReadString(o.project)
  /\ ReadRfc3339(o.first_seen) /\ ReadRfc3339(o.last_seen) /\ ReadU32(o.total_calls)
  /\ ReadU32(o.approved) /\ ReadU32(o.denied) /\ ReadBoolean(o.is_live) /\ ReadU32(o.pending_count)
ParseProjectSummary(o) ==
  /\ ReadObject(o) /\ ReadString(o.project) /\ ReadRfc3339(o.first_seen) /\ ReadRfc3339(o.last_seen)
  /\ ReadU32(o.total_calls) /\ ReadU32(o.approved) /\ ReadU32(o.denied) /\ ReadU32(o.agent_count)
  /\ ReadU32(o.pending_count) /\ ReadBoolean(o.has_live_agents)
ParseWorktreeChange(o) ==
  /\ ReadObject(o) /\ ReadString(o.path) /\ ReadString(o.status) /\ OptionalField(ReadString, o.orig_path)
  /\ OptionalField(ReadString, o.attributed_to) /\ OptionalField(ReadString, o.attributed_tool)
ParseWorktreeStatus(o) ==
  /\ ReadObject(o) /\ ReadString(o.project) /\ ReadBoolean(o.is_git_repo)
  /\ OptionalField(ReadString, o.branch) /\ OptionalField(ReadBoolean, o.detached)
  /\ OptionalField(ReadString, o.head) /\ OptionalField(ReadString, o.upstream)
  /\ OptionalField(ReadU32, o.ahead) /\ OptionalField(ReadU32, o.behind)
  /\ OptionalField(LAMBDA v : ArrayOf(ParseWorktreeChange, v), o.changes)
  /\ OptionalField(ReadBoolean, o.changes_truncated) /\ OptionalField(ReadString, o.diffstat)
  /\ ReadRfc3339(o.probed_at) /\ OptionalField(ReadString, o.error)
ParseArtifactTouch(o) ==
  /\ ReadObject(o) /\ ReadString(o.agent_id) /\ ReadString(o.project) /\ ReadString(o.tool_name)
  /\ OptionalField(ReadJsonValue, o.tool_input) /\ ReadRfc3339(o.ts)
ParseProjectHookStatus(o) ==
  /\ ReadObject(o) /\ ReadString(o.project) /\ ReadString(o.mode) /\ ReadBoolean(o.claude_installed)
  /\ ReadBoolean(o.codex_installed) /\ ArrayOf(ReadString, o.missing_events)
  /\ ReadBoolean(o.all_installed) /\ ReadBoolean(o.all_enabled)
ParseTerminalSessionMeta(o) ==
  /\ ReadObject(o) /\ ReadUuid(o.id) /\ OptionalField(ReadString, o.label) /\ ReadString(o.command)
  /\ OptionalField(LAMBDA v : ArrayOf(ReadString, v), o.args) /\ ReadString(o.cwd)
  /\ ReadU16(o.cols) /\ ReadU16(o.rows) /\ ReadRfc3339(o.started_at) /\ OptionalField(ReadRfc3339, o.ended_at)
  /\ OptionalField(ReadI32, o.exit_code) /\ ReadTerminalStatus(o.status)
  /\ OptionalField(ReadString, o.group_name) /\ ReadI64Safe(o.sort_order)
  /\ OptionalField(ReadString, o.created_by)
  /\ OptionalField(LAMBDA v : ArrayOf(ReadString, v), o.replay_acl) /\ OptionalField(ReadBoolean, o.pinned)

(***************************************************************************)
(* parseServerMessage, in two halves.                                      *)
(***************************************************************************)

ParseReviewMessage(m) ==
  LET is(type) == m.type.text = type
  IN \/ is("welcome") /\ ReadU32(m.version)
     \/ /\ is("decision_response") /\ ReadUuid(m.id) /\ ReadDecision(m.decision)
        /\ OptionalField(ReadString, m.message) /\ OptionalJsonField(m.updated_input)
        /\ OptionalField(ReadString, m.additional_context)
        /\ OptionalField(ParsePermissionSuggestion, m.selected_permission)
     \/ is("queue_snapshot") /\ ArrayOf(ParseDecisionRequest, m.items)
     \/ is("new_decision") /\ ParseDecisionRequest(m)
     \/ is("decision_resolved") /\ ReadUuid(m.id) /\ ReadDecision(m.decision)
     \/ is("audit_snapshot") /\ ArrayOf(ParseAuditDecision, m.items)
     \/ is("audit_decision") /\ ParseAuditDecision(m)
     \/ /\ is("deferred_resolved") /\ ReadString(m.tool_use_id) /\ ReadString(m.agent_id)
        /\ ReadString(m.tool_name) /\ ReadRfc3339(m.ts) /\ OptionalField(ReadString, m.answer_summary)
     \/ is("agent_connected") /\ ParseAgentInfo(m)
     \/ is("agent_disconnected") /\ ReadString(m.agent_id)
     \/ is("agent_spawned") /\ ParseManagedAgent(m)
     \/ is("agent_exited") /\ ReadString(m.agent_id) /\ OptionalField(ReadI32, m.exit_code)
     \/ /\ is("agent_spawn_queued") /\ ParseDecisionRequest(m.decision)
        /\ OptionalField(ReadString, m.correlation_id)
     \/ is("command_error") /\ ReadString(m.message) /\ OptionalField(ReadString, m.correlation_id)
     \/ is("agent_list") /\ ArrayOf(ParseManagedAgent, m.agents)
     \/ is("agents_snapshot") /\ ArrayOf(ParseAgentInfo, m.agents)
     \/ is("history_response") /\ ArrayOf(ParseHistoryEntry, m.entries) /\ OptionalField(ReadString, m.request_id)
     \/ is("sessions_response") /\ ArrayOf(ParseSessionSummary, m.sessions)
     \/ is("projects_response") /\ ArrayOf(ParseProjectSummary, m.projects)
     \/ is("worktrees_response") /\ ArrayOf(ParseWorktreeStatus, m.worktrees)
     \/ is("burn_response") /\ ArrayOf(ParseArtifactTouch, m.touches)

ParseServiceMessage(m) ==
  LET is(type) == m.type.text = type
  IN \/ is("project_hook_status") /\ ParseProjectHookStatus(m)
     \/ /\ is("install_hooks_result") /\ ReadString(m.project)
        /\ OptionalField(ParseProjectHookStatus, m.status) /\ OptionalField(ReadString, m.error)
     \/ is("reimport_complete") /\ ReadU64Safe(m.count)
     \/ is("error") /\ ReadString(m.message)
     \/ is("web_login_failure") /\ ReadString(m.ip) /\ ReadU32(m.attempt_count) /\ ReadRfc3339(m.at)
     \/ /\ is("web_login_success") /\ ReadString(m.device_id) /\ ReadString(m.device_name)
        /\ ReadString(m.ip) /\ ReadRfc3339(m.at)
     \/ is("web_device_registered") /\ ReadString(m.device_id) /\ ReadString(m.device_name) /\ ReadRfc3339(m.at)
     \/ is("web_device_revoked") /\ ReadString(m.device_id) /\ ReadRfc3339(m.at)
     \/ is("term_created") /\ ParseTerminalSessionMeta(m)
     \/ is("term_list_response") /\ ArrayOf(ParseTerminalSessionMeta, m.sessions)
     \/ /\ is("term_chunk") \/ is("term_replay_chunk")
        /\ ReadUuid(m.id) /\ ReadU64Safe(m.seq) /\ ReadI64Safe(m.ts_us)
        /\ ReadTerminalDirection(m.direction) /\ ReadString(m.data)
     \/ /\ is("term_catchup") /\ ReadUuid(m.id) /\ ReadU16(m.cols) /\ ReadU16(m.rows)
        /\ ReadU64Safe(m.next_seq) /\ ReadString(m.screen)
     \/ is("term_ended") /\ ReadUuid(m.id) /\ OptionalField(ReadI32, m.exit_code) /\ ReadTerminalStatus(m.status)
     \/ is("term_replay_done") /\ ReadUuid(m.id) /\ ReadU64Safe(m.total_events)
     \/ is("term_error") /\ OptionalField(ReadUuid, m.id) /\ ReadString(m.message)
     \/ /\ is("web_reauth_required") /\ ReadString(m.device_id) /\ ReadString(m.request_id)
        /\ ReadString(m.tool_name) /\ ReadRfc3339(m.at)
     \/ is("mark_device_fresh_ack") /\ ReadString(m.device_id)
     \/ is("disk_alert") /\ ReadDiskAlertKind(m.kind) /\ ReadBoolean(m.active) /\ ReadString(m.message) /\ ReadRfc3339(m.at)
     \/ is("config_alert") /\ ReadConfigAlertKind(m.kind) /\ ReadBoolean(m.active) /\ ReadString(m.message) /\ ReadRfc3339(m.at)

ParseServerMessage(m) ==
  ReadObject(m) /\ ReadString(m.type) /\ (ParseReviewMessage(m) \/ ParseServiceMessage(m))

=============================================================================
