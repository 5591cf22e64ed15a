---------------------------- MODULE ConsoleViews ----------------------------
(***************************************************************************)
(* What the console's views derive from the streams of the daemon: the     *)
(* lanes of the Board, the waiting rows of the Inbox, the tiles of the     *)
(* Burn meter, the badges of Projects and the message of Worktrees.        *)
(*                                                                         *)
(* Every one is a pure function of the streams and of the clock.  The      *)
(* streams are sequences in the order the reducer keeps them; a time is in *)
(* milliseconds, at most DateMax, the largest time a JavaScript Date has.  *)
(*   session  [agent, project, last, live, pending]                        *)
(*   agent    [agent, project, last]                                       *)
(*   audit    [agent, project, ts, tool, kind, resolved, term]             *)
(*   queue    [id, agent, project, ts, tool, term]                         *)
(*   touch    [agent, ts, tool, path, command]                             *)
(***************************************************************************)
EXTENDS Integers, Sequences, FiniteSets

CONSTANT DateMax

None == "none"
Ms == 0..DateMax

(* The rows of an agent: what draftFor gathers. *)
Of(rows, a) == {i \in DOMAIN rows : rows[i].agent = a}
Latest(S) == CHOOSE t \in S : \A u \in S : u <= t
Oldest(rows, I) ==
  CHOOSE i \in I : \A j \in I : rows[i].ts < rows[j].ts \/ (rows[i].ts = rows[j].ts /\ i <= j)

-----------------------------------------------------------------------------
(* deriveBoard.  b = [sessions, agents, audit, queue, ended, now] *)

STALL_THRESHOLD_MS == 600000
BOARD_WINDOW_MS == 3600000
TERMINAL_EVENT_TOOLS == {"Stop", "SessionEnd"}

Events(b) == b.audit \o b.queue
Known(b) == {b.sessions[i].agent : i \in DOMAIN b.sessions}
              \cup {b.agents[i].agent : i \in DOMAIN b.agents}
              \cup {Events(b)[i].agent : i \in DOMAIN Events(b)}

(* noteActivity: every sighting moves the clock of the lane; a sighting     *)
(* that is not older than all before it also names the lane's task.  The    *)
(* sessions and agents come first and have no task.                         *)
Sightings(b, a) == {b.sessions[i].last : i \in Of(b.sessions, a)}
                     \cup {b.agents[i].last : i \in Of(b.agents, a)}
                     \cup {Events(b)[i].ts : i \in Of(Events(b), a)}
LastActivityMs(b, a) == Latest({0} \cup Sightings(b, a))
Naming(b, a) == {i \in Of(Events(b), a) : Events(b)[i].ts = LastActivityMs(b, a)}
LastToolName(b, a) ==
  IF Naming(b, a) = {} THEN None ELSE Events(b)[Latest(Naming(b, a))].tool

SilentForMs(b, a) == LET age == b.now - LastActivityMs(b, a) IN IF age < 0 THEN 0 ELSE age

Pending(b, a) == Of(b.queue, a)
DeferredRows(b, a) ==
  {i \in Of(b.audit, a) : b.audit[i].kind = "deferred" /\ ~b.audit[i].resolved /\ a \notin b.ended}
Waiting(b, a) == Pending(b, a) # {} \/ DeferredRows(b, a) # {}

LaneState(b, a) ==
  IF Waiting(b, a) THEN "waiting"
  ELSE IF LastToolName(b, a) \in TERMINAL_EVENT_TOOLS THEN "done"
  ELSE IF SilentForMs(b, a) > STALL_THRESHOLD_MS THEN "stalled"
  ELSE "working"

(* deferredKey of queueUtils.ts *)
DeferredKey(d) == <<d.ts, d.agent, d.tool, d.term>>

(* The blocker a waiting lane links to: the oldest, a decision before a     *)
(* deferral of the same age.                                                *)
DecisionFirst(b, a) ==
  /\ Pending(b, a) # {}
  /\ \/ DeferredRows(b, a) = {}
     \/ b.queue[Oldest(b.queue, Pending(b, a))].ts <= b.audit[Oldest(b.audit, DeferredRows(b, a))].ts
InboxTarget(b, a) ==
  IF DecisionFirst(b, a)
  THEN LET item == b.queue[Oldest(b.queue, Pending(b, a))]
       IN  [kind |-> "decision", requestId |-> item.id, since |-> item.ts]
  ELSE LET row == b.audit[Oldest(b.audit, DeferredRows(b, a))]
       IN  [kind |-> "deferred", key |-> DeferredKey(row), since |-> row.ts]

(* The lanes on the board: a waiting one at any age, the others for an hour. *)
Lanes(b) == {a \in Known(b) : /\ LastActivityMs(b, a) # 0
                              /\ LaneState(b, a) = "waiting" \/ SilentForMs(b, a) <= BOARD_WINDOW_MS}

Lane(b, a) ==
  LET spawned == Cardinality({i \in Of(b.audit, a) : b.audit[i].tool = "Task"})
      stopped == Cardinality({i \in Of(b.audit, a) : b.audit[i].tool = "SubagentStop"})
  IN  [state |-> LaneState(b, a), silentForMs |-> SilentForMs(b, a),
       isLive |-> /\ a \notin b.ended
                  /\ Of(b.agents, a) # {} \/ \E i \in Of(b.sessions, a) : b.sessions[i].live,
       waveDone |-> IF stopped < spawned THEN stopped ELSE spawned,
       subagentsActive |-> IF stopped < spawned THEN spawned - stopped ELSE 0]
Totals(b) == [s \in {"working", "waiting", "stalled", "done"} |->
                Cardinality({a \in Lanes(b) : LaneState(b, a) = s})]

-----------------------------------------------------------------------------
(* The "waiting in your terminal" rows of Inbox, whose clock is cut to 15 s *)

HOUR_MS == 3600000
CoarseNow(now) == (now \div 15000) * 15000
InboxDeferred(b) ==
  {i \in DOMAIN b.audit : /\ b.audit[i].kind = "deferred" /\ ~b.audit[i].resolved
                          /\ b.audit[i].agent \notin b.ended
                          /\ CoarseNow(b.now) - b.audit[i].ts <= HOUR_MS}

-----------------------------------------------------------------------------
(* deriveBurn.  b = [audit, touches, now] *)

BURN_WINDOW_MS == 3600000
DEAD_RUN_MIN_TOOL_CALLS == 10
DEAD_RUN_MIN_ACTIVE_MS == 600000
FILE_ARTIFACT_TOOLS == {"Edit", "Write", "MultiEdit", "NotebookEdit"}
GIT_VALUE_OPTIONS == {"-C", "-c", "--git-dir", "--work-tree", "--namespace"}

(* gitCommitSubject: a segment [tokens, options] commits when the first     *)
(* token after git that is neither an option nor an option's value is       *)
(* commit; options is the set of positions whose token begins with a dash.  *)
IsCommit(segment) ==
  LET tokens == segment.tokens
      Subcommand[i \in Nat] ==
        IF i \notin DOMAIN tokens THEN None
        ELSE IF i \notin segment.options THEN tokens[i]
        ELSE Subcommand[i + (IF tokens[i] \in GIT_VALUE_OPTIONS THEN 2 ELSE 1)]
  IN  tokens # <<>> /\ tokens[1] = "git" /\ Subcommand[2] = "commit"

(* classifyArtifact: a file by its path (None when the input has none), a   *)
(* commit by the first committing segment of its command, or no artifact.   *)
IsArtifact(touch) ==
  \/ touch.tool \in FILE_ARTIFACT_TOOLS
  \/ touch.tool = "Bash" /\ \E i \in DOMAIN touch.command : IsCommit(touch.command[i])
Artifact(touch) ==
  IF touch.tool \in FILE_ARTIFACT_TOOLS THEN <<"file", touch.path>>
  ELSE <<"commit", touch.command[CHOOSE i \in DOMAIN touch.command :
                     /\ IsCommit(touch.command[i])
                     /\ \A j \in 1..i - 1 : ~IsCommit(touch.command[j])].subject>>

InWindow(rows, a, now) ==
  {i \in Of(rows, a) : rows[i].ts >= now - BURN_WINDOW_MS /\ rows[i].ts <= now}

(* An auto-approved call that also arrives as a touch has one key. *)
CountedCalls(b, a) ==
  {<<b.audit[i].tool, b.audit[i].ts>> :
     i \in {j \in InWindow(b.audit, a, b.now) : b.audit[j].kind = "auto_approved"}}
    \cup {<<b.touches[i].tool, b.touches[i].ts>> : i \in InWindow(b.touches, a, b.now)}
Span(b, a) ==
  LET times == {b.audit[i].ts : i \in InWindow(b.audit, a, b.now)}
                 \cup {b.touches[i].ts : i \in InWindow(b.touches, a, b.now)}
  IN  Latest(times) - (CHOOSE t \in times : \A u \in times : t <= u)
Artifacts(b, a) ==
  {Artifact(b.touches[i]) : i \in {j \in InWindow(b.touches, a, b.now) : IsArtifact(b.touches[j])}}
DeadRun(b, a) ==
  /\ Cardinality(CountedCalls(b, a)) >= DEAD_RUN_MIN_TOOL_CALLS
  /\ Span(b, a) >= DEAD_RUN_MIN_ACTIVE_MS
  /\ Artifacts(b, a) = {}

-----------------------------------------------------------------------------
(* deriveGateState of Projects: status is None or a record *)

GateState(status) ==
  IF status = None THEN "unknown"
  ELSE IF status.all_installed /\ status.mode = "active" THEN "gated"
  ELSE IF status.claude_installed \/ status.codex_installed \/ status.all_installed THEN "needs-repair"
  ELSE "not-gated"

-----------------------------------------------------------------------------
(* generateCommitMessage.  A change is [test, docs, added, deleted, segment], *)
(* segment the directory it votes for, as [name, length] after                *)
(* sanitizeScope, or None.  Texts are known by their lengths.                 *)

MAX_HEADER_LENGTH == 72

DeriveType(changes) ==
  LET all == DOMAIN changes IN
  IF changes = <<>> THEN "chore"
  ELSE IF \A i \in all : changes[i].test THEN "test"
  ELSE IF \A i \in all : changes[i].docs THEN "docs"
  ELSE IF \E i \in all : changes[i].added /\ ~changes[i].test /\ ~changes[i].docs THEN "feat"
  ELSE IF \A i \in all : changes[i].deleted THEN "chore"
  ELSE "refactor"
TypeLength(type) == CASE type = "chore" -> 5 [] type \in {"test", "docs", "feat"} -> 4 [] OTHER -> 8
VerbLength(type) == IF type = "feat" THEN 3 ELSE 6

(* deriveScope: the length of a scope that more than half of the changes    *)
(* share, or 0.                                                              *)
Majority(changes, segment) ==
  2 * Cardinality({i \in DOMAIN changes : changes[i].segment = segment}) > Len(changes)
ScopeLength(changes) ==
  LET voted == {changes[i].segment : i \in DOMAIN changes} \ {None}
      fits == {s \in voted : Majority(changes, s) /\ s.length > 0 /\ s.length <= 24}
  IN  IF fits = {} THEN 0 ELSE (CHOOSE s \in fits : TRUE).length

(* deriveSummary: the first of the candidates that fits.  joined and first  *)
(* are the lengths of the names, all of them and the first one; digits is   *)
(* the length of a count.                                                   *)
PrefixLength(type, scope) == TypeLength(type) + (IF scope > 0 THEN scope + 2 ELSE 0) + 2
SummaryLength(type, scope, names, joined, first, digits, count) ==
  LET budget == MAX_HEADER_LENGTH - PrefixLength(type, scope)
      every == VerbLength(type) + 1 + joined
      some == VerbLength(type) + 1 + first + 5 + digits[names - 1] + 5
      files == VerbLength(type) + 1 + digits[count] + (IF count = 1 THEN 5 ELSE 6)
  IN  IF every <= budget THEN every
      ELSE IF names > 1 /\ some <= budget THEN some
      ELSE IF files <= budget THEN files
      ELSE VerbLength(type) + 1 + digits[count] + 6
HeaderLength(changes, names, joined, first, digits) ==
  LET type == DeriveType(changes)
      scope == ScopeLength(changes)
  IN  PrefixLength(type, scope)
        + SummaryLength(type, scope, names, joined, first, digits, Len(changes))
=============================================================================
