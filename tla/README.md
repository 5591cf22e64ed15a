# Wisphive in TLA+

Wisphive stands between AI coding agents and the tools they want to run. An
agent's hook process asks the daemon before each tool call; the daemon shows the
request to reviewers (a terminal UI and a web console), blocks the hook until one
of them decides, and keeps an audit log of what was decided and by whom. The
daemon also launches agents and terminals itself. The repository further carries
*impeccable*, a set of scripts by which an agent edits a web page together with
its user: a live session in the browser, and hooks that check the design of what
the agent writes.

This project models both. TLC checks the models on small instances; TLAPS proves
the central invariants for every value of the constants.

## 1. Inventory

| Component (source) | State | Operations | Interacts with | Hard because | Correct when |
|---|---|---|---|---|---|
| Decision queue (`wisphive_daemon/src/queue.rs`) | senders by id, list of items, claimed items, managed-spawn ids | enqueue, enqueue_managed_spawn, claim, complete_claim, finalize_local, resolve, resolve_all | every handler, through one mutex; broadcasts to review clients | four structures describe one set of requests; ids come from outside and may collide | every listed item can be answered, once, and clients see what the queue holds |
| Hook gate (`server.rs` handle_hook, handle_decision_command; `state/decisions.rs`; `wisphive_hook/src/main.rs`) | one task per connection; tables pending_decisions, decision_log; mode file; Always Allow rules | DecisionRequest, Approve, Deny, Ask, ApprovePermission, ApproveAll, DenyAll, MarkDeviceFresh, startup drain | queue, SQLite, hook process, reviewers | a select! of four events, two tasks that write one audit row, no transaction, a crash at any statement | log, reply and what the tool did agree; nobody waits for ever; a deny is a deny |
| Managed spawns (`server.rs` 2072-2735; `state/decisions.rs` 362-585) | worker, expiry task, finalizers in progress | SpawnAgent, finalize_spawn_decision, expiry, settle, abandonment, launch | queue (claims), SQLite, process registry | a transaction that timed out may have committed; expiry, reviewers and worker race for one claim | a process runs only with an approval on record; slots come back |
| Event ingestion (`event_ingest.rs`) | file offset and identity, rotated segments | append, tail, rotate, re-import, recover, prune | hook processes, SQLite | a rename under open writers, crash windows | every event line reaches the database |
| Review feed (`server.rs` handle_tui), socket and reducer of the web console (`hooks/useWisphive.ts`) | subscription, bounded ring, wire, the reducer's lists, timers, probe | subscribe, snapshot, forward, lag, reconnect, log out | queue broadcasts, web server | lost and overtaken frames, timers of an old socket | the list a reviewer acts on catches up with the queue |
| Console commands and reauthentication (`useWisphive.ts`, `SudoModal.tsx`, `SpawnModal.tsx`, `sudo_gate.rs`) | stashes, correlation ids, queued updaters | approve, deny, install hooks, spawn, replay, cancel | daemon | a click is bounced, stashed and replayed, or given up | one click is worth one effect; nothing abandoned is sent |
| Console sign-in (`useAuth.ts`, `useAuthProfile.ts`, `usePasskey.ts`, `api.ts`) | token in storage, phase, shared profile | login, setup, passkeys, probe, logout | web server | every answer may be stale | the screen agrees with the token |
| Console views and keyboard (`App.tsx`, `Board.tsx`, `Inbox.tsx`, `Queue.tsx`, `DetailView.tsx`, `useKeyboard.ts`) | selection, dialogs, route | keys, clicks, links | reducer | the queue changes under an open dialog | what is decided is what the user saw |
| Wire format (`wisphive_protocol`, `types/protocol.ts`) | none | serde's writer, the browser's reader | both sides | two hand-kept descriptions; one throw loses a whole message | every message written is read |
| Terminals (`terminal.rs`, `replay_gate.rs`, `Terminals.tsx`) | scrollback, sequence lock, attachments, panes | create, attach, detach, input, close, list, replay | PTYs, console | output between snapshot and subscription, bounded channels | scrollback meets live output exactly; forwarders end |
| Live sessions (`live-server.mjs`, `live-browser-session.js`, `live-wrap.mjs`, `live-accept.mjs`, `session-store.mjs`, ...) | queue with leases, journal, source file, page | go, wrap, variants, accept, discard, recover | page, server, agent, file | independent requests, pushed events, restarts | what the page confirms is in the file; nothing is left behind |
| Copy edits (`live/manual-apply.mjs`, `manual-edit-routes.mjs`, ...) | staging buffer, transaction on disk, dock | stage, commit in chunks, verify, repair, roll back | page, agent, files | half-done batches, timeouts, a restart | the source holds what finished commits wrote |
| Live page chrome (`live-browser.js`), insert mode (`insert-ui.mjs`), detector (`injected/index.mjs`) | one closure of variables; overlays | pick, configure, annotate, edit, tune, steer, insert, resize, detect | user, server | timers, stale answers, hot reload | bar, annotations and text belong to the selected element |
| Live injection (`live-inject.mjs`, `live.mjs`, `sveltekit-adapter.mjs`) | the project's pages, their policies, layouts, .gitignore | insert, remove | user's files | a run may be killed between two files; port and configuration change | one script per page; removal restores the page |
| Svelte variants (`live/svelte-component.mjs`) | session directory, manifest, deferred accepts, component source | prepare, accept, defer, apply, discard, exit | agent, page, user's files | line ranges taken before an edit and used after it; scripts killed half-way | only the named lines are replaced; a variant is inlined once, unless its removal was missed |
| Static styles (`css-cascade.mjs`) | kept declaration per element and property, computed styles | gather, resolve, inherit | detector rules | priority, order, shorthands and variables meet | the strongest declaration wins; children agree with their parent |
| Detect command (`detector/cli/main.mjs`, `node/file-system.mjs`, `shared/inline-ignores.mjs`, `lib/impeccable-config.mjs`, `detect-text.mjs`, `detect-html.mjs`, `detect-url.mjs`) | targets, files to read, findings, browser, exit code | walk, read, scan, visit, waive, report | file system, browser, detector in the page | files change under the scan; any step of a visit fails; four kinds of waivers | a finding is missing only for a reason the user gave; a clean report means that all was scanned |
| Design hook (`hook-lib.mjs`, `hook-before-edit.mjs`, `hook-admin.mjs`) | cache file, two config files | after-edit, before-edit, admin commands | agents, user | a shared file rewritten whole without a lock | nothing is silenced that was not said; no denial loop |
| Accept loop, registry and reaper, tool results, archive, processes | permits, last_seen, result columns, archive files, children | accept, touch, reap, attach, archive, stop | daemon | two locks, fuzzy matches, signals | see section 7 |

`PROJECT.json` lists every component with its status, and under `hazards` the
places in the code that are hard to test, each with the properties that guard
it. The themes: a decision read under one lock and used under another; a timeout
or disconnect chosen while an answer is on its way; two tasks that write one row
or file piece by piece; a crash between any two steps; answers that arrive after
the state they were asked for has gone; ids that collide; bounded resources
counted across hand-overs.

## 2. Modules and how they correspond to the code

The daemon:

* **DecisionLifecycle**: what the queue promises. A request is opened, answered,
  withdrawn or lost, at most once, and answered only while its id is on the board.
* **DecisionQueue** (`queue.rs`): the four structures, the oneshot channels, the
  `ClaimedDecision` values in flight and the list of a client that applies every
  broadcast. One action per method; a method runs under the queue's mutex, so it
  is atomic. Order in the list is display only and left out.
* **HookGate** (extends DecisionQueue): per request the hook process (`hook`), its
  daemon task (`handler`, `waited`, `verdict`) and what can be read from the
  socket (`resp`); the tables; `job`, a call of `resolve_pending_by` in progress, one
  SQL statement per step; `cmd`, a review command between its first lock, its
  second lock and its audit writes; the daemon's `phase`. Every `.await` that lets
  another task in is a step boundary. A fault is enabled by `Faults`; a crash
  drops all memory, closes every socket and leaves the tables. The audit log has
  two keys, a row's id and the tool call it is about (`CallOf`, the unique index on
  `tool_use_id`); an imported event line (`IngestLine`) may have taken the second one,
  and the INSERT of a decision is then ignored. **HookGateInv** holds the inductive
  invariants.
* **SpawnApproval** (extends DecisionQueue): the SpawnAgent command and its worker
  (`worker`, `result`), the expiry task (`expiry`, `late`) and every
  `finalize_spawn_decision` in progress (`fin`). A transaction that errs or times
  out may or may not have committed: both are in the model.
* **EventIngest**: the hooks' append to `events.jsonl` (`hook`, `fd`), the files by
  inode (`content`, `live`, `segs`, `failed`, `old`), the startup and `run_ingest`
  (`phase`), a `reimport_all` in progress (`imp`, `manual`), the tail (`reader`,
  `offset`, `file_id`) and its queued notification (`wake`). A line is written in two
  chunks, so that a reader may see half of it and a write may stop half way.
  `missed` and `stalled` only observe.
* **Terminals**: sessions with their history, an attach with its sequence lock,
  the forwarders and their bounded channels (a receiver that lags skips to the
  oldest frame kept), one console connection, and the view, whose pane is unmounted
  and mounted again as the user moves about. `SeamExact` speaks of prefixes: what a
  pane has of an attachment is the session's output from its start up to some frame.
* **Wire, WireDaemon**: the readers of `protocol.ts` as operators on JSON values,
  and serde's output for every `ServerMessage` as predicates on them.

The web console:

* **WebReducer**: the reducer's state and one operator per daemon frame.
* **WebFeed** (extends WebReducer): sockets, subscription, ring, wire, timers, probe, tokens.
* **WebCommands** (extends WebReducer): what the operator sends and what becomes of
  it. Refs change when a handler runs, state when React runs the queued updaters
  (`todo`), which may be later and, for an updater with side effects, twice.
* **WebAuth**: every request in three steps (sent, served, answered); `phase` is what
  was set, `shown` what was rendered. `stored` is what the browser keeps and requests
  are sent with, `tok` what `useAuth` holds: a write to the store may fail silently, and
  other tabs change it without this one noticing (`drifted` records either).
* **ConsoleViews**: what Board, Burn, Inbox and the commit helper derive, as pure
  operators. **Console** (extends it): selection, dialogs, links and keys.

Impeccable:

* **SourceWrap**: what the scripts do to a source file, a sequence of lines of tokens.
* **LiveSession** (extends it): page, server, journal, agent and file of a session.
  `lost` records which of the messages that are said only once did not arrive, or were
  forgotten by a reload.
* **CopyEdits**: staging buffer, commit, repair, rollback, and the page's dock.
  Activity goes to every tab; a tab passes over that of another page. The end of a
  commit writes twice, the buffer and then the transaction file, and the server may
  die between the two (`CutShort`). `excuse` records what the code does not make good:
  such a death when only a part of the entries was cleared, an agent that edits after
  its event timed out (until a stale reply rolls it back), and requests that collide
  (`Collides`).
* **PageChrome**: the page's closure of variables as one record, its functions as
  operators on it. **DetectScan**: the detector. **LivePage** (extends both): the
  user's steps, timers and answers.
* **InsertUi** (`live/insert-ui.mjs`) and **InsertMode** (the page's copies and the
  placeholder's life; INSTANCEs InsertUi to compare).
* **LiveInject**: pages, policies, runs of the injector, the SvelteKit adapter.
* **SvelteSource** (`live/svelte-component.mjs`): a variant session of a Svelte
  component: its directory, the props contract, the variants the agent writes, an
  accept that inlines one into the source or waits until the page has gone, and
  scripts that die between two writes.
* **CssCascade** (`detector/engines/static-html/css-cascade.mjs`): the styles of a page
  without a browser. Rules are gathered declaration by declaration (shorthands are
  expanded, the priority decides), then each element's style is computed after its
  parent's. Sheets and which selector matches what are inputs; the two nested loops
  over elements and declarations are exchanged, which no step can tell.
* **DetectRun** (`detector/cli/main.mjs` and what it calls): one run of `impeccable
  detect` beside processes that edit the project. `pc` is the place in `detectCli`,
  `scan` the file in an engine, `visit` the URL in a browser; `observed`, `due`,
  `scanned` and `lost` are history. A path is a sequence of names. The findings of a
  text, the directives on its lines, what globs match and what a page shows are
  inputs; a file that standard input names is looked up and read in one step.
* **DesignConfig** (config files and admin commands), **DesignHook** (extends it):
  hook processes of several sessions over one cache file, whose truncation and write
  are two steps, so that a reader may find it empty and two writers may leave a mix.
  `raised` keeps apart which findings a session was told: listed in a message, only
  counted in one that was full (`Room`), or left unsaid by a hook that was killed.

**MC**modules instantiate a specification for TLC; **Proofs** modules hold theorems.
Definitions named `X_Something` directly before `X` are variants of `X` with a
plausible mistake; `PROJECT.json` lists, for every property of every run, the
variant that TLC must reject.

Abstractions. A request's content is reduced to its id, its tool and whether it
is sudo-class or badly identified. Messages, edited inputs and wording are left
out. Two event lines with one deduplication key are one line. A hook writes right
after it opened `events.jsonl`, so it has finished with a segment by the time
another daemon starts (`WritersGone`). `decided_by` keeps the kind of actor. Time
is left out: a timer may fire whenever it runs. A text in a page is a number or
one of a few values; which design findings a text has is an input.

## 3. Runs

| Run | Instance | Shows |
|---|---|---|
| `gate_one` | 1 request, a terminal and a web reviewer, every command but ApprovePermission, every fault, 1 crash | the log says what the hook was told, or has a row of the same tool call already; a deny stands; pending rows have owners; every hook is released (liveness) |
| `gate_pair` | 2 requests with one id, a third badly identified, 1 reviewer, timeouts | the inductive invariant of the proofs; no listed item is unattended; a living handler loses its channel only to a twin; the queue under its callers implements DecisionLifecycle |
| `spawns` | 2 spawns, 1 slot, 1 reviewer, every fault, 1 crash | the queue stays consistent; a running agent has its approval on record; an approval without a launch is marked; slots come back |
| `ingest` | 2 lines, 2 files (one rotation), every fault but an unreadable directory entry, 2 crashes | no line is lost; none falls between import and tail; lines are stored (liveness) |
| `web_feed` | 1 of each kind of row, 1 socket slot, ring of 2, wire of 1, 2 tokens, 2 events, 1 fault | the list catches up; a logged-out page is down; everything settles and polling repairs what a lag lost (liveness) |
| `web_commands` | 2 sudo-class decisions (symmetric), 1 project, 2 clicks, 1 drop, queues of 2 | one click is sent at most twice; abandoned commands stay abandoned; the spawn dialog waits for something |
| `web_auth` | 2 tokens, 1 fault, 1 request of the shell, another tab | at rest the screen agrees with the token useAuth holds, and that with the stored one unless the write failed or another tab changed it; the profile is never unlearned |
| `terminals` | 2 sessions (one over), channels of 1, 2 frames of output, 3 clicks, 1 drop | scrollback and live output meet exactly; no forwarder leaks |
| `live` | 1 session on three kinds of file (HTML, JSX, insertion), 2 variants, 2 clicks, 1 fault or checkpoint, 2 requests in flight | what is confirmed is applied; what is finished is clean; a discard restores; sessions settle unless something said once was lost (liveness) |
| `copy` | 1 tab, 2 places in 2 files, chunks of 1, 1 repair, 3 clicks, 1 fault, 1 activity in arrears | finished commits stand and recovery restores unless an excuse is recorded; a busy dock waits for something |
| `page` | 4 clicks, 1 steer request | a bar in use is not hidden; annotations and unsaved text belong to their element; the detector paints nothing late |
| `hook` | 2 sessions (after-edit and before-edit), 2 files, 1 finding in each, room for 1 or 2, 1 command, 1 fault | what is remembered was listed or counted in a message, or left unsaid by a killed hook; denials end unless the cache is disturbed for ever (liveness); commands keep ignores |

Bounds and why they are enough. The daemon treats requests independently except
through ids, capacity and bulk commands: one request carries the interleavings of
one call, two carry collision and capacity. A second reviewer makes the first one
stale. One crash reaches every crash window; for ingestion the second lets a failed
segment's recovery fail once more, and two lines with one rotation give every
position of a line with respect to a rename. A channel of capacity 1 is full, and
overrun, after two frames, as a longer one is later. In the console two tokens are
an old and a new one, one dropped connection separates two others, and two clicks
one that is bounced from one that follows. In `live` the three files are the three
ways the wrapper is written; one session suffices because the page has one at a
time; one fault or delivered checkpoint and two clicks keep it small (random
simulation with three of each, some eight million states, found no violation). In
`copy` chunks of 1 and two files make a batch that is half applied, one fault is a
timeout, a late edit or a death of the server, and three clicks leave one to collide
with a commit (simulation with 6 clicks and 2 faults, and with two tabs of one page or
of two, found no violation). In `hook` two files with one finding each fill a message
that has room for one. In
`page` four clicks lead from one configured element to another and back; the
detector shares only the exit and apply with the rest, so its behaviours are
explored with the rest at rest (constraint `Apart`). `Max...` constants and the
number of files are the only counter bounds. Symmetry is used in `web_commands`
only, whose action property does not tell the two decisions apart.

ApprovePermission is excluded from `gate_one`, because its audit row breaks
AuditMatchesReply (section 4); it is part of `gate_pair`. Deadlock checking is off:
when everything is answered and nobody clicks, these systems rest.

Fairness. Weak fairness of what the code schedules by itself, never of people,
faults or restarts:

* `HookGate`: each handler's steps, each SQL statement in progress, a hook that can
  read its socket: Tokio polls a ready task, timers fire, the kernel wakes a reader.
* `EventIngest`: imports, a startup that has begun, the tail's loop.
* `WebFeed`: each connection's steps, publishing what was decided, the reconnect timer
  and the probe; strong fairness between forwarding and the answer to a poll,
  because `select!` picks among ready branches at random.
* `WebAuth`: the browser's own steps and the server's answers. `Terminals`: the timer
  that gives up a deep link.
* `LiveSession`: as long as page or server has a step, one of them is taken, and an
  agent that began an edit does not stop half-way.
* `DesignHook`: the hook process of an agent that asks runs on unless it is killed, and
  the agent tries again; the hooks of other agents owe nothing.

## 4. Observations

What the models show of the code beyond the properties; each was seen as a
counterexample to a stronger property or while the model was written.

Gate and spawns. The timeout branch of the wait is chosen before the queue entry is
removed, so a Deny in between is accepted and logged while the tool runs
(`server.rs` 1035; DenyStands excepts it). ApprovePermission does not look at the
result of `resolve`, and its audit row may contradict the recorded outcome (1956). A
decision about a tool call of which the log already has an imported row gets no row of
its own, though its reply is sent and its pending row deleted: the "audit-log gap" the
code warns of (`state/decisions.rs` 336). A
database error after the decision leaves the handler by `?` and the hook, reading
EOF, approves (1068). The acknowledgement of a spawn is written with `?` between
the enqueue and the start of its worker: if it fails, the spawn stays queued with
neither worker nor expiry (2615). An expiry task that dies before its claim leaves
its spawn undecided; a finalizer that dies while the database fails keeps the slot;
a failed reconciliation leaves an approval without a launch.

Ingestion. The recovery scan skips an entry it cannot read, the pruning after it
does not (`event_ingest.rs` 397). A line seen half written, whose INSERT failed, or
appended to a segment after its re-import gets its row only at the next rotation,
restart or ReimportEvents; half a line left by a full disk spoils the one behind it.

Console. A 401 for a wrong reauthentication password clears a valid token; a stale
401 clears a newer one; a 403 at enrolment clears the token. When the browser refuses
to store a token (`api.ts` 38) the application is shown all the same; its requests go
out without a token, and a 401 to one of them clears nothing. A tab does not notice
that another one signed in or out: it goes on with the token it read. Logging in again from
a second form dials twice. The password prompt may name a gate that is no longer in
the batch: one bounced again while its replay was queued, and asked for again since;
cancelling then drops the batch and not the request on show. After a dropped socket a live pane is not attached
again; a double Replay interleaves two streams; a failed batch insert loses frames.
`overloaded` and `agent_stop_response` are unknown to the browser's parser (they are
never sent to it); one unreadable row would lose a whole snapshot. The Board links
to deferrals older than the hour that Inbox lists (LinkLands states it). Escape in
a dialog goes back one more layer; Inbox renders every second with a new `onClose`,
so Modal's effect takes the focus out of the denial's text field. DetailView hides
Deny for Stop events, row buttons and `n` do not. A `last_seen` newer than the Stop
event shows a finished lane as working.

Live sessions. An accept posted before the agent's `done` is forgotten by a restart;
a lost `complete` event leaves the page SAVING, and so does an accept that is
delivered again after its reply was lost. A second accept of another variant is
dropped as a duplicate, so a page reloaded while it saved may confirm the earlier
variant; and it is restored as GENERATING for a session that is over when the
`connected` message lists none. The source fallback looks for an original that an
insertion has not (`live-browser.js` 5550): without hot reload the page stays
GENERATING. A torn journal line swallows the entry behind it. Late
answers do not re-check the session: a failed accept cleans up a newer one.
Discarding a buffer-aware wrap writes staged copy edits into the source. A child of
the same tag that closes itself over several lines defeats the search for the
closing line.

Copy edits. A late reply after *Keep fixing* undoes a committed edit; with two places
in one file a late reply to the second chunk restores what the first rolled back.
A dock that asks for a decision while the page saves or reloads stays busy. Discard
during a chunked commit is dispatched again by the repair. After the commit's first event the
discard also restores that event's snapshot, of a half-applied source, behind the
rollback (`manual-edit-routes.mjs` 298, `manual-apply.mjs` 258). With two pages the
second commit overwrites the first's transaction. A repair that takes up edits saved
since, in files the transaction's snapshot lacks, cannot be rolled back whole. When a
commit clears some of its entries and the server dies before `clearTransaction`, the
next start rolls back what it has committed. A Save in
flight merges into an entry that is cleared. A lost `commit_done` freezes the dock
until its 15 minutes are over. A `commit_done` that the tab has not handled when its
user applies again frees the dock while that commit runs; the route
(`manual-edit-routes.mjs` 94) has no guard, so another click starts a second commit of
the page, whose transaction replaces the first's: rolling it back restores a
half-applied source. After a crash the edits of an agent whose reply was
lost stay.

Page. The error event leaves overlay, session and scroll lock behind. It does not
disconnect the observer either (`live-browser.js` 6002): a variant that arrives
late (6169), or a late answer to Save that opens CONFIGURING while a session
runs (3642), moves the selection under annotations drawn before, which the next Go then
sends with the new element, though "comment positions are element-local"
(`live.md` 130). AnnotationsFit therefore speaks of a page without a session. An
element without text rows keeps the base text of the edit before, so
UnsavedTextUndone speaks of elements with rows. The picker's
hide timer is not guarded and hides a picker opened again. Toggling insert or pick
while editing leaves EDITING without a selection; toggling pick while a session
runs hides its bar. A late answer to Save re-enters CONFIGURING, and text typed
after Save is not staged. A late failure of a steer request unlocks a newer one.
Speech goes to a detached input when an arrow key rebuilds the row. Emptying an
earlier pin shifts the others. A placeholder taken away by hot reload while it is
configured measures 0, and Create sends that.

Svelte variants. Two expressions with the same tail, or chained renames, are restored
to the wrong expression. A toggle with the value true never matches
`[data-p-x="on"]`, so its rules are dropped on accept; rules inside `@media` keep
their preview selectors. A line range is stale after another accept, or an edit,
above it. An exit under an accept that waits removes its session, and the accept
then answers "Session markers not found". Every line of accepted markup gets one
indentation; markup before `<script>` or after `<style>` is dropped; the comment of a
stub nobody edited is appended as CSS.

Static styles. `border: none` and `border: 0` do not reset an earlier border. A custom
property with an upper-case letter is stored in lower case and never resolves;
`border: var(--w) ...` takes the variable for the colour. Custom properties, and a
letter-spacing in em, resolve in the order in which their names were first seen.
Media and supports conditions always apply, layers do not rank, and linked sheets
come after all style elements. `::before` counts as a class, and an id inside
`:not()` counts. A transition on a property that ends in "s" is not recorded, and
`ease-in-out` may be taken for a property name.

Detect command. Duplicates within two lines are dropped before waivers apply, so
`disable-line` on one line silences the same finding up to two lines below. A second
directive on a line belongs to the rule list of the first. "Static-HTML findings carry
no line number" (`detect-html.mjs:228`) is not true of design-system findings, which
take the line of their twin in the source: line directives apply to them. Refusing the
prompt exits with 0 whatever was found, and leaves the shared browser open. A URL that
fails and a target that cannot be accessed do not change the exit code; without
puppeteer two URLs end the run before any file is scanned, one URL does not. Two URLs
are scanned after `load` and 100 ms, one after the network is idle. A browser that
gives no page is never closed; one that will not close takes the findings of its URL
along. A file that vanishes between the walk and its turn ends the run. When the file
that a hook's input names cannot be read, the JSON itself is scanned as text.

Injection and hooks. A `+` in the base64 of a policy defeats the unescaped regular
expression of the revert (constant `Plussed`): the marker stays and later inserts
skip the policy. A file dropped from the configuration keeps its tag. The adapter's
layout stays after removal; a new `src/routes/+layout.svelte` makes removal act on
another file than insertion did. `hooks on` and `off` strip legacy ignores without
moving them. Findings beyond `maxFindings` or `maxChars` are only counted in the message
(`hook-lib.mjs` 761-826) but remembered like the others (1498), so they are never
listed. Denials are not counted, and do not end, while the cache cannot be written or
others keep overwriting it. A hook killed after it saved is remembered as having
spoken; a reset under a running hook is undone. Two writes that overlap may leave a
mix of both, which is read as an empty cache.

## 5. Proofs

All proofs hold for every value of the constants: any number of requests, ids,
reviewers, lines, files, tokens, tabs, pages or elements, every set of faults and any
number of crashes. Where a theorem needs more (`UniqueIds`, `~Relogin`, no
`ApprovePermission`, ...) its ASSUME says so, and below it is said why. Assumptions on constants are named where the constants are
declared and evaluated by TLC on every run.

* **The queue** (DecisionQueueProofs). `QueueInv`, the conjunction of the queue's
  named invariants, is inductive: one lemma per method. `ClaimsFiledById` (a claim is
  filed under the id of the item it took) is the strengthening: without it
  `complete_claim` could free an id that is not its own. `QueueRefinesLifecycle`: each
  method is a step of DecisionLifecycle or a stutter. Ids may collide.
* **The gate** (HookGateProofs). `GateInv` adds that a listed item has a handler which
  waits or is about to remove it, and that handler stage, way out of the wait,
  channel, verdict and reply go together. Neither `NoZombieItems` nor `DenyStands` is
  inductive alone: the first needs to know which stages still have an open channel,
  the second that an approving reply came from the verdict and the verdict from
  the channel. `DropsNeedTwins`: a channel is dropped under a waiting handler only if
  another request with the same id timed out or lost its hook, because
  `finalize_local` takes whatever sender is filed under the id. With distinct ids no
  living handler is failed open that way.
* **The audit log** (`AuditTruthful`). Two assumptions: `UniqueIds` (a hook draws a
  fresh UUID for every call) and no `ApprovePermission` (section 4). Reviewer and
  handler both write the row, statement by statement; whichever INSERT comes first
  decides what it holds. So `AuditInv` says that every write in progress or still to
  be started carries the decision that was delivered, that nobody writes about an
  undecided request, that a pending row disappears only after the decision is on record,
  and that it is on record before the reply. On record means that the log holds the
  decision under its id or already another row of its tool call, which then dropped it;
  that the log never takes back a tool call keeps the second alternative true.
* **Pending rows** (`RowsAreOwned`, with `UniqueIds`). `RowInv` names the stages at which a
  handler answers for its row (`Owners`); a handler at the end of its write has
  deleted it. Rows that a failed drain left are excepted: the daemon serves with them.
* **Spawns** (SpawnProofs). The audit row, the claim, the channel, the finalizer and the
  worker are changed by different tasks; `SpawnInv` says how far they may be apart.
  `ClaimsHeld`: a claim has one finalizer, under the request's own id.
  `ExpiryCoherent`: an expiry task that is being aborted has no call under way, and
  there is none before the worker. `LogFollows`: a listed or undecided request has no
  approval in the log, one about to be released has, and an approval that a
  timed-out transaction left behind is still to be reconciled. From it follow
  `LaunchesAudited`, `ApprovalsLaunched` and `SlotsAlwaysReturned`. The expiry and the
  reviewer need not be ordered: whoever takes the claim owns the row until he
  completes it, and the other's peek fails.
* **Ingestion** (FeedProofs). `IngestInv`: while segments are recovered and
  pruned nobody writes to them, an import stands behind a line and has stored what
  it passed (`RecoverInv`), so a segment that has been imported may go; the import of
  the backlog ends behind the position at which the tail starts (`BacklogInv`); what
  the tail has passed is stored or `missed` (`TailInv`). `LinesKept` assumes that no
  directory entry is unreadable (`"scan" \notin Faults`), without which it is false
  (section 4); `NoGapBehindTail` assumes nothing.
* **The console's feed** (FeedProofs), both theorems without `Relogin`: a login that
  finishes while a token is stored dials a second socket beside the first (section 4).
  `LoggedOutIsDown` follows from `DialInv`: at most one socket is not closed, it is
  the current one, and a reconnect timer runs only when there is none.
  `QueueCatchesUp` follows from `FeedInv`: between the subscription and the snapshot
  what the ring holds, replayed, leaves the daemon's queue as it is; after it, the
  frames in the ring, replayed behind those on the wire, lead from the list on show to
  the daemon's. A frame that the snapshot already contains is applied twice, and
  `Replay` of the rest undoes nothing: this is where the order "subscribe, then
  snapshot" is needed. That a replay of a sequence exists and splits at any place is
  shown by induction on its length (the least place at which it could fail).
* **Terminals** (ConsoleProofs). `LeakInv`, for `NoLeakedForwarder`: a session that the
  view does not stream may be attached, or about to be, only if a detach is on its way
  behind every attach.
  `SeamInv`, for `SeamExact`: of one attachment every place the output passes - receiver,
  channel, wire, screen - holds later frames than the next one (`ExactAll`); together
  they hold what was published, without a gap, unless the attachment is marked
  `lossy`; a catch-up stands before everything of its attachment (`Framing`,
  `Painting`); and an attachment in the making, which holds the sequence lock, has
  nothing yet on channel, wire or screen (`Attaching`).
* **Sign-in** (ConsoleProofs). `SessionShown` says that outside the recorded races the
  token `useAuth` holds and the phase agree in every state, not only at rest; it needs
  that a request which grants a token carries one when it succeeds (`ReqInv`).
  `TokenStored`: that token is the stored one, unless the browser refused the write or
  another tab changed the store since. `ProfileIsKept` needs that no
  probe is in flight once the profile is known (`ProbeInv`).
* **Commands** (WebCommandsProofs). `SentInv`: a stash is worth one send, because only a
  click makes it and the replay that uses it clears it; hence `OneReplay`. `GoneInv`:
  an abandoned gate has no stash, or a dismissal is queued before every retry
  (`Doomed`); updaters run in order, hence `AbandonedNotSent`. `SpawnInv`: a spawn on
  show, or about to be shown by the updater at place i, has its request or answer on
  the way, or the answer queued behind i; hence `SpawnsAwaited`. The connection's
  number is needed: a request sent on an earlier one is never answered.
* **Console** (ConsoleProofs). `ConsoleSound`: a dialog stands beside the request it was
  opened for; every action ends in one commit, so the argument is made once for it.
  `DecisionsMeant`: what is sent is about the request in front of the user. About the
  views, for every content of the streams: `PendingIsShown`, `ClockOnlyLoudens`,
  `LinkLands`, `DeadRunIsFruitless`, `HeaderFits`. `BrowserReadsDaemon`: whatever serde
  writes the browser's parser reads.
* **Insert mode** (LiveModeProofs). The page's copies of the tested helpers agree with
  them on every layout, the line is drawn in the gap, and through hover, drag, hot
  reload and Create the placeholder's box stays usable (`InsertSound`).
* **The live page** (DesignHookProofs), for every order of user steps, timers, late
  answers and messages. `DetectSettles` needs `ToggleInv`: of the commands queued for the
  detector the last decides, and once its results are read the badge agrees with what
  is drawn. `ConfigureBarStays`, `AnnotationsFit` and `UnsavedTextUndone` rest on one
  invariant of the closure, `Good`: `BarUp`; an edit that is not a draft shows its base
  text (`DraftOK`); without a session, marks were drawn on the selected element, and
  an insert selects the placeholder and does not pick (`Fits`). The functions of
  `live-browser.js` call each other, so each operator has a lemma saying which fields
  it leaves alone (`Alike`) and in which mode it may leave the page (`Left`).
* **Copy edits** (LiveModeProofs). `BusyHasCause`, for any tabs and pages, chunk size,
  repair attempts and activity in arrears. The server owes an end (done, failed, a
  decision) to the page of every commit that awaits an event and of every begin it
  has pushed (`Owing` while it serves, `Answerable` on the wire); a step of a commit
  either dispatches another event or pays (`GoesPays`), also when a discard cancels many
  at once, for which its two folds are unrolled by induction over the number of
  commits. In a tab, what is stored for a reload belongs to a dock that is busy or has
  asked for a decision (`Held`), so no counter update makes an idle dock busy.
* **Design hook** (DesignHookProofs). `HookInv`: what the cache file, or the copy any
  process holds, says a session heard (`Backed`), that session was told or is about to
  be told by its own process (`Heard`). The copies belong in the invariant: there is no
  lock, so any of them may become the file. What a session was told is what messages
  listed and what they only counted; what a killed hook left unsaid is kept apart and
  is all that is excepted. `IgnoresAreKept` needs that an unreadable file has nothing to lose.
* **Injection** (LiveModeProofs). `InjectSound`: one script per page, the user's policy
  kept, removals that restore, wherever a run is killed. It assumes that a policy's
  sources are known to the model (`SourcesKnown`); policies in `Plussed` are excepted.

* **Svelte variants** (LiveModeProofs). `LinesStayNamed` assumes that a variant's text is
  a list of lines (`LinesGiven`); `InliningOnce` assumes nothing. `RangesHold`: as long as
  nothing changed the route at or above a session's lines, the manifest's range still
  holds the text it was made from. `InlinedIsSpared`: a session whose variant is in the
  source is still there only because its removal failed, was cut off, or is the next step.
  `Splice` keeps what is in front of the range; the end of a style block is the least
  line that closes it, hence a well-founded minimum.
* **Static styles** (DesignHookProofs). `CascadeWinners`: the declaration kept for an
  element and a property is at least as strong as every one seen so far, though each
  was compared only with the one kept at the time; for this, priority is shown to
  be a linear order (`OneMore`). `InheritanceHolds`: a child inherits what its parent
  ended up with, because the parent is computed before and never again. `CssGiven`
  says what the parser hands over: every element once and after its parent, and
  lists where the model folds (that a fold returns a list is induction over data).
* **Detect command** (DesignHookProofs). `NothingIsSilenced` rests on what holds while a
  text is scanned, that every match passed over has its like among those kept
  (`DedupeInv`), and on the same of all findings before the configuration is applied
  (`FoundInv`): the waivers were read with the text, which may have changed since.
  `CleanIsScanned`: what is due is scanned or among the files at hand (`DueInv`).
  `BrowsersAreClosed` follows from where pages and browsers may be open (`OpenInv`),
  `ContrastChargedOnce` from whose charges are known at each stage of a visit
  (`LowInv`). `DetectGiven`: texts are not "no file", and matches come in lists.

The modules Console, Wire, InsertMode, LiveInject, SvelteSource, CssCascade and DetectRun
have theorems and no run: their state is the content of streams, layouts, sheets and
pages, which a small instance hardly samples. The invariants of LiveInject, SvelteSource,
CssCascade and DetectRun were explored with TLC on an instance before they were proved.

Model-checked only:

* liveness, which the prover does not do: `HooksReleased`, `LinesStored`, `Settles`,
  `PollRepairs`, `SessionsSettle`, `DenialsEnd`;
* what recursive operators and folds compute for every input (SourceWrap's
  search, the chunks of a commit): induction over data;
* `CommittedStands` and `RecoveryRestores` of CopyEdits, which are checked with one place
  per file (with two, a late reply restores what an earlier chunk rolled back,
  section 4) and speak of states without an excuse;
* `ConfirmedIsApplied`, `FinishedIsClean` and `DiscardRestores` of LiveSession: they speak
  of what the scripts did to a concrete file, by SourceWrap's recursive search.

## 6. Plan

Every safety property a run checks is proved, but for the five named at the end of
section 5. Theorems next: restricted forms of these (a commit whose files have one
place each; a session over an abstract file on which wrap, accept and
discard have the laws that SourceWrap is checked for). Then, as modules: archive and
prune against a tool result that is attached in between; registry and reaper; accept
loop and handshake; the managed process registry.

## 7. Not modelled, and why

Worktrees, notifications, installation and project audit are sequential I/O of one
command. Agent adapters, the command line and the terminal UI keep no shared
state: a reviewer is any sequence of commands. Schema, migrations and summaries are
SQL without a protocol. The rules of the detector are pure heuristics over one
document's text and styles, and `detect-antipatterns-browser.js` is their generated
bundle; which findings a text or an element has is an input of DetectScan, DetectRun
and DesignHook.
Presentation (Config, History, tool contents, the design panel, screenshots) is
left out. Latencies are abstracted to "may fire"; SQLite is trusted to make a
statement (and, for spawns, a transaction) atomic and durable. The components named
at the end of the plan are not modelled yet; `PROJECT.json` says so for each.
