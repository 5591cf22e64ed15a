----------------------------- MODULE DesignHook -----------------------------
(***************************************************************************)
(* The impeccable design hook (hook.mjs, hook-lib.mjs, hook-before-edit.mjs).*)
(* Agents of several sessions edit the files of one project.  After an     *)
(* edit (harness "post") a hook process scans what was written and tells   *)
(* the agent what it found; before an edit (harness "pre") it scans what   *)
(* is proposed and may deny it.  What was said before is kept in one cache *)
(* file that every process reads, changes and writes back whole, with no   *)
(* lock and no atomic replacement.                                         *)
(*                                                                         *)
(* Which findings a text has is an input: an edit leaves a file with any   *)
(* set of findings.  A process may be killed by its harness (the manifest  *)
(* gives it a timeout) between any two steps.                              *)
(***************************************************************************)
EXTENDS DesignConfig, Sequences, SequencesExt

CONSTANTS
  Sessions, Harness,   \* sessions, and "post" or "pre" for each
  CoScan,              \* stylesheets scanned along with a file
  Quiet,               \* quiet in the config or the environment
  Plain,               \* files for which no acknowledgement is given (.ts, .js)
  IgnoreChoices,             \* ignores that a user may ask for
  Threshold,           \* EDIT_COUNT_THRESHOLD
  CacheMax,            \* CACHE_MAX_SESSIONS
  Room,                \* numbers of findings a message may have room for: maxFindings,
                       \* or fewer if the lines are long (maxChars)
  MaxEdits, MaxAdmin, MaxFaults   \* bounds: edits of a session, commands, faults

ASSUME HookBounds ==
  /\ Harness \in [Sessions -> {"post", "pre"}] /\ CoScan \in [Files -> Seq(Files)]
  /\ Plain \subseteq Files /\ Quiet \in BOOLEAN /\ IgnoreChoices \subseteq Ignores
  /\ Threshold \in Nat /\ CacheMax \in Nat \ {0}
  /\ MaxEdits \in [Sessions -> Nat] /\ {MaxAdmin, MaxFaults} \cup Room \subseteq Nat

VARIABLES
  content,   \* [Files -> SUBSET Findings]: what a scan of the file finds
  conf,      \* the config files and manifests
  cache,     \* hook.cache.json
  proc,      \* the hook process of a session, pc "none" when there is none
  agent,     \* what the agent of a session insists on, and how often it edited
  raised,    \* fresh findings of a session: listed in a message to its agent,
             \* only counted in one that was full, and unsaid by a killed hook
  commands, faults

vars == <<content, conf, cache, proc, agent, raised, commands, faults>>

\* A cache file is empty between its truncation and the write, and a mix after
\* a shorter write over a longer one; otherwise it has an entry for some
\* sessions, the most recently updated first.
NoEntry == [edits |-> 0, known |-> {}, denied |-> {}]
NoEntries == [f \in Files |-> NoEntry]
EmptyCache == [torn |-> "no", order |-> <<>>, of |-> [s \in Sessions |-> NoEntries]]
Torn  == [EmptyCache EXCEPT !.torn = "empty"]
Mixed == [EmptyCache EXCEPT !.torn = "mixed"]

NoProc ==
  [pc |-> "none", file |-> CHOOSE f \in Files : TRUE, text |-> {}, cfg |-> [enabled |-> TRUE, ignores |-> {}],
   snap |-> EmptyCache, fresh |-> {}, say |-> "none"]

Init ==
  /\ content = [f \in Files |-> {}]
  /\ conf \in {[shared |-> NoFile, local |-> NoFile, man |-> [dest |-> NoManifest, shared |-> NoManifest]]}
              \cup {[shared |-> [NoFile EXCEPT !.ok = TRUE, !.hook.legacy = {i}, !.other = TRUE],
                     local |-> NoFile, man |-> [dest |-> NoManifest, shared |-> Installed]] :
                      i \in IgnoreChoices}
  /\ cache = EmptyCache
  /\ proc = [s \in Sessions |-> NoProc]
  /\ agent = [s \in Sessions |-> [edits |-> 0, want |-> {}, file |-> NoProc.file]]
  /\ raised = [s \in Sessions |-> [listed |-> {}, counted |-> {}, unsaid |-> {}]]
  /\ commands = 0 /\ faults = 0

(***************************************************************************)
(* The cache.                                                              *)
(***************************************************************************)

\* readCache: what does not parse is an empty cache.
ReadCache(c) == IF c.torn = "no" THEN c ELSE EmptyCache

\* ensureSession with updatedAt: the session is the most recent one.
Touch(c, s) == [c EXCEPT !.order = <<s>> \o SelectSeq(@, LAMBDA x : x # s)]

\* bumpEditCount; the count matters up to the first value past the threshold.
Bumped(n) == IF n > Threshold + 1 THEN n ELSE n + 1

\* bumpCursorDenial as it would be with a new entry every time.
BumpDenial_NewEntry(c, s, f, sig) ==
  Touch([c EXCEPT !.of[s][f].denied = {[sig |-> sig, n |-> 1]}], s)

\* bumpCursorDenial: denials are counted by the signature of the findings.
DenialCount(c, s, f, sig) ==
  LET D == {d \in c.of[s][f].denied : d.sig = sig}
  IN IF D = {} THEN 0 ELSE (CHOOSE d \in D : TRUE).n
BumpDenial(c, s, f, sig) ==
  Touch([c EXCEPT !.of[s][f].denied =
           {d \in @ : d.sig # sig} \cup {[sig |-> sig, n |-> Bumped(DenialCount(c, s, f, sig))]}], s)

\* persistCache keeps the most recent sessions.
Collected(c) ==
  LET kept == SubSeq(c.order, 1, IF Len(c.order) < CacheMax THEN Len(c.order) ELSE CacheMax)
  IN [c EXCEPT !.order = kept,
               !.of = [s \in Sessions |-> IF s \in Range(kept) THEN @[s] ELSE NoEntries]]

(***************************************************************************)
(* The scan of a PostToolUse hook.                                         *)
(***************************************************************************)

\* expandScanTargets: the edited file, then the stylesheets it brings along.
Targets(f) == <<f>> \o SelectSeq(CoScan[f], LAMBDA g : g # f)

\* The known findings as they would be if the ignores were applied after them.
NowKnown_Ignored(c, s, f, cfg) == c.of[s][f].known \cup content[f]

\* dedupeAgainstCache and rememberFindings, for what the ignores leave over.
Found(f, cfg) == FilterFindings(cfg, f, content[f])
NowKnown(c, s, f, cfg) == c.of[s][f].known \cup Found(f, cfg)

\* What the loop in runHook makes of one target; an edited file is counted, a
\* stylesheet that came along is not.
Verdict(c, s, f, primary, cfg) ==
  LET n == IF f = primary THEN Bumped(c.of[s][f].edits) ELSE 0
  IN CASE FileIgnored(cfg, f) -> "ignored"
       [] ~FileIgnored(cfg, f) /\ n > Threshold ->
            IF n = Threshold + 1 THEN "crossed" ELSE "suppressed"
       [] ~FileIgnored(cfg, f) /\ n <= Threshold ->
            IF ~(Found(f, cfg) \subseteq c.of[s][f].known) THEN "fresh"
            ELSE IF Found(f, cfg) # {} THEN "pending" ELSE "clean"

\* The detector throws on the targets in thrown: as if nothing had been found.
Verdicts(c, s, primary, cfg, thrown) ==
  [f \in Range(Targets(primary)) |->
     LET v == Verdict(c, s, f, primary, cfg)
     IN IF f \in thrown /\ v \in {"fresh", "pending", "clean"} THEN "threw" ELSE v]

\* What the loop leaves in the cache: every target has an entry of its own.
Scanned(c, s, primary, cfg, verdict) ==
  LET entry(f) == [c.of[s][f] EXCEPT !.edits = IF f = primary THEN Bumped(@) ELSE @,
                                     !.known = IF verdict[f] \in {"crossed", "suppressed", "threw"} THEN @
                                               ELSE NowKnown(c, s, f, cfg)]
      seen == {f \in DOMAIN verdict : verdict[f] # "ignored"}
  IN IF primary \in seen \/ "fresh" \in Range(verdict)
     THEN Touch([c EXCEPT !.of[s] = [f \in Files |-> IF f \in seen THEN entry(f) ELSE @[f]]], s)
     ELSE c

FreshFindings(c, s, cfg, verdict) ==
  {g \in [file : DOMAIN verdict, f : Findings] :
     verdict[g.file] = "fresh" /\ g.f \in Found(g.file, cfg) \ c.of[s][g.file].known}

\* shouldEmitAckForFile is asked of the first file of a kind, and a quiet hook
\* only tells of fresh findings.
\* Fresh findings come first, then a reminder, the notice that hints stop, a
\* clean acknowledgement, or nothing.
Emission(verdict, targets) ==
  LET acked(v) == LET files == SelectSeq(targets, LAMBDA f : verdict[f] = v)
                  IN files # <<>> /\ Head(files) \notin Plain
      mute == Quiet \/ ("threw" \in Range(verdict) /\ Range(verdict) \cap {"pending", "clean"} = {})
  IN CASE "fresh" \in Range(verdict) -> "fresh"
       [] "fresh" \notin Range(verdict) /\ mute -> "nothing"
       [] "fresh" \notin Range(verdict) /\ ~mute ->
            IF acked("pending") THEN "pending"
            ELSE IF "crossed" \in Range(verdict) THEN "notice"
            ELSE IF acked("clean") THEN "clean" ELSE "nothing"

\* renderGroupedTemplate: the findings of a message that are listed in it; of
\* the others it gives the number.
Listings(fresh) ==
  {L \in SUBSET fresh : \E n \in Room :
     Cardinality(L) = IF Cardinality(fresh) < n THEN Cardinality(fresh) ELSE n}

(***************************************************************************)
(* Actions of the agents.                                                  *)
(***************************************************************************)

Start(s, f, text) ==
  proc' = [proc EXCEPT ![s] = [NoProc EXCEPT !.pc = "config", !.file = f, !.text = text]]

\* An edit lands and the harness starts the PostToolUse hook.
Edit(s, f, text) ==
  /\ Harness[s] = "post" /\ proc[s].pc = "none" /\ agent[s].edits < MaxEdits[s]
  /\ content' = [content EXCEPT ![f] = text]
  /\ agent' = [agent EXCEPT ![s].edits = @ + 1]
  /\ Start(s, f, {})
  /\ UNCHANGED <<conf, cache, raised, commands, faults>>

\* An agent sets out to write a text, and proposes it until it is allowed.
Propose(s, f, text) ==
  /\ Harness[s] = "pre" /\ proc[s].pc = "none" /\ agent[s].want = {}
  /\ agent[s].edits < MaxEdits[s] /\ text # {}
  /\ agent' = [agent EXCEPT ![s] = [edits |-> @.edits + 1, want |-> text, file |-> f]]
  /\ Start(s, f, text)
  /\ UNCHANGED <<content, conf, cache, raised, commands, faults>>
Retry(s) ==
  /\ Harness[s] = "pre" /\ proc[s].pc = "none" /\ agent[s].want # {}
  /\ Start(s, agent[s].file, agent[s].want)
  /\ UNCHANGED <<content, conf, cache, agent, raised, commands, faults>>

(***************************************************************************)
(* Steps of a hook process.                                                *)
(***************************************************************************)

Step(s, from, p) ==
  /\ proc[s].pc = from
  /\ proc' = [proc EXCEPT ![s] = p]

\* The write lands: what the PreToolUse hook does not deny.
Allow(s) ==
  /\ content' = [content EXCEPT ![proc[s].file] = proc[s].text]
  /\ agent' = [agent EXCEPT ![s].want = {}]

\* readConfig.  A disabled hook says nothing; a proposed text without findings
\* is allowed at once.
LoadConfig(s) ==
  LET cfg == ReadConfig(conf.shared, conf.local)
      p   == proc[s]
      ends == \/ ~cfg.enabled
              \/ Harness[s] = "pre" /\ (FileIgnored(cfg, p.file)
                                          \/ FilterFindings(cfg, p.file, p.text) = {})
  IN /\ Step(s, "config", IF ends THEN NoProc ELSE [p EXCEPT !.pc = "cache", !.cfg = cfg])
     /\ IF ends /\ Harness[s] = "pre" THEN Allow(s) ELSE UNCHANGED <<content, agent>>
     /\ UNCHANGED <<conf, cache, raised, commands, faults>>

LoadCache(s) ==
  /\ Step(s, "cache", [proc[s] EXCEPT !.pc = "scan", !.snap = ReadCache(cache)])
  /\ UNCHANGED <<content, conf, cache, agent, raised, commands, faults>>

\* The loop over the targets: what will be written back and what will be said.
ScanLoop(s, thrown) ==
  LET p == proc[s] IN
  /\ Harness[s] = "post"
  /\ \E v \in {Verdicts(p.snap, s, p.file, p.cfg, thrown)} :
       Step(s, "scan", [p EXCEPT !.pc = "write", !.cfg = NoProc.cfg,
                                 !.snap = Collected(Scanned(p.snap, s, p.file, p.cfg, v)),
                                 !.fresh = FreshFindings(p.snap, s, p.cfg, v),
                                 !.say = Emission(v, Targets(p.file))])

\* The scan, or the count of denials.
Decide(s) ==
  LET p == proc[s] IN
  /\ p.pc = "scan"
  /\ \/ ScanLoop(s, {})
     \/ /\ Harness[s] = "pre"
        /\ \E sig \in {FilterFindings(p.cfg, p.file, p.text)} :
             \E c \in {BumpDenial(p.snap, s, p.file, sig)} :
               Step(s, "scan", [p EXCEPT !.pc = "write", !.cfg = NoProc.cfg,
                                         !.snap = Collected(c),
                                         !.say = IF DenialCount(c, s, p.file, sig) > Threshold
                                                 THEN "allow" ELSE "deny"])
  /\ UNCHANGED <<content, conf, cache, agent, raised, commands, faults>>

\* The detector is missing, and the cache is written back as it was read; or it
\* throws on some of the targets; a proposed text is allowed either way.
DetectorFails(s) ==
  LET p == proc[s] IN
  /\ faults < MaxFaults /\ faults' = faults + 1
  /\ \/ /\ Harness[s] = "post"
        /\ \/ Step(s, "scan", [p EXCEPT !.pc = "write", !.cfg = NoProc.cfg,
                                         !.snap = Collected(@), !.say = "nothing"])
           \/ \E thrown \in SUBSET Range(Targets(p.file)) : thrown # {} /\ ScanLoop(s, thrown)
        /\ UNCHANGED <<content, agent>>
     \/ Harness[s] = "pre" /\ Step(s, "scan", NoProc) /\ Allow(s)
  /\ UNCHANGED <<conf, cache, raised, commands>>

\* writeFileSync: the file is emptied and then written, from its start, over
\* what another process has written since.  A cache that cannot be opened is
\* left as it was, and nobody is told.
Written(p) == [p EXCEPT !.pc = "say", !.snap = EmptyCache]
OpenCache(s) ==
  \/ /\ Step(s, "write", [proc[s] EXCEPT !.pc = "fill"])
     /\ cache' = Torn
     /\ UNCHANGED <<content, conf, agent, raised, commands, faults>>
  \/ /\ Step(s, "write", Written(proc[s]))
     /\ UNCHANGED <<content, conf, cache, agent, raised, commands, faults>>
FillCache(s) ==
  /\ Step(s, "fill", Written(proc[s]))
  /\ \/ cache' = proc[s].snap
     \/ cache # Torn /\ cache' = Mixed
  /\ UNCHANGED <<content, conf, agent, raised, commands, faults>>

\* The answer reaches the agent.
Say(s) ==
  /\ Step(s, "say", NoProc)
  /\ \E L \in Listings(proc[s].fresh) :
       raised' = [raised EXCEPT ![s].listed  = @ \cup L,
                                ![s].counted = @ \cup (proc[s].fresh \ L)]
  /\ IF proc[s].say = "allow" THEN Allow(s) ELSE UNCHANGED <<content, agent>>
  /\ UNCHANGED <<conf, cache, commands, faults>>

\* The harness kills a hook that is too slow, and lets the write through.
Kill(s) ==
  /\ faults < MaxFaults /\ faults' = faults + 1
  /\ proc[s].pc # "none"
  /\ proc' = [proc EXCEPT ![s] = NoProc]
  /\ raised' = [raised EXCEPT ![s].unsaid = @ \cup proc[s].fresh]
  /\ IF Harness[s] = "pre" THEN Allow(s) ELSE UNCHANGED <<content, agent>>
  /\ UNCHANGED <<conf, cache, commands>>

(***************************************************************************)
(* The user: commands of hook-admin.mjs, and the manifests.                *)
(***************************************************************************)

Command(c, k) ==
  /\ commands < MaxAdmin /\ commands' = commands + 1
  /\ conf' = c /\ cache' = k
  /\ UNCHANGED <<content, proc, agent, raised, faults>>

TurnOn == Command(SetEnabled(conf, TRUE), cache)
TurnOff == Command(SetEnabled(conf, FALSE), cache)
AddShared(i) == Command([conf EXCEPT !.shared = AddIgnore(@, i)], cache)
AddLocal(i) == i.kind = "value" /\ Command([conf EXCEPT !.local = AddIgnore(@, i)], cache)

\* reset deletes the cache as well; a hook that has it open writes to a file
\* that is no longer there.
Reset ==
  /\ commands < MaxAdmin /\ commands' = commands + 1
  /\ conf' = [conf EXCEPT !.shared = ResetFile(@), !.local = ResetFile(@)]
  /\ cache' = EmptyCache
  /\ proc' = [s \in Sessions |-> IF proc[s].pc = "fill" THEN Written(proc[s]) ELSE proc[s]]
  /\ UNCHANGED <<content, agent, raised, faults>>

\* The user copies the hook entry to the shared manifest, or adds a hook.
EditManifest ==
  \E m \in {[conf.man EXCEPT !.shared = [ok |-> TRUE, ours |-> conf.man.dest.ours, others |-> FALSE]],
            [conf.man EXCEPT !.dest = [ok |-> TRUE, ours |-> conf.man.dest.ours, others |-> TRUE]]} :
    m # conf.man /\ Command([conf EXCEPT !.man = m], cache)

HookStep(s) ==
  LoadConfig(s) \/ LoadCache(s) \/ Decide(s) \/ OpenCache(s) \/ FillCache(s) \/ Say(s)

Next ==
  \/ \E s \in Sessions :
       \/ \E f \in Files, text \in SUBSET Findings : Edit(s, f, text) \/ Propose(s, f, text)
       \/ Retry(s) \/ HookStep(s) \/ DetectorFails(s) \/ Kill(s)
  \/ TurnOn \/ TurnOff \/ Reset \/ EditManifest
  \/ \E i \in IgnoreChoices : AddShared(i) \/ AddLocal(i)

\* A hook that is asked to allow an edit runs on unless it is killed, and its
\* agent tries again.
Asking == {s \in Sessions : Harness[s] = "pre"}
Fairness == \A s \in Asking : WF_vars(HookStep(s) \/ Retry(s))

Spec == Init /\ [][Next]_vars /\ Fairness

(***************************************************************************)
(* Properties.                                                             *)
(***************************************************************************)

\* what a session's findings came to
Told(s) == raised[s].listed \cup raised[s].counted \cup raised[s].unsaid

\* What the cache says a session has heard, its agent was told in a message -
\* listed there, or left out of it for lack of room and counted - or is about
\* to be told by the process that recorded it: a finding is never silenced by
\* another session's stale copy of the cache, by a torn file, by a detector
\* that throws or by an ignore that is taken back.  Only a hook that was killed
\* after it wrote the cache has recorded what it never said.
KnownWasRaised ==
  \A s \in Sessions, f \in Files :
    {[file |-> f, f |-> x] : x \in cache.of[s][f].known} \subseteq Told(s) \cup proc[s].fresh

\* An agent that insists on a text is not denied for ever (bumpCursorDenial),
\* whatever its denials were before, unless others change the cache under its
\* session again and again or the session's own writes keep failing.
Disturbs(s) == \/ proc'[s] = proc[s] /\ cache' # cache
               \/ proc[s].pc = "write" /\ proc'[s].pc = "say"
DenialsEnd ==
  \A s \in Asking :
    \/ (agent[s].want # {}) ~> (agent[s].want = {})
    \/ []<><<Disturbs(s)>>_vars

\* Except for reset, no command takes back an ignore under the detector key
\* or the keys of other tools.
IgnoresSurvive ==
  [][ Reset \/ \A k \in {"shared", "local"} :
        /\ conf[k].detector \subseteq conf'[k].detector
        /\ conf[k].other => conf'[k].other ]_vars

=============================================================================
