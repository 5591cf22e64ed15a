-------------------------- MODULE DesignHookProofs ---------------------------
(***************************************************************************)
(* Proofs about the design hook and the detector behind it.                *)
(*                                                                         *)
(* KnownIsRaised: no copy of the cache, whether the shared file or the one *)
(* a process holds, says that a session heard more than it was told, in a  *)
(* list or a count, is about to be told, or a killed hook left unsaid.     *)
(* The property speaks of the shared file; the copies have to be in the    *)
(* invariant, because any of them may be written over it.                  *)
(*                                                                         *)
(* IgnoresAreKept: no command but reset takes back an ignore; a file that  *)
(* does not parse has none to lose.                                        *)
(*                                                                         *)
(* CascadeWinners, InheritanceHolds: what the detector takes for the style *)
(* of an element is what the cascade says.                                 *)
(*                                                                         *)
(* DetectCoherent: the books of a run of the detector, from which follow   *)
(* NothingIsSilenced, CleanIsScanned, BrowsersAreClosed and                *)
(* ContrastChargedOnce.                                                    *)
(*                                                                         *)
(* DetectSettles: the Detect toggle of the live page and the detector      *)
(* script it loads agree once their messages are read.                     *)
(*                                                                         *)
(* Good: the chrome of the live page, from which follow ConfigureBarStays, *)
(* AnnotationsFit and UnsavedTextUndone.                                   *)
(***************************************************************************)
EXTENDS DesignHook, CssCascade, DetectRun, LivePage, TLAPS, FiniteSetTheorems

(* What a cache, or a copy of it, says each session has heard. *)
CacheOK(c) ==
  /\ DOMAIN c = {"torn", "order", "of"}
  /\ DOMAIN c.of = Sessions
  /\ \A s \in Sessions : DOMAIN c.of[s] = Files
  /\ \A s \in Sessions, f \in Files :
       DOMAIN c.of[s][f] = {"edits", "known", "denied"} /\ c.of[s][f].edits \in Nat

\* Told, or about to be.
Heard(s) == Told(s) \cup proc[s].fresh
Backed(c, s, told) == \A f \in Files : \A x \in c.of[s][f].known : [file |-> f, f |-> x] \in told

\* A process records findings only after it has them ready to say.
ProcOK(p) ==
  /\ DOMAIN p = {"pc", "file", "text", "cfg", "snap", "fresh", "say"}
  /\ CacheOK(p.snap) /\ p.text \subseteq Findings
  /\ p.pc \in {"none", "config", "cache", "scan"} => p.fresh = {}

WorldOK ==
  /\ DOMAIN content = Files /\ \A f \in Files : content[f] \subseteq Findings
  /\ DOMAIN agent = Sessions
  /\ \A s \in Sessions : DOMAIN agent[s] = {"edits", "want", "file"} /\ agent[s].want \subseteq Findings
RaisedOK ==
  DOMAIN raised = Sessions /\ \A s \in Sessions : DOMAIN raised[s] = {"listed", "counted", "unsaid"}

\* Nobody's copy of the cache knows more than the session heard.
HookInv ==
  /\ WorldOK /\ CacheOK(cache)
  /\ RaisedOK /\ DOMAIN proc = Sessions
  /\ \A s \in Sessions : ProcOK(proc[s])
  /\ \A s \in Sessions :
       /\ Backed(cache, s, Heard(s))
       /\ \A t \in Sessions : Backed(proc[t].snap, s, Heard(s))

LEMMA EmptyCacheOK ==
  \A c \in {EmptyCache, Torn, Mixed} :
    CacheOK(c) /\ \A s \in Sessions : \A told : Backed(c, s, told)
<1>1. \A c \in {EmptyCache, Torn, Mixed} :
        DOMAIN c = {"torn", "order", "of"} /\ c.of = [s \in Sessions |-> NoEntries]
  BY DEF EmptyCache, Torn, Mixed
<1>2. DOMAIN NoEntries = Files /\ \A f \in Files : NoEntries[f] = NoEntry
  BY DEF NoEntries
<1>3. DOMAIN NoEntry = {"edits", "known", "denied"} /\ NoEntry.known = {} /\ NoEntry.edits \in Nat
  BY DEF NoEntry
<1> QED BY <1>1, <1>2, <1>3 DEF Backed, CacheOK

LEMMA NoProcIs ==
  /\ DOMAIN NoProc = {"pc", "file", "text", "cfg", "snap", "fresh", "say"}
  /\ NoProc.pc = "none" /\ NoProc.fresh = {} /\ NoProc.snap = EmptyCache /\ NoProc.text = {}
BY DEF NoProc

\* Touching and collecting add nothing.
LEMMA TouchKeeps ==
  ASSUME NEW c, CacheOK(c), NEW s
  PROVE  CacheOK(Touch(c, s)) /\ Touch(c, s).of = c.of
<1>1. Touch(c, s) = [c EXCEPT !.order = <<s>> \o SelectSeq(c.order, LAMBDA x : x # s)]
  BY DEF Touch, CacheOK
<1>2. \A o : CacheOK([c EXCEPT !.order = o]) /\ [c EXCEPT !.order = o].of = c.of
  BY DEF CacheOK
<1> QED BY <1>1, <1>2

LEMMA CollectedKeeps ==
  ASSUME NEW c, CacheOK(c)
  PROVE  /\ CacheOK(Collected(c))
         /\ \A s \in Sessions, f \in Files : Collected(c).of[s][f].known \subseteq c.of[s][f].known
<1> DEFINE kept == SubSeq(c.order, 1, IF Len(c.order) < CacheMax THEN Len(c.order) ELSE CacheMax)
           K == Range(kept)
<1>1. Collected(c) =
        [c EXCEPT !.order = kept,
                  !.of = [s \in Sessions |-> IF s \in K THEN c.of[s] ELSE NoEntries]]
  BY DEF Collected
<1> HIDE DEF kept, K
<1> DEFINE e == Collected(c)
<1>2. DOMAIN e = {"torn", "order", "of"}
      /\ e.of = [s \in Sessions |-> IF s \in K THEN c.of[s] ELSE NoEntries]
  BY <1>1 DEF CacheOK
<1>3. \A s \in Sessions : e.of[s] = c.of[s] \/ e.of[s] = NoEntries
  BY <1>2
<1>4. DOMAIN NoEntries = Files /\ \A f \in Files : NoEntries[f] = NoEntry
  BY DEF NoEntries
<1>5. DOMAIN NoEntry = {"edits", "known", "denied"} /\ NoEntry.known = {} /\ NoEntry.edits \in Nat
  BY DEF NoEntry
<1> HIDE DEF e
<1>6. CacheOK(e)
  BY <1>2, <1>3, <1>4, <1>5 DEF CacheOK
<1>7. \A s \in Sessions, f \in Files : e.of[s][f].known \subseteq c.of[s][f].known
  BY <1>3, <1>4, <1>5
<1> QED BY <1>6, <1>7 DEF e

LEMMA VerdictIs ==
  ASSUME NEW c, CacheOK(c), NEW s \in Sessions, NEW f \in Files, NEW p, NEW cfg
  PROVE  /\ Verdict(c, s, f, p, cfg)
              \in {"ignored", "crossed", "suppressed", "fresh", "pending", "clean"}
         /\ Verdict(c, s, f, p, cfg) \in {"pending", "clean"} =>
              Found(f, cfg) \subseteq c.of[s][f].known
<1> DEFINE n == IF f = p THEN Bumped(c.of[s][f].edits) ELSE 0
<1>1. n \in Nat /\ Threshold \in Nat
  BY HookBounds DEF Bumped, CacheOK
<1>2. Verdict(c, s, f, p, cfg) =
        CASE FileIgnored(cfg, f) -> "ignored"
          [] ~FileIgnored(cfg, f) /\ n > Threshold ->
               IF n = Threshold + 1 THEN "crossed" ELSE "suppressed"
          [] ~FileIgnored(cfg, f) /\ n <= Threshold ->
               IF ~(Found(f, cfg) \subseteq c.of[s][f].known) THEN "fresh"
               ELSE IF Found(f, cfg) # {} THEN "pending" ELSE "clean"
  BY DEF Verdict
<1> HIDE DEF n
<1>3. n > Threshold \/ n <= Threshold
  BY <1>1
<1>4. CASE FileIgnored(cfg, f)
  <2>1. Verdict(c, s, f, p, cfg) = "ignored"
    BY <1>2, <1>4
  <2> QED BY <2>1
<1>5. CASE ~FileIgnored(cfg, f) /\ n > Threshold
  <2>1. Verdict(c, s, f, p, cfg) = IF n = Threshold + 1 THEN "crossed" ELSE "suppressed"
    BY <1>1, <1>2, <1>5
  <2> QED BY <2>1
<1>6. CASE ~FileIgnored(cfg, f) /\ n <= Threshold
  <2>1. Verdict(c, s, f, p, cfg) =
          IF ~(Found(f, cfg) \subseteq c.of[s][f].known) THEN "fresh"
          ELSE IF Found(f, cfg) # {} THEN "pending" ELSE "clean"
    BY <1>1, <1>2, <1>6
  <2> QED BY <2>1
<1> QED BY <1>3, <1>4, <1>5, <1>6

\* The loop over the targets records for session s what it already knew or has
\* found fresh, and for others nothing.
LEMMA ScannedKeeps ==
  ASSUME NEW c, CacheOK(c), NEW s \in Sessions, NEW p, NEW cfg, NEW v, NEW thrown,
         v = Verdicts(c, s, p, cfg, thrown)
  PROVE  /\ CacheOK(Scanned(c, s, p, cfg, v))
         /\ \A t \in Sessions, f \in Files : \A x \in Scanned(c, s, p, cfg, v).of[t][f].known :
              \/ x \in c.of[t][f].known
              \/ /\ t = s /\ f \in DOMAIN v /\ v[f] \in {"fresh", "pending", "clean"}
                 /\ x \in Found(f, cfg)
<1> DEFINE entry(f) == [c.of[s][f] EXCEPT !.edits = IF f = p THEN Bumped(@) ELSE @,
                                          !.known = IF v[f] \in {"crossed", "suppressed", "threw"} THEN @
                                                    ELSE NowKnown(c, s, f, cfg)]
           seen == {f \in DOMAIN v : v[f] # "ignored"}
           row == [f \in Files |-> IF f \in seen THEN entry(f) ELSE c.of[s][f]]
           d == [c EXCEPT !.of[s] = row]
<1>1. Scanned(c, s, p, cfg, v) = c \/ Scanned(c, s, p, cfg, v) = Touch(d, s)
  BY DEF Scanned, CacheOK
<1>2. \A f \in Files \cap DOMAIN v :
        v[f] \in {"ignored", "crossed", "suppressed", "fresh", "pending", "clean", "threw"}
  BY VerdictIs DEF Verdicts
<1>3. ASSUME NEW f \in Files
      PROVE  /\ DOMAIN entry(f) = {"edits", "known", "denied"} /\ entry(f).edits \in Nat
             /\ entry(f).known = IF v[f] \in {"crossed", "suppressed", "threw"} THEN c.of[s][f].known
                                 ELSE c.of[s][f].known \cup Found(f, cfg)
  BY HookBounds DEF CacheOK, NowKnown, Bumped
<1> HIDE DEF entry
<1>4. ASSUME NEW f \in Files
      PROVE  /\ DOMAIN row[f] = {"edits", "known", "denied"} /\ row[f].edits \in Nat
             /\ \A x \in row[f].known :
                  \/ x \in c.of[s][f].known
                  \/ f \in DOMAIN v /\ v[f] \in {"fresh", "pending", "clean"} /\ x \in Found(f, cfg)
  <2>1. CASE f \in seen
    <3>1. row[f] = entry(f)
      BY <2>1
    <3>2. f \in DOMAIN v /\ v[f] \in {"crossed", "suppressed", "fresh", "pending", "clean", "threw"}
      BY <1>2, <2>1
    <3> QED BY <1>3, <3>1, <3>2
  <2>2. CASE f \notin seen
    <3>1. row[f] = c.of[s][f]
      BY <2>2
    <3> QED BY <3>1 DEF CacheOK
  <2> QED BY <2>1, <2>2
<1>5. DOMAIN row = Files
  OBVIOUS
<1> HIDE DEF row
<1>6. CacheOK(d)
  BY <1>4, <1>5 DEF CacheOK
<1>7. d.of[s] = row /\ \A t \in Sessions : t # s => d.of[t] = c.of[t]
  BY DEF CacheOK
<1> HIDE DEF d
<1>8. CacheOK(Touch(d, s)) /\ Touch(d, s).of = d.of
  BY <1>6, TouchKeeps
<1>9. ASSUME NEW t \in Sessions, NEW f \in Files, NEW x \in d.of[t][f].known
      PROVE  \/ x \in c.of[t][f].known
             \/ t = s /\ f \in DOMAIN v /\ v[f] \in {"fresh", "pending", "clean"} /\ x \in Found(f, cfg)
  BY <1>4, <1>7, <1>9
<1> QED BY <1>1, <1>8, <1>9

LEMMA FreshSaid ==
  ASSUME NEW c, CacheOK(c), NEW s \in Sessions, NEW p, NEW cfg, NEW v, NEW thrown,
         v = Verdicts(c, s, p, cfg, thrown),
         NEW f \in Files \cap DOMAIN v, v[f] \in {"fresh", "pending", "clean"}, NEW x \in Findings,
         x \in Found(f, cfg), x \notin c.of[s][f].known
  PROVE  [file |-> f, f |-> x] \in FreshFindings(c, s, cfg, v)
<1>1. v[f] = IF f \in thrown /\ Verdict(c, s, f, p, cfg) \in {"fresh", "pending", "clean"}
             THEN "threw" ELSE Verdict(c, s, f, p, cfg)
  BY DEF Verdicts
<1>2. v[f] = "fresh"
  BY <1>1, VerdictIs
<1> QED BY <1>2 DEF FreshFindings

\* A step of one process, or of its agent.
LEMMA ProcStep ==
  ASSUME HookInv, NEW s \in Sessions, NEW p, ProcOK(p), proc' = [proc EXCEPT ![s] = p],
         WorldOK', CacheOK(cache'),
         RaisedOK', \A t \in Sessions : Told(t) \subseteq Told(t)',
         proc[s].fresh \subseteq Told(s)' \cup p.fresh,
         \A t \in Sessions :
            \/ Backed(cache', t, Heard(t))
            \/ t = s /\ Backed(cache', t, Told(t) \cup p.fresh),
         \A t \in Sessions :
            \/ Backed(p.snap, t, Heard(t))
            \/ t = s /\ Backed(p.snap, t, Told(t) \cup p.fresh)
  PROVE  HookInv'
<1>1. DOMAIN proc' = Sessions /\ proc'[s] = p /\ \A t \in Sessions : t # s => proc'[t] = proc[t]
  BY DEF HookInv
<1>2. \A t \in Sessions : ProcOK(proc'[t])
  BY <1>1 DEF HookInv
<1>3. ASSUME NEW t \in Sessions
      PROVE  Heard(t) \subseteq Heard(t)' /\ (t = s => Told(t) \cup p.fresh \subseteq Heard(t)')
  BY <1>1, <1>3 DEF Heard
<1>4. ASSUME NEW t \in Sessions, NEW c,
             \/ Backed(c, t, Heard(t))
             \/ t = s /\ Backed(c, t, Told(t) \cup p.fresh)
      PROVE  \A f \in Files : \A x \in c.of[t][f].known : [file |-> f, f |-> x] \in Heard(t)'
  BY <1>3, <1>4 DEF Backed
<1>5. ASSUME NEW t \in Sessions
      PROVE  Backed(cache, t, Heard(t))'
  BY <1>4 DEF Backed
<1>6. ASSUME NEW t \in Sessions, NEW u \in Sessions
      PROVE  Backed(proc[u].snap, t, Heard(t))'
  <2>1. CASE u = s
    BY <1>1, <1>4, <2>1 DEF Backed
  <2>2. CASE u # s
    <3>1. Backed(proc[u].snap, t, Heard(t))
      BY DEF HookInv
    <3> QED BY <1>1, <1>4, <2>2, <3>1 DEF Backed
  <2> QED BY <2>1, <2>2
<1> QED BY <1>1, <1>2, <1>5, <1>6 DEF HookInv

LEMMA FoundTyped ==
  ASSUME WorldOK, NEW cfg, NEW f \in Files
  PROVE  Found(f, cfg) \subseteq Findings
BY DEF Found, FilterFindings, WorldOK

\* What the scan of the process of s leaves in its copy, and what it will say.
Recorded(s, v) == Collected(Scanned(proc[s].snap, s, proc[s].file, proc[s].cfg, v))
ToSay(s, v) == FreshFindings(proc[s].snap, s, proc[s].cfg, v)

\* What the scan of a process records is fresh, or its session heard it before.
LEMMA DecideBacked ==
  ASSUME HookInv, NEW s \in Sessions, proc[s].pc = "scan",
         NEW v, NEW thrown, v = Verdicts(proc[s].snap, s, proc[s].file, proc[s].cfg, thrown)
  PROVE  /\ CacheOK(Recorded(s, v))
         /\ \A t \in Sessions :
              \/ Backed(Recorded(s, v), t, Heard(t))
              \/ t = s /\ Backed(Recorded(s, v), t, Told(t) \cup ToSay(s, v))
<1> DEFINE c == Recorded(s, v)
           fresh == ToSay(s, v)
<1> DEFINE o == proc[s].snap
           n == Scanned(o, s, proc[s].file, proc[s].cfg, v)
<1>0. CacheOK(o) /\ WorldOK /\ proc[s].fresh = {}
  BY DEF HookInv, ProcOK
<1>1. /\ CacheOK(n)
      /\ \A t \in Sessions, f \in Files : \A x \in n.of[t][f].known :
           \/ x \in o.of[t][f].known
           \/ /\ t = s /\ f \in DOMAIN v /\ v[f] \in {"fresh", "pending", "clean"}
              /\ x \in Found(f, proc[s].cfg)
  BY <1>0, ScannedKeeps
<1>2. \A t \in Sessions : Backed(o, t, Heard(t))
  BY DEF HookInv
<1> HIDE DEF n
<1>3. /\ CacheOK(c)
      /\ \A t \in Sessions, f \in Files : c.of[t][f].known \subseteq n.of[t][f].known
  BY <1>1, CollectedKeeps DEF n, Recorded
<1> HIDE DEF c
<1>4. ASSUME NEW t \in Sessions, t # s PROVE Backed(c, t, Heard(t))
  BY <1>1, <1>2, <1>3, <1>4 DEF Backed
<1>5. Backed(c, s, Told(s) \cup fresh)
  <2> SUFFICES ASSUME NEW f \in Files, NEW x \in c.of[s][f].known
               PROVE  [file |-> f, f |-> x] \in Told(s) \cup fresh
    BY DEF Backed
  <2>1. CASE x \in o.of[s][f].known
    <3>1. Heard(s) = Told(s)
      BY <1>0 DEF Heard
    <3> QED BY <1>2, <2>1, <3>1 DEF Backed
  <2>2. CASE x \notin o.of[s][f].known
    <3>1. f \in DOMAIN v /\ v[f] \in {"fresh", "pending", "clean"} /\ x \in Found(f, proc[s].cfg)
      BY <1>1, <1>3, <2>2
    <3>2. x \in Findings
      BY <1>0, <3>1, FoundTyped
    <3>3. [file |-> f, f |-> x] \in FreshFindings(o, s, proc[s].cfg, v)
      BY <1>0, <2>2, <3>1, <3>2, FreshSaid
    <3> QED BY <3>3 DEF ToSay
  <2> QED BY <2>1, <2>2
<1> QED BY <1>3, <1>4, <1>5 DEF c

LEMMA DenialCountsOnly ==
  ASSUME NEW c, CacheOK(c), NEW s \in Sessions, NEW f, NEW sig
  PROVE  /\ CacheOK(BumpDenial(c, s, f, sig))
         /\ \A t \in Sessions, g \in Files :
               BumpDenial(c, s, f, sig).of[t][g].known = c.of[t][g].known
<1> DEFINE m == Bumped(DenialCount(c, s, f, sig))
           D == {d \in c.of[s][f].denied : d.sig # sig} \cup {[sig |-> sig, n |-> m]}
           e == [c EXCEPT !.of[s][f].denied = D]
<1>0. BumpDenial(c, s, f, sig) = Touch(e, s)
  BY DEF BumpDenial
<1> HIDE DEF D
<1>1. ASSUME NEW t \in Sessions, NEW g \in Files
      PROVE  /\ DOMAIN e.of[t][g] = {"edits", "known", "denied"} /\ e.of[t][g].edits \in Nat
             /\ e.of[t][g].known = c.of[t][g].known
  BY DEF CacheOK
<1>2. DOMAIN e = {"torn", "order", "of"} /\ DOMAIN e.of = Sessions
      /\ \A t \in Sessions : DOMAIN e.of[t] = Files
  BY DEF CacheOK
<1> HIDE DEF e
<1>3. CacheOK(e)
  BY <1>1, <1>2 DEF CacheOK
<1>4. CacheOK(Touch(e, s)) /\ Touch(e, s).of = e.of
  BY <1>3, TouchKeeps
<1> QED BY <1>0, <1>1, <1>4

LEMMA AllowKeeps ==
  ASSUME HookInv, NEW s \in Sessions, Allow(s) \/ UNCHANGED <<content, agent>>
  PROVE  WorldOK'
<1>1. CASE Allow(s)
  <2>1. proc[s].text \subseteq Findings
    BY DEF HookInv, ProcOK
  <2> QED BY <1>1, <2>1 DEF Allow, HookInv, WorldOK
<1>2. CASE UNCHANGED <<content, agent>>
  BY <1>2 DEF HookInv, WorldOK
<1> QED BY <1>1, <1>2

\* A process that keeps its copy, drops it or counts in it, and leaves the cache.
LEMMA QuietStep ==
  ASSUME HookInv, NEW s \in Sessions, NEW p, ProcOK(p), proc' = [proc EXCEPT ![s] = p],
         WorldOK', cache' = cache, raised' = raised, proc[s].fresh \subseteq p.fresh,
         NEW c \in {cache, proc[s].snap, EmptyCache},
         \A t \in Sessions, f \in Files : p.snap.of[t][f].known \subseteq c.of[t][f].known
  PROVE  HookInv'
<1>1. \A t \in Sessions : Backed(cache, t, Heard(t)) /\ Backed(proc[s].snap, t, Heard(t))
  BY DEF HookInv
<1>2. \A t \in Sessions : Backed(c, t, Heard(t))
  BY <1>1, EmptyCacheOK
<1>3. \A t \in Sessions : Backed(p.snap, t, Heard(t))
  BY <1>2 DEF Backed
<1>4. CacheOK(cache') /\ RaisedOK' /\ \A t \in Sessions : Told(t)' = Told(t)
  BY DEF HookInv, RaisedOK, Told
<1> QED BY <1>1, <1>3, <1>4, ProcStep

\* What one session was told grows, what the others were told stays.
Among(x) == x.listed \cup x.counted \cup x.unsaid
LEMMA MoreTold ==
  ASSUME RaisedOK, NEW s \in Sessions, NEW x, DOMAIN x = {"listed", "counted", "unsaid"},
         Among(raised[s]) \subseteq Among(x), raised' = [raised EXCEPT ![s] = x]
  PROVE  /\ RaisedOK' /\ Told(s)' = Among(x)
         /\ \A t \in Sessions : Told(t) \subseteq Told(t)'
<1>1. DOMAIN raised' = Sessions /\ raised'[s] = x /\ \A t \in Sessions : t # s => raised'[t] = raised[t]
  BY DEF RaisedOK
<1> QED BY <1>1 DEF RaisedOK, Told, Among

\* The loop over the targets, whichever of them the detector throws on.
LEMMA ScanKeeps ==
  ASSUME HookInv, NEW s \in Sessions, proc[s].pc = "scan", NEW thrown, ScanLoop(s, thrown),
         WorldOK', cache' = cache, raised' = raised
  PROVE  HookInv'
<1> DEFINE q == proc[s]
<1>0. ProcOK(q) /\ q.fresh = {} /\ CacheOK(cache') /\ RaisedOK' /\ \A t \in Sessions : Told(t)' = Told(t)
  BY DEF HookInv, ProcOK, RaisedOK, Told
<1>1. PICK v \in {Verdicts(q.snap, s, q.file, q.cfg, thrown)} :
        proc' = [proc EXCEPT ![s] =
                   [q EXCEPT !.pc = "write", !.cfg = NoProc.cfg,
                             !.snap = Collected(Scanned(q.snap, s, q.file, q.cfg, v)),
                             !.fresh = FreshFindings(q.snap, s, q.cfg, v),
                             !.say = Emission(v, Targets(q.file))]]
  BY DEF ScanLoop, Step
<1>2. PICK c, fresh, say : c = Recorded(s, v) /\ fresh = ToSay(s, v) /\ say = Emission(v, Targets(q.file))
  OBVIOUS
<1>3. /\ CacheOK(c)
      /\ \A t \in Sessions : \/ Backed(c, t, Heard(t))
                             \/ t = s /\ Backed(c, t, Told(t) \cup fresh)
  BY <1>1, <1>2, DecideBacked
<1>4. PICK r : r = [q EXCEPT !.pc = "write", !.cfg = NoProc.cfg, !.snap = c, !.fresh = fresh, !.say = say]
  OBVIOUS
<1>5. ProcOK(r) /\ r.snap = c /\ r.fresh = fresh
  BY <1>0, <1>3, <1>4 DEF ProcOK
<1>6. proc' = [proc EXCEPT ![s] = r]
  BY <1>1, <1>2, <1>4 DEF Recorded, ToSay
<1>7. \A t \in Sessions : Backed(cache', t, Heard(t))
  BY DEF HookInv
<1> QED BY <1>0, <1>3, <1>5, <1>6, <1>7, ProcStep

LEMMA HookStepKeeps ==
  ASSUME HookInv, NEW s \in Sessions, HookStep(s) \/ DetectorFails(s) \/ Kill(s)
  PROVE  HookInv'
<1> DEFINE q == proc[s]
<1>0. /\ ProcOK(q) /\ WorldOK /\ CacheOK(cache) /\ RaisedOK
      /\ ProcOK(NoProc) /\ DOMAIN proc = Sessions
  BY NoProcIs, EmptyCacheOK DEF HookInv, ProcOK
<1>1. CASE LoadConfig(s)
  <2> DEFINE p == proc'[s]
  <2>1. /\ q.pc = "config" /\ \/ proc' = [proc EXCEPT ![s] = NoProc]
                              \/ \E cfg : proc' = [proc EXCEPT ![s] = [q EXCEPT !.pc = "cache", !.cfg = cfg]]
        /\ Allow(s) \/ UNCHANGED <<content, agent>>
        /\ UNCHANGED <<cache, raised>>
    BY <1>1 DEF LoadConfig, Step
  <2>2. WorldOK'
    BY <2>1, AllowKeeps
  <2>3. q.fresh = {}
    BY <1>0, <2>1 DEF ProcOK
  <2>4. CASE proc' = [proc EXCEPT ![s] = NoProc]
    BY <1>0, <2>1, <2>2, <2>3, <2>4, NoProcIs, QuietStep
  <2>5. ASSUME NEW cfg, proc' = [proc EXCEPT ![s] = [q EXCEPT !.pc = "cache", !.cfg = cfg]]
        PROVE  HookInv'
    <3>1. PICK r : r = [q EXCEPT !.pc = "cache", !.cfg = cfg]
      OBVIOUS
    <3>2. ProcOK(r) /\ r.snap = q.snap /\ r.fresh = q.fresh
      BY <1>0, <2>3, <3>1 DEF ProcOK
    <3>3. proc' = [proc EXCEPT ![s] = r] /\ q.fresh \subseteq r.fresh
          /\ cache' = cache /\ raised' = raised
          /\ \A t \in Sessions, f \in Files : r.snap.of[t][f].known \subseteq q.snap.of[t][f].known
      BY <2>1, <2>5, <3>1, <3>2
    <3> HIDE DEF q
    <3> QED BY <2>2, <3>2, <3>3, QuietStep DEF q
  <2> QED BY <2>1, <2>4, <2>5
<1>2. CASE LoadCache(s)
  <2>1. PICK r : r = [q EXCEPT !.pc = "scan", !.snap = ReadCache(cache)]
    OBVIOUS
  <2>2. /\ q.pc = "cache" /\ proc' = [proc EXCEPT ![s] = r]
        /\ UNCHANGED <<content, agent, cache, raised>>
    BY <1>2, <2>1 DEF LoadCache, Step
  <2>3. ReadCache(cache) \in {cache, EmptyCache} /\ CacheOK(ReadCache(cache))
    BY <1>0, EmptyCacheOK DEF ReadCache
  <2>4. q.fresh = {}
    BY <1>0, <2>2 DEF ProcOK
  <2>5. ProcOK(r) /\ r.snap = ReadCache(cache) /\ r.fresh = q.fresh
    BY <1>0, <2>1, <2>3, <2>4 DEF ProcOK
  <2>6. WorldOK'
    BY <1>0, <2>2 DEF WorldOK
  <2>7. \E c \in {cache, q.snap, EmptyCache} : r.snap = c
    BY <2>3, <2>5
  <2> QED BY <2>2, <2>5, <2>6, <2>7, QuietStep
<1>3. CASE Decide(s)
  <2>1. q.pc = "scan" /\ UNCHANGED <<content, cache, agent, raised>>
    BY <1>3 DEF Decide
  <2>2. WorldOK' /\ q.fresh = {}
    BY <1>0, <2>1 DEF WorldOK, ProcOK
  <2>4. ASSUME NEW sig, NEW say, NEW c, c = BumpDenial(q.snap, s, q.file, sig),
               proc' = [proc EXCEPT ![s] = [q EXCEPT !.pc = "write", !.cfg = NoProc.cfg,
                                                     !.snap = Collected(c), !.say = say]]
        PROVE  HookInv'
    <3>1. CacheOK(c) /\ \A t \in Sessions, g \in Files : c.of[t][g].known = q.snap.of[t][g].known
      BY <1>0, <2>4, DenialCountsOnly DEF ProcOK
    <3>2. PICK d : d = Collected(c)
      OBVIOUS
    <3>3. CacheOK(d) /\ \A t \in Sessions, g \in Files : d.of[t][g].known \subseteq q.snap.of[t][g].known
      BY <3>1, <3>2, CollectedKeeps
    <3>4. PICK r : r = [q EXCEPT !.pc = "write", !.cfg = NoProc.cfg, !.snap = d, !.say = say]
      OBVIOUS
    <3>5. ProcOK(r) /\ r.snap = d /\ r.fresh = q.fresh
      BY <1>0, <3>3, <3>4 DEF ProcOK
    <3>6. proc' = [proc EXCEPT ![s] = r]
      BY <2>4, <3>2, <3>4
    <3> QED BY <2>1, <2>2, <3>3, <3>5, <3>6, QuietStep
  <2>5. CASE ScanLoop(s, {})
    BY <2>1, <2>2, <2>5, ScanKeeps
  <2>6. CASE Harness[s] = "pre" /\ ~ScanLoop(s, {})
    <3>1. PICK sig \in {FilterFindings(q.cfg, q.file, q.text)} :
            \E c \in {BumpDenial(q.snap, s, q.file, sig)} :
              proc' = [proc EXCEPT ![s] =
                         [q EXCEPT !.pc = "write", !.cfg = NoProc.cfg, !.snap = Collected(c),
                                   !.say = IF DenialCount(c, s, q.file, sig) > Threshold
                                           THEN "allow" ELSE "deny"]]
      BY <1>3, <2>6 DEF Decide, Step
    <3> QED BY <2>4, <3>1
  <2> QED BY <1>3, <2>5, <2>6 DEF Decide
<1>4. CASE DetectorFails(s)
  <2>1. /\ q.pc = "scan" /\ UNCHANGED <<cache, raised>>
        /\ Allow(s) \/ UNCHANGED <<content, agent>>
    BY <1>4 DEF DetectorFails, Step, ScanLoop
  <2>2. WorldOK'
    BY <2>1, AllowKeeps
  <2>3. q.fresh = {} /\ CacheOK(q.snap)
    BY <1>0, <2>1 DEF ProcOK
  <2>6. PICK d : d = Collected(q.snap)
    OBVIOUS
  <2>7. CacheOK(d) /\ \A t \in Sessions, g \in Files : d.of[t][g].known \subseteq q.snap.of[t][g].known
    BY <2>3, <2>6, CollectedKeeps
  <2>8. PICK r : r = [q EXCEPT !.pc = "write", !.cfg = NoProc.cfg, !.snap = d, !.say = "nothing"]
    OBVIOUS
  <2>9. ProcOK(r) /\ r.snap = d /\ r.fresh = q.fresh
    BY <1>0, <2>7, <2>8 DEF ProcOK
  <2>10. \/ proc' = [proc EXCEPT ![s] = r] \/ proc' = [proc EXCEPT ![s] = NoProc]
         \/ \E thrown : ScanLoop(s, thrown) /\ UNCHANGED <<content, agent>>
    BY <1>4, <2>6, <2>8 DEF DetectorFails, Step
  <2>11. CASE proc' = [proc EXCEPT ![s] = r]
    BY <2>1, <2>2, <2>7, <2>9, <2>11, QuietStep
  <2>12. CASE proc' = [proc EXCEPT ![s] = NoProc]
    BY <1>0, <2>1, <2>2, <2>3, <2>12, NoProcIs, QuietStep
  <2>13. CASE \E thrown : ScanLoop(s, thrown) /\ UNCHANGED <<content, agent>>
    BY <2>1, <2>2, <2>13, ScanKeeps
  <2> QED BY <2>10, <2>11, <2>12, <2>13
<1>5. CASE OpenCache(s) \/ FillCache(s)
  <2>1. /\ UNCHANGED <<content, agent, raised>>
        /\ cache' \in {cache, Torn, Mixed, q.snap}
        /\ \/ proc' = [proc EXCEPT ![s] = [q EXCEPT !.pc = "fill"]]
           \/ proc' = [proc EXCEPT ![s] = [q EXCEPT !.pc = "say", !.snap = EmptyCache]]
    BY <1>5 DEF OpenCache, FillCache, Step, Written
  <2>2. PICK r : /\ proc' = [proc EXCEPT ![s] = r]
                 /\ \/ r = [q EXCEPT !.pc = "fill"]
                    \/ r = [q EXCEPT !.pc = "say", !.snap = EmptyCache]
    BY <2>1
  <2>3. ProcOK(r) /\ r.snap \in {q.snap, EmptyCache} /\ r.fresh = q.fresh
    <3>1. q.pc \in {"write", "fill"}
      BY <1>5 DEF OpenCache, FillCache, Step
    <3> QED BY <1>0, <2>2, EmptyCacheOK DEF ProcOK
  <2>4. \A t \in Sessions : Backed(cache, t, Heard(t)) /\ Backed(q.snap, t, Heard(t))
    BY DEF HookInv
  <2>5. \A t \in Sessions : Backed(cache', t, Heard(t)) /\ Backed(r.snap, t, Heard(t))
    BY <2>1, <2>3, <2>4, EmptyCacheOK
  <2>6. CacheOK(cache') /\ WorldOK'
    BY <1>0, <2>1, EmptyCacheOK DEF ProcOK, WorldOK
  <2>7. RaisedOK' /\ \A t \in Sessions : Told(t)' = Told(t)
    BY <1>0, <2>1 DEF RaisedOK, Told
  <2> QED BY <2>2, <2>3, <2>5, <2>6, <2>7, ProcStep
<1>6. CASE Say(s)
  <2>1. /\ proc' = [proc EXCEPT ![s] = NoProc]
        /\ Allow(s) \/ UNCHANGED <<content, agent>>
        /\ cache' = cache
    BY <1>6 DEF Say, Step
  <2>2. PICK L \in SUBSET q.fresh :
          raised' = [raised EXCEPT ![s].listed = @ \cup L, ![s].counted = @ \cup (q.fresh \ L)]
    BY <1>6 DEF Say, Listings
  <2> DEFINE x == [raised[s] EXCEPT !.listed = @ \cup L, !.counted = @ \cup (q.fresh \ L)]
  <2>3. raised' = [raised EXCEPT ![s] = x]
    BY <2>2
  <2>4. DOMAIN x = {"listed", "counted", "unsaid"} /\ q.fresh \subseteq Among(x) /\ Among(raised[s]) \subseteq Among(x)
    BY <1>0 DEF RaisedOK, Among
  <2> HIDE DEF x
  <2>5. RaisedOK' /\ q.fresh \subseteq Told(s)' /\ \A t \in Sessions : Told(t) \subseteq Told(t)'
    BY <1>0, <2>3, <2>4, MoreTold
  <2>6. WorldOK'
    BY <2>1, AllowKeeps
  <2>7. \A t \in Sessions : Backed(cache', t, Heard(t)) /\ Backed(NoProc.snap, t, Heard(t))
    BY <2>1, NoProcIs, EmptyCacheOK DEF HookInv
  <2> QED BY <1>0, <2>1, <2>5, <2>6, <2>7, ProcStep
<1>7. CASE Kill(s)
  <2>1. /\ proc' = [proc EXCEPT ![s] = NoProc]
        /\ raised' = [raised EXCEPT ![s].unsaid = @ \cup q.fresh]
        /\ Allow(s) \/ UNCHANGED <<content, agent>>
        /\ cache' = cache
    BY <1>7 DEF Kill
  <2> DEFINE x == [raised[s] EXCEPT !.unsaid = @ \cup q.fresh]
  <2>3. raised' = [raised EXCEPT ![s] = x]
    BY <2>1
  <2>4. DOMAIN x = {"listed", "counted", "unsaid"} /\ q.fresh \subseteq Among(x) /\ Among(raised[s]) \subseteq Among(x)
    BY <1>0 DEF RaisedOK, Among
  <2> HIDE DEF x
  <2>5. RaisedOK' /\ q.fresh \subseteq Told(s)' /\ \A t \in Sessions : Told(t) \subseteq Told(t)'
    BY <1>0, <2>3, <2>4, MoreTold
  <2>6. WorldOK'
    BY <2>1, AllowKeeps
  <2>7. \A t \in Sessions : Backed(cache', t, Heard(t)) /\ Backed(NoProc.snap, t, Heard(t))
    BY <2>1, NoProcIs, EmptyCacheOK DEF HookInv
  <2> QED BY <1>0, <2>1, <2>5, <2>6, <2>7, ProcStep
<1> QED BY <1>1, <1>2, <1>3, <1>4, <1>5, <1>6, <1>7 DEF HookStep

LEMMA AgentStepKeeps ==
  ASSUME HookInv, NEW s \in Sessions,
         Retry(s) \/ \E f \in Files, text \in SUBSET Findings : Edit(s, f, text) \/ Propose(s, f, text)
  PROVE  HookInv'
<1>0. /\ ProcOK(proc[s]) /\ WorldOK
  BY DEF HookInv
<1>1. PICK f, text : /\ text \subseteq Findings
                     /\ Start(s, f, text)
                     /\ proc[s].pc = "none" /\ UNCHANGED <<cache, raised>>
  <2>1. CASE Retry(s)
    <3>1. agent[s].want \subseteq Findings
      BY <1>0 DEF WorldOK
    <3> QED BY <2>1, <3>1 DEF Retry
  <2>2. CASE \E f \in Files, text \in SUBSET Findings : Edit(s, f, text) \/ Propose(s, f, text)
    BY <2>2 DEF Edit, Propose
  <2> QED BY <2>1, <2>2
<1>2. WorldOK'
  <2>1. CASE Retry(s)
    BY <1>0, <2>1 DEF Retry, WorldOK
  <2>2. ASSUME NEW g \in Files, NEW x \in SUBSET Findings, Edit(s, g, x)
        PROVE  WorldOK'
    BY <1>0, <2>2 DEF Edit, WorldOK
  <2>3. ASSUME NEW g \in Files, NEW x \in SUBSET Findings, Propose(s, g, x)
        PROVE  WorldOK'
    BY <1>0, <2>3 DEF Propose, WorldOK
  <2> QED BY <2>1, <2>2, <2>3
<1>3. PICK r : r = [NoProc EXCEPT !.pc = "config", !.file = f, !.text = text]
  OBVIOUS
<1>4. ProcOK(r) /\ r.snap = EmptyCache /\ r.fresh = {}
  BY <1>1, <1>3, NoProcIs, EmptyCacheOK DEF ProcOK
<1>5. proc' = [proc EXCEPT ![s] = r] /\ proc[s].fresh = {}
  BY <1>0, <1>1, <1>3 DEF Start, ProcOK
<1> QED BY <1>1, <1>2, <1>4, <1>5, QuietStep

LEMMA CommandKeeps ==
  ASSUME HookInv, NEW c, NEW k \in {cache, EmptyCache}, Command(c, k)
  PROVE  HookInv'
<1>1. cache' = k /\ UNCHANGED <<content, proc, agent, raised>>
  BY DEF Command
<1>2. CacheOK(k) /\ \A s \in Sessions : Backed(k, s, Heard(s))
  BY EmptyCacheOK DEF HookInv
<1>3. \A s : Heard(s)' = Heard(s)
  BY <1>1 DEF Heard, Told
<1> QED BY <1>1, <1>2, <1>3 DEF HookInv, WorldOK, RaisedOK, Backed

\* reset takes the open cache from under the processes that write it.
LEMMA ResetKeeps ==
  ASSUME HookInv, Reset
  PROVE  HookInv'
<1>1. /\ cache' = EmptyCache /\ UNCHANGED <<content, agent, raised>>
      /\ proc' = [s \in Sessions |-> IF proc[s].pc = "fill" THEN Written(proc[s]) ELSE proc[s]]
  BY DEF Reset
<1>2. ASSUME NEW s \in Sessions
      PROVE  /\ ProcOK(proc'[s]) /\ proc'[s].fresh = proc[s].fresh
             /\ proc'[s].snap \in {proc[s].snap, EmptyCache}
  <2>1. ProcOK(proc[s])
    BY DEF HookInv
  <2>2. CASE proc[s].pc = "fill"
    <3>1. proc'[s] = [proc[s] EXCEPT !.pc = "say", !.snap = EmptyCache]
      BY <1>1, <2>2 DEF Written
    <3> QED BY <2>1, <3>1, EmptyCacheOK DEF ProcOK
  <2>3. CASE proc[s].pc # "fill"
    BY <1>1, <2>1, <2>3
  <2> QED BY <2>2, <2>3
<1>3. \A s \in Sessions : Heard(s)' = Heard(s)
  BY <1>1, <1>2 DEF Heard, Told
<1>4. ASSUME NEW s \in Sessions
      PROVE  /\ Backed(cache, s, Heard(s))'
             /\ \A t \in Sessions : Backed(proc[t].snap, s, Heard(s))'
  <2>1. Backed(cache', s, Heard(s)) /\ \A t \in Sessions : Backed(proc'[t].snap, s, Heard(s))
    BY <1>1, <1>2, EmptyCacheOK DEF HookInv
  <2> QED BY <1>3, <2>1 DEF Backed
<1>5. WorldOK' /\ RaisedOK' /\ CacheOK(cache')
  BY <1>1, EmptyCacheOK DEF HookInv, WorldOK, RaisedOK
<1> QED BY <1>1, <1>2, <1>4, <1>5 DEF HookInv

LEMMA HookInit == Init => HookInv
<1> SUFFICES ASSUME Init PROVE HookInv
  OBVIOUS
<1>1. /\ cache = EmptyCache /\ content = [f \in Files |-> {}] /\ proc = [s \in Sessions |-> NoProc]
      /\ agent = [s \in Sessions |-> [edits |-> 0, want |-> {}, file |-> NoProc.file]]
      /\ raised = [s \in Sessions |-> [listed |-> {}, counted |-> {}, unsaid |-> {}]]
  BY DEF Init
<1>2. ProcOK(NoProc)
  BY NoProcIs, EmptyCacheOK DEF ProcOK
<1>3. WorldOK /\ RaisedOK
  BY <1>1 DEF WorldOK, RaisedOK
<1> QED BY <1>1, <1>2, <1>3, NoProcIs, EmptyCacheOK DEF HookInv

LEMMA HookNext == HookInv /\ [Next]_vars => HookInv'
<1> SUFFICES ASSUME HookInv, [Next]_vars PROVE HookInv'
  OBVIOUS
<1>1. CASE UNCHANGED vars
  BY <1>1 DEF vars, HookInv, WorldOK, RaisedOK, Backed, Heard, Told
<1>2. ASSUME NEW s \in Sessions, HookStep(s) \/ DetectorFails(s) \/ Kill(s)
      PROVE  HookInv'
  BY <1>2, HookStepKeeps
<1>3. ASSUME NEW s \in Sessions,
             Retry(s) \/ \E f \in Files, text \in SUBSET Findings : Edit(s, f, text) \/ Propose(s, f, text)
      PROVE  HookInv'
  BY <1>3, AgentStepKeeps
<1>4. CASE \/ TurnOn \/ TurnOff \/ Reset \/ EditManifest
           \/ \E i \in IgnoreChoices : AddShared(i) \/ AddLocal(i)
  BY <1>4, CommandKeeps, ResetKeeps DEF TurnOn, TurnOff, EditManifest, AddShared, AddLocal
<1> QED BY <1>1, <1>2, <1>3, <1>4 DEF Next

\* What the shared cache says a session has heard, its agent was told - in the
\* list of a message or, past its room, in its count (renderGroupedTemplate) -
\* or is about to be told, however many sessions read, copy and overwrite the
\* file without a lock (readCache, persistCache), whichever writes tear it,
\* mix in it or fail, and whatever the detector throws on; all but the findings
\* of a hook that was killed before it spoke.
THEOREM KnownIsRaised == Spec => []KnownWasRaised
<1>1. HookInv => KnownWasRaised
  BY DEF HookInv, Backed, Heard, KnownWasRaised
<1> QED BY <1>1, HookInit, HookNext, PTL DEF Spec

(***************************************************************************)
(* The config files.                                                       *)
(***************************************************************************)

\* What readConfig and the admin commands may count on in a file.
FileOK(f) ==
  /\ DOMAIN f = {"ok", "hook", "detector", "other"}
  /\ DOMAIN f.hook = {"enabled", "consent", "legacy"}
  /\ ~f.ok => f.detector = {} /\ f.other = FALSE
ConfOK ==
  /\ DOMAIN conf = {"shared", "local", "man"}
  /\ FileOK(conf.shared) /\ FileOK(conf.local)

\* Nothing of f is lost in g.
Kept(f, g) == f.detector \subseteq g.detector /\ (f.other => g.other)

LEMMA ExistingKeeps ==
  ASSUME NEW f, FileOK(f)
  PROVE  /\ FileOK(Existing(f)) /\ Existing(f).ok
         /\ f.detector \subseteq Existing(f).detector /\ (f.ok => Existing(f) = f)
BY DEF FileOK, Existing, NoFile, NoHook

LEMMA WritesKeep ==
  ASSUME NEW f, FileOK(f), NEW h, NEW S
  PROVE  /\ FileOK(WriteHookConfig(f, h)) /\ Kept(f, WriteHookConfig(f, h))
         /\ FileOK(WriteDetectorConfig(f, S)) /\ Kept(f, WriteDetectorConfig(f, S))
<1> DEFINE e == Existing(f)
           hk == [enabled |-> IF h.enabled = "unset" THEN e.hook.enabled ELSE h.enabled,
                  consent |-> e.hook.consent \/ h.consent, legacy |-> {}]
           hk2 == [e.hook EXCEPT !.legacy = {}]
           w == [e EXCEPT !.hook = hk]
           d == [e EXCEPT !.hook = hk2, !.detector = e.detector \cup S]
<1>1. FileOK(e) /\ e.ok /\ f.detector \subseteq e.detector /\ (f.other => e.other)
  BY ExistingKeeps DEF FileOK
<1>2. DOMAIN hk = {"enabled", "consent", "legacy"} /\ DOMAIN hk2 = DOMAIN e.hook
  OBVIOUS
<1>3. WriteHookConfig(f, h) = w /\ WriteDetectorConfig(f, S) = d
  BY <1>1 DEF WriteHookConfig, WriteDetectorConfig, FileOK
<1> HIDE DEF e, hk, hk2
<1>4. /\ DOMAIN w = DOMAIN e /\ w.hook = hk /\ w.ok = e.ok /\ w.detector = e.detector /\ w.other = e.other
      /\ DOMAIN d = DOMAIN e /\ d.hook = hk2 /\ d.ok = e.ok /\ d.detector = e.detector \cup S
      /\ d.other = e.other
  BY <1>1 DEF FileOK
<1> HIDE DEF w, d
<1> QED BY <1>1, <1>2, <1>3, <1>4 DEF FileOK, Kept

LEMMA ResetFileOK ==
  ASSUME NEW f, FileOK(f)
  PROVE  FileOK(ResetFile(f))
BY DEF FileOK, ResetFile, NoFile, NoHook

\* Every step keeps both files or is a reset.
LEMMA ConfStep ==
  ASSUME ConfOK, [Next]_vars
  PROVE  /\ ConfOK'
         /\ Reset \/ (Kept(conf.shared, conf'.shared) /\ Kept(conf.local, conf'.local))
<1>0. FileOK(conf.shared) /\ FileOK(conf.local) /\ DOMAIN conf = {"shared", "local", "man"}
  BY DEF ConfOK
<1>1. CASE conf' = conf
  BY <1>0, <1>1 DEF ConfOK, Kept
<1>2. CASE TurnOn \/ TurnOff
  <2>0. PICK on \in BOOLEAN : conf' = SetEnabled(conf, on)
    BY <1>2 DEF TurnOn, TurnOff, Command
  <2>1. PICK h : h = WriteHookConfig(conf.shared, [NoHook EXCEPT !.enabled = IF on THEN "on" ELSE "off"])
    OBVIOUS
  <2>2. PICK l : l = WriteHookConfig(conf.local, [NoHook EXCEPT !.consent = TRUE])
    OBVIOUS
  <2>3. FileOK(h) /\ Kept(conf.shared, h) /\ FileOK(l) /\ Kept(conf.local, l)
    BY <1>0, <2>1, <2>2, WritesKeep
  <2>4. /\ DOMAIN conf' = DOMAIN conf /\ conf'.shared = h
        /\ conf'.local = l \/ conf'.local = conf.local
    BY <1>0, <2>0, <2>1, <2>2 DEF SetEnabled
  <2> QED BY <1>0, <2>3, <2>4 DEF ConfOK, Kept
<1>3. ASSUME NEW i, AddShared(i) \/ AddLocal(i)
      PROVE  ConfOK' /\ Kept(conf.shared, conf'.shared) /\ Kept(conf.local, conf'.local)
  <2>1. PICK s, l : s = AddIgnore(conf.shared, i) /\ l = AddIgnore(conf.local, i)
    OBVIOUS
  <2>2. FileOK(s) /\ Kept(conf.shared, s) /\ FileOK(l) /\ Kept(conf.local, l)
    BY <1>0, <2>1, WritesKeep DEF AddIgnore
  <2>3. conf' = [conf EXCEPT !.shared = s] \/ conf' = [conf EXCEPT !.local = l]
    BY <1>3, <2>1 DEF AddShared, AddLocal, Command
  <2> QED BY <1>0, <2>2, <2>3 DEF ConfOK, Kept
<1>4. CASE Reset
  <2>1. PICK s, l : s = ResetFile(conf.shared) /\ l = ResetFile(conf.local)
    OBVIOUS
  <2>2. FileOK(s) /\ FileOK(l)
    BY <1>0, <2>1, ResetFileOK
  <2>3. conf' = [conf EXCEPT !.shared = s, !.local = l]
    BY <1>0, <1>4, <2>1 DEF Reset, Command
  <2> QED BY <1>0, <1>4, <2>2, <2>3 DEF ConfOK
<1>5. CASE EditManifest
  <2>1. PICK m : conf' = [conf EXCEPT !.man = m]
    BY <1>5 DEF EditManifest, Command
  <2> QED BY <1>0, <2>1 DEF ConfOK, Kept
<1>6. ASSUME NEW s \in Sessions, HookStep(s) \/ DetectorFails(s) \/ Kill(s) \/ Retry(s)
      PROVE  conf' = conf
  BY <1>6 DEF HookStep, LoadConfig, LoadCache, Decide, OpenCache, FillCache, Say,
     DetectorFails, Kill, Retry
<1>7. ASSUME NEW s \in Sessions, NEW f, NEW text, Edit(s, f, text) \/ Propose(s, f, text)
      PROVE  conf' = conf
  BY <1>7 DEF Edit, Propose
<1>8. CASE UNCHANGED vars
  BY <1>1, <1>8 DEF vars
<1> QED BY <1>1, <1>2, <1>3, <1>4, <1>5, <1>6, <1>7, <1>8 DEF Next

\* No command of hook-admin.mjs but reset takes back an ignore under the
\* detector key or a key of another tool (writeHookConfig, writeDetectorConfig),
\* whatever was in the two files, and no hook process touches them.
THEOREM IgnoresAreKept == Spec => IgnoresSurvive
<1>1. Init => ConfOK
  <2> SUFFICES ASSUME Init PROVE ConfOK
    OBVIOUS
  <2> DEFINE old(i) == [NoFile EXCEPT !.ok = TRUE, !.hook.legacy = {i}, !.other = TRUE]
  <2>1. FileOK(NoFile)
    BY DEF FileOK, NoFile, NoHook
  <2>2. ASSUME NEW i PROVE FileOK(old(i))
    <3>1. DOMAIN NoFile = {"ok", "hook", "detector", "other"} /\ NoFile.hook = NoHook
      BY DEF NoFile
    <3>2. DOMAIN NoHook = {"enabled", "consent", "legacy"}
      BY DEF NoHook
    <3>3. DOMAIN old(i) = DOMAIN NoFile /\ old(i).ok /\ DOMAIN old(i).hook = DOMAIN NoHook
      BY <3>1, <3>2
    <3> QED BY <3>1, <3>2, <3>3 DEF FileOK
  <2> HIDE DEF old
  <2>3. PICK f : /\ conf = [shared |-> f, local |-> NoFile, man |-> conf.man]
                 /\ f = NoFile \/ \E i : f = old(i)
    <3>1. CASE conf = [shared |-> NoFile, local |-> NoFile,
                       man |-> [dest |-> NoManifest, shared |-> NoManifest]]
      BY <3>1
    <3>2. ASSUME NEW i, conf = [shared |-> old(i), local |-> NoFile,
                                man |-> [dest |-> NoManifest, shared |-> Installed]]
          PROVE  \E f : /\ conf = [shared |-> f, local |-> NoFile, man |-> conf.man]
                        /\ f = NoFile \/ \E j : f = old(j)
      BY <3>2
    <3> QED BY <3>1, <3>2 DEF Init, old
  <2> QED BY <2>1, <2>2, <2>3 DEF ConfOK
<1>2. ConfOK /\ [Next]_vars => ConfOK'
  BY ConfStep
<1>3. ConfOK /\ [Next]_vars =>
        [Reset \/ \A k \in {"shared", "local"} :
           /\ conf[k].detector \subseteq conf'[k].detector
           /\ conf[k].other => conf'[k].other]_vars
  BY ConfStep DEF Kept
<1> QED BY <1>1, <1>2, <1>3, PTL DEF Spec, IgnoresSurvive


-----------------------------------------------------------------------------
(* The cascade of the static detector *)

(* Priorities are compared lexicographically: a linear order. *)
Ranks == Nat \X Nat \X Nat \X Nat \X Nat

LEMMA BelowUnfolded ==
  ASSUME NEW a, NEW b
  PROVE  Below(a, b) <=> \/ a[1] < b[1]
                         \/ a[1] = b[1] /\ \/ a[2] < b[2]
                                           \/ a[2] = b[2] /\ \/ a[3] < b[3]
                                                             \/ a[3] = b[3] /\ \/ a[4] < b[4]
                                                                               \/ a[4] = b[4] /\ a[5] < b[5]
<1>1. 1 .. 5 = {1, 2, 3, 4, 5} /\ 1 .. 0 = {} /\ 1 .. 1 = {1} /\ 1 .. 2 = {1, 2} /\ 1 .. 3 = {1, 2, 3}
      /\ 1 .. 4 = {1, 2, 3, 4}
  OBVIOUS
<1> DEFINE at(k) == a[k] < b[k] /\ \A l \in 1 .. (k - 1) : a[l] = b[l]
<1>2. Below(a, b) <=> at(1) \/ at(2) \/ at(3) \/ at(4) \/ at(5)
  BY <1>1, Zenon DEF Below
<1>3. /\ at(1) <=> a[1] < b[1]
      /\ at(2) <=> a[2] < b[2] /\ a[1] = b[1]
      /\ at(3) <=> a[3] < b[3] /\ a[1] = b[1] /\ a[2] = b[2]
      /\ at(4) <=> a[4] < b[4] /\ a[1] = b[1] /\ a[2] = b[2] /\ a[3] = b[3]
      /\ at(5) <=> a[5] < b[5] /\ a[1] = b[1] /\ a[2] = b[2] /\ a[3] = b[3] /\ a[4] = b[4]
  BY <1>1
<1> HIDE DEF at
<1> QED
  BY <1>2, <1>3

LEMMA BelowIsTransitive ==
  ASSUME NEW a \in Ranks, NEW b \in Ranks, NEW c \in Ranks, Below(a, b), Below(b, c)
  PROVE  Below(a, c)
<1>1. \A x \in Ranks : x[1] \in Nat /\ x[2] \in Nat /\ x[3] \in Nat /\ x[4] \in Nat /\ x[5] \in Nat
  BY DEF Ranks
<1> QED
  BY <1>1, BelowUnfolded

LEMMA BelowIsTotal ==
  ASSUME NEW a \in Ranks, NEW b \in Ranks
  PROVE  Below(a, b) \/ a = b \/ Below(b, a)
<1>1. \A x \in Ranks : x[1] \in Nat /\ x[2] \in Nat /\ x[3] \in Nat /\ x[4] \in Nat /\ x[5] \in Nat
  BY DEF Ranks
<1>2. a[1] = b[1] /\ a[2] = b[2] /\ a[3] = b[3] /\ a[4] = b[4] /\ a[5] = b[5] => a = b
  BY DEF Ranks
<1> QED
  BY <1>1, <1>2, BelowUnfolded

(* v is what the cascade keeps of the declarations at the spots R. *)
Best(R, v, p) ==
  \/ v = NoDecl /\ R = {}
  \/ \E w \in R : v = EntryAt(w, p) /\ \A q \in R : q = w \/ LosesTo(q, w, p)

Shaped(q, p) == Rank(EntryAt(q, p)) \in Ranks /\ EntryAt(q, p).order \in Nat

LEMMA LosingIsTransitive ==
  ASSUME NEW p, NEW a \in Spots, NEW b \in Spots, NEW c \in Spots,
         Shaped(a, p), Shaped(b, p), Shaped(c, p), LosesTo(a, b, p), LosesTo(b, c, p)
  PROVE  LosesTo(a, c, p)
<1> DEFINE r(q) == Rank(EntryAt(q, p))
           o(q) == EntryAt(q, p).order
<1>1. r(a) \in Ranks /\ r(b) \in Ranks /\ r(c) \in Ranks /\ o(a) \in Nat /\ o(b) \in Nat /\ o(c) \in Nat
  BY DEF Shaped
<1>2. \A x, y : LosesTo(x, y, p)
                  <=> \/ Below(r(x), r(y))
                      \/ r(x) = r(y) /\ o(x) <= o(y) /\ (o(x) = o(y) => Earlier(x, y))
  BY DEF LosesTo
<1>3. Earlier(a, b) /\ Earlier(b, c) => Earlier(a, c)
  BY DEF Earlier, Spots
<1>4. Below(r(a), r(b)) /\ Below(r(b), r(c)) => Below(r(a), r(c))
  BY <1>1, BelowIsTransitive
<1>5. \A x, y, z : Below(x, y) /\ y = z => Below(x, z)
  OBVIOUS
<1> HIDE DEF r, o
<1>6. CASE Below(r(a), r(b)) \/ Below(r(b), r(c))
  BY <1>2, <1>4, <1>6
<1>7. CASE r(a) = r(b) /\ r(b) = r(c)
  BY <1>1, <1>2, <1>3, <1>7, BelowUnfolded
<1> QED
  BY <1>2, <1>6, <1>7

(* Comparing with the one that is kept is comparing with all. *)
LEMMA OneMore ==
  ASSUME NEW p, NEW R \in SUBSET Spots, NEW v, Best(R, v, p), NEW new \in Spots,
         \A q \in R \cup {new} : Shaped(q, p),
         \A q \in R : Earlier(q, new)
  PROVE  Best(R \cup {new}, IF Beats(EntryAt(new, p), v) THEN EntryAt(new, p) ELSE v, p)
<1> DEFINE e == EntryAt(new, p)
<1>1. CASE R = {}
  <2>1. v = NoDecl
    BY <1>1 DEF Best
  <2>2. Beats(e, v)
    BY <2>1 DEF Beats
  <2> QED
    BY <1>1, <2>2 DEF Best
<1>2. CASE R # {}
  <2>1. PICK w \in R : v = EntryAt(w, p) /\ \A q \in R : q = w \/ LosesTo(q, w, p)
    BY <1>2 DEF Best
  <2>2. v.order \in Nat /\ e.order \in Nat /\ Rank(v) \in Ranks /\ Rank(e) \in Ranks
    BY <2>1 DEF Shaped
  <2>3. v # NoDecl
    BY <2>2 DEF NoDecl
  <2>4. CASE Beats(e, v)
    <3>1. LosesTo(w, new, p)
      BY <2>1, <2>2, <2>3, <2>4 DEF Beats, LosesTo
    <3>2. \A q \in R : LosesTo(q, new, p)
      BY <2>1, <3>1, LosingIsTransitive
    <3> QED
      BY <2>4, <3>2 DEF Best
  <2>5. CASE ~Beats(e, v)
    <3>1. Below(Rank(e), Rank(v)) \/ (Rank(e) = Rank(v) /\ e.order < v.order)
      BY <2>2, <2>5, BelowIsTotal DEF Beats
    <3>2. LosesTo(new, w, p)
      BY <2>1, <2>2, <3>1 DEF LosesTo
    <3> QED
      BY <2>1, <2>5, <3>2 DEF Best
  <2> QED
    BY <2>4, <2>5
<1> QED
  BY <1>1, <1>2

(* The spots that have been applied. *)
ReachedSet(n, p) == {q \in Spots : Reached(q, n, p)}

LEMMA WinnersAreBest ==
  WinnerStands <=> \A n \in Nodes : \A p \in Properties : Best(ReachedSet(n, p), specified[n].of[p], p)
<1>1. ASSUME NEW n \in Nodes, NEW p \in Properties
      PROVE  Best(ReachedSet(n, p), specified[n].of[p], p)
               <=> \/ specified[n].of[p] = NoDecl /\ \A q \in Spots : ~Reached(q, n, p)
                   \/ \E w \in Spots : /\ Reached(w, n, p)
                                       /\ specified[n].of[p] = EntryAt(w, p)
                                       /\ \A q \in Spots : Reached(q, n, p) => q = w \/ LosesTo(q, w, p)
  BY DEF Best, ReachedSet
<1> QED
  BY <1>1 DEF WinnerStands

Styled ==
  IF step \in {"compute", "done"} THEN {Elements[l] : l \in {k \in DOMAIN Elements : k < item}} ELSE {}

CssInv ==
  /\ step \in {"parse", "match", "inline", "compute", "done"}
  /\ item \in Nat \ {0} /\ nth \in Nat \ {0}
  /\ step = "parse" => item = 1 /\ nth = 1
  /\ AreRules(rules)
  /\ \A n \in Nodes : \A p \in Properties : Best(ReachedSet(n, p), specified[n].of[p], p)
  /\ DOMAIN style = Styled
  /\ InheritedAgree

LEMMA EntriesAreShaped ==
  ASSUME CssGiven, AreRules(rules), NEW n \in Nodes, NEW p, NEW q \in Spots,
         q[1] = 0 => q[2] \in DOMAIN rules,
         q[1] = 1 => q[2] \in DOMAIN Elements /\ q[3] \in Nat \ {0}
  PROVE  Shaped(q, p)
<1>1. \A b : Bit(b) \in Nat
  BY DEF Bit
<1>2. CASE q[1] = 0
  <2>1. EntryAt(q, p).specificity \in Nat \X Nat \X Nat /\ EntryAt(q, p).order \in Nat
    BY <1>2 DEF EntryAt, Entry, RuleMeta, AreRules
  <2> QED
    BY <1>1, <2>1 DEF Shaped, Rank, Ranks
<1>3. CASE q[1] = 1
  <2> DEFINE before == {l \in 1 .. (q[2] - 1) : StyleAttribute[Elements[l]] # <<>>}
  <2>1. q[2] \in Nat /\ q[3] \in Nat \ {0}
    BY <1>3 DEF Spots
  <2>2. IsFiniteSet(1 .. (q[2] - 1))
    BY <2>1, FS_Interval, q[2] - 1 \in Int
  <2>3. Cardinality(before) \in Nat
    BY <2>2, before \subseteq 1 .. (q[2] - 1), FS_Subset, FS_CardinalityType
  <2>4. InlineOrder(q[2]) \in Nat
    BY <2>3 DEF InlineOrder, before, AreRules, IsList
  <2>5. EntryAt(q, p).specificity = <<1, 0, 0>> /\ EntryAt(q, p).order \in Nat
    BY <1>3, <2>1, <2>4 DEF EntryAt, Entry, InlineMeta
  <2> QED
    BY <1>1, <2>5 DEF Shaped, Rank, Ranks
<1> QED
  BY <1>2, <1>3 DEF Spots

LEMMA ReachedAreShaped ==
  ASSUME CssGiven, CssInv, NEW n \in Nodes, NEW p \in Properties, NEW q \in ReachedSet(n, p)
  PROVE  Shaped(q, p)
<1>1. q \in Spots /\ Reached(q, n, p)
  BY DEF ReachedSet
<1>2. (q[1] = 0 => q[2] \in DOMAIN rules) /\ (q[1] = 1 => q[2] \in DOMAIN Elements /\ q[3] \in Nat \ {0})
  BY <1>1 DEF Reached, CssGiven, IsList
<1> QED
  BY <1>1, <1>2, EntriesAreShaped DEF CssInv

(* A step may reach one more declaration of p, or none. *)
LEMMA NothingReached ==
  ASSUME CssInv, UNCHANGED rules, NEW n \in Nodes, NEW p \in Properties,
         ReachedSet(n, p)' = ReachedSet(n, p), specified'[n].of[p] = specified[n].of[p]
  PROVE  Best(ReachedSet(n, p), specified[n].of[p], p)'
<1> DEFINE R == ReachedSet(n, p)
           v == specified[n].of[p]
<1>1. \A q : EntryAt(q, p)' = EntryAt(q, p)
  BY DEF EntryAt, DeclAt, RuleMeta, InlineMeta, InlineOrder
<1>2. Best(R, v, p)
  BY DEF CssInv
<1>3. \A q, w : LosesTo(q, w, p)' <=> LosesTo(q, w, p)
  BY <1>1 DEF LosesTo
<1>4. R' = R /\ v' = v
  OBVIOUS
<1> HIDE DEF R, v
<1>5. Best(R, v, p)'
  BY <1>1, <1>2, <1>3, <1>4 DEF Best
<1> QED
  BY <1>5 DEF R, v

LEMMA OneReached ==
  ASSUME CssGiven, CssInv, UNCHANGED rules, NEW n \in Nodes, NEW p \in Properties, NEW new \in Spots,
         Shaped(new, p), \A q \in ReachedSet(n, p) : Earlier(q, new),
         ReachedSet(n, p)' = ReachedSet(n, p) \cup {new},
         specified'[n].of[p] = IF Beats(EntryAt(new, p), specified[n].of[p]) THEN EntryAt(new, p)
                               ELSE specified[n].of[p]
  PROVE  Best(ReachedSet(n, p), specified[n].of[p], p)'
<1> DEFINE R == ReachedSet(n, p)
           v == specified[n].of[p]
           v1 == IF Beats(EntryAt(new, p), v) THEN EntryAt(new, p) ELSE v
<1>1. \A q : EntryAt(q, p)' = EntryAt(q, p)
  BY DEF EntryAt, DeclAt, RuleMeta, InlineMeta, InlineOrder
<1>2. \A q, w : LosesTo(q, w, p)' <=> LosesTo(q, w, p)
  BY <1>1 DEF LosesTo
<1>3. Best(R, v, p) /\ R \in SUBSET Spots
  BY DEF CssInv, ReachedSet
<1>4. \A q \in R \cup {new} : Shaped(q, p)
  BY ReachedAreShaped
<1>5. Best(R \cup {new}, v1, p)
  BY <1>3, <1>4, OneMore
<1>6. R' = R \cup {new} /\ v' = v1
  OBVIOUS
<1> HIDE DEF R, v, v1
<1>7. Best(R, v, p)'
  BY <1>1, <1>2, <1>5, <1>6 DEF Best
<1> QED
  BY <1>7 DEF R, v

LEMMA ApplySets ==
  ASSUME NEW kept, NEW decl, NEW meta, NEW p \in Properties
  PROVE  Apply(kept, decl, meta).of[p]
           = IF p \in ToSet(Given(decl)) /\ Beats(Entry(decl, meta, p), kept.of[p]) THEN Entry(decl, meta, p)
             ELSE kept.of[p]
  BY DEF Apply

LEMMA RuleStep ==
  ASSUME CssGiven, CssInv, ApplyRule
  PROVE  CssInv'
<1> DEFINE new == <<0, item, nth>>
<1>1. /\ step = "match" /\ item \in DOMAIN rules /\ nth \in DOMAIN rules[item].declarations
      /\ step' = step /\ rules' = rules /\ item' = item /\ nth' = nth + 1 /\ style' = style
      /\ item \in Nat \ {0} /\ nth \in Nat \ {0}
  BY DEF ApplyRule, CssInv, AreRules, IsList
<1>2. new \in Spots /\ DeclAt(new) = rules[item].declarations[nth]
  BY <1>1 DEF Spots, DeclAt
<1>3. \A p : EntryAt(new, p) = Entry(DeclAt(new), RuleMeta(item), p)
  BY DEF EntryAt
<1>4. \A q \in Spots : Passed(q)' <=> Passed(q) \/ (q[2] = item /\ q[3] = nth)
  BY <1>1 DEF Passed, Spots
<1>5. \A q \in Spots : q[1] = 0 /\ q[2] = item /\ q[3] = nth <=> q = new
  BY DEF Spots
<1>6. \A q : /\ DeclAt(q)' = DeclAt(q)
             /\ q[2] \in DOMAIN rules => MatchedNodes(q[2])' = MatchedNodes(q[2])
  BY <1>1 DEF DeclAt, MatchedNodes
<1>7. ASSUME NEW n \in Nodes, NEW p \in Properties
      PROVE  Best(ReachedSet(n, p), specified[n].of[p], p)'
  <2> DEFINE sets == n \in MatchedNodes(item) /\ p \in ToSet(Given(DeclAt(new)))
  <2>1. specified'[n].of[p] = IF sets /\ Beats(EntryAt(new, p), specified[n].of[p]) THEN EntryAt(new, p)
                              ELSE specified[n].of[p]
    BY <1>2, <1>3, ApplySets DEF ApplyRule
  <2>2. \A q \in Spots : Reached(q, n, p)' <=> Reached(q, n, p) \/ (q = new /\ sets)
    BY <1>1, <1>2, <1>4, <1>5, <1>6 DEF Reached
  <2>3. CASE ~sets
    <3>1. ReachedSet(n, p)' = ReachedSet(n, p) /\ specified'[n].of[p] = specified[n].of[p]
      BY <2>1, <2>2, <2>3 DEF ReachedSet
    <3> QED
      BY <1>1, <3>1, NothingReached
  <2>4. CASE sets
    <3>1. ReachedSet(n, p)' = ReachedSet(n, p) \cup {new}
      BY <1>2, <2>2, <2>4 DEF ReachedSet
    <3>2. \A q \in ReachedSet(n, p) : Earlier(q, new)
      BY <1>1 DEF ReachedSet, Reached, Passed, Earlier, Spots
    <3>3. Shaped(new, p)
      BY <1>1, <1>2, EntriesAreShaped DEF CssInv
    <3> HIDE DEF new
    <3> QED
      BY <1>1, <1>2, <2>1, <2>4, <3>1, <3>2, <3>3, OneReached
  <2> QED
    BY <2>3, <2>4
<1>8. AreRules(rules)' /\ (DOMAIN style = Styled)' /\ InheritedAgree'
  <2>1. Styled = {} /\ Styled' = {}
    BY <1>1 DEF Styled
  <2>2. AreRules(rules) /\ DOMAIN style = {}
    BY <2>1 DEF CssInv
  <2> QED
    BY <1>1, <2>1, <2>2 DEF InheritedAgree
<1> QED
  BY <1>1, <1>7, <1>8 DEF CssInv

LEMMA StyleStep ==
  ASSUME CssGiven, CssInv, ApplyStyle
  PROVE  CssInv'
<1> DEFINE new == <<1, item, nth>>
           here == Elements[item]
<1>1. /\ step = "inline" /\ item \in DOMAIN Elements /\ nth \in DOMAIN StyleDecls(here)
      /\ step' = step /\ rules' = rules /\ item' = item /\ nth' = nth + 1 /\ style' = style
      /\ item \in Nat \ {0} /\ nth \in Nat \ {0} /\ here \in Nodes
  <2>1. step = "inline" /\ item \in DOMAIN Elements
    BY DEF ApplyStyle, CssInv, CssGiven, IsList
  <2>2. here \in Nodes
    BY <2>1 DEF Nodes, ToSet
  <2> QED
    BY <2>1, <2>2 DEF ApplyStyle, CssInv, CssGiven, IsList
<1>2. new \in Spots /\ DeclAt(new) = StyleDecls(here)[nth]
  BY <1>1 DEF Spots, DeclAt
<1>3. \A p : EntryAt(new, p) = Entry(DeclAt(new), InlineMeta(item, nth), p)
  BY DEF EntryAt
<1>4. \A q \in Spots : Passed(q)' <=> Passed(q) \/ (q[2] = item /\ q[3] = nth)
  BY <1>1 DEF Passed, Spots
<1>5. \A q \in Spots : q[1] = 1 /\ q[2] = item /\ q[3] = nth <=> q = new
  BY DEF Spots
<1>6. \A q : /\ DeclAt(q)' = DeclAt(q)
             /\ q[2] \in DOMAIN rules => MatchedNodes(q[2])' = MatchedNodes(q[2])
  BY <1>1 DEF DeclAt, MatchedNodes
<1>7. ASSUME NEW n \in Nodes, NEW p \in Properties
      PROVE  Best(ReachedSet(n, p), specified[n].of[p], p)'
  <2> DEFINE sets == n = here /\ p \in ToSet(Given(DeclAt(new)))
  <2>1. specified'[n].of[p] = IF sets /\ Beats(EntryAt(new, p), specified[n].of[p]) THEN EntryAt(new, p)
                              ELSE specified[n].of[p]
    BY <1>2, <1>3, ApplySets DEF ApplyStyle
  <2>2. \A q \in Spots : Reached(q, n, p)' <=> Reached(q, n, p) \/ (q = new /\ sets)
    BY <1>1, <1>2, <1>4, <1>5, <1>6 DEF Reached
  <2>3. CASE ~sets
    <3>1. ReachedSet(n, p)' = ReachedSet(n, p) /\ specified'[n].of[p] = specified[n].of[p]
      BY <2>1, <2>2, <2>3 DEF ReachedSet
    <3> QED
      BY <1>1, <3>1, NothingReached
  <2>4. CASE sets
    <3>1. ReachedSet(n, p)' = ReachedSet(n, p) \cup {new}
      BY <1>2, <2>2, <2>4 DEF ReachedSet
    <3>2. \A q \in ReachedSet(n, p) : Earlier(q, new)
      BY <1>1 DEF ReachedSet, Reached, Passed, Earlier, Spots
    <3>3. Shaped(new, p)
      BY <1>1, <1>2, EntriesAreShaped DEF CssInv
    <3> HIDE DEF new
    <3> QED
      BY <1>1, <1>2, <2>1, <2>4, <3>1, <3>2, <3>3, OneReached
  <2> QED
    BY <2>3, <2>4
<1>8. AreRules(rules)' /\ (DOMAIN style = Styled)' /\ InheritedAgree'
  <2>1. Styled = {} /\ Styled' = {}
    BY <1>1 DEF Styled
  <2>2. AreRules(rules) /\ DOMAIN style = {}
    BY <2>1 DEF CssInv
  <2> QED
    BY <1>1, <2>1, <2>2 DEF InheritedAgree
<1> QED
  BY <1>1, <1>7, <1>8 DEF CssInv

LEMMA ParseStep ==
  ASSUME CssGiven, CssInv, ParseCss
  PROVE  CssInv'
<1>1. /\ step = "parse" /\ step' = "match" /\ item = 1 /\ nth = 1 /\ item' = 1 /\ nth' = 1
      /\ specified' = specified /\ style' = style
  BY DEF ParseCss, CssInv
<1>2. AreRules(rules')
  <2>1. AreRules(<<>>)
    BY DEF AreRules, IsList
  <2> QED
    BY <2>1 DEF ParseCss, CssGiven
<1>3. ASSUME NEW n \in Nodes, NEW p \in Properties
      PROVE  Best(ReachedSet(n, p), specified[n].of[p], p)'
  <2>1. ReachedSet(n, p) = {}
    BY <1>1 DEF ReachedSet, Reached
  <2>2. specified[n].of[p] = NoDecl
    BY <2>1 DEF CssInv, Best
  <2>3. \A q \in Spots : ~Reached(q, n, p)'
    BY <1>1, <1>2 DEF Reached, Passed, Spots, AreRules, IsList
  <2>4. ReachedSet(n, p)' = {}
    BY <2>3 DEF ReachedSet
  <2> QED
    BY <1>1, <2>2, <2>4 DEF Best
<1>4. (DOMAIN style = Styled)' /\ InheritedAgree'
  <2>1. Styled = {} /\ Styled' = {}
    BY <1>1 DEF Styled
  <2> QED
    BY <1>1, <2>1 DEF CssInv, InheritedAgree
<1> QED
  BY <1>1, <1>2, <1>3, <1>4 DEF CssInv

LEMMA MovingStep ==
  ASSUME CssGiven, CssInv, NextRule \/ EndRules \/ NextElement \/ EndStyles \/ Computed
  PROVE  CssInv'
<1>1. /\ rules' = rules /\ specified' = specified /\ style' = style
      /\ item \in Nat \ {0} /\ nth \in Nat \ {0} /\ item' \in Nat \ {0} /\ nth' \in Nat \ {0}
      /\ step \in {"match", "inline", "compute"} /\ step' \in {"match", "inline", "compute", "done"}
      /\ AreRules(rules)
  BY DEF NextRule, EndRules, NextElement, EndStyles, Computed, CssInv
<1>2. ASSUME NEW n \in Nodes, NEW p \in Properties
      PROVE  Best(ReachedSet(n, p), specified[n].of[p], p)'
  <2>1. \A q : /\ DeclAt(q)' = DeclAt(q)
               /\ q[2] \in DOMAIN rules => MatchedNodes(q[2])' = MatchedNodes(q[2])
    BY <1>1 DEF DeclAt, MatchedNodes
  <2>2. ASSUME NEW q \in Spots
        PROVE  Reached(q, n, p)' <=> Reached(q, n, p)
    <3>1. /\ q[2] \in Nat /\ q[3] \in Nat /\ q[1] \in {0, 1}
          /\ q[2] \in DOMAIN rules => q[2] <= Len(rules) /\ Len(rules) \in Nat
          /\ q[2] \in DOMAIN rules /\ q[3] \in DOMAIN rules[q[2]].declarations
               => 1 <= q[3] /\ q[3] <= Len(rules[q[2]].declarations) /\ Len(rules[q[2]].declarations) \in Nat
      BY <1>1 DEF Spots, AreRules, IsList
    <3>2. /\ q[2] \in DOMAIN Elements => 1 <= q[2] /\ q[2] <= Len(Elements) /\ Len(Elements) \in Nat
          /\ q[3] \in DOMAIN StyleDecls(n)
               => 1 <= q[3] /\ q[3] <= Len(StyleDecls(n)) /\ Len(StyleDecls(n)) \in Nat
      BY <3>1 DEF CssGiven, IsList
    <3>3. CASE NextRule
      BY <1>1, <2>1, <3>1, <3>3 DEF NextRule, Reached, Passed
    <3>4. CASE EndRules
      BY <1>1, <2>1, <3>1, <3>2, <3>4 DEF EndRules, Reached, Passed
    <3>5. CASE NextElement
      BY <1>1, <2>1, <3>2, <3>1, <3>5 DEF NextElement, Reached, Passed
    <3>6. CASE EndStyles
      BY <1>1, <2>1, <3>2, <3>1, <3>6 DEF EndStyles, Reached, Passed
    <3>7. CASE Computed
      BY <1>1, <2>1, <3>7 DEF Computed, Reached
    <3> QED
      BY <3>3, <3>4, <3>5, <3>6, <3>7
  <2>3. ReachedSet(n, p)' = ReachedSet(n, p)
    BY <2>2 DEF ReachedSet
  <2> QED
    BY <1>1, <2>3, NothingReached
<1>3. Styled' = Styled
  <2>1. CASE EndStyles
    <3>1. {k \in DOMAIN Elements : k < item'} = {}
      BY <2>1 DEF EndStyles, CssGiven, IsList
    <3> QED
      BY <2>1, <3>1 DEF EndStyles, Styled
  <2>2. CASE Computed
    BY <2>2 DEF Computed, Styled
  <2>3. CASE NextRule \/ EndRules \/ NextElement
    BY <2>3 DEF NextRule, EndRules, NextElement, Styled
  <2> QED
    BY <2>1, <2>2, <2>3
<1>4. (DOMAIN style = Styled)' /\ InheritedAgree'
  BY <1>1, <1>3 DEF CssInv, InheritedAgree, StyleOf
<1> QED
  BY <1>1, <1>2, <1>4 DEF CssInv

LEMMA InheritedAreLonghands == Inherited \subseteq Longhands
<1>1. {"fontFamily", "fontStyle", "lineHeight", "letterSpacing", "textTransform", "textAlign", "hyphens",
       "webkitHyphens"} \subseteq DOMAIN DefaultWord
  BY DEF DefaultWord
<1>2. "color" \in DOMAIN DefaultColor /\ "fontSize" \in DOMAIN DefaultPx
  BY DEF DefaultColor, DefaultPx
<1>3. \A n : n \in DOMAIN DefaultWord \cup DOMAIN DefaultColor \cup DOMAIN DefaultPx \cup {"fontWeight"}
             => Unsided(n) \in Longhands
  BY DEF Longhands
<1> QED
  BY <1>1, <1>2, <1>3, Zenon DEF Inherited

LEMMA ComputeStep ==
  ASSUME CssGiven, CssInv, ComputeNode
  PROVE  CssInv'
<1> DEFINE here == Elements[item]
<1>1. /\ step = "compute" /\ step' = "compute" /\ item \in DOMAIN Elements /\ item' = item + 1
      /\ item \in Nat \ {0} /\ nth \in Nat \ {0} /\ nth' = nth
      /\ rules' = rules /\ specified' = specified
  BY DEF ComputeNode, CssInv, CssGiven, IsList
<1>2. ASSUME NEW n \in Nodes, NEW p \in Properties
      PROVE  Best(ReachedSet(n, p), specified[n].of[p], p)'
  <2>1. \A q : /\ DeclAt(q)' = DeclAt(q)
               /\ q[2] \in DOMAIN rules => MatchedNodes(q[2])' = MatchedNodes(q[2])
    BY <1>1 DEF DeclAt, MatchedNodes
  <2>2. ReachedSet(n, p)' = ReachedSet(n, p)
    BY <1>1, <2>1 DEF ReachedSet, Reached
  <2> QED
    BY <1>1, <2>2, NothingReached
<1>3. DOMAIN style = {Elements[l] : l \in {k \in DOMAIN Elements : k < item}}
  BY <1>1 DEF CssInv, Styled
<1>4. PICK known :
        style' = [m \in DOMAIN style \cup {here} |->
                    IF m = here THEN StyleFor(here, known, StyleOf(ParentOf[here])) ELSE style[m]]
  BY DEF ComputeNode
<1>5. (DOMAIN style = Styled)'
  BY <1>1, <1>3, <1>4 DEF Styled, CssGiven, IsList
<1>6. ASSUME NEW k \in DOMAIN Elements, k <= item
      PROVE  StyleOf(ParentOf[Elements[k]])' = StyleOf(ParentOf[Elements[k]])
  <2> DEFINE parent == ParentOf[Elements[k]]
  <2>1. parent # here
    BY <1>1, <1>6 DEF CssGiven, IsList, Nodes, ToSet
  <2> QED
    BY <1>4, <2>1 DEF StyleOf
<1>7. InheritedAgree'
  <2> SUFFICES ASSUME NEW n \in Nodes, NEW p \in Inherited, n \in DOMAIN style', specified'[n].of[p] = NoDecl
               PROVE  style'[n][p] = (StyleOf(ParentOf[n])')[p]
    BY DEF InheritedAgree
  <2>1. CASE n = here
    <3>1. style'[n][p] = Base(StyleOf(ParentOf[n]))[p]
      BY <1>1, <1>4, <2>1, InheritedAreLonghands DEF StyleFor
    <3>2. style'[n][p] = StyleOf(ParentOf[n])[p]
      BY <3>1, InheritedAreLonghands DEF Base
    <3> QED
      BY <1>1, <1>6, <2>1, <3>2
  <2>2. CASE n # here
    <3>1. n \in DOMAIN style /\ style'[n] = style[n]
      BY <1>4, <2>2
    <3>2. style[n][p] = StyleOf(ParentOf[n])[p]
      BY <1>1, <3>1 DEF CssInv, InheritedAgree
    <3> QED
      BY <1>1, <1>3, <1>6, <3>1, <3>2 DEF CssGiven, IsList
  <2> QED
    BY <2>1, <2>2
<1> QED
  BY <1>1, <1>2, <1>5, <1>7 DEF CssInv

LEMMA CssStarts ==
  ASSUME CssGiven, CssInit
  PROVE  CssInv
<1>1. AreRules(<<>>)
  BY DEF AreRules, IsList
<1>2. \A n \in Nodes : \A p \in Properties : ReachedSet(n, p) = {} /\ specified[n].of[p] = NoDecl
  BY DEF CssInit, ReachedSet, Reached
<1> QED
  BY <1>1, <1>2 DEF CssInit, CssInv, Best, Styled, InheritedAgree

LEMMA CssStep ==
  ASSUME CssGiven, CssInv, [CssNext]_cssVars
  PROVE  CssInv'
<1>1. CASE UNCHANGED cssVars
  <2>1. ASSUME NEW n \in Nodes, NEW p \in Properties
        PROVE  Best(ReachedSet(n, p), specified[n].of[p], p)'
    <3>1. ReachedSet(n, p)' = ReachedSet(n, p)
      BY <1>1 DEF cssVars, ReachedSet, Reached, Passed, DeclAt, MatchedNodes
    <3> QED
      BY <1>1, <3>1, NothingReached DEF cssVars
  <2>2. Styled' = Styled /\ InheritedAgree'
    BY <1>1 DEF cssVars, CssInv, Styled, InheritedAgree, StyleOf
  <2> QED
    BY <1>1, <2>1, <2>2 DEF cssVars, CssInv
<1> QED
  BY <1>1, ParseStep, RuleStep, StyleStep, MovingStep, ComputeStep DEF CssNext

(***************************************************************************)
(* For any document, sheets and style attributes, the declaration kept for *)
(* a property is the one the cascade ranks first.                          *)
(***************************************************************************)
THEOREM CascadeWinners ==
  ASSUME CssGiven
  PROVE  CssSpec => []WinnerStands
<1>1. CssInit => CssInv
  BY CssStarts
<1>2. CssInv /\ [CssNext]_cssVars => CssInv'
  BY CssStep
<1>3. CssInv => WinnerStands
  BY WinnersAreBest DEF CssInv
<1> QED
  BY <1>1, <1>2, <1>3, PTL DEF CssSpec

(***************************************************************************)
(* What an element leaves undeclared it has from its parent, for good.     *)
(***************************************************************************)
THEOREM InheritanceHolds ==
  ASSUME CssGiven
  PROVE  CssSpec => []InheritedAgree
<1>1. CssInit => CssInv
  BY CssStarts
<1>2. CssInv /\ [CssNext]_cssVars => CssInv'
  BY CssStep
<1>3. CssInv => InheritedAgree
  BY DEF CssInv
<1> QED
  BY <1>1, <1>2, <1>3, PTL DEF CssSpec

-----------------------------------------------------------------------------
(* A run of the detector                                                    *)

VisitPcs == {"scan", "collect", "analyse", "again", "pixels", "close"}
ScanPcs == {"text", "html"}
InDirectory == pc \in {"graph", "ask", "files"} \/ (pc \in ScanPcs /\ scan.then = "files")

\* the records keep their fields; what is scanned is a text at a known place
DetectTyped ==
  /\ {"url", "shown", "results", "next", "away", "low", "left", "page", "own", "ok"} \subseteq DOMAIN visit
  /\ {"place", "text", "kept", "next", "then"} \subseteq DOMAIN scan
  /\ opts \in Options /\ disk \in [Tree -> Contents \cup {Gone}]
  /\ files \subseteq Tree
  /\ pc \in ScanPcs =>
       /\ scan.place \in Tree \cup {Stdin} /\ scan.text \in Contents
       /\ scan.then \in {"files", "report"}

\* whose low contrast is known, and whose the pixels are still to decide
LowInv ==
  /\ LowContrastOnce
  /\ pc \in {"scan", "page", "open"} => visit.low = {}
  /\ pc \in {"collect", "analyse", "again"} => \A l \in visit.low : l.by = "scan"
  /\ pc = "pixels" => \A k \in visit.left : /\ k \in DOMAIN visit.results
                                            /\ \A l \in visit.low : l.selector = visit.results[k].selector
                                                                      => l.by = "pixels"

\* every match that was looked at is kept, or one like it is
DedupeInv ==
  pc \in ScanPcs =>
    /\ scan.next \in Nat \ {0}
    /\ scan.kept \in Seq(ToSet(Raw))
    /\ \A k \in 1 .. Len(Raw) : k < scan.next =>
         \E j \in DOMAIN scan.kept : scan.kept[j] = Raw[k] \/ IsDupe(scan.kept[j], Raw[k])

\* before the configuration is applied
Collects(t) ==
  \/ \E s \in found : SameFinding(s, t)
  \/ ~IsProvided(t.finding)
  \/ t.text # Gone /\ IsWaived(t.finding, t.text)
  \/ t.scan \in lost
Clear(t) == IsProvided(t.finding) /\ (t.text # Gone => ~IsWaived(t.finding, t.text))
FoundInv ==
  /\ \A r \in observed : \E t \in observed : Twin(r, t) /\ Collects(t)
  /\ \A s \in found : \E t \in observed : SameFinding(s, t) /\ Clear(t)

\* what is due is scanned, or among the files of the target at hand
DueInv ==
  IF InDirectory THEN due \subseteq scanned \cup {<<Len(todo), p>> : p \in files}
  ELSE (pc = "done" /\ (code = 1 \/ quit)) \/ due \subseteq scanned

\* where a page and a browser may be open
OpenInv ==
  /\ visit.page => pc \in VisitPcs
  /\ visit.own => pc \in VisitPcs \cup {"page"}
  /\ browser = "open" => pc # "report" /\ (pc = "done" => quit)
  /\ pc \in {"args", "browser", "stdin"} => browser # "open"
  /\ pc \in ScanPcs /\ scan.then = "report" => browser # "open"

DetectInv ==
  /\ DetectTyped /\ LowInv /\ DedupeInv /\ FoundInv /\ DueInv /\ OpenInv
  /\ NothingSilenced

-----------------------------------------------------------------------------
\* A list is a list of what is in it.
LEMMA OwnList ==
  ASSUME NEW S, NEW s \in Seq(S)
  PROVE  /\ s \in Seq(ToSet(s))
         /\ Len(s) \in Nat /\ DOMAIN s = 1 .. Len(s)
         /\ ToSet(s) = {s[k] : k \in 1 .. Len(s)}
<1>1. Len(s) \in Nat /\ DOMAIN s = 1 .. Len(s) /\ s = [k \in 1 .. Len(s) |-> s[k]]
  OBVIOUS
<1>2. ToSet(s) = {s[k] : k \in 1 .. Len(s)}
  BY <1>1 DEF ToSet
<1>3. s \in [1 .. Len(s) -> ToSet(s)]
  BY <1>1, <1>2
<1>4. s \in Seq(ToSet(s))
  BY <1>1, <1>3
<1> QED
  BY <1>1, <1>2, <1>4

\* What a text's rules match is a list, with or without those of the design system.
LEMMA RawIsList ==
  ASSUME DetectGiven, NEW p \in Tree \cup {Stdin}, NEW c \in Contents
  PROVE  \E S : TextRaw(p, c) \in Seq(S)
<1> DEFINE S == ToSet(Matched[p][c]) \cup ToSet(Designed[p][c])
<1>1. Matched[p][c] \in Seq(ToSet(Matched[p][c])) /\ Designed[p][c] \in Seq(ToSet(Designed[p][c]))
  BY DEF DetectGiven, GivenList
<1> HIDE DEF S
<1>2. Matched[p][c] \in Seq(S) /\ Designed[p][c] \in Seq(S) /\ <<>> \in Seq(S)
  BY <1>1 DEF S
<1>3. TextRaw(p, c) \in Seq(S)
  BY <1>2 DEF TextRaw, DesignList
<1> QED
  BY <1>3

\* The steps that leave the browser's visits alone, and where they lead.
OnFiles ==
  \/ ParseArgs \/ LaunchShared \/ ReadStdin \/ NextMissing \/ NextFile \/ NextDir
  \/ Walk \/ Ask \/ BuildGraph \/ GraphThrows \/ ReadFile \/ ReadThrows \/ NoMoreFiles
  \/ DedupeMatch \/ FinishText \/ FinishHtml \/ ParsersMissing \/ CloseShared \/ Report
FilePcs ==
  {"args", "browser", "stdin", "next", "walk", "ask", "graph", "files", "text", "html", "report", "done"}

LEMMA FilesOnly ==
  ASSUME DetectTyped, OnFiles
  PROVE  visit' = visit /\ pc' \in FilePcs /\ pc \in FilePcs /\ opts' = opts
<1> USE DEF input, args, Work, ghosts, Exit, Drop, Throw, FilePcs
<1>1. CASE ParseArgs
  BY <1>1 DEF ParseArgs
<1>2. CASE LaunchShared \/ CloseShared \/ Report \/ NoMoreFiles \/ Ask \/ Walk \/ BuildGraph
  BY <1>2 DEF LaunchShared, CloseShared, Report, NoMoreFiles, Ask, Walk, BuildGraph
<1>3. CASE ReadStdin \/ ReadFile
  BY <1>3 DEF ReadStdin, ReadFile, EngineFor
<1>4. CASE NextMissing \/ NextFile \/ NextDir \/ GraphThrows \/ ReadThrows \/ DedupeMatch \/ ParsersMissing
  BY <1>4 DEF NextMissing, NextFile, NextDir, GraphThrows, ReadThrows, DedupeMatch,
     ParsersMissing
<1>5. CASE FinishText \/ FinishHtml
  <2>1. scan.then \in {"files", "report"}
    BY <1>5 DEF FinishText, FinishHtml, DetectTyped, ScanPcs
  <2> QED
    BY <1>5, <2>1 DEF FinishText, FinishHtml, Finish
<1> QED
  BY <1>1, <1>2, <1>3, <1>4, <1>5 DEF OnFiles

\* The steps of a visit leave files and their scans alone.
OnPage ==
  \/ NextUrl \/ OpenBrowser \/ OpenPage \/ ScanPage \/ PageFails \/ Collect \/ AnalyseCandidate
  \/ AnalysisEnds \/ CollectAgain \/ ComparePixels \/ PixelsCompared \/ CloseVisit

LEMMA PageOnly ==
  ASSUME OnPage
  PROVE  /\ UNCHANGED <<input, files, scan, browser, report, code, due, scanned, quit>>
         /\ pc \notin ScanPcs \cup {"args", "browser", "stdin", "graph", "ask", "files", "report", "done"}
         /\ pc' \notin ScanPcs \cup {"args", "browser", "stdin", "graph", "ask", "files", "report", "done"}
<1> USE DEF Work, ghosts, Fixed, FailVisit, Drop, ScanPcs
<1>1. CASE NextUrl \/ OpenBrowser \/ OpenPage \/ ScanPage \/ PageFails
  BY <1>1 DEF NextUrl, OpenBrowser, OpenPage, ScanPage, PageFails
<1>2. CASE Collect \/ AnalyseCandidate \/ AnalysisEnds \/ CollectAgain
  BY <1>2 DEF Collect, AnalyseCandidate, AnalysisEnds, CollectAgain
<1>3. CASE ComparePixels \/ PixelsCompared \/ CloseVisit
  BY <1>3 DEF ComparePixels, PixelsCompared, CloseVisit
<1> QED
  BY <1>1, <1>2, <1>3 DEF OnPage

LEMMA EditOnly ==
  ASSUME EditFile
  PROVE  /\ UNCHANGED <<opts, detection, pc, Work, report, code, ghosts>> /\ pc # "done"
         /\ disk \in [Tree -> Contents \cup {Gone}] => disk' \in [Tree -> Contents \cup {Gone}]
BY DEF EditFile, args

LEMMA NextCases ==
  ASSUME DetectNext
  PROVE  EditFile \/ OnFiles \/ OnPage
BY DEF DetectNext, OnFiles, OnPage

LEMMA KeepsTyped ==
  ASSUME DetectGiven, DetectTyped, DetectNext
  PROVE  DetectTyped'
<1> USE DEF input, args, Work, ghosts, Exit, Drop, Throw
<1>1. CASE EditFile
  BY <1>1, EditOnly DEF DetectTyped, Work
<1>2. CASE OnPage
  <2>1. {"url", "shown", "results", "next", "away", "low", "left", "page", "own", "ok"} \subseteq DOMAIN visit'
    <3>1. CASE NextUrl
      BY <3>1 DEF NextUrl, NoVisit
    <3>2. CASE OpenBrowser \/ OpenPage \/ ScanPage \/ PageFails \/ Collect \/ AnalyseCandidate
      BY <3>2 DEF OpenBrowser, OpenPage, ScanPage, PageFails, Collect, AnalyseCandidate,
         FailVisit, DetectTyped
    <3>3. CASE AnalysisEnds \/ CollectAgain \/ ComparePixels \/ PixelsCompared \/ CloseVisit
      BY <3>3 DEF AnalysisEnds, CollectAgain, ComparePixels, PixelsCompared, CloseVisit,
         DetectTyped
    <3> QED
      BY <1>2, <3>1, <3>2, <3>3 DEF OnPage
  <2> QED
    BY <1>2, <2>1, PageOnly DEF DetectTyped
<1>3. CASE OnFiles
  <2>1. visit' = visit /\ opts' = opts /\ disk' = disk
    <3>1. disk' = disk
      BY <1>3 DEF OnFiles, ParseArgs, LaunchShared, ReadStdin, NextMissing, NextFile,
         NextDir,
           Walk, Ask, BuildGraph, GraphThrows, ReadFile, ReadThrows, NoMoreFiles,
           DedupeMatch, FinishText, FinishHtml, ParsersMissing, CloseShared, Report, Finish
    <3> QED
      BY <1>3, <3>1, FilesOnly
  <2>2. files' \subseteq Tree
    <3>1. CASE NextFile \/ Walk \/ ReadFile
      BY <3>1 DEF NextFile, Walk, ReadFile, WalkDir, DetectTyped
    <3>2. CASE ~(NextFile \/ Walk \/ ReadFile)
      <4>1. files' = files
        BY <1>3, <3>2 DEF OnFiles, ParseArgs, LaunchShared, ReadStdin, NextMissing, NextDir,
             Ask, BuildGraph, GraphThrows, ReadThrows, NoMoreFiles,
             DedupeMatch, FinishText, FinishHtml, ParsersMissing, CloseShared, Report, Finish
      <4> QED
        BY <4>1 DEF DetectTyped
    <3> QED
      BY <3>1, <3>2
  <2>3. /\ {"place", "text", "kept", "next", "then"} \subseteq DOMAIN scan'
        /\ pc' \in ScanPcs => /\ scan'.place \in Tree \cup {Stdin} /\ scan'.text \in Contents
                              /\ scan'.then \in {"files", "report"}
    <3>1. CASE ReadStdin
      <4>1. opts.input.text \in Contents
        BY DEF DetectTyped, DetectGiven
      <4> QED
        BY <3>1, <4>1 DEF ReadStdin, StdinScan, DetectTyped
    <3>2. CASE ReadFile
      BY <3>2 DEF ReadFile, DetectTyped
    <3>3. CASE DedupeMatch
      BY <3>3 DEF DedupeMatch, DetectTyped, ScanPcs
    <3>4. CASE ParsersMissing
      BY <3>4 DEF ParsersMissing, DetectTyped, ScanPcs
    <3>5. CASE FinishText \/ FinishHtml
      BY <3>5 DEF FinishText, FinishHtml, Finish, DetectTyped, ScanPcs
    <3>6. CASE ~(ReadStdin \/ ReadFile \/ DedupeMatch \/ ParsersMissing \/ FinishText \/ FinishHtml)
      <4>1. scan' = scan /\ pc' \notin ScanPcs
        BY <1>3, <3>6 DEF OnFiles, ParseArgs, LaunchShared, NextMissing, NextFile,
           NextDir, Walk, Ask, BuildGraph,
             GraphThrows, ReadThrows, NoMoreFiles, CloseShared, Report, ScanPcs
      <4> QED
        BY <4>1 DEF DetectTyped
    <3> QED
      BY <3>1, <3>2, <3>3, <3>4, <3>5, <3>6
  <2> QED
    BY <2>1, <2>2, <2>3 DEF DetectTyped
<1> QED
  BY <1>1, <1>2, <1>3, NextCases

LEMMA KeepsLow ==
  ASSUME DetectTyped, LowInv, DetectNext
  PROVE  LowInv'
<1>1. CASE EditFile \/ OnFiles
  <2>1. visit' = visit /\ (pc' = pc \/ pc' \in FilePcs)
    BY <1>1, EditOnly, FilesOnly DEF Work
  <2> QED
    BY <2>1 DEF LowInv, LowContrastOnce, FilePcs
<1>2. CASE NextUrl
  BY <1>2 DEF NextUrl, NoVisit, LowInv, LowContrastOnce
<1>3. CASE OpenBrowser \/ OpenPage \/ PageFails
  BY <1>3 DEF OpenBrowser, OpenPage, PageFails, FailVisit, Drop, DetectTyped, LowInv,
     LowContrastOnce
<1>4. CASE ScanPage
  BY <1>4 DEF ScanPage, DetectTyped, LowInv, LowContrastOnce
<1>5. CASE Collect \/ AnalyseCandidate \/ PixelsCompared \/ CloseVisit
  BY <1>5 DEF Collect, AnalyseCandidate, PixelsCompared, CloseVisit, Drop, DetectTyped,
     LowInv, LowContrastOnce
<1>6. CASE AnalysisEnds
  <2>1. visit'.low = visit.low \cup {[selector |-> x, by |-> "page"] : x \in WithStatus({"fail"}) \ LowBefore}
    BY <1>6 DEF AnalysisEnds, DetectTyped
  <2>2. /\ visit'.left = {k \in DOMAIN visit.results :
                            visit.results[k].selector \notin LowBefore \cup WithStatus({"fail", "pass"})}
        /\ visit'.results = visit.results
    BY <1>6 DEF AnalysisEnds, DetectTyped
  <2>3. \A l \in visit.low : l.by = "scan" /\ l.selector \in LowBefore
    BY <1>6 DEF AnalysisEnds, LowInv, LowBefore
  <2>4. \A l \in visit'.low : \/ l \in visit.low /\ l.by = "scan" /\ l.selector \in LowBefore
                              \/ l.by = "page" /\ l.selector \in WithStatus({"fail"}) /\ l.selector \notin LowBefore
    BY <2>1, <2>3
  <2>5. LowContrastOnce'
    BY <2>4 DEF LowContrastOnce
  <2>6. WithStatus({"fail"}) \subseteq WithStatus({"fail", "pass"})
    BY DEF WithStatus
  <2>7. \A k \in visit'.left : /\ k \in DOMAIN visit'.results
                               /\ \A l \in visit'.low : l.selector # visit'.results[k].selector
    BY <2>2, <2>4, <2>6
  <2>8. CASE pc' = "pixels"
    BY <2>5, <2>7, <2>8 DEF LowInv
  <2>9. CASE pc' = "again"
    <3>1. WithStatus({"fail"}) = {}
      BY <1>6, <2>9 DEF AnalysisEnds, WithStatus
    <3> QED
      BY <2>4, <2>5, <2>9, <3>1 DEF LowInv
  <2> QED
    BY <1>6, <2>8, <2>9 DEF AnalysisEnds
<1>7. CASE CollectAgain
  <2>1. PICK cs \in Candidates[visit.url] :
          visit' = [visit EXCEPT !.results = Unanalysed(cs), !.left = {k \in DOMAIN cs : cs[k] \notin LowBefore}]
    BY <1>7 DEF CollectAgain
  <2>2. /\ visit'.low = visit.low /\ visit'.results = Unanalysed(cs)
        /\ visit'.left = {k \in DOMAIN cs : cs[k] \notin LowBefore}
    BY <2>1 DEF DetectTyped
  <2>3. \A l \in visit.low : l.selector \in LowBefore
    BY <1>7 DEF CollectAgain, LowInv, LowBefore
  <2>4. \A k \in visit'.left : k \in DOMAIN visit'.results /\ visit'.results[k].selector \notin LowBefore
    BY <2>2 DEF Unanalysed
  <2> QED
    BY <1>7, <2>2, <2>3, <2>4 DEF CollectAgain, LowInv, LowContrastOnce
<1>8. CASE ComparePixels
  <2>1. PICK k \in visit.left, low \in BOOLEAN :
          visit' = [visit EXCEPT !.left = @ \ {k},
                     !.low = IF low THEN @ \cup {[selector |-> visit.results[k].selector, by |-> "pixels"]} ELSE @]
    BY <1>8 DEF ComparePixels
  <2>2. /\ visit'.left = visit.left \ {k} /\ visit'.results = visit.results
        /\ visit'.low \subseteq visit.low \cup {[selector |-> visit.results[k].selector, by |-> "pixels"]}
    BY <2>1 DEF DetectTyped
  <2>3. pc = "pixels" /\ pc' = "pixels"
    BY <1>8 DEF ComparePixels
  <2>4. \A l \in visit.low : l.selector = visit.results[k].selector => l.by = "pixels"
    BY <2>3 DEF LowInv
  <2> QED
    BY <2>2, <2>3, <2>4 DEF LowInv, LowContrastOnce
<1> QED
  BY <1>1, <1>2, <1>3, <1>4, <1>5, <1>6, <1>7, <1>8, NextCases DEF OnPage

\* A list that is left alone or gets one element more.
LEMMA ListGrows ==
  ASSUME NEW S, NEW s \in Seq(S), NEW x \in S, NEW t, t = s \/ t = Append(s, x)
  PROVE  /\ t \in Seq(S)
         /\ \A j \in DOMAIN s : j \in DOMAIN t /\ t[j] = s[j]
         /\ t = Append(s, x) => \E j \in DOMAIN t : t[j] = x
<1>1. CASE t = s
  <2>1. t = Append(s, x) => FALSE
    BY <1>1
  <2> QED
    BY <1>1, <2>1
<1>2. CASE t = Append(s, x)
  BY <1>2
<1> QED
  BY <1>1, <1>2

LEMMA KeepsDedupe ==
  ASSUME DetectGiven, DetectTyped, DedupeInv, DetectNext
  PROVE  DedupeInv'
<1> USE DEF input, args, Work, ghosts
<1>1. CASE EditFile \/ ParsersMissing
  <2>1. UNCHANGED <<opts, detection, scan>> /\ (pc' \in ScanPcs => pc \in ScanPcs)
    BY <1>1 DEF EditFile, ParsersMissing, ScanPcs
  <2>2. Raw' = Raw
    BY <2>1 DEF Raw, TextRaw, DesignList, DesignOn
  <2> QED
    BY <2>1, <2>2 DEF DedupeInv, IsDupe
<1>2. CASE OnPage
  BY <1>2, PageOnly DEF DedupeInv
<1>3. CASE ReadStdin \/ ReadFile
  <2>1. scan'.next = 1 /\ scan'.kept = <<>>
    BY <1>3 DEF ReadStdin, ReadFile, StdinScan
  <2> QED
    BY <2>1 DEF DedupeInv
<1>4. CASE DedupeMatch
  <2>1. pc \in ScanPcs /\ scan.next <= Len(Raw) /\ UNCHANGED <<opts, detection>>
    BY <1>4 DEF DedupeMatch, ScanPcs
  <2>2. scan'.place = scan.place /\ scan'.text = scan.text /\ scan'.next = scan.next + 1
    BY <1>4 DEF DedupeMatch, DetectTyped
  <2>3. Raw' = Raw
    BY <2>1, <2>2 DEF Raw, TextRaw, DesignList, DesignOn
  <2>4. Len(Raw) \in Nat /\ ToSet(Raw) = {Raw[k] : k \in 1 .. Len(Raw)}
    <3>1. PICK S : Raw \in Seq(S)
      BY <2>1, RawIsList DEF Raw, DetectTyped
    <3> QED
      BY <3>1, OwnList
  <2>5. scan.next \in 1 .. Len(Raw) /\ Raw[scan.next] \in ToSet(Raw)
    BY <2>1, <2>4 DEF DedupeInv
  <2>6. \/ scan'.kept = scan.kept /\ \E j \in DOMAIN scan.kept : IsDupe(scan.kept[j], Raw[scan.next])
        \/ scan'.kept = Append(scan.kept, Raw[scan.next])
    BY <1>4 DEF DedupeMatch, DetectTyped
  <2>7. scan.kept \in Seq(ToSet(Raw))
    BY <2>1 DEF DedupeInv
  <2>8. /\ scan'.kept \in Seq(ToSet(Raw))
        /\ \A j \in DOMAIN scan.kept : j \in DOMAIN scan'.kept /\ scan'.kept[j] = scan.kept[j]
        /\ scan'.kept = Append(scan.kept, Raw[scan.next]) => \E j \in DOMAIN scan'.kept : scan'.kept[j] = Raw[scan.next]
    BY <2>5, <2>6, <2>7, ListGrows
  <2>9. \A k \in 1 .. Len(Raw) : k < scan.next + 1 =>
          \E j \in DOMAIN scan'.kept : scan'.kept[j] = Raw[k] \/ IsDupe(scan'.kept[j], Raw[k])
    <3> SUFFICES ASSUME NEW k \in 1 .. Len(Raw), k < scan.next + 1
                 PROVE  \E j \in DOMAIN scan'.kept : scan'.kept[j] = Raw[k] \/ IsDupe(scan'.kept[j], Raw[k])
      OBVIOUS
    <3>1. CASE k = scan.next
      BY <2>6, <2>8, <3>1
    <3>2. CASE k < scan.next
      <4>1. PICK j \in DOMAIN scan.kept : scan.kept[j] = Raw[k] \/ IsDupe(scan.kept[j], Raw[k])
        BY <2>1, <3>2 DEF DedupeInv
      <4>2. j \in DOMAIN scan'.kept /\ scan'.kept[j] = scan.kept[j]
        BY <2>8, <4>1
      <4> QED
        BY <4>1, <4>2
    <3> QED
      BY <2>4, <2>5, <3>1, <3>2
  <2>10. scan'.next \in Nat \ {0}
    BY <2>2, <2>5
  <2> QED
    BY <2>2, <2>3, <2>8, <2>9, <2>10 DEF DedupeInv, IsDupe
<1>5. CASE OnFiles /\ ~(ReadStdin \/ ReadFile \/ DedupeMatch \/ ParsersMissing)
  <2>1. CASE FinishText \/ FinishHtml
    BY <2>1 DEF FinishText, FinishHtml, Finish, DetectTyped, ScanPcs, DedupeInv
  <2>2. CASE ~(FinishText \/ FinishHtml)
    BY <1>5, <2>2 DEF OnFiles, ParseArgs, LaunchShared, NextMissing, NextFile, NextDir,
       Walk, Ask, BuildGraph,
         GraphThrows, ReadThrows, NoMoreFiles, CloseShared, Report, ScanPcs, DedupeInv, Exit, Throw, Drop
  <2> QED
    BY <2>1, <2>2
<1> QED
  BY <1>1, <1>2, <1>3, <1>4, <1>5, NextCases

\* What stands on findings collected so far stands after more are collected.
LEMMA FoundGrows ==
  ASSUME FoundInv, UNCHANGED opts,
         found \subseteq found', observed \subseteq observed', lost \subseteq lost',
         \A r \in observed' \ observed : \E t \in observed' : Twin(r, t) /\ Collects(t)',
         \A s \in found' \ found : \E t \in observed' : SameFinding(s, t) /\ Clear(t)'
  PROVE  FoundInv'
<1>1. ASSUME NEW r \in observed' PROVE \E t \in observed' : Twin(r, t) /\ Collects(t)'
  <2>1. CASE r \in observed
    <3>1. PICK t \in observed : Twin(r, t) /\ Collects(t)
      BY <2>1 DEF FoundInv
    <3>2. t \in observed' /\ Collects(t)'
      BY <3>1 DEF Collects, IsProvided, IsWaived, IsInlineIgnored, SameFinding
    <3> QED
      BY <3>1, <3>2
  <2> QED
    BY <2>1, <1>1
<1>2. ASSUME NEW s \in found' PROVE \E t \in observed' : SameFinding(s, t) /\ Clear(t)'
  <2>1. CASE s \in found
    <3>1. PICK t \in observed : SameFinding(s, t) /\ Clear(t)
      BY <2>1 DEF FoundInv
    <3>2. t \in observed' /\ Clear(t)'
      BY <3>1 DEF Clear, IsProvided, IsWaived, IsInlineIgnored
    <3> QED
      BY <3>1, <3>2
  <2> QED
    BY <2>1, <1>2
<1> QED
  BY <1>1, <1>2 DEF FoundInv, Twin, SameFinding

\* A scan that ends: what is kept stands for all that was found.
LEMMA FinishCollects ==
  ASSUME FoundInv, NEW kept, NEW all, Finish(kept, all), scan.text # Gone, kept \subseteq all,
         \A f \in all : \E g \in kept : g = f \/ IsDupe(g, f)
  PROVE  FoundInv'
<1> USE DEF Finish
<1> DEFINE seen(f) == AsObserved(scan.place, scan.text, f)
           row(f)  == [scan |-> scanNo, place |-> scan.place, finding |-> f, by |-> Importers(scan.place)]
<1>1. /\ UNCHANGED <<opts, lost>>
      /\ found' = found \cup {row(f) : f \in {g \in kept : Passes(g, scan.text)}}
      /\ observed' = observed \cup {seen(f) : f \in all}
  BY DEF input, args, CollectAs
<1>2. ASSUME NEW r \in observed' \ observed PROVE \E t \in observed' : Twin(r, t) /\ Collects(t)'
  <2>1. PICK f \in all : r = seen(f)
    BY <1>1, <1>2
  <2>2. PICK g \in kept : g = f \/ IsDupe(g, f)
    OBVIOUS
  <2> PICK t : t = seen(g)
    OBVIOUS
  <2>3. t \in observed' /\ Twin(r, t)
    BY <1>1, <2>1, <2>2 DEF Twin, AsObserved
  <2>4. Collects(t)'
    <3>1. CASE Passes(g, scan.text)
      <4>1. row(g) \in found' /\ SameFinding(row(g), t)
        BY <1>1, <3>1 DEF SameFinding, AsObserved
      <4> QED
        BY <4>1 DEF Collects, SameFinding
    <3>2. CASE ~Passes(g, scan.text)
      <4>1. t.finding = g /\ t.text = scan.text /\ scan.text # Gone
        BY DEF AsObserved
      <4> QED
        BY <1>1, <3>2, <4>1 DEF Passes, Collects, IsProvided, IsWaived, IsInlineIgnored
    <3> QED
      BY <3>1, <3>2
  <2> QED
    BY <2>3, <2>4
<1>3. ASSUME NEW s \in found' \ found PROVE \E t \in observed' : SameFinding(s, t) /\ Clear(t)'
  <2>1. PICK f \in kept : Passes(f, scan.text) /\ s = row(f)
    BY <1>1, <1>3
  <2> PICK t : t = seen(f)
    OBVIOUS
  <2>2. t \in observed' /\ SameFinding(s, t) /\ t.finding = f /\ t.text = scan.text
    BY <1>1, <2>1 DEF SameFinding, AsObserved
  <2>3. Clear(t)'
    BY <1>1, <2>1, <2>2 DEF Passes, Clear, IsProvided, IsWaived, IsInlineIgnored
  <2> QED
    BY <2>2, <2>3
<1> QED
  BY <1>1, <1>2, <1>3, FoundGrows

LEMMA KeepsFound ==
  ASSUME DetectGiven, DetectTyped, DedupeInv, FoundInv, DetectNext
  PROVE  FoundInv'
<1> USE DEF input, args, Work, ghosts, Fixed
<1>1. CASE FinishText
  <2> DEFINE ofPage == ToSet(TextPage(scan.place, scan.text))
  <2>1. /\ pc \in ScanPcs /\ scan.next > Len(Raw)
        /\ Finish(ToSet(scan.kept) \cup ofPage, ToSet(Raw) \cup ofPage)
    BY <1>1 DEF FinishText, ScanPcs
  <2>2. scan.text # Gone
    BY <2>1 DEF DetectTyped, DetectGiven
  <2>3. /\ Len(Raw) \in Nat /\ ToSet(Raw) = {Raw[k] : k \in 1 .. Len(Raw)}
        /\ ToSet(scan.kept) = {scan.kept[k] : k \in DOMAIN scan.kept} /\ ToSet(scan.kept) \subseteq ToSet(Raw)
    <3>1. PICK S : Raw \in Seq(S)
      BY <2>1, RawIsList DEF Raw, DetectTyped
    <3>2. scan.kept \in Seq(ToSet(Raw))
      BY <2>1 DEF DedupeInv
    <3>3. ToSet(scan.kept) = {scan.kept[k] : k \in DOMAIN scan.kept}
      BY DEF ToSet
    <3>4. \A k \in DOMAIN scan.kept : scan.kept[k] \in ToSet(Raw)
      BY <3>2
    <3> QED
      BY <3>1, <3>3, <3>4, OwnList
  <2>4. \A f \in ToSet(Raw) : \E g \in ToSet(scan.kept) : g = f \/ IsDupe(g, f)
    <3> SUFFICES ASSUME NEW k \in 1 .. Len(Raw)
                 PROVE  \E g \in ToSet(scan.kept) : g = Raw[k] \/ IsDupe(g, Raw[k])
      BY <2>3
    <3>1. k < scan.next
      BY <2>1, <2>3 DEF DedupeInv
    <3>2. PICK j \in DOMAIN scan.kept : scan.kept[j] = Raw[k] \/ IsDupe(scan.kept[j], Raw[k])
      BY <2>1, <3>1 DEF DedupeInv
    <3> QED
      BY <2>3, <3>2
  <2> DEFINE kept == ToSet(scan.kept) \cup ofPage
             all  == ToSet(Raw) \cup ofPage
  <2>5. kept \subseteq all /\ (\A f \in all : \E g \in kept : g = f \/ IsDupe(g, f)) /\ Finish(kept, all)
    BY <2>1, <2>3, <2>4
  <2> HIDE DEF kept, all
  <2> QED
    BY <2>2, <2>5, FinishCollects
<1>2. CASE FinishHtml
  <2>1. pc \in ScanPcs /\ Finish(HtmlFindings(scan.place, scan.text), HtmlFindings(scan.place, scan.text))
    BY <1>2 DEF FinishHtml, ScanPcs
  <2>2. scan.text # Gone
    BY <2>1 DEF DetectTyped, DetectGiven
  <2> QED
    BY <2>1, <2>2, FinishCollects
<1>3. CASE CloseVisit
  <2> DEFINE seen(f) == AsObserved(visit.url, Gone, f)
             row(f)  == [scan |-> scanNo, place |-> visit.url, finding |-> f, by |-> {}]
  <2>1. PICK closes \in BOOLEAN :
          /\ lost' = IF closes THEN lost ELSE lost \cup {scanNo}
          /\ IF visit.ok
             THEN /\ observed' = observed \cup {seen(f) : f \in VisitFindings}
                  /\ found' = IF closes THEN found \cup {row(f) : f \in {g \in VisitFindings : IsProvided(g)}}
                              ELSE found
             ELSE UNCHANGED <<observed, found>>
          /\ UNCHANGED opts
    BY <1>3 DEF CloseVisit, CollectAs
  <2>2. ASSUME NEW r \in observed' \ observed PROVE \E t \in observed' : Twin(r, t) /\ Collects(t)'
    <3>1. PICK f \in VisitFindings : r = seen(f)
      BY <2>1, <2>2
    <3>2. Twin(r, r)
      BY DEF Twin
    <3>3. Collects(r)'
      <4>1. CASE closes /\ IsProvided(f)
        <5>1. row(f) \in found' /\ SameFinding(row(f), r)
          BY <2>1, <2>2, <3>1, <4>1 DEF SameFinding, AsObserved
        <5> QED
          BY <5>1 DEF Collects, SameFinding
      <4>2. CASE ~closes
        <5>1. r.scan \in lost'
          BY <2>1, <3>1, <4>2 DEF AsObserved
        <5> QED
          BY <5>1 DEF Collects
      <4>3. CASE ~IsProvided(f)
        <5>1. r.finding = f
          BY <3>1 DEF AsObserved
        <5> QED
          BY <2>1, <4>3, <5>1 DEF Collects, IsProvided
      <4> QED
        BY <4>1, <4>2, <4>3
    <3> QED
      BY <2>2, <3>1, <3>2, <3>3
  <2>3. ASSUME NEW s \in found' \ found PROVE \E t \in observed' : SameFinding(s, t) /\ Clear(t)'
    <3>1. PICK f \in VisitFindings : IsProvided(f) /\ s = row(f)
      BY <2>1, <2>3
    <3> PICK t : t = seen(f)
      OBVIOUS
    <3>2. t \in observed' /\ SameFinding(s, t) /\ t.finding = f /\ t.text = Gone
      BY <2>1, <2>3, <3>1 DEF SameFinding, AsObserved
    <3>3. Clear(t)'
      BY <2>1, <3>1, <3>2 DEF Clear, IsProvided
    <3> QED
      BY <3>2, <3>3
  <2>4. found \subseteq found' /\ observed \subseteq observed' /\ lost \subseteq lost'
    BY <2>1
  <2> QED
    BY <2>1, <2>2, <2>3, <2>4, FoundGrows
<1>4. CASE ~(FinishText \/ FinishHtml \/ CloseVisit)
  <2>1. CASE EditFile
    BY <2>1, EditOnly, FoundGrows DEF Work
  <2>2. CASE OnPage
    <3>1. UNCHANGED <<opts, found, observed, lost>>
      BY <1>4, <2>2 DEF OnPage, NextUrl, OpenBrowser, OpenPage, ScanPage, PageFails,
         Collect, AnalyseCandidate,
           AnalysisEnds, CollectAgain, ComparePixels, PixelsCompared, FailVisit
    <3> QED
      BY <3>1, FoundGrows
  <2>3. CASE OnFiles
    <3>1. UNCHANGED <<opts, found, observed, lost>>
      BY <1>4, <2>3 DEF OnFiles, ParseArgs, LaunchShared, ReadStdin, NextMissing,
         NextFile, NextDir, Walk, Ask,
           BuildGraph, GraphThrows, ReadFile, ReadThrows, NoMoreFiles, DedupeMatch, ParsersMissing,
           CloseShared, Report, Throw
    <3> QED
      BY <3>1, FoundGrows
  <2> QED
    BY <2>1, <2>2, <2>3, NextCases
<1> QED
  BY <1>1, <1>2, <1>3, <1>4

LEMMA KeepsDue ==
  ASSUME DetectTyped, DueInv, DetectNext
  PROVE  DueInv'
<1> USE DEF input, args, Work, ghosts, Exit, Drop, Throw, ScanPcs, InDirectory
<1>1. CASE EditFile
  BY <1>1 DEF EditFile, DueInv
<1>2. CASE OnPage
  BY <1>2, PageOnly DEF DueInv
<1>3. CASE ParseArgs \/ LaunchShared \/ ReadStdin \/ NextMissing \/ NextDir \/ CloseShared \/ Report
  BY <1>3 DEF ParseArgs, LaunchShared, ReadStdin, StdinScan, EngineFor, NextMissing,
     NextDir, CloseShared,
       Report, DueInv
<1>4. CASE NextFile \/ Walk
  BY <1>4 DEF NextFile, Walk, DueInv
<1>5. CASE Ask \/ BuildGraph \/ GraphThrows \/ ReadThrows \/ NoMoreFiles
  BY <1>5 DEF Ask, BuildGraph, GraphThrows, ReadThrows, NoMoreFiles, DueInv
<1>6. CASE ReadFile
  <2>1. PICK p \in files : /\ files' = files \ {p} /\ scanned' = scanned \cup {<<Len(todo), p>>}
                           /\ scan'.then = "files" /\ pc' \in ScanPcs
                           /\ pc = "files" /\ UNCHANGED <<due, todo>>
    BY <1>6 DEF ReadFile, EngineFor
  <2> QED
    BY <2>1 DEF DueInv
<1>7. CASE DedupeMatch \/ ParsersMissing
  BY <1>7 DEF DedupeMatch, ParsersMissing, DueInv, DetectTyped
<1>8. CASE FinishText \/ FinishHtml
  BY <1>8 DEF FinishText, FinishHtml, Finish, DueInv, DetectTyped
<1> QED
  BY <1>1, <1>2, <1>3, <1>4, <1>5, <1>6, <1>7, <1>8, NextCases DEF OnFiles

LEMMA KeepsOpen ==
  ASSUME DetectTyped, OpenInv, DetectNext
  PROVE  OpenInv'
<1> USE DEF input, args, Work, ghosts, Exit, Drop, Throw, ScanPcs
<1>1. CASE EditFile
  BY <1>1 DEF EditFile, OpenInv
<1>2. CASE OnPage
  <2>1. visit'.page => pc' \in VisitPcs
    <3>1. CASE NextUrl \/ OpenBrowser \/ OpenPage
      BY <3>1 DEF NextUrl, NoVisit, OpenBrowser, OpenPage, FailVisit, DetectTyped,
         OpenInv, VisitPcs
    <3>2. CASE ScanPage \/ PageFails \/ Collect \/ AnalyseCandidate \/ AnalysisEnds
      BY <3>2 DEF ScanPage, PageFails, Collect, AnalyseCandidate, AnalysisEnds, VisitPcs
    <3>3. CASE CollectAgain \/ ComparePixels \/ PixelsCompared \/ CloseVisit
      BY <3>3 DEF CollectAgain, ComparePixels, PixelsCompared, CloseVisit, DetectTyped,
         VisitPcs
    <3> QED
      BY <1>2, <3>1, <3>2, <3>3 DEF OnPage
  <2>2. visit'.own => pc' \in VisitPcs \cup {"page"}
    <3>1. CASE NextUrl \/ OpenBrowser \/ OpenPage
      BY <3>1 DEF NextUrl, NoVisit, OpenBrowser, OpenPage, FailVisit, DetectTyped,
         OpenInv, VisitPcs
    <3>2. CASE ScanPage \/ PageFails \/ Collect \/ AnalyseCandidate \/ AnalysisEnds
      BY <3>2 DEF ScanPage, PageFails, Collect, AnalyseCandidate, AnalysisEnds, VisitPcs
    <3>3. CASE CollectAgain \/ ComparePixels \/ PixelsCompared \/ CloseVisit
      BY <3>3 DEF CollectAgain, ComparePixels, PixelsCompared, CloseVisit, DetectTyped,
         VisitPcs
    <3> QED
      BY <1>2, <3>1, <3>2, <3>3 DEF OnPage
  <2> QED
    BY <1>2, <2>1, <2>2, PageOnly DEF OpenInv
<1>3. CASE OnFiles
  <2>1. ~visit'.page /\ ~visit'.own
    BY <1>3, FilesOnly DEF OpenInv, VisitPcs, FilePcs
  <2>2. /\ browser' = "open" => pc' # "report" /\ (pc' = "done" => quit')
        /\ pc' \in {"args", "browser", "stdin"} => browser' # "open"
        /\ pc' \in ScanPcs /\ scan'.then = "report" => browser' # "open"
    <3>1. CASE ParseArgs \/ LaunchShared \/ ReadStdin \/ NextMissing \/ NextFile \/ NextDir \/ CloseShared
      BY <3>1 DEF ParseArgs, LaunchShared, ReadStdin, EngineFor, NextMissing, NextFile,
         NextDir, CloseShared, OpenInv
    <3>2. CASE Walk \/ Ask \/ BuildGraph \/ GraphThrows \/ ReadThrows \/ NoMoreFiles \/ Report
      BY <3>2 DEF Walk, Ask, BuildGraph, GraphThrows, ReadThrows, NoMoreFiles, Report,
         OpenInv
    <3>3. CASE ReadFile
      <4>1. scan'.then = "files" /\ pc' \in ScanPcs
        BY <3>3 DEF ReadFile, EngineFor
      <4> QED
        BY <4>1
    <3>4. CASE FinishText \/ FinishHtml
      BY <3>4 DEF FinishText, FinishHtml, Finish, OpenInv, DetectTyped
    <3>5. CASE DedupeMatch \/ ParsersMissing
      <4>1. pc \in ScanPcs /\ pc' \in ScanPcs /\ scan'.then = scan.then /\ browser' = browser
        BY <3>5 DEF DedupeMatch, ParsersMissing, DetectTyped
      <4> QED
        BY <4>1 DEF OpenInv
    <3> QED
      BY <1>3, <3>1, <3>2, <3>3, <3>4, <3>5 DEF OnFiles
  <2> QED
    BY <2>1, <2>2 DEF OpenInv
<1> QED
  BY <1>1, <1>2, <1>3, NextCases

LEMMA ReportIsJust ==
  ASSUME DetectTyped, FoundInv, DetectNext
  PROVE  NothingSilenced'
<1> USE DEF input, args, Work, ghosts
<1>1. CASE Report
  <2>1. /\ UNCHANGED <<opts, detection, found, observed, lost>>
        /\ report' = {r \in found : ~IsIgnored(r.finding, r.place)}
    BY <1>1 DEF Report
  <2>2. ASSUME NEW r \in observed' PROVE \E t \in observed' : Twin(r, t) /\ (Shown(t)' \/ Excused(t)')
    <3>1. PICK t \in observed : Twin(r, t) /\ Collects(t)
      BY <2>1, <2>2 DEF FoundInv
    <3>2. CASE \E s \in found : SameFinding(s, t)
      <4>1. PICK s \in found : SameFinding(s, t)
        BY <3>2
      <4>2. IsIgnored(s.finding, s.place) => Excused(t)'
        <5>1. IsIgnored(s.finding, s.place) => IsIgnored(t.finding, t.place)'
          BY <2>1, <4>1 DEF IsIgnored, IsIgnoredValue, SameFinding
        <5> QED
          BY <5>1 DEF Excused
      <4>3. ~IsIgnored(s.finding, s.place) => Shown(t)'
        <5>1. ~IsIgnored(s.finding, s.place) => s \in report'
          BY <2>1, <4>1
        <5> QED
          BY <4>1, <5>1 DEF Shown, SameFinding
      <4>4. t \in observed' /\ Twin(r, t)
        BY <2>1, <3>1
      <4> QED
        BY <4>2, <4>3, <4>4
    <3>3. CASE ~ \E s \in found : SameFinding(s, t)
      <4>1. Excused(t)'
        BY <2>1, <3>1, <3>3 DEF Collects, Excused, IsProvided, IsWaived, IsInlineIgnored
      <4> QED
        BY <2>1, <3>1, <4>1
    <3> QED
      BY <3>2, <3>3
  <2>3. ASSUME NEW s \in report'
        PROVE  /\ ~IsIgnored(s.finding, s.place)'
               /\ \E t \in observed' : /\ SameFinding(s, t) /\ IsProvided(t.finding)'
                                       /\ t.text # Gone => ~IsWaived(t.finding, t.text)'
    <3>1. s \in found /\ ~IsIgnored(s.finding, s.place)
      BY <2>1, <2>3
    <3>2. ~IsIgnored(s.finding, s.place)'
      BY <2>1, <3>1 DEF IsIgnored, IsIgnoredValue
    <3>3. PICK t \in observed : SameFinding(s, t) /\ Clear(t)
      BY <3>1 DEF FoundInv
    <3>4. IsProvided(t.finding)' /\ (t.text # Gone => ~IsWaived(t.finding, t.text)')
      BY <2>1, <3>3 DEF Clear, IsProvided, IsWaived, IsInlineIgnored
    <3> QED
      BY <2>1, <3>2, <3>3, <3>4
  <2> QED
    BY <2>2, <2>3 DEF NothingSilenced, Twin, SameFinding
<1>2. CASE ~Report
  <2>1. pc' # "done" \/ code' = 1 \/ quit'
    <3>1. CASE EditFile
      BY <3>1 DEF EditFile
    <3>2. CASE OnPage
      BY <3>2, PageOnly
    <3>3. CASE FinishText \/ FinishHtml
      BY <3>3 DEF FinishText, FinishHtml, Finish, DetectTyped, ScanPcs
    <3>4. CASE OnFiles /\ ~(FinishText \/ FinishHtml)
      BY <1>2, <3>4 DEF OnFiles, ParseArgs, LaunchShared, ReadStdin, EngineFor,
         NextMissing, NextFile, NextDir, Walk,
           Ask, BuildGraph, GraphThrows, ReadFile, ReadThrows, NoMoreFiles, DedupeMatch, ParsersMissing,
           CloseShared, Exit, Throw, Drop
    <3> QED
      BY <3>1, <3>2, <3>3, <3>4, NextCases
  <2> QED
    BY <2>1 DEF NothingSilenced
<1> QED
  BY <1>1, <1>2

LEMMA DetectStays ==
  ASSUME DetectInv, UNCHANGED detectVars
  PROVE  DetectInv'
<1> USE DEF detectVars, input, args, ghosts
<1>1. UNCHANGED <<opts, disk, detection, pc, todo, files, scan, visit, browser, found, report, code,
                  observed, due, scanned, lost, quit>>
  OBVIOUS
<1>2. DetectTyped' /\ LowInv' /\ DueInv' /\ OpenInv'
  BY <1>1 DEF DetectInv, DetectTyped, LowInv, LowContrastOnce, DueInv, InDirectory, OpenInv
<1>3. DedupeInv'
  <2>1. Raw' = Raw
    BY <1>1 DEF Raw, TextRaw, DesignList, DesignOn
  <2> QED
    BY <1>1, <2>1 DEF DetectInv, DedupeInv, IsDupe
<1>4. FoundInv'
  BY <1>1, FoundGrows DEF DetectInv
<1>5. NothingSilenced'
  <2>1. ASSUME NEW t PROVE (Shown(t) \/ Excused(t)) => (Shown(t)' \/ Excused(t)')
    BY <1>1 DEF Shown, Excused, IsIgnored, IsIgnoredValue, IsProvided, IsWaived,
       IsInlineIgnored, SameFinding
  <2>2. ASSUME NEW t PROVE Clear(t) => Clear(t)'
    BY <1>1 DEF Clear, IsProvided, IsWaived, IsInlineIgnored
  <2>3. ASSUME NEW s PROVE ~IsIgnored(s.finding, s.place) => ~IsIgnored(s.finding, s.place)'
    BY <1>1 DEF IsIgnored, IsIgnoredValue
  <2> SUFFICES ASSUME pc = "done" /\ code # 1 /\ ~quit
               PROVE  NothingSilenced'
    BY <1>1 DEF NothingSilenced
  <2>4. ASSUME NEW r \in observed PROVE \E t \in observed : Twin(r, t) /\ (Shown(t)' \/ Excused(t)')
    BY <2>1 DEF DetectInv, NothingSilenced
  <2>5. ASSUME NEW s \in report
        PROVE  ~IsIgnored(s.finding, s.place)' /\ \E t \in observed : SameFinding(s, t) /\ Clear(t)'
    <3>1. ~IsIgnored(s.finding, s.place)
      BY DEF DetectInv, NothingSilenced
    <3>2. PICK t \in observed : /\ SameFinding(s, t) /\ IsProvided(t.finding)
                                /\ t.text # Gone => ~IsWaived(t.finding, t.text)
      BY DEF DetectInv, NothingSilenced
    <3>3. Clear(t)
      BY <3>2 DEF Clear
    <3> QED
      BY <2>2, <2>3, <3>1, <3>2, <3>3
  <2> QED
    BY <1>1, <2>4, <2>5 DEF NothingSilenced, Clear, Twin, SameFinding
<1> QED
  BY <1>2, <1>3, <1>4, <1>5 DEF DetectInv

\* A run starts with nothing collected, nothing due and nothing open.
LEMMA DetectStarts ==
  ASSUME DetectInit
  PROVE  DetectInv
BY DEF DetectInit, DetectInv, DetectTyped, LowInv, LowContrastOnce, DedupeInv, FoundInv,
   DueInv, InDirectory,
   OpenInv, NothingSilenced, NoVisit, NoScan, ScanPcs

(***************************************************************************)
(* Every state of a run keeps the books: what was matched and dropped has  *)
(* its like among what is kept, what was collected some rule found and no  *)
(* waiver covers, what is due is scanned or at hand, and pages and         *)
(* browsers are open only where they are closed again.                     *)
(***************************************************************************)
THEOREM DetectCoherent ==
  ASSUME DetectGiven
  PROVE  DetectSpec => []DetectInv
<1>1. DetectInit => DetectInv
  BY DetectStarts
<1>2. DetectInv /\ [DetectNext]_detectVars => DetectInv'
  <2> SUFFICES ASSUME DetectInv, [DetectNext]_detectVars PROVE DetectInv'
    OBVIOUS
  <2>1. CASE DetectNext
    BY <2>1, KeepsTyped, KeepsLow, KeepsDedupe, KeepsFound, KeepsDue, KeepsOpen,
       ReportIsJust DEF DetectInv
  <2>2. CASE UNCHANGED detectVars
    BY <2>2, DetectStays
  <2> QED
    BY <2>1, <2>2
<1> QED
  BY <1>1, <1>2, PTL DEF DetectSpec

\* Nothing a rule found is missing from the report without a reason the user gave.
THEOREM NothingIsSilenced ==
  ASSUME DetectGiven
  PROVE  DetectSpec => []NothingSilenced
<1>1. DetectInv => NothingSilenced
  BY DEF DetectInv
<1> QED
  BY <1>1, DetectCoherent, PTL

\* A run that reports has scanned every file it listed.
THEOREM CleanIsScanned ==
  ASSUME DetectGiven
  PROVE  DetectSpec => []CleanMeansScanned
<1>1. DetectInv => CleanMeansScanned
  BY DEF DetectInv, DueInv, InDirectory, ScanPcs, CleanMeansScanned
<1> QED
  BY <1>1, DetectCoherent, PTL

\* A run that has ended has no page open and no browser it could close.
THEOREM BrowsersAreClosed ==
  ASSUME DetectGiven
  PROVE  DetectSpec => []BrowsersClosed
<1>1. DetectInv => BrowsersClosed
  BY DEF DetectInv, OpenInv, VisitPcs, BrowsersClosed
<1> QED
  BY <1>1, DetectCoherent, PTL

\* An element's contrast is charged by one of the three analyses.
THEOREM ContrastChargedOnce ==
  ASSUME DetectGiven
  PROVE  DetectSpec => []LowContrastOnce
<1>1. DetectInv => LowContrastOnce
  BY DEF DetectInv, LowInv
<1> QED
  BY <1>1, DetectCoherent, PTL

(***************************************************************************)
(* Detect.  Of the commands in the queue the last one counts.  While the   *)
(* toggle is on it is a scan under the id the toggle waits for, or none is *)
(* left, and then the badge agrees with the overlays once the answers in   *)
(* the queue are read.  While it is off, or the bar gone, it is a removal, *)
(* or nothing is drawn and no analysis may draw any more.                  *)
(***************************************************************************)
Cmd(m) == m.type \in {"scan", "remove"}
Answers(m, id) == m.type = "results" /\ m.id = id

LastFrom(w, k) == \A j \in 1..Len(w) : j > k => ~Cmd(w[j])
NoCmd(w) == \A j \in 1..Len(w) : ~Cmd(w[j])
LastRemove(w) == \E k \in 1..Len(w) : w[k].type = "remove" /\ LastFrom(w, k)
LastScan(w, id) ==
  \E k \in 1..Len(w) : w[k].type = "scan" /\ w[k].id = id /\ LastFrom(w, k)

\* Once w is read, a badge that shows c shows d.
Badge(w, id, c, d) ==
  \/ \E k \in 1..Len(w) : /\ Answers(w[k], id) /\ w[k].n = d
                          /\ \A j \in 1..Len(w) : j > k => ~Answers(w[j], id)
  \/ (\A k \in 1..Len(w) : ~Answers(w[k], id)) /\ c = d

Messages == [type : {"scan", "remove", "ready", "results"}, id : Nat, n : Nat]

Toggles ==
  [bar : BOOLEAN, on : BOOLEAN, loaded : BOOLEAN, ready : BOOLEAN, wanted : BOOLEAN,
   seq : Nat, active : Nat, count : Nat]

Scripts ==
  [up : BOOLEAN, gen : Nat, drawn : Nat, jobs : SUBSET [gen : Nat, id : Nat, lazy : BOOLEAN]]

DetectTypes ==
  /\ live \in Toggles /\ script \in Scripts /\ wire \in Seq(Messages)
  /\ live.active <= live.seq
  /\ \A j \in script.jobs : j.gen <= script.gen

\* Before the script is up it has drawn nothing, nobody heard of it, and nobody
\* asks it to scan.
Unloaded ==
  /\ ~script.up => script.drawn = 0 /\ script.jobs = {}
  /\ live.ready => script.up
  /\ \A k \in 1..Len(wire) : wire[k].type \in {"ready", "scan"} => script.up

Settled(id) == \A j \in script.jobs : j.gen # script.gen \/ j.id = id
Idling == script.drawn = 0 /\ \A j \in script.jobs : j.gen # script.gen

Cleared == LastRemove(wire) \/ (NoCmd(wire) /\ Idling)

Untouched ==
  /\ live.active = 0 /\ live.count = 0 /\ script.drawn = 0 /\ script.jobs = {}
  /\ \A k \in 1..Len(wire) : wire[k].type \notin {"scan", "results"}

Rescanned ==
  /\ live.active # 0
  /\ \/ LastScan(wire, live.active)
     \/ /\ NoCmd(wire) /\ Settled(live.active)
        /\ Badge(wire, live.active, live.count, script.drawn)

ToggleInv ==
  /\ DetectTypes /\ Unloaded
  /\ live.bar /\ ~live.on => live.count = 0
  /\ ~(live.bar /\ live.on) => Cleared
  /\ live.bar /\ ~live.ready => Untouched /\ (live.on => live.wanted)
  /\ live.bar /\ live.on /\ live.ready => Rescanned

LEMMA AppendIs ==
  ASSUME NEW w \in Seq(Messages), NEW m \in Messages
  PROVE  /\ Append(w, m) \in Seq(Messages) /\ Len(Append(w, m)) = Len(w) + 1
         /\ Len(w) \in Nat /\ Append(w, m)[Len(w) + 1] = m
         /\ \A i \in 1..Len(w) : Append(w, m)[i] = w[i]
OBVIOUS

LEMMA AppendCmd ==
  ASSUME NEW w \in Seq(Messages), NEW m \in Messages
  PROVE  /\ NoCmd(Append(w, m)) <=> NoCmd(w) /\ ~Cmd(m)
         /\ m.type = "remove" \/ (~Cmd(m) /\ LastRemove(w)) => LastRemove(Append(w, m))
         /\ \A id : (m.type = "scan" /\ m.id = id) \/ (~Cmd(m) /\ LastScan(w, id))
                       => LastScan(Append(w, m), id)
<1> DEFINE a == Append(w, m)
<1>1. /\ Len(a) = Len(w) + 1 /\ Len(w) \in Nat /\ a[Len(w) + 1] = m
      /\ \A i \in 1..Len(w) : a[i] = w[i]
  BY AppendIs
<1> HIDE DEF a
<1>2. \A j \in 1..Len(a) : j \in 1..Len(w) \/ j = Len(w) + 1
  BY <1>1
<1>3. Len(w) + 1 \in 1..Len(a) /\ \A j \in 1..Len(w) : j \in 1..Len(a)
  BY <1>1
<1>4. NoCmd(a) <=> NoCmd(w) /\ ~Cmd(m)
  BY <1>1, <1>2, <1>3 DEF NoCmd
<1>5. LastFrom(a, Len(w) + 1)
  BY <1>1 DEF LastFrom
<1>6. ~Cmd(m) => \A k \in 1..Len(w) : LastFrom(w, k) => LastFrom(a, k)
  BY <1>1, <1>2 DEF LastFrom
<1>7. m.type = "remove" \/ (~Cmd(m) /\ LastRemove(w)) => LastRemove(a)
  BY <1>1, <1>3, <1>5, <1>6 DEF LastRemove
<1>8. \A id : (m.type = "scan" /\ m.id = id) \/ (~Cmd(m) /\ LastScan(w, id)) => LastScan(a, id)
  BY <1>1, <1>3, <1>5, <1>6 DEF LastScan
<1> QED
  BY <1>4, <1>7, <1>8 DEF a

LEMMA AppendBadge ==
  ASSUME NEW w \in Seq(Messages), NEW m \in Messages, NEW id, NEW c, NEW d,
         IF Answers(m, id) THEN m.n = d ELSE Badge(w, id, c, d)
  PROVE  Badge(Append(w, m), id, c, d)
<1> DEFINE a == Append(w, m)
<1>1. /\ Len(a) = Len(w) + 1 /\ Len(w) \in Nat /\ a[Len(w) + 1] = m
      /\ \A i \in 1..Len(w) : a[i] = w[i]
  BY AppendIs
<1> HIDE DEF a
<1>2. \A j \in 1..Len(a) : j \in 1..Len(w) \/ j = Len(w) + 1
  BY <1>1
<1>3. Len(w) + 1 \in 1..Len(a) /\ \A j \in 1..Len(w) : j \in 1..Len(a)
  BY <1>1
<1>4. CASE Answers(m, id)
  <2>1. \A j \in 1..Len(a) : ~(j > Len(w) + 1)
    BY <1>1
  <2> QED
    BY <1>1, <1>3, <1>4, <2>1 DEF Badge, a
<1>5. CASE ~Answers(m, id)
  BY <1>1, <1>2, <1>3, <1>5 DEF Badge, a
<1> QED
  BY <1>4, <1>5

LEMMA TailIs ==
  ASSUME NEW w \in Seq(Messages), w # <<>>
  PROVE  /\ Tail(w) \in Seq(Messages) /\ Head(w) \in Messages /\ Head(w) = w[1]
         /\ Len(Tail(w)) \in Nat /\ Len(w) = Len(Tail(w)) + 1
         /\ \A i \in 1..Len(Tail(w)) : Tail(w)[i] = w[i + 1]
OBVIOUS

LEMMA TailCmd ==
  ASSUME NEW w \in Seq(Messages), w # <<>>
  PROVE  /\ NoCmd(w) => NoCmd(Tail(w)) /\ ~Cmd(Head(w))
         /\ LastRemove(w) => LastRemove(Tail(w)) \/ (Head(w).type = "remove" /\ NoCmd(Tail(w)))
         /\ \A id : LastScan(w, id) =>
              \/ LastScan(Tail(w), id)
              \/ Head(w).type = "scan" /\ Head(w).id = id /\ NoCmd(Tail(w))
<1> DEFINE t == Tail(w)
           h == Head(w)
<1>1. /\ h = w[1] /\ Len(t) \in Nat /\ Len(w) = Len(t) + 1
      /\ \A i \in 1..Len(t) : t[i] = w[i + 1]
  BY TailIs
<1> HIDE DEF t, h
<1>2. \A j \in 1..Len(w) : j = 1 \/ (j - 1 \in 1..Len(t) /\ (j - 1) + 1 = j)
  BY <1>1
<1>3. 1 \in 1..Len(w) /\ \A j \in 1..Len(t) : j + 1 \in 1..Len(w)
  BY <1>1
<1>4. NoCmd(w) => NoCmd(t) /\ ~Cmd(h)
  BY <1>1, <1>3 DEF NoCmd
<1>5. LastFrom(w, 1) => NoCmd(t)
  BY <1>1, <1>3 DEF LastFrom, NoCmd
<1>6. \A k \in 1..Len(w) : k # 1 /\ LastFrom(w, k) => LastFrom(t, k - 1)
  BY <1>1, <1>3 DEF LastFrom
<1>7. LastRemove(w) => LastRemove(t) \/ (h.type = "remove" /\ NoCmd(t))
  <2> SUFFICES ASSUME NEW k \in 1..Len(w), w[k].type = "remove", LastFrom(w, k)
               PROVE  LastRemove(t) \/ (h.type = "remove" /\ NoCmd(t))
    BY DEF LastRemove
  <2>1. CASE k = 1
    BY <1>1, <1>5, <2>1
  <2>2. CASE k # 1
    <3>1. k - 1 \in 1..Len(t) /\ t[k - 1] = w[k]
      BY <1>1, <1>2, <2>2
    <3> QED
      BY <1>6, <2>2, <3>1 DEF LastRemove
  <2> QED
    BY <2>1, <2>2
<1>8. ASSUME NEW id, LastScan(w, id)
      PROVE  LastScan(t, id) \/ (h.type = "scan" /\ h.id = id /\ NoCmd(t))
  <2>1. PICK k \in 1..Len(w) : w[k].type = "scan" /\ w[k].id = id /\ LastFrom(w, k)
    BY <1>8 DEF LastScan
  <2>2. CASE k = 1
    BY <1>1, <1>5, <2>1, <2>2
  <2>3. CASE k # 1
    <3>1. k - 1 \in 1..Len(t) /\ t[k - 1] = w[k]
      BY <1>1, <1>2, <2>3
    <3> QED
      BY <1>6, <2>1, <2>3, <3>1 DEF LastScan
  <2> QED
    BY <2>2, <2>3
<1> QED
  BY <1>4, <1>7, <1>8 DEF t, h

LEMMA TailBadge ==
  ASSUME NEW w \in Seq(Messages), w # <<>>, NEW id, NEW c, NEW d, Badge(w, id, c, d)
  PROVE  Badge(Tail(w), id, IF Answers(Head(w), id) THEN Head(w).n ELSE c, d)
<1> DEFINE t == Tail(w)
           h == Head(w)
<1>1. /\ h = w[1] /\ Len(t) \in Nat /\ Len(w) = Len(t) + 1
      /\ \A i \in 1..Len(t) : t[i] = w[i + 1]
  BY TailIs
<1> HIDE DEF t, h
<1>2. \A j \in 1..Len(w) : j = 1 \/ (j - 1 \in 1..Len(t) /\ (j - 1) + 1 = j)
  BY <1>1
<1>3. 1 \in 1..Len(w) /\ \A j \in 1..Len(t) : j + 1 \in 1..Len(w) /\ j + 1 > 1
  BY <1>1
<1>4. CASE \A k \in 1..Len(w) : ~Answers(w[k], id)
  <2>1. c = d /\ ~Answers(h, id) /\ \A k \in 1..Len(t) : ~Answers(t[k], id)
    BY <1>1, <1>3, <1>4 DEF Badge
  <2> QED
    BY <2>1 DEF Badge, t, h
<1>5. ASSUME NEW k \in 1..Len(w), Answers(w[k], id), w[k].n = d,
             \A j \in 1..Len(w) : j > k => ~Answers(w[j], id)
      PROVE  Badge(t, id, IF Answers(h, id) THEN h.n ELSE c, d)
  <2>1. CASE k = 1
    <3>1. \A j \in 1..Len(t) : ~Answers(t[j], id)
      BY <1>1, <1>3, <1>5, <2>1
    <3> QED
      BY <1>1, <1>5, <2>1, <3>1 DEF Badge
  <2>2. CASE k # 1
    <3>1. k - 1 \in 1..Len(t) /\ t[k - 1] = w[k]
      BY <1>1, <1>2, <2>2
    <3>2. \A j \in 1..Len(t) : j > k - 1 => ~Answers(t[j], id)
      BY <1>1, <1>3, <1>5
    <3> QED
      BY <1>5, <3>1, <3>2 DEF Badge
  <2> QED
    BY <2>1, <2>2
<1> QED
  BY <1>4, <1>5 DEF Badge, t, h

-----------------------------------------------------------------------------
(* The toggle *)

LEMMA MsgsAre ==
  /\ \A id \in Nat : /\ Scan(id) \in Messages /\ Scan(id).type = "scan" /\ Scan(id).id = id
  /\ RemoveCmd \in Messages /\ RemoveCmd.type = "remove"
  /\ Ready \in Messages /\ Ready.type = "ready"
  /\ \A id, n \in Nat : /\ Results(id, n) \in Messages /\ Results(id, n).type = "results"
                        /\ Results(id, n).id = id /\ Results(id, n).n = n
BY DEF Scan, RemoveCmd, Ready, Results, Messages

\* What is asked of every message in the queue survives an Append and a Tail.
LEMMA AppendAll ==
  ASSUME NEW w \in Seq(Messages), NEW m \in Messages, NEW T,
         \A k \in 1..Len(w) : w[k].type \in T, m.type \in T
  PROVE  \A k \in 1..Len(Append(w, m)) : Append(w, m)[k].type \in T
<1>1. \A k \in 1..(Len(w) + 1) : k \in 1..Len(w) \/ k = Len(w) + 1
  BY AppendIs
<1> QED
  BY <1>1, AppendIs

LEMMA TailAll ==
  ASSUME NEW w \in Seq(Messages), w # <<>>, NEW T, \A k \in 1..Len(w) : w[k].type \in T
  PROVE  Head(w).type \in T /\ \A k \in 1..Len(Tail(w)) : Tail(w)[k].type \in T
<1>1. /\ Head(w) = w[1] /\ Len(Tail(w)) \in Nat /\ Len(w) = Len(Tail(w)) + 1
      /\ \A i \in 1..Len(Tail(w)) : Tail(w)[i] = w[i + 1]
  BY TailIs
<1>2. 1 \in 1..Len(w) /\ \A i \in 1..Len(Tail(w)) : i + 1 \in 1..Len(w)
  BY <1>1
<1> QED
  BY <1>1, <1>2

AllTypes == {"scan", "remove", "ready", "results"}

\* The messages that may be in the queue.
InWire(T) == \A k \in 1..Len(wire) : wire[k].type \in T

LEMMA UnloadedIs ==
  ASSUME DetectTypes
  PROVE  /\ Unloaded <=> /\ ~script.up => script.drawn = 0 /\ script.jobs = {}
                         /\ live.ready => script.up
                         /\ script.up \/ InWire({"remove", "results"})
         /\ Untouched <=> /\ live.active = 0 /\ live.count = 0 /\ script.drawn = 0
                          /\ script.jobs = {} /\ InWire({"remove", "ready"})
<1>1. \A k \in 1..Len(wire) : wire[k].type \in AllTypes
  <2>1. wire \in Seq(Messages) /\ \A m \in Messages : m.type \in AllTypes
    BY DEF DetectTypes, Messages, AllTypes
  <2>2. \A k \in 1..Len(wire) : wire[k] \in Messages
    BY <2>1
  <2> QED
    BY <2>1, <2>2
<1> QED
  BY <1>1 DEF Unloaded, Untouched, InWire, AllTypes

LEMMA OnStep ==
  ASSUME ToggleInv, DetectOn, live.bar
  PROVE  ToggleInv'
<1>1. /\ live \in Toggles /\ script \in Scripts /\ wire \in Seq(Messages) /\ script' = script
      /\ live.seq \in Nat /\ live.seq + 1 \in Nat /\ ~live.on
  BY DEF ToggleInv, DetectTypes, DetectOn, Toggles
<1>2. CASE live.ready
  <2> DEFINE m == Scan(live.seq + 1)
  <2>1. /\ wire' = Append(wire, m)
        /\ live' = [[live EXCEPT !.on = TRUE, !.loaded = TRUE]
                        EXCEPT !.seq = live.seq + 1, !.active = live.seq + 1]
    BY <1>1, <1>2 DEF DetectOn, RequestScan, Toggles
  <2>2. /\ live' \in Toggles /\ live'.bar /\ live'.on /\ live'.ready
        /\ live'.active = live.seq + 1 /\ live'.seq = live.seq + 1
    BY <1>1, <1>2, <2>1 DEF Toggles
  <2>3. m \in Messages /\ m.type = "scan" /\ m.id = live.seq + 1
    BY <1>1, MsgsAre
  <2> HIDE DEF m
  <2>4. wire' \in Seq(Messages) /\ LastScan(wire', live.seq + 1)
    BY <1>1, <2>1, <2>3, AppendCmd, AppendIs
  <2>5. DetectTypes'
    BY <1>1, <2>2, <2>4 DEF ToggleInv, DetectTypes
  <2>6. Rescanned'
    BY <1>1, <2>2, <2>4 DEF Rescanned
  <2>7. script.up
    BY <1>2 DEF ToggleInv, Unloaded
  <2>8. Unloaded'
    BY <1>1, <2>7 DEF Unloaded
  <2> QED
    BY <2>2, <2>5, <2>6, <2>8 DEF ToggleInv
<1>3. CASE ~live.ready
  <2>1. /\ UNCHANGED wire
        /\ live' = [[live EXCEPT !.on = TRUE, !.loaded = TRUE] EXCEPT !.wanted = TRUE]
    BY <1>1, <1>3 DEF DetectOn
  <2>2. /\ live' \in Toggles /\ live'.bar /\ live'.on /\ ~live'.ready /\ live'.wanted
        /\ live'.active = live.active /\ live'.seq = live.seq /\ live'.count = live.count
    BY <1>1, <1>3, <2>1 DEF Toggles
  <2>3. DetectTypes' /\ Unloaded' /\ Untouched'
    BY <1>1, <1>3, <2>1, <2>2 DEF ToggleInv, DetectTypes, Unloaded, Untouched
  <2> QED
    BY <2>2, <2>3 DEF ToggleInv
<1> QED
  BY <1>2, <1>3

\* Switched off, or the bar gone: the last command is a removal.
LEMMA OffStep ==
  ASSUME ToggleInv, DetectOff \/ DetectExit
  PROVE  ToggleInv'
<1>1. /\ live \in Toggles /\ script \in Scripts /\ wire \in Seq(Messages) /\ script' = script
      /\ wire' = Append(wire, RemoveCmd)
  BY DEF ToggleInv, DetectTypes, DetectOff, DetectExit
<1>2. wire' \in Seq(Messages) /\ LastRemove(wire')
  BY <1>1, MsgsAre, AppendCmd, AppendIs
<1>3. \A T : InWire(T) /\ "remove" \in T => InWire(T)'
  BY <1>1, MsgsAre, AppendAll DEF InWire
<1>4. \/ /\ live' \in Toggles /\ live'.active = 0 /\ live'.count = 0 /\ ~live'.on
         /\ live'.ready = live.ready /\ live'.bar = live.bar
      \/ /\ live' \in Toggles /\ ~live'.bar /\ live'.ready = live.ready
         /\ live'.active = live.active /\ live'.seq = live.seq
  <2>1. CASE DetectOff
    <3>1. live' = [live EXCEPT !.on = FALSE, !.active = 0, !.count = 0]
      BY <2>1 DEF DetectOff
    <3> QED
      BY <1>1, <3>1 DEF Toggles
  <2>2. CASE DetectExit
    <3>1. live' = [live EXCEPT !.bar = FALSE]
      BY <2>2 DEF DetectExit
    <3> QED
      BY <1>1, <3>1 DEF Toggles
  <2> QED
    BY <2>1, <2>2
<1>5. DetectTypes'
  <2>1. live'.active <= live'.seq
    BY <1>1, <1>4 DEF ToggleInv, DetectTypes, Toggles
  <2> QED
    BY <1>1, <1>2, <1>4, <2>1 DEF ToggleInv, DetectTypes
<1>6. Unloaded'
  <2>1. script.up \/ InWire({"remove", "results"})
    BY UnloadedIs DEF ToggleInv
  <2>2. script'.up \/ InWire({"remove", "results"})'
    BY <1>1, <1>3, <2>1
  <2>3. live'.ready = live.ready
    BY <1>4
  <2> QED
    BY <1>1, <1>5, <2>2, <2>3, UnloadedIs DEF ToggleInv, Unloaded, InWire
<1>7. live'.bar /\ ~live'.ready => Untouched'
  <2> SUFFICES ASSUME live'.bar, ~live'.ready PROVE Untouched'
    OBVIOUS
  <2>1. Untouched /\ live'.active = 0 /\ live'.count = 0
    BY <1>4 DEF ToggleInv
  <2>2. InWire({"remove", "ready"})
    BY <2>1, UnloadedIs DEF ToggleInv
  <2>3. InWire({"remove", "ready"})'
    BY <1>3, <2>2
  <2> QED
    BY <1>1, <1>5, <2>1, <2>3, UnloadedIs DEF Untouched, InWire
<1>8. Cleared' /\ (live'.bar => ~live'.on /\ live'.count = 0)
  BY <1>2, <1>4 DEF Cleared
<1> QED
  BY <1>5, <1>6, <1>7, <1>8 DEF ToggleInv

LEMMA LoadStep ==
  ASSUME ToggleInv, ScriptLoads
  PROVE  ToggleInv'
<1>1. /\ live \in Toggles /\ script \in Scripts /\ wire \in Seq(Messages) /\ live' = live
      /\ wire' = Append(wire, Ready) /\ ~script.up
      /\ script' = [script EXCEPT !.up = TRUE]
  BY DEF ToggleInv, DetectTypes, ScriptLoads
<1>2. /\ script' \in Scripts /\ script'.up /\ script'.drawn = script.drawn
      /\ script'.jobs = script.jobs /\ script'.gen = script.gen
  BY <1>1 DEF Scripts
<1>3. wire' \in Seq(Messages)
  BY <1>1, MsgsAre, AppendIs
<1>4. DetectTypes' /\ Unloaded'
  BY <1>1, <1>2, <1>3 DEF ToggleInv, DetectTypes, Unloaded
<1>5. ~live.ready
  BY <1>1 DEF ToggleInv, Unloaded
<1>6. live.bar => Untouched'
  <2> SUFFICES ASSUME live.bar PROVE Untouched'
    OBVIOUS
  <2>1. Untouched
    BY <1>5 DEF ToggleInv
  <2>2. InWire({"remove", "ready"})
    BY <2>1, UnloadedIs DEF ToggleInv
  <2>3. InWire({"remove", "ready"})'
    BY <1>1, <2>2, MsgsAre, AppendAll DEF InWire
  <2> QED
    BY <1>1, <1>2, <1>4, <2>1, <2>3, UnloadedIs DEF Untouched, InWire
<1>7. Cleared => Cleared'
  <2>1. ~Cmd(Ready)
    BY MsgsAre DEF Cmd
  <2>2. NoCmd(wire) => NoCmd(wire')
    BY <1>1, <2>1, MsgsAre, AppendCmd
  <2>3. LastRemove(wire) => LastRemove(wire')
    BY <1>1, <2>1, MsgsAre, AppendCmd
  <2> QED
    BY <1>2, <2>2, <2>3 DEF Cleared, Idling
<1> QED
  BY <1>1, <1>4, <1>5, <1>6, <1>7 DEF ToggleInv

\* An analysis settles: one of the overlays on display, or of an earlier scan.
LEMMA SettleStep ==
  ASSUME ToggleInv, AnalysisSettles
  PROVE  ToggleInv'
<1>1. PICK j \in script.jobs, extra \in BOOLEAN, more \in BOOLEAN :
        LET rest  == script.jobs \ {j}
            grown == script.drawn + (IF extra THEN 1 ELSE 0)
        IN /\ more => ~j.lazy
           /\ IF j.gen = script.gen
              THEN /\ script' = [script EXCEPT !.drawn = grown,
                        !.jobs = rest \cup (IF more THEN {[j EXCEPT !.lazy = TRUE]} ELSE {})]
                   /\ wire' = IF ~j.lazy \/ extra THEN Append(wire, Results(j.id, grown)) ELSE wire
              ELSE /\ ~extra /\ ~more
                   /\ script' = [script EXCEPT !.jobs = rest]
                   /\ UNCHANGED wire
           /\ UNCHANGED live
  BY DEF AnalysisSettles
<1>2. /\ live \in Toggles /\ script \in Scripts /\ wire \in Seq(Messages) /\ live' = live
      /\ j \in [gen : Nat, id : Nat, lazy : BOOLEAN] /\ script.drawn \in Nat
  BY <1>1 DEF ToggleInv, DetectTypes, Scripts
<1>3. script.up /\ script.jobs # {}
  BY <1>1 DEF ToggleInv, Unloaded
<1>4. ~(live.bar /\ ~live.ready)
  BY <1>3 DEF ToggleInv, Untouched
<1>5. CASE j.gen # script.gen
  <2>1. UNCHANGED wire /\ script' = [script EXCEPT !.jobs = script.jobs \ {j}]
    BY <1>1, <1>5
  <2>2. /\ script' \in Scripts /\ script'.up /\ script'.drawn = script.drawn
        /\ script'.jobs \subseteq script.jobs /\ script'.gen = script.gen
    BY <1>2, <1>3, <2>1 DEF Scripts
  <2>3. DetectTypes' /\ Unloaded'
    BY <1>2, <2>1, <2>2 DEF ToggleInv, DetectTypes, Unloaded
  <2>4. (Cleared => Cleared') /\ (Rescanned => Rescanned')
    BY <1>2, <2>1, <2>2 DEF Cleared, Idling, Rescanned, Settled
  <2> QED
    BY <1>2, <1>4, <2>3, <2>4 DEF ToggleInv
<1>6. CASE j.gen = script.gen
  <2> DEFINE grown == script.drawn + (IF extra THEN 1 ELSE 0)
             next == [j EXCEPT !.lazy = TRUE]
             m == Results(j.id, grown)
             jobs == (script.jobs \ {j}) \cup (IF more THEN {next} ELSE {})
  <2>1. /\ script' = [script EXCEPT !.drawn = grown, !.jobs = jobs]
        /\ wire' = IF ~j.lazy \/ extra THEN Append(wire, m) ELSE wire
    BY <1>1, <1>6
  <2>2. /\ grown \in Nat /\ next \in [gen : Nat, id : Nat, lazy : BOOLEAN]
        /\ next.gen = j.gen /\ next.id = j.id
    <3>1. grown \in Nat
      BY <1>2
    <3>2. /\ next \in [gen : Nat, id : Nat, lazy : BOOLEAN]
          /\ next.gen = j.gen /\ next.id = j.id
      BY <1>2
    <3> QED
      BY <3>1, <3>2
  <2>3. m \in Messages /\ m.type = "results" /\ m.id = j.id /\ m.n = grown
    BY <1>2, <2>2, MsgsAre
  <2>4. jobs \subseteq [gen : Nat, id : Nat, lazy : BOOLEAN]
    BY <1>2, <2>2 DEF Scripts
  <2>5. \A i \in jobs : \E k \in script.jobs : i.gen = k.gen /\ i.id = k.id
    BY <1>1, <2>2
  <2>6. ~extra => grown = script.drawn
    BY <1>2
  <2> HIDE DEF grown, next, m, jobs
  <2>7. /\ script' \in Scripts /\ script'.up /\ script'.drawn = grown
        /\ script'.jobs = jobs /\ script'.gen = script.gen
    BY <1>2, <1>3, <2>1, <2>2, <2>4 DEF Scripts
  <2>8. wire' \in Seq(Messages)
    BY <1>2, <2>1, <2>3, AppendIs
  <2>9. DetectTypes' /\ Unloaded'
    BY <1>2, <2>5, <2>7, <2>8 DEF ToggleInv, DetectTypes, Unloaded
  <2>10. ~Cmd(m)
    BY <2>3 DEF Cmd
  <2>11. Cleared => Cleared'
    <3>1. ~Idling
      BY <1>1, <1>6 DEF Idling
    <3>2. LastRemove(wire) => LastRemove(wire')
      BY <1>2, <2>1, <2>3, <2>10, AppendCmd
    <3> QED
      BY <3>1, <3>2 DEF Cleared
  <2>12. Rescanned => Rescanned'
    <3> DEFINE a == live.active
    <3>1. LastScan(wire, a) => LastScan(wire', a)
      BY <1>2, <2>1, <2>3, <2>10, AppendCmd
    <3>2. NoCmd(wire) => NoCmd(wire')
      BY <1>2, <2>1, <2>3, <2>10, AppendCmd
    <3>3. Settled(a) => Settled(a)' /\ j.id = a
      BY <1>1, <1>2, <1>6, <2>5, <2>7 DEF Settled
    <3>4. ASSUME Settled(a), Badge(wire, a, live.count, script.drawn)
          PROVE  Badge(wire', a, live.count, grown)
      <4>1. CASE ~j.lazy \/ extra
        <5>1. wire' = Append(wire, m) /\ Answers(m, a)
          BY <2>1, <2>3, <3>3, <3>4, <4>1 DEF Answers
        <5> QED
          BY <1>2, <2>3, <5>1, AppendBadge
      <4>2. CASE ~(~j.lazy \/ extra)
        BY <2>1, <2>6, <3>4, <4>2
      <4> QED
        BY <4>1, <4>2
    <3> QED
      BY <1>2, <2>7, <3>1, <3>2, <3>3, <3>4 DEF Rescanned
  <2> QED
    BY <1>2, <1>4, <2>9, <2>11, <2>12 DEF ToggleInv
<1> QED
  BY <1>5, <1>6

LEMMA RequestIs ==
  ASSUME NEW l \in Toggles
  PROVE  /\ RequestScan(l) \in Toggles /\ l.seq + 1 \in Nat
         /\ RequestScan(l).seq = l.seq + 1 /\ RequestScan(l).active = l.seq + 1
         /\ RequestScan(l).bar = l.bar /\ RequestScan(l).on = l.on
         /\ RequestScan(l).ready = l.ready /\ RequestScan(l).count = l.count
<1>1. l.seq + 1 \in Nat /\ RequestScan(l) = [l EXCEPT !.seq = l.seq + 1, !.active = l.seq + 1]
  BY DEF RequestScan, Toggles
<1> QED
  BY <1>1 DEF Toggles

\* Deliver's queue: the tail, then what the toggle asks for, then the answer.
Asked(l) == IF l.active # live.active THEN Append(Tail(wire), Scan(l.active)) ELSE Tail(wire)

LEMMA DeliverIs ==
  ASSUME ToggleInv, Deliver
  PROVE  /\ wire # <<>> /\ wire \in Seq(Messages) /\ Head(wire) \in Messages
         /\ Tail(wire) \in Seq(Messages)
         /\ \E n \in 0..1 :
              /\ live' = OnDetectMessage(live, Head(wire))
              /\ script' = OnCommand(script, Head(wire), n)
              /\ wire' = IF script.up /\ Head(wire).type = "scan"
                         THEN Append(Asked(live'), Results(Head(wire).id, n))
                         ELSE Asked(live')
<1>1. wire # <<>> /\ wire \in Seq(Messages)
  BY DEF Deliver, ToggleInv, DetectTypes
<1>2. Head(wire) \in Messages /\ Tail(wire) \in Seq(Messages)
  BY <1>1, TailIs
<1> DEFINE m == Head(wire)
           l == OnDetectMessage(live, m)
<1>3. PICK n \in 0..1 :
        /\ live' = l /\ script' = OnCommand(script, m, n)
        /\ wire' = Tail(wire)
              \o (IF l.active # live.active THEN <<Scan(l.active)>> ELSE <<>>)
              \o (IF script.up /\ m.type = "scan" THEN <<Results(m.id, n)>> ELSE <<>>)
  BY DEF Deliver
<1> HIDE DEF m, l
<1>4. \A s : s \in Seq(Messages) => s \o <<>> = s
  OBVIOUS
<1>5. \A x : x \in Messages => \A s : s \in Seq(Messages) => s \o <<x>> = Append(s, x)
  OBVIOUS
<1>6. l.active # live.active => Scan(l.active) \in Messages
  <2> SUFFICES ASSUME l.active # live.active PROVE Scan(l.active) \in Messages
    OBVIOUS
  <2>1. live \in Toggles
    BY DEF ToggleInv, DetectTypes
  <2>2. l = live \/ l = [live EXCEPT !.ready = TRUE] \/ l = [live EXCEPT !.count = m.n]
          \/ l = RequestScan([[live EXCEPT !.ready = TRUE] EXCEPT !.wanted = FALSE])
    BY <1>2, <2>1 DEF l, m, OnDetectMessage, Messages
  <2>3. l.active \in Nat
    <3>1. /\ live \in Toggles /\ [live EXCEPT !.ready = TRUE] \in Toggles
          /\ [[live EXCEPT !.ready = TRUE] EXCEPT !.wanted = FALSE] \in Toggles
          /\ m.n \in Nat
      BY <1>2, <2>1 DEF Toggles, m, Messages
    <3>2. [live EXCEPT !.count = m.n] \in Toggles
      BY <3>1 DEF Toggles
    <3>3. l \in Toggles
      BY <2>2, <3>1, <3>2, RequestIs
    <3> QED
      BY <3>3 DEF Toggles
  <2> QED
    BY <2>3, MsgsAre
<1>7. Results(m.id, n) \in Messages
  <2>1. m.id \in Nat /\ n \in Nat
    BY <1>2 DEF m, Messages
  <2> QED
    BY <2>1, MsgsAre
<1>8. Asked(l) \in Seq(Messages)
        /\ Asked(l) = Tail(wire) \o (IF l.active # live.active THEN <<Scan(l.active)>> ELSE <<>>)
  <2>1. CASE l.active = live.active
    BY <1>2, <1>4, <2>1 DEF Asked
  <2>2. CASE l.active # live.active
    <3>1. Asked(l) = Append(Tail(wire), Scan(l.active))
      BY <2>2 DEF Asked
    <3> QED
      BY <1>2, <1>5, <1>6, <2>2, <3>1, AppendIs
  <2> QED
    BY <2>1, <2>2
<1>9. wire' = IF script.up /\ m.type = "scan"
              THEN Append(Asked(live'), Results(m.id, n)) ELSE Asked(live')
  BY <1>3, <1>4, <1>5, <1>7, <1>8
<1> QED
  BY <1>1, <1>2, <1>3, <1>9 DEF m, l

\* The script's answer that it is up, which may bring the first scan.
LEMMA ReadyStep ==
  ASSUME ToggleInv, Deliver, Head(wire).type = "ready"
  PROVE  ToggleInv'
<1> DEFINE m == Head(wire)
           t == Tail(wire)
<1>1. /\ wire # <<>> /\ wire \in Seq(Messages) /\ m \in Messages /\ t \in Seq(Messages)
      /\ live' = OnDetectMessage(live, m) /\ script' = script
      /\ wire' = Asked(live')
  BY DeliverIs DEF OnCommand
<1>2. live \in Toggles /\ script \in Scripts
  BY DEF ToggleInv, DetectTypes
<1>3. ~Cmd(m) /\ \A id : ~Answers(m, id)
  BY DEF Cmd, Answers
<1>4. (NoCmd(wire) => NoCmd(t)) /\ (LastRemove(wire) => LastRemove(t))
        /\ \A id : LastScan(wire, id) => LastScan(t, id)
  BY <1>1, <1>3, TailCmd DEF Cmd
<1>5. script.up
  BY <1>1, TailIs DEF ToggleInv, Unloaded
<1>6. Unloaded'
  BY <1>1, <1>5 DEF Unloaded
<1>7. CASE live.bar /\ live.wanted /\ live.on
  <2>1. live' = RequestScan([[live EXCEPT !.ready = TRUE] EXCEPT !.wanted = FALSE])
    BY <1>1, <1>7 DEF OnDetectMessage
  <2>2. /\ live' \in Toggles /\ live'.bar /\ live'.on /\ live'.ready
        /\ live'.active = live.seq + 1 /\ live'.seq = live.seq + 1
        /\ live.active # live.seq + 1 /\ live.seq + 1 \in Nat
    <3> DEFINE x == [[live EXCEPT !.ready = TRUE] EXCEPT !.wanted = FALSE]
    <3>1. /\ x \in Toggles /\ x.seq = live.seq /\ x.bar = live.bar /\ x.on = live.on /\ x.ready
      BY <1>2 DEF Toggles
    <3>2. live.seq \in Nat /\ live.active \in Nat /\ live.active <= live.seq
      BY <1>2 DEF Toggles, ToggleInv, DetectTypes
    <3> HIDE DEF x
    <3>3. live' = RequestScan(x)
      BY <2>1 DEF x
    <3>4. /\ live' \in Toggles /\ live'.active = x.seq + 1 /\ live'.seq = x.seq + 1
          /\ live'.bar = x.bar /\ live'.on = x.on /\ live'.ready = x.ready
      BY ONLY <3>1, <3>3, RequestIs
    <3>5. live.active # live.seq + 1 /\ live.seq + 1 \in Nat
      BY ONLY <3>2
    <3> QED
      BY <1>7, <3>1, <3>4, <3>5
  <2>3. wire' = Append(t, Scan(live.seq + 1))
    BY <1>1, <2>2 DEF Asked
  <2>4. wire' \in Seq(Messages) /\ LastScan(wire', live.seq + 1)
    <3> DEFINE s == Scan(live.seq + 1)
    <3>1. s \in Messages /\ s.type = "scan" /\ s.id = live.seq + 1
      BY <2>2, MsgsAre
    <3> HIDE DEF s
    <3>2. t \in Seq(Messages)
      BY <1>1
    <3>3. Append(t, s) \in Seq(Messages)
      BY ONLY <3>1, <3>2, AppendIs
    <3>4. LastScan(Append(t, s), live.seq + 1)
      BY ONLY <3>1, <3>2, AppendCmd
    <3> QED
      BY <2>3, <3>3, <3>4 DEF s
  <2>5. DetectTypes' /\ Rescanned'
    <3>1. live'.active <= live'.seq /\ live'.active # 0
      BY <1>2, <2>2 DEF Toggles
    <3> QED
      BY <1>1, <1>2, <2>2, <2>4, <3>1 DEF ToggleInv, DetectTypes, Rescanned
  <2> QED
    BY <1>6, <2>2, <2>5 DEF ToggleInv
<1>8. CASE ~(live.bar /\ live.wanted /\ live.on)
  <2>1. live' = live \/ live' = [live EXCEPT !.ready = TRUE]
    BY <1>1, <1>8 DEF OnDetectMessage
  <2>2. /\ live' \in Toggles /\ live'.active = live.active /\ live'.seq = live.seq
        /\ live'.bar = live.bar /\ live'.on = live.on /\ live'.count = live.count
        /\ live'.ready \/ (live'.ready = live.ready /\ ~live.bar)
    <3>1. live.bar => live' = [live EXCEPT !.ready = TRUE]
      BY <1>1, <1>8 DEF OnDetectMessage
    <3> QED
      BY <1>2, <2>1, <3>1 DEF Toggles
  <2>3. wire' = t
    BY <1>1, <2>2 DEF Asked
  <2>4. DetectTypes'
    BY <1>1, <1>2, <2>2, <2>3 DEF ToggleInv, DetectTypes
  <2>5. Cleared => Cleared'
    BY <1>1, <1>4, <2>3 DEF Cleared, Idling
  <2>6. Rescanned => Rescanned'
    <3>1. Badge(wire, live.active, live.count, script.drawn)
            => Badge(t, live.active, live.count, script.drawn)
      BY <1>1, <1>3, TailBadge
    <3> QED
      BY <1>1, <1>4, <2>2, <2>3, <3>1 DEF Rescanned, Settled
  <2>7. live.bar /\ live.on => live.ready
    BY <1>8 DEF ToggleInv
  <2> QED
    BY <1>6, <2>2, <2>4, <2>5, <2>6, <2>7 DEF ToggleInv
<1> QED
  BY <1>7, <1>8

LEMMA RemoveStep ==
  ASSUME ToggleInv, Deliver, Head(wire).type = "remove"
  PROVE  ToggleInv'
<1> DEFINE m == Head(wire)
           t == Tail(wire)
<1>1. /\ wire # <<>> /\ wire \in Seq(Messages) /\ m \in Messages /\ t \in Seq(Messages)
      /\ live' = live /\ script' = IF script.up THEN ClearOverlays(script) ELSE script
      /\ wire' = t
  BY DeliverIs DEF OnCommand, OnDetectMessage, Asked
<1>2. live \in Toggles /\ script \in Scripts
  BY DEF ToggleInv, DetectTypes
<1>3. /\ script' \in Scripts /\ script'.up = script.up /\ script'.jobs = script.jobs
      /\ script'.drawn = 0 /\ script'.gen \in {script.gen, script.gen + 1}
      /\ \A j \in script.jobs : j.gen <= script'.gen /\ j.gen # script'.gen
  <2>1. CASE script.up
    <3>1. script' = [script EXCEPT !.gen = script.gen + 1, !.drawn = 0]
      BY <1>1, <2>1 DEF ClearOverlays
    <3>2. \A j \in script.jobs : j.gen \in Nat /\ j.gen <= script.gen
      BY <1>2 DEF Scripts, ToggleInv, DetectTypes
    <3>3. script.gen \in Nat
      BY <1>2 DEF Scripts
    <3>4. \A j \in script.jobs : j.gen <= script.gen + 1 /\ j.gen # script.gen + 1
      BY <3>2, <3>3
    <3>5. script \in Scripts /\ script.gen + 1 \in Nat
      BY <1>2, <3>3
    <3>6. /\ script' \in Scripts /\ script'.up = script.up /\ script'.jobs = script.jobs
          /\ script'.drawn = 0 /\ script'.gen = script.gen + 1
      BY ONLY <3>1, <3>5 DEF Scripts
    <3> QED
      BY <3>4, <3>6
  <2>2. CASE ~script.up
    BY <1>1, <1>2, <2>2 DEF ToggleInv, Unloaded
  <2> QED
    BY <2>1, <2>2
<1>4. /\ NoCmd(wire) = FALSE
      /\ LastRemove(wire) => LastRemove(t) \/ NoCmd(t)
      /\ \A id : LastScan(wire, id) => LastScan(t, id)
  <2>1. ~NoCmd(wire)
    BY <1>1, TailCmd DEF Cmd
  <2> QED
    BY <1>1, <2>1, TailCmd
<1>5. DetectTypes'
  BY <1>1, <1>2, <1>3 DEF ToggleInv, DetectTypes
<1>6. \A T : InWire(T) => InWire(T)'
  BY <1>1, TailAll DEF InWire
<1>7. Unloaded'
  <2>1. script.up \/ InWire({"remove", "results"})
    BY UnloadedIs DEF ToggleInv
  <2>2. script'.up \/ InWire({"remove", "results"})'
    BY <1>3, <1>6, <2>1
  <2> QED
    BY <1>1, <1>3, <1>5, <2>2, UnloadedIs DEF ToggleInv, Unloaded, InWire
<1>8. Cleared => Cleared'
  BY <1>1, <1>3, <1>4 DEF Cleared, Idling
<1>9. Untouched => Untouched'
  <2> SUFFICES ASSUME Untouched PROVE Untouched'
    OBVIOUS
  <2>1. InWire({"remove", "ready"})
    BY UnloadedIs DEF ToggleInv
  <2>2. InWire({"remove", "ready"})'
    BY <1>6, <2>1
  <2> QED
    BY <1>1, <1>3, <1>5, <2>2, UnloadedIs DEF Untouched, InWire
<1>10. Rescanned => Rescanned'
  BY <1>1, <1>4 DEF Rescanned
<1> QED
  BY <1>1, <1>5, <1>7, <1>8, <1>9, <1>10 DEF ToggleInv

LEMMA ScanStep ==
  ASSUME ToggleInv, Deliver, Head(wire).type = "scan"
  PROVE  ToggleInv'
<1> DEFINE m == Head(wire)
           t == Tail(wire)
<1>0. /\ wire # <<>> /\ wire \in Seq(Messages) /\ m \in Messages /\ t \in Seq(Messages)
  BY DeliverIs
<1>1. script.up
  BY <1>0, TailIs DEF ToggleInv, Unloaded
<1>2. PICK n \in 0..1 :
        /\ live' = live /\ script' = ScanNow(script, m.id, n)
        /\ wire' = Append(t, Results(m.id, n))
  BY <1>1, DeliverIs DEF OnCommand, OnDetectMessage, Asked
<1>3. live \in Toggles /\ script \in Scripts /\ m.id \in Nat /\ n \in Nat
  BY <1>0 DEF ToggleInv, DetectTypes, Messages
<1> DEFINE r == Results(m.id, n)
           j == [gen |-> script.gen + 1, id |-> m.id, lazy |-> FALSE]
<1>4. r \in Messages /\ r.type = "results" /\ r.id = m.id /\ r.n = n
  BY <1>3, MsgsAre
<1>5. /\ script' = [[script EXCEPT !.gen = script.gen + 1, !.drawn = 0]
                       EXCEPT !.drawn = n, !.jobs = script.jobs \cup {j}]
  BY <1>2, <1>3 DEF ScanNow, ClearOverlays, Scripts
<1>6. /\ script' \in Scripts /\ script'.up /\ script'.drawn = n
      /\ script'.gen = script.gen + 1 /\ script'.jobs = script.jobs \cup {j}
  <2>1. script.gen + 1 \in Nat /\ j \in [gen : Nat, id : Nat, lazy : BOOLEAN]
    BY <1>3 DEF Scripts
  <2> HIDE DEF j
  <2> QED
    BY <1>1, <1>3, <1>5, <2>1 DEF Scripts
<1>7. \A i \in script'.jobs : i.gen <= script'.gen /\ (i.gen # script'.gen \/ i.id = m.id)
  <2>1. script.gen \in Nat /\ \A i \in script.jobs : i.gen \in Nat /\ i.gen <= script.gen
    BY <1>3 DEF Scripts, ToggleInv, DetectTypes
  <2> QED
    BY <1>6, <2>1
<1> HIDE DEF j, r
<1>8. wire' = Append(t, r) /\ wire' \in Seq(Messages) /\ ~Cmd(r)
  BY <1>0, <1>2, <1>4, AppendIs DEF r, Cmd
<1>9. /\ LastRemove(wire) => LastRemove(t)
      /\ \A id : LastScan(wire, id) => LastScan(t, id) \/ (m.id = id /\ NoCmd(t))
      /\ ~NoCmd(wire)
  BY <1>0, TailCmd DEF Cmd
<1>10. DetectTypes' /\ Unloaded'
  BY <1>2, <1>3, <1>6, <1>7, <1>8 DEF ToggleInv, DetectTypes, Unloaded
<1>11. ~Untouched
  BY <1>0, TailIs DEF Untouched
<1>12. Cleared => Cleared'
  BY <1>0, <1>4, <1>8, <1>9, AppendCmd DEF Cleared
<1>13. Rescanned => Rescanned'
  <2> SUFFICES ASSUME Rescanned PROVE Rescanned'
    OBVIOUS
  <2>1. LastScan(t, live.active) \/ (m.id = live.active /\ NoCmd(t))
    BY <1>9 DEF Rescanned
  <2>2. CASE LastScan(t, live.active)
    <3>1. LastScan(wire', live.active)
      BY <1>0, <1>4, <1>8, <2>2, AppendCmd
    <3> QED
      BY <1>2, <3>1 DEF Rescanned
  <2>3. CASE m.id = live.active /\ NoCmd(t)
    <3>1. NoCmd(wire')
      BY <1>0, <1>4, <1>8, <2>3, AppendCmd
    <3>2. Settled(live.active)'
      BY <1>2, <1>7, <2>3 DEF Settled
    <3>3. Answers(r, live.active)
      BY <1>4, <2>3 DEF Answers
    <3>4. Badge(wire', live.active, live.count, n)
      BY <1>0, <1>4, <1>8, <3>3, AppendBadge
    <3> QED
      BY <1>2, <1>6, <3>1, <3>2, <3>4 DEF Rescanned
  <2> QED
    BY <2>1, <2>2, <2>3
<1> QED
  BY <1>2, <1>10, <1>11, <1>12, <1>13 DEF ToggleInv

LEMMA ResultsStep ==
  ASSUME ToggleInv, Deliver, Head(wire).type = "results"
  PROVE  ToggleInv'
<1> DEFINE m == Head(wire)
           t == Tail(wire)
<1>1. /\ wire # <<>> /\ wire \in Seq(Messages) /\ m \in Messages /\ t \in Seq(Messages)
      /\ live' = OnDetectMessage(live, m) /\ script' = script
      /\ wire' = Asked(live')
  BY DeliverIs DEF OnCommand
<1>2. live \in Toggles /\ script \in Scripts /\ m.n \in Nat
  BY <1>1 DEF ToggleInv, DetectTypes, Messages
<1>3. live' = IF live.bar /\ live.on /\ (live.active = 0 \/ m.id = live.active)
              THEN [live EXCEPT !.count = m.n] ELSE live
  BY <1>1 DEF OnDetectMessage
<1>4. /\ live' \in Toggles /\ live'.active = live.active /\ live'.seq = live.seq
      /\ live'.bar = live.bar /\ live'.on = live.on /\ live'.ready = live.ready
      /\ live'.wanted = live.wanted
      /\ live'.count = IF live.bar /\ live.on /\ (live.active = 0 \/ m.id = live.active)
                       THEN m.n ELSE live.count
  BY <1>2, <1>3 DEF Toggles
<1>5. wire' = t
  BY <1>1, <1>4 DEF Asked
<1>6. /\ NoCmd(wire) => NoCmd(t)
      /\ LastRemove(wire) => LastRemove(t)
      /\ \A id : LastScan(wire, id) => LastScan(t, id)
  BY <1>1, TailCmd
<1>7. DetectTypes'
  BY <1>1, <1>2, <1>4, <1>5 DEF ToggleInv, DetectTypes
<1>8. Unloaded'
  <2>1. script.up \/ InWire({"remove", "results"})
    BY UnloadedIs DEF ToggleInv
  <2>2. script'.up \/ InWire({"remove", "results"})'
    BY <1>1, <1>5, <2>1, TailAll DEF InWire
  <2> QED
    BY <1>1, <1>4, <1>7, <2>2, UnloadedIs DEF ToggleInv, Unloaded, InWire
<1>9. ~Untouched
  BY <1>1, TailIs DEF Untouched
<1>10. Cleared => Cleared'
  BY <1>1, <1>5, <1>6 DEF Cleared, Idling
<1>11. live.bar /\ live.on /\ Rescanned => Rescanned'
  <2> SUFFICES ASSUME live.bar, live.on, Rescanned PROVE Rescanned'
    OBVIOUS
  <2>1. live'.count = IF Answers(m, live.active) THEN m.n ELSE live.count
    BY <1>4 DEF Rescanned, Answers
  <2>2. Badge(wire, live.active, live.count, script.drawn)
          => Badge(t, live.active, live'.count, script.drawn)
    BY <1>1, <2>1, TailBadge
  <2> QED
    BY <1>1, <1>4, <1>5, <1>6, <2>2 DEF Rescanned, Settled
<1> QED
  BY <1>4, <1>7, <1>8, <1>9, <1>10, <1>11 DEF ToggleInv

LEMMA DetectStepHolds ==
  ASSUME ToggleInv, \/ Deliver \/ ScriptLoads \/ AnalysisSettles
                    \/ DetectOff \/ DetectExit \/ (DetectOn /\ live.bar)
                    \/ UNCHANGED dvars
  PROVE  ToggleInv'
<1>1. CASE Deliver
  <2>1. Head(wire).type \in {"ready", "remove", "scan", "results"}
    BY <1>1, DeliverIs DEF Messages
  <2> QED
    BY <1>1, <2>1, ReadyStep, RemoveStep, ScanStep, ResultsStep
<1>2. CASE UNCHANGED dvars
  BY <1>2 DEF dvars, ToggleInv, DetectTypes, Unloaded, Untouched, Cleared, Idling,
     Rescanned, Settled
<1> QED
  BY <1>1, <1>2, LoadStep, SettleStep, OffStep, OnStep


(***************************************************************************)
(* Only the toggle, the teardown and the detector's own steps touch these  *)
(* variables, and the bar outlives every step of the page but the last.    *)
(***************************************************************************)
Apart == page.alive /\ UNCHANGED dvars

LEMMA UserStepsApart ==
  ASSUME UserStep, ~ClickDetect, ~Teardown
  PROVE  Apart
<1>1. MouseMove => Apart
  BY DEF MouseMove, User, Event, Apart
<1>2. ClickPage => Apart
  BY DEF ClickPage, User, Event, Apart
<1>3. KeyPick => Apart
  BY DEF KeyPick, User, Event, Apart
<1>4. Escape => Apart
  BY DEF Escape, User, Event, Apart
<1>5. TogglePick => Apart
  BY DEF TogglePick, User, Event, Apart
<1>6. ToggleInsert => Apart
  BY DEF ToggleInsert, User, Event, Apart
<1>7. TypePrompt => Apart
  BY DEF TypePrompt, User, Event, Apart
<1>8. ClickPill => Apart
  BY DEF ClickPill, User, Event, Apart
<1>9. ClickAction => Apart
  BY DEF ClickAction, User, Event, Apart
<1>10. ChooseAction => Apart
  BY DEF ChooseAction, User, Event, Apart
<1>11. Go => Apart
  BY DEF Go, User, Event, Apart
<1>12. Create => Apart
  BY DEF Create, User, Event, Apart
<1>13. AnnotDown => Apart
  BY DEF AnnotDown, User, Event, Apart
<1>14. AnnotMove => Apart
  BY DEF AnnotMove, User, Event, Apart
<1>15. AnnotUp => Apart
  BY DEF AnnotUp, User, Event, Apart
<1>16. NoteInput => Apart
  BY DEF NoteInput, User, Event, Apart
<1>17. ClickEdit => Apart
  BY DEF ClickEdit, User, Event, Apart
<1>18. TypeCopy => Apart
  BY DEF TypeCopy, User, Event, Apart
<1>19. ClickCancel => Apart
  BY DEF ClickCancel, User, Event, Apart
<1>20. ClickSave => Apart
  BY DEF ClickSave, User, Event, Apart
<1>21. ClickTune => Apart
  BY DEF ClickTune, User, Event, Apart
<1>22. TurnKnob => Apart
  BY DEF TurnKnob, User, Event, Apart
<1>23. ClickAccept => Apart
  BY DEF ClickAccept, User, Event, Apart
<1>24. ClickDiscard => Apart
  BY DEF ClickDiscard, User, Event, Apart
<1>25. TypeSteer => Apart
  BY DEF TypeSteer, User, Event, Apart
<1>26. Steer => Apart
  BY DEF Steer, User, Event, Steers, Apart
<1>27. ClickVoice => Apart
  BY DEF ClickVoice, User, Event, Apart
<1> QED
  BY <1>1, <1>2, <1>3, <1>4, <1>5, <1>6, <1>7, <1>8, <1>9, <1>10, <1>11, <1>12, <1>13,
     <1>14, <1>15, <1>16, <1>17, <1>18, <1>19, <1>20, <1>21, <1>22, <1>23, <1>24, <1>25,
     <1>26, <1>27 DEF UserStep, GlobalBar

LEMMA PageEventsApart ==
  ASSUME PageEvent, ~DetectStep
  PROVE  Apart
<1>1. HideTimer => Apart
  BY DEF HideTimer, User, Event, Apart
<1>2. PickerTimer => Apart
  BY DEF PickerTimer, User, Event, Apart
<1>3. SaveAnswered => Apart
  BY DEF SaveAnswered, User, Event, Apart
<1>4. ApplyFlips => Apart
  BY DEF ApplyFlips, User, Event, Apart
<1>5. VariantArrives => Apart
  BY DEF VariantArrives, User, Event, Apart
<1>6. AcceptAnswered => Apart
  BY DEF AcceptAnswered, User, Event, Apart
<1>7. Complete => Apart
  BY DEF Complete, User, Event, Apart
<1>8. AcceptCleanup => Apart
  BY DEF AcceptCleanup, User, Event, Apart
<1>9. DiscardAnswered => Apart
  BY DEF DiscardAnswered, User, Event, Apart
<1>10. Discarded => Apart
  BY DEF Discarded, User, Event, Apart
<1>11. ErrorMsg => Apart
  BY DEF ErrorMsg, User, Event, Apart
<1>12. ServerLost => Apart
  BY DEF ServerLost, User, Event, Apart
<1>13. SteerSent => Apart
  BY DEF SteerSent, User, Event, Apart
<1>14. SteerAnswered => Apart
  BY DEF SteerAnswered, User, Event, Apart
<1>15. SteerTimeout => Apart
  BY DEF SteerTimeout, User, Event, Apart
<1>16. VoiceHears => Apart
  BY DEF VoiceHears, User, Event, Apart
<1>17. VoiceEnds => Apart
  BY DEF VoiceEnds, User, Event, Steers, Apart
<1> QED
  BY <1>1, <1>2, <1>3, <1>4, <1>5, <1>6, <1>7, <1>8, <1>9, <1>10, <1>11, <1>12, <1>13,
     <1>14, <1>15, <1>16, <1>17 DEF PageEvent

PageInv == ToggleInv /\ (page.alive => live.bar)

LEMMA PageStart == ChromeInit => PageInv
<1> SUFFICES ASSUME ChromeInit PROVE PageInv
  OBVIOUS
<1>1. /\ live = [bar |-> TRUE, on |-> FALSE, loaded |-> FALSE, ready |-> FALSE, wanted |-> FALSE,
                 seq |-> 0, active |-> 0, count |-> 0]
      /\ script = [up |-> FALSE, gen |-> 0, drawn |-> 0, jobs |-> {}]
      /\ wire = <<>>
  BY DEF ChromeInit, OverlaysInit
<1>2. live \in Toggles /\ script \in Scripts /\ wire \in Seq(Messages) /\ Len(wire) = 0
  BY <1>1 DEF Toggles, Scripts
<1>3. 1..Len(wire) = {}
  BY <1>2
<1>4. DetectTypes
  BY <1>1, <1>2 DEF DetectTypes
<1>5. Unloaded /\ Untouched /\ NoCmd(wire) /\ Idling
  BY <1>1, <1>3 DEF Unloaded, Untouched, NoCmd, Idling
<1> QED
  BY <1>1, <1>4, <1>5 DEF PageInv, ToggleInv, Cleared

LEMMA TeardownIs ==
  ASSUME ToggleInv, Teardown
  PROVE  DetectExit /\ ~page'.alive
<1>1. page' = [PageInit EXCEPT !.alive = FALSE, !.st = "IDLE",
                               !.dom = HideBar(Cleanup(StopVoice(page))).dom]
  BY DEF Teardown
<1>2. "alive" \in DOMAIN PageInit
  <2>1. \A f, g, x : x \in DOMAIN f \/ x \in DOMAIN g => x \in DOMAIN With(f, g)
    BY DEF With
  <2>2. "alive" \in DOMAIN SessionInit
    BY DEF SessionInit
  <2> DEFINE w == With(SessionInit, [st |-> "PICKING"])
             v == With(With(With(AnnotInit, BarInit), With(PickerInit, TuneInit)),
                       With(With(EditInit, ChatInit), SelectionInit))
  <2>3. PageInit = With(v, w)
    BY DEF PageInit
  <2>4. "alive" \in DOMAIN w
    BY <2>1, <2>2, Zenon
  <2> HIDE DEF v, w
  <2> QED
    BY <2>1, <2>3, <2>4, Zenon
<1>3. page'.alive = FALSE
  <2> DEFINE e == [PageInit EXCEPT !.alive = FALSE]
             f == [e EXCEPT !.st = "IDLE"]
  <2>1. DOMAIN e = DOMAIN PageInit /\ e.alive = FALSE
    BY <1>2
  <2>2. DOMAIN f = DOMAIN PageInit /\ f.alive = FALSE
    BY <1>2, <2>1
  <2> HIDE DEF e, f
  <2>3. page' = [f EXCEPT !.dom = HideBar(Cleanup(StopVoice(page))).dom]
    BY <1>1 DEF e, f
  <2> QED
    BY <1>2, <2>2, <2>3
<1> QED
  BY <1>3 DEF Teardown

LEMMA PageStep ==
  ASSUME PageInv, [ChromeNext]_chromeVars
  PROVE  PageInv'
<1>1. CASE Apart \/ UNCHANGED chromeVars
  <2>1. UNCHANGED dvars /\ (page'.alive => live.bar)
    BY <1>1 DEF Apart, chromeVars, dvars, PageInv
  <2> QED
    BY <2>1, DetectStepHolds DEF PageInv, dvars
<1>2. CASE ClickDetect
  <2>1. page' = page /\ live.bar /\ (DetectOn \/ DetectOff)
    BY <1>2 DEF ClickDetect, PageInv
  <2>2. live'.bar
    BY <2>1 DEF PageInv, ToggleInv, DetectTypes, Toggles, DetectOn, DetectOff, RequestScan
  <2> QED
    BY <2>1, <2>2, DetectStepHolds DEF PageInv
<1>3. CASE Teardown
  BY <1>3, TeardownIs, DetectStepHolds DEF PageInv
<1>4. CASE DetectStep
  <2>1. page' = page /\ (Deliver \/ ScriptLoads \/ AnalysisSettles)
    BY <1>4 DEF DetectStep, pvars
  <2>2. live'.bar = live.bar
    <3>1. live \in Toggles
      BY DEF PageInv, ToggleInv, DetectTypes
    <3>2. ScriptLoads \/ AnalysisSettles => live' = live
      BY DEF ScriptLoads, AnalysisSettles
    <3>3. Deliver => live' = OnDetectMessage(live, Head(wire))
      BY DEF Deliver
    <3>4. OnDetectMessage(live, Head(wire)).bar = live.bar
      <4> DEFINE r == [live EXCEPT !.ready = TRUE]
                 x == [r EXCEPT !.wanted = FALSE]
      <4>1. r.bar = live.bar /\ x \in Toggles /\ x.bar = live.bar
        BY <3>1 DEF Toggles
      <4>2. RequestScan(x).bar = live.bar
        BY <4>1, RequestIs
      <4>3. \A n : [live EXCEPT !.count = n].bar = live.bar
        BY <3>1 DEF Toggles
      <4> QED
        BY <4>1, <4>2, <4>3 DEF OnDetectMessage
    <3> QED
      BY <2>1, <3>2, <3>3, <3>4
  <2> QED
    BY <2>1, <2>2, DetectStepHolds DEF PageInv
<1> QED
  BY <1>1, <1>2, <1>3, <1>4, UserStepsApart, PageEventsApart DEF ChromeNext

\* Once the message queue has drained the page shows what the Detect toggle
\* says: onDetectMessage and the injected script's listener exchange scans,
\* removals and results in any order (live-browser.js, injected/index.mjs).
THEOREM DetectSettlesHolds == ChromeSpec => []DetectSettles
<1>1. ChromeInit => PageInv
  BY PageStart
<1>2. PageInv /\ [ChromeNext]_chromeVars => PageInv'
  BY PageStep
<1>3. PageInv => DetectSettles
  <2> SUFFICES ASSUME PageInv, wire = <<>>
      PROVE IF live.bar /\ live.on THEN live.count = script.drawn
            ELSE script.drawn = 0 /\ (live.bar => live.count = 0)
    BY DEF DetectSettles
  <2>1. Len(wire) = 0
    OBVIOUS
  <2>2. 1..Len(wire) = {}
    BY <2>1
  <2> QED
    BY <2>2 DEF PageInv, ToggleInv, Cleared, LastRemove, Idling, Untouched, Rescanned,
                LastScan, Badge
<1> QED
  BY <1>1, <1>2, <1>3, PTL DEF ChromeSpec

(***************************************************************************)
(* The chrome.  Of each operator on the page, what it does to the fields   *)
(* the three properties of the chrome speak of.                            *)
(***************************************************************************)
PageFields ==
  {"alive", "conn", "session", "vars", "sent", "saves", "st", "sel", "kind", "pins", "strokes",
   "bar", "hide", "rows", "draft", "dom", "base"}
IsPage(p) == PageFields \subseteq DOMAIN p /\ "on" \in DOMAIN p.bar

SameLife(p, q) ==
  /\ q.alive = p.alive /\ q.conn = p.conn /\ q.session = p.session /\ q.vars = p.vars
  /\ q.sent = p.sent /\ q.saves = p.saves
SameAim(p, q) == q.st = p.st /\ q.sel = p.sel /\ q.kind = p.kind
SameMarks(p, q) == q.pins = p.pins /\ q.strokes = p.strokes
SameBar(p, q) == q.bar.on = p.bar.on /\ q.hide = p.hide
SameText(p, q) == q.rows = p.rows /\ q.draft = p.draft /\ q.dom = p.dom /\ q.base = p.base
Alike(p, q) ==
  /\ IsPage(q) /\ SameLife(p, q) /\ SameAim(p, q) /\ SameMarks(p, q)
  /\ SameBar(p, q) /\ SameText(p, q)

Unedited(q) == ~q.rows /\ ~q.draft
Unmarked(q) == q.pins = <<>> /\ q.strokes = {}
Undone(p) == IF p.rows /\ p.draft THEN p.base ELSE p.dom

Pins(e) == [text : BOOLEAN, on : {e}]
MarksOn(p, e) == p.pins \in Seq(Pins(e)) /\ p.strokes \subseteq {e}
MarksLost(p, q) == \A e : MarksOn(p, e) => MarksOn(q, e)

LEMMA StopVoiceIs ==
  ASSUME NEW p, IsPage(p)
  PROVE  Alike(p, StopVoice(p))
BY DEF StopVoice, IsPage, PageFields, SameLife, SameAim, SameMarks, SameBar, SameText, Alike

LEMMA StartVoiceIs ==
  ASSUME NEW p, IsPage(p), NEW mode, NEW submit
  PROVE  Alike(p, StartVoice(p, mode, submit))
BY DEF StartVoice, IsPage, PageFields, SameLife, SameAim, SameMarks, SameBar, SameText,
   Alike

LEMMA ShowAnnotOverlayIs ==
  ASSUME NEW p, IsPage(p)
  PROVE  Alike(p, ShowAnnotOverlay(p))
BY DEF ShowAnnotOverlay, IsPage, PageFields, SameLife, SameAim, SameMarks, SameBar,
   SameText, Alike

LEMMA HideAnnotOverlayIs ==
  ASSUME NEW p, IsPage(p)
  PROVE  Alike(p, HideAnnotOverlay(p))
BY DEF HideAnnotOverlay, IsPage, PageFields, SameLife, SameAim, SameMarks, SameBar,
   SameText, Alike

LEMMA BeginEditPinIs ==
  ASSUME NEW p, IsPage(p), NEW i
  PROVE  Alike(p, BeginEditPin(p, i))
BY DEF BeginEditPin, IsPage, PageFields, SameLife, SameAim, SameMarks, SameBar, SameText,
   Alike

LEMMA SyncInsertCreateButtonIs ==
  ASSUME NEW p, IsPage(p)
  PROVE  Alike(p, SyncInsertCreateButton(p))
BY DEF SyncInsertCreateButton, IsPage, PageFields, SameLife, SameAim, SameMarks, SameBar,
   SameText, Alike

LEMMA HideInsertLineIs ==
  ASSUME NEW p, IsPage(p)
  PROVE  Alike(p, HideInsertLine(p))
BY DEF HideInsertLine, IsPage, PageFields, SameLife, SameAim, SameMarks, SameBar,
   SameText, Alike

LEMMA CreateInsertPlaceholderIs ==
  ASSUME NEW p, IsPage(p)
  PROVE  Alike(p, CreateInsertPlaceholder(p))
BY DEF CreateInsertPlaceholder, IsPage, PageFields, SameLife, SameAim, SameMarks, SameBar,
   SameText, Alike

LEMMA RenderEditBadgeIs ==
  ASSUME NEW p, IsPage(p), NEW mode
  PROVE  Alike(p, RenderEditBadge(p, mode))
BY DEF RenderEditBadge, IsPage, PageFields, SameLife, SameAim, SameMarks, SameBar,
   SameText, Alike

LEMMA HideActionPickerIs ==
  ASSUME NEW p, IsPage(p)
  PROVE  Alike(p, HideActionPicker(p))
BY DEF HideActionPicker, IsPage, PageFields, SameLife, SameAim, SameMarks, SameBar,
   SameText, Alike

LEMMA BuildRowIs ==
  ASSUME NEW p, IsPage(p), NEW row
  PROVE  Alike(p, BuildRow(p, row))
BY DEF BuildRow, IsPage, PageFields, SameLife, SameAim, SameMarks, SameBar, SameText, Alike

LEMMA UnlockSteerIs ==
  ASSUME NEW p, IsPage(p), NEW restore
  PROVE  Alike(p, UnlockSteer(p, restore))
BY DEF UnlockSteer, IsPage, PageFields, SameLife, SameAim, SameMarks, SameBar, SameText,
   Alike

LEMMA SyncPageChatVisualIs ==
  ASSUME NEW p, IsPage(p)
  PROVE  Alike(p, SyncPageChatVisual(p))
BY DEF SyncPageChatVisual, IsPage, PageFields, SameLife, SameAim, SameMarks, SameBar,
   SameText, Alike

LEMMA BadgeForIs ==
  ASSUME NEW p, IsPage(p)
  PROVE  Alike(p, BadgeFor(p))
BY RenderEditBadgeIs DEF BadgeFor, IsPage, PageFields, SameLife, SameAim, SameMarks,
   SameBar, SameText, Alike

LEMMA UpdateBarContentIs ==
  ASSUME NEW p, IsPage(p), NEW mode
  PROVE  Alike(p, UpdateBarContent(p, mode))
BY BuildRowIs DEF UpdateBarContent, IsPage, PageFields, SameLife, SameAim, SameMarks,
   SameBar, SameText, Alike

LEMMA ShowBarIs ==
  ASSUME NEW p, IsPage(p), NEW mode
  PROVE  LET q == ShowBar(p, mode)
         IN /\ IsPage(q) /\ SameLife(p, q) /\ SameAim(p, q) /\ SameMarks(p, q)
            /\ q.bar.on /\ ~q.hide /\ SameText(p, q)
<1> DEFINE r == BuildRow(p, RowFor(p, mode))
<1>1. Alike(p, r)
  BY BuildRowIs
<1> HIDE DEF r
<1>2. ShowBar(p, mode) = [r EXCEPT !.bar.on = TRUE, !.hide = FALSE]
  BY DEF ShowBar, r
<1> QED
  BY <1>1, <1>2 DEF IsPage, PageFields, SameLife, SameAim, SameMarks, SameBar, SameText,
     Alike

LEMMA ClearAnnotationsIs ==
  ASSUME NEW p, IsPage(p)
  PROVE  LET q == ClearAnnotations(p)
         IN /\ IsPage(q) /\ SameLife(p, q) /\ SameAim(p, q) /\ Unmarked(q)
            /\ SameBar(p, q) /\ SameText(p, q)
BY DEF ClearAnnotations, Unmarked, IsPage, PageFields, SameLife, SameAim, SameMarks,
   SameBar, SameText, Alike

LEMMA FinalizeInsertSessionIs ==
  ASSUME NEW p, IsPage(p)
  PROVE  LET q == FinalizeInsertSession(p)
         IN /\ IsPage(q) /\ SameLife(p, q) /\ SameMarks(p, q) /\ SameBar(p, q)
            /\ SameText(p, q) /\ q.st = p.st /\ q.sel = p.sel /\ q.kind = "replace"
BY DEF FinalizeInsertSession, IsPage, PageFields, SameLife, SameAim, SameMarks, SameBar,
   SameText, Alike

LEMMA ClearInsertPickingIs ==
  ASSUME NEW p, IsPage(p)
  PROVE  LET q == ClearInsertPicking(p)
         IN /\ IsPage(q) /\ SameLife(p, q) /\ SameMarks(p, q) /\ SameBar(p, q)
            /\ SameText(p, q) /\ q.st = p.st /\ q.sel = p.sel /\ q.kind = "replace"
BY HideInsertLineIs, FinalizeInsertSessionIs DEF ClearInsertPicking, IsPage, PageFields,
   SameLife, SameAim, SameMarks, SameBar, SameText, Alike

LEMMA EnableInlineEditIs ==
  ASSUME NEW p, IsPage(p)
  PROVE  LET q == EnableInlineEdit(p)
         IN /\ IsPage(q) /\ SameLife(p, q) /\ SameAim(p, q) /\ SameMarks(p, q)
            /\ SameBar(p, q) /\ q.dom = p.dom
            /\ SameText(p, q) \/ (q.rows /\ ~q.draft /\ q.base = p.dom)
BY DEF EnableInlineEdit, IsPage, PageFields, SameLife, SameAim, SameMarks, SameBar,
   SameText, Alike

LEMMA DisableInlineEditIs ==
  ASSUME NEW p, IsPage(p)
  PROVE  LET q == DisableInlineEdit(p)
         IN /\ IsPage(q) /\ SameLife(p, q) /\ SameAim(p, q) /\ SameMarks(p, q)
            /\ SameBar(p, q) /\ Unedited(q) /\ q.dom = p.dom /\ q.base = p.base
BY DEF DisableInlineEdit, Unedited, IsPage, PageFields, SameLife, SameAim, SameMarks,
   SameBar, SameText, Alike

LEMMA RestoreDraftsIs ==
  ASSUME NEW p, IsPage(p)
  PROVE  LET q == RestoreInlineEditDrafts(p)
         IN /\ IsPage(q) /\ SameLife(p, q) /\ SameAim(p, q) /\ SameMarks(p, q)
            /\ SameBar(p, q) /\ q.dom = Undone(p) /\ q.base = p.base
            /\ q.rows = p.rows /\ q.draft = p.draft
BY DEF RestoreInlineEditDrafts, Undone, IsPage, PageFields, SameLife, SameAim, SameMarks,
   SameBar, SameText, Alike

LEMMA CloseTunePopoverIs ==
  ASSUME NEW p, IsPage(p)
  PROVE  LET q == CloseTunePopover(p)
         IN /\ Alike(p, q)
<1> DEFINE r == [p EXCEPT !.tune = FALSE]
<1>1. Alike(p, r)
  BY DEF IsPage, PageFields, SameLife, SameAim, SameMarks, SameBar, SameText, Alike
<1> HIDE DEF r
<1>2. CloseTunePopover(p) = r \/ CloseTunePopover(p) = UpdateBarContent(r, "cycling")
  BY DEF CloseTunePopover, r
<1> QED
  BY <1>1, <1>2, UpdateBarContentIs DEF IsPage, PageFields, SameLife, SameAim, SameMarks,
     SameBar, SameText, Alike

LEMMA HideBarIs ==
  ASSUME NEW p, IsPage(p)
  PROVE  LET q == HideBar(p)
         IN /\ IsPage(q) /\ SameLife(p, q) /\ SameMarks(p, q)
            /\ q.bar.on = p.bar.on /\ q.hide /\ Unedited(q)
            /\ q.dom = (IF p.st = "EDITING" THEN Undone(p) ELSE p.dom) /\ q.base = p.base
            /\ q.st = p.st /\ q.sel = p.sel
            /\ q.kind = IF p.kind = "insert" THEN "replace" ELSE p.kind
<1> DEFINE a == StopVoice(p)
           b == IF a.kind = "insert" THEN ClearInsertPicking(a) ELSE a
           h == [b EXCEPT !.hide = TRUE]
           k == HideActionPicker(h)
           c == CloseTunePopover(k)
           d == IF c.st = "EDITING" THEN RestoreInlineEditDrafts(c) ELSE c
<1>9. HideBar(p) = DisableInlineEdit(d)
  BY DEF HideBar
<1>1. Alike(p, a)
  BY StopVoiceIs
<1>2. /\ IsPage(b) /\ SameLife(p, b) /\ SameMarks(p, b) /\ SameBar(p, b) /\ SameText(p, b)
      /\ b.st = p.st /\ b.sel = p.sel
      /\ b.kind = IF p.kind = "insert" THEN "replace" ELSE p.kind
  <2> HIDE DEF a
  <2> QED
    BY <1>1, ClearInsertPickingIs DEF SameLife, SameAim, SameMarks, SameBar, SameText, Alike
<1> HIDE DEF b
<1>3. /\ IsPage(h) /\ SameLife(p, h) /\ SameMarks(p, h) /\ SameText(p, h)
      /\ h.bar.on = p.bar.on /\ h.hide /\ h.st = p.st /\ h.sel = p.sel /\ h.kind = b.kind
  BY <1>2 DEF IsPage, PageFields, SameLife, SameAim, SameMarks, SameBar, SameText, Alike
<1> HIDE DEF h
<1>4. Alike(h, k)
  BY <1>3, HideActionPickerIs
<1>5. IsPage(k)
  BY <1>4 DEF Alike
<1> HIDE DEF k
<1>6. Alike(k, c)
  BY <1>5, CloseTunePopoverIs
<1>7. /\ IsPage(c) /\ SameLife(p, c) /\ SameMarks(p, c) /\ SameText(p, c)
      /\ c.bar.on = p.bar.on /\ c.hide /\ c.st = p.st /\ c.sel = p.sel /\ c.kind = b.kind
  BY <1>3, <1>4, <1>6 DEF SameLife, SameAim, SameMarks, SameBar, SameText, Alike
<1> HIDE DEF c
<1>8. /\ IsPage(d) /\ SameLife(c, d) /\ SameAim(c, d) /\ SameMarks(c, d) /\ SameBar(c, d)
      /\ d.dom = (IF c.st = "EDITING" THEN Undone(c) ELSE c.dom) /\ d.base = c.base
  BY <1>7, RestoreDraftsIs DEF SameLife, SameAim, SameMarks, SameBar, SameText
<1> HIDE DEF d
<1> DEFINE q == HideBar(p)
<1>10. /\ IsPage(q) /\ SameLife(d, q) /\ SameAim(d, q) /\ SameMarks(d, q)
       /\ SameBar(d, q) /\ Unedited(q) /\ q.dom = d.dom /\ q.base = d.base
  BY <1>8, <1>9, DisableInlineEditIs
<1> HIDE DEF q
<1>11. Undone(c) = Undone(p)
  BY <1>7 DEF SameText, Undone
<1>12. /\ IsPage(q) /\ SameLife(p, q) /\ SameMarks(p, q) /\ q.bar.on = p.bar.on /\ q.hide /\ Unedited(q)
  BY <1>7, <1>8, <1>10 DEF SameLife, SameMarks, SameBar
<1>13. q.st = p.st /\ q.sel = p.sel /\ q.kind = b.kind
  BY <1>7, <1>8, <1>10 DEF SameAim
<1>14. q.dom = (IF p.st = "EDITING" THEN Undone(p) ELSE p.dom) /\ q.base = p.base
  BY <1>7, <1>8, <1>10, <1>11 DEF SameText
<1> QED
  BY <1>2, <1>12, <1>13, <1>14 DEF q

LEMMA TeardownChromeIs ==
  ASSUME NEW p, IsPage(p)
  PROVE  LET q == TeardownConfigureChrome(p)
         IN /\ IsPage(q) /\ SameLife(p, q) /\ Unmarked(q)
            /\ q.bar.on = p.bar.on /\ q.hide /\ Unedited(q)
            /\ q.dom = (IF p.st = "EDITING" THEN Undone(p) ELSE p.dom) /\ q.base = p.base
            /\ q.st = p.st /\ q.sel = p.sel
            /\ q.kind = IF p.kind = "insert" THEN "replace" ELSE p.kind
<1> DEFINE a == HideBar(p)
           b == HideAnnotOverlay(a)
           c == ClearAnnotations(b)
<1>1. /\ IsPage(a) /\ SameLife(p, a) /\ a.bar.on = p.bar.on /\ a.hide /\ Unedited(a)
      /\ a.dom = (IF p.st = "EDITING" THEN Undone(p) ELSE p.dom) /\ a.base = p.base
      /\ a.st = p.st /\ a.sel = p.sel /\ a.kind = IF p.kind = "insert" THEN "replace" ELSE p.kind
  BY HideBarIs
<1> HIDE DEF a
<1>2. Alike(a, b)
  BY <1>1, HideAnnotOverlayIs
<1> HIDE DEF b
<1>3. /\ IsPage(c) /\ SameLife(b, c) /\ SameAim(b, c) /\ Unmarked(c) /\ SameBar(b, c) /\ SameText(b, c)
  BY <1>2, ClearAnnotationsIs DEF Alike
<1>4. TeardownConfigureChrome(p) = RenderEditBadge(c, "hidden")
  BY DEF TeardownConfigureChrome, a, b, c
<1> HIDE DEF c
<1>5. Alike(c, TeardownConfigureChrome(p))
  BY <1>3, <1>4, RenderEditBadgeIs
<1> QED
  BY <1>1, <1>2, <1>3, <1>5
     DEF SameLife, SameAim, SameMarks, SameBar, SameText, Alike, Unedited, Unmarked

LEMMA ExitConfigureIs ==
  ASSUME NEW p, IsPage(p), NEW clear
  PROVE  LET q == ExitConfigureToPicking(p, clear)
         IN /\ IsPage(q) /\ SameLife(p, q) /\ Unmarked(q)
            /\ q.bar.on = p.bar.on /\ q.hide /\ Unedited(q)
            /\ q.dom = (IF p.st = "EDITING" THEN Undone(p) ELSE p.dom) /\ q.base = p.base
            /\ q.st = "PICKING" /\ q.sel = p.sel
            /\ q.kind = IF p.kind = "insert" THEN "replace" ELSE p.kind
<1> DEFINE a == TeardownConfigureChrome(p)
<1>1. /\ IsPage(a) /\ SameLife(p, a) /\ Unmarked(a) /\ a.bar.on = p.bar.on /\ a.hide /\ Unedited(a)
      /\ a.dom = (IF p.st = "EDITING" THEN Undone(p) ELSE p.dom) /\ a.base = p.base
      /\ a.sel = p.sel /\ a.kind = IF p.kind = "insert" THEN "replace" ELSE p.kind
  BY TeardownChromeIs
<1>2. ExitConfigureToPicking(p, clear) = [a EXCEPT !.st = "PICKING", !.hov = IF clear THEN "none" ELSE @]
  BY DEF ExitConfigureToPicking
<1> HIDE DEF a
<1> QED
  BY <1>1, <1>2 DEF IsPage, PageFields, SameLife, Unedited, Unmarked

(***************************************************************************)
(* Ways out of a mode: the edit is undone, and nothing that was drawn on   *)
(* an element outlives its selection.                                      *)
(***************************************************************************)
Left(p, q) ==
  /\ IsPage(q) /\ q.sent = p.sent /\ Unedited(q)
  /\ q.st # "CONFIGURING" /\ q.kind # "insert"
  /\ q.sel = "none" \/ Unmarked(q)
  /\ p.st = "EDITING" /\ q.st # "EDITING" => q.dom = Undone(p)

LEMMA ExitIsLeft ==
  ASSUME NEW p, IsPage(p), NEW clear
  PROVE  Left(p, ExitConfigureToPicking(p, clear))
BY ExitConfigureIs DEF Left, SameLife

LEMMA CancelInsertIsLeft ==
  ASSUME NEW p, IsPage(p)
  PROVE  /\ Left(p, CancelInsertConfigure(p)) /\ CancelInsertConfigure(p).sel = "none"
<1> DEFINE a == HideBar(p)
           b == HideAnnotOverlay(a)
           c == ClearAnnotations(b)
           d == ClearInsertPicking(c)
<1>1. CancelInsertConfigure(p)
        = [d EXCEPT !.sel = "none", !.st = IF p.ins THEN "PICKING" ELSE "IDLE"]
  BY DEF CancelInsertConfigure
<1>2. /\ IsPage(a) /\ SameLife(p, a) /\ Unedited(a)
      /\ a.dom = (IF p.st = "EDITING" THEN Undone(p) ELSE p.dom)
  BY HideBarIs
<1> HIDE DEF a
<1>3. Alike(a, b)
  BY <1>2, HideAnnotOverlayIs
<1> HIDE DEF b
<1>4. IsPage(c) /\ SameLife(b, c) /\ SameText(b, c)
  BY <1>3, ClearAnnotationsIs DEF Alike
<1> HIDE DEF c
<1>5. IsPage(d) /\ SameLife(c, d) /\ SameText(c, d) /\ d.kind = "replace"
  BY <1>4, ClearInsertPickingIs
<1> HIDE DEF d
<1>6. d.sent = p.sent /\ Unedited(d) /\ d.dom = (IF p.st = "EDITING" THEN Undone(p) ELSE p.dom)
  BY <1>2, <1>3, <1>4, <1>5 DEF Alike, SameLife, SameText, Unedited
<1> QED
  BY <1>1, <1>5, <1>6 DEF Left, IsPage, PageFields, Unedited

LEMMA RemoveSelectionIsLeft ==
  ASSUME NEW p, IsPage(p)
  PROVE  Left(p, RemoveConfigureSelection(p))
<1>1. CASE p.kind = "insert"
  BY <1>1, CancelInsertIsLeft DEF RemoveConfigureSelection
<1>2. CASE p.kind # "insert"
  <2> DEFINE a == [p EXCEPT !.sel = "none"]
  <2>1. IsPage(a) /\ a.sent = p.sent /\ a.st = p.st /\ SameText(p, a)
    BY DEF IsPage, PageFields, SameText
  <2> HIDE DEF a
  <2>2. Left(a, ExitConfigureToPicking(a, TRUE))
    BY <2>1, ExitIsLeft
  <2>3. RemoveConfigureSelection(p) = ExitConfigureToPicking(a, TRUE)
    BY <1>2 DEF RemoveConfigureSelection, a
  <2> QED
    BY <2>1, <2>2, <2>3 DEF Left, SameText, Undone
<1> QED
  BY <1>1, <1>2

LEMMA CancelToPickingIsLeft ==
  ASSUME NEW p, IsPage(p)
  PROVE  Left(p, CancelEditingToPicking(p))
<1> DEFINE a == RestoreInlineEditDrafts(p)
           b == DisableInlineEdit(a)
           c == HideBar(b)
           d == HideAnnotOverlay(c)
           e == ClearAnnotations(d)
           f == RenderEditBadge(e, "hidden")
<1>1. CancelEditingToPicking(p) = [f EXCEPT !.st = "PICKING", !.hov = "none"]
  BY DEF CancelEditingToPicking
<1>2. IsPage(a) /\ SameLife(p, a) /\ a.dom = Undone(p)
  BY RestoreDraftsIs
<1> HIDE DEF a
<1>3. IsPage(b) /\ SameLife(a, b) /\ Unedited(b) /\ b.dom = a.dom
  BY <1>2, DisableInlineEditIs
<1> HIDE DEF b
<1>4. /\ IsPage(c) /\ SameLife(b, c) /\ Unedited(c) /\ c.kind # "insert"
      /\ c.dom = (IF b.st = "EDITING" THEN Undone(b) ELSE b.dom)
  BY <1>3, HideBarIs
<1>5. c.dom = Undone(p)
  BY <1>2, <1>3, <1>4 DEF Unedited, Undone
<1> HIDE DEF c
<1>6. Alike(c, d)
  BY <1>4, HideAnnotOverlayIs
<1> HIDE DEF d
<1>7. IsPage(e) /\ SameLife(d, e) /\ SameAim(d, e) /\ Unmarked(e) /\ SameText(d, e)
  BY <1>6, ClearAnnotationsIs DEF Alike
<1> HIDE DEF e
<1>8. Alike(e, f)
  BY <1>7, RenderEditBadgeIs
<1> HIDE DEF f
<1>9. /\ IsPage(f) /\ f.sent = p.sent /\ Unedited(f) /\ f.kind # "insert" /\ Unmarked(f)
      /\ f.dom = Undone(p)
  BY <1>2, <1>3, <1>4, <1>5, <1>6, <1>7, <1>8
     DEF Alike, SameLife, SameAim, SameMarks, SameText, Unedited, Unmarked
<1> QED
  BY <1>1, <1>9 DEF Left, IsPage, PageFields, Unedited, Unmarked

LEMMA CleanupIsLeft ==
  ASSUME NEW p, IsPage(p)
  PROVE  Left(p, Cleanup(p)) /\ Cleanup(p).st = "PICKING"
<1> DEFINE a == HideBar(p)
           b == FinalizeInsertSession(a)
           c == RenderEditBadge(b, "hidden")
<1>1. Cleanup(p) = [c EXCEPT !.lock = FALSE, !.session = FALSE, !.sel = "none", !.st = "PICKING"]
  BY DEF Cleanup
<1>2. /\ IsPage(a) /\ SameLife(p, a) /\ Unedited(a)
      /\ a.dom = (IF p.st = "EDITING" THEN Undone(p) ELSE p.dom)
  BY HideBarIs
<1> HIDE DEF a
<1>3. IsPage(b) /\ SameLife(a, b) /\ SameText(a, b) /\ b.kind = "replace"
  BY <1>2, FinalizeInsertSessionIs
<1> HIDE DEF b
<1>4. Alike(b, c)
  BY <1>3, RenderEditBadgeIs
<1> HIDE DEF c
<1>5. /\ IsPage(c) /\ c.sent = p.sent /\ Unedited(c) /\ c.kind = "replace"
      /\ c.dom = (IF p.st = "EDITING" THEN Undone(p) ELSE p.dom)
  BY <1>2, <1>3, <1>4 DEF Alike, SameLife, SameAim, SameText, Unedited
<1> QED
  BY <1>1, <1>5 DEF Left, IsPage, PageFields, Unedited

LEMMA CleanupAcceptedIsLeft ==
  ASSUME NEW p, IsPage(p)
  PROVE  Left(p, CleanupAccepted(p))
<1> DEFINE a == HideBar(p)
           c == RenderEditBadge(a, "hidden")
<1>1. CleanupAccepted(p) = [c EXCEPT !.lock = FALSE, !.session = FALSE, !.sel = "none",
                                     !.pend = FALSE, !.st = "PICKING"]
  BY DEF CleanupAccepted
<1>2. /\ IsPage(a) /\ SameLife(p, a) /\ Unedited(a) /\ a.kind # "insert"
      /\ a.dom = (IF p.st = "EDITING" THEN Undone(p) ELSE p.dom)
  BY HideBarIs
<1> HIDE DEF a
<1>4. Alike(a, c)
  BY <1>2, RenderEditBadgeIs
<1> HIDE DEF c
<1>5. /\ IsPage(c) /\ c.sent = p.sent /\ Unedited(c) /\ c.kind # "insert"
      /\ c.dom = (IF p.st = "EDITING" THEN Undone(p) ELSE p.dom)
  BY <1>2, <1>4 DEF Alike, SameLife, SameAim, SameText, Unedited
<1> QED
  BY <1>1, <1>5 DEF Left, IsPage, PageFields, Unedited

(***************************************************************************)
(* Ways into a mode, and the rest.                                         *)
(***************************************************************************)
LEMMA CancelEditingIs ==
  ASSUME NEW p, IsPage(p)
  PROVE  LET q == CancelEditing(p)
         IN /\ IsPage(q) /\ SameLife(p, q) /\ SameMarks(p, q) /\ q.bar.on /\ ~q.hide
            /\ q.st = "CONFIGURING" /\ q.sel = p.sel /\ q.kind = p.kind
            /\ Unedited(q) /\ q.dom = Undone(p)
<1> DEFINE a == RestoreInlineEditDrafts(p)
           b == DisableInlineEdit(a)
           c == [b EXCEPT !.st = "CONFIGURING"]
           d == ShowBar(c, "configure")
           e == ShowAnnotOverlay(d)
<1>1. CancelEditing(p) = RenderEditBadge(e, "idle")
  BY DEF CancelEditing
<1>2. /\ IsPage(a) /\ SameLife(p, a) /\ SameAim(p, a) /\ SameMarks(p, a) /\ a.dom = Undone(p)
  BY RestoreDraftsIs
<1> HIDE DEF a
<1>3. /\ IsPage(b) /\ SameLife(a, b) /\ SameAim(a, b) /\ SameMarks(a, b) /\ Unedited(b) /\ b.dom = a.dom
  BY <1>2, DisableInlineEditIs
<1> HIDE DEF b
<1>4. /\ IsPage(c) /\ SameLife(b, c) /\ SameMarks(b, c) /\ SameText(b, c)
      /\ c.st = "CONFIGURING" /\ c.sel = b.sel /\ c.kind = b.kind
  BY <1>3 DEF IsPage, PageFields, SameLife, SameMarks, SameText
<1> HIDE DEF c
<1>5. /\ IsPage(d) /\ SameLife(c, d) /\ SameAim(c, d) /\ SameMarks(c, d) /\ d.bar.on /\ ~d.hide
      /\ SameText(c, d)
  BY <1>4, ShowBarIs
<1> HIDE DEF d
<1>6. Alike(d, e)
  BY <1>5, ShowAnnotOverlayIs
<1>7. IsPage(e)
  BY <1>6 DEF Alike
<1> HIDE DEF e
<1>8. Alike(e, CancelEditing(p))
  BY <1>1, <1>7, RenderEditBadgeIs
<1> QED
  BY <1>2, <1>3, <1>4, <1>5, <1>6, <1>8
     DEF Alike, SameLife, SameAim, SameMarks, SameBar, SameText, Unedited

LEMMA ConfigureIs ==
  ASSUME NEW p, IsPage(p), NEW e
  PROVE  LET q == Configure(p, e)
         IN /\ IsPage(q) /\ SameLife(p, q) /\ Unmarked(q) /\ q.bar.on /\ ~q.hide
            /\ q.st = "CONFIGURING" /\ q.sel = e /\ q.kind = p.kind /\ SameText(p, q)
<1> DEFINE a == [p EXCEPT !.sel = e, !.st = "CONFIGURING"]
           b == ClearAnnotations(a)
           c == ShowAnnotOverlay(b)
           d == ShowBar(c, "configure")
<1>1. Configure(p, e) = BadgeFor(d)
  BY DEF Configure
<1>2. /\ IsPage(a) /\ SameLife(p, a) /\ SameText(p, a)
      /\ a.st = "CONFIGURING" /\ a.sel = e /\ a.kind = p.kind
  BY DEF IsPage, PageFields, SameLife, SameText
<1> HIDE DEF a
<1>3. IsPage(b) /\ SameLife(a, b) /\ SameAim(a, b) /\ Unmarked(b) /\ SameText(a, b)
  BY <1>2, ClearAnnotationsIs
<1> HIDE DEF b
<1>4. Alike(b, c)
  BY <1>3, ShowAnnotOverlayIs
<1>5. IsPage(c)
  BY <1>4 DEF Alike
<1> HIDE DEF c
<1>6. /\ IsPage(d) /\ SameLife(c, d) /\ SameAim(c, d) /\ SameMarks(c, d) /\ d.bar.on /\ ~d.hide
      /\ SameText(c, d)
  BY <1>5, ShowBarIs
<1> HIDE DEF d
<1>7. Alike(d, Configure(p, e))
  BY <1>1, <1>6, BadgeForIs
<1> QED
  BY <1>2, <1>3, <1>4, <1>6, <1>7
     DEF Alike, SameLife, SameAim, SameMarks, SameBar, SameText, Unmarked

LEMMA CyclingBarIs ==
  ASSUME NEW p, IsPage(p)
  PROVE  LET q == ShowOrUpdateCyclingBar(p)
         IN \/ Left(p, q)
            \/ IsPage(q) /\ SameLife(p, q) /\ SameAim(p, q) /\ SameMarks(p, q) /\ SameText(p, q)
<1>1. CASE p.vars = 0
  BY <1>1, CleanupIsLeft DEF ShowOrUpdateCyclingBar
<1>2. CASE p.vars # 0 /\ p.bar.on
  BY <1>2, UpdateBarContentIs DEF ShowOrUpdateCyclingBar, Alike
<1>3. CASE p.vars # 0 /\ ~p.bar.on
  BY <1>3, ShowBarIs DEF ShowOrUpdateCyclingBar
<1> QED
  BY <1>1, <1>2, <1>3

LEMMA SpliceIs ==
  ASSUME NEW S, NEW s \in Seq(S), NEW i
  PROVE  Splice(s, i) \in Seq(S)
<1>1. CASE i \in DOMAIN s
  <2>1. i \in 1..Len(s) /\ Len(s) \in Nat
    BY <1>1
  <2>2. SubSeq(s, 1, i - 1) \in Seq(S) /\ SubSeq(s, i + 1, Len(s)) \in Seq(S)
    BY <2>1
  <2>3. Splice(s, i) = SubSeq(s, 1, i - 1) \o SubSeq(s, i + 1, Len(s))
    BY <1>1 DEF Splice, RemoveAt
  <2> QED
    BY <2>2, <2>3
<1> QED
  BY <1>1 DEF Splice

LEMMA NoteIs ==
  ASSUME NEW e, NEW s \in Seq(Pins(e)), NEW n
  PROVE  [s EXCEPT ![n].text = TRUE] \in Seq(Pins(e))
<1> DEFINE S == Pins(e)
           t == [k \in 1..Len(s) |-> IF k = n THEN [s[k] EXCEPT !.text = TRUE] ELSE s[k]]
<1>1. \A r \in S : [r EXCEPT !.text = TRUE] \in S
  BY DEF Pins
<1>2. [s EXCEPT ![n].text = TRUE] = t /\ Len(s) \in Nat
  <2>1. DOMAIN s = 1..Len(s) /\ Len(s) \in Nat
    OBVIOUS
  <2>2. [s EXCEPT ![n].text = TRUE]
          = [k \in DOMAIN s |-> IF k = n THEN [s[k] EXCEPT !.text = TRUE] ELSE s[k]]
    BY Zenon
  <2> QED
    BY <2>1, <2>2, Zenon
<1> HIDE DEF S
<1>3. s \in Seq(S)
  BY DEF S
<1>4. \A k \in 1..Len(s) : s[k] \in S
  BY <1>3
<1>5. \A k \in 1..Len(s) : t[k] \in S
  BY <1>1, <1>4
<1>6. t \in Seq(S)
  BY <1>2, <1>5
<1> QED
  BY <1>2, <1>6 DEF S

LEMMA FinalizePinIs ==
  ASSUME NEW p, IsPage(p)
  PROVE  LET q == FinalizeEditingPin(p)
         IN /\ IsPage(q) /\ SameLife(p, q) /\ SameAim(p, q) /\ SameBar(p, q) /\ SameText(p, q)
            /\ MarksLost(p, q)
<1> DEFINE x == IF p.typed THEN [p.pins EXCEPT ![p.note].text = TRUE] ELSE Splice(p.pins, p.note)
           q == FinalizeEditingPin(p)
<1>1. \A e : p.pins \in Seq(Pins(e)) => x \in Seq(Pins(e))
  <2> SUFFICES ASSUME NEW e, p.pins \in Seq(Pins(e)) PROVE x \in Seq(Pins(e))
    OBVIOUS
  <2>1. CASE ~p.typed
    BY <2>1, SpliceIs
  <2>2. CASE p.typed
    BY <2>2, NoteIs
  <2> QED
    BY <2>1, <2>2
<1>2. q = p \/ q = [p EXCEPT !.pins = x, !.note = 0, !.typed = FALSE]
  BY DEF FinalizeEditingPin
<1> HIDE DEF x
<1>3. /\ IsPage(q) /\ SameLife(p, q) /\ SameAim(p, q) /\ SameBar(p, q) /\ SameText(p, q)
      /\ q.strokes = p.strokes /\ q.pins \in {p.pins, x}
  BY <1>2 DEF IsPage, PageFields, SameLife, SameAim, SameBar, SameText
<1> QED
  BY <1>1, <1>3 DEF MarksLost, MarksOn

LEMMA CancelPinIs ==
  ASSUME NEW p, IsPage(p)
  PROVE  LET q == CancelEditingPin(p)
         IN /\ IsPage(q) /\ SameLife(p, q) /\ SameAim(p, q) /\ SameBar(p, q) /\ SameText(p, q)
            /\ MarksLost(p, q)
<1> DEFINE x == IF p.note \in DOMAIN p.pins /\ p.pins[p.note].text THEN p.pins
                ELSE Splice(p.pins, p.note)
           q == CancelEditingPin(p)
<1>1. \A e : p.pins \in Seq(Pins(e)) => x \in Seq(Pins(e))
  BY SpliceIs
<1>2. q = p \/ q = [p EXCEPT !.pins = x, !.note = 0, !.typed = FALSE]
  BY DEF CancelEditingPin
<1> HIDE DEF x
<1>3. /\ IsPage(q) /\ SameLife(p, q) /\ SameAim(p, q) /\ SameBar(p, q) /\ SameText(p, q)
      /\ q.strokes = p.strokes /\ q.pins \in {p.pins, x}
  BY <1>2 DEF IsPage, PageFields, SameLife, SameAim, SameBar, SameText
<1> QED
  BY <1>1, <1>3 DEF MarksLost, MarksOn

LEMMA AnnotatedIs ==
  ASSUME NEW p, NEW e, MarksOn(p, e)
  PROVE  Annotated(p) \subseteq {e}
<1> DEFINE S == Pins(e)
           s == p.pins
<1>0. s \in Seq(S) /\ \A r \in S : r.on = e
  BY DEF MarksOn, Pins
<1> HIDE DEF S, s
<1>1. \A i \in DOMAIN s : s[i].on = e
  BY <1>0
<1> QED
  BY <1>1 DEF Annotated, MarksOn, s

LEMMA GenerateIs ==
  ASSUME NEW p, IsPage(p)
  PROVE  LET q == Generate(p)
         IN /\ IsPage(q) /\ q.session /\ q.st = "GENERATING" /\ SameText(p, q)
            /\ q.sent = [el |-> p.sel, on |-> Annotated(p)]
<1> DEFINE a == [p EXCEPT !.pend = FALSE, !.session = TRUE, !.vars = 0,
                          !.posts = Aged(@), !.fin = Aged(@),
                          !.sent = [el |-> p.sel, on |-> Annotated(p)],
                          !.st = "GENERATING"]
           b == HideAnnotOverlay(a)
           c == ClearAnnotations(b)
           d == ShowBar(c, "generating")
<1>1. Generate(p) = [d EXCEPT !.lock = TRUE]
  BY DEF Generate
<1>2. /\ IsPage(a) /\ SameText(p, a) /\ a.session /\ a.st = "GENERATING"
      /\ a.sent = [el |-> p.sel, on |-> Annotated(p)]
  BY DEF IsPage, PageFields, SameText
<1> HIDE DEF a
<1>3. Alike(a, b)
  BY <1>2, HideAnnotOverlayIs
<1> HIDE DEF b
<1>4. IsPage(c) /\ SameLife(b, c) /\ SameAim(b, c) /\ SameText(b, c)
  BY <1>3, ClearAnnotationsIs DEF Alike
<1> HIDE DEF c
<1>5. IsPage(d) /\ SameLife(c, d) /\ SameAim(c, d) /\ SameText(c, d)
  BY <1>4, ShowBarIs
<1> HIDE DEF d
<1>6. /\ IsPage(d) /\ SameText(p, d) /\ d.session /\ d.st = "GENERATING"
      /\ d.sent = [el |-> p.sel, on |-> Annotated(p)]
  BY <1>2, <1>3, <1>4, <1>5 DEF Alike, SameLife, SameAim, SameText
<1> QED
  BY <1>1, <1>6 DEF IsPage, PageFields, SameText

\* What is sent when everything drawn was drawn on e.
SentFor(q, e) == q.sent.el = e /\ q.sent.on \subseteq {e}

LEMMA GoFromIs ==
  ASSUME NEW p, IsPage(p)
  PROVE  LET q == GoFrom(p)
         IN /\ IsPage(q) /\ q.session /\ q.st = "GENERATING" /\ Unedited(q)
            /\ MarksOn(p, p.sel) => SentFor(q, p.sel)
<1> DEFINE a == StopVoice(p)
           b == FinalizeEditingPin(a)
           c == DisableInlineEdit(b)
           d == Generate(c)
<1>1. GoFrom(p) = d \/ GoFrom(p) = RenderEditBadge(d, "idle-disabled")
  BY DEF GoFrom
<1>2. Alike(p, a)
  BY StopVoiceIs
<1> HIDE DEF a
<1>3. IsPage(b) /\ SameAim(a, b) /\ MarksLost(a, b)
  BY <1>2, FinalizePinIs DEF Alike
<1> HIDE DEF b
<1>4. IsPage(c) /\ SameAim(b, c) /\ SameMarks(b, c) /\ Unedited(c)
  BY <1>3, DisableInlineEditIs
<1> HIDE DEF c
<1>5. /\ IsPage(d) /\ d.session /\ d.st = "GENERATING" /\ Unedited(d)
      /\ d.sent = [el |-> c.sel, on |-> Annotated(c)]
  BY <1>4, GenerateIs DEF SameText, Unedited
<1> HIDE DEF d
<1>6. c.sel = p.sel /\ (MarksOn(p, p.sel) => MarksOn(c, p.sel))
  BY <1>2, <1>3, <1>4 DEF Alike, SameAim, SameMarks, MarksLost, MarksOn
<1>7. MarksOn(p, p.sel) => SentFor(d, p.sel)
  BY <1>5, <1>6, AnnotatedIs DEF SentFor
<1>8. Alike(d, RenderEditBadge(d, "idle-disabled"))
  BY <1>5, RenderEditBadgeIs
<1> QED
  BY <1>1, <1>5, <1>7, <1>8 DEF Alike, SameLife, SameAim, SameText, Unedited, SentFor

LEMMA CreateFromIs ==
  ASSUME NEW p, IsPage(p)
  PROVE  LET q == CreateFrom(p)
         IN \/ /\ IsPage(q) /\ SameLife(p, q) /\ SameAim(p, q) /\ SameBar(p, q)
               /\ SameText(p, q) /\ MarksLost(p, q)
            \/ /\ IsPage(q) /\ q.session /\ q.st = "GENERATING" /\ SameText(p, q)
               /\ p.kind = "insert" /\ (MarksOn(p, "ph") => SentFor(q, "ph"))
<1> DEFINE a == FinalizeEditingPin(p)
           b == [a EXCEPT !.sel = "ph"]
           c == StopVoice(b)
<1>1. \/ CreateFrom(p) = p
      \/ CreateFrom(p) = a
      \/ CreateFrom(p) = Generate(c) /\ p.kind = "insert"
  BY DEF CreateFrom, CanCreate
<1>2. /\ IsPage(a) /\ SameLife(p, a) /\ SameAim(p, a) /\ SameBar(p, a)
      /\ SameText(p, a) /\ MarksLost(p, a)
  BY FinalizePinIs
<1> HIDE DEF a
<1>3. IsPage(b) /\ SameText(a, b) /\ SameMarks(a, b) /\ b.sel = "ph"
  BY <1>2 DEF IsPage, PageFields, SameText, SameMarks
<1> HIDE DEF b
<1>4. Alike(b, c)
  BY <1>3, StopVoiceIs
<1> HIDE DEF c
<1>5. /\ IsPage(Generate(c)) /\ Generate(c).session /\ Generate(c).st = "GENERATING"
      /\ SameText(c, Generate(c)) /\ Generate(c).sent = [el |-> c.sel, on |-> Annotated(c)]
  BY <1>4, GenerateIs DEF Alike
<1>6. c.sel = "ph" /\ SameText(p, c) /\ (MarksOn(p, "ph") => MarksOn(c, "ph"))
  BY <1>2, <1>3, <1>4 DEF Alike, SameAim, SameText, SameMarks, MarksLost, MarksOn
<1>7. MarksOn(p, "ph") => SentFor(Generate(c), "ph")
  BY <1>5, <1>6, AnnotatedIs DEF SentFor
<1>8. SameText(p, Generate(c))
  BY <1>5, <1>6 DEF SameText
<1>9. /\ IsPage(p) /\ SameLife(p, p) /\ SameAim(p, p) /\ SameBar(p, p)
      /\ SameText(p, p) /\ MarksLost(p, p)
  BY DEF SameLife, SameAim, SameBar, SameText, MarksLost
<1> QED
  BY <1>1, <1>2, <1>5, <1>7, <1>8, <1>9

LEMMA AlikeTrans ==
  ASSUME NEW p, NEW q, NEW r, Alike(p, q), Alike(q, r)
  PROVE  Alike(p, r)
BY DEF Alike, SameLife, SameAim, SameMarks, SameBar, SameText

LEMMA SteerFromIs ==
  ASSUME NEW p, IsPage(p), NEW id
  PROVE  Alike(p, SubmitSteer(p, id)) /\ Alike(p, SteerFrom(p)) /\ Alike(p, SpeechHeard(p))
<1>1. \A n : Alike(p, SubmitSteer(p, n))
  <2>1. Alike(p, StopVoice(p))
    BY StopVoiceIs
  <2> DEFINE a == StopVoice(p)
  <2> SUFFICES ASSUME NEW n PROVE Alike(p, SubmitSteer(p, n))
    OBVIOUS
  <2>2. SubmitSteer(p, n)
          = [a EXCEPT !.steer = [@ EXCEPT !.locked = TRUE, !.req = n, !.timer = n, !.open = TRUE,
                                          !.sends = @ \cup {n}, !.asks = @ \cup {n}]]
    BY DEF SubmitSteer
  <2> HIDE DEF a
  <2>3. Alike(a, SubmitSteer(p, n))
    BY <2>1, <2>2 DEF a, IsPage, PageFields, SameLife, SameAim, SameMarks, SameBar,
       SameText, Alike
  <2> QED
    BY <2>1, <2>3, AlikeTrans DEF a
<1>2. Alike(p, SteerFrom(p))
  BY <1>1, StopVoiceIs DEF SteerFrom
<1>3. Alike(p, SpeechHeard(p))
  <2> DEFINE a == [p EXCEPT !.steer.text = TRUE]
  <2>1. Alike(p, a)
    BY DEF IsPage, PageFields, SameLife, SameAim, SameMarks, SameBar, SameText, Alike
  <2>2. IsPage(a)
    BY <2>1 DEF Alike
  <2> HIDE DEF a
  <2>3. Alike(p, SyncPageChatVisual(a))
    BY <2>1, <2>2, SyncPageChatVisualIs, AlikeTrans
  <2>4. Alike(p, [p EXCEPT !.voice.heard = TRUE]) /\ Alike(p, [p EXCEPT !.bar.text = TRUE])
    BY DEF IsPage, PageFields, SameLife, SameAim, SameMarks, SameBar, SameText, Alike
  <2> QED
    BY <2>3, <2>4 DEF SpeechHeard, a
<1> QED
  BY <1>1, <1>2, <1>3

LEMMA RefreshIs ==
  ASSUME NEW p, IsPage(p)
  PROVE  Alike(p, RefreshLiveControls(p))
<1> DEFINE h == HideActionPicker(p)
           a == IF p.apply THEN CloseTunePopover(h) ELSE p
           u == UpdateBarContent(a, "configure")
           t == [u EXCEPT !.bar.text = a.bar.text]
           b == IF a.bar.on /\ a.st = "CONFIGURING"
                THEN IF u.bar.row = "configure" /\ a.bar.row = "configure" THEN t ELSE u
                ELSE a
<1>1. /\ RefreshLiveControls(p) \in {b, RenderEditBadge(b, "idle-disabled"), RenderEditBadge(b, "idle")}
  BY DEF RefreshLiveControls
<1>2. Alike(p, p) /\ Alike(p, h)
  BY HideActionPickerIs DEF IsPage, PageFields, SameLife, SameAim, SameMarks, SameBar,
     SameText, Alike
<1>3. IsPage(h)
  BY <1>2 DEF Alike
<1> HIDE DEF h
<1>4. Alike(p, a)
  BY <1>2, <1>3, CloseTunePopoverIs, AlikeTrans
<1>5. IsPage(a)
  BY <1>4 DEF Alike
<1> HIDE DEF a
<1>6. Alike(a, u)
  BY <1>5, UpdateBarContentIs
<1> HIDE DEF u
<1>7. Alike(u, t)
  BY <1>6 DEF IsPage, PageFields, SameLife, SameAim, SameMarks, SameBar, SameText, Alike
<1>8. Alike(p, b)
  BY <1>4, <1>6, <1>7, AlikeTrans
<1>9. IsPage(b)
  BY <1>8 DEF Alike
<1> HIDE DEF b
<1> QED
  BY <1>1, <1>8, <1>9, RenderEditBadgeIs, AlikeTrans

(***************************************************************************)
(* The invariant of the chrome.  A bar being configured is up and no hide  *)
(* timer counts; an edit that is not a draft shows what it began with; and *)
(* as long as no session runs, what is drawn was drawn on the selection.   *)
(***************************************************************************)
BarUp(p) == p.alive /\ p.conn /\ p.st = "CONFIGURING" => p.bar.on /\ ~p.hide
DraftOK(p) == p.rows /\ ~p.draft => p.dom = p.base
Fits(p) ==
  ~p.session => /\ p.sel # "none" => MarksOn(p, p.sel)
                /\ p.kind = "insert" => p.sel = "ph" /\ p.st # "PICKING"
Good(p) == IsPage(p) /\ BarUp(p) /\ DraftOK(p) /\ Fits(p)

Sends(p, q) == q.sent = p.sent \/ p.session \/ q.sent.on \subseteq {q.sent.el}
Undoes(p, q) ==
  p.st = "EDITING" /\ p.rows /\ p.saves = {} /\ q.st # "EDITING" => q.dom = p.base

Stepped(p, q) == Good(q) /\ Sends(p, q) /\ Undoes(p, q)

\* Only what is drawn changes.
Drawn(p, q) ==
  /\ IsPage(q) /\ SameLife(p, q) /\ SameAim(p, q) /\ SameBar(p, q) /\ SameText(p, q)
  /\ MarksOn(p, p.sel) => MarksOn(q, p.sel)

\* The configure row of a selection comes up.
Raised(p, q) ==
  /\ IsPage(q) /\ q.sent = p.sent /\ q.session = p.session
  /\ q.st = "CONFIGURING" /\ q.bar.on /\ ~q.hide
  /\ SameText(p, q)

LEMMA DrawnAlike ==
  ASSUME NEW p, NEW q, Alike(p, q)
  PROVE  Drawn(p, q)
BY DEF Alike, Drawn, SameMarks, MarksOn

LEMMA DrawnStep ==
  ASSUME NEW p, NEW q, Good(p), Drawn(p, q)
  PROVE  Stepped(p, q)
<1>1. BarUp(q)
  BY DEF Good, BarUp, Drawn, SameLife, SameAim, SameBar
<1>2. DraftOK(q)
  BY DEF Good, DraftOK, Drawn, SameText
<1>3. Fits(q)
  BY DEF Good, Fits, Drawn, SameLife, SameAim
<1>4. Sends(p, q) /\ Undoes(p, q)
  BY DEF Sends, Undoes, Drawn, SameLife, SameAim
<1> QED
  BY <1>1, <1>2, <1>3, <1>4 DEF Stepped, Good, Drawn

LEMMA AlikeStep ==
  ASSUME NEW p, NEW q, Good(p), Alike(p, q)
  PROVE  Stepped(p, q)
BY DrawnAlike, DrawnStep

LEMMA UnmarkedFits ==
  ASSUME NEW q, Unmarked(q), NEW e
  PROVE  MarksOn(q, e)
<1>1. <<>> \in Seq(Pins(e))
  OBVIOUS
<1> QED
  BY <1>1 DEF Unmarked, MarksOn

LEMMA LeftStep ==
  ASSUME NEW p, NEW q, Good(p), Left(p, q)
  PROVE  Stepped(p, q)
<1>1. BarUp(q) /\ DraftOK(q)
  BY DEF BarUp, DraftOK, Left, Unedited
<1>2. Fits(q)
  BY UnmarkedFits DEF Fits, Left
<1>3. Sends(p, q) /\ Undoes(p, q)
  BY DEF Sends, Undoes, Left, Good, DraftOK, Undone
<1> QED
  BY <1>1, <1>2, <1>3 DEF Stepped, Good, Left

LEMMA RaisedStep ==
  ASSUME NEW p, NEW q, Good(p), p.st # "EDITING", Raised(p, q), Fits(q)
  PROVE  Stepped(p, q)
<1>1. BarUp(q)
  BY DEF BarUp, Raised
<1>2. DraftOK(q)
  BY DEF DraftOK, Raised, SameText, Good
<1>3. Sends(p, q)
  BY DEF Sends, Raised
<1>4. Undoes(p, q)
  BY DEF Undoes
<1> QED
  BY <1>1, <1>2, <1>3, <1>4 DEF Stepped, Good, Raised

LEMMA AlikeLeft ==
  ASSUME NEW p, NEW a, NEW q, Alike(p, a), Left(a, q)
  PROVE  Left(p, q)
BY DEF Alike, Left, SameLife, SameAim, SameText, Undone

LEMMA AlikeGood ==
  ASSUME NEW p, NEW a, NEW q, Alike(p, a), Stepped(a, q)
  PROVE  Stepped(p, q)
BY DEF Alike, Stepped, Sends, Undoes, SameLife, SameAim, SameText

LEMMA ConfigureStep ==
  ASSUME NEW p, NEW e, Good(p),
         p.st = "PICKING" \/ (p.st = "CONFIGURING" /\ p.sel \in PageElements)
  PROVE  Stepped(p, Configure(p, e)) /\ Stepped(p, DisableInlineEdit(Configure(p, e)))
<1> DEFINE q == Configure(p, e)
           r == DisableInlineEdit(q)
<1>1. /\ IsPage(q) /\ SameLife(p, q) /\ Unmarked(q) /\ q.bar.on /\ ~q.hide
      /\ q.st = "CONFIGURING" /\ q.sel = e /\ q.kind = p.kind /\ SameText(p, q)
  BY ConfigureIs DEF Good
<1>2. ~p.session => p.kind # "insert"
  BY DEF Good, Fits, PageElements
<1>3. Raised(p, q) /\ Fits(q)
  BY <1>1, <1>2, UnmarkedFits DEF Raised, Fits, SameLife
<1>4. Stepped(p, q)
  BY <1>3, RaisedStep
<1> HIDE DEF q
<1>5. /\ IsPage(r) /\ SameLife(q, r) /\ SameAim(q, r) /\ SameMarks(q, r) /\ SameBar(q, r)
      /\ Unedited(r)
  BY <1>1, DisableInlineEditIs
<1> HIDE DEF r
<1>6. BarUp(r) /\ DraftOK(r)
  BY <1>1, <1>5 DEF BarUp, DraftOK, SameBar, Unedited
<1>7. Fits(r)
  BY <1>3, <1>5 DEF Fits, SameLife, SameAim, SameMarks, MarksOn
<1>8. Sends(p, r) /\ Undoes(p, r)
  BY <1>1, <1>5 DEF Sends, Undoes, SameLife
<1> QED
  BY <1>4, <1>5, <1>6, <1>7, <1>8 DEF Stepped, Good, q, r

LEMMA CancelStep ==
  ASSUME NEW p, Good(p)
  PROVE  Stepped(p, CancelEditing(p))
<1> DEFINE q == CancelEditing(p)
<1>1. /\ IsPage(q) /\ SameLife(p, q) /\ SameMarks(p, q) /\ q.bar.on /\ ~q.hide
      /\ q.st = "CONFIGURING" /\ q.sel = p.sel /\ q.kind = p.kind
      /\ Unedited(q) /\ q.dom = Undone(p)
  BY CancelEditingIs DEF Good
<1> HIDE DEF q
<1>2. Fits(q)
  BY <1>1 DEF Good, Fits, SameLife, SameMarks, MarksOn
<1>3. BarUp(q) /\ DraftOK(q)
  BY <1>1 DEF BarUp, DraftOK, Unedited
<1>4. Sends(p, q) /\ Undoes(p, q)
  BY <1>1 DEF Sends, Undoes, SameLife, Good, DraftOK, Undone
<1> QED
  BY <1>1, <1>2, <1>3, <1>4 DEF Stepped, Good, q

(***************************************************************************)
(* The steps of the user.                                                  *)
(***************************************************************************)
LEMMA MouseStep ==
  ASSUME Good(page), MouseMove
  PROVE  Stepped(page, page')
<1>1. \/ \E b : page' = [page EXCEPT !.line = b]
      \/ \E e : page' = [page EXCEPT !.hov = e]
  BY DEF MouseMove, Event
<1>2. Alike(page, page')
  BY <1>1 DEF Good,
       IsPage, PageFields, SameLife, SameAim, SameMarks, SameBar, SameText, Alike
<1> QED
  BY <1>2, AlikeStep

\* A click in PICKING with the insert line on display.
LEMMA InsertStartStep ==
  ASSUME NEW p, Good(p), p.st = "PICKING"
  PROVE  LET c == HideInsertLine(CreateInsertPlaceholder(p))
             d == ClearAnnotations([c EXCEPT !.kind = "insert", !.sel = "ph",
                                             !.st = "CONFIGURING"])
         IN Stepped(p, ShowBar(ShowAnnotOverlay(d), "configure"))
<1> DEFINE a == CreateInsertPlaceholder(p)
           c == HideInsertLine(a)
           k == [c EXCEPT !.kind = "insert", !.sel = "ph", !.st = "CONFIGURING"]
           d == ClearAnnotations(k)
           o == ShowAnnotOverlay(d)
           q == ShowBar(o, "configure")
<1>1. Alike(p, a)
  BY CreateInsertPlaceholderIs DEF Good
<1>2. IsPage(a)
  BY <1>1 DEF Alike
<1> HIDE DEF a
<1>3. Alike(a, c)
  BY <1>2, HideInsertLineIs
<1> HIDE DEF c
<1>4. /\ IsPage(k) /\ SameLife(p, k) /\ SameText(p, k)
      /\ k.kind = "insert" /\ k.sel = "ph" /\ k.st = "CONFIGURING"
  BY <1>1, <1>3 DEF IsPage, PageFields, SameLife, SameAim, SameMarks, SameBar, SameText,
     Alike
<1> HIDE DEF k
<1>5. IsPage(d) /\ SameLife(k, d) /\ SameAim(k, d) /\ Unmarked(d) /\ SameText(k, d)
  BY <1>4, ClearAnnotationsIs
<1> HIDE DEF d
<1>6. Alike(d, o)
  BY <1>5, ShowAnnotOverlayIs
<1>7. IsPage(o)
  BY <1>6 DEF Alike
<1> HIDE DEF o
<1>8. /\ IsPage(q) /\ SameLife(o, q) /\ SameAim(o, q) /\ SameMarks(o, q)
      /\ q.bar.on /\ ~q.hide /\ SameText(o, q)
  BY <1>7, ShowBarIs
<1> HIDE DEF q
<1>9. Unmarked(q) /\ q.sel = "ph" /\ q.st = "CONFIGURING" /\ SameLife(p, q) /\ SameText(p, q)
  BY <1>4, <1>5, <1>6, <1>8
     DEF Alike, SameLife, SameAim, SameMarks, SameText, Unmarked
<1>10. Raised(p, q) /\ Fits(q)
  BY <1>8, <1>9, UnmarkedFits DEF Raised, Fits, SameLife
<1>11. Stepped(p, q)
  BY <1>10, RaisedStep
<1> QED
  BY <1>11 DEF q, o, d, k, c, a

LEMMA ClickPageStep ==
  ASSUME Good(page), ClickPage
  PROVE  Stepped(page, page')
<1> DEFINE a == IF page.picker # "none" THEN HideActionPicker(page) ELSE page
           b == IF a.tune THEN CloseTunePopover(a) ELSE a
<1>1. Alike(page, a)
  BY HideActionPickerIs DEF Good,
       IsPage, PageFields, SameLife, SameAim, SameMarks, SameBar, SameText, Alike
<1>2. IsPage(a)
  BY <1>1 DEF Alike
<1>3. Alike(a, b)
  <2> HIDE DEF a
  <2> QED
    BY <1>2, CloseTunePopoverIs DEF IsPage, PageFields, SameLife, SameAim, SameMarks,
       SameBar, SameText, Alike
<1>4. Alike(page, b)
  BY <1>1, <1>3, AlikeTrans
<1>5. Stepped(page, a) /\ Stepped(page, b) /\ Good(b) /\ IsPage(b)
  BY <1>1, <1>4, AlikeStep DEF Stepped, Good
<1>6. \/ page' = a
      \/ page' = b
      \/ page' = CancelEditingToPicking(b)
      \/ page' = CancelInsertConfigure(b)
      \/ page' = ExitConfigureToPicking(b, TRUE)
      \/ /\ b.st = "PICKING"
         /\ page' = ShowBar(ShowAnnotOverlay(ClearAnnotations(
                      [HideInsertLine(CreateInsertPlaceholder(b))
                         EXCEPT !.kind = "insert", !.sel = "ph", !.st = "CONFIGURING"])),
                    "configure")
      \/ b.st = "PICKING" /\ page' = Configure(b, b.hov)
  BY DEF ClickPage, User
<1> HIDE DEF a, b
<1>7. ASSUME Left(b, page') PROVE Stepped(page, page')
  BY <1>4, <1>5, <1>7, LeftStep, AlikeGood
<1>8. ASSUME Stepped(b, page') PROVE Stepped(page, page')
  BY <1>4, <1>8, AlikeGood
<1> QED
  BY <1>5, <1>6, <1>7, <1>8, CancelToPickingIsLeft, CancelInsertIsLeft, ExitIsLeft,
     InsertStartStep, ConfigureStep

LEMMA KeyPickStep ==
  ASSUME Good(page), KeyPick
  PROVE  Stepped(page, page')
<1>1. CASE page.st = "PICKING" /\ page' = Configure(page, page.hov)
  BY <1>1, ConfigureStep
<1>2. CASE \E e : page' = [page EXCEPT !.hov = e]
  <2>1. Alike(page, page')
    BY <1>2 DEF Good,
       IsPage, PageFields, SameLife, SameAim, SameMarks, SameBar, SameText, Alike
  <2> QED
    BY <2>1, AlikeStep
<1>3. CASE /\ page.st = "CONFIGURING" /\ page.sel \in PageElements
           /\ \E e : page' = DisableInlineEdit(Configure(page, e))
  BY <1>3, ConfigureStep
<1> QED
  BY <1>1, <1>2, <1>3 DEF KeyPick, User

LEMMA EscapeStep ==
  ASSUME Good(page), Escape
  PROVE  Stepped(page, page')
<1>1. \/ page' = HideActionPicker(page)
      \/ page' = CancelEditing(page)
      \/ page' = CancelInsertConfigure(page)
      \/ page' = ExitConfigureToPicking(page, FALSE)
      \/ page.st = "PICKING" /\ page' = [page EXCEPT !.st = "IDLE"]
  BY DEF Escape, User
<1>2. CASE page.st = "PICKING" /\ page' = [page EXCEPT !.st = "IDLE"]
  <2>1. /\ IsPage(page') /\ SameLife(page, page') /\ SameMarks(page, page')
        /\ SameText(page, page') /\ page'.st = "IDLE"
        /\ page'.sel = page.sel /\ page'.kind = page.kind
    BY <1>2 DEF Good,
       IsPage, PageFields, SameLife, SameAim, SameMarks, SameBar, SameText, Alike
  <2>2. BarUp(page') /\ DraftOK(page') /\ Fits(page')
    BY <2>1 DEF Good, BarUp, DraftOK, Fits, SameLife, SameMarks, SameText, MarksOn
  <2>3. Sends(page, page') /\ Undoes(page, page')
    BY <1>2, <2>1 DEF Sends, Undoes, SameLife
  <2> QED
    BY <2>1, <2>2, <2>3 DEF Stepped, Good
<1>3. Alike(page, HideActionPicker(page))
  BY HideActionPickerIs DEF Good
<1> QED
  BY <1>1, <1>2, <1>3, AlikeStep, CancelStep, CancelInsertIsLeft, ExitIsLeft, LeftStep
     DEF Good

\* A tool goes on or off without anything being selected: the state may move
\* between IDLE and PICKING, and no insertion is under way.
Retooled(p, q) ==
  /\ IsPage(q) /\ SameLife(p, q) /\ SameMarks(p, q) /\ SameBar(p, q) /\ SameText(p, q)
  /\ q.sel = p.sel /\ q.kind = "replace"
  /\ q.st = p.st \/ (p.st \in {"IDLE", "PICKING"} /\ q.st \in {"IDLE", "PICKING"})

LEMMA RetooledStep ==
  ASSUME NEW p, NEW q, Good(p), Retooled(p, q)
  PROVE  Stepped(p, q)
<1>1. BarUp(q) /\ DraftOK(q)
  BY DEF Good, BarUp, DraftOK, Retooled, SameLife, SameBar, SameText
<1>2. Fits(q)
  BY DEF Good, Fits, Retooled, SameLife, SameMarks, MarksOn
<1>3. Sends(p, q) /\ Undoes(p, q)
  BY DEF Sends, Undoes, Retooled, SameLife
<1> QED
  BY <1>1, <1>2, <1>3 DEF Stepped, Good, Retooled

LEMMA TogglePickStep ==
  ASSUME Good(page), TogglePick
  PROVE  Stepped(page, page')
<1>1. CASE ~page.pick
  <2> DEFINE a == [page EXCEPT !.pick = TRUE, !.ins = FALSE]
             q == ClearInsertPicking(a)
  <2>1. Alike(page, a)
    BY DEF Good,
       IsPage, PageFields, SameLife, SameAim, SameMarks, SameBar, SameText, Alike
  <2>2. page' = IF q.st = "IDLE" THEN [q EXCEPT !.st = "PICKING"] ELSE q
    BY <1>1 DEF TogglePick, User
  <2> HIDE DEF a
  <2>3. /\ IsPage(q) /\ SameLife(a, q) /\ SameMarks(a, q) /\ SameBar(a, q) /\ SameText(a, q)
        /\ q.st = a.st /\ q.sel = a.sel /\ q.kind = "replace"
    BY <2>1, ClearInsertPickingIs DEF Alike
  <2> HIDE DEF q
  <2>4. Retooled(page, q)
    BY <2>1, <2>3 DEF Retooled, Alike, SameLife, SameAim, SameMarks, SameBar, SameText
  <2>5. Retooled(page, page')
    BY <2>2, <2>4 DEF Retooled, IsPage, PageFields, SameLife, SameMarks, SameBar, SameText
  <2> QED
    BY <2>5, RetooledStep
<1>2. CASE page.pick
  <2> DEFINE a == [page EXCEPT !.pick = FALSE]
             q == TeardownConfigureChrome(a)
             r == HideActionPicker(q)
  <2>1. Alike(page, a)
    BY DEF Good,
       IsPage, PageFields, SameLife, SameAim, SameMarks, SameBar, SameText, Alike
  <2>2. page' = [r EXCEPT !.sel = "none", !.hov = "none", !.kind = "replace",
                          !.st = IF @ \in {"PICKING", "CONFIGURING"} THEN "IDLE" ELSE @]
    BY <1>2 DEF TogglePick, User
  <2> HIDE DEF a
  <2>3. /\ IsPage(q) /\ SameLife(a, q) /\ Unmarked(q) /\ Unedited(q) /\ q.st = a.st
    BY <2>1, TeardownChromeIs DEF Alike
  <2> HIDE DEF q
  <2>4. Alike(q, r)
    BY <2>3, HideActionPickerIs
  <2> HIDE DEF r
  <2>5. /\ IsPage(r) /\ r.sent = page.sent /\ Unedited(r) /\ r.st = page.st
    BY <2>1, <2>3, <2>4 DEF Alike, SameLife, SameAim, SameText, Unedited
  <2>6. Left(page, page')
    BY <2>2, <2>5 DEF Left, IsPage, PageFields, Unedited
  <2> QED
    BY <2>6, LeftStep
<1> QED
  BY <1>1, <1>2

LEMMA ToggleInsertStep ==
  ASSUME Good(page), ToggleInsert
  PROVE  Stepped(page, page')
<1>1. CASE page.ins
  <2> DEFINE a == [page EXCEPT !.ins = FALSE]
             q == ClearInsertPicking(a)
  <2>1. Alike(page, a)
    BY DEF Good,
       IsPage, PageFields, SameLife, SameAim, SameMarks, SameBar, SameText, Alike
  <2>2. page' = IF q.st = "PICKING" /\ ~q.pick THEN [q EXCEPT !.st = "IDLE"] ELSE q
    BY <1>1 DEF ToggleInsert, User
  <2> HIDE DEF a
  <2>3. /\ IsPage(q) /\ SameLife(a, q) /\ SameMarks(a, q) /\ SameBar(a, q) /\ SameText(a, q)
        /\ q.st = a.st /\ q.sel = a.sel /\ q.kind = "replace"
    BY <2>1, ClearInsertPickingIs DEF Alike
  <2> HIDE DEF q
  <2>4. Retooled(page, q)
    BY <2>1, <2>3 DEF Retooled, Alike, SameLife, SameAim, SameMarks, SameBar, SameText
  <2>5. Retooled(page, page')
    BY <2>2, <2>4 DEF Retooled, IsPage, PageFields, SameLife, SameMarks, SameBar, SameText
  <2> QED
    BY <2>5, RetooledStep
<1>2. CASE ~page.ins
  <2> DEFINE a == [page EXCEPT !.ins = TRUE, !.pick = FALSE]
             b == HideBar(a)
             c == HideActionPicker(b)
             q == [c EXCEPT !.sel = "none", !.kind = "replace"]
  <2>1. Alike(page, a)
    BY DEF Good,
       IsPage, PageFields, SameLife, SameAim, SameMarks, SameBar, SameText, Alike
  <2>2. page' = IF q.st = "CONFIGURING" THEN CancelInsertConfigure(q)
                ELSE IF q.st = "IDLE" THEN [q EXCEPT !.st = "PICKING"] ELSE q
    BY <1>2 DEF ToggleInsert, User
  <2> HIDE DEF a
  <2>3. IsPage(b) /\ SameLife(a, b) /\ Unedited(b) /\ b.st = a.st
    BY <2>1, HideBarIs DEF Alike
  <2> HIDE DEF b
  <2>4. Alike(b, c)
    BY <2>3, HideActionPickerIs
  <2> HIDE DEF c
  <2>5. /\ IsPage(q) /\ q.sent = page.sent /\ Unedited(q) /\ q.st = page.st
        /\ q.sel = "none" /\ q.kind = "replace"
    BY <2>1, <2>3, <2>4 DEF Alike, SameLife, SameAim, SameText, Unedited, IsPage, PageFields
  <2> HIDE DEF q
  <2>6. CASE q.st = "CONFIGURING"
    <3>1. Left(q, page')
      BY <2>2, <2>5, <2>6, CancelInsertIsLeft
    <3>2. Left(page, page')
      BY <2>5, <2>6, <3>1 DEF Left
    <3> QED
      BY <3>2, LeftStep
  <2>7. CASE q.st # "CONFIGURING"
    <3>1. Left(page, page')
      BY <2>2, <2>5, <2>7 DEF Left, IsPage, PageFields, Unedited
    <3> QED
      BY <3>1, LeftStep
  <2> QED
    BY <2>6, <2>7
<1> QED
  BY <1>1, <1>2

LEMMA GoStep ==
  ASSUME NEW p, Good(p), CanGo(p)
  PROVE  Stepped(p, GoFrom(p))
<1> DEFINE q == GoFrom(p)
<1>1. /\ IsPage(q) /\ q.session /\ q.st = "GENERATING" /\ Unedited(q)
      /\ MarksOn(p, p.sel) => SentFor(q, p.sel)
  BY GoFromIs DEF Good
<1> HIDE DEF q
<1>2. p.sel # "none" /\ p.st = "CONFIGURING"
  BY DEF CanGo
<1>3. Good(q)
  BY <1>1 DEF Good, BarUp, DraftOK, Fits, Unedited
<1>4. Sends(p, q) /\ Undoes(p, q)
  BY <1>1, <1>2 DEF Good, Fits, Sends, Undoes, SentFor
<1> QED
  BY <1>3, <1>4 DEF Stepped, q

LEMMA CreateStep ==
  ASSUME NEW p, Good(p), p.st # "EDITING" \/ CreateFrom(p) = p
  PROVE  Stepped(p, CreateFrom(p))
<1> DEFINE q == CreateFrom(p)
<1>1. \/ /\ IsPage(q) /\ SameLife(p, q) /\ SameAim(p, q) /\ SameBar(p, q)
         /\ SameText(p, q) /\ MarksLost(p, q)
      \/ /\ IsPage(q) /\ q.session /\ q.st = "GENERATING" /\ SameText(p, q)
         /\ p.kind = "insert" /\ (MarksOn(p, "ph") => SentFor(q, "ph"))
  BY CreateFromIs DEF Good
<1>2. p.st # "EDITING" \/ q = p
  OBVIOUS
<1> HIDE DEF q
<1>3. CASE /\ IsPage(q) /\ SameLife(p, q) /\ SameAim(p, q) /\ SameBar(p, q)
           /\ SameText(p, q) /\ MarksLost(p, q)
  <2>1. Drawn(p, q)
    BY <1>3 DEF Drawn, MarksLost
  <2> QED
    BY <2>1, DrawnStep DEF q
<1>4. CASE /\ IsPage(q) /\ q.session /\ q.st = "GENERATING" /\ SameText(p, q)
           /\ p.kind = "insert" /\ (MarksOn(p, "ph") => SentFor(q, "ph"))
  <2>1. Good(q)
    BY <1>4 DEF Good, BarUp, DraftOK, Fits, SameText
  <2>2. Sends(p, q)
    BY <1>4 DEF Good, Fits, Sends, SentFor
  <2>3. Undoes(p, q)
    BY <1>2 DEF Undoes
  <2> QED
    BY <2>1, <2>2, <2>3 DEF Stepped, q
<1> QED
  BY <1>1, <1>3, <1>4

LEMMA CyclingStep ==
  ASSUME NEW p, Good(p), p.st = "CYCLING"
  PROVE  Stepped(p, ShowOrUpdateCyclingBar(p))
<1> DEFINE q == ShowOrUpdateCyclingBar(p)
<1>1. \/ Left(p, q)
      \/ IsPage(q) /\ SameLife(p, q) /\ SameAim(p, q) /\ SameMarks(p, q) /\ SameText(p, q)
  BY CyclingBarIs DEF Good
<1> HIDE DEF q
<1>2. CASE IsPage(q) /\ SameLife(p, q) /\ SameAim(p, q) /\ SameMarks(p, q) /\ SameText(p, q)
  <2>1. BarUp(q) /\ DraftOK(q)
    BY <1>2 DEF Good, BarUp, DraftOK, SameAim, SameText
  <2>2. Fits(q)
    BY <1>2 DEF Good, Fits, SameLife, SameAim, SameMarks, MarksOn
  <2>3. Sends(p, q) /\ Undoes(p, q)
    BY <1>2 DEF Sends, Undoes, SameLife, SameAim
  <2> QED
    BY <1>2, <2>1, <2>2, <2>3 DEF Stepped, Good, q
<1> QED
  BY <1>1, <1>2, LeftStep DEF q

\* A save is posted, or answered.
LEMMA SavesStep ==
  ASSUME NEW p, Good(p), NEW s
  PROVE  Stepped(p, [p EXCEPT !.saves = s])
<1> DEFINE q == [p EXCEPT !.saves = s]
<1>1. /\ IsPage(q) /\ q.alive = p.alive /\ q.conn = p.conn /\ q.session = p.session
      /\ q.sent = p.sent /\ SameAim(p, q) /\ SameMarks(p, q) /\ SameBar(p, q) /\ SameText(p, q)
  BY DEF Good,
       IsPage, PageFields, SameLife, SameAim, SameMarks, SameBar, SameText, Alike
<1> HIDE DEF q
<1>2. BarUp(q) /\ DraftOK(q)
  BY <1>1 DEF Good, BarUp, DraftOK, SameAim, SameBar, SameText
<1>3. Fits(q)
  BY <1>1 DEF Good, Fits, SameAim, SameMarks, MarksOn
<1>4. Sends(p, q) /\ Undoes(p, q)
  BY <1>1 DEF Sends, Undoes, SameAim
<1> QED
  BY <1>1, <1>2, <1>3, <1>4 DEF Stepped, Good, q

LEMMA RowStep ==
  ASSUME Good(page),
         \/ TypePrompt \/ ClickPill \/ ClickAction \/ ChooseAction \/ Go \/ Create
  PROVE  Stepped(page, page')
<1> USE DEF Good
<1>1. CASE TypePrompt
  <2> DEFINE a == [page EXCEPT !.bar.text = ~@]
  <2>1. Alike(page, a)
    BY DEF IsPage, PageFields, SameLife, SameAim, SameMarks, SameBar, SameText, Alike
  <2>2. IsPage(a) /\ page' = SyncInsertCreateButton(a)
    BY <1>1, <2>1 DEF TypePrompt, User, Alike
  <2> HIDE DEF a
  <2>3. Alike(a, page')
    BY <2>2, SyncInsertCreateButtonIs
  <2> QED
    BY <2>1, <2>3, AlikeTrans, AlikeStep
<1>2. CASE ClickPill
  <2>1. page' = RemoveConfigureSelection(page)
    BY <1>2 DEF ClickPill, User
  <2> QED
    BY <2>1, RemoveSelectionIsLeft, LeftStep
<1>3. CASE ClickAction
  <2>1. page' \in {HideActionPicker(page), [page EXCEPT !.picker = "open"]}
    BY <1>3 DEF ClickAction, User
  <2>2. Alike(page, [page EXCEPT !.picker = "open"])
    BY DEF IsPage, PageFields, SameLife, SameAim, SameMarks, SameBar, SameText, Alike
  <2> QED
    BY <2>1, <2>2, HideActionPickerIs, AlikeStep
<1>4. CASE ChooseAction
  <2> DEFINE a == HideActionPicker(page)
             q == UpdateBarContent(a, "configure")
  <2>1. Alike(page, a)
    BY HideActionPickerIs
  <2>2. page' \in {q, [q EXCEPT !.bar.text = page.bar.text]}
    BY <1>4 DEF ChooseAction, User
  <2>3. IsPage(a)
    BY <2>1 DEF Alike
  <2> HIDE DEF a
  <2>4. Alike(a, q)
    BY <2>3, UpdateBarContentIs
  <2> HIDE DEF q
  <2>5. Alike(q, [q EXCEPT !.bar.text = page.bar.text])
    BY <2>4 DEF IsPage, PageFields, SameLife, SameAim, SameMarks, SameBar, SameText, Alike
  <2>6. Alike(page, page')
    BY <2>1, <2>2, <2>4, <2>5, AlikeTrans
  <2> QED
    BY <2>6, AlikeStep
<1>5. CASE Go
  <2>1. page' = GoFrom(page) /\ CanGo(page)
    BY <1>5 DEF Go, User
  <2> QED
    BY <2>1, GoStep
<1>6. CASE Create
  <2>1. page' = CreateFrom(page)
    BY <1>6 DEF Create, User
  <2>2. page.st # "EDITING" \/ CreateFrom(page) = page
    BY DEF CreateFrom, CanCreate
  <2> QED
    BY <2>1, <2>2, CreateStep
<1> QED
  BY <1>1, <1>2, <1>3, <1>4, <1>5, <1>6

LEMMA AnnotStep ==
  ASSUME Good(page), AnnotDown \/ AnnotMove \/ AnnotUp \/ NoteInput
  PROVE  Stepped(page, page')
<1> USE DEF Good
<1>1. SUFFICES Drawn(page, page')
  BY DrawnStep
<1>2. \A q : Alike(page, q) => Drawn(page, q)
  BY DrawnAlike
<1>3. /\ Drawn(page, ClearAnnotations(page))
      /\ Drawn(page, FinalizeEditingPin(page)) /\ Drawn(page, CancelEditingPin(page))
  <2>1. Drawn(page, ClearAnnotations(page))
    BY ClearAnnotationsIs, UnmarkedFits DEF Drawn
  <2>2. Drawn(page, FinalizeEditingPin(page)) /\ Drawn(page, CancelEditingPin(page))
    BY FinalizePinIs, CancelPinIs DEF Drawn, MarksLost
  <2> QED
    BY <2>1, <2>2
<1>4. CASE AnnotDown
  <2>1. \/ page' = ClearAnnotations(page)
        \/ \E s : page' = [page EXCEPT !.strokes = @ \ {s}]
        \/ \E i, n, t : page' = [page EXCEPT !.pins = Splice(@, i), !.last = 0,
                                             !.note = n, !.typed = t]
        \/ \E q \in {page, FinalizeEditingPin(page)} : \E i, r :
              page' = [q EXCEPT !.last = i] \/ page' = [q EXCEPT !.last = i, !.ptr = r]
        \/ page' = FinalizeEditingPin(page)
        \/ \E r : page' = [page EXCEPT !.ptr = r]
    <3> DEFINE F == FinalizeEditingPin(page)
               From(i) == IF page.note \notin {0, i} THEN F ELSE page
               P(q, i) == IF q.note = i \/ i \notin DOMAIN q.pins THEN [q EXCEPT !.last = i]
                          ELSE [q EXCEPT !.last = i,
                                  !.ptr = [kind |-> "pin", idx |-> i, moved |-> FALSE]]
    <3>1. CASE User(ClearAnnotations(page))
      BY <3>1 DEF User
    <3>2. CASE \E s \in page.strokes : User([page EXCEPT !.strokes = @ \ {s}])
      BY <3>2 DEF User
    <3>3. CASE \E i \in DOMAIN page.pins :
                 User([page EXCEPT !.pins = Splice(@, i), !.last = 0,
                                   !.note = IF @ = i THEN 0 ELSE @,
                                   !.typed = IF page.note = i THEN FALSE ELSE @])
      <4>1. PICK i : User([page EXCEPT !.pins = Splice(@, i), !.last = 0,
                                        !.note = IF @ = i THEN 0 ELSE @,
                                        !.typed = IF page.note = i THEN FALSE ELSE @])
        BY <3>3
      <4> DEFINE n == IF page.note = i THEN 0 ELSE page.note
                 t == IF page.note = i THEN FALSE ELSE page.typed
      <4>2. page' = [page EXCEPT !.pins = Splice(@, i), !.last = 0, !.note = n, !.typed = t]
        BY <4>1 DEF User
      <4> HIDE DEF n, t
      <4> QED
        BY <4>2
    <3>4. CASE \E i \in DOMAIN page.pins : User(P(From(i), i))
      <4>1. PICK i : page' = P(From(i), i)
        BY <3>4 DEF User
      <4>2. From(i) \in {page, FinalizeEditingPin(page)}
        OBVIOUS
      <4> HIDE DEF F, From
      <4>3. PICK q \in {page, FinalizeEditingPin(page)} : page' = P(q, i)
        BY <4>1, <4>2
      <4>4. \E r : page' = [q EXCEPT !.last = i] \/ page' = [q EXCEPT !.last = i, !.ptr = r]
        BY <4>3
      <4> QED
        BY <4>4
    <3>5. CASE User(IF page.note # 0 THEN FinalizeEditingPin(page)
                    ELSE [page EXCEPT !.ptr = [kind |-> "new", idx |-> 0, moved |-> FALSE]])
      BY <3>5 DEF User
    <3> QED
      BY <1>4, <3>1, <3>2, <3>3, <3>4, <3>5, Zenon DEF AnnotDown
  <2>2. CASE \E s : page' = [page EXCEPT !.strokes = @ \ {s}]
    BY <2>2 DEF Drawn, MarksOn,
       IsPage, PageFields, SameLife, SameAim, SameMarks, SameBar, SameText, Alike
  <2>3. CASE \E i, n, t : page' = [page EXCEPT !.pins = Splice(@, i), !.last = 0,
                                               !.note = n, !.typed = t]
    <3>1. PICK i : /\ page'.pins = Splice(page.pins, i) /\ page'.strokes = page.strokes
                   /\ IsPage(page') /\ SameLife(page, page') /\ SameAim(page, page')
                   /\ SameBar(page, page') /\ SameText(page, page')
      BY <2>3 DEF IsPage, PageFields, SameLife, SameAim, SameMarks, SameBar, SameText, Alike
    <3> QED
      BY <3>1, SpliceIs DEF Drawn, MarksOn
  <2>4. ASSUME NEW q, Drawn(page, q), NEW i, NEW r,
               page' = [q EXCEPT !.last = i] \/ page' = [q EXCEPT !.last = i, !.ptr = r]
        PROVE  Drawn(page, page')
    <3>1. Alike(q, page')
      BY <2>4 DEF Drawn,
       IsPage, PageFields, SameLife, SameAim, SameMarks, SameBar, SameText, Alike
    <3> QED
      BY <2>4, <3>1 DEF Drawn, Alike, SameLife, SameAim, SameMarks, SameBar, SameText,
         MarksOn
  <2>5. CASE \E r : page' = [page EXCEPT !.ptr = r]
    BY <2>5, <1>2 DEF IsPage, PageFields, SameLife, SameAim, SameMarks, SameBar, SameText,
       Alike
  <2>6. Drawn(page, page)
    BY <1>2 DEF IsPage, PageFields, SameLife, SameAim, SameMarks, SameBar, SameText, Alike
  <2> QED
    BY <1>3, <2>1, <2>2, <2>3, <2>4, <2>5, <2>6
<1>5. CASE AnnotMove
  <2>1. Alike(page, page')
    BY <1>5 DEF AnnotMove, Event,
       IsPage, PageFields, SameLife, SameAim, SameMarks, SameBar, SameText, Alike
  <2> QED
    BY <1>2, <2>1
<1>6. CASE AnnotUp
  <2> DEFINE q == [page EXCEPT !.ptr = AnnotInit.ptr]
             k == [q EXCEPT !.strokes = @ \cup {page.sel}]
             s == [q EXCEPT !.pins = Append(@, [text |-> FALSE, on |-> page.sel])]
  <2>1. \/ page' = [q EXCEPT !.last = 0]
        \/ page' = BeginEditPin(q, page.ptr.idx)
        \/ page' = SyncInsertCreateButton(k)
        \/ page' = SyncInsertCreateButton(BeginEditPin(s, Len(s.pins)))
    BY <1>6 DEF AnnotUp, Event
  <2>2. Alike(page, q) /\ Alike(page, [q EXCEPT !.last = 0])
    BY DEF IsPage, PageFields, SameLife, SameAim, SameMarks, SameBar, SameText, Alike
  <2>3. Drawn(page, k)
    BY DEF Drawn, MarksOn,
       IsPage, PageFields, SameLife, SameAim, SameMarks, SameBar, SameText, Alike
  <2>4. Drawn(page, s)
    <3> DEFINE S == Pins(page.sel)
               m == [text |-> FALSE, on |-> page.sel]
    <3>1. m \in S
      BY DEF Pins
    <3>2. /\ s.pins = Append(page.pins, m) /\ s.strokes = page.strokes
          /\ IsPage(s) /\ SameLife(page, s) /\ SameAim(page, s)
          /\ SameBar(page, s) /\ SameText(page, s)
      BY DEF IsPage, PageFields, SameLife, SameAim, SameMarks, SameBar, SameText, Alike
    <3> HIDE DEF S, m, s
    <3>3. page.pins \in Seq(S) => Append(page.pins, m) \in Seq(S)
      BY <3>1
    <3> QED
      BY <3>2, <3>3 DEF Drawn, MarksOn, S
  <2>5. IsPage(q)
    BY <2>2 DEF Alike
  <2> HIDE DEF q, k, s
  <2>6. \A x, y : Drawn(page, x) /\ Alike(x, y) => Drawn(page, y)
    BY DEF Drawn, Alike, SameLife, SameAim, SameMarks, SameBar, SameText, MarksOn
  <2>7. Alike(q, BeginEditPin(q, page.ptr.idx))
    BY <2>5, BeginEditPinIs
  <2>8. Alike(k, SyncInsertCreateButton(k))
    BY <2>3, SyncInsertCreateButtonIs DEF Drawn
  <2>9. Alike(s, BeginEditPin(s, Len(s.pins)))
    BY <2>4, BeginEditPinIs DEF Drawn
  <2>10. Alike(s, SyncInsertCreateButton(BeginEditPin(s, Len(s.pins))))
    <3>1. IsPage(BeginEditPin(s, Len(s.pins)))
      BY <2>9 DEF Alike
    <3> QED
      BY <2>9, <3>1, SyncInsertCreateButtonIs, AlikeTrans
  <2> QED
    BY <1>2, <2>1, <2>2, <2>3, <2>4, <2>6, <2>7, <2>8, <2>10
<1>7. CASE NoteInput
  <2>1. \/ page' = [page EXCEPT !.typed = ~@]
        \/ page' = FinalizeEditingPin(page)
        \/ page' = CancelEditingPin(page)
    BY <1>7 DEF NoteInput, User, Event
  <2>2. Alike(page, [page EXCEPT !.typed = ~@])
    BY DEF IsPage, PageFields, SameLife, SameAim, SameMarks, SameBar, SameText, Alike
  <2> QED
    BY <1>2, <1>3, <2>1, <2>2
<1> QED
  BY <1>4, <1>5, <1>6, <1>7

LEMMA CopyStep ==
  ASSUME Good(page), ClickEdit \/ TypeCopy \/ ClickCancel \/ ClickSave
  PROVE  Stepped(page, page')
<1> USE DEF Good
<1>1. CASE ClickEdit
  <2> DEFINE a == [page EXCEPT !.st = "EDITING"]
             b == HideBar(a)
             c == HideAnnotOverlay(b)
             d == RenderEditBadge(c, "editing")
  <2>1. page' = EnableInlineEdit(d)
    BY <1>1 DEF ClickEdit, User
  <2>2. /\ IsPage(a) /\ SameLife(page, a) /\ SameMarks(page, a)
        /\ a.st = "EDITING" /\ a.sel = page.sel
    BY DEF IsPage, PageFields, SameLife, SameAim, SameMarks, SameBar, SameText, Alike
  <2> HIDE DEF a
  <2>3. /\ IsPage(b) /\ SameLife(a, b) /\ SameMarks(a, b) /\ Unedited(b)
        /\ b.st = "EDITING" /\ b.sel = a.sel /\ b.kind # "insert"
    BY <2>2, HideBarIs
  <2> HIDE DEF b
  <2>4. Alike(b, c)
    BY <2>3, HideAnnotOverlayIs
  <2>5. IsPage(c)
    BY <2>4 DEF Alike
  <2> HIDE DEF c
  <2>6. Alike(c, d)
    BY <2>5, RenderEditBadgeIs
  <2>7. IsPage(d)
    BY <2>6 DEF Alike
  <2> HIDE DEF d
  <2>12. /\ IsPage(page') /\ SameLife(d, page') /\ SameAim(d, page') /\ SameMarks(d, page')
         /\ page'.dom = d.dom
         /\ SameText(d, page') \/ (page'.rows /\ ~page'.draft /\ page'.base = d.dom)
    BY <2>1, <2>7, EnableInlineEditIs
  <2>8. DraftOK(page')
    BY <2>3, <2>4, <2>6, <2>12 DEF DraftOK, Alike, SameText, Unedited
  <2>9. /\ IsPage(page') /\ SameLife(page, page') /\ SameMarks(page, page')
        /\ page'.st = "EDITING" /\ page'.sel = page.sel /\ page'.kind # "insert"
    BY <2>2, <2>3, <2>4, <2>6, <2>12 DEF Alike, SameLife, SameAim, SameMarks
  <2>10. BarUp(page') /\ Fits(page')
    BY <2>9 DEF BarUp, Fits, SameLife, SameMarks, MarksOn
  <2>11. Sends(page, page') /\ Undoes(page, page')
    BY <2>9 DEF Sends, Undoes, SameLife
  <2> QED
    BY <2>8, <2>9, <2>10, <2>11 DEF Stepped
<1>2. CASE TypeCopy
  <2>1. \/ \E t : page' = [page EXCEPT !.dom = t, !.draft = TRUE]
        \/ page' = [page EXCEPT !.dom = page.base, !.draft = FALSE]
    BY <1>2 DEF TypeCopy, User
  <2>2. /\ IsPage(page') /\ SameLife(page, page') /\ SameAim(page, page')
        /\ SameMarks(page, page') /\ SameBar(page, page')
    BY <2>1 DEF IsPage, PageFields, SameLife, SameAim, SameMarks, SameBar, SameText, Alike
  <2>3. DraftOK(page')
    BY <2>1 DEF DraftOK, IsPage, PageFields
  <2>4. BarUp(page') /\ Fits(page')
    BY <2>2 DEF BarUp, Fits, SameLife, SameAim, SameMarks, SameBar, MarksOn
  <2>5. Sends(page, page') /\ Undoes(page, page')
    BY <2>2 DEF Sends, Undoes, SameLife, SameAim
  <2> QED
    BY <2>2, <2>3, <2>4, <2>5 DEF Stepped
<1>3. CASE ClickCancel
  BY <1>3, CancelStep DEF ClickCancel, User
<1>4. CASE ClickSave
  <2>1. page' = CancelEditing(page) \/ \E s : page' = [page EXCEPT !.saves = s]
    BY <1>4 DEF ClickSave, User
  <2>2. CASE \E s : page' = [page EXCEPT !.saves = s]
    BY <2>2, SavesStep
  <2> QED
    BY <2>1, <2>2, CancelStep
<1> QED
  BY <1>1, <1>2, <1>3, <1>4

LEMMA CycleStep ==
  ASSUME Good(page), ClickTune \/ TurnKnob \/ ClickAccept \/ ClickDiscard
  PROVE  Stepped(page, page')
<1> USE DEF Good
<1>1. CASE ClickTune
  <2> DEFINE a == [page EXCEPT !.tune = TRUE, !.knob = FALSE]
  <2>1. \/ page' = CloseTunePopover(page)
        \/ page' = ShowOrUpdateCyclingBar(a)
    BY <1>1 DEF ClickTune, User
  <2>2. page.st = "CYCLING"
    BY <1>1 DEF ClickTune, CyclingRow
  <2>3. Alike(page, a)
    BY DEF IsPage, PageFields, SameLife, SameAim, SameMarks, SameBar, SameText, Alike
  <2>4. Alike(page, CloseTunePopover(page))
    BY CloseTunePopoverIs
  <2> HIDE DEF a
  <2>5. Stepped(a, ShowOrUpdateCyclingBar(a))
    <3>1. Good(a) /\ a.st = "CYCLING"
      BY <2>2, <2>3, AlikeStep DEF Stepped, Alike, SameAim
    <3> QED
      BY <3>1, CyclingStep
  <2> QED
    BY <2>1, <2>3, <2>4, <2>5, AlikeStep, AlikeGood
<1>2. CASE TurnKnob
  <2>1. Alike(page, page')
    BY <1>2 DEF TurnKnob, User,
       IsPage, PageFields, SameLife, SameAim, SameMarks, SameBar, SameText, Alike
  <2> QED
    BY <2>1, AlikeStep
<1>3. CASE ClickAccept
  <2> DEFINE a == [page EXCEPT !.st = "SAVING"]
             q == UpdateBarContent(a, "saving")
  <2>1. page' = [q EXCEPT !.pend = TRUE, !.posts = @ \cup {"cur"}]
    BY <1>3 DEF ClickAccept, User
  <2>2. page.st = "CYCLING" /\ page.session
    BY <1>3 DEF ClickAccept, CyclingRow
  <2>3. IsPage(a) /\ SameLife(page, a) /\ SameText(page, a) /\ a.st = "SAVING"
    BY DEF IsPage, PageFields, SameLife, SameAim, SameMarks, SameBar, SameText, Alike
  <2> HIDE DEF a
  <2>4. Alike(a, q)
    BY <2>3, UpdateBarContentIs
  <2> HIDE DEF q
  <2>5. Alike(q, page')
    BY <2>1, <2>4 DEF IsPage, PageFields, SameLife, SameAim, SameMarks, SameBar, SameText,
       Alike
  <2>6. IsPage(page') /\ SameLife(page, page') /\ SameText(page, page') /\ page'.st = "SAVING"
    BY <2>3, <2>4, <2>5 DEF Alike, SameLife, SameAim, SameText
  <2> QED
    BY <2>2, <2>6 DEF Stepped, BarUp, DraftOK, Fits, Sends, Undoes, SameLife, SameText
<1>4. CASE ClickDiscard
  <2>1. Alike(page, page')
    BY <1>4 DEF ClickDiscard, User,
       IsPage, PageFields, SameLife, SameAim, SameMarks, SameBar, SameText, Alike
  <2> QED
    BY <2>1, AlikeStep
<1> QED
  BY <1>1, <1>2, <1>3, <1>4

LEMMA ChatStep ==
  ASSUME Good(page), TypeSteer \/ Steer \/ ClickVoice
  PROVE  Stepped(page, page')
<1> USE DEF Good
<1>1. SUFFICES Alike(page, page')
  BY AlikeStep
<1>2. CASE TypeSteer
  <2> DEFINE a == [page EXCEPT !.steer.text = ~@]
  <2>1. Alike(page, a)
    BY DEF IsPage, PageFields, SameLife, SameAim, SameMarks, SameBar, SameText, Alike
  <2>2. IsPage(a) /\ page' = SyncPageChatVisual(a)
    BY <1>2, <2>1 DEF TypeSteer, User, Alike
  <2> HIDE DEF a
  <2> QED
    BY <2>1, <2>2, SyncPageChatVisualIs, AlikeTrans
<1>3. CASE Steer
  BY <1>3, SteerFromIs DEF Steer, Steers
<1>4. CASE ClickVoice
  <2>1. page' = StopVoice(page) \/ \E m, s : page' = StartVoice(page, m, s)
    BY <1>4 DEF ClickVoice, User
  <2> QED
    BY <2>1, StopVoiceIs, StartVoiceIs
<1> QED
  BY <1>2, <1>3, <1>4


(***************************************************************************)
(* What happens to the page by itself.                                     *)
(***************************************************************************)
Stays(p, q) == Good(q) /\ Sends(p, q)

LEMMA SteppedKept ==
  ASSUME NEW p, NEW q, Stepped(p, q)
  PROVE  Stays(p, q)
BY DEF Stepped, Stays

LEMMA AlikeKept ==
  ASSUME NEW p, NEW a, NEW q, Alike(p, a), Stays(a, q)
  PROVE  Stays(p, q)
BY DEF Alike, Stays, Sends, SameLife

LEMMA KeptAlike ==
  ASSUME NEW p, NEW a, NEW q, Stays(p, a), Alike(a, q)
  PROVE  Stays(p, q)
<1>1. Good(q)
  BY AlikeStep DEF Stays, Stepped
<1> QED
  BY <1>1 DEF Stays, Sends, Alike, SameLife

\* A step to a state of the session, in which no element is being configured.
LEMMA MovedKept ==
  ASSUME NEW p, Good(p), NEW q, IsPage(q), SameMarks(p, q), SameText(p, q),
         q.sent = p.sent, q.session = p.session, q.sel = p.sel, q.kind = p.kind,
         q.st \notin {"CONFIGURING", "PICKING"}
  PROVE  Stays(p, q)
<1>1. BarUp(q) /\ DraftOK(q)
  BY DEF Good, BarUp, DraftOK, SameText
<1>2. Fits(q)
  BY DEF Good, Fits, SameMarks, MarksOn
<1> QED
  BY <1>1, <1>2 DEF Stays, Good, Sends

LEMMA DisableGood ==
  ASSUME NEW p, Good(p)
  PROVE  Good(DisableInlineEdit(p))
<1> DEFINE q == DisableInlineEdit(p)
<1>1. /\ IsPage(q) /\ SameLife(p, q) /\ SameAim(p, q) /\ SameMarks(p, q)
      /\ SameBar(p, q) /\ Unedited(q)
  BY DisableInlineEditIs DEF Good
<1> HIDE DEF q
<1>2. BarUp(q) /\ DraftOK(q)
  BY <1>1 DEF Good, BarUp, DraftOK, SameLife, SameAim, SameBar, Unedited
<1>3. Fits(q)
  BY <1>1 DEF Good, Fits, SameLife, SameAim, SameMarks, MarksOn
<1> QED
  BY <1>1, <1>2, <1>3 DEF Good, q

\* The answer of a save puts the bar up whatever the user did meanwhile; as a
\* save was on its way, the text need not be what the edit began with.
LEMMA SaveAnsweredKept ==
  ASSUME Good(page), SaveAnswered
  PROVE  Stays(page, page')
<1> DEFINE Q(t) == [page EXCEPT !.saves = @ \ {t}]
           R(q) == [DisableInlineEdit(q) EXCEPT !.st = "CONFIGURING"]
<1>1. PICK t : \/ page' = Q(t)
               \/ page' = RenderEditBadge(ShowAnnotOverlay(ShowBar(R(Q(t)), "configure")), "idle")
  BY DEF SaveAnswered, Event
<1> DEFINE a == Q(t)
<1>2. Stepped(page, a) /\ a.sent = page.sent /\ a.session = page.session
  BY SavesStep DEF Good, IsPage, PageFields
<1> HIDE DEF a
<1>3. IsPage(a) /\ Good(a)
  BY <1>2 DEF Stepped, Good
<1> DEFINE b == DisableInlineEdit(a)
           c == R(a)
           d == ShowBar(c, "configure")
           f == ShowAnnotOverlay(d)
           g == RenderEditBadge(f, "idle")
<1>4. /\ IsPage(b) /\ SameLife(a, b) /\ SameAim(a, b) /\ SameMarks(a, b) /\ Unedited(b)
  BY <1>3, DisableInlineEditIs
<1>5. c = [b EXCEPT !.st = "CONFIGURING"]
  OBVIOUS
<1>6. page' = a \/ page' = g
  BY <1>1 DEF a
<1> HIDE DEF b, c
<1>7. /\ IsPage(c) /\ SameLife(a, c) /\ SameMarks(a, c) /\ Unedited(c)
      /\ c.st = "CONFIGURING" /\ c.sel = a.sel /\ c.kind = a.kind
  BY <1>4, <1>5 DEF IsPage, PageFields, SameLife, SameAim, SameMarks, Unedited
<1>8. /\ IsPage(d) /\ SameLife(c, d) /\ SameAim(c, d) /\ SameMarks(c, d)
      /\ d.bar.on /\ ~d.hide /\ SameText(c, d)
  BY <1>7, ShowBarIs
<1> HIDE DEF d
<1>9. Alike(d, f)
  BY <1>8, ShowAnnotOverlayIs
<1>10. IsPage(f)
  BY <1>9 DEF Alike
<1> HIDE DEF f
<1>11. Alike(f, g)
  BY <1>10, RenderEditBadgeIs
<1> HIDE DEF g
<1>12. Alike(d, g)
  BY <1>9, <1>11, AlikeTrans
<1>13. /\ IsPage(d) /\ SameMarks(a, d) /\ Unedited(d) /\ d.sent = a.sent /\ d.session = a.session
       /\ d.sel = a.sel /\ d.kind = a.kind /\ d.st = "CONFIGURING" /\ d.bar.on /\ ~d.hide
  BY <1>7, <1>8 DEF SameLife, SameAim, SameMarks, SameText, Unedited
<1>14. BarUp(d) /\ DraftOK(d)
  BY <1>13 DEF BarUp, DraftOK, Unedited
<1>15. Fits(d)
  BY <1>3, <1>13 DEF Good, Fits, SameMarks, MarksOn
<1>16. Good(d) /\ Sends(a, d)
  BY <1>13, <1>14, <1>15 DEF Good, Sends
<1>17. Sends(page, d)
  BY <1>2, <1>13 DEF Sends
<1> QED
  BY <1>2, <1>6, <1>12, <1>16, <1>17, KeptAlike, SteppedKept DEF Stays

\* An apply of pending copy edits starts or ends.
LEMMA ApplyFlipsStep ==
  ASSUME Good(page), ApplyFlips
  PROVE  Stepped(page, page')
<1>1. PICK a : (\E b : a = [page EXCEPT !.apply = b]) /\ page' = RefreshLiveControls(a)
  BY DEF ApplyFlips, User, Event
<1>2. Alike(page, a)
  BY <1>1 DEF Good,
       IsPage, PageFields, SameLife, SameAim, SameMarks, SameBar, SameText, Alike
<1>3. IsPage(a)
  BY <1>2 DEF Alike
<1>4. Alike(page, page')
  BY <1>1, <1>2, <1>3, RefreshIs, AlikeTrans
<1> QED
  BY <1>4, AlikeStep

\* The timers: a hide timer that counts finds nothing being configured.
LEMMA TimersKept ==
  ASSUME Good(page), HideTimer \/ PickerTimer
  PROVE  Stays(page, page')
<1> USE DEF Good
<1>1. CASE HideTimer
  <2>1. page.hide /\ page' = [page EXCEPT !.hide = FALSE, !.bar.on = FALSE]
    BY <1>1 DEF HideTimer, Event
  <2>2. /\ IsPage(page') /\ SameLife(page, page') /\ SameAim(page, page')
        /\ SameMarks(page, page') /\ SameText(page, page')
    BY <2>1 DEF IsPage, PageFields, SameLife, SameAim, SameMarks, SameText
  <2>3. BarUp(page') /\ DraftOK(page')
    BY <2>1, <2>2 DEF BarUp, DraftOK, SameLife, SameAim, SameText
  <2>4. Fits(page')
    BY <2>2 DEF Fits, SameLife, SameAim, SameMarks, MarksOn
  <2> QED
    BY <2>2, <2>3, <2>4 DEF Stays, Sends, SameLife
<1>2. CASE PickerTimer
  <2>1. Alike(page, page')
    BY <1>2 DEF PickerTimer, Event,
       IsPage, PageFields, SameLife, SameAim, SameMarks, SameBar, SameText, Alike
  <2> QED
    BY <2>1, AlikeStep, SteppedKept
<1> QED
  BY <1>1, <1>2

\* A variant arrives: the selection moves, but a session runs.
LEMMA VariantKept ==
  ASSUME Good(page), VariantArrives
  PROVE  Stays(page, page')
<1> DEFINE q == [page EXCEPT !.vars = @ + 1, !.sel = "txt"]
           r == IF q.kind = "insert" THEN FinalizeInsertSession(q) ELSE q
           c == [r EXCEPT !.st = "CYCLING"]
           d == ShowOrUpdateCyclingBar(c)
<1>1. \/ page' = DisableInlineEdit(d)
      \/ page' = UpdateBarContent(q, "generating")
      \/ page' = q
  BY DEF VariantArrives, Event
<1>2. page.session
  BY DEF VariantArrives
<1>3. /\ IsPage(q) /\ q.alive = page.alive /\ q.conn = page.conn /\ q.session
      /\ q.st = page.st /\ SameBar(page, q) /\ SameText(page, q)
  BY <1>2 DEF Good, IsPage, PageFields, SameBar, SameText
<1> HIDE DEF q
<1>4. Good(q)
  BY <1>3 DEF Good, BarUp, DraftOK, Fits, SameBar, SameText
<1>5. IsPage(r) /\ r.session /\ SameText(q, r)
  BY <1>3, FinalizeInsertSessionIs DEF SameLife, SameText
<1> HIDE DEF r
<1>6. IsPage(c) /\ c.session /\ c.st = "CYCLING" /\ SameText(q, c)
  BY <1>5 DEF IsPage, PageFields, SameText
<1> HIDE DEF c
<1>7. Good(c)
  BY <1>4, <1>6 DEF Good, BarUp, DraftOK, Fits, SameText
<1>8. Good(d)
  BY <1>6, <1>7, CyclingStep DEF Stepped
<1> HIDE DEF d
<1>9. Good(DisableInlineEdit(d))
  BY <1>8, DisableGood
<1>10. Good(UpdateBarContent(q, "generating"))
  BY <1>3, <1>4, UpdateBarContentIs, AlikeStep DEF Stepped
<1> QED
  BY <1>1, <1>2, <1>4, <1>9, <1>10 DEF Stays, Sends


\* The other events of a session.
LEMMA SessionKept ==
  ASSUME Good(page),
         \/ AcceptAnswered \/ Complete \/ AcceptCleanup \/ DiscardAnswered
         \/ Discarded \/ ErrorMsg \/ ServerLost
  PROVE  Stays(page, page')
<1>0. IsPage(page)
  BY DEF Good
<1>1. \A q : Alike(page, q) => Stays(page, q)
  BY AlikeStep, SteppedKept
<1>2. \A a, q : Alike(page, a) /\ Left(a, q) => Stays(page, q)
  BY AlikeLeft, LeftStep, SteppedKept
<1>3. CASE AcceptAnswered
  <2> DEFINE Q(w) == [page EXCEPT !.posts = @ \ {w}]
             R(w) == [Q(w) EXCEPT !.pend = @ /\ w # "cur", !.st = "CYCLING"]
  <2>1. PICK w : page' = Q(w) \/ page' = ShowOrUpdateCyclingBar(R(w))
    BY <1>3 DEF AcceptAnswered, Event
  <2>2. Alike(page, Q(w))
    BY <1>0 DEF IsPage, PageFields, SameLife, SameAim, SameMarks, SameBar, SameText, Alike
  <2> DEFINE r == R(w)
  <2>3. /\ IsPage(r) /\ SameMarks(page, r) /\ SameText(page, r) /\ r.sent = page.sent
        /\ r.session = page.session /\ r.sel = page.sel /\ r.kind = page.kind
        /\ r.st = "CYCLING"
    BY <1>0 DEF IsPage, PageFields, SameMarks, SameText
  <2>4. page' = Q(w) \/ page' = ShowOrUpdateCyclingBar(r)
    BY <2>1
  <2> HIDE DEF r, Q
  <2>5. Stays(page, r)
    BY <2>3, MovedKept
  <2>6. Stepped(r, ShowOrUpdateCyclingBar(r))
    BY <2>3, <2>5, CyclingStep DEF Stays
  <2>7. Stays(page, ShowOrUpdateCyclingBar(r))
    BY <2>3, <2>6 DEF Stays, Stepped, Sends
  <2> QED
    BY <1>1, <2>2, <2>4, <2>7
<1>4. CASE Complete
  <2> DEFINE a == [page EXCEPT !.st = "CONFIRMED"]
             q == UpdateBarContent(a, "confirmed")
  <2>1. page' = [q EXCEPT !.fin = @ \cup {"cur"}]
    BY <1>4 DEF Complete, Event
  <2>2. /\ IsPage(a) /\ SameMarks(page, a) /\ SameText(page, a) /\ a.sent = page.sent
        /\ a.session = page.session /\ a.sel = page.sel /\ a.kind = page.kind
        /\ a.st = "CONFIRMED"
    BY <1>0 DEF IsPage, PageFields, SameMarks, SameText
  <2> HIDE DEF a
  <2>3. Stays(page, a)
    BY <2>2, MovedKept
  <2>4. Alike(a, q)
    BY <2>2, UpdateBarContentIs
  <2> HIDE DEF q
  <2>5. Alike(q, page')
    BY <2>1, <2>4 DEF IsPage, PageFields, SameLife, SameAim, SameMarks, SameBar, SameText,
       Alike
  <2> QED
    BY <2>3, <2>4, <2>5, AlikeTrans, KeptAlike
<1>5. CASE AcceptCleanup
  <2>1. PICK w : LET q == [page EXCEPT !.fin = @ \ {w}]
                 IN page' = q \/ page' = CleanupAccepted(q)
    BY <1>5 DEF AcceptCleanup, Event
  <2> DEFINE q == [page EXCEPT !.fin = @ \ {w}]
  <2>2. Alike(page, q)
    BY <1>0 DEF IsPage, PageFields, SameLife, SameAim, SameMarks, SameBar, SameText, Alike
  <2>3. page' = q \/ page' = CleanupAccepted(q)
    BY <2>1
  <2> HIDE DEF q
  <2>4. IsPage(q)
    BY <2>2 DEF Alike
  <2> QED
    BY <1>1, <1>2, <2>2, <2>3, <2>4, CleanupAcceptedIsLeft
<1>6. CASE DiscardAnswered
  <2> DEFINE q == [page EXCEPT !.discard = FALSE]
  <2>1. page' = q \/ page' = Cleanup(q)
    BY <1>6 DEF DiscardAnswered, Event
  <2>2. Alike(page, q)
    BY <1>0 DEF IsPage, PageFields, SameLife, SameAim, SameMarks, SameBar, SameText, Alike
  <2> HIDE DEF q
  <2>3. IsPage(q)
    BY <2>2 DEF Alike
  <2> QED
    BY <1>1, <1>2, <2>1, <2>2, <2>3, CleanupIsLeft
<1>7. CASE Discarded
  <2>1. page' = Cleanup(page)
    BY <1>7 DEF Discarded, Event
  <2> QED
    BY <1>0, <2>1, CleanupIsLeft, LeftStep, SteppedKept
<1>8. CASE ErrorMsg
  <2> DEFINE a == [page EXCEPT !.pend = FALSE, !.st = "CYCLING"]
             b == HideBar(page)
             c == RenderEditBadge(b, "hidden")
  <2>1. page' = UpdateBarContent(a, "cycling") \/ page' = [c EXCEPT !.st = "PICKING"]
    BY <1>8 DEF ErrorMsg, Event
  <2>2. page.session
    BY <1>8 DEF ErrorMsg
  <2>3. CASE page' = UpdateBarContent(a, "cycling")
    <3>1. /\ IsPage(a) /\ SameMarks(page, a) /\ SameText(page, a) /\ a.sent = page.sent
          /\ a.session = page.session /\ a.sel = page.sel /\ a.kind = page.kind
          /\ a.st = "CYCLING"
      BY <1>0 DEF IsPage, PageFields, SameMarks, SameText
    <3> HIDE DEF a
    <3>2. Stays(page, a)
      BY <3>1, MovedKept
    <3>3. Alike(a, page')
      BY <2>3, <3>1, UpdateBarContentIs
    <3> QED
      BY <3>2, <3>3, KeptAlike
  <2>4. CASE page' = [c EXCEPT !.st = "PICKING"]
    <3>1. IsPage(b) /\ b.session /\ Unedited(b)
      BY <1>0, <2>2, HideBarIs DEF SameLife
    <3> HIDE DEF b
    <3>2. Alike(b, c)
      BY <3>1, RenderEditBadgeIs
    <3> HIDE DEF c
    <3>3. IsPage(page') /\ page'.session /\ Unedited(page') /\ page'.st = "PICKING"
      BY <2>4, <3>1, <3>2 DEF Unedited,
       IsPage, PageFields, SameLife, SameAim, SameMarks, SameBar, SameText, Alike
    <3>4. Good(page')
      BY <3>3 DEF Good, BarUp, DraftOK, Fits, Unedited
    <3> QED
      BY <2>2, <3>4 DEF Stays, Sends
  <2> QED
    BY <2>1, <2>3, <2>4
<1>9. CASE ServerLost
  <2> DEFINE b == HideBar(page)
             q == HideAnnotOverlay(b)
             s == IF page.session THEN page.st ELSE "IDLE"
  <2>1. page' = [q EXCEPT !.conn = FALSE, !.lock = FALSE, !.sel = "none", !.st = s]
    BY <1>9 DEF ServerLost, Event
  <2> HIDE DEF s
  <2>2. IsPage(b) /\ b.sent = page.sent /\ Unedited(b) /\ b.kind # "insert"
    BY <1>0, HideBarIs DEF SameLife
  <2> HIDE DEF b
  <2>3. Alike(b, q)
    BY <2>2, HideAnnotOverlayIs
  <2> HIDE DEF q
  <2>4. /\ IsPage(page') /\ page'.sent = page.sent /\ Unedited(page') /\ page'.kind # "insert"
        /\ ~page'.conn /\ page'.sel = "none"
    BY <2>1, <2>2, <2>3 DEF Unedited,
       IsPage, PageFields, SameLife, SameAim, SameMarks, SameBar, SameText, Alike
  <2>5. Good(page')
    BY <2>4 DEF Good, BarUp, DraftOK, Fits, Unedited
  <2> QED
    BY <2>4, <2>5 DEF Stays, Sends
<1> QED
  BY <1>3, <1>4, <1>5, <1>6, <1>7, <1>8, <1>9

\* The chat and voice input; what was heard may be submitted as Go or Create.
LEMMA ChatKept ==
  ASSUME Good(page), SteerSent \/ SteerAnswered \/ SteerTimeout \/ VoiceHears \/ VoiceEnds
  PROVE  Stays(page, page')
<1>0. IsPage(page)
  BY DEF Good
<1>1. \A q : Alike(page, q) => Stays(page, q)
  BY AlikeStep, SteppedKept
<1>2. CASE SteerSent
  <2> DEFINE Q(i) == [page EXCEPT !.steer.sends = @ \ {i}]
             R(i) == [Q(i) EXCEPT !.steer.asks = @ \ {i}]
  <2>1. PICK i : page' = Q(i) \/ page' = UnlockSteer(R(i), TRUE)
    BY <1>2 DEF SteerSent, Event
  <2> DEFINE r == R(i)
  <2>2. Alike(page, Q(i))
    BY <1>0 DEF IsPage, PageFields, SameLife, SameAim, SameMarks, SameBar, SameText, Alike
  <2>3. Alike(page, r)
    BY <1>0 DEF IsPage, PageFields, SameLife, SameAim, SameMarks, SameBar, SameText, Alike
  <2>4. page' = Q(i) \/ page' = UnlockSteer(r, TRUE)
    BY <2>1
  <2> HIDE DEF r
  <2>5. IsPage(r)
    BY <2>3 DEF Alike
  <2>6. Alike(page, UnlockSteer(r, TRUE))
    BY <2>3, <2>5, UnlockSteerIs, AlikeTrans
  <2> QED
    BY <1>1, <2>2, <2>4, <2>6
<1>3. CASE SteerAnswered
  <2>1. PICK i, ok : LET q == [page EXCEPT !.steer.asks = @ \ {i}]
                     IN page' = q \/ page' = UnlockSteer(q, ~ok)
    BY <1>3 DEF SteerAnswered, Event
  <2> DEFINE q == [page EXCEPT !.steer.asks = @ \ {i}]
  <2>2. Alike(page, q)
    BY <1>0 DEF IsPage, PageFields, SameLife, SameAim, SameMarks, SameBar, SameText, Alike
  <2>3. page' = q \/ page' = UnlockSteer(q, ~ok)
    BY <2>1
  <2> HIDE DEF q
  <2>4. IsPage(q)
    BY <2>2 DEF Alike
  <2> QED
    BY <1>1, <2>2, <2>3, <2>4, UnlockSteerIs, AlikeTrans
<1>4. CASE SteerTimeout
  <2>1. page' = UnlockSteer(page, TRUE) \/ page' = [page EXCEPT !.steer.timer = 0]
    BY <1>4 DEF SteerTimeout, Event
  <2>2. Alike(page, [page EXCEPT !.steer.timer = 0])
    BY <1>0 DEF IsPage, PageFields, SameLife, SameAim, SameMarks, SameBar, SameText, Alike
  <2> QED
    BY <1>0, <1>1, <2>1, <2>2, UnlockSteerIs
<1>5. CASE VoiceHears
  <2>1. \/ page' = [page EXCEPT !.voice.listening = TRUE]
        \/ page' = SpeechHeard(page)
        \/ page' = StopVoice(page)
    BY <1>5 DEF VoiceHears, Event
  <2>2. Alike(page, [page EXCEPT !.voice.listening = TRUE])
    BY <1>0 DEF IsPage, PageFields, SameLife, SameAim, SameMarks, SameBar, SameText, Alike
  <2> QED
    BY <1>0, <1>1, <2>1, <2>2, SteerFromIs, StopVoiceIs
<1>6. CASE VoiceEnds
  <2> DEFINE q == [page EXCEPT !.voice = [@ EXCEPT !.mode = "none", !.rec = FALSE,
                                                   !.listening = FALSE, !.suppress = FALSE]]
  <2>1. \/ page' = q
        \/ page' = SteerFrom(q)
        \/ page' = CreateFrom(q) /\ q.st = "CONFIGURING"
        \/ page' = GoFrom(q) /\ CanGo(q)
    BY <1>6 DEF VoiceEnds, Steers
  <2>2. Alike(page, q)
    BY <1>0 DEF IsPage, PageFields, SameLife, SameAim, SameMarks, SameBar, SameText, Alike
  <2> HIDE DEF q
  <2>3. IsPage(q) /\ Good(q)
    BY <2>2, AlikeStep DEF Alike, Stepped
  <2>4. Alike(page, SteerFrom(q))
    BY <2>2, <2>3, SteerFromIs, AlikeTrans
  <2>5. CASE page' = CreateFrom(q) /\ q.st = "CONFIGURING"
    <3>1. Stays(q, page')
      BY <2>3, <2>5, CreateStep, SteppedKept
    <3> QED
      BY <2>2, <3>1, AlikeKept
  <2>6. CASE page' = GoFrom(q) /\ CanGo(q)
    <3>1. Stays(q, page')
      BY <2>3, <2>6, GoStep, SteppedKept
    <3> QED
      BY <2>2, <3>1, AlikeKept
  <2> QED
    BY <1>1, <2>1, <2>2, <2>4, <2>5, <2>6
<1> QED
  BY <1>2, <1>3, <1>4, <1>5, <1>6


(***************************************************************************)
(* The first state and the last.                                           *)
(***************************************************************************)
LEMMA WithIs ==
  ASSUME NEW f, NEW g, NEW x
  PROVE  /\ x \in DOMAIN f => x \in DOMAIN With(f, g) /\ With(f, g)[x] = f[x]
         /\ x \in DOMAIN g => x \in DOMAIN With(f, g)
         /\ x \in DOMAIN g /\ x \notin DOMAIN f => With(f, g)[x] = g[x]
BY DEF With

LEMMA PageInitIs ==
  /\ IsPage(PageInit) /\ Unmarked(PageInit) /\ Unedited(PageInit)
  /\ PageInit.st = "PICKING" /\ PageInit.sel = "none" /\ PageInit.kind = "replace"
  /\ PageInit.sent.on = {}
<1> DEFINE t1 == With(AnnotInit, BarInit)
           t2 == With(PickerInit, TuneInit)
           t3 == With(EditInit, ChatInit)
           s1 == With(t1, t2)
           s2 == With(t3, SelectionInit)
           s3 == With(SessionInit, [st |-> "PICKING"])
           u == With(s1, s2)
<1>0. PageInit = With(u, s3)
  BY DEF PageInit
<1>1. /\ DOMAIN t1 = {"over", "pins", "strokes", "note", "typed", "ptr", "last", "bar", "hide"}
      /\ t1.pins = <<>> /\ t1.strokes = {} /\ "on" \in DOMAIN t1.bar
  BY DEF With, AnnotInit, BarInit
<1>2. DOMAIN t2 = {"picker", "fading", "tune", "knob"}
  BY DEF With, PickerInit, TuneInit
<1>3. /\ DOMAIN t3 = {"badge", "rows", "base", "draft", "dom", "saves", "apply", "steer", "voice"}
      /\ ~t3.rows /\ ~t3.draft
  BY DEF With, EditInit, ChatInit
<1>4. /\ DOMAIN s3 = {"session", "vars", "lock", "pend", "posts", "fin", "discard", "conn",
                      "alive", "sent", "st"}
      /\ s3.st = "PICKING" /\ s3.sent.on = {}
  BY DEF With, SessionInit
<1> HIDE DEF t1, t2, t3, s3
<1>5. /\ DOMAIN s1 = DOMAIN t1 \cup DOMAIN t2
      /\ s1.pins = <<>> /\ s1.strokes = {} /\ "on" \in DOMAIN s1.bar
  BY <1>1 DEF With
<1>6. /\ DOMAIN s2 = DOMAIN t3 \cup DOMAIN SelectionInit
      /\ ~s2.rows /\ ~s2.draft /\ s2.sel = "none" /\ s2.kind = "replace"
  BY <1>3 DEF With, SelectionInit
<1>7. DOMAIN SelectionInit = {"pick", "ins", "kind", "sel", "hov", "line", "ph"}
  BY DEF SelectionInit
<1> HIDE DEF s1, s2
<1>8. /\ DOMAIN u = DOMAIN s1 \cup DOMAIN s2
      /\ u.pins = <<>> /\ u.strokes = {} /\ "on" \in DOMAIN u.bar
  BY <1>1, <1>5 DEF With
<1>9. ~u.rows /\ ~u.draft /\ u.sel = "none" /\ u.kind = "replace"
  BY <1>1, <1>2, <1>3, <1>5, <1>6, <1>7 DEF With
<1>10. /\ {"pins", "strokes", "bar", "hide"} \subseteq DOMAIN u
       /\ {"rows", "draft", "dom", "base", "saves", "sel", "kind"} \subseteq DOMAIN u
       /\ {"st", "sent"} \cap DOMAIN u = {}
  BY <1>1, <1>2, <1>3, <1>5, <1>6, <1>7, <1>8
<1> HIDE DEF u
<1>11. DOMAIN PageInit = DOMAIN u \cup DOMAIN s3
  BY <1>0 DEF With
<1>12. /\ PageInit.pins = <<>> /\ PageInit.strokes = {} /\ "on" \in DOMAIN PageInit.bar
       /\ ~PageInit.rows /\ ~PageInit.draft /\ PageInit.sel = "none" /\ PageInit.kind = "replace"
  BY <1>0, <1>8, <1>9, <1>10 DEF With
<1>13. PageInit.st = "PICKING" /\ PageInit.sent.on = {}
  BY <1>0, <1>4, <1>10 DEF With
<1>14. PageFields \subseteq DOMAIN PageInit
  BY <1>4, <1>10, <1>11 DEF PageFields
<1> QED
  BY <1>12, <1>13, <1>14 DEF IsPage, Unmarked, Unedited

LEMMA TeardownStep ==
  ASSUME Good(page), Teardown
  PROVE  Stepped(page, page')
<1> DEFINE a == StopVoice(page)
           b == Cleanup(a)
           d == HideBar(b).dom
<1>1. page' = [PageInit EXCEPT !.alive = FALSE, !.st = "IDLE", !.dom = d]
  BY DEF Teardown
<1>2. Alike(page, a)
  BY StopVoiceIs DEF Good
<1> HIDE DEF a
<1>3. Left(a, b) /\ b.st = "PICKING"
  BY <1>2, CleanupIsLeft DEF Alike
<1> HIDE DEF b
<1>4. d = b.dom
  BY <1>3, HideBarIs DEF Left
<1>5. page.st = "EDITING" => d = Undone(page)
  BY <1>2, <1>3, <1>4, AlikeLeft DEF Left
<1> HIDE DEF d
<1>6. /\ IsPage(page') /\ Unedited(page') /\ ~page'.alive /\ page'.sel = "none"
      /\ page'.kind = "replace" /\ page'.sent.on = {} /\ page'.dom = d
  BY <1>1, PageInitIs DEF IsPage, PageFields, Unedited
<1>7. Good(page')
  BY <1>6 DEF Good, BarUp, DraftOK, Fits, Unedited
<1>8. Sends(page, page') /\ Undoes(page, page')
  BY <1>5, <1>6 DEF Sends, Undoes, Good, DraftOK, Undone
<1> QED
  BY <1>7, <1>8 DEF Stepped

(***************************************************************************)
(* Every step of the page keeps the chrome good; a step of the user        *)
(* besides undoes what it leaves.                                          *)
(***************************************************************************)
LEMMA ChromeStarts == ChromeInit => Good(page)
<1>1. SUFFICES Good(PageInit)
  BY DEF ChromeInit
<1>2. BarUp(PageInit) /\ DraftOK(PageInit) /\ Fits(PageInit)
  BY PageInitIs DEF BarUp, DraftOK, Fits, Unedited
<1> QED
  BY <1>2, PageInitIs DEF Good

LEMMA UserStepped ==
  ASSUME Good(page), UserStep
  PROVE  Stepped(page, page')
<1>1. CASE ClickDetect
  <2>1. page' = page
    BY <1>1 DEF ClickDetect
  <2>2. Alike(page, page')
    BY <2>1 DEF Good,
       IsPage, PageFields, SameLife, SameAim, SameMarks, SameBar, SameText, Alike
  <2> QED
    BY <2>2, AlikeStep
<1>2. CASE GlobalBar
  BY <1>1, <1>2, TogglePickStep, ToggleInsertStep, TeardownStep DEF GlobalBar
<1> QED
  BY <1>2, MouseStep, ClickPageStep, KeyPickStep, EscapeStep, RowStep, AnnotStep, CopyStep,
     CycleStep, ChatStep
     DEF UserStep

LEMMA PageEventKept ==
  ASSUME Good(page), PageEvent
  PROVE  Stays(page, page') /\ (clicks' # clicks => Undoes(page, page'))
<1>1. CASE DetectStep
  <2>1. page' = page
    BY <1>1 DEF DetectStep, pvars
  <2>2. Alike(page, page')
    BY <2>1 DEF Good,
       IsPage, PageFields, SameLife, SameAim, SameMarks, SameBar, SameText, Alike
  <2> QED
    BY <1>1, <2>2, AlikeStep, SteppedKept DEF DetectStep, pvars
<1>2. CASE \/ HideTimer \/ PickerTimer \/ SaveAnswered
           \/ VariantArrives \/ AcceptAnswered \/ Complete \/ AcceptCleanup
  <2>1. clicks' = clicks
    BY <1>2 DEF HideTimer, PickerTimer, SaveAnswered, VariantArrives, AcceptAnswered,
                Complete, AcceptCleanup, Event
  <2> QED
    BY <1>2, <2>1, TimersKept, SaveAnsweredKept, VariantKept, SessionKept
<1>3. CASE \/ DiscardAnswered \/ Discarded \/ ErrorMsg \/ ServerLost
           \/ SteerSent \/ SteerAnswered \/ SteerTimeout \/ VoiceHears \/ VoiceEnds
  <2>1. clicks' = clicks
    BY <1>3 DEF DiscardAnswered, Discarded, ErrorMsg, ServerLost, SteerSent, SteerAnswered,
                SteerTimeout, VoiceHears, VoiceEnds, Event
  <2> QED
    BY <1>3, <2>1, SessionKept, ChatKept
<1>4. CASE ApplyFlips
  BY <1>4, ApplyFlipsStep, SteppedKept DEF Stepped
<1> QED
  BY <1>1, <1>2, <1>3, <1>4 DEF PageEvent

LEMMA GoodKept ==
  ASSUME Good(page), [ChromeNext]_chromeVars
  PROVE  Stays(page, page') /\ (clicks' # clicks => Undoes(page, page'))
<1>1. CASE UserStep
  BY <1>1, UserStepped, SteppedKept DEF Stepped
<1>2. CASE PageEvent
  BY <1>2, PageEventKept
<1>3. CASE UNCHANGED chromeVars
  <2>1. page' = page /\ clicks' = clicks
    BY <1>3 DEF chromeVars
  <2> QED
    BY <2>1 DEF Stays, Sends
<1> QED
  BY <1>1, <1>2, <1>3 DEF ChromeNext

\* While an element is being configured and the server is there, the bar is
\* on display and no hide timer that still counts runs (barHideSeq).
THEOREM ConfigureBarStaysHolds == ChromeSpec => []ConfigureBarStays
<1>1. Good(page) /\ [ChromeNext]_chromeVars => Good(page)'
  BY GoodKept DEF Stays
<1>2. Good(page) => ConfigureBarStays
  BY DEF Good, BarUp, ConfigureBarStays
<1> QED
  BY <1>1, <1>2, ChromeStarts, PTL DEF ChromeSpec

\* As long as no session runs, what Go or Create sends was drawn on what it
\* sends it for.
THEOREM AnnotationsFitHolds == ChromeSpec => AnnotationsFit
<1>1. Good(page) /\ [ChromeNext]_chromeVars => Good(page)'
  BY GoodKept DEF Stays
<1>2. Good(page) /\ [ChromeNext]_chromeVars
        => [page'.sent # page.sent /\ ~page.session
              => page'.sent.on \subseteq {page'.sent.el}]_chromeVars
  BY GoodKept DEF Stays, Sends
<1> QED
  BY <1>1, <1>2, ChromeStarts, PTL DEF ChromeSpec, AnnotationsFit

\* A user step that ends an edit, with no save on its way, puts the text back.
THEOREM UnsavedTextUndoneHolds == ChromeSpec => UnsavedTextUndone
<1>1. Good(page) /\ [ChromeNext]_chromeVars => Good(page)'
  BY GoodKept DEF Stays
<1>2. Good(page) /\ [ChromeNext]_chromeVars
        => [page.st = "EDITING" /\ page.rows /\ page.saves = {} /\ clicks' # clicks
              /\ page'.st # "EDITING" => page'.dom = page.base]_chromeVars
  BY GoodKept DEF Undoes
<1> QED
  BY <1>1, <1>2, ChromeStarts, PTL DEF ChromeSpec, UnsavedTextUndone

==============================================================================
