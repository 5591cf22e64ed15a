----------------------------- MODULE DetectRun -----------------------------
(***************************************************************************)
(* One run of `impeccable detect` (detector/cli/main.mjs): its targets are *)
(* scanned one after the other, files by the text engine or the static     *)
(* HTML engine, URLs in a browser; what the project waived is dropped; and *)
(* the exit code says whether anything is left.  Others may edit the       *)
(* project meanwhile: every read sees the disk as it is then.              *)
(*                                                                         *)
(* A path is a sequence of names; a file's last name is its extension.     *)
(* What the rules say of a text, and what a page in the browser shows, is  *)
(* given.  Text is tokens, and a finding that is reported twice in a scan  *)
(* is one finding.  The engines run between two awaits; the loop over the  *)
(* matches of a text is spelt out all the same, one match a step.          *)
(***************************************************************************)
EXTENDS Naturals, Sequences, FiniteSets, SequencesExt

CONSTANTS
  Tree, Dirs,           \* paths at which a file may be; directories
  Unreadable,           \* directories that cannot be listed
  SkipDirs,             \* names of directories that are never entered
  Scannable,            \* extensions that are scanned, in the order imports try them
  HtmlExts, PageExts,   \* those read as HTML; those whose pages are analysed as a whole
  Contents, Gone,       \* texts of files; no file
  Imports,              \* what a text imports: [bare, ups, rest]
  FullPages,            \* texts that are whole pages
  Directive,            \* per text and line: NoDirective or [variant, rest]
  Matched, Designed, Analysed,  \* by place and text: lists of findings of the text engine
  HtmlMatched, HtmlAnalysed, HtmlDesigned,  \* the same of the static HTML engine
  TextContent,          \* rules on the wording of a page, which both engines apply
  LowerCase, PlainValue, ColorKey,       \* rule names, values and colours as they are compared
  DirectRules, Gated,   \* rules whose findings carry a value; the provider a rule belongs to
  Excludes, ScopedTo,   \* what a glob matches: files of a scan, files of a finding
  Separators, Closers, Star, None,
  PageShows, Candidates,  \* what a page's scan and its collection of candidates may return
  Options, Settings, Many

NoDirective == [variant |-> "none", rest |-> <<>>]
Stdin == <<>>

VARIABLES
  opts, settings, disk, detection,
  pc, todo, files, importedBy, scan, visit, browser,
  found, scanNo, report, code,
  observed, due, scanned, lost, leaked, quit

args == <<opts, settings>>
input == <<args, disk, detection>>
ghosts == <<observed, due, scanned, lost, leaked, quit>>
detectVars == <<input, pc, todo, files, importedBy, scan, visit, browser,
                found, scanNo, report, code, ghosts>>

-----------------------------------------------------------------------------
(* lib/impeccable-config.mjs: the configuration, shared then local, in each the *)
(* legacy section then the detector's                                       *)

NoConfig == [rules |-> {}, globs |-> {}, values |-> {}, design |-> "on"]

NormalEntry(e) == [rule |-> LowerCase[e.rule], value |-> PlainValue[e.value], files |-> e.files]
NormalEntries(es) ==
  {NormalEntry(e) : e \in {d \in es : LowerCase[d.rule] # None /\ PlainValue[d.value] # None}}

\* the last section that speaks of the design system decides
DesignOf(ss) ==
  LET k == SelectLastInSeq(ss, LAMBDA s : s.design # "unset") IN IF k = 0 THEN "on" ELSE ss[k].design

ReadDetectionConfig ==
  [rules  |-> UNION {s.rules : s \in ToSet(settings)},
   globs  |-> UNION {s.globs : s \in ToSet(settings)},
   values |-> UNION {NormalEntries(s.values) : s \in ToSet(settings)},
   design |-> DesignOf(settings)]

ShouldIgnoreFile(p) == \E g \in detection.globs : p \in Excludes[g]

SameValue(rule, v, w) ==
  v = w \/ (rule = "design-system-color" /\ ColorKey[v] # None /\ ColorKey[v] = ColorKey[w])

\* an entry for every value of a rule must name its files
IsIgnoredValue(f, place) ==
  /\ LowerCase[f.rule] \in DirectRules /\ PlainValue[f.value] # None
  /\ \E e \in detection.values :
       /\ e.rule = LowerCase[f.rule]
       /\ e.value = Star \/ SameValue(e.rule, e.value, PlainValue[f.value])
       /\ IF e.files = {} THEN e.value # Star ELSE \E g \in e.files : place \in ScopedTo[g]

IsIgnored(f, place) ==
  LowerCase[f.rule] \in {LowerCase[r] : r \in detection.rules} \/ IsIgnoredValue(f, place)

-----------------------------------------------------------------------------
(* shared/inline-ignores.mjs: a line holds one directive, which reads to its end *)

\* the comment's closer at the end, and everything behind a separator, are not rules
Unclosed(ts) == IF ts # <<>> /\ Last(ts) \in Closers THEN Front(ts) ELSE ts
RuleWords(ts) ==
  {LowerCase[Unclosed(ts)[k]] : k \in {j \in DOMAIN Unclosed(ts) :
                                     \A l \in 1 .. j : Unclosed(ts)[l] \notin Separators}}
RuleList(ts) == IF RuleWords(ts) = {} \/ Star \in RuleWords(ts) THEN {Star} ELSE RuleWords(ts)

Lines(c, variant) == {k \in DOMAIN Directive[c] : Directive[c][k].variant = variant}
RulesAt(c, ks) == UNION {RuleList(Directive[c][k].rest) : k \in ks}
FileRules(c) == RulesAt(c, Lines(c, "disable"))
LineRules(c, line) ==
  RulesAt(c, {k \in Lines(c, "disable-line") : k = line}
               \cup {k \in Lines(c, "disable-next-line") : k + 1 = line})

IsInlineIgnored(f, c) ==
  \/ {Star, LowerCase[f.rule]} \cap FileRules(c) # {}
  \/ f.line > 0 /\ {Star, LowerCase[f.rule]} \cap LineRules(c, f.line) # {}

\* filterByProviders, and the waivers unless they are off
IsProvided(f) == Gated[f.rule] = None \/ Gated[f.rule] \in opts.providers
IsWaived(f, c) == opts.config /\ opts.inline /\ IsInlineIgnored(f, c)
Passes(f, c) == IsProvided(f) /\ ~IsWaived(f, c)

-----------------------------------------------------------------------------
(* node/file-system.mjs: the walk and the import graph *)

Ext(p) == IF p = Stdin THEN None ELSE Last(p)
DirOf(p) == SubSeq(p, 1, Len(p) - 2)
BaseName(p) == SubSeq(p, Len(p) - 1, Len(p))

\* a directory that cannot be listed is empty
WalkDir(d) ==
  {p \in Tree : /\ disk[p] # Gone /\ Ext(p) \in ToSet(Scannable)
                /\ Len(d) + 2 <= Len(p) /\ IsPrefix(d, p)
                /\ \A k \in Len(d) + 1 .. Len(p) - 2 : p[k] \notin SkipDirs
                /\ \A k \in Len(d) .. Len(p) - 2 : SubSeq(p, 1, k) \notin Unreadable}

\* the file itself, then with each extension, then its index file with each
Tries(base) ==
  <<base>> \o [k \in DOMAIN Scannable |-> Append(base, Scannable[k])]
           \o [k \in DOMAIN Scannable |-> base \o <<"index", Scannable[k]>>]
Climb(dir, ups) == SubSeq(dir, 1, IF ups < Len(dir) THEN Len(dir) - ups ELSE 0)
ResolveImport(s, dir, set) ==
  LET tries == Tries(Climb(dir, s.ups) \o s.rest)
      k     == SelectInSeq(tries, LAMBDA p : p \in set)
  IN  IF s.bare \/ k = 0 THEN {} ELSE {tries[k]}
ImportsOf(p, set) == UNION {ResolveImport(s, DirOf(p), set) : s \in Imports[disk[p]]}
BuildImportGraph(set) == [p \in set |-> {BaseName(q) : q \in {r \in set : p \in ImportsOf(r, set)}}]

-----------------------------------------------------------------------------
(* The engines *)

DesignOn == opts.config /\ opts.design /\ detection.design = "on"
DesignList(list) == IF DesignOn THEN list ELSE <<>>
RunPageAnalysers(p, c) == c \in FullPages /\ (Ext(p) = None \/ Ext(p) \in PageExts)

\* detectText: what is matched before duplicates are dropped, and what is added after
TextRaw(p, c) == Matched[p][c] \o DesignList(Designed[p][c])
TextPage(p, c) == IF RunPageAnalysers(p, c) THEN Analysed[p][c] ELSE <<>>

\* the same rule and snippet at most two lines apart
IsDupe(f, g) ==
  f.rule = g.rule /\ f.snippet = g.snippet /\ f.line <= g.line + 2 /\ g.line <= f.line + 2

\* mergeDesignSystemFindings: the first finding of a key stands; it takes the
\* first line that a later one of its key has, if it has none itself
Merged(list) ==
  LET twin(j, k) == list[j].key # None /\ list[j].key = list[k].key
      later(k)   == {j \in DOMAIN list : k < j /\ twin(j, k) /\ list[j].line > 0}
      line(k)    == IF list[k].line > 0 \/ later(k) = {} THEN list[k].line
                    ELSE list[CHOOSE j \in later(k) : \A i \in later(k) : j <= i].line
  IN  {[list[k] EXCEPT !.line = line(k)] :
         k \in {j \in DOMAIN list : ~ \E i \in 1 .. (j - 1) : twin(i, j)}}

\* detectHtml, when its parsers can be loaded
HtmlPage(p, c) ==
  IF c \notin FullPages THEN {}
  ELSE ToSet(HtmlAnalysed[p][c])
         \cup {[f EXCEPT !.line = 0, !.value = None] :
                 f \in {g \in ToSet(TextPage(p, c)) : g.rule \in TextContent}}
HtmlFindings(p, c) ==
  ToSet(HtmlMatched[p][c]) \cup Merged(DesignList(HtmlDesigned[p][c] \o Designed[p][c])) \cup HtmlPage(p, c)

-----------------------------------------------------------------------------
(* detectCli *)

NoScan == [place |-> Stdin, text |-> Gone, kept |-> <<>>, next |-> 1, then |-> "report"]
NoVisit == [url |-> None, shown |-> {}, results |-> <<>>, next |-> 1, away |-> FALSE, low |-> {},
            left |-> {}, page |-> FALSE, own |-> FALSE, ok |-> FALSE]

IsUrl(t) == t.kind = "url"
ScanTargets == IF opts.targets = <<>> THEN <<[kind |-> "path", at |-> opts.cwd]>> ELSE opts.targets

DetectInit ==
  /\ opts \in Options /\ settings \in Settings /\ disk \in [Tree -> Contents \cup {Gone}]
  /\ detection = NoConfig
  /\ pc = "args" /\ todo = <<>> /\ files = {} /\ importedBy = [p \in {} |-> {}]
  /\ scan = NoScan /\ visit = NoVisit /\ browser = "none"
  /\ found = {} /\ scanNo = 1 /\ report = {} /\ code = None
  /\ observed = {} /\ due = {} /\ scanned = {} /\ lost = {} /\ leaked = FALSE /\ quit = FALSE

Work == <<todo, files, importedBy, scan, visit, browser, found, scanNo>>
Exit(c) == pc' = "done" /\ code' = c

\* others edit, create and delete files at any time
EditFile ==
  /\ pc # "done"
  /\ \E p \in Tree, c \in Contents \cup {Gone} : disk' = [disk EXCEPT ![p] = c]
  /\ UNCHANGED <<args, detection, pc, Work, report, code, ghosts>>

SeveralUrls == Cardinality({k \in DOMAIN ScanTargets : IsUrl(ScanTargets[k])}) > 1

\* standard input is read if it is no terminal and no target was named
ParseArgs ==
  /\ pc = "args"
  /\ detection' = IF opts.config THEN ReadDetectionConfig ELSE NoConfig
  /\ IF opts.help THEN Exit(0) /\ quit' = TRUE /\ UNCHANGED todo
     ELSE /\ IF ~opts.tty /\ opts.targets = <<>> THEN pc' = "stdin" /\ UNCHANGED todo
             ELSE todo' = ScanTargets /\ pc' = IF SeveralUrls THEN "browser" ELSE "next"
          /\ UNCHANGED <<code, quit>>
  /\ UNCHANGED <<args, disk, files, importedBy, scan, visit, browser, found, scanNo, report,
                 observed, due, scanned, lost, leaked>>

\* several URLs share a browser; without one the run ends before any target
LaunchShared ==
  /\ pc = "browser"
  /\ \/ pc' = "next" /\ browser' = "open" /\ UNCHANGED code
     \/ Exit(1) /\ UNCHANGED browser
  /\ UNCHANGED <<input, todo, files, importedBy, scan, visit, found, scanNo, report, ghosts>>

\* an error outside a URL's scan: the shared browser is closed, nothing is reported
Throw ==
  /\ Exit(1)
  /\ browser' = IF browser = "open" THEN "closed" ELSE browser
  /\ UNCHANGED <<input, todo, files, importedBy, scan, visit, found, scanNo, report, ghosts>>

Drop == pc' = "next" /\ todo' = Tail(todo)

NextUrl ==
  /\ pc = "next" /\ todo # <<>> /\ IsUrl(Head(todo))
  /\ pc' = "open"
  /\ visit' = [NoVisit EXCEPT !.url = Head(todo).at]
  /\ UNCHANGED <<input, todo, files, importedBy, scan, browser, found, scanNo, report, code, ghosts>>

\* what cannot be found is passed over, with a warning
NextMissing ==
  /\ pc = "next" /\ todo # <<>> /\ ~IsUrl(Head(todo))
  /\ Head(todo).at \notin Dirs /\ (Head(todo).at \in Tree => disk[Head(todo).at] = Gone)
  /\ Drop
  /\ UNCHANGED <<input, files, importedBy, scan, visit, browser, found, scanNo, report, code, ghosts>>

\* a file that is named, unless the configuration excludes it
NextFile ==
  /\ pc = "next" /\ todo # <<>> /\ ~IsUrl(Head(todo))
  /\ Head(todo).at \in Tree \ Dirs /\ disk[Head(todo).at] # Gone
  /\ IF ShouldIgnoreFile(Head(todo).at) THEN Drop /\ UNCHANGED <<files, importedBy, due>>
     ELSE /\ pc' = "files" /\ files' = {Head(todo).at}
          /\ importedBy' = [p \in files' |-> {}]
          /\ due' = due \cup {<<Len(todo), Head(todo).at>>}
          /\ UNCHANGED todo
  /\ UNCHANGED <<input, scan, visit, browser, found, scanNo, report, code,
                 observed, scanned, lost, leaked, quit>>

\* a directory: its files are listed after a dev server was looked for
NextDir ==
  /\ pc = "next" /\ todo # <<>> /\ ~IsUrl(Head(todo)) /\ Head(todo).at \in Dirs
  /\ pc' = "walk"
  /\ UNCHANGED <<input, Work, report, code, ghosts>>

Walk ==
  /\ pc = "walk"
  /\ files' = {p \in WalkDir(Head(todo).at) : ~ShouldIgnoreFile(p)}
  /\ due' = due \cup {<<Len(todo), p>> : p \in files'}
  /\ pc' = IF Cardinality(files') > Many /\ opts.tty /\ opts.talks THEN "ask" ELSE "graph"
  /\ UNCHANGED <<input, todo, importedBy, scan, visit, browser, found, scanNo, report, code,
                 observed, scanned, lost, leaked, quit>>

\* a refusal exits on the spot, whatever was found and whatever is open
Ask ==
  /\ pc = "ask"
  /\ \/ pc' = "graph" /\ UNCHANGED <<code, quit>>
     \/ Exit(0) /\ quit' = TRUE
  /\ UNCHANGED <<input, Work, report, observed, due, scanned, lost, leaked>>

\* every file is read, and a file that has gone ends the run
BuildGraph ==
  /\ pc = "graph" /\ \A p \in files : disk[p] # Gone
  /\ importedBy' = BuildImportGraph(files)
  /\ pc' = "files"
  /\ UNCHANGED <<input, todo, files, scan, visit, browser, found, scanNo, report, code, ghosts>>
GraphThrows == pc = "graph" /\ (\E p \in files : disk[p] = Gone) /\ Throw

EngineFor(p) == IF Ext(p) \in HtmlExts THEN "html" ELSE "text"
ReadFile ==
  /\ pc = "files"
  /\ \E p \in files :
       /\ disk[p] # Gone
       /\ scan' = [place |-> p, text |-> disk[p], kept |-> <<>>, next |-> 1, then |-> "files"]
       /\ files' = files \ {p}
       /\ scanned' = scanned \cup {<<Len(todo), p>>}
       /\ pc' = EngineFor(p)
  /\ UNCHANGED <<input, todo, importedBy, visit, browser, found, scanNo, report, code,
                 observed, due, lost, leaked, quit>>
ReadThrows == pc = "files" /\ (\E p \in files : disk[p] = Gone) /\ Throw

NoMoreFiles ==
  /\ pc = "files" /\ files = {}
  /\ Drop
  /\ UNCHANGED <<input, files, importedBy, scan, visit, browser, found, scanNo, report, code, ghosts>>

\* handleStdin: a hook's input names a file; if it cannot be read the input itself is scanned
StdinScan(p, c) == [place |-> p, text |-> c, kept |-> <<>>, next |-> 1, then |-> "report"]
ReadStdin ==
  /\ pc = "stdin"
  /\ LET p == opts.input.names
     IN  IF p \in Tree /\ disk[p] # Gone
         THEN scan' = StdinScan(p, disk[p]) /\ pc' = EngineFor(p)
         ELSE scan' = StdinScan(Stdin, opts.input.text) /\ pc' = "text"
  /\ UNCHANGED <<input, todo, files, importedBy, visit, browser, found, scanNo, report, code, ghosts>>

\* findings as they are collected: with the scan they come from and who imports the file
CollectAs(fs, place, by) == {[scan |-> scanNo, place |-> place, finding |-> f, by |-> by] : f \in fs}
Importers(p) == IF scan.then = "files" THEN importedBy[p] ELSE {}
AsObserved(place, text, f) == [scan |-> scanNo, place |-> place, text |-> text, finding |-> f]

\* of what the rules found, kept goes through the filters
Finish(kept, all) ==
  /\ found' = found \cup CollectAs({f \in kept : Passes(f, scan.text)}, scan.place, Importers(scan.place))
  /\ observed' = observed \cup {AsObserved(scan.place, scan.text, f) : f \in all}
  /\ scanNo' = scanNo + 1
  /\ pc' = scan.then
  /\ UNCHANGED <<input, todo, files, importedBy, scan, visit, browser, report, code,
                 due, scanned, lost, leaked, quit>>

Raw == TextRaw(scan.place, scan.text)

DedupeMatch ==
  /\ pc = "text" /\ scan.next <= Len(Raw)
  /\ LET f == Raw[scan.next]
         dupe == \E k \in DOMAIN scan.kept : IsDupe(scan.kept[k], f)
     IN  scan' = [scan EXCEPT !.next = @ + 1, !.kept = IF dupe THEN @ ELSE Append(@, f)]
  /\ UNCHANGED <<input, pc, todo, files, importedBy, visit, browser, found, scanNo, report, code, ghosts>>

FinishText ==
  /\ pc = "text" /\ scan.next > Len(Raw)
  /\ LET page == ToSet(TextPage(scan.place, scan.text))
     IN  Finish(ToSet(scan.kept) \cup page, ToSet(Raw) \cup page)

FinishHtml ==
  /\ pc = "html"
  /\ LET fs == HtmlFindings(scan.place, scan.text) IN Finish(fs, fs)

\* without the parsers HTML is scanned as text
ParsersMissing ==
  /\ pc = "html" /\ pc' = "text"
  /\ UNCHANGED <<input, Work, report, code, ghosts>>

\* the shared browser is closed before the findings are filtered
CloseShared ==
  /\ pc = "next" /\ todo = <<>>
  /\ pc' = "report"
  /\ browser' = IF browser = "open" THEN "closed" ELSE browser
  /\ UNCHANGED <<input, todo, files, importedBy, scan, visit, found, scanNo, report, code, ghosts>>

Report ==
  /\ pc = "report"
  /\ report' = {r \in found : ~IsIgnored(r.finding, r.place)}
  /\ Exit(IF report' = {} THEN 0 ELSE 2)
  /\ UNCHANGED <<input, Work, ghosts>>

-----------------------------------------------------------------------------
(* engines/browser/detect-url.mjs: one URL, in the shared browser or in its own *)

Fixed == <<input, files, importedBy, scan, browser, report, code>>
\* an error is printed, and the next target's turn comes
FailVisit == Drop /\ UNCHANGED <<visit, found, scanNo, ghosts>>

OpenBrowser ==
  /\ pc = "open"
  /\ \/ /\ pc' = "page" /\ visit' = [visit EXCEPT !.own = (browser = "none")]
        /\ UNCHANGED <<todo, found, scanNo, ghosts>>
     \/ FailVisit
  /\ UNCHANGED Fixed

\* a browser of its own that gives no page is never closed
OpenPage ==
  /\ pc = "page"
  /\ \/ /\ pc' = "scan" /\ visit' = [visit EXCEPT !.page = TRUE]
        /\ UNCHANGED <<todo, leaked>>
     \/ /\ Drop
        /\ leaked' = (leaked \/ visit.own)
        /\ visit' = [visit EXCEPT !.own = FALSE]
  /\ UNCHANGED <<Fixed, found, scanNo, observed, due, scanned, lost, quit>>

\* what the detector in the page reports: [selector, finding]
ScanPage ==
  /\ pc = "scan"
  /\ \E shown \in PageShows[visit.url] :
       visit' = [visit EXCEPT !.shown = shown,
                              !.low = {[selector |-> g.selector, by |-> "scan"] :
                                         g \in {h \in shown : h.finding.rule = "low-contrast"}}]
  /\ pc' = "collect"
  /\ UNCHANGED <<Fixed, todo, found, scanNo, ghosts>>

\* at any time the page may stop answering
PageFails ==
  /\ pc \in {"scan", "collect", "analyse", "again", "pixels"}
  /\ pc' = "close"
  /\ UNCHANGED <<Fixed, todo, visit, found, scanNo, ghosts>>

\* analyzeVisualContrast: the candidates, by selector, which need not be unique
Unanalysed(cs) == [k \in DOMAIN cs |-> [selector |-> cs[k], status |-> "new"]]
Collect ==
  /\ pc = "collect"
  /\ \E cs \in Candidates[visit.url] :
       visit' = [visit EXCEPT !.results = Unanalysed(cs)]
  /\ pc' = "analyse"
  /\ UNCHANGED <<Fixed, todo, found, scanNo, ghosts>>

\* the page is scrolled back, and scrolled to a candidate that is out of view,
\* which is then analysed once more, if it is still there
AnalyseCandidate ==
  /\ pc = "analyse" /\ visit.next <= Len(visit.results)
  /\ \E status \in {"fail", "pass", "unresolved"}, scrolled \in BOOLEAN :
       visit' = [visit EXCEPT !.results[visit.next].status = status, !.next = @ + 1, !.away = scrolled]
  /\ UNCHANGED <<Fixed, pc, todo, found, scanNo, ghosts>>

LowBefore == {l.selector : l \in {m \in visit.low : m.by = "scan"}}
WithStatus(ss) ==
  {visit.results[k].selector : k \in {j \in DOMAIN visit.results : visit.results[j].status \in ss}}

\* pixels decide about what the page could not; without any result the page is asked once more
AnalysisEnds ==
  /\ pc = "analyse" /\ visit.next > Len(visit.results)
  /\ visit' = [visit EXCEPT !.away = FALSE,
                 !.low = @ \cup {[selector |-> x, by |-> "page"] : x \in WithStatus({"fail"}) \ LowBefore},
                 !.left = {k \in DOMAIN visit.results :
                             visit.results[k].selector \notin LowBefore \cup WithStatus({"fail", "pass"})}]
  /\ pc' = IF Len(visit.results) = 0 THEN "again" ELSE "pixels"
  /\ UNCHANGED <<Fixed, todo, found, scanNo, ghosts>>

CollectAgain ==
  /\ pc = "again"
  /\ \E cs \in Candidates[visit.url] :
       visit' = [visit EXCEPT !.results = Unanalysed(cs),
                              !.left = {k \in DOMAIN cs : cs[k] \notin LowBefore}]
  /\ pc' = "pixels"
  /\ UNCHANGED <<Fixed, todo, found, scanNo, ghosts>>

\* captureVisualContrastCandidate: a screenshot with the text and one without
ComparePixels ==
  /\ pc = "pixels"
  /\ \E k \in visit.left, low \in BOOLEAN :
       visit' = [visit EXCEPT !.left = @ \ {k},
                   !.low = IF low THEN @ \cup {[selector |-> visit.results[k].selector, by |-> "pixels"]} ELSE @]
  /\ UNCHANGED <<Fixed, pc, todo, found, scanNo, ghosts>>

PixelsCompared ==
  /\ pc = "pixels" /\ visit.left = {}
  /\ pc' = "close" /\ visit' = [visit EXCEPT !.ok = TRUE]
  /\ UNCHANGED <<Fixed, todo, found, scanNo, ghosts>>

LowFinding(l) ==
  [rule |-> "low-contrast", snippet |-> l.selector, line |-> 0, value |-> None, key |-> None]
VisitFindings ==
  {g.finding : g \in visit.shown} \cup {LowFinding(l) : l \in {m \in visit.low : m.by # "scan"}}

\* the page is closed in any case, then the browser; if that fails the findings are gone too
CloseVisit ==
  /\ pc = "close"
  /\ \E closes \in BOOLEAN :
       /\ ~closes => visit.own
       /\ visit' = [visit EXCEPT !.page = FALSE, !.own = FALSE]
       /\ leaked' = (leaked \/ ~closes)
       /\ lost' = IF closes THEN lost ELSE lost \cup {scanNo}
       /\ IF visit.ok
          THEN /\ observed' = observed \cup {AsObserved(visit.url, Gone, f) : f \in VisitFindings}
               /\ found' = IF closes
                            THEN found \cup CollectAs({f \in VisitFindings : IsProvided(f)}, visit.url, {})
                            ELSE found
          ELSE UNCHANGED <<observed, found>>
       /\ scanNo' = scanNo + 1
       /\ Drop
  /\ UNCHANGED <<Fixed, due, scanned, quit>>

-----------------------------------------------------------------------------
DetectNext ==
  \/ EditFile \/ ParseArgs \/ LaunchShared \/ ReadStdin
  \/ NextUrl \/ NextMissing \/ NextFile \/ NextDir
  \/ Walk \/ Ask \/ BuildGraph \/ GraphThrows \/ ReadFile \/ ReadThrows \/ NoMoreFiles
  \/ DedupeMatch \/ FinishText \/ FinishHtml \/ ParsersMissing
  \/ OpenBrowser \/ OpenPage \/ ScanPage \/ PageFails \/ Collect \/ AnalyseCandidate
  \/ AnalysisEnds \/ CollectAgain \/ ComparePixels \/ PixelsCompared \/ CloseVisit
  \/ CloseShared \/ Report

DetectSpec == DetectInit /\ [][DetectNext]_detectVars

-----------------------------------------------------------------------------
(* What is given: texts are texts, and what a text's rules match is a list *)

GivenList(s) == s \in Seq(ToSet(s))
DetectGiven ==
  /\ Gone \notin Contents
  /\ \A o \in Options : o.input.text \in Contents
  /\ \A p \in Tree \cup {Stdin}, c \in Contents : GivenList(Matched[p][c]) /\ GivenList(Designed[p][c])

-----------------------------------------------------------------------------
(* Properties *)

\* what may keep a finding from the report
Excused(r) ==
  \/ ~IsProvided(r.finding)
  \/ r.text # Gone /\ IsWaived(r.finding, r.text)
  \/ IsIgnored(r.finding, r.place)
  \/ r.scan \in lost
SameFinding(s, t) == s.scan = t.scan /\ s.place = t.place /\ s.finding = t.finding
Shown(r) == \E s \in report : SameFinding(s, r)
Twin(r, t) ==
  /\ r.scan = t.scan /\ r.place = t.place
  /\ r.finding = t.finding \/ IsDupe(t.finding, r.finding)

(***************************************************************************)
(* A finding is missing from the report only for a reason that the user    *)
(* gave, or because the same one is named, or excused, within two lines of *)
(* it.  The reasons are those read with the text: a file may have been     *)
(* edited twice since.  Whatever is reported some rule found.              *)
(***************************************************************************)
NothingSilenced ==
  pc = "done" /\ code # 1 /\ ~quit =>
    /\ \A r \in observed : \E t \in observed : Twin(r, t) /\ (Shown(t) \/ Excused(t))
    /\ \A s \in report :
         /\ ~IsIgnored(s.finding, s.place)
         /\ \E t \in observed : /\ SameFinding(s, t)
                                /\ IsProvided(t.finding)
                                /\ t.text # Gone => ~IsWaived(t.finding, t.text)

(***************************************************************************)
(* A run that reports has scanned every file it found: a directory's files *)
(* are all read once they were listed, or the run ends with an error.      *)
(***************************************************************************)
CleanMeansScanned == pc = "done" /\ code # 1 /\ ~quit => due \subseteq scanned

(***************************************************************************)
(* Whatever fails, no page is left open, and no browser but one that gave  *)
(* no page or would not close, or that was open when the user refused.     *)
(***************************************************************************)
BrowsersClosed ==
  pc = "done" => ~visit.page /\ ~visit.own /\ (browser = "open" => quit)

(***************************************************************************)
(* Three analyses look for low contrast.  An element is charged by one.    *)
(***************************************************************************)
LowContrastOnce ==
  \A l, m \in visit.low : l.selector = m.selector => l.by = m.by
=============================================================================
