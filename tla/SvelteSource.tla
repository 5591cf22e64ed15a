---------------------------- MODULE SvelteSource ----------------------------
(***************************************************************************)
(* Live variants of a Svelte route, on disk: live/svelte-component.mjs and *)
(* its callers live-wrap.mjs, live-insert.mjs, live-accept.mjs and         *)
(* live-server.mjs.                                                        *)
(*                                                                         *)
(* The route source is not touched while variants are made: a session is a *)
(* directory with a manifest (which lines were picked, and how expressions *)
(* became props) and one component per variant.  Accepting a variant reads *)
(* the source, writes it back with the variant in the recorded lines and   *)
(* removes the directory, three steps in which the script can die, the     *)
(* user can save the source and another tab can end live mode.             *)
(*                                                                         *)
(* A source is a sequence of lines.  A line of markup has an indentation,  *)
(* the opening tag it starts with and the tokens on it; a token in braces  *)
(* is an expression.  The CSS an accept appends is one line here.  Scripts *)
(* run one at a time: the agent runs them synchronously, and the server    *)
(* applies legacy accepts before it listens.                               *)
(***************************************************************************)
EXTENDS Integers, Sequences, SequencesExt

CONSTANTS
  Routes, Ids,         \* the .svelte files; the sessions
  MaxCount,            \* variants of a session at most
  NoName,              \* an expression without a usable tail
  MemberTail,          \* the property an expression ends with
  Numbered,            \* prop0, prop1, ...
  Written,             \* the components an agent writes
  Chosen,              \* the knob values a page sends
  Saved                \* what a user's edit puts in place of lines

VARIABLES
  source,              \* the route files
  manifest, component, \* per session: manifest.json; v1.svelte, ...
  asked,               \* per session: the answer of the page that the agent still has to carry out
  deferred,            \* deferred-svelte-component-accepts.json
  script,              \* the script that runs
  moved,               \* history: lines at or above the picked ones changed
  inlined,             \* history: the variant is in the source
  spared               \* history: an accepted session outlived its accept

svelteVars == <<source, manifest, component, asked, deferred, script, moved, inlined, spared>>

Counts == 1 .. MaxCount
Gone == [gone |-> TRUE]
Quiet == [step |-> "none"]
Nothing == [answer |-> "none"]

-----------------------------------------------------------------------------
(* Markup and props *)

\* extractMustacheExpressions: each expression once, in order; a line that starts a comment is left out
Expressions(lines) ==
  LET tokens == FlattenSeq([i \in DOMAIN lines |-> IF lines[i].comment THEN <<>> ELSE lines[i].body])
      note(found, t) == IF t.braces /\ t.name \notin ToSet(found) THEN Append(found, t.name) ELSE found
  IN  FoldLeft(note, <<>>, tokens)

\* derivePropName: the tail of a member expression, or a numbered name
PropContract(exprs) ==
  [i \in DOMAIN exprs |-> [expr |-> exprs[i],
                           prop |-> IF MemberTail[exprs[i]] = NoName THEN Numbered[i] ELSE MemberTail[exprs[i]]]]

\* every "{from}" becomes "{to}", one entry of the contract after the other:
\* what one entry writes the next may rewrite
Renamed(lines, contract, from, to) ==
  LET follow(name, i) == IF contract[i][from] = name THEN contract[i][to] ELSE name
      final(name) == FoldLeft(follow, name, [i \in DOMAIN contract |-> i])
      rename(t) == IF t.braces /\ t.tight THEN [t EXCEPT !.name = final(@)] ELSE t
  IN  [i \in DOMAIN lines |-> [lines[i] EXCEPT !.body = [j \in DOMAIN @ |-> rename(@[j])]]]

SubstituteExprsWithProps(lines, contract) == Renamed(lines, contract, "expr", "prop")
SubstitutePropsWithExprs(lines, contract) == Renamed(lines, contract, "prop", "expr")

\* buildVariantStub, buildInsertVariantStub: the original, under a comment that lists the props
Comment(exprs) == [indent |-> 0, tag |-> NoName, attrs |-> <<>>, comment |-> TRUE, preview |-> FALSE, visible |-> FALSE,
                   body |-> [i \in DOMAIN exprs |-> [braces |-> TRUE, tight |-> TRUE, name |-> exprs[i]]]]
InsertStub == <<[indent |-> 0, tag |-> "div", attrs |-> [a \in {"class"} |-> [fixed |-> TRUE, value |-> {"impeccable-insert-preview"}]],
                 comment |-> FALSE, preview |-> FALSE, visible |-> TRUE, body |-> <<>>]>>
\* its CSS is a comment, or the rule for the placeholder
StubRule(m) == [ready |-> FALSE, scope |-> 0, uses |-> {},
                selectors |-> IF m.insert THEN {[variant |-> 0, params |-> <<>>, rest |-> "impeccable-insert-preview"]} ELSE {}]
Stub(m) ==
  LET head == IF m.contract = <<>> THEN <<>> ELSE <<Comment([i \in DOMAIN m.contract |-> m.contract[i].expr])>>
      body == IF m.insert THEN InsertStub ELSE head \o SubstituteExprsWithProps(m.original, m.contract)
  IN  [lead |-> <<>>, script |-> TRUE, markup |-> body, css |-> <<StubRule(m)>>]

\* parseSvelteComponentFile: what stands before the script is dropped with it
MarkupOf(c) == IF c.script THEN c.markup ELSE c.lead \o c.markup

\* mergeOriginalTopLevelAttrs: what the picked element had and the variant's root lacks
MergedAttrs(variant, original) ==
  [a \in DOMAIN variant \cup DOMAIN original |->
     IF a \notin DOMAIN variant THEN original[a]
     ELSE IF a = "class" /\ a \in DOMAIN original /\ variant[a].fixed /\ original[a].fixed
          THEN [variant[a] EXCEPT !.value = @ \cup original[a].value]
          ELSE variant[a]]
MergeOriginalTopLevelAttrs(lines, original) ==
  IF lines = <<>> \/ original = <<>> THEN lines
  ELSE IF lines[1].tag = NoName \/ lines[1].tag # original[1].tag THEN lines
  ELSE [i \in DOMAIN lines |-> IF i = 1 THEN [lines[1] EXCEPT !.attrs = MergedAttrs(@, original[1].attrs)] ELSE lines[i]]

-----------------------------------------------------------------------------
(* The variant's CSS, once the preview's selectors are gone *)

\* a rule is ready when it, or the @scope block it stands in, carries the marker of a finished variant
Mentions(rule) == rule.ready \/ rule.scope # 0 \/ \E s \in rule.selectors : s.variant # 0

\* rewriteParamSelectors: [data-p-k="v"] and [data-p-k], of the knobs that have a value
Off == {"false", "off", "0"}
ParamHolds(s, values) ==
  \A k \in DOMAIN s.params \cap DOMAIN values :
     IF s.params[k] = NoName THEN values[k] \notin Off ELSE values[k] = s.params[k]

\* rewriteAcceptedSvelteSelectorPart
RewriteSelector(s, n, values, root, scoped) ==
  IF s.variant \notin {0, n} \/ ~ParamHolds(s, values) THEN {}
  ELSE IF s.rest # NoName THEN {[s EXCEPT !.variant = 0, !.params = <<>>]}
  ELSE IF s.variant = n \/ scoped THEN {[s EXCEPT !.variant = 0, !.params = <<>>, !.rest = root]}
  ELSE {}

\* appendSanitizedCssRule; a rule left without a selector is dropped
SanitizeRule(rule, n, values, root) ==
  LET scoped == rule.scope # 0
      kept == UNION {RewriteSelector(s, n, values, root, scoped) : s \in rule.selectors}
  IN  IF rule.ready \/ rule.scope \notin {0, n} \/ kept = {} THEN <<>>
      ELSE <<[rule EXCEPT !.scope = 0, !.selectors = kept]>>

\* sanitizeAcceptedSvelteCss leaves CSS alone that mentions no variant at all
SanitizeAcceptedSvelteCss(css, n, values, root) ==
  IF \A i \in DOMAIN css : ~Mentions(css[i]) THEN css
  ELSE FlattenSeq([i \in DOMAIN css |-> SanitizeRule(css[i], n, values, root)])

\* bakeParamValuesInCss: var(--p-k) becomes the value of knob k
BakeParamValuesInCss(css, values) ==
  [i \in DOMAIN css |-> [css[i] EXCEPT !.uses = @ \ DOMAIN values]]

-----------------------------------------------------------------------------
(* Lines *)

\* drop lines are taken out at line at, and the lines new put there
Splice(lines, at, drop, new) ==
  [i \in 1 .. (Len(lines) - drop + Len(new)) |->
     IF i < at THEN lines[i]
     ELSE IF i < at + Len(new) THEN new[i - at + 1]
     ELSE lines[i - Len(new) + drop]]

StyleTag == [style |-> "open"]
StyleEnd == [style |-> "close"]
Rules(css) == [css |-> css]

\* findLastStyleCloseLine, 0 if there is none
StyleClose(lines) ==
  LET E == {i \in DOMAIN lines : lines[i] = StyleEnd}
  IN  IF E = {} THEN 0 ELSE CHOOSE i \in E : \A j \in E : j <= i

\* appendCssToSvelteStyle
AppendCss(lines, css) ==
  IF css = <<>> THEN lines
  ELSE IF StyleClose(lines) = 0
       THEN Splice(lines, Len(lines) + 1, 0, <<StyleTag, Rules(css), StyleEnd>>)
       ELSE Splice(lines, StyleClose(lines), 0, <<Rules(css)>>)

\* every line gets the indentation of the line it lands on
Reindent(lines, n) == [i \in DOMAIN lines |-> [lines[i] EXCEPT !.indent = n]]
IndentAt(lines, i) ==
  LET l == IF i \in DOMAIN lines THEN lines[i] ELSE lines[i - 1]
  IN  IF "indent" \in DOMAIN l THEN l.indent ELSE 0

\* where an accept of the session starts to change the source, and how many lines it takes out
At(m) == IF m.insert THEN m.insertLine ELSE m.first
Drops(m) == IF m.insert THEN 0 ELSE m.last - m.first + 1

\* the markup an accept puts there
AcceptedMarkup(m, lines) ==
  IF m.insert THEN lines
  ELSE SubstitutePropsWithExprs(MergeOriginalTopLevelAttrs(lines, m.original), m.contract)

\* the CSS it appends
AcceptedCss(c, n, values) ==
  LET markup == MarkupOf(c)
      tag == IF markup = <<>> THEN NoName ELSE markup[1].tag
      root == IF tag = NoName THEN "div" ELSE tag
  IN  BakeParamValuesInCss(SanitizeAcceptedSvelteCss(c.css, n, values, root), values)

WithMarkup(lines, m, markup) == Splice(lines, At(m), Drops(m), Reindent(markup, IndentAt(lines, At(m))))
Inlined(lines, m, markup, css) == AppendCss(WithMarkup(lines, m, markup), css)

\* why inlineSvelteComponentAccept answers handled: false
Refuses(id, n) ==
  \/ manifest[id] = Gone
  \/ component[id][n] = Gone
  \/ LET m == manifest[id]
         lines == source[m.file]
     IN  \/ lines = <<>>                         \* resolveSourceFile: no such file
         \/ ~m.insert /\ (m.last < m.first \/ m.last > Len(lines))
         \/ m.insert /\ m.insertLine > Len(lines) + 1
         \/ m.insert /\ LET markup == MarkupOf(component[id][n])
                        IN  \/ \A i \in DOMAIN markup : ~markup[i].visible
                            \/ \E i \in DOMAIN markup : markup[i].preview

-----------------------------------------------------------------------------
(* Sessions *)

NoComponents == [n \in Counts |-> Gone]

SvelteInit ==
  /\ source \in [Routes -> Saved]
  /\ manifest = [id \in Ids |-> Gone]
  /\ component = [id \in Ids |-> NoComponents]
  /\ asked = [id \in Ids |-> Nothing]
  /\ deferred \in {<<>>} \cup {<<[id |-> id, variant |-> n, values |-> v]>> : id \in Ids, n \in Counts, v \in Chosen}
  /\ script = Quiet
  /\ moved = [id \in Ids |-> FALSE] /\ inlined = [id \in Ids |-> FALSE]
  /\ spared = [id \in Ids |-> FALSE]

\* live-wrap.mjs: the picked element was found in lines first .. last
WrapSvelte(id, f, first, last, count) ==
  /\ script = Quiet
  /\ last \in DOMAIN source[f] /\ first \in 1 .. last
  /\ \A i \in first .. last : "indent" \in DOMAIN source[f][i]
  /\ LET original == [i \in 1 .. last - first + 1 |-> source[f][first + i - 1]]
     IN  script' = [step |-> "scaffold", id |-> id, count |-> count, read |-> source[f],
                    m |-> [file |-> f, insert |-> FALSE, first |-> first, last |-> last, insertLine |-> first,
                           original |-> original, contract |-> PropContract(Expressions(original))]]
  /\ UNCHANGED <<source, manifest, component, asked, deferred, moved, inlined, spared>>

\* live-insert.mjs: an anchor was found, the new element goes before or after it
InsertSvelte(id, f, first, last, before, count) ==
  /\ script = Quiet
  /\ last \in DOMAIN source[f] /\ first \in 1 .. last
  /\ script' = [step |-> "scaffold", id |-> id, count |-> count, read |-> source[f],
                m |-> [file |-> f, insert |-> TRUE, first |-> first, last |-> last,
                       insertLine |-> IF before THEN first ELSE last + 1,
                       original |-> [i \in 1 .. last - first + 1 |-> source[f][first + i - 1]], contract |-> <<>>]]
  /\ UNCHANGED <<source, manifest, component, asked, deferred, moved, inlined, spared>>

\* scaffoldSvelteComponentSession and its insert twin: the manifest first ...
WriteManifest ==
  /\ script.step = "scaffold"
  /\ LET id == script.id
     IN  /\ manifest' = [manifest EXCEPT ![id] = script.m]
         /\ moved' = [moved EXCEPT ![id] = source[script.m.file] # script.read]
         /\ inlined' = [inlined EXCEPT ![id] = FALSE]
         /\ spared' = [spared EXCEPT ![id] = FALSE]
         /\ script' = [step |-> "stubs", id |-> id, count |-> script.count, next |-> 1]
  /\ UNCHANGED <<source, component, asked, deferred>>

\* ... then a stub for every variant that has no file yet; a directory that is gone ends the script
WriteStub ==
  /\ script.step = "stubs"
  /\ LET id == script.id
         n == script.next
     IN  IF manifest[id] = Gone
         THEN script' = Quiet /\ UNCHANGED component
         ELSE /\ component' = IF component[id][n] # Gone THEN component
                              ELSE [component EXCEPT ![id][n] = Stub(manifest[id])]
              /\ script' = IF n = script.count THEN Quiet ELSE [script EXCEPT !.next = n + 1]
  /\ UNCHANGED <<source, manifest, asked, deferred, moved, inlined, spared>>

\* the agent authors a variant in its file
Author(id, n, c) ==
  /\ script = Quiet /\ manifest[id] # Gone
  /\ component' = [component EXCEPT ![id][n] = c]
  /\ UNCHANGED <<source, manifest, asked, deferred, script, moved, inlined, spared>>

\* a page that shows the session accepts a variant or discards them all; the session may be gone by then
Ask(id, answer) ==
  /\ asked[id] = Nothing
  /\ asked' = [asked EXCEPT ![id] = answer]
  /\ UNCHANGED <<source, manifest, component, deferred, script, moved, inlined, spared>>

-----------------------------------------------------------------------------
(* Carrying out an answer *)

Inlining(a, by, rest, kept) ==
  LET m == manifest[a.id]
      c == component[a.id][a.variant]
  IN  [step |-> "write", id |-> a.id, entry |-> a, by |-> by, rest |-> rest, kept |-> kept, m |-> m, read |-> source[m.file],
       markup |-> AcceptedMarkup(m, MarkupOf(c)), css |-> AcceptedCss(c, a.variant, a.values)]

\* live-accept.mjs --variant: the source is read, or the accept is refused
RunSvelteAccept(id) ==
  /\ script = Quiet /\ asked[id].answer = "accept"
  /\ IF Refuses(id, asked[id].variant)
     THEN asked' = [asked EXCEPT ![id] = Nothing] /\ UNCHANGED script
     ELSE /\ script' = Inlining([id |-> id, variant |-> asked[id].variant, values |-> asked[id].values], "agent", <<>>, <<>>)
          /\ UNCHANGED asked
  /\ UNCHANGED <<source, manifest, component, deferred, moved, inlined, spared>>

\* the lines an inlining changes reach up to here
Disturbs(m, new, css, last) ==
  \/ last >= At(m)
  \/ css # <<>> /\ StyleClose(new) # 0 /\ last >= StyleClose(new)

\* the source is written back, with whatever was saved in between undone
WriteSource ==
  /\ script.step = "write"
  /\ LET m == script.m
         new == WithMarkup(script.read, m, script.markup)
     IN  /\ source' = [source EXCEPT ![m.file] = Inlined(script.read, m, script.markup, script.css)]
         /\ moved' = [id \in Ids |->
              \/ moved[id]
              \/ manifest[id] # Gone /\ manifest[id].file = m.file
                   /\ (source[m.file] # script.read \/ Disturbs(m, new, script.css, manifest[id].last))]
         /\ inlined' = [inlined EXCEPT ![script.id] = TRUE]
         /\ script' = [script EXCEPT !.step = "remove"]
  /\ UNCHANGED <<manifest, component, asked, deferred, spared>>

\* the script goes on with the answer that is next, or ends
After(done) ==
  IF script.by = "agent" THEN Quiet
  ELSE [step |-> "deferred", rest |-> script.rest,
        kept |-> IF done THEN script.kept ELSE Append(script.kept, script.entry)]
Answered(id) == IF script.by = "agent" THEN [asked EXCEPT ![id] = Nothing] ELSE asked

\* ... or cannot be written
WriteFails ==
  /\ script.step = "write"
  /\ script' = After(FALSE) /\ asked' = Answered(script.id)
  /\ UNCHANGED <<source, manifest, component, deferred, moved, inlined, spared>>

\* removeSvelteComponentSession, whose failure is not fatal
RemoveSession ==
  /\ script.step = "remove"
  /\ \/ /\ manifest' = [manifest EXCEPT ![script.id] = Gone]
        /\ component' = [component EXCEPT ![script.id] = NoComponents]
        /\ UNCHANGED spared
     \/ /\ spared' = [spared EXCEPT ![script.id] = TRUE]
        /\ UNCHANGED <<manifest, component>>
  /\ script' = After(TRUE) /\ asked' = Answered(script.id)
  /\ UNCHANGED <<source, deferred, moved, inlined>>

\* live-accept.mjs --discard
RunSvelteDiscard(id) ==
  /\ script = Quiet /\ asked[id].answer = "discard"
  /\ \/ /\ manifest' = [manifest EXCEPT ![id] = Gone]
        /\ component' = [component EXCEPT ![id] = NoComponents]
     \/ UNCHANGED <<manifest, component>>
  /\ asked' = [asked EXCEPT ![id] = Nothing]
  /\ UNCHANGED <<source, deferred, script, moved, inlined, spared>>

\* applyLegacyDeferredAcceptsOnStartup: the server starts ...
StartDeferred ==
  /\ script = Quiet /\ deferred # <<>>
  /\ script' = [step |-> "deferred", rest |-> deferred, kept |-> <<>>]
  /\ UNCHANGED <<source, manifest, component, asked, deferred, moved, inlined, spared>>

\* ... applies the accepts that an older version left behind, one after the other ...
ApplyDeferred ==
  /\ script.step = "deferred" /\ script.rest # <<>>
  /\ LET entry == Head(script.rest)
     IN  script' = IF Refuses(entry.id, entry.variant)
                   THEN [step |-> "deferred", rest |-> Tail(script.rest), kept |-> Append(script.kept, entry)]
                   ELSE Inlining(entry, "server", Tail(script.rest), script.kept)
  /\ UNCHANGED <<source, manifest, component, asked, deferred, moved, inlined, spared>>

\* ... and keeps the ones it could not apply
KeepDeferred ==
  /\ script.step = "deferred" /\ script.rest = <<>>
  /\ deferred' = script.kept /\ script' = Quiet
  /\ UNCHANGED <<source, manifest, component, asked, moved, inlined, spared>>

\* cleanupSvelteComponentSessionsBeforeExit: on exit and on shutdown every
\* session goes, but for the directories that cannot be removed
EndLive(stuck) ==
  /\ manifest' = [id \in Ids |-> IF id \in stuck THEN manifest[id] ELSE Gone]
  /\ component' = [id \in Ids |-> IF id \in stuck THEN component[id] ELSE NoComponents]
  /\ UNCHANGED <<source, asked, deferred, script, moved, inlined, spared>>

\* a script is killed; the event it worked on is delivered again
ScriptDies ==
  /\ script # Quiet /\ script' = Quiet
  /\ spared' = IF script.step = "remove" THEN [spared EXCEPT ![script.id] = TRUE] ELSE spared
  /\ UNCHANGED <<source, manifest, component, asked, deferred, moved, inlined>>

\* the user saves the route with other lines in it
SaveRoute(f, at, drop, new) ==
  /\ at \in 1 .. Len(source[f]) + 1 /\ drop \in 0 .. Len(source[f]) - at + 1
  /\ source' = [source EXCEPT ![f] = Splice(@, at, drop, new)]
  /\ moved' = [id \in Ids |-> moved[id] \/ (manifest[id] # Gone /\ manifest[id].file = f /\ manifest[id].last >= at)]
  /\ UNCHANGED <<manifest, component, asked, deferred, script, inlined, spared>>

-----------------------------------------------------------------------------

Answers == [answer : {"accept"}, variant : Counts, values : Chosen] \cup [answer : {"discard"}]

Scripts ==
  \/ \E id \in Ids, f \in Routes, first, last \in Nat, count \in Counts :
       \/ WrapSvelte(id, f, first, last, count)
       \/ \E before \in BOOLEAN : InsertSvelte(id, f, first, last, before, count)
  \/ WriteManifest \/ WriteStub
  \/ \E id \in Ids : RunSvelteAccept(id) \/ RunSvelteDiscard(id)
  \/ WriteSource \/ WriteFails \/ RemoveSession
  \/ StartDeferred \/ ApplyDeferred \/ KeepDeferred
  \/ ScriptDies

SvelteNext ==
  \/ Scripts
  \/ \E id \in Ids, n \in Counts, c \in Written : Author(id, n, c)
  \/ \E id \in Ids, answer \in Answers : Ask(id, answer)
  \/ \E stuck \in SUBSET Ids : EndLive(stuck)
  \/ \E f \in Routes, new \in Saved, at, drop \in Nat : SaveRoute(f, at, drop, new)

SvelteSpec == SvelteInit /\ [][SvelteNext]_svelteVars

-----------------------------------------------------------------------------

\* the lines a session was made from stand where its manifest says
Picked(m, lines) ==
  \A i \in m.first .. m.last : i \in DOMAIN lines /\ lines[i] = m.original[i - m.first + 1]

(***************************************************************************)
(* A session knows its lines by number, and nothing checks the number when *)
(* the accept comes.  It is right all the same as long as neither the user *)
(* nor another accept changed the route at or above those lines: an accept *)
(* further down, and the CSS it appends below them, do not count.          *)
(***************************************************************************)
RangesHold ==
  \A id \in Ids : manifest[id] # Gone /\ ~moved[id] =>
    Picked(manifest[id], source[manifest[id].file])

(***************************************************************************)
(* The write and the removal of the session are two steps, and a redelivered *)
(* accept starts over.  A variant is written into its route a second time  *)
(* only if the removal failed or the script was killed before it.          *)
(***************************************************************************)
InlinedOnce == [][WriteSource => (inlined[script.id] => spared[script.id])]_svelteVars
=============================================================================
