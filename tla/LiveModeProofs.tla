--------------------------- MODULE LiveModeProofs ---------------------------
(***************************************************************************)
(* Proofs about four parts of the impeccable live mode that share no      *)
(* state.                                                                  *)
(*                                                                         *)
(* The injector keeps a project whole, for any files, ports, policies and  *)
(* configurations: the inductive invariant speaks of one page and its      *)
(* policies at a time; the lemmas say what the operations do to it.        *)
(*                                                                         *)
(* Insert mode, for every page layout, every drag and every order of hot   *)
(* reloads, page reloads and clicks.                                       *)
(*                                                                         *)
(* Svelte routes and the sessions that change them, whatever is killed,    *)
(* redelivered or saved in between.                                        *)
(*                                                                         *)
(* Copy edits: a dock that shows an apply as running waits for something,  *)
(* whatever the pages, the chunks and the repair attempts.                 *)
(***************************************************************************)
EXTENDS LiveInject, InsertMode, SvelteSource, CopyEdits,
        TLAPS, FiniteSetTheorems, WellFoundedInduction

(* A page as the injector may find it *)
Healthy(p, pol) ==
  /\ \A a, b \in p.blocks : a = b
  /\ \A t \in Tags : /\ pol[t] = IF p.tags[t].marked THEN p.tags[t].original ELSE p.tags[t].value
                     /\ p.tags[t].marked => p.tags[t].content
  /\ \A b \in p.blocks, t \in Tags :
       p.tags[t].content /\ pol[t] \notin Plussed =>
         b.port \in p.tags[t].value["script-src"] /\ b.port \in p.tags[t].value["connect-src"]

(* A page as a removal leaves it *)
Clean(p, pol) ==
  /\ p.blocks = {}
  /\ \A t \in Tags : p.tags[t].value = pol[t] /\ (p.tags[t].marked => pol[t] \in Plussed)

(* Ports and the two words a patch adds may stand in a policy, and no port  *)
(* stands for the absence of one.                                           *)
SourcesKnown == Ports \subseteq Sources /\ "self" \in Sources /\ "blob:" \in Sources /\ None \notin Ports

IInv ==
  /\ TypeOK
  /\ \A f \in Files : Healthy(page[f], policy[f])
  /\ run.mode = "remove" => \A f \in Resolved(run.config) \ run.todo : page[f].there => Clean(page[f], policy[f])
  /\ IgnoredFirst /\ (run.mode \in {"insert", "apply"} => ignored)
  /\ LayoutResolves

-----------------------------------------------------------------------------
(* Appending an origin gives a policy again, in which it is named. *)
LEMMA AppendFact ==
  ASSUME NEW pol \in Policies, NEW d \in Directives, NEW o \in Sources, "self" \in Sources
  PROVE  /\ AppendOrigin(pol, d, o) \in Policies
         /\ o \in AppendOrigin(pol, d, o)[d]
         /\ \A e \in Directives : pol[e] \subseteq AppendOrigin(pol, d, o)[e]
  BY DEF AppendOrigin, Policies

(* A patched policy names the port for scripts and for connections. *)
LEMMA PatchedFact ==
  ASSUME NEW pol \in Policies, NEW port \in Ports, SourcesKnown
  PROVE  /\ Patched(pol, port) \in Policies
         /\ port \in Patched(pol, port)["script-src"]
         /\ port \in Patched(pol, port)["connect-src"]
<1> DEFINE one == AppendOrigin(pol, "script-src", port)
           two == AppendOrigin(one, "connect-src", port)
           three == AppendOrigin(two, "img-src", "blob:")
<1>0. port \in Sources /\ "self" \in Sources /\ "blob:" \in Sources
        /\ "script-src" \in Directives /\ "connect-src" \in Directives /\ "img-src" \in Directives
  BY DEF SourcesKnown, Directives
<1>1. one \in Policies /\ port \in one["script-src"]
  BY <1>0, AppendFact
<1> HIDE DEF one
<1>2. two \in Policies /\ port \in two["connect-src"] /\ port \in two["script-src"]
  BY <1>0, <1>1, AppendFact
<1> HIDE DEF two
<1>3. three \in Policies /\ port \in three["connect-src"] /\ port \in three["script-src"]
  BY <1>0, <1>2, AppendFact
<1> QED
  BY <1>3 DEF Patched, one, two, three

(* A reverted tag says what the user wrote, and is marked only if the       *)
(* marker could not be taken out.                                           *)
LEMMA RevertFact ==
  ASSUME NEW t \in Tag, NEW pol, t.marked => t.content,
         pol = IF t.marked THEN t.original ELSE t.value
  PROVE  /\ RevertTag(t) \in Tag
         /\ RevertTag(t).value = pol
         /\ RevertTag(t).content = t.content
         /\ RevertTag(t).marked => RevertTag(t).content /\ RevertTag(t).original = pol /\ pol \in Plussed
<1>1. CASE ~t.marked
  BY <1>1 DEF RevertTag
<1>2. CASE t.marked /\ t.original \in Plussed
  BY <1>2 DEF RevertTag, Tag
<1>3. CASE t.marked /\ t.original \notin Plussed
  <2>1. RevertTag(t) = [t EXCEPT !.value = t.original, !.marked = FALSE]
    <3> DEFINE kept == t.original \in Plussed
    <3>1. kept = FALSE
      BY <1>3
    <3>2. RevertTag(t) = [t EXCEPT !.value = t.original, !.marked = kept]
      BY <1>3, Zenon DEF RevertTag
    <3> HIDE DEF kept
    <3> QED
      BY <3>1, <3>2, Zenon
  <2> QED
    BY <1>3, <2>1 DEF Tag
<1> QED
  BY <1>1, <1>2, <1>3 DEF Tag

(* A patched tag lets the script run, and keeps what the user wrote. *)
LEMMA PatchFact ==
  ASSUME NEW t \in Tag, NEW port \in Ports, NEW pol, SourcesKnown,
         t.value = pol, t.marked => t.content /\ t.original = pol /\ pol \in Plussed
  PROVE  /\ PatchTag(t, port) \in Tag
         /\ PatchTag(t, port).marked => PatchTag(t, port).content
         /\ pol = IF PatchTag(t, port).marked THEN PatchTag(t, port).original ELSE PatchTag(t, port).value
         /\ PatchTag(t, port).content /\ pol \notin Plussed =>
              /\ port \in PatchTag(t, port).value["script-src"]
              /\ port \in PatchTag(t, port).value["connect-src"]
<1>1. t.value \in Policies
  BY DEF Tag
<1>2. /\ Patched(t.value, port) \in Policies
      /\ port \in Patched(t.value, port)["script-src"]
      /\ port \in Patched(t.value, port)["connect-src"]
  BY <1>1, PatchedFact
<1> QED
  BY <1>1, <1>2 DEF PatchTag, Tag

(* Taking the tag out of a page with one script leaves none. *)
LEMMA RemoveFact ==
  ASSUME NEW p \in Page, \A a, b \in p.blocks : a = b
  PROVE  /\ RemoveTag(p) \in Page
         /\ RemoveTag(p).blocks = {}
         /\ RemoveTag(p).tags = p.tags /\ RemoveTag(p).there = p.there /\ RemoveTag(p).anchor = p.anchor
<1> DEFINE gone == IF OfSyntax(p, "html") # {} THEN OfSyntax(p, "html") ELSE OfSyntax(p, "jsx")
<1>1. p.blocks \subseteq Blocks
  BY DEF Page
<1>2. \A b \in p.blocks : b.syntax = "html" \/ b.syntax = "jsx"
  BY <1>1 DEF Blocks, Syntaxes
<1>3. \A b \in p.blocks : b \in gone
  BY <1>2 DEF OfSyntax
<1>4. p.blocks \ gone = {} /\ p.blocks \ gone \in SUBSET Blocks
  BY <1>1, <1>3
<1> HIDE DEF gone
<1>5. RemoveTag(p) = [p EXCEPT !.blocks = p.blocks \ gone]
  BY DEF RemoveTag, gone
<1> QED
  BY <1>4, <1>5 DEF Page

(* A reverted page is whole, and a removal leaves it clean. *)
LEMMA CleanFact ==
  ASSUME NEW p \in Page, NEW pol, Healthy(p, pol)
  PROVE  LET q == RevertCspMeta(RemoveTag(p))
         IN  /\ q \in Page /\ Clean(q, pol) /\ Healthy(q, pol)
             /\ q.there = p.there /\ q.anchor = p.anchor
             /\ \A t \in Tags : /\ q.tags[t] \in Tag
                                /\ q.tags[t].marked => /\ q.tags[t].content /\ q.tags[t].original = pol[t]
                                                       /\ pol[t] \in Plussed
<1> DEFINE r == RemoveTag(p)
           q == RevertCspMeta(r)
<1>1. r \in Page /\ r.blocks = {} /\ r.tags = p.tags /\ r.there = p.there /\ r.anchor = p.anchor
  BY RemoveFact DEF Healthy
<1>2. \A t \in Tags : p.tags[t] \in Tag
  BY DEF Page
<1>3. \A t \in Tags : /\ RevertTag(p.tags[t]) \in Tag
                      /\ RevertTag(p.tags[t]).value = pol[t]
                      /\ RevertTag(p.tags[t]).marked =>
                           /\ RevertTag(p.tags[t]).content /\ RevertTag(p.tags[t]).original = pol[t]
                           /\ pol[t] \in Plussed
  <2> SUFFICES ASSUME NEW t \in Tags
               PROVE  /\ RevertTag(p.tags[t]) \in Tag
                      /\ RevertTag(p.tags[t]).value = pol[t]
                      /\ RevertTag(p.tags[t]).marked =>
                           /\ RevertTag(p.tags[t]).content /\ RevertTag(p.tags[t]).original = pol[t]
                           /\ pol[t] \in Plussed
    OBVIOUS
  <2>1. /\ p.tags[t].marked => p.tags[t].content
        /\ pol[t] = IF p.tags[t].marked THEN p.tags[t].original ELSE p.tags[t].value
    BY DEF Healthy
  <2> QED
    BY <1>2, <2>1, RevertFact
<1> HIDE DEF r
<1>4. q = [r EXCEPT !.tags = [t \in Tags |-> RevertTag(p.tags[t])]]
  BY <1>1 DEF RevertCspMeta
<1> HIDE DEF q
<1>5. [t \in Tags |-> RevertTag(p.tags[t])] \in [Tags -> Tag]
  BY <1>3
<1>6. /\ q \in Page /\ q.blocks = {} /\ q.there = p.there /\ q.anchor = p.anchor
      /\ q.tags = [t \in Tags |-> RevertTag(p.tags[t])]
  BY <1>1, <1>4, <1>5 DEF Page
<1>7. \A t \in Tags : q.tags[t] = RevertTag(p.tags[t])
  BY <1>6
<1>8. Clean(q, pol)
  BY <1>3, <1>6, <1>7 DEF Clean
<1>9. Healthy(q, pol)
  BY <1>3, <1>6, <1>7 DEF Healthy
<1> QED
  BY <1>3, <1>6, <1>7, <1>8, <1>9 DEF q, r

(* What a run makes of a whole page is a whole page. *)
LEMMA RemovedFact ==
  ASSUME NEW p \in Page, NEW pol, Healthy(p, pol)
  PROVE  /\ Removed(p) \in Page /\ Healthy(Removed(p), pol)
         /\ Removed(p).there => Clean(Removed(p), pol)
         /\ Removed(p).blocks # {} => p.blocks # {}
<1>1. CASE ~p.there
  BY <1>1 DEF Removed
<1>2. CASE p.there
  <2>1. Removed(p) \in Page /\ Healthy(Removed(p), pol) /\ Clean(Removed(p), pol)
    BY <1>2, CleanFact DEF Removed
  <2> QED
    BY <2>1 DEF Clean
<1> QED
  BY <1>1, <1>2

LEMMA InjectedFact ==
  ASSUME NEW p \in Page, NEW pol, Healthy(p, pol), NEW c \in Config, NEW port \in Ports, SourcesKnown
  PROVE  Injected(p, c, port) \in Page /\ Healthy(Injected(p, c, port), pol)
<1>1. CASE ~p.there \/ p.anchor = "none"
  BY <1>1 DEF Injected
<1>2. CASE p.there /\ p.anchor # "none"
  <2> DEFINE q == RevertCspMeta(RemoveTag(p))
             block == [syntax |-> c.commentSyntax, port |-> port]
             i == InsertTag(q, c, port)
             r == PatchCspMeta(i, port)
  <2>1. /\ q \in Page /\ q.blocks = {} /\ \A t \in Tags : q.tags[t].value = pol[t]
        /\ \A t \in Tags : /\ q.tags[t] \in Tag
                           /\ q.tags[t].marked => /\ q.tags[t].content /\ q.tags[t].original = pol[t]
                                                  /\ pol[t] \in Plussed
    BY CleanFact DEF Clean
  <2> HIDE DEF q
  <2>2. block \in Blocks
    BY DEF Blocks, Config
  <2>3. i \in Page /\ i.blocks = {block} /\ i.tags = q.tags
    BY <2>1, <2>2 DEF InsertTag, Page
  <2>4. \A t \in Tags :
          /\ PatchTag(q.tags[t], port) \in Tag
          /\ PatchTag(q.tags[t], port).marked => PatchTag(q.tags[t], port).content
          /\ pol[t] = IF PatchTag(q.tags[t], port).marked
                      THEN PatchTag(q.tags[t], port).original ELSE PatchTag(q.tags[t], port).value
          /\ PatchTag(q.tags[t], port).content /\ pol[t] \notin Plussed =>
               /\ port \in PatchTag(q.tags[t], port).value["script-src"]
               /\ port \in PatchTag(q.tags[t], port).value["connect-src"]
    BY <2>1, PatchFact
  <2> HIDE DEF i
  <2>5. r = [i EXCEPT !.tags = [t \in Tags |-> PatchTag(q.tags[t], port)]]
    BY <2>3 DEF PatchCspMeta
  <2> HIDE DEF r
  <2>6. [t \in Tags |-> PatchTag(q.tags[t], port)] \in [Tags -> Tag]
    BY <2>4
  <2>7. r \in Page /\ r.blocks = {block} /\ r.tags = [t \in Tags |-> PatchTag(q.tags[t], port)]
    BY <2>3, <2>5, <2>6 DEF Page
  <2>8. \A t \in Tags : r.tags[t] = PatchTag(q.tags[t], port)
    BY <2>7
  <2>9. Healthy(r, pol)
    BY <2>4, <2>7, <2>8 DEF Healthy
  <2>10. Injected(p, c, port) = r
    BY <1>2 DEF Injected, r, i, q
  <2> QED
    BY <2>7, <2>9, <2>10
<1> QED
  BY <1>1, <1>2

-----------------------------------------------------------------------------
LEMMA InitHolds ==
  Init => IInv
<1> SUFFICES ASSUME Init PROVE IInv
  OBVIOUS
<1>1. TypeOK
  BY DEF Init, TypeOK, Runs, Idle, None
<1>2. \A f \in Files : Healthy(page[f], policy[f])
  BY DEF Init, Healthy
<1>3. run.mode = "idle"
  BY DEF Init, Idle
<1>4. IgnoredFirst /\ LayoutResolves
  BY DEF Init, IgnoredFirst, LayoutResolves
<1> QED
  BY <1>1, <1>2, <1>3, <1>4 DEF IInv

(* The steps of the server, the configuration and the SvelteKit adapter,    *)
(* which touch no page.                                                     *)
LEMMA NoPageStep ==
  ASSUME IInv, SourcesKnown, UNCHANGED <<page, policy>>,
         \/ ServerStarts \/ ServerDies \/ EditConfig \/ StartInsert \/ StartRemove \/ RunEnds
         \/ EnsureRoot \/ PatchLayout \/ UnpatchLayout \/ RemoveRoot
  PROVE  IInv'
<1> USE DEF IInv
<1>0. /\ page' \in [Files -> Page] /\ policy' \in [Files -> [Tags -> Policies]]
      /\ \A f \in Files : Healthy(page'[f], policy'[f])
  BY DEF TypeOK
<1>1. CASE ServerStarts \/ ServerDies \/ EditConfig
  <2>1. UNCHANGED <<run, ignored, layout, root>>
    BY <1>1 DEF ServerStarts, ServerDies, EditConfig
  <2>2. config' \in Config /\ server' \in Ports \cup {None}
    BY <1>1 DEF ServerStarts, ServerDies, EditConfig, TypeOK
  <2>3. TypeOK'
    BY <1>0, <2>1, <2>2 DEF TypeOK
  <2> QED
    BY <1>0, <2>1, <2>3 DEF IgnoredFirst, LayoutResolves
<1>2. CASE StartInsert
  <2>1. UNCHANGED <<config, layout, root, server>> /\ ignored' = TRUE /\ server \in Ports
    BY <1>2 DEF StartInsert, TypeOK
  <2>2. Resolved(config) \subseteq Files
    BY DEF Resolved, Config, TypeOK
  <2>3. run' \in Runs /\ run'.mode \in {"insert", "apply"}
    BY <1>2, <2>1, <2>2 DEF StartInsert, Runs, TypeOK
  <2>4. TypeOK'
    BY <1>0, <2>1, <2>3 DEF TypeOK
  <2> QED
    BY <1>0, <2>1, <2>3, <2>4 DEF IgnoredFirst, LayoutResolves
<1>3. CASE StartRemove
  <2>1. UNCHANGED <<config, layout, root, ignored>> /\ server' \in Ports \cup {None}
    BY <1>3 DEF StartRemove, TypeOK
  <2>2. Resolved(config) \subseteq Files
    BY DEF Resolved, Config, TypeOK
  <2>3. \/ run' = [mode |-> "unapply"]
        \/ run' = [mode |-> "remove", todo |-> Resolved(config), config |-> config]
    BY <1>3 DEF StartRemove
  <2>4. run' \in Runs /\ run'.mode \in {"remove", "unapply"}
    BY <2>2, <2>3 DEF Runs, TypeOK
  <2>5. run'.mode = "remove" => Resolved(run'.config) \ run'.todo = {}
    BY <2>3
  <2>6. TypeOK'
    BY <1>0, <2>1, <2>4 DEF TypeOK
  <2> QED
    BY <1>0, <2>1, <2>4, <2>5, <2>6 DEF IgnoredFirst, LayoutResolves
<1>4. CASE RunEnds
  <2>1. UNCHANGED <<config, server, ignored, layout, root>> /\ run' = Idle
    BY <1>4 DEF RunEnds
  <2>2. run' \in Runs /\ run'.mode = "idle"
    BY <2>1 DEF Idle, Runs
  <2>3. TypeOK'
    BY <1>0, <2>1, <2>2 DEF TypeOK
  <2> QED
    BY <1>0, <2>1, <2>2, <2>3 DEF IgnoredFirst, LayoutResolves
<1>5. CASE EnsureRoot
  <2>1. UNCHANGED <<config, server, run, ignored, layout>> /\ root' = run.port /\ run.mode = "apply"
    BY <1>5 DEF EnsureRoot
  <2>2. run.port \in Ports
    BY <2>1 DEF Runs, TypeOK
  <2>3. TypeOK'
    BY <1>0, <2>1, <2>2 DEF TypeOK
  <2>4. LayoutResolves'
    BY <2>1, <2>2 DEF SourcesKnown, LayoutResolves
  <2> QED
    BY <1>0, <2>1, <2>3, <2>4 DEF IgnoredFirst
<1>6. CASE PatchLayout
  <2>1. /\ UNCHANGED <<config, server, ignored, root>> /\ run' = Idle
        /\ layout' = [there |-> TRUE, import |-> TRUE, block |-> TRUE]
        /\ run.mode = "apply" /\ root = run.port
    BY <1>6 DEF PatchLayout
  <2>2. run' \in Runs /\ run'.mode = "idle" /\ run.port \in Ports
    BY <2>1 DEF Idle, Runs, TypeOK
  <2>3. TypeOK'
    BY <1>0, <2>1, <2>2 DEF TypeOK
  <2> QED
    BY <1>0, <2>1, <2>2, <2>3 DEF SourcesKnown, IgnoredFirst, LayoutResolves
<1>7. CASE UnpatchLayout
  <2>1. /\ UNCHANGED <<config, server, run, ignored, root>>
        /\ layout' = [layout EXCEPT !.import = FALSE, !.block = FALSE]
    BY <1>7 DEF UnpatchLayout
  <2>2. layout' \in [there : BOOLEAN, import : BOOLEAN, block : BOOLEAN] /\ ~layout'.import /\ ~layout'.block
    BY <2>1 DEF TypeOK
  <2>3. TypeOK'
    BY <1>0, <2>1, <2>2 DEF TypeOK
  <2> QED
    BY <1>0, <2>1, <2>2, <2>3 DEF IgnoredFirst, LayoutResolves
<1>8. CASE RemoveRoot
  <2>1. /\ UNCHANGED <<config, server, ignored, layout>> /\ run' = Idle /\ root' = None /\ ~layout.import
    BY <1>8 DEF RemoveRoot
  <2>2. run' \in Runs /\ run'.mode = "idle"
    BY <2>1 DEF Idle, Runs
  <2>3. TypeOK'
    BY <1>0, <2>1, <2>2 DEF TypeOK
  <2> QED
    BY <1>0, <2>1, <2>2, <2>3 DEF IgnoredFirst, LayoutResolves
<1> QED
  BY <1>1, <1>2, <1>3, <1>4, <1>5, <1>6, <1>7, <1>8

(* A step that turns one page into another whole one. *)
LEMMA PageStep ==
  ASSUME IInv, NEW f \in Files, NEW p \in Page, Healthy(p, policy[f]),
         page' = [page EXCEPT ![f] = p],
         UNCHANGED <<policy, config, server, ignored, layout, root>>,
         run' \in Runs, run'.mode = run.mode,
         p.blocks # {} => ignored,
         run.mode = "remove" =>
           /\ run'.config = run.config
           /\ run'.todo = run.todo \/ run'.todo = run.todo \ {f}
           /\ f \in Resolved(run.config) \ run'.todo /\ p.there => Clean(p, policy[f])
  PROVE  IInv'
<1> USE DEF IInv
<1>1. TypeOK'
  BY DEF TypeOK
<1>2. \A g \in Files : page'[g] = IF g = f THEN p ELSE page[g]
  BY DEF TypeOK
<1>3. \A g \in Files : Healthy(page'[g], policy'[g])
  BY <1>2
<1>4. ASSUME run'.mode = "remove", NEW g \in Resolved(run'.config) \ run'.todo, page'[g].there
      PROVE  Clean(page'[g], policy'[g])
  <2>1. g \in Files
    <3>1. run.config \in Config
      BY <1>4 DEF Runs, TypeOK
    <3> QED
      BY <1>4, <3>1 DEF Resolved, Config
  <2> QED
    BY <1>2, <1>4, <2>1
<1>5. IgnoredFirst'
  BY <1>2 DEF IgnoredFirst
<1>6. LayoutResolves' /\ (run'.mode \in {"insert", "apply"} => ignored')
  BY DEF LayoutResolves
<1> QED
  BY <1>1, <1>3, <1>4, <1>5, <1>6

(* The pages at work, and the user. *)
LEMMA FileStep ==
  ASSUME IInv, SourcesKnown, NEW f \in Files, InsertFile(f) \/ RemoveFile(f) \/ EditPage(f)
  PROVE  IInv'
<1>0. page[f] \in Page /\ Healthy(page[f], policy[f]) /\ run \in Runs
  BY DEF IInv, TypeOK
<1>1. CASE InsertFile(f)
  <2> DEFINE p == Injected(page[f], run.config, run.port)
  <2>1. /\ run.mode = "insert" /\ run' = [run EXCEPT !.todo = run.todo \ {f}] /\ page' = [page EXCEPT ![f] = p]
        /\ UNCHANGED <<policy, config, server, ignored, layout, root>>
    BY <1>1 DEF InsertFile
  <2>2. run.config \in Config /\ run.port \in Ports /\ run' \in Runs /\ run'.mode = run.mode
    BY <1>0, <2>1 DEF Runs
  <2>3. p \in Page /\ Healthy(p, policy[f])
    BY <1>0, <2>2, InjectedFact
  <2>4. ignored
    BY <2>1 DEF IInv
  <2> HIDE DEF p
  <2> QED
    BY <2>1, <2>2, <2>3, <2>4, PageStep
<1>2. CASE RemoveFile(f)
  <2> DEFINE p == Removed(page[f])
  <2>1. /\ run.mode = "remove" /\ run' = [run EXCEPT !.todo = run.todo \ {f}] /\ page' = [page EXCEPT ![f] = p]
        /\ UNCHANGED <<policy, config, server, ignored, layout, root>>
    BY <1>2 DEF RemoveFile
  <2>2. run' \in Runs /\ run'.mode = run.mode /\ run'.config = run.config /\ run'.todo = run.todo \ {f}
    BY <1>0, <2>1 DEF Runs
  <2>3. p \in Page /\ Healthy(p, policy[f]) /\ (p.there => Clean(p, policy[f]))
    BY <1>0, RemovedFact
  <2>4. p.blocks # {} => ignored
    <3>1. p.blocks # {} => page[f].blocks # {}
      BY <1>0, RemovedFact
    <3> QED
      BY <3>1 DEF IInv, IgnoredFirst
  <2> HIDE DEF p
  <2> QED
    BY <2>1, <2>2, <2>3, <2>4, PageStep
<1>3. CASE EditPage(f)
  <2>1. PICK there \in BOOLEAN, at \in {"none", "line", "bare"}, blocks \in SUBSET page[f].blocks :
          /\ there = page[f].there \/ run = Idle
          /\ page' = [page EXCEPT ![f] = [there |-> there, anchor |-> at, blocks |-> blocks, tags |-> page[f].tags]]
    BY <1>3 DEF EditPage
  <2> DEFINE p == [there |-> there, anchor |-> at, blocks |-> blocks, tags |-> page[f].tags]
  <2>2. UNCHANGED <<policy, config, server, run, ignored, layout, root>>
    BY <1>3 DEF EditPage
  <2>3. p \in Page
    BY <1>0 DEF Page
  <2>4. p.blocks \subseteq page[f].blocks /\ p.tags = page[f].tags /\ (run.mode = "remove" => p.there = page[f].there)
    BY <2>1 DEF Idle
  <2>5. page' = [page EXCEPT ![f] = p]
    BY <2>1
  <2> HIDE DEF p
  <2>6. Healthy(p, policy[f])
    BY <1>0, <2>4 DEF Healthy
  <2>7. p.blocks # {} => ignored
    BY <2>4 DEF IInv, IgnoredFirst
  <2>8. run.mode = "remove" =>
          (f \in Resolved(run.config) \ run.todo /\ p.there => Clean(p, policy[f]))
    BY <2>4 DEF IInv, Clean
  <2> QED
    BY <1>0, <2>2, <2>3, <2>5, <2>6, <2>7, <2>8, PageStep
<1> QED
  BY <1>1, <1>2, <1>3

(* The user writes another policy, where none of the old one is kept. *)
LEMMA PolicyStep ==
  ASSUME IInv, NEW f \in Files, NEW t \in Tags, EditPolicy(f, t)
  PROVE  IInv'
<1>1. /\ page[f] \in Page /\ Healthy(page[f], policy[f]) /\ page[f].blocks = {} /\ ~page[f].tags[t].marked
      /\ UNCHANGED <<config, server, run, ignored, layout, root>>
      /\ page[f].tags \in [Tags -> Tag] /\ policy[f] \in [Tags -> Policies]
  BY DEF IInv, TypeOK, EditPolicy, Page
<1>2. PICK value \in Policies, content \in BOOLEAN :
        /\ page' = [page EXCEPT ![f].tags[t] = [page[f].tags[t] EXCEPT !.value = value, !.content = content]]
        /\ policy' = [policy EXCEPT ![f][t] = value]
  BY DEF EditPolicy
<1> DEFINE new == [page[f].tags[t] EXCEPT !.value = value, !.content = content]
           p == [page[f] EXCEPT !.tags = [page[f].tags EXCEPT ![t] = new]]
           pol == [policy[f] EXCEPT ![t] = value]
<1>3. new \in Tag /\ new.value = value /\ ~new.marked
  BY <1>1, <1>2 DEF Tag
<1>4. page' = [page EXCEPT ![f] = p] /\ policy' = [policy EXCEPT ![f] = pol]
  BY <1>1, <1>2 DEF IInv, TypeOK, Page
<1> HIDE DEF new
<1>5. p \in Page /\ p.blocks = {} /\ p.tags = [page[f].tags EXCEPT ![t] = new] /\ p.there = page[f].there
  BY <1>1, <1>3 DEF Page
<1>6. \A u \in Tags : p.tags[u] = (IF u = t THEN new ELSE page[f].tags[u]) /\ pol[u] = (IF u = t THEN value ELSE policy[f][u])
  BY <1>1, <1>5
<1>7. pol \in [Tags -> Policies]
  BY <1>1, <1>2
<1> HIDE DEF p, pol
<1>8. Healthy(p, pol)
  BY <1>1, <1>3, <1>5, <1>6 DEF Healthy
<1>9. Clean(page[f], policy[f]) => Clean(p, pol)
  BY <1>3, <1>5, <1>6 DEF Clean
<1>10. \A g \in Files : page'[g] = (IF g = f THEN p ELSE page[g]) /\ policy'[g] = (IF g = f THEN pol ELSE policy[g])
  BY <1>4 DEF IInv, TypeOK
<1>11. TypeOK'
  BY <1>1, <1>4, <1>5, <1>7 DEF IInv, TypeOK
<1>12. \A g \in Files : Healthy(page'[g], policy'[g])
  BY <1>8, <1>10 DEF IInv
<1>13. ASSUME run'.mode = "remove", NEW g \in Resolved(run'.config) \ run'.todo, page'[g].there
       PROVE  Clean(page'[g], policy'[g])
  <2>1. g \in Files /\ run' = run
    <3>1. run.config \in Config
      BY <1>1, <1>13 DEF Runs, TypeOK, IInv
    <3> QED
      BY <1>1, <1>13, <3>1 DEF Resolved, Config
  <2>2. page[g].there => Clean(page[g], policy[g])
    BY <1>13, <2>1 DEF IInv
  <2> QED
    BY <1>5, <1>9, <1>10, <1>13, <2>1, <2>2
<1>14. IgnoredFirst' /\ LayoutResolves' /\ (run'.mode \in {"insert", "apply"} => ignored')
  BY <1>1, <1>5, <1>10 DEF IInv, IgnoredFirst, LayoutResolves
<1> QED
  BY <1>11, <1>12, <1>13, <1>14 DEF IInv

-----------------------------------------------------------------------------
(* The injector keeps a project whole: a page never loads two live scripts, *)
(* the policy the user wrote is kept and gives the script leave to run, a   *)
(* removal leaves nothing behind, git ignores what is written before it is  *)
(* there, and a patched layout never imports a missing component, for any   *)
(* files, ports, policies and configurations and wherever a run is killed   *)
(* (live-inject.mjs, sveltekit-adapter.mjs).                                *)
THEOREM InjectSound ==
  ASSUME SourcesKnown
  PROVE  Spec => [](OneScript /\ PolicyKept /\ ScriptAllowed /\ RemovalCleans /\ IgnoredFirst /\ LayoutResolves)
<1>1. IInv /\ [Next]_vars => IInv'
  <2> SUFFICES ASSUME IInv, [Next]_vars PROVE IInv'
    OBVIOUS
  <2>1. CASE \/ ServerStarts \/ ServerDies \/ EditConfig \/ StartInsert \/ StartRemove \/ RunEnds
             \/ EnsureRoot \/ PatchLayout \/ UnpatchLayout \/ RemoveRoot
    <3>1. UNCHANGED <<page, policy>>
      BY <2>1 DEF ServerStarts, ServerDies, EditConfig, StartInsert, StartRemove, RunEnds,
                  EnsureRoot, PatchLayout, UnpatchLayout, RemoveRoot
    <3> QED
      BY <2>1, <3>1, NoPageStep
  <2>2. CASE \E f \in Files : InsertFile(f) \/ RemoveFile(f) \/ EditPage(f)
    BY <2>2, FileStep
  <2>3. CASE \E f \in Files, t \in Tags : EditPolicy(f, t)
    BY <2>3, PolicyStep
  <2>4. CASE UNCHANGED vars
    BY <2>4 DEF vars, IInv, TypeOK, IgnoredFirst, LayoutResolves
  <2> QED
    BY <2>1, <2>2, <2>3, <2>4 DEF Next, Injector, User
<1>2. IInv => OneScript /\ PolicyKept /\ ScriptAllowed /\ RemovalCleans /\ IgnoredFirst /\ LayoutResolves
  <2> SUFFICES ASSUME IInv
               PROVE  OneScript /\ PolicyKept /\ ScriptAllowed /\ RemovalCleans
    BY DEF IInv
  <2>1. \A f \in Files : Healthy(page[f], policy[f])
    BY DEF IInv
  <2>2. OneScript
    BY <2>1 DEF OneScript, Healthy
  <2>3. PolicyKept
    BY <2>1 DEF PolicyKept, Healthy
  <2>4. ScriptAllowed
    BY <2>1 DEF ScriptAllowed, Healthy
  <2>5. RemovalCleans
    BY DEF RemovalCleans, IInv, Clean
  <2> QED
    BY <2>2, <2>3, <2>4, <2>5
<1> QED
  BY <1>1, <1>2, InitHolds, PTL DEF Spec

(***************************************************************************)
(* The two copies of the helpers.  The tests exercise live/insert-ui.mjs   *)
(* with rectangles that may lack their far edges; the page runs its own    *)
(* copies on DOM rectangles.                                               *)
(***************************************************************************)

\* What a test passes for the DOM rectangle r: with its edges or without them.
Given(r, edges) ==
  [top |-> r.top, left |-> r.left, width |-> r.width, height |-> r.height,
   right |-> r.right, bottom |-> r.bottom, edges |-> edges]

\* A far edge is computed as the DOM would give it.
LEMMA FarEdges ==
  ASSUME NEW r \in Rects, NEW e \in BOOLEAN
  PROVE  Ui!RightOf(Given(r, e)) = r.right /\ Ui!BottomOf(Given(r, e)) = r.bottom
  BY DEF Rects, Given, Ui!RightOf, Ui!BottomOf

\* The page's gap tests and lines (hitSiblingInsertGap, insertLineCoords) are
\* those of the tested module, on rectangles with and without their far edges.
THEOREM CopiesAgree ==
  ASSUME NEW a \in Rects, NEW b \in Rects, NEW e \in BOOLEAN, NEW x \in Int, NEW y \in Int,
         NEW position \in Positions, NEW axis \in Axes
  PROVE  /\ RowGapHit(x, y, a, b) <=> Ui!RowGapHit(x, y, Given(a, e), Given(b, e), Slop)
         /\ ColumnGapHit(x, y, a, b) <=> Ui!ColumnGapHit(x, y, Given(a, e), Given(b, e), Slop)
         /\ RowGapLine(a, b) = Ui!RowGapLine(Given(a, e), Given(b, e))
         /\ ColumnGapLine(a, b) = Ui!ColumnGapLine(Given(a, e), Given(b, e))
         /\ InsertLineCoords(a, position, axis) = Ui!InsertLineCoords(Given(a, e), position, axis)
<1>1. /\ Ui!RightOf(Given(a, e)) = a.right /\ Ui!BottomOf(Given(a, e)) = a.bottom
      /\ Ui!RightOf(Given(b, e)) = b.right /\ Ui!BottomOf(Given(b, e)) = b.bottom
  BY FarEdges
<1>2. /\ Given(a, e).left = a.left /\ Given(a, e).top = a.top
      /\ Given(a, e).width = a.width /\ Given(a, e).height = a.height
      /\ Given(b, e).left = b.left /\ Given(b, e).top = b.top
      /\ Given(b, e).width = b.width /\ Given(b, e).height = b.height
  BY DEF Given
<1>3. \A i, j : Ui!Larger(i, j) = Max2(i, j) /\ Ui!Smaller(i, j) = Min2(i, j)
  BY DEF Ui!Larger, Ui!Smaller, Max2, Min2
<1>4. HorizontalOverlap(a, b) = Ui!HorizontalOverlap(Given(a, e), Given(b, e))
  BY <1>1, <1>2, <1>3 DEF HorizontalOverlap, Ui!HorizontalOverlap
<1>5. RowGapHit(x, y, a, b) <=> Ui!RowGapHit(x, y, Given(a, e), Given(b, e), Slop)
  BY <1>1, <1>2, <1>3 DEF RowGapHit, Ui!RowGapHit
<1>6. ColumnGapHit(x, y, a, b) <=> Ui!ColumnGapHit(x, y, Given(a, e), Given(b, e), Slop)
  BY <1>1, <1>2, <1>3, <1>4 DEF ColumnGapHit, Ui!ColumnGapHit
<1>7. RowGapLine(a, b) = Ui!RowGapLine(Given(a, e), Given(b, e))
  BY <1>1, <1>2, <1>3 DEF RowGapLine, Ui!RowGapLine
<1>8. ColumnGapLine(a, b) = Ui!ColumnGapLine(Given(a, e), Given(b, e))
  BY <1>1, <1>2, <1>3, <1>4 DEF ColumnGapLine, Ui!ColumnGapLine
<1>9. InsertLineCoords(a, position, axis) = Ui!InsertLineCoords(Given(a, e), position, axis)
  BY <1>1, <1>2 DEF InsertLineCoords, Ui!InsertLineCoords
<1> QED
  BY <1>5, <1>6, <1>7, <1>8, <1>9

\* The line drawn for a gap lies strictly between the two siblings and has no
\* negative length (hitSiblingInsertGap).
THEOREM LineIsInTheGap ==
  ASSUME NEW a \in Rects, NEW b \in Rects, NEW x \in Int, NEW y \in Int
  PROVE  /\ RowGapHit(x, y, a, b) =>
              /\ 2 * a.right < RowGapLine(a, b).across
              /\ RowGapLine(a, b).across < 2 * b.left
              /\ RowGapLine(a, b).length >= 0
         /\ ColumnGapHit(x, y, a, b) =>
              /\ 2 * a.bottom < ColumnGapLine(a, b).across
              /\ ColumnGapLine(a, b).across < 2 * b.top
              /\ ColumnGapLine(a, b).length >= 0
<1>1. /\ a.right \in Int /\ a.bottom \in Int /\ a.left \in Int /\ a.top \in Int
      /\ a.width \in Nat /\ a.height \in Nat
      /\ b.right \in Int /\ b.bottom \in Int /\ b.left \in Int /\ b.top \in Int
      /\ b.width \in Nat /\ b.height \in Nat
  BY DEF Rects
<1>2. ASSUME RowGapHit(x, y, a, b)
      PROVE  /\ 2 * a.right < RowGapLine(a, b).across
             /\ RowGapLine(a, b).across < 2 * b.left
             /\ RowGapLine(a, b).length >= 0
  BY <1>1, <1>2 DEF RowGapHit, RowGapLine, Max2, Min2
<1>3. ASSUME ColumnGapHit(x, y, a, b)
      PROVE  /\ 2 * a.bottom < ColumnGapLine(a, b).across
             /\ ColumnGapLine(a, b).across < 2 * b.top
             /\ ColumnGapLine(a, b).length >= 0
  BY <1>1, <1>3 DEF ColumnGapHit, ColumnGapLine, HorizontalOverlap, Max2, Min2
<1> QED
  BY <1>2, <1>3

(***************************************************************************)
(* The placeholder.                                                        *)
(***************************************************************************)

\* A drag works on an explicit width, and outside insert mode there is no drag.
DragIsExplicit ==
  drag.edge # "none" => mode = "configuring" /\ box.there /\ box.kind = "explicit"

InsertInv == InsertTypeOK /\ BoxIsUsable /\ OppositeEdgeStays /\ ComesBackAsItWas /\ DragIsExplicit

USE DEF MinWidth, MinHeight, DefaultHeight,
        Ui!PLACEHOLDER_MIN_WIDTH, Ui!PLACEHOLDER_MIN_HEIGHT, Ui!PLACEHOLDER_DEFAULT_HEIGHT

\* The clamp keeps a size within the minimum, whatever the parent's width.
LEMMA Clamped ==
  ASSUME NEW w \in Int, NEW h \in Int, NEW p \in Nat
  PROVE  LET c == ClampPlaceholderSize(w, h, p)
         IN c.width \in Nat /\ c.width >= MinWidth /\ c.height \in Nat /\ c.height >= MinHeight
  BY DEF ClampPlaceholderSize, Max2, Min2

\* What dragging an edge gives: a usable size whose opposite edge did not move.
LEMMA Resized ==
  ASSUME NEW start \in Sizes, NEW edge \in Edges, NEW dx \in Int, NEW dy \in Int, NEW p \in Nat
  PROVE  LET r == ResizePlaceholderFromEdge(start, edge, dx, dy, p)
         IN /\ r \in Sizes
            /\ r.width >= MinWidth /\ r.height >= MinHeight
            /\ IF edge = "w" THEN r.ml + r.width = start.ml + start.width ELSE r.ml = start.ml
            /\ IF edge = "n" THEN r.mt + r.height = start.mt + start.height ELSE r.mt = start.mt
<1> DEFINE w == CASE edge = "e" -> start.width + dx [] edge = "w" -> start.width - dx [] OTHER -> start.width
           h == CASE edge = "s" -> start.height + dy [] edge = "n" -> start.height - dy [] OTHER -> start.height
           c == ClampPlaceholderSize(w, h, p)
<1>1. start.width \in Nat /\ start.height \in Nat /\ start.ml \in Int /\ start.mt \in Int
  BY DEF Sizes
<1>2. w \in Int /\ h \in Int
  BY <1>1 DEF Edges
<1>3. c.width \in Nat /\ c.width >= MinWidth /\ c.height \in Nat /\ c.height >= MinHeight
  <2> HIDE DEF w, h
  <2> QED BY <1>2, Clamped
<1>4. ResizePlaceholderFromEdge(start, edge, dx, dy, p) =
        [width |-> c.width, height |-> c.height,
         ml |-> IF edge = "w" THEN start.ml + start.width - c.width ELSE start.ml,
         mt |-> IF edge = "n" THEN start.mt + start.height - c.height ELSE start.mt]
  BY DEF ResizePlaceholderFromEdge
<1> HIDE DEF c
<1> QED
  BY <1>1, <1>3, <1>4 DEF Sizes

\* A new placeholder is a box of usable size.
LEMMA Placed ==
  ASSUME NEW axis \in Axes, NEW display \in Displays, NEW p \in Nat, NEW laidOut \in Nat
  PROVE  LET b == Placeholder(PlaceholderSizing(axis, display, p), laidOut)
         IN /\ b \in Boxes /\ b.there /\ b.attached
            /\ b.size.height >= MinHeight
            /\ b.kind = "explicit" => b.size.width >= MinWidth
<1> DEFINE s == PlaceholderSizing(axis, display, p)
<1>1. /\ s.kind \in Kinds /\ s.width \in Nat
      /\ s.kind = "explicit" => s.width >= MinWidth
  BY DEF PlaceholderSizing, Kinds, Max2
<1> HIDE DEF s
<1>2. Placeholder(s, laidOut) \in Boxes
  BY <1>1 DEF Placeholder, Boxes, Sizes, Kinds
<1> QED
  BY <1>1, <1>2 DEF Placeholder, s

\* Making the width explicit keeps the box usable and all but its width.
LEMMA MadeExplicit ==
  ASSUME NEW b \in Boxes
  PROVE  /\ Materialized(b) \in Boxes
         /\ Materialized(b).kind = "explicit"
         /\ Materialized(b).there = b.there /\ Materialized(b).attached = b.attached
         /\ Materialized(b).size.height = b.size.height
         /\ (b.kind = "explicit" => b.size.width >= MinWidth) => Materialized(b).size.width >= MinWidth
<1>1. CASE b.kind = "explicit"
  BY <1>1 DEF Materialized
<1>2. CASE b.kind # "explicit"
  <2> DEFINE w == Max2(MinWidth, IF b.attached THEN b.size.width ELSE 0)
             s == [b.size EXCEPT !.width = w]
  <2>1. b.size \in Sizes /\ b.attached \in BOOLEAN /\ b.there \in BOOLEAN
    BY DEF Boxes
  <2>2. w \in Nat /\ w >= MinWidth
    BY <2>1 DEF Max2, Sizes
  <2>3. s \in Sizes /\ s.width = w /\ s.height = b.size.height
    <3> HIDE DEF w
    <3> QED BY <2>1, <2>2 DEF Sizes
  <2>4. Materialized(b) = [b EXCEPT !.kind = "explicit", !.size = s]
    BY <1>2 DEF Materialized
  <2> HIDE DEF s
  <2>5. /\ Materialized(b) \in Boxes
        /\ Materialized(b).kind = "explicit" /\ Materialized(b).size = s
        /\ Materialized(b).there = b.there /\ Materialized(b).attached = b.attached
    BY <2>3, <2>4 DEF Boxes, Kinds
  <2> QED
    BY <2>2, <2>3, <2>5
<1> QED
  BY <1>1, <1>2

LEMMA InsertStarts ==
  ASSUME Els # {}, InsertInit
  PROVE  InsertInv
<1>1. AnEl \in Els
  BY DEF AnEl
<1> QED
  BY <1>1 DEF InsertInit, InsertInv, InsertTypeOK, BoxIsUsable, OppositeEdgeStays, ComesBackAsItWas, DragIsExplicit,
     NoHover, NoAnchor, NoBox, NoDrag, NoSnap, NoLine, NoSize, Boxes, Drags, Snaps, Lines, Sizes,
     Positions, Axes, Edges, Kinds

LEMMA InsertStep ==
  ASSUME Els # {}, InsertInv, [InsertNext]_insertVars
  PROVE  InsertInv'
<1> USE DEF InsertInv
<1>0. AnEl \in Els
  BY DEF AnEl
<1>a. /\ NoBox \in Boxes /\ NoDrag \in Drags /\ NoSnap \in Snaps
      /\ NoHover \in [there : BOOLEAN, anchor : Els, position : Positions, axis : Axes, line : Lines]
      /\ NoAnchor \in [there : BOOLEAN, el : Els, position : Positions, axis : Axes]
      /\ ~NoBox.there /\ ~NoBox.attached /\ NoDrag.edge = "none"
  BY <1>0 DEF NoHover, NoAnchor, NoBox, NoDrag, NoSnap, NoLine, NoSize, Boxes, Drags, Snaps, Lines, Sizes,
     Positions, Axes, Edges, Kinds
<1>1. ASSUME NEW x \in Int, NEW y \in Int, NEW rect \in [Els -> Rects], NEW order \in Seq(Els),
             NEW target \in Els, NEW style \in Styles, MoveOver(x, y, rect, order, target, style)
      PROVE  InsertInv'
  <2>1. hover' \in [there : BOOLEAN, anchor : Els, position : Positions, axis : Axes, line : Lines]
    BY <1>1 DEF MoveOver, ShowInsertLine, InsertTypeOK
  <2> QED
    BY <1>1, <2>1 DEF MoveOver, InsertTypeOK, BoxIsUsable, OppositeEdgeStays, ComesBackAsItWas, DragIsExplicit
<1>2. CASE MoveAway
  BY <1>2, <1>a DEF MoveAway, InsertTypeOK, BoxIsUsable, OppositeEdgeStays, ComesBackAsItWas, DragIsExplicit
<1>3. CASE EndDrag
  BY <1>3, <1>a DEF EndDrag, InsertTypeOK, BoxIsUsable, OppositeEdgeStays, ComesBackAsItWas, DragIsExplicit
<1>4. CASE HotReload
  <2>1. box' \in Boxes /\ box'.size = box.size /\ box'.kind = box.kind /\ box'.there = box.there /\ ~box'.attached
    BY <1>4 DEF HotReload, InsertTypeOK, Boxes
  <2> QED
    BY <1>4, <2>1 DEF HotReload, InsertTypeOK, BoxIsUsable, OppositeEdgeStays, ComesBackAsItWas, DragIsExplicit
<1>5. CASE Create
  <2>1. box \in Boxes /\ box.size \in Sizes /\ box.size.height >= MinHeight
    BY <1>5 DEF Create, InsertTypeOK, Boxes, BoxIsUsable
  <2>2. snap'.size \in Sizes /\ (box.attached => snap'.size = box.size)
    <3> DEFINE size == Measured(box)
    <3>1. size \in Sizes /\ (box.attached => size = box.size)
      BY <2>1 DEF Measured, Sizes
    <3>2. snap'.size = [size EXCEPT !.height = IF size.height = 0 THEN DefaultHeight ELSE size.height]
      BY <1>5 DEF Create, Snapshot
    <3> HIDE DEF size
    <3>3. snap'.size \in Sizes
      BY <3>1, <3>2 DEF Sizes
    <3>4. size.height # 0 => snap'.size = size
      BY <3>1, <3>2 DEF Sizes
    <3> QED
      BY <2>1, <3>1, <3>3, <3>4
  <2>3. snap' \in Snaps
    BY <1>5, <2>2 DEF Create, Snapshot, InsertTypeOK, Snaps
  <2> QED
    BY <1>5, <1>a, <2>2, <2>3 DEF Create, InsertTypeOK, BoxIsUsable, OppositeEdgeStays, ComesBackAsItWas, DragIsExplicit
<1>6. CASE ReloadPage
  BY <1>6, <1>a DEF ReloadPage, InsertTypeOK, BoxIsUsable, OppositeEdgeStays, ComesBackAsItWas, DragIsExplicit
<1>7. CASE Finalize
  BY <1>7, <1>a DEF Finalize, InsertTypeOK, BoxIsUsable, OppositeEdgeStays, ComesBackAsItWas, DragIsExplicit
<1>8. ASSUME NEW display \in Displays, NEW w \in Nat, NEW laidOut \in Nat, Place(display, w, laidOut)
      PROVE  InsertInv'
  <2>1. hover.axis \in Axes
    BY DEF InsertTypeOK
  <2>2. /\ box' \in Boxes /\ box'.there /\ box'.attached
        /\ box'.size.height >= MinHeight
        /\ box'.kind = "explicit" => box'.size.width >= MinWidth
    BY <1>8, <2>1, Placed DEF Place
  <2>3. anchor' \in [there : BOOLEAN, el : Els, position : Positions, axis : Axes]
    BY <1>8 DEF Place, InsertTypeOK
  <2> QED
    BY <1>8, <1>a, <2>2, <2>3 DEF Place, InsertTypeOK, BoxIsUsable, OppositeEdgeStays, ComesBackAsItWas, DragIsExplicit
<1>9. ASSUME NEW display \in Displays, NEW w \in Nat, NEW laidOut \in Nat, NEW el \in Els,
             EnsureInsertPlaceholder(el, display, w, laidOut)
      PROVE  InsertInv'
  <2> DEFINE b == Placeholder(PlaceholderSizing(snap.axis, display, w), laidOut)
  <2>1. snap.axis \in Axes /\ snap.size \in Sizes /\ snap.position \in Positions
    BY DEF InsertTypeOK, Snaps
  <2>2. b \in Boxes
    BY <2>1, Placed
  <2>3. box' = [Materialized(b) EXCEPT !.size = snap.size]
    BY <1>9 DEF EnsureInsertPlaceholder, ApplyPlaceholderDimensions
  <2> HIDE DEF b
  <2>4. Materialized(b) \in Boxes
    BY <2>2, MadeExplicit
  <2>5. box' \in Boxes /\ box'.size = snap.size
    BY <2>1, <2>3, <2>4 DEF Boxes
  <2>6. anchor' \in [there : BOOLEAN, el : Els, position : Positions, axis : Axes]
    BY <1>9, <2>1 DEF EnsureInsertPlaceholder
  <2> QED
    BY <1>9, <1>a, <2>5, <2>6
       DEF EnsureInsertPlaceholder, InsertTypeOK, BoxIsUsable, OppositeEdgeStays, ComesBackAsItWas, DragIsExplicit
<1>10. ASSUME NEW edge \in Edges, NEW w \in Nat, StartResize(edge, w)
       PROVE  InsertInv'
  <2>1. box \in Boxes /\ mode = "configuring" /\ box.there
    BY <1>10 DEF StartResize, InsertTypeOK
  <2>2. box.size.height >= MinHeight /\ (box.kind = "explicit" => box.size.width >= MinWidth)
    BY <2>1 DEF BoxIsUsable
  <2>3. /\ box' = Materialized(box) /\ box' \in Boxes /\ box'.kind = "explicit"
        /\ box'.there /\ box'.attached = box.attached
        /\ box'.size.height >= MinHeight /\ box'.size.width >= MinWidth
    BY <1>10, <2>1, <2>2, MadeExplicit DEF StartResize
  <2> DEFINE start == Measured(box')
  <2>4. start \in Sizes /\ (start.height # 0 => start = box'.size)
    BY <2>3 DEF Boxes, Sizes, Measured
  <2>5. drag' = [edge |-> edge, start |-> start, parent |-> IF w = 0 THEN MinWidth ELSE w]
    BY <1>10, <2>3 DEF StartResize
  <2>6. drag' \in Drags /\ drag'.edge = edge /\ drag'.start = start
    <3> HIDE DEF start
    <3> QED BY <2>4, <2>5 DEF Drags
  <2> HIDE DEF start
  <2> QED
    BY <1>10, <2>1, <2>3, <2>4, <2>6
       DEF StartResize, InsertTypeOK, BoxIsUsable, OppositeEdgeStays, ComesBackAsItWas, DragIsExplicit
<1>11. ASSUME NEW dx \in Int, NEW dy \in Int, DragTo(dx, dy)
       PROVE  InsertInv'
  <2> DEFINE r == ResizePlaceholderFromEdge(drag.start, drag.edge, dx, dy, drag.parent)
  <2>1. drag.start \in Sizes /\ drag.edge \in Edges /\ drag.parent \in Nat /\ box \in Boxes
    BY <1>11 DEF DragTo, InsertTypeOK, Drags
  <2>2. /\ r \in Sizes
        /\ r.width >= MinWidth /\ r.height >= MinHeight
        /\ IF drag.edge = "w" THEN r.ml + r.width = drag.start.ml + drag.start.width ELSE r.ml = drag.start.ml
        /\ IF drag.edge = "n" THEN r.mt + r.height = drag.start.mt + drag.start.height ELSE r.mt = drag.start.mt
    BY <2>1, Resized
  <2>3. box' = [Materialized(box) EXCEPT !.size = r]
    BY <1>11 DEF DragTo, ApplyPlaceholderDimensions
  <2> HIDE DEF r
  <2>4. Materialized(box) \in Boxes /\ Materialized(box).kind = "explicit" /\ Materialized(box).there = box.there
    BY <2>1, MadeExplicit
  <2>5. box' \in Boxes /\ box'.size = r /\ box'.kind = "explicit" /\ box'.there = box.there
    BY <2>2, <2>3, <2>4 DEF Boxes
  <2> QED
    BY <1>11, <2>2, <2>5
       DEF DragTo, InsertTypeOK, BoxIsUsable, OppositeEdgeStays, ComesBackAsItWas, DragIsExplicit
<1>12. ASSUME NEW w \in Nat, Relayout(w)
       PROVE  InsertInv'
  <2>1. /\ box' \in Boxes /\ box'.kind = box.kind /\ box'.kind # "explicit"
        /\ box'.size.height = box.size.height /\ box'.there = box.there
    BY <1>12 DEF Relayout, InsertTypeOK, Boxes, Sizes
  <2>2. drag.edge = "none"
    BY <1>12 DEF Relayout, DragIsExplicit
  <2> QED
    BY <1>12, <2>1, <2>2
       DEF Relayout, InsertTypeOK, BoxIsUsable, OppositeEdgeStays, ComesBackAsItWas, DragIsExplicit
<1>13. CASE UNCHANGED insertVars
  BY <1>13 DEF insertVars, InsertTypeOK, BoxIsUsable, OppositeEdgeStays, ComesBackAsItWas, DragIsExplicit
<1> HIDE DEF InsertInv
<1> QED
  BY <1>1, <1>2, <1>3, <1>4, <1>5, <1>6, <1>7, <1>8, <1>9, <1>10, <1>11, <1>12, <1>13 DEF InsertNext

\* The placeholder keeps a usable size, a dragged edge leaves the opposite one
\* in place, and a placeholder taken out of the document comes back as it was
\* when Create was clicked.
THEOREM InsertSound ==
  ASSUME Els # {}
  PROVE  InsertSpec => [](InsertTypeOK /\ BoxIsUsable /\ OppositeEdgeStays /\ ComesBackAsItWas)
<1>1. InsertInit => InsertInv
  BY InsertStarts
<1>2. InsertInv /\ [InsertNext]_insertVars => InsertInv'
  BY InsertStep
<1>3. InsertInv => InsertTypeOK /\ BoxIsUsable /\ OppositeEdgeStays /\ ComesBackAsItWas
  BY DEF InsertInv
<1> QED
  BY <1>1, <1>2, <1>3, PTL DEF InsertSpec

-----------------------------------------------------------------------------
(* What the route files, the components and the answers of a session are *)
IsLines(s) == Len(s) \in Nat /\ s = [i \in 1 .. Len(s) |-> s[i]]
Parsed(c) == IsLines(c.lead) /\ IsLines(c.markup)
LinesGiven == (\A s \in Saved : IsLines(s)) /\ (\A c \in Written : c # Gone /\ Parsed(c))

\* a manifest, and the lines it was made from
Described(m) ==
  /\ m # Gone /\ m.file \in Routes /\ m.insert \in BOOLEAN
  /\ m.first \in Nat /\ m.last \in Nat /\ 1 <= m.first /\ m.first <= m.last
  /\ m.insertLine \in {m.first, m.last + 1}
  /\ IsLines(m.original) /\ Len(m.original) = m.last - m.first + 1
Entries == [id : Ids, variant : Counts, values : Chosen]

ScriptTyped ==
  /\ script.step \in {"none", "scaffold", "stubs", "write", "remove", "deferred"}
  /\ script.step # "none" => script # Quiet
  /\ script.step = "scaffold" =>
       script.id \in Ids /\ IsLines(script.read) /\ Described(script.m) /\ Picked(script.m, script.read)
  /\ script.step = "stubs" =>
       /\ script = [step |-> "stubs", id |-> script.id, count |-> script.count, next |-> script.next]
       /\ script.id \in Ids /\ script.next \in Nat
  /\ script.step \in {"write", "remove"} =>
       /\ script = [step |-> script.step, id |-> script.id, entry |-> script.entry, by |-> script.by, rest |-> script.rest,
                    kept |-> script.kept, m |-> script.m, read |-> script.read, markup |-> script.markup, css |-> script.css]
       /\ script.id \in Ids
       /\ script.by \in {"agent", "server"}
       /\ script.by = "server" => script.rest \in Seq(Entries) /\ script.kept \in Seq(Entries) /\ script.entry \in Entries
  /\ script.step = "write" =>
       /\ IsLines(script.read) /\ IsLines(script.markup) /\ Described(script.m)
       /\ At(script.m) + Drops(script.m) <= Len(script.read) + 1
  /\ script.step = "deferred" =>
       /\ script = [step |-> "deferred", rest |-> script.rest, kept |-> script.kept]
       /\ script.rest \in Seq(Entries) /\ script.kept \in Seq(Entries)

SvelteTyped ==
  /\ source = [f \in Routes |-> source[f]] /\ \A f \in Routes : IsLines(source[f])
  /\ manifest = [id \in Ids |-> manifest[id]] /\ \A id \in Ids : manifest[id] # Gone => Described(manifest[id])
  /\ component = [id \in Ids |-> component[id]]
  /\ \A id \in Ids : component[id] = [n \in Counts |-> component[id][n]]
  /\ \A id \in Ids : \A n \in Counts : component[id][n] # Gone => Parsed(component[id][n])
  /\ asked \in [Ids -> Answers \cup {Nothing}]
  /\ deferred \in Seq(Entries)
  /\ moved \in [Ids -> BOOLEAN] /\ inlined \in [Ids -> BOOLEAN] /\ spared \in [Ids -> BOOLEAN]
  /\ ScriptTyped

\* a session whose variant is in the source stays only if its removal was missed or is next
InlinedIsSpared ==
  /\ \A id \in Ids : manifest[id] # Gone /\ inlined[id] =>
       spared[id] \/ (script.step = "remove" /\ script.id = id)
  /\ script.step = "write" => (inlined[script.id] => spared[script.id])

SvelteInv == SvelteTyped /\ RangesHold /\ InlinedIsSpared

-----------------------------------------------------------------------------
(* A function over 1 .. n has n lines. *)
LEMMA CountLines ==
  ASSUME NEW n \in Nat, NEW s, s = [i \in 1 .. n |-> s[i]]
  PROVE  IsLines(s) /\ Len(s) = n
<1> DEFINE S == {s[i] : i \in 1 .. n}
<1>1. s \in [1 .. n -> S]
  OBVIOUS
<1>2. s \in Seq(S)
  BY <1>1
<1>3. Len(s) \in Nat /\ DOMAIN s = 1 .. Len(s)
  BY <1>2
<1>4. DOMAIN s = 1 .. n
  BY <1>1
<1> QED
  BY <1>3, <1>4 DEF IsLines

LEMMA SeqIsLines ==
  ASSUME NEW S, NEW s \in Seq(S)
  PROVE  IsLines(s)
<1>1. Len(s) \in Nat /\ s \in [1 .. Len(s) -> S]
  OBVIOUS
<1> QED
  BY <1>1 DEF IsLines

LEMMA LinesJoin ==
  ASSUME NEW s, NEW t, IsLines(s), IsLines(t)
  PROVE  IsLines(s \o t)
<1> DEFINE S == {s[i] : i \in 1 .. Len(s)} \cup {t[i] : i \in 1 .. Len(t)}
<1>1. s \in [1 .. Len(s) -> S] /\ t \in [1 .. Len(t) -> S]
  BY DEF IsLines
<1>2. s \in Seq(S) /\ t \in Seq(S)
  BY <1>1 DEF IsLines
<1> HIDE DEF S
<1>3. s \o t \in Seq(S)
  BY <1>2
<1> QED
  BY <1>3, SeqIsLines

(* Where lines are put in, what stands above them stays. *)
LEMMA SpliceFact ==
  ASSUME NEW s, IsLines(s), NEW new, IsLines(new), NEW at \in Nat, NEW drop \in Nat, 1 <= at, at + drop <= Len(s) + 1
  PROVE  /\ IsLines(Splice(s, at, drop, new))
         /\ Len(Splice(s, at, drop, new)) = Len(s) - drop + Len(new)
         /\ \A i \in 1 .. at - 1 : i \in DOMAIN s /\ i \in DOMAIN Splice(s, at, drop, new) /\ Splice(s, at, drop, new)[i] = s[i]
<1> DEFINE n == Len(s) - drop + Len(new)
           t == Splice(s, at, drop, new)
<1>1. n \in Nat
  BY DEF IsLines
<1>2. t = [i \in 1 .. n |-> t[i]]
  BY DEF Splice
<1>3. IsLines(t) /\ Len(t) = n
  <2> HIDE DEF n, t
  <2> QED BY <1>1, <1>2, CountLines
<1>4. \A i \in 1 .. at - 1 : i \in DOMAIN s /\ i \in 1 .. n /\ t[i] = s[i]
  BY <1>1 DEF IsLines, Splice
<1> QED
  BY <1>2, <1>3, <1>4

(* The largest of some line numbers *)
LEMMA LastOne ==
  ASSUME NEW n \in Nat, NEW E, E \subseteq 1 .. n, E # {}
  PROVE  \E i \in E : \A j \in E : j <= i
<1> DEFINE R == OpToRel(<, Nat)
           T == {n - i : i \in E}
<1>1. IsWellFoundedOn(R, Nat)
  BY NatLessThanWellFounded
<1> HIDE DEF R
<1>2. \A i \in E : i \in Nat /\ n - i \in Nat
  OBVIOUS
<1>3. T \subseteq Nat /\ T # {}
  BY <1>2
<1> HIDE DEF T
<1>4. PICK x \in T : \A y \in T : ~(<<y, x>> \in R)
  BY <1>1, <1>3, WFMin
<1>5. \A x1, y \in Nat : ~(<<y, x1>> \in R) => x1 <= y
  BY DEF R, OpToRel
<1>6. \A y \in T : x <= y
  BY <1>3, <1>4, <1>5
<1>7. PICK i \in E : x = n - i
  BY DEF T
<1>8. \A j \in E : n - i <= n - j
  BY <1>6, <1>7 DEF T
<1> QED
  BY <1>2, <1>8

LEMMA StyleCloseFact ==
  ASSUME NEW s, IsLines(s)
  PROVE  StyleClose(s) \in 0 .. Len(s)
<1> DEFINE E == {i \in DOMAIN s : s[i] = StyleEnd}
<1>1. CASE E = {}
  BY <1>1 DEF StyleClose, IsLines
<1>2. CASE E # {}
  <2>1. \E i \in E : \A j \in E : j <= i
    <3>1. E \subseteq 1 .. Len(s) /\ Len(s) \in Nat
      BY DEF IsLines
    <3> HIDE DEF E
    <3> QED BY <1>2, <3>1, LastOne
  <2>2. StyleClose(s) \in E
    BY <1>2, <2>1 DEF StyleClose
  <2> QED BY <2>2 DEF IsLines
<1> QED
  BY <1>1, <1>2

(* Inlining keeps the lines above whatever it changes. *)
LEMMA InlinedFact ==
  ASSUME NEW s, IsLines(s), NEW m, Described(m), NEW markup, IsLines(markup), NEW css,
         At(m) + Drops(m) <= Len(s) + 1
  PROVE  /\ IsLines(Inlined(s, m, markup, css))
         /\ \A last \in Nat : ~Disturbs(m, WithMarkup(s, m, markup), css, last) /\ last <= Len(s) =>
              \A i \in 1 .. last : /\ i \in DOMAIN Inlined(s, m, markup, css)
                                   /\ Inlined(s, m, markup, css)[i] = s[i]
<1> DEFINE r == Reindent(markup, IndentAt(s, At(m)))
           w == WithMarkup(s, m, markup)
           n == Inlined(s, m, markup, css)
<1>1. IsLines(r)
  <2>1. r = [i \in 1 .. Len(markup) |-> r[i]]
    BY DEF Reindent, IsLines
  <2> HIDE DEF r
  <2> QED BY <2>1, CountLines DEF IsLines
<1>2. At(m) \in Nat /\ Drops(m) \in Nat /\ 1 <= At(m)
  BY DEF At, Drops, Described
<1>3. /\ IsLines(w)
      /\ \A i \in 1 .. At(m) - 1 : i \in DOMAIN s /\ i \in DOMAIN w /\ w[i] = s[i]
  <2> HIDE DEF r
  <2> QED BY <1>1, <1>2, SpliceFact DEF WithMarkup, r
<1>4. CASE css = <<>>
  <2>1. n = w
    BY <1>4 DEF Inlined, AppendCss
  <2>2. \A last \in Nat : ~Disturbs(m, w, css, last) => last < At(m)
    BY <1>2 DEF Disturbs
  <2> HIDE DEF w, n
  <2> QED BY <1>2, <1>3, <2>1, <2>2 DEF w, n
<1>5. CASE css # <<>> /\ StyleClose(w) = 0
  <2>1. n = Splice(w, Len(w) + 1, 0, <<StyleTag, Rules(css), StyleEnd>>)
    BY <1>5 DEF Inlined, AppendCss
  <2>2. IsLines(<<StyleTag, Rules(css), StyleEnd>>)
    BY DEF IsLines
  <2>3. /\ IsLines(n)
        /\ \A i \in 1 .. Len(w) : i \in DOMAIN w /\ i \in DOMAIN n /\ n[i] = w[i]
    <3> DEFINE at == Len(w) + 1
               new == <<StyleTag, Rules(css), StyleEnd>>
    <3>1. at \in Nat /\ at - 1 = Len(w) /\ 1 <= at /\ at + 0 <= Len(w) + 1 /\ 0 \in Nat
      BY <1>3 DEF IsLines
    <3>2. n = Splice(w, at, 0, new) /\ IsLines(new)
      BY <2>1, <2>2
    <3> HIDE DEF w, n, at, new
    <3>3. /\ IsLines(n)
          /\ \A i \in 1 .. at - 1 : i \in DOMAIN w /\ i \in DOMAIN n /\ n[i] = w[i]
      BY <1>3, <3>1, <3>2, SpliceFact
    <3> QED BY <3>1, <3>3
  <2>4. \A last \in Nat : ~Disturbs(m, w, css, last) => last < At(m)
    BY <1>2 DEF Disturbs
  <2> HIDE DEF w, n
  <2>5. \A i \in 1 .. At(m) - 1 : i \in 1 .. Len(w)
    BY <1>3 DEF IsLines
  <2> QED BY <1>2, <1>3, <2>3, <2>4, <2>5 DEF w, n
<1>6. CASE css # <<>> /\ StyleClose(w) # 0
  <2>1. n = Splice(w, StyleClose(w), 0, <<Rules(css)>>)
    BY <1>6 DEF Inlined, AppendCss
  <2>2. IsLines(<<Rules(css)>>)
    BY DEF IsLines
  <2>3. StyleClose(w) \in 1 .. Len(w) /\ Len(w) \in Nat
    <3> HIDE DEF w
    <3> QED BY <1>3, <1>6, StyleCloseFact DEF IsLines
  <2>4. /\ IsLines(n)
        /\ \A i \in 1 .. StyleClose(w) - 1 : i \in DOMAIN w /\ i \in DOMAIN n /\ n[i] = w[i]
    <3> DEFINE at == StyleClose(w)
               new == <<Rules(css)>>
    <3>1. at \in Nat /\ 1 <= at /\ at + 0 <= Len(w) + 1 /\ 0 \in Nat
      BY <2>3
    <3>2. n = Splice(w, at, 0, new) /\ IsLines(new)
      BY <2>1, <2>2
    <3> HIDE DEF w, n, at, new
    <3>3. /\ IsLines(n)
          /\ \A i \in 1 .. at - 1 : i \in DOMAIN w /\ i \in DOMAIN n /\ n[i] = w[i]
      BY <1>3, <3>1, <3>2, SpliceFact
    <3> QED BY <3>3 DEF at
  <2>5. \A last \in Nat : ~Disturbs(m, w, css, last) => last < At(m) /\ last < StyleClose(w)
    BY <1>2, <1>6, <2>3 DEF Disturbs
  <2> HIDE DEF w, n
  <2>6. ASSUME NEW last \in Nat, ~Disturbs(m, w, css, last), NEW i \in 1 .. last
        PROVE  i \in DOMAIN n /\ n[i] = s[i]
    BY <1>2, <1>3, <2>3, <2>4, <2>5, <2>6
  <2> QED BY <2>4, <2>6 DEF w, n
<1> QED
  BY <1>4, <1>5, <1>6

(* What an accept puts into the source is lines again. *)
LEMMA AcceptedFact ==
  ASSUME NEW m, NEW c, Parsed(c), Described(m)
  PROVE  IsLines(AcceptedMarkup(m, MarkupOf(c)))
<1>1. IsLines(MarkupOf(c))
  <2>1. CASE c.script
    BY <2>1 DEF MarkupOf, Parsed
  <2>2. CASE ~c.script
    <3>1. IsLines(c.lead) /\ IsLines(c.markup)
      BY DEF Parsed
    <3> QED BY <2>2, <3>1, LinesJoin DEF MarkupOf
  <2> QED BY <2>1, <2>2
<1> DEFINE l == MergeOriginalTopLevelAttrs(MarkupOf(c), m.original)
<1>2. IsLines(l)
  <2>1. \/ l = MarkupOf(c)
        \/ l = [i \in 1 .. Len(MarkupOf(c)) |-> l[i]]
    BY <1>1 DEF MergeOriginalTopLevelAttrs, IsLines
  <2> HIDE DEF l
  <2> QED BY <1>1, <2>1, CountLines DEF IsLines
<1> DEFINE r == SubstitutePropsWithExprs(l, m.contract)
<1>3. IsLines(r)
  <2> HIDE DEF l
  <2>1. r = [i \in 1 .. Len(l) |-> r[i]]
    BY <1>2 DEF SubstitutePropsWithExprs, Renamed, IsLines
  <2> HIDE DEF r
  <2> QED BY <1>2, <2>1, CountLines DEF IsLines
<1> QED
  BY <1>1, <1>3 DEF AcceptedMarkup

(* A stub has lines. *)
LEMMA StubFact ==
  ASSUME NEW m, Described(m)
  PROVE  Stub(m) # Gone /\ Parsed(Stub(m))
<1> DEFINE head == IF m.contract = <<>> THEN <<>> ELSE <<Comment([i \in DOMAIN m.contract |-> m.contract[i].expr])>>
           sub == SubstituteExprsWithProps(m.original, m.contract)
<1>1. IsLines(head)
  <2> DEFINE one == Comment([i \in DOMAIN m.contract |-> m.contract[i].expr])
  <2> HIDE DEF one
  <2>1. IsLines(<<>>) /\ IsLines(<<one>>)
    BY DEF IsLines
  <2> QED BY <2>1 DEF one
<1>2. IsLines(sub)
  <2>1. sub = [i \in 1 .. Len(m.original) |-> sub[i]]
    BY DEF SubstituteExprsWithProps, Renamed, IsLines, Described
  <2> HIDE DEF sub
  <2> QED BY <2>1, CountLines DEF IsLines, Described
<1>3. IsLines(head \o sub)
  <2> HIDE DEF head, sub
  <2> QED BY <1>1, <1>2, LinesJoin
<1>4. IsLines(InsertStub) /\ IsLines(<<>>)
  BY DEF InsertStub, IsLines
<1>5. Stub(m).lead = <<>> /\ Stub(m).markup \in {InsertStub, head \o sub}
  BY DEF Stub
<1>6. Stub(m) # Gone
  BY DEF Stub, Gone
<1> QED
  BY <1>3, <1>4, <1>5, <1>6 DEF Parsed

-----------------------------------------------------------------------------
LEMMA SvelteStarts ==
  ASSUME SvelteInit, LinesGiven
  PROVE  SvelteInv
<1>1. ScriptTyped
  BY DEF SvelteInit, ScriptTyped, Quiet
<1>2. source = [f \in Routes |-> source[f]] /\ \A f \in Routes : IsLines(source[f])
  BY DEF SvelteInit, LinesGiven
<1>3. deferred \in Seq(Entries)
  <2>1. CASE deferred = <<>>
    BY <2>1
  <2>2. CASE \E id \in Ids : \E n \in Counts : \E v \in Chosen : deferred = <<[id |-> id, variant |-> n, values |-> v]>>
    <3>1. PICK id \in Ids : \E n \in Counts : \E v \in Chosen : deferred = <<[id |-> id, variant |-> n, values |-> v]>>
      BY <2>2
    <3>2. PICK n \in Counts, v \in Chosen : deferred = <<[id |-> id, variant |-> n, values |-> v]>>
      BY <3>1
    <3>3. [id |-> id, variant |-> n, values |-> v] \in Entries
      BY DEF Entries
    <3> QED BY <3>2, <3>3
  <2> QED BY <2>1, <2>2 DEF SvelteInit
<1>4. /\ manifest = [id \in Ids |-> Gone] /\ component = [id \in Ids |-> NoComponents]
      /\ asked = [id \in Ids |-> Nothing]
  BY DEF SvelteInit
<1>5. /\ moved \in [Ids -> BOOLEAN] /\ inlined \in [Ids -> BOOLEAN]
      /\ spared \in [Ids -> BOOLEAN]
  BY DEF SvelteInit
<1>6. SvelteTyped
  BY <1>1, <1>2, <1>3, <1>4, <1>5 DEF SvelteTyped, NoComponents
<1>7. RangesHold /\ InlinedIsSpared
  BY <1>4 DEF RangesHold, InlinedIsSpared, SvelteInit, Quiet
<1> QED
  BY <1>6, <1>7 DEF SvelteInv

(* What wrap and insert found in the source *)
LEMMA WrapStep ==
  ASSUME SvelteInv, NEW id \in Ids, NEW f \in Routes, NEW first \in Nat, NEW last \in Nat, NEW count \in Counts,
         WrapSvelte(id, f, first, last, count) \/ \E before \in BOOLEAN : InsertSvelte(id, f, first, last, before, count)
  PROVE  SvelteInv'
<1> DEFINE original == [i \in 1 .. last - first + 1 |-> source[f][first + i - 1]]
<1>1. /\ 1 <= first /\ first <= last /\ last \in DOMAIN source[f] /\ last - first + 1 \in Nat
      /\ IsLines(source[f]) /\ first .. last \subseteq DOMAIN source[f]
  BY DEF WrapSvelte, InsertSvelte, SvelteInv, SvelteTyped, IsLines
<1>2. IsLines(original) /\ Len(original) = last - first + 1
  <2> DEFINE n == last - first + 1
  <2>1. n \in Nat /\ original = [i \in 1 .. n |-> original[i]]
    BY <1>1
  <2> HIDE DEF original
  <2>2. IsLines(original) /\ Len(original) = n
    <3> HIDE DEF n
    <3> QED BY <2>1, CountLines
  <2> QED BY <2>2
<1>3. \A i \in first .. last : original[i - first + 1] = source[f][i]
  BY <1>1
<1> DEFINE Found == /\ script'.step = "scaffold" /\ script'.id = id /\ script'.read = source[f] /\ script' # Quiet
                    /\ Described(script'.m) /\ Picked(script'.m, source[f])
                    /\ UNCHANGED <<source, manifest, component, asked, deferred, moved, inlined, spared>>
<1>4. Found
  <2>1. CASE WrapSvelte(id, f, first, last, count)
    <3> DEFINE m == [file |-> f, insert |-> FALSE, first |-> first, last |-> last, insertLine |-> first,
                     original |-> original, contract |-> PropContract(Expressions(original))]
    <3>1. script' = [step |-> "scaffold", id |-> id, count |-> count, read |-> source[f], m |-> m]
      BY <2>1 DEF WrapSvelte
    <3>2. m # Gone /\ m.file = f /\ m.insert = FALSE /\ m.first = first /\ m.last = last /\ m.insertLine = first
            /\ m.original = original
      BY DEF Gone
    <3>3. UNCHANGED <<source, manifest, component, asked, deferred, moved, inlined, spared>>
      BY <2>1 DEF WrapSvelte
    <3> HIDE DEF original, m
    <3>4. Described(m) /\ Picked(m, source[f])
      BY <1>1, <1>2, <1>3, <3>2 DEF Described, Picked
    <3> QED BY <3>1, <3>3, <3>4 DEF Quiet
  <2>2. ASSUME NEW before \in BOOLEAN, InsertSvelte(id, f, first, last, before, count)
        PROVE  Found
    <3> DEFINE line == IF before THEN first ELSE last + 1
               m == [file |-> f, insert |-> TRUE, first |-> first, last |-> last, insertLine |-> line,
                     original |-> original, contract |-> <<>>]
    <3>1. script' = [step |-> "scaffold", id |-> id, count |-> count, read |-> source[f], m |-> m]
      BY <2>2 DEF InsertSvelte
    <3>2. m # Gone /\ m.file = f /\ m.insert = TRUE /\ m.first = first /\ m.last = last /\ m.insertLine \in {first, last + 1}
            /\ m.original = original
      BY DEF Gone
    <3>3. UNCHANGED <<source, manifest, component, asked, deferred, moved, inlined, spared>>
      BY <2>2 DEF InsertSvelte
    <3> HIDE DEF original, m
    <3>4. Described(m) /\ Picked(m, source[f])
      BY <1>1, <1>2, <1>3, <3>2 DEF Described, Picked
    <3> QED BY <3>1, <3>3, <3>4 DEF Quiet
  <2> HIDE DEF original
  <2> QED BY <2>1, <2>2
<1>5. ScriptTyped'
  BY <1>1, <1>4 DEF ScriptTyped
<1>6. SvelteTyped'
  BY <1>4, <1>5 DEF SvelteInv, SvelteTyped
<1>7. script = Quiet
  BY DEF WrapSvelte, InsertSvelte
<1>8. RangesHold' /\ InlinedIsSpared'
  BY <1>4, <1>7 DEF SvelteInv, RangesHold, InlinedIsSpared, Quiet
<1> QED
  BY <1>6, <1>8 DEF SvelteInv

(* The session is there, and its lines are the ones the source had when it was read. *)
LEMMA ManifestStep ==
  ASSUME SvelteInv, WriteManifest
  PROVE  SvelteInv'
<1> DEFINE id == script.id
<1>1. /\ id \in Ids /\ Described(script.m) /\ Picked(script.m, script.read) /\ script.step = "scaffold"
  BY DEF WriteManifest, SvelteInv, SvelteTyped, ScriptTyped
<1>2. ScriptTyped'
  BY <1>1 DEF WriteManifest, ScriptTyped, Quiet
<1>3. SvelteTyped'
  BY <1>1, <1>2 DEF WriteManifest, SvelteInv, SvelteTyped
<1>4. \A other \in Ids \ {id} : manifest'[other] = manifest[other] /\ moved'[other] = moved[other] /\ inlined'[other] = inlined[other]
        /\ spared'[other] = spared[other]
  BY <1>1 DEF WriteManifest, SvelteInv, SvelteTyped
<1>5. manifest'[id] = script.m /\ (~moved'[id] => source[script.m.file] = script.read) /\ inlined'[id] = FALSE
  BY <1>1 DEF WriteManifest, SvelteInv, SvelteTyped
<1>6. RangesHold'
  <2>1. source' = source
    BY DEF WriteManifest
  <2> QED BY <1>1, <1>4, <1>5, <2>1 DEF SvelteInv, RangesHold
<1>7. InlinedIsSpared'
  BY <1>1, <1>4, <1>5 DEF WriteManifest, SvelteInv, InlinedIsSpared
<1> QED
  BY <1>3, <1>6, <1>7 DEF SvelteInv

LEMMA StubStep ==
  ASSUME SvelteInv, WriteStub
  PROVE  SvelteInv'
<1> DEFINE id == script.id
           n == script.next
<1>1. id \in Ids /\ n \in Nat /\ script.step = "stubs"
      /\ script = [step |-> "stubs", id |-> id, count |-> script.count, next |-> n]
  BY DEF WriteStub, SvelteInv, SvelteTyped, ScriptTyped
<1>7. script' = Quiet \/ script' = [step |-> "stubs", id |-> id, count |-> script.count, next |-> n + 1]
  BY <1>1 DEF WriteStub
<1>2. ScriptTyped'
  BY <1>1, <1>7 DEF ScriptTyped, Quiet
<1>3. /\ component' = [i \in Ids |-> component'[i]]
      /\ \A i \in Ids : component'[i] = [k \in Counts |-> component'[i][k]]
      /\ \A i \in Ids : \A k \in Counts : component'[i][k] # Gone => Parsed(component'[i][k])
  <2>1. CASE component' = component
    BY <2>1 DEF SvelteInv, SvelteTyped
  <2>2. CASE component' # component
    <3> DEFINE stub == Stub(manifest[id])
    <3>1. component' = [component EXCEPT ![id][n] = stub] /\ manifest[id] # Gone
      BY <2>2 DEF WriteStub
    <3>2. Parsed(stub)
      BY <1>1, <3>1, StubFact DEF SvelteInv, SvelteTyped
    <3> HIDE DEF stub
    <3>3. component' = [i \in Ids |-> IF i = id THEN [k \in Counts |-> IF k = n THEN stub ELSE component[i][k]] ELSE component[i]]
      BY <1>1, <3>1 DEF SvelteInv, SvelteTyped
    <3> QED BY <3>2, <3>3 DEF SvelteInv, SvelteTyped
  <2> QED BY <2>1, <2>2
<1>4. SvelteTyped'
  BY <1>2, <1>3 DEF WriteStub, SvelteInv, SvelteTyped
<1>5. RangesHold'
  BY DEF WriteStub, SvelteInv, RangesHold
<1>6. InlinedIsSpared'
  BY <1>1, <1>7 DEF WriteStub, SvelteInv, InlinedIsSpared, Quiet
<1> QED
  BY <1>4, <1>5, <1>6 DEF SvelteInv

LEMMA AuthorStep ==
  ASSUME SvelteInv, LinesGiven, NEW id \in Ids, NEW n \in Counts, NEW c \in Written, Author(id, n, c)
  PROVE  SvelteInv'
<1>1. component' = [i \in Ids |-> IF i = id THEN [k \in Counts |-> IF k = n THEN c ELSE component[i][k]] ELSE component[i]]
  BY DEF Author, SvelteInv, SvelteTyped
<1>2. Parsed(c)
  BY DEF LinesGiven
<1>3. ScriptTyped'
  BY DEF Author, SvelteInv, SvelteTyped, ScriptTyped
<1>4. SvelteTyped'
  BY <1>1, <1>2, <1>3 DEF Author, SvelteInv, SvelteTyped
<1> QED
  BY <1>4 DEF Author, SvelteInv, RangesHold, InlinedIsSpared

LEMMA AskStep ==
  ASSUME SvelteInv, NEW id \in Ids, NEW answer \in Answers, Ask(id, answer)
  PROVE  SvelteInv'
<1>1. ScriptTyped'
  BY DEF Ask, SvelteInv, SvelteTyped, ScriptTyped
<1>2. SvelteTyped'
  BY <1>1 DEF Ask, SvelteInv, SvelteTyped
<1> QED
  BY <1>2 DEF Ask, SvelteInv, RangesHold, InlinedIsSpared

(* An accept that is not refused has read lines its manifest fits. *)
LEMMA InliningFact ==
  ASSUME SvelteInv, NEW a \in Entries, ~Refuses(a.id, a.variant), NEW by \in {"agent", "server"}, NEW rest, NEW kept,
         by = "server" => rest \in Seq(Entries) /\ kept \in Seq(Entries),
         script.step \in {"none", "deferred"},
         script' = Inlining(a, by, rest, kept),
         UNCHANGED <<source, manifest, component, deferred, moved, inlined, spared>>
  PROVE  ScriptTyped' /\ RangesHold' /\ InlinedIsSpared'
<1> DEFINE m == manifest[a.id]
           c == component[a.id][a.variant]
           lines == source[m.file]
           markup == AcceptedMarkup(m, MarkupOf(c))
           css == AcceptedCss(c, a.variant, a.values)
<1>1. a.id \in Ids /\ a.variant \in Counts
  BY DEF Entries
<1>2. m # Gone /\ c # Gone
  BY DEF Refuses
<1>3. Described(m) /\ Parsed(c) /\ IsLines(lines)
  BY <1>1, <1>2 DEF SvelteInv, SvelteTyped, Described
<1>4. IsLines(markup)
  <2> HIDE DEF m, c
  <2> QED BY <1>3, AcceptedFact
<1>5. At(m) + Drops(m) <= Len(lines) + 1
  <2>1. /\ ~m.insert => ~(m.last > Len(lines))
        /\ m.insert => ~(m.insertLine > Len(lines) + 1)
    BY DEF Refuses
  <2> HIDE DEF m, lines
  <2>2. m.insert => m.insertLine <= Len(lines) + 1
    BY <1>3, <2>1 DEF Described, IsLines
  <2>3. ~m.insert => m.last <= Len(lines)
    BY <1>3, <2>1 DEF Described, IsLines
  <2>4. m.insert => At(m) = m.insertLine /\ Drops(m) = 0 /\ At(m) \in Nat
    BY <1>3 DEF Described, At, Drops
  <2>5. ~m.insert => At(m) = m.first /\ Drops(m) = m.last - m.first + 1 /\ m.first \in Nat /\ m.last \in Nat
    BY <1>3 DEF Described, At, Drops
  <2>6. Len(lines) \in Nat /\ m.insert \in BOOLEAN
    BY <1>3 DEF Described, IsLines
  <2> QED BY <2>2, <2>3, <2>4, <2>5, <2>6
<1>6. script' = [step |-> "write", id |-> a.id, entry |-> a, by |-> by, rest |-> rest, kept |-> kept, m |-> m,
                 read |-> lines, markup |-> markup, css |-> css]
  BY DEF Inlining
<1>7. ScriptTyped'
  <2> HIDE DEF m, lines, markup, css
  <2> QED BY <1>1, <1>3, <1>4, <1>5, <1>6 DEF ScriptTyped, Quiet
<1>8. RangesHold'
  BY DEF SvelteInv, RangesHold
<1>9. script'.step = "write" /\ script'.id = a.id
  BY <1>6
<1>10. InlinedIsSpared'
  BY <1>1, <1>2, <1>9 DEF SvelteInv, InlinedIsSpared
<1> QED
  BY <1>7, <1>8, <1>10

LEMMA AcceptStep ==
  ASSUME SvelteInv, NEW id \in Ids, RunSvelteAccept(id)
  PROVE  SvelteInv'
<1>1. /\ script = Quiet /\ asked[id].answer = "accept"
      /\ UNCHANGED <<source, manifest, component, deferred, moved, inlined, spared>>
  BY DEF RunSvelteAccept
<1>2. asked[id].variant \in Counts /\ asked[id].values \in Chosen
  BY <1>1 DEF SvelteInv, SvelteTyped, Answers, Nothing
<1>3. ScriptTyped' /\ RangesHold' /\ InlinedIsSpared' /\ asked' \in [Ids -> Answers \cup {Nothing}]
  <2>1. CASE Refuses(id, asked[id].variant)
    <3>1. script' = script /\ asked' = [asked EXCEPT ![id] = Nothing]
      BY <2>1 DEF RunSvelteAccept
    <3>2. ScriptTyped'
      BY <1>1, <3>1 DEF SvelteInv, SvelteTyped, ScriptTyped
    <3> QED BY <1>1, <3>1, <3>2 DEF SvelteInv, SvelteTyped, RangesHold, InlinedIsSpared
  <2>2. CASE ~Refuses(id, asked[id].variant)
    <3> DEFINE a == [id |-> id, variant |-> asked[id].variant, values |-> asked[id].values]
    <3>1. script' = Inlining(a, "agent", <<>>, <<>>) /\ asked' = asked
      BY <2>2 DEF RunSvelteAccept
    <3>2. a \in Entries /\ a.id = id /\ a.variant = asked[id].variant
      BY <1>2 DEF Entries
    <3>3. ScriptTyped' /\ RangesHold' /\ InlinedIsSpared'
      <4>1. script.step \in {"none", "deferred"}
        BY <1>1 DEF Quiet
      <4> HIDE DEF a
      <4> QED BY <1>1, <2>2, <3>1, <3>2, <4>1, InliningFact
    <3> QED BY <1>1, <3>1, <3>3 DEF SvelteInv, SvelteTyped
  <2> QED BY <2>1, <2>2
<1> QED
  BY <1>1, <1>3 DEF SvelteInv, SvelteTyped

LEMMA DeferredStep ==
  ASSUME SvelteInv, StartDeferred \/ ApplyDeferred \/ KeepDeferred
  PROVE  SvelteInv'
<1>1. CASE StartDeferred
  <2>1. script = Quiet /\ script' = [step |-> "deferred", rest |-> deferred, kept |-> <<>>]
        /\ UNCHANGED <<source, manifest, component, asked, deferred, moved, inlined, spared>>
    BY <1>1 DEF StartDeferred
  <2>2. ScriptTyped'
    BY <2>1 DEF SvelteInv, SvelteTyped, ScriptTyped, Quiet
  <2> QED BY <2>1, <2>2 DEF SvelteInv, SvelteTyped, RangesHold, InlinedIsSpared, Quiet
<1>2. CASE ApplyDeferred
  <2> DEFINE a == Head(script.rest)
  <2>1. /\ script.step = "deferred" /\ script.rest # <<>>
        /\ UNCHANGED <<source, manifest, component, asked, deferred, moved, inlined, spared>>
    BY <1>2 DEF ApplyDeferred
  <2>2. /\ script = [step |-> "deferred", rest |-> script.rest, kept |-> script.kept]
        /\ script.rest \in Seq(Entries) /\ script.kept \in Seq(Entries)
    BY <2>1 DEF SvelteInv, SvelteTyped, ScriptTyped
  <2>3. a \in Entries /\ Tail(script.rest) \in Seq(Entries) /\ Append(script.kept, a) \in Seq(Entries)
    BY <2>1, <2>2
  <2>4. ScriptTyped' /\ RangesHold' /\ InlinedIsSpared'
    <3>1. CASE Refuses(a.id, a.variant)
      <4>2. script' = [step |-> "deferred", rest |-> Tail(script.rest), kept |-> Append(script.kept, a)]
        BY <1>2, <3>1 DEF ApplyDeferred
      <4> HIDE DEF a
      <4>3. ScriptTyped'
        BY <2>3, <4>2 DEF ScriptTyped, Quiet
      <4> QED BY <2>1, <4>2, <4>3 DEF SvelteInv, RangesHold, InlinedIsSpared
    <3>2. CASE ~Refuses(a.id, a.variant)
      <4>1. script' = Inlining(a, "server", Tail(script.rest), script.kept)
        BY <1>2, <3>2 DEF ApplyDeferred
      <4> HIDE DEF a
      <4> QED BY <2>1, <2>2, <2>3, <3>2, <4>1, InliningFact
    <3> QED BY <3>1, <3>2
  <2> QED BY <2>1, <2>4 DEF SvelteInv, SvelteTyped
<1>3. CASE KeepDeferred
  <2>1. /\ script.step = "deferred" /\ deferred' = script.kept /\ script' = Quiet
        /\ UNCHANGED <<source, manifest, component, asked, moved, inlined, spared>>
    BY <1>3 DEF KeepDeferred
  <2>2. ScriptTyped' /\ deferred' \in Seq(Entries)
    BY <2>1 DEF SvelteInv, SvelteTyped, ScriptTyped, Quiet
  <2> QED BY <2>1, <2>2 DEF SvelteInv, SvelteTyped, RangesHold, InlinedIsSpared, Quiet
<1> QED
  BY <1>1, <1>2, <1>3

(* Writing a source changes no lines above the ones that are disturbed. *)
LEMMA WriteStep ==
  ASSUME SvelteInv, WriteSource
  PROVE  SvelteInv'
<1> DEFINE m == script.m
           new == WithMarkup(script.read, m, script.markup)
           text == Inlined(script.read, m, script.markup, script.css)
<1>1. /\ script.step = "write" /\ script.id \in Ids
      /\ IsLines(script.read) /\ IsLines(script.markup) /\ Described(m) /\ At(m) + Drops(m) <= Len(script.read) + 1
  BY DEF WriteSource, SvelteInv, SvelteTyped, ScriptTyped
<1>2. /\ source' = [source EXCEPT ![m.file] = text]
      /\ \A id \in Ids : ~moved'[id] => ~moved[id] /\
           (manifest[id] # Gone /\ manifest[id].file = m.file =>
              source[m.file] = script.read /\ ~Disturbs(m, new, script.css, manifest[id].last))
      /\ moved' \in [Ids -> BOOLEAN]
      /\ inlined' = [inlined EXCEPT ![script.id] = TRUE]
      /\ script' = [script EXCEPT !.step = "remove"]
      /\ UNCHANGED <<manifest, component, asked, deferred, spared>>
  BY DEF WriteSource, SvelteInv, SvelteTyped
<1>3. /\ IsLines(text)
      /\ \A last \in Nat : ~Disturbs(m, new, script.css, last) /\ last <= Len(script.read) =>
           \A i \in 1 .. last : i \in DOMAIN text /\ text[i] = script.read[i]
  <2> HIDE DEF m
  <2> QED BY <1>1, InlinedFact
<1>4. script' = [step |-> "remove", id |-> script.id, entry |-> script.entry, by |-> script.by, rest |-> script.rest,
                 kept |-> script.kept, m |-> script.m, read |-> script.read, markup |-> script.markup, css |-> script.css]
  BY <1>1, <1>2 DEF SvelteInv, SvelteTyped, ScriptTyped
<1>5. ScriptTyped'
  <2>1. script.by \in {"agent", "server"} /\ (script.by = "server" =>
          script.rest \in Seq(Entries) /\ script.kept \in Seq(Entries) /\ script.entry \in Entries)
    BY <1>1 DEF SvelteInv, SvelteTyped, ScriptTyped
  <2> QED BY <1>1, <1>4, <2>1 DEF ScriptTyped, Quiet
<1>6. SvelteTyped'
  <2>1. source' = [f \in Routes |-> source'[f]] /\ \A f \in Routes : IsLines(source'[f])
    <3> HIDE DEF m, text
    <3> QED BY <1>1, <1>2, <1>3 DEF SvelteInv, SvelteTyped, Described
  <2> QED BY <1>1, <1>2, <1>5, <2>1 DEF SvelteInv, SvelteTyped
<1>7. RangesHold'
  <2> SUFFICES ASSUME NEW id \in Ids, manifest[id] # Gone, ~moved'[id]
               PROVE  Picked(manifest[id], source'[manifest[id].file])
    BY <1>2 DEF RangesHold
  <2> DEFINE mine == manifest[id]
  <2>1. ~moved[id] /\ Picked(mine, source[mine.file]) /\ Described(mine)
    BY <1>2 DEF SvelteInv, SvelteTyped, RangesHold
  <2>2. CASE mine.file # m.file
    <3>1. source'[mine.file] = source[mine.file]
      <4> HIDE DEF m, text
      <4> QED BY <1>2, <2>1, <2>2 DEF SvelteInv, SvelteTyped, Described
    <3> QED BY <2>1, <3>1
  <2>3. CASE mine.file = m.file
    <3>1. source[mine.file] = script.read /\ ~Disturbs(m, new, script.css, mine.last)
      BY <1>2, <2>3
    <3>2. source'[mine.file] = text
      <4> HIDE DEF m, text
      <4> QED BY <1>1, <1>2, <2>3 DEF SvelteInv, SvelteTyped, Described
    <3>3. mine.last \in Nat /\ mine.first \in Nat /\ 1 <= mine.first /\ mine.first <= mine.last
      BY <2>1 DEF Described
    <3> HIDE DEF mine, m, new, text
    <3>4. Picked(mine, script.read)
      BY <2>1, <3>1
    <3>5. mine.last <= Len(script.read)
      BY <1>1, <3>3, <3>4 DEF Picked, IsLines
    <3>6. \A i \in 1 .. mine.last : i \in DOMAIN text /\ text[i] = script.read[i]
      BY <1>3, <3>1, <3>3, <3>5
    <3>7. Picked(mine, text)
      BY <3>3, <3>4, <3>6 DEF Picked
    <3> QED BY <3>2, <3>7 DEF mine
  <2> QED BY <2>2, <2>3
<1>8. InlinedIsSpared'
  BY <1>1, <1>2, <1>4 DEF SvelteInv, SvelteTyped, InlinedIsSpared
<1> QED
  BY <1>6, <1>7, <1>8 DEF SvelteInv

(* What the script is after an answer *)
LEMMA AfterFact ==
  ASSUME SvelteInv, script.step \in {"write", "remove"}, script' = After(TRUE) \/ script' = After(FALSE)
  PROVE  ScriptTyped' /\ script'.step \in {"none", "deferred"}
<1>1. CASE script.by = "agent"
  BY <1>1 DEF After, ScriptTyped, Quiet
<1>2. CASE script.by # "agent"
  <2>1. script.rest \in Seq(Entries) /\ script.kept \in Seq(Entries) /\ script.entry \in Entries
    BY <1>2 DEF SvelteInv, SvelteTyped, ScriptTyped
  <2>2. Append(script.kept, script.entry) \in Seq(Entries)
    BY <2>1
  <2>3. PICK kept \in Seq(Entries) : script' = [step |-> "deferred", rest |-> script.rest, kept |-> kept]
    BY <1>2, <2>1, <2>2 DEF After
  <2> QED BY <2>1, <2>3 DEF ScriptTyped, Quiet
<1> QED
  BY <1>1, <1>2

LEMMA WriteFailsStep ==
  ASSUME SvelteInv, WriteFails
  PROVE  SvelteInv'
<1>1. /\ script.step = "write" /\ script' = After(FALSE) /\ asked' = Answered(script.id) /\ script.id \in Ids
      /\ UNCHANGED <<source, manifest, component, deferred, moved, inlined, spared>>
  BY DEF WriteFails, SvelteInv, SvelteTyped, ScriptTyped
<1>2. ScriptTyped' /\ script'.step \in {"none", "deferred"}
  BY <1>1, AfterFact
<1>3. asked' \in [Ids -> Answers \cup {Nothing}] /\ \A id \in Ids : asked'[id] \in {asked[id], Nothing}
  BY <1>1 DEF Answered, SvelteInv, SvelteTyped
<1>4. SvelteTyped'
  BY <1>1, <1>2, <1>3 DEF SvelteInv, SvelteTyped
<1>5. InlinedIsSpared' /\ RangesHold'
  BY <1>1, <1>2, <1>3 DEF SvelteInv, InlinedIsSpared, RangesHold
<1> QED
  BY <1>4, <1>5 DEF SvelteInv

(* An accepted session goes, or it is noted that it stayed. *)
LEMMA RemoveStep ==
  ASSUME SvelteInv, RemoveSession
  PROVE  SvelteInv'
<1> DEFINE id == script.id
<1>1. /\ script.step = "remove" /\ script' = After(TRUE) /\ asked' = Answered(id) /\ id \in Ids
      /\ script.by \in {"agent", "server"}
      /\ UNCHANGED <<source, deferred, moved, inlined>>
  BY DEF RemoveSession, SvelteInv, SvelteTyped, ScriptTyped
<1>2. ScriptTyped' /\ script'.step \in {"none", "deferred"}
  BY <1>1, AfterFact
<1>3. asked' \in [Ids -> Answers \cup {Nothing}] /\ \A i \in Ids : asked'[i] \in {asked[i], Nothing}
        /\ (script.by = "agent" => asked'[id] = Nothing) /\ (script.by # "agent" => asked' = asked)
  BY <1>1 DEF Answered, SvelteInv, SvelteTyped
<1>4. CASE /\ manifest' = [manifest EXCEPT ![id] = Gone]
           /\ component' = [component EXCEPT ![id] = NoComponents]
           /\ UNCHANGED spared
  <2>1. /\ \A i \in Ids : manifest'[i] = IF i = id THEN Gone ELSE manifest[i]
        /\ manifest' = [i \in Ids |-> manifest'[i]]
    BY <1>1, <1>4 DEF SvelteInv, SvelteTyped
  <2>2. component' = [i \in Ids |-> IF i = id THEN NoComponents ELSE component[i]]
    BY <1>1, <1>4 DEF SvelteInv, SvelteTyped
  <2>4. SvelteTyped'
    <3>1. /\ component' = [i \in Ids |-> component'[i]]
          /\ \A i \in Ids : component'[i] = [k \in Counts |-> component'[i][k]]
          /\ \A i \in Ids : \A k \in Counts : component'[i][k] # Gone => Parsed(component'[i][k])
      BY <2>2 DEF SvelteInv, SvelteTyped, NoComponents
    <3> QED BY <1>1, <1>2, <1>3, <1>4, <2>1, <3>1 DEF SvelteInv, SvelteTyped
  <2>6. InlinedIsSpared' /\ RangesHold'
    BY <1>1, <1>2, <1>4, <2>1 DEF SvelteInv, InlinedIsSpared, RangesHold
  <2> QED BY <2>4, <2>6 DEF SvelteInv
<1>5. CASE spared' = [spared EXCEPT ![id] = TRUE] /\ UNCHANGED <<manifest, component>>
  <2>1. SvelteTyped'
    BY <1>1, <1>2, <1>3, <1>5 DEF SvelteInv, SvelteTyped
  <2>2. InlinedIsSpared'
    BY <1>1, <1>2, <1>5 DEF SvelteInv, SvelteTyped, InlinedIsSpared
  <2> QED BY <1>1, <1>3, <1>5, <2>1, <2>2 DEF SvelteInv, RangesHold
<1> QED
  BY <1>4, <1>5 DEF RemoveSession

LEMMA DiscardStep ==
  ASSUME SvelteInv, NEW id \in Ids, RunSvelteDiscard(id)
  PROVE  SvelteInv'
<1>1. /\ script = Quiet /\ asked' = [asked EXCEPT ![id] = Nothing]
      /\ UNCHANGED <<source, deferred, script, moved, inlined, spared>>
      /\ \/ manifest' = [manifest EXCEPT ![id] = Gone] /\ component' = [component EXCEPT ![id] = NoComponents]
         \/ UNCHANGED <<manifest, component>>
  BY DEF RunSvelteDiscard
<1>2. /\ manifest' = [i \in Ids |-> manifest'[i]]
      /\ \A i \in Ids : manifest'[i] \in {manifest[i], Gone} /\ (i # id => manifest'[i] = manifest[i])
  BY <1>1 DEF SvelteInv, SvelteTyped
<1>3. /\ component' = [i \in Ids |-> component'[i]]
      /\ \A i \in Ids : component'[i] = [k \in Counts |-> component'[i][k]]
      /\ \A i \in Ids : \A k \in Counts : component'[i][k] # Gone => Parsed(component'[i][k])
  <2>1. component' = component \/ component' = [i \in Ids |-> IF i = id THEN NoComponents ELSE component[i]]
    BY <1>1 DEF SvelteInv, SvelteTyped
  <2>2. CASE component' = component
    BY <2>2 DEF SvelteInv, SvelteTyped
  <2>3. CASE component' = [i \in Ids |-> IF i = id THEN NoComponents ELSE component[i]]
    BY <2>3 DEF SvelteInv, SvelteTyped, NoComponents
  <2> QED BY <2>1, <2>2, <2>3
<1>4. ScriptTyped'
  BY <1>1 DEF SvelteInv, SvelteTyped, ScriptTyped
<1>5. SvelteTyped'
  BY <1>1, <1>2, <1>3, <1>4 DEF SvelteInv, SvelteTyped
<1>6. InlinedIsSpared' /\ RangesHold'
  BY <1>1, <1>2 DEF SvelteInv, SvelteTyped, InlinedIsSpared, RangesHold, Quiet
<1> QED
  BY <1>5, <1>6 DEF SvelteInv

LEMMA EndStep ==
  ASSUME SvelteInv, NEW stuck \in SUBSET Ids, EndLive(stuck)
  PROVE  SvelteInv'
<1>1. ScriptTyped'
  BY DEF EndLive, SvelteInv, SvelteTyped, ScriptTyped
<1>2. SvelteTyped'
  BY <1>1 DEF EndLive, SvelteInv, SvelteTyped, NoComponents
<1>3. RangesHold' /\ InlinedIsSpared'
  BY DEF EndLive, SvelteInv, RangesHold, InlinedIsSpared
<1> QED
  BY <1>2, <1>3 DEF SvelteInv

LEMMA DeathStep ==
  ASSUME SvelteInv, ScriptDies
  PROVE  SvelteInv'
<1>1. ScriptTyped'
  BY DEF ScriptDies, ScriptTyped, Quiet
<1>2. script.step = "remove" => script.id \in Ids
  BY DEF SvelteInv, SvelteTyped, ScriptTyped
<1>3. SvelteTyped'
  BY <1>1, <1>2 DEF ScriptDies, SvelteInv, SvelteTyped
<1>4. InlinedIsSpared'
  BY <1>2 DEF ScriptDies, SvelteInv, SvelteTyped, InlinedIsSpared, Quiet
<1>5. RangesHold'
  BY DEF ScriptDies, SvelteInv, RangesHold
<1> QED
  BY <1>3, <1>4, <1>5 DEF SvelteInv

LEMMA SaveStep ==
  ASSUME SvelteInv, LinesGiven, NEW f \in Routes, NEW new \in Saved, NEW at \in Nat, NEW drop \in Nat,
         SaveRoute(f, at, drop, new)
  PROVE  SvelteInv'
<1> DEFINE text == Splice(source[f], at, drop, new)
<1>1. IsLines(source[f]) /\ IsLines(new) /\ 1 <= at /\ at + drop <= Len(source[f]) + 1
  BY DEF SaveRoute, SvelteInv, SvelteTyped, LinesGiven, IsLines
<1>2. /\ IsLines(text)
      /\ \A i \in 1 .. at - 1 : i \in DOMAIN text /\ text[i] = source[f][i]
  BY <1>1, SpliceFact
<1>3. source' = [source EXCEPT ![f] = text] /\ UNCHANGED <<manifest, component, asked, deferred, script, inlined, spared>>
  BY DEF SaveRoute
<1>4. \A id \in Ids : ~moved'[id] => ~moved[id] /\ (manifest[id] # Gone /\ manifest[id].file = f => ~(manifest[id].last >= at))
  BY DEF SaveRoute
<1>5. ScriptTyped'
  BY <1>3 DEF SvelteInv, SvelteTyped, ScriptTyped
<1>6. moved' \in [Ids -> BOOLEAN]
  BY DEF SaveRoute, SvelteInv, SvelteTyped
<1> HIDE DEF text
<1>7. SvelteTyped'
  BY <1>2, <1>3, <1>5, <1>6 DEF SvelteInv, SvelteTyped
<1>8. RangesHold'
  <2> SUFFICES ASSUME NEW id \in Ids, manifest[id] # Gone, ~moved'[id]
               PROVE  Picked(manifest[id], source'[manifest[id].file])
    BY <1>3 DEF RangesHold
  <2> DEFINE mine == manifest[id]
  <2>1. Picked(mine, source[mine.file]) /\ Described(mine)
    BY <1>4 DEF SvelteInv, SvelteTyped, RangesHold
  <2>2. mine.file # f => source'[mine.file] = source[mine.file]
    BY <1>3, <2>1 DEF SvelteInv, SvelteTyped, Described
  <2>3. mine.file = f => source'[mine.file] = text /\ ~(mine.last >= at)
    BY <1>3, <1>4, <2>1 DEF SvelteInv, SvelteTyped, Described
  <2> HIDE DEF mine
  <2>4. mine.file = f => Picked(mine, text)
    BY <1>2, <2>1, <2>3 DEF Picked, Described
  <2>5. Picked(mine, source'[mine.file])
    BY <2>1, <2>2, <2>3, <2>4
  <2> QED BY <2>5 DEF mine
<1>9. InlinedIsSpared'
  BY <1>3 DEF SvelteInv, InlinedIsSpared
<1> QED
  BY <1>7, <1>8, <1>9 DEF SvelteInv

LEMMA SvelteStep ==
  ASSUME SvelteInv, LinesGiven, [SvelteNext]_svelteVars
  PROVE  SvelteInv'
<1>1. CASE UNCHANGED svelteVars
  <2>1. ScriptTyped'
    BY <1>1 DEF svelteVars, SvelteInv, SvelteTyped, ScriptTyped
  <2> QED
    BY <1>1, <2>1 DEF svelteVars, SvelteInv, SvelteTyped, RangesHold, InlinedIsSpared
<1>2. CASE Scripts
  BY <1>2, WrapStep, ManifestStep, StubStep, AcceptStep, DiscardStep, WriteStep, WriteFailsStep, RemoveStep,
     DeferredStep, DeathStep DEF Scripts
<1> QED
  BY <1>1, <1>2, AuthorStep, AskStep, EndStep, SaveStep DEF SvelteNext

(***************************************************************************)
(* For any routes, sessions, components and edits, a session whose route   *)
(* nobody changed at or above its lines names the lines it was made from,  *)
(* whatever was accepted below them and whatever was killed or failed.     *)
(***************************************************************************)
THEOREM LinesStayNamed ==
  ASSUME LinesGiven
  PROVE  SvelteSpec => []RangesHold
<1>1. SvelteInit => SvelteInv
  BY SvelteStarts
<1>2. SvelteInv /\ [SvelteNext]_svelteVars => SvelteInv'
  BY SvelteStep
<1>3. SvelteInv => RangesHold
  BY DEF SvelteInv
<1> QED
  BY <1>1, <1>2, <1>3, PTL DEF SvelteSpec

(***************************************************************************)
(* Whatever is killed, redelivered or fails, a variant is written into its *)
(* route a second time only if its session outlived the first accept.      *)
(***************************************************************************)
THEOREM InliningOnce ==
  ASSUME LinesGiven
  PROVE  SvelteSpec => InlinedOnce
<1>1. SvelteInit => SvelteInv
  BY SvelteStarts
<1>2. SvelteInv /\ [SvelteNext]_svelteVars => SvelteInv'
  BY SvelteStep
<1>3. SvelteInv => (WriteSource => (inlined[script.id] => spared[script.id]))
  BY DEF SvelteInv, InlinedIsSpared, WriteSource
<1> QED
  BY <1>1, <1>2, <1>3, PTL DEF SvelteSpec, InlinedOnce

-----------------------------------------------------------------------------
(***************************************************************************)
(* Copy edits: a dock that shows an apply as running waits for something.  *)
(* Begins and Ends are the activity that sets a dock busy and that frees   *)
(* it.  The server owes an end to the page of every commit it awaits, and  *)
(* to every begin it has pushed.                                           *)
(***************************************************************************)
Types == {"stashed", "started", "refixing", "repairing", "decision", "rolledback",
          "done", "failed", "discarded"}
IsList(q) == (\E S : q \in Seq(S)) /\ \A i \in 1..Len(q) : q[i].type \in Types

Begins == {"started", "refixing", "repairing"}
Ends == {"done", "failed", "decision"}

Has(J, p) == \E j \in J : j.page = p
EndsAt(q, k, p) == q[k].type \in Ends /\ q[k].page = p
Over(q, p) == \E k \in 1..Len(q) : EndsAt(q, k, p)
Answerable(J, q) ==
  \A i \in 1..Len(q) : q[i].type \in Begins =>
    Has(J, q[i].page) \/ \E k \in 1..Len(q) : i < k /\ EndsAt(q, k, q[i].page)

(* The same while the commits of the pages P are being served: from the    *)
(* commits J the server came to s.                                         *)
Owing(J, s, P) ==
  /\ \A p : Has(J, p) => Has(s.jobs, p) \/ Over(s.out, p) \/ p \in P
  /\ \A i \in 1..Len(s.out) : s.out[i].type \in Begins =>
       \/ Has(s.jobs, s.out[i].page) \/ s.out[i].page \in P
       \/ \E k \in 1..Len(s.out) : i < k /\ EndsAt(s.out, k, s.out[i].page)

(* The server's state, as far as this needs it *)
SrvFields == {"text", "broken", "buf", "tx", "jobs", "tombs", "n", "out", "want"}
IsSrv(s) ==
  /\ DOMAIN s = SrvFields /\ IsList(s.out) /\ IsFiniteSet(s.jobs)
  /\ \A j \in s.jobs : "page" \in DOMAIN j
Alike(x, y) == IsSrv(y) /\ y.jobs = x.jobs /\ y.out = x.out

-----------------------------------------------------------------------------
LEMMA ListAppend ==
  ASSUME NEW q, IsList(q), NEW m, m.type \in Types
  PROVE  /\ IsList(Append(q, m)) /\ Len(q) \in Nat /\ Len(Append(q, m)) = Len(q) + 1
         /\ Append(q, m)[Len(q) + 1] = m
         /\ \A i \in 1..Len(q) : Append(q, m)[i] = q[i]
<1>1. PICK S : q \in Seq(S)
  BY DEF IsList
<1> DEFINE T == S \cup {m}
<1>2. q \in Seq(T) /\ m \in T
  BY <1>1
<1> HIDE DEF T
<1>3. /\ Append(q, m) \in Seq(T) /\ Len(q) \in Nat /\ Len(Append(q, m)) = Len(q) + 1
      /\ Append(q, m)[Len(q) + 1] = m
      /\ \A i \in 1..Len(q) : Append(q, m)[i] = q[i]
  BY <1>2
<1>4. \A i \in 1..Len(q) + 1 : i \in 1..Len(q) \/ i = Len(q) + 1
  BY <1>3
<1> QED
  BY <1>3, <1>4 DEF IsList

LEMMA ListCat ==
  ASSUME NEW q, NEW r, IsList(q), IsList(r)
  PROVE  /\ IsList(q \o r) /\ Len(q) \in Nat /\ Len(r) \in Nat
         /\ Len(q \o r) = Len(q) + Len(r)
         /\ \A i \in 1..Len(q) : (q \o r)[i] = q[i]
         /\ \A i \in 1..Len(r) : (q \o r)[Len(q) + i] = r[i]
<1>1. PICK S : q \in Seq(S)
  BY DEF IsList
<1>2. PICK U : r \in Seq(U)
  BY DEF IsList
<1> DEFINE T == S \cup U
<1>3. q \in Seq(T) /\ r \in Seq(T)
  BY <1>1, <1>2
<1> HIDE DEF T
<1>4. /\ q \o r \in Seq(T) /\ Len(q) \in Nat /\ Len(r) \in Nat
      /\ Len(q \o r) = Len(q) + Len(r)
      /\ \A i \in 1..Len(q) : (q \o r)[i] = q[i]
      /\ \A i \in 1..Len(r) : (q \o r)[Len(q) + i] = r[i]
  BY <1>3
<1>5. \A i \in 1..Len(q) + Len(r) : i \in 1..Len(q) \/ \E k \in 1..Len(r) : i = Len(q) + k
  <2> SUFFICES ASSUME NEW i \in 1..Len(q) + Len(r), i \notin 1..Len(q)
               PROVE  i - Len(q) \in 1..Len(r) /\ i = Len(q) + (i - Len(q))
    OBVIOUS
  <2> QED BY <1>4
<1> QED
  BY <1>4, <1>5 DEF IsList

LEMMA ListTail ==
  ASSUME NEW q, IsList(q), q # <<>>
  PROVE  /\ IsList(Tail(q)) /\ q[1].type \in Types /\ Len(q) \in Nat \ {0} /\ Len(Tail(q)) = Len(q) - 1
         /\ Head(q) = q[1]
         /\ \A i \in 1..Len(Tail(q)) : Tail(q)[i] = q[i + 1]
<1>1. PICK S : q \in Seq(S)
  BY DEF IsList
<1>2. /\ Tail(q) \in Seq(S) /\ Len(q) \in Nat \ {0} /\ Len(Tail(q)) = Len(q) - 1
      /\ Head(q) = q[1] /\ \A i \in 1..Len(Tail(q)) : Tail(q)[i] = q[i + 1]
  BY <1>1
<1>3. 1 \in 1..Len(q) /\ \A i \in 1..Len(Tail(q)) : i + 1 \in 1..Len(q)
  BY <1>2
<1> QED
  BY <1>2, <1>3 DEF IsList

LEMMA ListEmpty == IsList(<<>>) /\ Len(<<>>) = 0
<1>1. <<>> \in Seq({})
  OBVIOUS
<1> QED
  BY <1>1 DEF IsList

-----------------------------------------------------------------------------
(* What the operators of the server leave alone *)

LEMMA RestoredAlike ==
  ASSUME NEW s, IsSrv(s), NEW sn
  PROVE  Alike(s, Restored(s, sn))
BY DEF IsSrv, SrvFields, Alike, Restored

LEMMA TombstoneAlike ==
  ASSUME NEW s, IsSrv(s), NEW j
  PROVE  Alike(s, Tombstone(s, j))
BY DEF IsSrv, SrvFields, Alike, Tombstone

LEMMA ClearAlike ==
  ASSUME NEW s, IsSrv(s), NEW id
  PROVE  Alike(s, ClearTransaction(s, id))
BY DEF IsSrv, SrvFields, Alike, ClearTransaction

LEMMA WriteAlike ==
  ASSUME NEW s, IsSrv(s), NEW p, NEW batch
  PROVE  Alike(s, WriteTransaction(s, p, batch))
BY DEF IsSrv, SrvFields, Alike, WriteTransaction

LEMMA RollbackAlike ==
  ASSUME NEW s, IsSrv(s), NEW p
  PROVE  Alike(s, RollbackTransaction(s, p))
<1>1. Alike(s, Restored(s, s.tx.snap))
  BY RestoredAlike
<1> DEFINE r == Restored(s, s.tx.snap)
<1>2. Alike(s, r)
  BY <1>1
<1>3. RollbackTransaction(s, p) \in {s, [s EXCEPT !.tx = Nil], [r EXCEPT !.tx = Nil]}
  BY DEF RollbackTransaction
<1> HIDE DEF r
<1> QED
  BY <1>2, <1>3 DEF IsSrv, SrvFields, Alike

LEMMA RecordIs ==
  ASSUME NEW s, IsSrv(s), NEW ty \in Types, NEW p, NEW k
  PROVE  /\ IsSrv(Record(s, ty, p, k)) /\ Record(s, ty, p, k).jobs = s.jobs
         /\ Record(s, ty, p, k).out = Append(s.out, [type |-> ty, page |-> p, count |-> k])
<1> DEFINE m == [type |-> ty, page |-> p, count |-> k]
<1>0. m.type \in Types
  OBVIOUS
<1> HIDE DEF m
<1>1. IsList(Append(s.out, m))
  BY <1>0, ListAppend DEF IsSrv
<1>2. Record(s, ty, p, k) = [s EXCEPT !.out = Append(@, m)]
  BY DEF Record, m
<1> QED
  BY <1>1, <1>2 DEF IsSrv, SrvFields, m

LEMMA TakenIs ==
  ASSUME NEW s, IsSrv(s), NEW j
  PROVE  IsSrv(Taken(s, j)) /\ Taken(s, j).jobs = s.jobs \ {j} /\ Taken(s, j).out = s.out
<1>1. IsFiniteSet(s.jobs \ {j})
  BY FS_RemoveElement DEF IsSrv
<1> QED
  BY <1>1 DEF IsSrv, SrvFields, Taken

(* Where a step of a commit of page p takes the server: it awaits another  *)
(* event, or it is over.                                                   *)
Goes(x, y, p) ==
  /\ IsSrv(y)
  /\ \/ /\ \E j : "page" \in DOMAIN j /\ j.page = p /\ y.jobs = x.jobs \cup {j}
        /\ \/ y.out = x.out
           \/ y.out = Append(x.out, [type |-> "repairing", page |-> p, count |-> 0])
     \/ /\ y.jobs = x.jobs
        /\ \E m : m.type \in Ends /\ m.page = p /\ y.out = Append(x.out, m)

LEMMA DispatchGoes ==
  ASSUME NEW s, IsSrv(s), NEW j, "page" \in DOMAIN j, NEW batch
  PROVE  Goes(s, Dispatch(s, j, batch), j.page)
<1> DEFINE e == [id |-> s.n + 1, batch |-> batch, snap |-> Snap(s, FilesOf(batch))]
           k == [j EXCEPT !.ev = e]
           x == [s EXCEPT !.n = s.n + 1, !.jobs = @ \cup {k}]
<1>1. "page" \in DOMAIN k /\ k.page = j.page
  OBVIOUS
<1>2. IsFiniteSet(s.jobs \cup {k})
  BY FS_AddElement DEF IsSrv
<1>3. Dispatch(s, j, batch) = IF j.attempt > 0 THEN Record(x, "repairing", j.page, 0) ELSE x
  BY DEF Dispatch
<1> HIDE DEF k
<1>4. IsSrv(x) /\ x.jobs = s.jobs \cup {k} /\ x.out = s.out
  <2>1. x.jobs = s.jobs \cup {k} /\ x.out = s.out /\ DOMAIN x = SrvFields
    BY DEF IsSrv, SrvFields
  <2> HIDE DEF x
  <2> QED BY <1>1, <1>2, <2>1 DEF IsSrv
<1> HIDE DEF x
<1> DEFINE d == Dispatch(s, j, batch)
           m == [type |-> "repairing", page |-> j.page, count |-> 0]
<1>5. IsSrv(d) /\ d.jobs = x.jobs /\ (d.out = x.out \/ d.out = Append(x.out, m))
  BY <1>3, <1>4, RecordIs DEF Types
<1> HIDE DEF d
<1>6. Goes(s, d, j.page)
  BY <1>1, <1>4, <1>5 DEF Goes
<1> QED
  BY <1>6 DEF d

LEMMA FinishGoes ==
  ASSUME NEW s, NEW x, Alike(s, x), NEW j, NEW ty \in Ends
  PROVE  Goes(s, Finish(x, j, ty), j.page)
<1> DEFINE y == IF ty = "decision" THEN x ELSE ClearTransaction(x, j.tx)
<1>1. Alike(s, y)
  BY ClearAlike DEF Alike
<1>2. Finish(x, j, ty) = Record(y, ty, j.page, CountPage(y, j.page))
  BY DEF Finish
<1> HIDE DEF y
<1> DEFINE m == [type |-> ty, page |-> j.page, count |-> CountPage(y, j.page)]
<1>3. m.type = ty /\ m.page = j.page
  OBVIOUS
<1>4. ty \in Types /\ IsSrv(y) /\ y.jobs = s.jobs /\ y.out = s.out
  BY <1>1 DEF Alike, Types, Ends
<1>5. /\ IsSrv(Finish(x, j, ty)) /\ Finish(x, j, ty).jobs = s.jobs
      /\ Finish(x, j, ty).out = Append(s.out, m)
  BY <1>2, <1>4, RecordIs
<1> HIDE DEF m
<1> QED
  BY <1>3, <1>5 DEF Goes

-----------------------------------------------------------------------------
(* The way of a commit after an answer *)

LEMMA AttemptGoes ==
  ASSUME NEW s, IsSrv(s), NEW j, "page" \in DOMAIN j
  PROVE  Goes(s, Attempt(s, j), j.page)
<1> DEFINE k == [j EXCEPT !.attempt = @ + 1]
<1>1. "page" \in DOMAIN k /\ k.page = j.page
  OBVIOUS
<1>2. Attempt(s, j) \in {Dispatch(s, k, j.batch), Finish(s, j, "decision")}
  BY DEF Attempt
<1> HIDE DEF k
<1>3. Goes(s, Dispatch(s, k, j.batch), j.page)
  BY <1>1, DispatchGoes
<1>4. Goes(s, Finish(s, j, "decision"), j.page)
  BY FinishGoes DEF Alike, Ends
<1> QED
  BY <1>2, <1>3, <1>4

LEMMA UndoGoes ==
  ASSUME NEW s, IsSrv(s), NEW j
  PROVE  Goes(s, Undo(s, j), j.page)
BY RestoredAlike, FinishGoes DEF Undo, Ends

LEMMA CommitGoes ==
  ASSUME NEW s, IsSrv(s), NEW j, NEW I, NEW ok
  PROVE  Goes(s, Commit(s, j, I, ok), j.page)
<1>1. Goes(s, Finish(RollbackTransaction(s, j.page), j, "failed"), j.page)
  BY RollbackAlike, FinishGoes DEF Ends
<1>2. CASE ok \/ I = {}
  <2>1. PICK b, w : Commit(s, j, I, ok) = Finish([s EXCEPT !.buf = b, !.want = w], j, "done")
    BY <1>2 DEF Commit
  <2>2. Alike(s, [s EXCEPT !.buf = b, !.want = w])
    BY DEF Alike, IsSrv, SrvFields
  <2> QED BY <2>1, <2>2, FinishGoes DEF Ends
<1>3. CASE ~(ok \/ I = {})
  BY <1>1, <1>3 DEF Commit
<1> QED BY <1>2, <1>3

LEMMA ConcludeGoes ==
  ASSUME NEW s, IsSrv(s), NEW j, "page" \in DOMAIN j, NEW res, NEW ok
  PROVE  Goes(s, Conclude(s, j, res, ok), j.page)
<1> DEFINE I == IF res.applied = {} THEN IdsOf(j.batch) ELSE res.applied
           k == [j EXCEPT !.applied = I, !.files = res.files]
<1>1. "page" \in DOMAIN k /\ k.page = j.page
  OBVIOUS
<1>2. Verdict(s, j, res) \in {"undo", "repair", "clear"}
  BY DEF Verdict
<1>3. Conclude(s, j, res, ok) \in {Undo(s, j), Attempt(s, k), Commit(s, j, res.applied, ok)}
  BY <1>2 DEF Conclude
<1> HIDE DEF k
<1> QED
  BY <1>1, <1>3, UndoGoes, AttemptGoes, CommitGoes

LEMMA RepairReplyGoes ==
  ASSUME NEW s, IsSrv(s), NEW j, "page" \in DOMAIN j, NEW res, NEW ok
  PROVE  Goes(s, RepairReply(s, j, res, ok), j.page)
<1> DEFINE k == [j EXCEPT !.applied = @ \cup res.applied, !.files = @ \cup res.files]
<1>1. "page" \in DOMAIN k /\ k.page = j.page
  OBVIOUS
<1>2. RepairReply(s, j, res, ok) \in {Attempt(s, k), Commit(s, k, k.applied, ok)}
  BY DEF RepairReply
<1> HIDE DEF k
<1> QED
  BY <1>1, <1>2, AttemptGoes, CommitGoes

LEMMA ChunkReplyGoes ==
  ASSUME NEW s, IsSrv(s), NEW j, "page" \in DOMAIN j, NEW res, NEW ok
  PROVE  Goes(s, ChunkReply(s, j, res, ok), j.page)
<1>1. PICK failed, files, r : ChunkReply(s, j, res, ok) \in
        {Dispatch(s, [j EXCEPT !.i = @ + 1, !.failed = failed, !.files = files], j.chunks[j.i + 1]),
         Conclude(s, j, r, ok)}
  BY DEF ChunkReply
<1> DEFINE k == [j EXCEPT !.i = @ + 1, !.failed = failed, !.files = files]
<1>2. "page" \in DOMAIN k /\ k.page = j.page
  OBVIOUS
<1>3. ChunkReply(s, j, res, ok) \in {Dispatch(s, k, j.chunks[j.i + 1]), Conclude(s, j, r, ok)}
  BY <1>1
<1> HIDE DEF k
<1> QED
  BY <1>2, <1>3, DispatchGoes, ConcludeGoes

LEMMA ContinueGoes ==
  ASSUME NEW s, IsSrv(s), NEW j, "page" \in DOMAIN j, NEW res, NEW ok
  PROVE  Goes(s, Continue(s, j, res, ok), j.page)
BY UndoGoes, ConcludeGoes, RepairReplyGoes, ChunkReplyGoes DEF Continue

-----------------------------------------------------------------------------
(* What is owed after the step of a commit *)
LEMMA StillOwing ==
  ASSUME NEW J, NEW s, NEW p, Owing(J, s, {})
  PROVE  Owing(J, s, {p})
BY DEF Owing

LEMMA OverAppend ==
  ASSUME NEW q, IsList(q), NEW m, m.type \in Types, NEW p
  PROVE  /\ Over(q, p) => Over(Append(q, m), p)
         /\ m.type \in Ends /\ m.page = p => Over(Append(q, m), p)
BY ListAppend DEF Over, EndsAt

LEMMA GoesPays ==
  ASSUME NEW J, NEW x, NEW y, NEW p, IsSrv(x), Owing(J, x, {p}), Goes(x, y, p)
  PROVE  /\ Owing(J, y, {}) /\ IsSrv(y)
         /\ Has(y.jobs, p) \/ Over(y.out, p)
<1>1. CASE \E j : "page" \in DOMAIN j /\ j.page = p /\ y.jobs = x.jobs \cup {j}
                  /\ y.out = x.out
  <2>1. Has(y.jobs, p) /\ \A q : Has(x.jobs, q) => Has(y.jobs, q)
    BY <1>1 DEF Has
  <2> QED BY <1>1, <2>1 DEF Goes, Owing
<1>2. CASE \E j : "page" \in DOMAIN j /\ j.page = p /\ y.jobs = x.jobs \cup {j}
                  /\ y.out = Append(x.out, [type |-> "repairing", page |-> p, count |-> 0])
  <2> DEFINE m == [type |-> "repairing", page |-> p, count |-> 0]
  <2>1. Has(y.jobs, p) /\ \A q : Has(x.jobs, q) => Has(y.jobs, q)
    BY <1>2 DEF Has
  <2>2. m.page = p /\ m.type \in Types
    BY DEF Types
  <2>3. y.out = Append(x.out, m)
    BY <1>2
  <2> HIDE DEF m
  <2>4. IsList(x.out)
    BY DEF IsSrv
  <2>5. /\ Len(x.out) \in Nat /\ Len(y.out) = Len(x.out) + 1 /\ y.out[Len(x.out) + 1] = m
        /\ \A i \in 1..Len(x.out) : y.out[i] = x.out[i]
    BY <2>2, <2>3, <2>4, ListAppend
  <2>6. \A q : Has(J, q) => Has(y.jobs, q) \/ Over(y.out, q)
    BY <2>1, <2>2, <2>3, <2>4, OverAppend DEF Owing
  <2>7. \A i \in 1..Len(y.out) : y.out[i].type \in Begins =>
          \/ Has(y.jobs, y.out[i].page)
          \/ \E k \in 1..Len(y.out) : i < k /\ EndsAt(y.out, k, y.out[i].page)
    <3> SUFFICES ASSUME NEW i \in 1..Len(y.out), y.out[i].type \in Begins,
                        ~Has(y.jobs, y.out[i].page)
                 PROVE  \E k \in 1..Len(y.out) : i < k /\ EndsAt(y.out, k, y.out[i].page)
      OBVIOUS
    <3>1. i \in 1..Len(x.out) /\ y.out[i] = x.out[i] /\ y.out[i].page # p
      BY <2>1, <2>2, <2>5
    <3>2. PICK k \in 1..Len(x.out) : i < k /\ EndsAt(x.out, k, x.out[i].page)
      BY <2>1, <3>1 DEF Owing
    <3>3. k \in 1..Len(y.out) /\ y.out[k] = x.out[k]
      BY <2>5, <3>2
    <3> QED BY <3>1, <3>2, <3>3 DEF EndsAt
  <2> QED BY <2>1, <2>6, <2>7 DEF Goes, Owing
<1>3. CASE y.jobs = x.jobs /\ \E m : m.type \in Ends /\ m.page = p /\ y.out = Append(x.out, m)
  <2>1. PICK m : m.type \in Ends /\ m.page = p /\ y.out = Append(x.out, m)
    BY <1>3
  <2>2. IsList(x.out) /\ m.type \in Types
    BY <2>1 DEF IsSrv, Ends, Types
  <2>3. /\ Len(x.out) \in Nat /\ Len(y.out) = Len(x.out) + 1 /\ y.out[Len(x.out) + 1] = m
        /\ \A i \in 1..Len(x.out) : y.out[i] = x.out[i]
    BY <2>1, <2>2, ListAppend
  <2>4. Over(y.out, p) /\ \A q : Has(J, q) => Has(y.jobs, q) \/ Over(y.out, q)
    BY <1>3, <2>1, <2>2, OverAppend DEF Owing
  <2>5. \A i \in 1..Len(y.out) : y.out[i].type \in Begins =>
          \/ Has(y.jobs, y.out[i].page)
          \/ \E k \in 1..Len(y.out) : i < k /\ EndsAt(y.out, k, y.out[i].page)
    <3> SUFFICES ASSUME NEW i \in 1..Len(y.out), y.out[i].type \in Begins,
                        ~Has(y.jobs, y.out[i].page)
                 PROVE  \E k \in 1..Len(y.out) : i < k /\ EndsAt(y.out, k, y.out[i].page)
      OBVIOUS
    <3>1. i \in 1..Len(x.out) /\ y.out[i] = x.out[i]
      BY <2>1, <2>3 DEF Begins, Ends
    <3>2. CASE x.out[i].page = p
      BY <2>1, <2>3, <3>1, <3>2 DEF EndsAt
    <3>3. CASE x.out[i].page # p
      <4>1. PICK k \in 1..Len(x.out) : i < k /\ EndsAt(x.out, k, x.out[i].page)
        BY <1>3, <3>1, <3>3 DEF Owing
      <4>2. k \in 1..Len(y.out) /\ y.out[k] = x.out[k]
        BY <2>3, <4>1
      <4> QED BY <3>1, <4>1, <4>2 DEF EndsAt
    <3> QED BY <3>2, <3>3
  <2> QED BY <2>4, <2>5 DEF Goes, Owing
<1> QED BY <1>1, <1>2, <1>3 DEF Goes

-----------------------------------------------------------------------------
(***************************************************************************)
(* The two loops over the commits of a page.  The table of a fold over a   *)
(* finite set exists: by induction, for the subsets of up to n elements.   *)
(***************************************************************************)
One(T) == CHOOSE j \in T : TRUE
UpTo(J, n) == {T \in SUBSET J : Cardinality(T) <= n}

LEMMA LessOne ==
  ASSUME NEW J, IsFiniteSet(J), NEW n \in Nat
  PROVE  \A T \in UpTo(J, n + 1) : T # {} => One(T) \in T /\ T \ {One(T)} \in UpTo(J, n)
<1> SUFFICES ASSUME NEW T \in UpTo(J, n + 1), T # {}
             PROVE  One(T) \in T /\ T \ {One(T)} \in UpTo(J, n)
  OBVIOUS
<1>1. One(T) \in T
  BY DEF One
<1>2. T \in SUBSET J /\ IsFiniteSet(T) /\ Cardinality(T) \in Nat /\ Cardinality(T) <= n + 1
  BY FS_Subset, FS_CardinalityType DEF UpTo
<1>3. Cardinality(T \ {One(T)}) = Cardinality(T) - 1
  BY <1>1, <1>2, FS_RemoveElement
<1> QED
  BY <1>1, <1>2, <1>3 DEF UpTo

LEMMA UpToGrows ==
  ASSUME NEW J, IsFiniteSet(J), NEW n \in Nat
  PROVE  UpTo(J, n) \subseteq UpTo(J, n + 1)
<1> SUFFICES ASSUME NEW T \in SUBSET J, Cardinality(T) <= n PROVE Cardinality(T) <= n + 1
  BY DEF UpTo
<1>1. Cardinality(T) \in Nat
  BY FS_Subset, FS_CardinalityType
<1> QED BY <1>1

\* Induction over the naturals, for sets.
LEMMA NatSet ==
  ASSUME NEW S, 0 \in S, \A n \in Nat : n \in S => n + 1 \in S
  PROVE  \A n \in Nat : n \in S
<1> SUFFICES ASSUME Nat \ S # {} PROVE FALSE
  OBVIOUS
<1> DEFINE R == OpToRel(<, Nat)
           B == Nat \ S
<1>1. IsWellFoundedOn(R, Nat)
  BY NatLessThanWellFounded
<1>2. B \subseteq Nat /\ B # {}
  OBVIOUS
<1> HIDE DEF R, B
<1>3. PICK m \in B : \A y \in B : ~(<<y, m>> \in R)
  BY <1>1, <1>2, WFMin
<1>4. \A a, b \in Nat : a < b => <<a, b>> \in R
  BY DEF R, OpToRel
<1>5. m \in Nat /\ m # 0 /\ m \notin S
  BY <1>3 DEF B
<1>6. m - 1 \in Nat /\ m - 1 < m /\ (m - 1) + 1 = m
  BY <1>5
<1>7. m - 1 \notin B
  BY <1>2, <1>3, <1>4, <1>5, <1>6
<1>8. m - 1 \in S
  BY <1>6, <1>7 DEF B
<1> QED
  BY <1>5, <1>6, <1>8

CancelAll(x, J) == FoldSet(Cancel, x, J)
CancelTable(x, J, g) ==
  /\ CancelAll(x, J) = g[J] /\ g[{}] = x
  /\ \A T \in SUBSET J : T # {} => g[T] = Cancel(One(T), g[T \ {One(T)}])
ResumeAll(x, J) == FoldSet(Resume, x, J)
ResumeTable(x, J, g) ==
  /\ ResumeAll(x, J) = g[J] /\ g[{}] = x
  /\ \A T \in SUBSET J : T # {} => g[T] = Resume(One(T), g[T \ {One(T)}])

\* g is the table of what cancelling, or resuming, the commits of T makes of x.
Cancelled(x, J, n, g) ==
  g = [T \in UpTo(J, n) |-> IF T = {} THEN x ELSE Cancel(One(T), g[T \ {One(T)}])]
Resumed(x, J, n, g) ==
  g = [T \in UpTo(J, n) |-> IF T = {} THEN x ELSE Resume(One(T), g[T \ {One(T)}])]

LEMMA CancelExists ==
  ASSUME NEW x, NEW J, IsFiniteSet(J)
  PROVE  \A n \in Nat : \E g : Cancelled(x, J, n, g)
<1> DEFINE S == {n \in Nat : \E g : Cancelled(x, J, n, g)}
<1>1. 0 \in S
  <2>1. \A T \in UpTo(J, 0) : T = {}
    BY FS_Subset, FS_EmptySet, FS_CardinalityType DEF UpTo
  <2>2. Cancelled(x, J, 0, [T \in UpTo(J, 0) |-> x])
    BY <2>1 DEF Cancelled
  <2> QED BY <2>2
<1>2. ASSUME NEW n \in Nat, n \in S PROVE n + 1 \in S
  <2>1. PICK g : Cancelled(x, J, n, g)
    BY <1>2
  <2> DEFINE h == [T \in UpTo(J, n + 1) |->
                     IF T = {} THEN x ELSE Cancel(One(T), g[T \ {One(T)}])]
  <2>2. \A T \in UpTo(J, n) : T \in UpTo(J, n + 1) /\ h[T] = g[T]
    BY <2>1, UpToGrows DEF Cancelled
  <2>3. \A T \in UpTo(J, n + 1) : T # {} => T \ {One(T)} \in UpTo(J, n)
    BY LessOne
  <2>4. h = [T \in UpTo(J, n + 1) |->
               IF T = {} THEN x ELSE Cancel(One(T), h[T \ {One(T)}])]
    BY <2>2, <2>3
  <2> HIDE DEF h
  <2>5. Cancelled(x, J, n + 1, h)
    BY <2>4 DEF Cancelled
  <2> QED BY <2>5
<1> HIDE DEF S
<1>3. \A n \in Nat : n \in S
  BY <1>1, <1>2, NatSet
<1> QED
  BY <1>3 DEF S

LEMMA CancelIs ==
  ASSUME NEW x, NEW J, IsFiniteSet(J)
  PROVE  \E g : CancelTable(x, J, g)
<1> DEFINE F(g) == g = [T \in SUBSET J |->
                          IF T = {} THEN x ELSE Cancel(One(T), g[T \ {One(T)}])]
           f == CHOOSE g : F(g)
<1>1. Cardinality(J) \in Nat /\ UpTo(J, Cardinality(J)) = SUBSET J
  BY FS_CardinalityType, FS_Subset DEF UpTo
<1>2. PICK g : Cancelled(x, J, Cardinality(J), g)
  BY <1>1, CancelExists
<1>3. F(g)
  BY <1>1, <1>2 DEF Cancelled
<1>4. F(f)
  BY <1>3
<1>5. CancelAll(x, J) = f[J]
  BY DEF CancelAll, FoldSet, MapThenFoldSet, One
<1> HIDE DEF f
<1> QED
  BY <1>4, <1>5 DEF CancelTable

LEMMA ResumeExists ==
  ASSUME NEW x, NEW J, IsFiniteSet(J)
  PROVE  \A n \in Nat : \E g : Resumed(x, J, n, g)
<1> DEFINE S == {n \in Nat : \E g : Resumed(x, J, n, g)}
<1>1. 0 \in S
  <2>1. \A T \in UpTo(J, 0) : T = {}
    BY FS_Subset, FS_EmptySet, FS_CardinalityType DEF UpTo
  <2>2. Resumed(x, J, 0, [T \in UpTo(J, 0) |-> x])
    BY <2>1 DEF Resumed
  <2> QED BY <2>2
<1>2. ASSUME NEW n \in Nat, n \in S PROVE n + 1 \in S
  <2>1. PICK g : Resumed(x, J, n, g)
    BY <1>2
  <2> DEFINE h == [T \in UpTo(J, n + 1) |->
                     IF T = {} THEN x ELSE Resume(One(T), g[T \ {One(T)}])]
  <2>2. \A T \in UpTo(J, n) : T \in UpTo(J, n + 1) /\ h[T] = g[T]
    BY <2>1, UpToGrows DEF Resumed
  <2>3. \A T \in UpTo(J, n + 1) : T # {} => T \ {One(T)} \in UpTo(J, n)
    BY LessOne
  <2>4. h = [T \in UpTo(J, n + 1) |->
               IF T = {} THEN x ELSE Resume(One(T), h[T \ {One(T)}])]
    BY <2>2, <2>3
  <2> HIDE DEF h
  <2>5. Resumed(x, J, n + 1, h)
    BY <2>4 DEF Resumed
  <2> QED BY <2>5
<1> HIDE DEF S
<1>3. \A n \in Nat : n \in S
  BY <1>1, <1>2, NatSet
<1> QED
  BY <1>3 DEF S

LEMMA ResumeIs ==
  ASSUME NEW x, NEW J, IsFiniteSet(J)
  PROVE  \E g : ResumeTable(x, J, g)
<1> DEFINE F(g) == g = [T \in SUBSET J |->
                          IF T = {} THEN x ELSE Resume(One(T), g[T \ {One(T)}])]
           f == CHOOSE g : F(g)
<1>1. Cardinality(J) \in Nat /\ UpTo(J, Cardinality(J)) = SUBSET J
  BY FS_CardinalityType, FS_Subset DEF UpTo
<1>2. PICK g : Resumed(x, J, Cardinality(J), g)
  BY <1>1, ResumeExists
<1>3. F(g)
  BY <1>1, <1>2 DEF Resumed
<1>4. F(f)
  BY <1>3
<1>5. ResumeAll(x, J) = f[J]
  BY DEF ResumeAll, FoldSet, MapThenFoldSet, One
<1> HIDE DEF f
<1> QED
  BY <1>4, <1>5 DEF ResumeTable

\* Cancelling the commits of a page takes them out and says nothing.
LEMMA CancelEventsIs ==
  ASSUME NEW s, IsSrv(s), NEW p
  PROVE  /\ IsSrv(CancelEvents(s, p)) /\ CancelEvents(s, p).out = s.out
         /\ CancelEvents(s, p).jobs = {j \in s.jobs : j.page # p}
<1> DEFINE C == {j \in s.jobs : j.page = p}
<1>1. IsFiniteSet(C)
  BY FS_Subset DEF IsSrv
<1>0. CancelEvents(s, p) = CancelAll(s, C)
  BY DEF CancelEvents, CancelAll
<1> HIDE DEF C
<1>10. PICK g : CancelTable(s, C, g)
  BY <1>1, CancelIs
<1>2. /\ CancelAll(s, C) = g[C] /\ g[{}] = s
      /\ \A T \in SUBSET C : T # {} => g[T] = Cancel(One(T), g[T \ {One(T)}])
  BY <1>10 DEF CancelTable
<1>3. CancelEvents(s, p) = g[C]
  BY <1>0, <1>2
<1> DEFINE Fits(T) == IsSrv(g[T]) /\ g[T].out = s.out /\ g[T].jobs = s.jobs \ T
           N == {n \in Nat : \A T \in UpTo(C, n) : Fits(T)}
<1>4. 0 \in N
  <2>1. \A T \in UpTo(C, 0) : T = {}
    BY <1>1, FS_Subset, FS_EmptySet, FS_CardinalityType DEF UpTo
  <2> QED BY <1>2, <2>1
<1>5. ASSUME NEW n \in Nat, n \in N PROVE n + 1 \in N
  <2>0. Fits({})
    BY <1>2
  <2> SUFFICES ASSUME NEW T \in UpTo(C, n + 1) PROVE Fits(T)
    OBVIOUS
  <2> SUFFICES ASSUME T # {} PROVE Fits(T)
    BY <2>0
  <2> DEFINE j == One(T)
             x == g[T \ {j}]
  <2>1. j \in T /\ T \in SUBSET C /\ Fits(T \ {j})
    BY <1>1, <1>5, LessOne DEF UpTo
  <2>2. g[T] = Tombstone(Restored(Taken(x, j), j.ev.snap), j)
    BY <1>2, <2>1 DEF Cancel
  <2> HIDE DEF j, x
  <2> DEFINE t == Taken(x, j)
  <2>3. IsSrv(x) /\ x.out = s.out /\ x.jobs = s.jobs \ (T \ {j})
    BY <2>1 DEF x
  <2>5. IsSrv(t) /\ t.out = s.out /\ t.jobs = s.jobs \ T
    BY <2>1, <2>3, TakenIs
  <2> HIDE DEF t
  <2> DEFINE y == Restored(t, j.ev.snap)
  <2>4. IsSrv(y) /\ y.out = s.out /\ y.jobs = s.jobs \ T
    BY <2>5, RestoredAlike DEF Alike
  <2>6. g[T] = Tombstone(y, j)
    BY <2>2 DEF t
  <2> HIDE DEF y
  <2> QED BY <2>4, <2>6, TombstoneAlike DEF Alike
<1> HIDE DEF N
<1>6. \A n \in Nat : n \in N
  BY <1>4, <1>5, NatSet
<1>7. C \in UpTo(C, Cardinality(C)) /\ Cardinality(C) \in Nat
  BY <1>1, FS_CardinalityType DEF UpTo
<1>8. Fits(C)
  BY <1>6, <1>7 DEF N
<1> QED
  BY <1>3, <1>8 DEF C

\* Resuming commits of one page pays what is owed to it.
LEMMA ResumeAllPays ==
  ASSUME NEW J, NEW x, NEW p, IsSrv(x), Owing(J, x, {p}),
         NEW C, IsFiniteSet(C), \A j \in C : "page" \in DOMAIN j /\ j.page = p
  PROVE  /\ IsSrv(ResumeAll(x, C))
         /\ IF C = {} THEN ResumeAll(x, C) = x ELSE Owing(J, ResumeAll(x, C), {})
<1>7. PICK g : ResumeTable(x, C, g)
  BY ResumeIs
<1>1. /\ ResumeAll(x, C) = g[C] /\ g[{}] = x
      /\ \A T \in SUBSET C : T # {} => g[T] = Resume(One(T), g[T \ {One(T)}])
  BY <1>7 DEF ResumeTable
<1> DEFINE Pays(T) == IsSrv(g[T]) /\ Owing(J, g[T], {p}) /\ (T # {} => Owing(J, g[T], {}))
           N == {n \in Nat : \A T \in UpTo(C, n) : Pays(T)}
<1>2. 0 \in N
  <2>1. \A T \in UpTo(C, 0) : T = {}
    BY FS_Subset, FS_EmptySet, FS_CardinalityType DEF UpTo
  <2> QED BY <1>1, <2>1
<1>3. ASSUME NEW n \in Nat, n \in N PROVE n + 1 \in N
  <2>0. Pays({})
    BY <1>1
  <2> SUFFICES ASSUME NEW T \in UpTo(C, n + 1) PROVE Pays(T)
    OBVIOUS
  <2> SUFFICES ASSUME T # {} PROVE Pays(T)
    BY <2>0
  <2> DEFINE j == One(T)
             y == g[T \ {j}]
  <2>1. j \in C /\ T \in SUBSET C /\ Pays(T \ {j})
    BY <1>3, LessOne DEF UpTo
  <2>2. g[T] = Continue(y, j, Rejected, TRUE)
    BY <1>1, <2>1 DEF Resume
  <2> HIDE DEF j, y
  <2>3. Goes(y, g[T], p) /\ IsSrv(y) /\ Owing(J, y, {p})
    BY <2>1, <2>2, ContinueGoes DEF y
  <2>4. Owing(J, g[T], {}) /\ IsSrv(g[T])
    BY <2>3, GoesPays
  <2> QED BY <2>4, StillOwing
<1> HIDE DEF N
<1>4. \A n \in Nat : n \in N
  BY <1>2, <1>3, NatSet
<1>5. C \in UpTo(C, Cardinality(C)) /\ Cardinality(C) \in Nat
  BY FS_CardinalityType DEF UpTo
<1>6. Pays(C)
  BY <1>4, <1>5 DEF N
<1> QED
  BY <1>1, <1>6

\* One message that begins nothing.
LEMMA QuietRecord ==
  ASSUME NEW s, IsSrv(s), s.out = <<>>, NEW r, Alike(s, r),
         NEW ty \in Types \ Begins, NEW p, NEW k
  PROVE  IsSrv(Record(r, ty, p, k)) /\ Owing(s.jobs, Record(r, ty, p, k), {})
<1> DEFINE m == [type |-> ty, page |-> p, count |-> k]
           y == Record(r, ty, p, k)
<1>1. IsSrv(y) /\ y.jobs = s.jobs /\ y.out = Append(<<>>, m)
  BY RecordIs DEF Alike
<1>2. m.type \in Types \ Begins
  OBVIOUS
<1> HIDE DEF m, y
<1>3. Len(y.out) = 1 /\ y.out[1] = m
  BY <1>1, <1>2, ListEmpty, ListAppend
<1> QED
  BY <1>1, <1>2, <1>3 DEF Owing, y

LEMMA DiscardServes ==
  ASSUME NEW s, IsSrv(s), s.out = <<>>, NEW p
  PROVE  IsSrv(Discard(s, p)) /\ Owing(s.jobs, Discard(s, p), {})
<1> DEFINE C == {j \in s.jobs : j.page = p}
           r == RollbackTransaction(s, p)
           b == [r EXCEPT !.buf = RemoveEntries(@, p)]
           c == CancelEvents(b, p)
           x == Record(c, "discarded", p, 0)
           m == [type |-> "discarded", page |-> p, count |-> 0]
<1>1. Discard(s, p) = ResumeAll(x, C)
  BY DEF Discard, ResumeAll
<1>2. IsFiniteSet(C) /\ \A j \in C : "page" \in DOMAIN j /\ j.page = p
  BY FS_Subset DEF IsSrv
<1>3. Alike(s, r)
  BY RollbackAlike
<1> HIDE DEF r
<1>4. Alike(s, b)
  BY <1>3 DEF Alike, IsSrv, SrvFields
<1> HIDE DEF b
<1>5. IsSrv(c) /\ c.out = <<>> /\ c.jobs = {j \in s.jobs : j.page # p}
  BY <1>4, CancelEventsIs DEF Alike
<1> HIDE DEF c
<1>6. IsSrv(x) /\ x.jobs = c.jobs /\ x.out = Append(<<>>, m)
  BY <1>5, RecordIs DEF Types
<1>7. m.type \in Types \ Begins
  BY DEF Types, Begins
<1> HIDE DEF x, m
<1>8. Len(x.out) = 1 /\ x.out[1] = m
  BY <1>6, <1>7, ListEmpty, ListAppend
<1>9. Owing(s.jobs, x, {p})
  BY <1>5, <1>6, <1>7, <1>8 DEF Owing, Has
<1>10. C = {} => Owing(s.jobs, x, {})
  <2>1. C = {} => ~Has(s.jobs, p)
    BY DEF Has
  <2> QED BY <1>7, <1>8, <1>9, <2>1 DEF Owing
<1> HIDE DEF C
<1>11. /\ IsSrv(ResumeAll(x, C))
       /\ IF C = {} THEN ResumeAll(x, C) = x ELSE Owing(s.jobs, ResumeAll(x, C), {})
  BY <1>2, <1>6, <1>9, ResumeAllPays
<1> QED
  BY <1>1, <1>10, <1>11

LEMMA StartServes ==
  ASSUME NEW s, IsSrv(s), s.out = <<>>, NEW p, NEW repair \in BOOLEAN, NEW ok
  PROVE  LET y == StartCommit(s, p, repair, ok) IN
         /\ IsSrv(y) /\ Owing(s.jobs, y, {})
         /\ Has(y.jobs, p) \/ Over(y.out, p)
<1> DEFINE s1 == IF repair THEN s ELSE RollbackTransaction(s, p)
           batch == OfPage(s1.buf, p)
           ty == IF repair THEN "refixing" ELSE "started"
           s2 == Record(s1, ty, p, CountOps(batch))
           s3 == IF repair THEN s2 ELSE WriteTransaction(s2, p, batch)
           j == [page |-> p, batch |-> batch, tx |-> s3.tx.id, snap |-> Snap(s3, FilesOf(batch)),
                 chunks |-> Split(batch), i |-> 1, failed |-> {}, files |-> {},
                 applied |-> {}, attempt |-> 0, ev |-> Nil]
           res == [status |-> "done", applied |-> IdsOf(batch), failed |-> {},
                   files |-> FilesOf(batch)]
           y == StartCommit(s, p, repair, ok)
           m == [type |-> ty, page |-> p, count |-> CountOps(batch)]
<1>1. y \in {Record(s2, "done", p, 0), Conclude(s3, j, res, ok), Dispatch(s3, j, j.chunks[1])}
  BY DEF StartCommit
<1>2. Alike(s, s1)
  BY RollbackAlike DEF Alike
<1>3. "page" \in DOMAIN j /\ j.page = p /\ m.type \in Types /\ m.page = p /\ ty \in Types
  BY DEF Types
<1> HIDE DEF s1, y
<1>4. IsSrv(s2) /\ s2.jobs = s.jobs /\ s2.out = Append(<<>>, m)
  BY <1>2, <1>3, RecordIs DEF Alike
<1> HIDE DEF s2
<1>5. IsSrv(s3) /\ s3.jobs = s.jobs /\ s3.out = Append(<<>>, m)
  BY <1>4, WriteAlike DEF Alike
<1> HIDE DEF s3, m, batch, j, res, ty
<1>6. Len(Append(<<>>, m)) = 1 /\ Append(<<>>, m)[1] = m
  BY <1>3, ListEmpty, ListAppend
<1>7. Owing(s.jobs, s2, {p}) /\ Owing(s.jobs, s3, {p})
  BY <1>3, <1>4, <1>5, <1>6 DEF Owing
<1>8. CASE y = Record(s2, "done", p, 0)
  <2> DEFINE e == [type |-> "done", page |-> p, count |-> 0]
  <2>0. "done" \in Types
    BY DEF Types
  <2> DEFINE r == Record(s2, "done", p, 0)
  <2>3. IsSrv(r) /\ r.jobs = s2.jobs /\ r.out = Append(s2.out, e)
    <3> HIDE DEF e
    <3>1. IsSrv(s2)
      BY <1>4
    <3> QED BY <3>1, <2>0, RecordIs DEF e
  <2>1. IsSrv(y) /\ y.jobs = s2.jobs /\ y.out = Append(s2.out, e)
    BY <1>8, <2>3
  <2>2. e.type \in Ends /\ e.page = p
    BY DEF Ends
  <2> HIDE DEF e
  <2>4. Goes(s2, y, p)
    BY <2>1, <2>2 DEF Goes
  <2> QED BY <1>4, <1>7, <2>4, GoesPays DEF y
<1>9. CASE y \in {Conclude(s3, j, res, ok), Dispatch(s3, j, j.chunks[1])}
  <2>1. Goes(s3, y, p)
    BY <1>3, <1>5, <1>9, ConcludeGoes, DispatchGoes
  <2> QED BY <1>5, <1>7, <2>1, GoesPays DEF y
<1> QED
  BY <1>1, <1>8, <1>9

-----------------------------------------------------------------------------
(* The dock: what is stored for the next load belongs to a dock that is    *)
(* busy or has asked for a decision.                                       *)
IsDock(d) ==
  /\ DOMAIN d = {"count", "busy", "pill", "trash", "choice", "stored", "asked"}
  /\ d.busy \in BOOLEAN /\ d.asked \in BOOLEAN
Held(d) == IsDock(d) /\ (d.stored # "none" /\ ~d.asked => d.busy)
Stuck(d) == d.busy /\ ~d.asked

LEMMA HiddenHeld == Held(Hidden) /\ ~Stuck(Hidden)
BY DEF Held, IsDock, Stuck, Hidden

LEMMA StoreIs ==
  ASSUME NEW d, IsDock(d), NEW phase
  PROVE  /\ IsDock(Store(d, phase))
         /\ Store(d, phase).busy = d.busy /\ Store(d, phase).asked = d.asked
BY DEF IsDock, Store

LEMMA SetLoadingIs ==
  ASSUME NEW d, IsDock(d), NEW on \in BOOLEAN
  PROVE  /\ Held(SetLoading(d, on))
         /\ SetLoading(d, on).busy = on /\ SetLoading(d, on).asked = d.asked
<1> DEFINE e == [d EXCEPT !.busy = on, !.pill = ~on, !.trash = ~on, !.choice = @ /\ ~on]
<1>1. IsDock(e) /\ e.busy = on /\ e.asked = d.asked
  BY DEF IsDock
<1>2. SetLoading(d, on) = IF on THEN Store(e, IF d.stored = "none" THEN "applying" ELSE d.stored)
                          ELSE Unstored(e)
  BY DEF SetLoading
<1> HIDE DEF e
<1>3. CASE on = TRUE
  <2> DEFINE ph == IF d.stored = "none" THEN "applying" ELSE d.stored
             x == Store(e, ph)
  <2>1. SetLoading(d, on) = x
    BY <1>2, <1>3
  <2> HIDE DEF ph
  <2>2. IsDock(x) /\ x.busy = TRUE /\ x.asked = d.asked
    BY <1>1, <1>3, StoreIs
  <2> HIDE DEF x
  <2>3. Held(x)
    BY <2>2 DEF Held
  <2> QED BY <1>3, <2>1, <2>2, <2>3
<1>4. CASE on = FALSE
  BY <1>1, <1>2, <1>4 DEF Held, IsDock, Unstored
<1> QED BY <1>3, <1>4

LEMMA UpdateCounterIs ==
  ASSUME NEW d, IsDock(d), NEW k
  PROVE  /\ Held(UpdateCounter(d, k))
         /\ Held(d) /\ Stuck(UpdateCounter(d, k)) => Stuck(d)
<1> DEFINE e == [d EXCEPT !.count = k]
<1>1. IsDock(e) /\ e.busy = d.busy /\ e.asked = d.asked /\ e.stored = d.stored
  BY DEF IsDock
<1>2. UpdateCounter(d, k) = IF k = 0 THEN Hidden
                            ELSE IF e.busy \/ e.stored # "none" THEN SetLoading(e, TRUE) ELSE e
  BY DEF UpdateCounter
<1> HIDE DEF e
<1> DEFINE x == UpdateCounter(d, k)
<1> HIDE DEF x
<1>3. CASE k = 0
  BY <1>2, <1>3, HiddenHeld DEF x
<1>4. CASE k # 0 /\ (e.busy \/ e.stored # "none")
  <2>1. x = SetLoading(e, TRUE)
    BY <1>2, <1>4 DEF x
  <2>2. Held(x) /\ x.asked = d.asked
    BY <1>1, <2>1, SetLoadingIs
  <2> QED BY <1>1, <1>4, <2>2 DEF x, Held, Stuck
<1>5. CASE k # 0 /\ ~(e.busy \/ e.stored # "none")
  <2>1. x = e
    BY <1>2, <1>5 DEF x
  <2> QED BY <1>1, <1>5, <2>1 DEF x, Held, Stuck
<1> QED
  BY <1>3, <1>4, <1>5

LEMMA RepairingIs ==
  ASSUME NEW d, Held(d)
  PROVE  Held(Repairing(d))
BY StoreIs, SetLoadingIs DEF Repairing, Held

LEMMA ShowDecisionIs ==
  ASSUME NEW d, IsDock(d)
  PROVE  Held(ShowDecision(d)) /\ ~Stuck(ShowDecision(d))
<1> DEFINE e == Store(d, "decision")
<1>1. IsDock(e)
  BY StoreIs
<1>2. ShowDecision(d) = [e EXCEPT !.busy = FALSE, !.pill = FALSE, !.trash = FALSE,
                                  !.choice = TRUE, !.asked = TRUE]
  BY DEF ShowDecision
<1> HIDE DEF e
<1> QED BY <1>1, <1>2 DEF Held, IsDock, Stuck

LEMMA UnstoredIs ==
  ASSUME NEW d, IsDock(d)
  PROVE  Held(Unstored(d)) /\ (Stuck(Unstored(d)) => Stuck(d))
BY DEF Held, IsDock, Stuck, Unstored

\* Activity leaves a dock busy only if it begins something or the dock was,
\* and never when it ends something.
LEMMA OnActivityIs ==
  ASSUME NEW d, Held(d), NEW m, m.type \in Types, NEW k
  PROVE  /\ Held(OnActivity(d, m, k))
         /\ Stuck(OnActivity(d, m, k)) => m.type \notin Ends /\ (m.type \in Begins \/ Stuck(d))
<1> DEFINE x == OnActivity(d, m, k)
<1>0. IsDock(d)
  BY DEF Held
<1>1. CASE m.type \in {"stashed", "discarded"}
  <2>1. PICK n : x = UpdateCounter(d, n)
    BY <1>1 DEF OnActivity
  <2> HIDE DEF x
  <2>2. Held(x) /\ (Stuck(x) => Stuck(d))
    BY <1>0, <2>1, UpdateCounterIs
  <2> QED BY <1>1, <2>2 DEF x, Ends
<1>2. CASE m.type = "started"
  <2> DEFINE e == IF m.count > 0 THEN Store(UpdateCounter(d, m.count), "applying") ELSE d
  <2>1. x = SetLoading(e, TRUE)
    BY <1>2 DEF OnActivity
  <2>2. IsDock(UpdateCounter(d, m.count))
    BY <1>0, UpdateCounterIs DEF Held
  <2>3. IsDock(e)
    BY <1>0, <2>2, StoreIs
  <2> HIDE DEF x, e
  <2>4. Held(x)
    BY <2>1, <2>3, SetLoadingIs
  <2> QED BY <1>2, <2>4 DEF x, Ends, Begins
<1>3. CASE m.type = "refixing"
  <2> DEFINE e == IF m.count > 0 THEN UpdateCounter(d, m.count) ELSE d
             r == Repairing(e)
  <2>1. x = SetLoading(r, TRUE)
    BY <1>3 DEF OnActivity
  <2>2. Held(e)
    BY <1>0, UpdateCounterIs
  <2> HIDE DEF e
  <2>3. IsDock(r)
    BY <2>2, RepairingIs DEF Held
  <2> HIDE DEF x, r
  <2>4. Held(x)
    BY <2>1, <2>3, SetLoadingIs
  <2> QED BY <1>3, <2>4 DEF x, Ends, Begins
<1>4. CASE m.type = "repairing"
  <2>1. x = Repairing(d)
    BY <1>4 DEF OnActivity
  <2>2. Held(x)
    BY <2>1, RepairingIs
  <2> QED BY <1>4, <2>2 DEF Ends, Begins
<1>5. CASE m.type = "decision"
  <2>1. x = ShowDecision(d)
    BY <1>5 DEF OnActivity
  <2> QED BY <1>0, <2>1, ShowDecisionIs
<1>6. CASE m.type = "rolledback"
  <2> DEFINE u == Unstored(d)
  <2>1. x = UpdateCounter(u, k)
    BY <1>6 DEF OnActivity
  <2>2. Held(u) /\ IsDock(u) /\ (Stuck(u) => Stuck(d))
    BY <1>0, UnstoredIs DEF Held
  <2> HIDE DEF u, x
  <2>3. Held(x) /\ (Stuck(x) => Stuck(u))
    BY <2>1, <2>2, UpdateCounterIs
  <2> QED BY <1>6, <2>2, <2>3 DEF x, Ends
<1>7. CASE m.type \in {"done", "failed"}
  <2> DEFINE u == SetLoading(d, FALSE)
  <2>1. PICK n : x = UpdateCounter(u, n)
    BY <1>7 DEF OnActivity
  <2>2. Held(u) /\ IsDock(u) /\ ~Stuck(u)
    BY <1>0, SetLoadingIs DEF Held, Stuck
  <2> HIDE DEF u, x
  <2>3. Held(x) /\ ~Stuck(x)
    BY <2>1, <2>2, UpdateCounterIs
  <2> QED BY <2>3 DEF x
<1> QED
  BY <1>1, <1>2, <1>3, <1>4, <1>5, <1>6, <1>7 DEF Types

LEMMA AfterAnswerIs ==
  ASSUME NEW d, Held(d), NEW m, m.ok \in BOOLEAN
  PROVE  /\ Held(AfterAnswer(d, m))
         /\ Stuck(AfterAnswer(d, m)) => Stuck(d) /\ ~(m.kind = "repair" /\ ~m.ok)
<1> DEFINE x == AfterAnswer(d, m)
<1>0. IsDock(d)
  BY DEF Held
<1>1. CASE m.kind \in {"stash", "discard"} /\ m.ok
  <2>1. PICK n : x = UpdateCounter(d, n)
    BY <1>1 DEF AfterAnswer
  <2> HIDE DEF x
  <2>2. Held(x) /\ (Stuck(x) => Stuck(d))
    BY <1>0, <2>1, UpdateCounterIs
  <2> QED BY <1>1, <2>2 DEF x
<1>2. CASE m.kind = "commit" /\ ~m.ok
  <2>1. x \in {SetLoading(d, FALSE), Hidden}
    BY <1>2 DEF AfterAnswer
  <2> HIDE DEF x
  <2>2. Held(x) /\ ~Stuck(x)
    BY <1>0, <2>1, SetLoadingIs, HiddenHeld DEF Stuck
  <2> QED BY <2>2 DEF x
<1>3. CASE m.kind = "repair"
  <2>1. x = IF m.ok THEN [d EXCEPT !.choice = FALSE] ELSE ShowDecision(d)
    BY <1>3 DEF AfterAnswer
  <2>2. CASE m.ok
    BY <1>0, <2>1, <2>2 DEF Held, IsDock, Stuck
  <2>3. CASE ~m.ok
    BY <1>0, <2>1, <2>3, ShowDecisionIs
  <2> QED BY <2>2, <2>3
<1>4. CASE m.kind = "rollback" /\ m.ok
  <2> DEFINE u == Unstored(d)
  <2>1. x = UpdateCounter(u, m.count)
    BY <1>4 DEF AfterAnswer
  <2>2. Held(u) /\ IsDock(u) /\ (Stuck(u) => Stuck(d))
    BY <1>0, UnstoredIs DEF Held
  <2> HIDE DEF u, x
  <2>3. Held(x) /\ (Stuck(x) => Stuck(u))
    BY <2>1, <2>2, UpdateCounterIs
  <2> QED BY <1>4, <2>2, <2>3 DEF x
<1>5. CASE /\ ~(m.kind \in {"stash", "discard"} /\ m.ok) /\ ~(m.kind = "commit" /\ ~m.ok)
           /\ m.kind # "repair" /\ ~(m.kind = "rollback" /\ m.ok)
  <2>1. x = d
    BY <1>5 DEF AfterAnswer
  <2> QED BY <1>5, <2>1
<1> QED
  BY <1>1, <1>2, <1>3, <1>4, <1>5

-----------------------------------------------------------------------------
(***************************************************************************)
(* The invariant.  CopyTypes holds throughout, whatever fails; the rest as *)
(* long as nothing has.                                                    *)
(***************************************************************************)
RequestKinds == {"none", "stash", "commit", "discard", "repair", "rollback"}
CopyTypes ==
  /\ IsSrv(srv) /\ srv.out = <<>> /\ faults \in Nat
  /\ DOMAIN dock = Tabs /\ DOMAIN req = Tabs /\ DOMAIN resp = Tabs /\ DOMAIN wire = Tabs
  /\ \A t \in Tabs :
       /\ Held(dock[t]) /\ IsList(wire[t]) /\ Answerable(srv.jobs, wire[t])
       /\ req[t].kind \in RequestKinds /\ resp[t].ok \in BOOLEAN
       /\ req[t].kind # "none" => resp[t].kind = "none"
Promised(J, q, p) == Has(J, p) \/ Over(q, p)
Waits(t) ==
  \/ req[t].kind \in {"commit", "repair"}
  \/ resp[t].kind = "repair" /\ ~resp[t].ok
  \/ Promised(srv.jobs, wire[t], PageOf[t])
BusyInv ==
  /\ CopyTypes
  /\ faults = 0 => /\ up
                   /\ \A t \in Tabs : /\ Stuck(dock[t]) => Waits(t)
                                      /\ resp[t].kind = "commit" => resp[t].ok

LEMMA CatAnswers ==
  ASSUME NEW J, NEW s, IsSrv(s), Owing(J, s, {}), NEW q, IsList(q), Answerable(J, q)
  PROVE  LET r == q \o s.out IN
         /\ IsList(r) /\ Answerable(s.jobs, r)
         /\ \A p : /\ Over(s.out, p) => Over(r, p)
                   /\ Promised(J, q, p) => Promised(s.jobs, r, p)
<1> DEFINE o == s.out
           r == q \o o
<1>1. IsList(o)
  BY DEF IsSrv
<1>2. /\ IsList(r) /\ Len(q) \in Nat /\ Len(o) \in Nat /\ Len(r) = Len(q) + Len(o)
      /\ \A i \in 1..Len(q) : r[i] = q[i]
      /\ \A i \in 1..Len(o) : r[Len(q) + i] = o[i]
  <2> HIDE DEF o
  <2> QED BY <1>1, ListCat
<1> HIDE DEF r
<1>3. \A i \in 1..Len(q) : i \in 1..Len(r)
  BY <1>2
<1>4. \A i \in 1..Len(o) : Len(q) + i \in 1..Len(r)
  <2> HIDE DEF o
  <2> QED BY <1>2
<1>5. \A i \in 1..Len(r) : i \in 1..Len(q) \/ \E k \in 1..Len(o) : i = Len(q) + k
  <2> SUFFICES ASSUME NEW i \in 1..Len(r), i \notin 1..Len(q)
               PROVE  i - Len(q) \in 1..Len(o) /\ i = Len(q) + (i - Len(q))
    OBVIOUS
  <2> HIDE DEF o
  <2> QED BY <1>2
<1>6. \A p : Over(o, p) => Over(r, p)
  BY <1>2, <1>4 DEF Over, EndsAt
<1>7. \A p : Over(q, p) => Over(r, p)
  BY <1>2, <1>3 DEF Over, EndsAt
<1>8. \A p : Promised(J, q, p) => Promised(s.jobs, r, p)
  BY <1>6, <1>7 DEF Promised, Owing
<1>9. ASSUME NEW i \in 1..Len(q), r[i].type \in Begins
      PROVE  Has(s.jobs, r[i].page) \/ \E k \in 1..Len(r) : i < k /\ EndsAt(r, k, r[i].page)
  <2>1. r[i] = q[i]
    BY <1>2
  <2>2. CASE Has(J, q[i].page)
    <3>1. Has(s.jobs, q[i].page) \/ Over(o, q[i].page)
      BY <2>2 DEF Owing
    <3>2. ASSUME NEW k \in 1..Len(o), EndsAt(o, k, q[i].page)
          PROVE  \E h \in 1..Len(r) : i < h /\ EndsAt(r, h, q[i].page)
      <4>1. Len(q) + k \in 1..Len(r) /\ r[Len(q) + k] = o[k]
        BY <1>2, <1>4
      <4>2. i < Len(q) + k
        <5> HIDE DEF o
        <5> QED BY <1>2
      <4> QED BY <3>2, <4>1, <4>2 DEF EndsAt
    <3> QED BY <2>1, <3>1, <3>2 DEF Over
  <2>3. ASSUME NEW k \in 1..Len(q), i < k, EndsAt(q, k, q[i].page)
        PROVE  \E h \in 1..Len(r) : i < h /\ EndsAt(r, h, q[i].page)
    BY <1>2, <1>3, <2>3 DEF EndsAt
  <2> QED BY <1>9, <2>1, <2>2, <2>3 DEF Answerable
<1>10. ASSUME NEW i \in 1..Len(o), o[i].type \in Begins
       PROVE  \/ Has(s.jobs, o[i].page)
              \/ \E k \in 1..Len(r) : Len(q) + i < k /\ EndsAt(r, k, o[i].page)
  <2>1. ASSUME NEW k \in 1..Len(o), i < k, EndsAt(o, k, o[i].page)
        PROVE  \E h \in 1..Len(r) : Len(q) + i < h /\ EndsAt(r, h, o[i].page)
    <3>1. Len(q) + k \in 1..Len(r) /\ r[Len(q) + k] = o[k]
      BY <1>2, <1>4
    <3>2. Len(q) + i < Len(q) + k
      <4> HIDE DEF o
      <4> QED BY <1>2, <2>1
    <3> QED BY <2>1, <3>1, <3>2 DEF EndsAt
  <2> QED BY <1>10, <2>1 DEF Owing
<1>11. Answerable(s.jobs, r)
  BY <1>2, <1>5, <1>9, <1>10 DEF Answerable
<1> QED
  BY <1>2, <1>6, <1>8, <1>11 DEF r

\* What the server's move keeps and what it adds.
LEMMA BecomesKeeps ==
  ASSUME CopyTypes, NEW s, IsSrv(s), Owing(srv.jobs, s, {}), Becomes(s)
  PROVE  /\ IsSrv(srv') /\ srv'.out = <<>> /\ srv'.jobs = s.jobs /\ DOMAIN wire' = Tabs
         /\ \A t \in Tabs :
              /\ IsList(wire'[t]) /\ Answerable(srv'.jobs, wire'[t])
              /\ \A p : /\ Promised(srv.jobs, wire[t], p) => Promised(srv'.jobs, wire'[t], p)
                        /\ Promised(s.jobs, s.out, p) => Promised(srv'.jobs, wire'[t], p)
<1>1. IsSrv(srv') /\ srv'.out = <<>> /\ srv'.jobs = s.jobs
  BY ListEmpty DEF Becomes, IsSrv, SrvFields
<1>2. wire' = [t \in Tabs |-> wire[t] \o s.out]
  BY DEF Becomes
<1>3. ASSUME NEW t \in Tabs
      PROVE  /\ IsList(wire'[t]) /\ Answerable(srv'.jobs, wire'[t])
             /\ \A p : /\ Promised(srv.jobs, wire[t], p) => Promised(srv'.jobs, wire'[t], p)
                       /\ Over(s.out, p) => Over(wire'[t], p)
  <2>1. wire'[t] = wire[t] \o s.out
    BY <1>2
  <2>2. IsList(wire[t]) /\ Answerable(srv.jobs, wire[t])
    BY DEF CopyTypes
  <2> QED BY <1>1, <2>1, <2>2, CatAnswers
<1> QED
  BY <1>1, <1>2, <1>3 DEF Promised

-----------------------------------------------------------------------------
(* The steps *)

LEMMA FaultIs ==
  ASSUME faults \in Nat, NEW yes \in BOOLEAN, Fault(yes)
  PROVE  faults' \in Nat /\ (faults' = 0 => faults = 0 /\ ~yes)
BY DEF Fault

\* The server moves while the tabs do nothing.
LEMMA ServerMoves ==
  ASSUME BusyInv, NEW s, IsSrv(s), Owing(srv.jobs, s, {}), Becomes(s),
         UNCHANGED <<up, dock, req, resp>>, faults' \in Nat, faults' = 0 => faults = 0
  PROVE  BusyInv'
<1>1. CopyTypes
  BY DEF BusyInv
<1>2. /\ IsSrv(srv') /\ srv'.out = <<>> /\ srv'.jobs = s.jobs /\ DOMAIN wire' = Tabs
      /\ \A t \in Tabs :
           /\ IsList(wire'[t]) /\ Answerable(srv'.jobs, wire'[t])
           /\ \A p : Promised(srv.jobs, wire[t], p) => Promised(srv'.jobs, wire'[t], p)
  BY <1>1, BecomesKeeps
<1>3. CopyTypes'
  BY <1>1, <1>2 DEF CopyTypes
<1>4. \A t \in Tabs : Waits(t) => Waits(t)'
  BY <1>2 DEF Waits
<1> QED
  BY <1>3, <1>4 DEF BusyInv

\* The agent works; the server's commits and its activity stay.
LEMMA AgentMoves ==
  ASSUME BusyInv, Alike(srv, srv'), UNCHANGED <<up, dock, req, resp, wire>>,
         faults' \in Nat, faults' = 0 => faults = 0
  PROVE  BusyInv'
<1>1. CopyTypes'
  BY DEF BusyInv, CopyTypes, Alike
<1>2. \A t \in Tabs : Waits(t) => Waits(t)'
  BY DEF Waits, Alike
<1> QED
  BY <1>1, <1>2 DEF BusyInv

LEMMA AgentSteps ==
  ASSUME BusyInv, AgentEdits \/ StaleReply \/ AgentInterrupted \/ \E j \in srv.jobs : AgentTakes(j)
  PROVE  BusyInv'
<1>1. IsSrv(srv) /\ faults \in Nat
  BY DEF BusyInv, CopyTypes
<1>2. CASE AgentEdits
  <2>1. Alike(srv, srv')
    BY <1>1, <1>2 DEF AgentEdits, Alike, IsSrv, SrvFields
  <2> QED BY <1>1, <1>2, <2>1, AgentMoves DEF AgentEdits
<1>3. CASE StaleReply
  <2> DEFINE T == {x \in srv.tombs : x.id = agent.id}
             r == Restored(srv, (CHOOSE x \in T : TRUE).snap)
  <2>1. srv' = srv \/ srv' = [r EXCEPT !.tombs = @ \ T]
    BY <1>3 DEF StaleReply
  <2>2. Alike(srv, r)
    BY <1>1, RestoredAlike
  <2> HIDE DEF r, T
  <2>3. Alike(srv, srv')
    BY <1>1, <2>1, <2>2 DEF Alike, IsSrv, SrvFields
  <2> QED BY <1>1, <1>3, <2>3, AgentMoves DEF StaleReply
<1>4. CASE AgentInterrupted
  <2>1. Alike(srv, srv')
    BY <1>1, <1>4 DEF AgentInterrupted, Alike, IsSrv, SrvFields
  <2>2. faults' \in Nat /\ (faults' = 0 => faults = 0)
    BY <1>1, <1>4, FaultIs DEF AgentInterrupted
  <2> QED BY <1>4, <2>1, <2>2, AgentMoves DEF AgentInterrupted
<1>5. CASE \E j \in srv.jobs : AgentTakes(j)
  BY <1>1, <1>5, AgentMoves DEF AgentTakes, Alike
<1> QED
  BY <1>2, <1>3, <1>4, <1>5

\* A commit whose event is over goes on.
LEMMA ContinueSteps ==
  ASSUME BusyInv, NEW j \in srv.jobs, AgentReplies(j) \/ Timeout(j)
  PROVE  BusyInv'
<1>1. IsSrv(srv) /\ srv.out = <<>> /\ faults \in Nat /\ "page" \in DOMAIN j
  BY DEF BusyInv, CopyTypes, IsSrv
<1> DEFINE p == j.page
           k == Taken(srv, j)
<1>2. IsSrv(k) /\ k.jobs = srv.jobs \ {j} /\ k.out = <<>>
  BY <1>1, TakenIs
<1>3. \A q : Has(srv.jobs, q) => Has(k.jobs, q) \/ q = p
  BY <1>2 DEF Has
<1> HIDE DEF k
<1>4. CASE AgentReplies(j)
  <2> DEFINE s == IF j.attempt > 0 THEN Record(k, "repairing", p, 0) ELSE k
             m == [type |-> "repairing", page |-> p, count |-> 0]
  <2>0. \E res \in Results(j.ev.batch), ok \in BOOLEAN : Fault(~ok) /\ Becomes(Continue(s, j, res, ok))
    BY <1>4, Zenon DEF AgentReplies, k
  <2>1. PICK res \in Results(j.ev.batch), ok \in BOOLEAN : Fault(~ok) /\ Becomes(Continue(s, j, res, ok))
    BY <2>0
  <2> HIDE DEF s
  <2>2. faults' \in Nat /\ (faults' = 0 => faults = 0)
    BY <1>1, <2>1, FaultIs
  <2> DEFINE x == Record(k, "repairing", p, 0)
  <2>10. "repairing" \in Types
    BY DEF Types
  <2>11. IsSrv(x) /\ x.jobs = k.jobs /\ x.out = Append(<<>>, m)
    BY <1>2, <2>10, RecordIs
  <2>12. s \in {x, k}
    BY DEF s
  <2> HIDE DEF x, s, m
  <2>3. IsSrv(s) /\ s.jobs = k.jobs /\ s.out \in {<<>>, Append(<<>>, m)}
    BY <1>2, <2>11, <2>12
  <2>4. m.type \in Types /\ m.page = p
    BY DEF Types, m
  <2>5. s.out = <<>> \/ (Len(s.out) = 1 /\ s.out[1] = m)
    BY <2>3, <2>4, ListEmpty, ListAppend
  <2>6. Owing(srv.jobs, s, {p})
    BY <1>3, <2>3, <2>4, <2>5, ListEmpty DEF Owing
  <2> DEFINE y == Continue(s, j, res, ok)
  <2>7. Goes(s, y, p)
    BY <1>1, <2>3, ContinueGoes
  <2> HIDE DEF y
  <2>8. IsSrv(y) /\ Owing(srv.jobs, y, {})
    BY <2>3, <2>6, <2>7, GoesPays
  <2>9. Becomes(y) /\ UNCHANGED <<up, dock, req, resp>>
    BY <1>4, <2>1 DEF y, AgentReplies
  <2> QED BY <2>2, <2>8, <2>9, ServerMoves
<1>5. CASE Timeout(j)
  <2> DEFINE s == Tombstone(k, j)
             y == Continue(s, j, Rejected, TRUE)
  <2>1. Alike(k, s)
    BY <1>2, TombstoneAlike
  <2>9. Becomes(y) /\ UNCHANGED <<up, dock, req, resp, faults>>
    BY <1>5 DEF Timeout, k
  <2> HIDE DEF s
  <2>2. IsSrv(s) /\ s.jobs = k.jobs /\ s.out = <<>>
    BY <1>2, <2>1 DEF Alike
  <2>3. Owing(srv.jobs, s, {p})
    BY <1>3, <2>2, ListEmpty DEF Owing
  <2>4. Goes(s, y, p)
    BY <1>1, <2>2, ContinueGoes
  <2> HIDE DEF y
  <2>5. IsSrv(y) /\ Owing(srv.jobs, y, {})
    BY <2>2, <2>3, <2>4, GoesPays
  <2> QED BY <1>1, <2>5, <2>9, ServerMoves
<1> QED
  BY <1>4, <1>5

\* Reloads and crashes are faults; a restart finds the server down.
LEMMA FaultSteps ==
  ASSUME BusyInv,
         \/ Crash \/ Restart \/ \E s : CutShort(s)
         \/ \E t \in Tabs : Reload(t)
  PROVE  BusyInv'
<1>1. CopyTypes /\ IsSrv(srv) /\ srv.out = <<>> /\ faults \in Nat /\ (faults = 0 => up)
  BY DEF BusyInv, CopyTypes
<1>2. CASE Crash
  <2>1. faults' \in Nat /\ faults' # 0
    BY <1>1, <1>2, FaultIs DEF Crash
  <2>2. IsFiniteSet({})
    BY FS_EmptySet
  <2>3. IsSrv(srv') /\ srv'.out = <<>> /\ srv'.jobs = {}
    BY <1>1, <1>2, <2>2 DEF Crash, IsSrv, SrvFields
  <2>4. DOMAIN wire' = Tabs /\ \A t \in Tabs : wire'[t] = <<>>
    BY <1>2 DEF Crash
  <2>5. \A t \in Tabs : IsList(wire'[t]) /\ Answerable(srv'.jobs, wire'[t])
    BY <2>4, ListEmpty DEF Answerable
  <2> QED BY <1>1, <1>2, <2>1, <2>3, <2>4, <2>5 DEF Crash, BusyInv, CopyTypes
<1>9. ASSUME NEW s, CutShort(s)
      PROVE  BusyInv'
  <2>1. faults' \in Nat /\ faults' # 0
    BY <1>1, <1>9, FaultIs DEF CutShort
  <2>2. IsFiniteSet({})
    BY FS_EmptySet
  <2>3. IsSrv(srv') /\ srv'.out = <<>> /\ srv'.jobs = {}
    BY <1>1, <1>9, <2>2 DEF CutShort, IsSrv, SrvFields
  <2>4. DOMAIN wire' = Tabs /\ \A t \in Tabs : wire'[t] = <<>>
    BY <1>9 DEF CutShort
  <2>5. \A t \in Tabs : IsList(wire'[t]) /\ Answerable(srv'.jobs, wire'[t])
    BY <2>4, ListEmpty DEF Answerable
  <2> QED BY <1>1, <1>9, <2>1, <2>3, <2>4, <2>5 DEF CutShort, BusyInv, CopyTypes
<1>3. CASE Restart
  <2>1. Alike(srv, srv') /\ faults # 0
    BY <1>1, <1>3, RollbackAlike DEF Restart
  <2>2. \A t \in Tabs : Held(dock'[t])
    BY <1>3, HiddenHeld, UpdateCounterIs DEF Restart, Held
  <2>3. DOMAIN dock' = Tabs
    BY <1>3 DEF Restart
  <2> QED BY <1>1, <1>3, <2>1, <2>2, <2>3 DEF Restart, BusyInv, CopyTypes, Alike
<1>4. ASSUME NEW t \in Tabs, Reload(t) PROVE BusyInv'
  <2>1. faults' \in Nat /\ faults' # 0
    BY <1>1, <1>4, FaultIs DEF Reload
  <2> DEFINE d == [Hidden EXCEPT !.stored = dock[t].stored]
             e == UpdateCounter(d, CountPage(srv, PageOf[t]))
  <2>2. IsDock(d)
    BY DEF IsDock, Hidden
  <2>3. dock' = [dock EXCEPT ![t] = e]
    BY <1>4 DEF Reload
  <2> HIDE DEF d
  <2>4. Held(e)
    BY <2>2, UpdateCounterIs
  <2> HIDE DEF e
  <2>5. DOMAIN dock' = Tabs /\ \A u \in Tabs : Held(dock'[u])
    BY <1>1, <2>3, <2>4 DEF CopyTypes
  <2>6. DOMAIN wire' = Tabs /\ \A u \in Tabs : IsList(wire'[u]) /\ Answerable(srv.jobs, wire'[u])
    BY <1>1, <1>4, ListEmpty DEF CopyTypes, Reload, Answerable
  <2> QED BY <1>1, <1>4, <2>1, <2>5, <2>6 DEF Reload, BusyInv, CopyTypes
<1> QED
  BY <1>2, <1>3, <1>4, <1>9

\* A click: the dock may turn busy, and then the request asks for a commit.
LEMMA ClickMoves ==
  ASSUME BusyInv, NEW t \in Tabs, Free(t), NEW kind \in RequestKinds \ {"none"}, NEW ops, NEW d,
         req' = [req EXCEPT ![t] = [kind |-> kind, ops |-> ops]],
         DOMAIN dock' = Tabs, dock'[t] = d, \A u \in Tabs \ {t} : dock'[u] = dock[u], Held(d),
         Stuck(d) => Stuck(dock[t]) \/ kind \in {"commit", "repair"},
         UNCHANGED restVars
  PROVE  BusyInv'
<1>1. CopyTypes /\ req[t].kind = "none" /\ resp[t].kind = "none"
  BY DEF BusyInv, Free
<1>2. /\ DOMAIN req' = Tabs /\ req'[t].kind = kind
      /\ \A u \in Tabs \ {t} : req'[u] = req[u] /\ dock'[u] = dock[u]
  BY <1>1 DEF CopyTypes
<1>3. CopyTypes'
  BY <1>1, <1>2 DEF CopyTypes, restVars
<1>4. \A u \in Tabs \ {t} : Waits(u) => Waits(u)'
  BY <1>2 DEF Waits, restVars
<1>5. Waits(t) \/ kind \in {"commit", "repair"} => Waits(t)'
  BY <1>1, <1>2 DEF Waits, restVars
<1> QED
  BY <1>2, <1>3, <1>4, <1>5 DEF BusyInv, restVars

LEMMA ClickSteps ==
  ASSUME BusyInv, NEW t \in Tabs, Save(t) \/ Apply(t) \/ Trash(t) \/ KeepFixing(t) \/ RollBack(t)
  PROVE  BusyInv'
<1>1. CopyTypes /\ Free(t) /\ Held(dock[t]) /\ DOMAIN dock = Tabs
  BY DEF BusyInv, CopyTypes, Save, Apply, Trash, KeepFixing, RollBack, Click
<1>2. CASE Save(t) \/ Trash(t) \/ RollBack(t)
  <2>1. \E kind \in {"stash", "discard", "rollback"} : \E ops :
           req' = [req EXCEPT ![t] = [kind |-> kind, ops |-> ops]]
    BY <1>2 DEF Save, Trash, RollBack, Request
  <2>2. dock' = dock /\ UNCHANGED restVars
    BY <1>2 DEF Save, Trash, RollBack
  <2>3. {"stash", "discard", "rollback"} \subseteq RequestKinds \ {"none"}
    BY DEF RequestKinds
  <2> QED BY <1>1, <2>1, <2>2, <2>3, ClickMoves
<1>3. CASE Apply(t)
  <2> DEFINE d == Store(dock[t], "applying")
             e == SetLoading(d, TRUE)
  <2>1. dock' = [dock EXCEPT ![t] = e] /\ Request(t, "commit", NoOps) /\ UNCHANGED restVars
    BY <1>3 DEF Apply
  <2>2. IsDock(d)
    BY <1>1, StoreIs DEF Held
  <2> HIDE DEF d
  <2>3. Held(e)
    BY <2>2, SetLoadingIs
  <2> HIDE DEF e
  <2>4. "commit" \in RequestKinds \ {"none"}
    BY DEF RequestKinds
  <2> QED BY <1>1, <2>1, <2>3, <2>4, ClickMoves DEF Request
<1>4. CASE KeepFixing(t)
  <2> DEFINE e == Repairing(dock[t])
  <2>1. dock' = [dock EXCEPT ![t] = e] /\ Request(t, "repair", NoOps) /\ UNCHANGED restVars
    BY <1>4 DEF KeepFixing
  <2>2. Held(e)
    BY <1>1, RepairingIs
  <2> HIDE DEF e
  <2>3. "repair" \in RequestKinds \ {"none"}
    BY DEF RequestKinds
  <2> QED BY <1>1, <2>1, <2>2, <2>3, ClickMoves DEF Request
<1> QED
  BY <1>2, <1>3, <1>4

\* The answer to a request changes the dock for the last time.
LEMMA AnswerSteps ==
  ASSUME BusyInv, NEW t \in Tabs, Unserved(t) \/ Answer(t)
  PROVE  BusyInv'
<1>1. CopyTypes
  BY DEF BusyInv
<1>2. CASE Unserved(t)
  <2>1. faults # 0
    BY <1>2 DEF Unserved, BusyInv
  <2>2. /\ DOMAIN req' = Tabs /\ DOMAIN resp' = Tabs
        /\ \A u \in Tabs : req'[u].kind \in RequestKinds /\ resp'[u].ok \in BOOLEAN
        /\ \A u \in Tabs : req'[u].kind # "none" => resp'[u].kind = "none"
    BY <1>1, <1>2 DEF Unserved, CopyTypes, NoRequest, RequestKinds
  <2> QED BY <1>1, <1>2, <2>1, <2>2 DEF Unserved, BusyInv, CopyTypes
<1>3. CASE Answer(t)
  <2> DEFINE d == AfterAnswer(dock[t], resp[t])
  <2>1. dock' = [dock EXCEPT ![t] = d]
    BY <1>3 DEF Answer
  <2>2. Held(d) /\ (Stuck(d) => Stuck(dock[t]) /\ ~(resp[t].kind = "repair" /\ ~resp[t].ok))
    BY <1>1, AfterAnswerIs DEF CopyTypes
  <2> HIDE DEF d
  <2>3. /\ DOMAIN dock' = Tabs /\ dock'[t] = d /\ \A u \in Tabs \ {t} : dock'[u] = dock[u]
        /\ DOMAIN resp' = Tabs /\ resp'[t].kind = "none" /\ resp'[t].ok
        /\ \A u \in Tabs \ {t} : resp'[u] = resp[u]
    BY <1>1, <1>3, <2>1 DEF Answer, CopyTypes, NoAnswer
  <2>4. \A u \in Tabs : resp'[u].ok \in BOOLEAN /\ (req[u].kind # "none" => resp'[u].kind = "none")
    BY <1>1, <2>3 DEF CopyTypes
  <2>5. CopyTypes'
    BY <1>1, <1>3, <2>2, <2>3, <2>4 DEF CopyTypes, Answer
  <2>6. \A u \in Tabs : Waits(u) /\ (u = t => ~(resp[t].kind = "repair" /\ ~resp[t].ok)) => Waits(u)'
    BY <1>3, <2>3 DEF Waits, Answer
  <2>7. \A u \in Tabs : resp'[u].kind = "commit" => u # t
    BY <2>3
  <2>8. ASSUME faults = 0 PROVE up' /\ \A u \in Tabs : (Stuck(dock'[u]) => Waits(u)') /\ (resp'[u].kind = "commit" => resp'[u].ok)
    BY <1>3, <2>2, <2>3, <2>6, <2>7, <2>8 DEF BusyInv, Answer
  <2> QED BY <1>3, <2>5, <2>8 DEF BusyInv, Answer
<1> QED
  BY <1>2, <1>3

\* A tab handles its oldest activity.
LEMMA ReceiveSteps ==
  ASSUME BusyInv, NEW t \in Tabs, Receive(t)
  PROVE  BusyInv'
<1> DEFINE q == wire[t]
           p == PageOf[t]
           m == Head(q)
           d == IF m.page # p THEN dock[t] ELSE OnActivity(dock[t], m, CountPage(srv, p))
<1>1. CopyTypes /\ q # <<>> /\ IsList(q) /\ Answerable(srv.jobs, q) /\ Held(dock[t])
  BY DEF BusyInv, CopyTypes, Receive
<1>2. /\ (dock' = dock /\ d = dock[t]) \/ dock' = [dock EXCEPT ![t] = d]
      /\ wire' = [wire EXCEPT ![t] = Tail(q)]
      /\ UNCHANGED <<srv, up, req, resp, faults>>
  BY DEF Receive
<1>3. /\ IsList(Tail(q)) /\ m.type \in Types /\ Len(q) \in Nat \ {0} /\ Len(Tail(q)) = Len(q) - 1
      /\ m = q[1] /\ \A i \in 1..Len(Tail(q)) : Tail(q)[i] = q[i + 1]
  <2> HIDE DEF q
  <2> QED BY <1>1, ListTail DEF q
<1>4. /\ Held(d)
      /\ Stuck(d) => \/ m.page # p /\ Stuck(dock[t])
                     \/ m.page = p /\ m.type \notin Ends /\ (m.type \in Begins \/ Stuck(dock[t]))
  BY <1>1, <1>3, OnActivityIs
<1> HIDE DEF q, m, d
<1>5. ASSUME NEW k \in 1..Len(q), k # 1
      PROVE  k - 1 \in 1..Len(Tail(q)) /\ Tail(q)[k - 1] = q[k]
  <2>1. k - 1 \in 1..Len(Tail(q)) /\ (k - 1) + 1 = k
    BY <1>3, <1>5
  <2> QED BY <1>3, <2>1
<1>6. Answerable(srv.jobs, Tail(q))
  <2> SUFFICES ASSUME NEW i \in 1..Len(Tail(q)), Tail(q)[i].type \in Begins,
                      ~Has(srv.jobs, Tail(q)[i].page)
               PROVE  \E k \in 1..Len(Tail(q)) : i < k /\ EndsAt(Tail(q), k, Tail(q)[i].page)
    BY DEF Answerable
  <2>1. i + 1 \in 1..Len(q) /\ q[i + 1] = Tail(q)[i]
    BY <1>3
  <2>2. PICK k \in 1..Len(q) : i + 1 < k /\ EndsAt(q, k, Tail(q)[i].page)
    BY <1>1, <2>1 DEF Answerable
  <2>3. k # 1 /\ i < k - 1
    BY <2>1, <2>2, <1>3
  <2> QED BY <1>5, <2>2, <2>3 DEF EndsAt
<1>7. \A r : Over(q, r) /\ ~EndsAt(q, 1, r) => Over(Tail(q), r)
  BY <1>5 DEF Over, EndsAt
<1>8. m.type \in Begins => Promised(srv.jobs, Tail(q), m.page)
  <2> SUFFICES ASSUME m.type \in Begins, ~Has(srv.jobs, m.page)
               PROVE  Over(Tail(q), m.page)
    BY DEF Promised
  <2>1. 1 \in 1..Len(q)
    BY <1>3
  <2>2. PICK k \in 1..Len(q) : 1 < k /\ EndsAt(q, k, m.page)
    BY <1>1, <1>3, <2>1 DEF Answerable
  <2>3. k # 1
    BY <1>3, <2>2
  <2> QED BY <1>5, <2>2, <2>3 DEF Over, EndsAt
<1>9. /\ DOMAIN dock' = Tabs /\ dock'[t] = d /\ \A u \in Tabs \ {t} : dock'[u] = dock[u]
      /\ DOMAIN wire' = Tabs /\ wire'[t] = Tail(q) /\ \A u \in Tabs \ {t} : wire'[u] = wire[u]
  BY <1>1, <1>2 DEF CopyTypes
<1>10. CopyTypes'
  BY <1>1, <1>2, <1>3, <1>4, <1>6, <1>9 DEF CopyTypes
<1>11. \A u \in Tabs \ {t} : Waits(u) => Waits(u)'
  BY <1>2, <1>9 DEF Waits
<1>12. ASSUME Stuck(d), Stuck(dock[t]) => Waits(t) PROVE Waits(t)'
  <2>1. m.page = p /\ m.type \in Begins => Promised(srv.jobs, Tail(q), p)
    BY <1>8
  <2>2. Over(q, p) => Over(Tail(q), p)
    BY <1>3, <1>4, <1>7, <1>12 DEF EndsAt
  <2> QED BY <1>2, <1>4, <1>9, <1>12, <2>1, <2>2 DEF Waits, Promised, q
<1> QED
  BY <1>2, <1>9, <1>10, <1>11, <1>12 DEF BusyInv

\* What serving a request of a page does to the server.
Served(t, s) ==
  /\ IsSrv(s) /\ Owing(srv.jobs, s, {})
  /\ req[t].kind \in {"commit", "repair"} =>
       Promised(s.jobs, s.out, PageOf[t]) \/ ~resp'[t].ok

LEMMA ServeServes ==
  ASSUME BusyInv, NEW t \in Tabs, Serve(t)
  PROVE  \E s : /\ Served(t, s) /\ Becomes(s)
                /\ \E x, n : /\ resp' = [resp EXCEPT ![t] = [kind |-> req[t].kind, ok |-> x, count |-> n]]
                            /\ x \in BOOLEAN /\ (~x => req[t].kind # "commit")
                /\ faults' \in Nat /\ (faults' = 0 => faults = 0)
<1> DEFINE p == PageOf[t]
           k == req[t].kind
           stashed == [srv EXCEPT !.n = @ + 1,
                          !.buf = StageEntry(@, [id |-> srv.n + 1, page |-> p, ops |-> req[t].ops])]
           missing == k = "repair" /\ srv.tx = Nil
           r == RollbackTransaction(srv, p)
           Outcome(ok) ==
             CASE k = "stash"    -> IF ok THEN Record(stashed, "stashed", p, CountPage(stashed, p)) ELSE srv
               [] k = "discard"  -> Discard(srv, p)
               [] k = "rollback" -> Record(r, "rolledback", p, CountPage(r, p))
               [] missing        -> srv
               [] OTHER          -> StartCommit(srv, p, k = "repair", ok)
           Ok(ok) == ~missing /\ (ok \/ k # "stash")
<1>1. PICK ok \in BOOLEAN :
        /\ ok \/ k \in {"stash", "repair"}
        /\ Fault(~ok) /\ Becomes(Outcome(ok))
        /\ resp' = [resp EXCEPT ![t] = [kind |-> k, ok |-> Ok(ok), count |-> CountPage(Outcome(ok), p)]]
  BY Zenon DEF Serve
<1> DEFINE s == Outcome(ok)
           x == Ok(ok)
<1>2. IsSrv(srv) /\ srv.out = <<>> /\ faults \in Nat /\ k \in RequestKinds \ {"none"} /\ DOMAIN resp = Tabs
  BY DEF BusyInv, CopyTypes, Serve
<1>3. faults' \in Nat /\ (faults' = 0 => faults = 0)
  BY <1>1, <1>2, FaultIs
<1>4. x \in BOOLEAN /\ (~x => k # "commit") /\ resp'[t].ok = x
  BY <1>1, <1>2
<1>5. IsSrv(srv) /\ Owing(srv.jobs, srv, {})
  BY <1>2, ListEmpty DEF Owing
<1>6. Served(t, s)
  <2>1. CASE k = "stash"
    <3>1. Alike(srv, stashed)
      BY <1>2 DEF Alike, IsSrv, SrvFields
    <3>2. s = srv \/ s = Record(stashed, "stashed", p, CountPage(stashed, p))
      BY <2>1
    <3> HIDE DEF s, stashed
    <3>3. "stashed" \in Types \ Begins
      BY DEF Types, Begins
    <3> QED BY <1>2, <1>5, <2>1, <3>1, <3>2, <3>3, QuietRecord DEF Served
  <2>2. CASE k = "discard"
    <3>1. s = Discard(srv, p)
      BY <2>2
    <3> HIDE DEF s
    <3> QED BY <1>2, <2>2, <3>1, DiscardServes DEF Served
  <2>3. CASE k = "rollback"
    <3>1. s = Record(r, "rolledback", p, CountPage(r, p))
      BY <2>3
    <3>2. Alike(srv, r)
      BY <1>2, RollbackAlike
    <3> HIDE DEF s, r
    <3>3. "rolledback" \in Types \ Begins
      BY DEF Types, Begins
    <3> QED BY <1>2, <2>3, <3>1, <3>2, <3>3, QuietRecord DEF Served
  <2>4. CASE missing
    <3>1. s = srv /\ ~x
      BY <2>4
    <3> HIDE DEF s, x
    <3> QED BY <1>4, <1>5, <3>1 DEF Served
  <2>5. CASE k \in {"commit", "repair"} /\ ~missing
    <3> DEFINE fix == k = "repair"
    <3>1. s = StartCommit(srv, p, fix, ok) /\ fix \in BOOLEAN
      BY <2>5
    <3> HIDE DEF s, fix
    <3> QED BY <1>2, <3>1, StartServes DEF Served, Promised
  <2> QED BY <1>2, <2>1, <2>2, <2>3, <2>4, <2>5 DEF RequestKinds
<1> HIDE DEF s, x
<1>7. \E n : resp' = [resp EXCEPT ![t] = [kind |-> k, ok |-> x, count |-> n]]
  BY <1>1 DEF s, x
<1> QED
  BY <1>1, <1>3, <1>4, <1>6, <1>7 DEF s

LEMMA ServeSteps ==
  ASSUME BusyInv, NEW t \in Tabs, Serve(t)
  PROVE  BusyInv'
<1>1. CopyTypes /\ req[t].kind # "none"
  BY DEF BusyInv, Serve
<1>2. PICK s : /\ Served(t, s) /\ Becomes(s)
               /\ \E x, n : /\ resp' = [resp EXCEPT ![t] = [kind |-> req[t].kind, ok |-> x, count |-> n]]
                           /\ x \in BOOLEAN /\ (~x => req[t].kind # "commit")
               /\ faults' \in Nat /\ (faults' = 0 => faults = 0)
  BY ServeServes
<1>3. /\ IsSrv(srv') /\ srv'.out = <<>> /\ srv'.jobs = s.jobs /\ DOMAIN wire' = Tabs
      /\ \A u \in Tabs :
           /\ IsList(wire'[u]) /\ Answerable(srv'.jobs, wire'[u])
           /\ \A p : /\ Promised(srv.jobs, wire[u], p) => Promised(srv'.jobs, wire'[u], p)
                     /\ Promised(s.jobs, s.out, p) => Promised(srv'.jobs, wire'[u], p)
  BY <1>1, <1>2, BecomesKeeps DEF Served
<1>4. /\ DOMAIN resp' = Tabs /\ resp'[t].kind = req[t].kind /\ resp'[t].ok \in BOOLEAN
      /\ (~resp'[t].ok => req[t].kind # "commit")
      /\ \A u \in Tabs \ {t} : resp'[u] = resp[u]
  BY <1>1, <1>2 DEF CopyTypes
<1>5. /\ DOMAIN req' = Tabs /\ req'[t].kind = "none" /\ \A u \in Tabs \ {t} : req'[u] = req[u]
      /\ UNCHANGED <<up, dock>>
  BY <1>1 DEF CopyTypes, Serve, NoRequest
<1>6. CopyTypes'
  BY <1>1, <1>2, <1>3, <1>4, <1>5 DEF CopyTypes, RequestKinds
<1>7. \A u \in Tabs \ {t} : Waits(u) => Waits(u)'
  BY <1>3, <1>4, <1>5 DEF Waits
<1>8. ASSUME Waits(t) PROVE Waits(t)'
  <2>1. CASE req[t].kind \in {"commit", "repair"}
    <3>1. Promised(s.jobs, s.out, PageOf[t]) \/ (req[t].kind = "repair" /\ ~resp'[t].ok)
      BY <1>2, <1>4, <2>1 DEF Served
    <3> QED BY <1>3, <1>4, <3>1 DEF Waits
  <2>2. CASE Promised(srv.jobs, wire[t], PageOf[t])
    BY <1>3, <2>2 DEF Waits
  <2>3. resp[t].kind = "none"
    BY <1>1 DEF CopyTypes
  <2> QED BY <1>8, <2>1, <2>2, <2>3 DEF Waits
<1> QED
  BY <1>2, <1>4, <1>5, <1>6, <1>7, <1>8 DEF BusyInv

-----------------------------------------------------------------------------
LEMMA CopyInitBusy == CopyInit => BusyInv
<1> SUFFICES ASSUME CopyInit PROVE BusyInv
  OBVIOUS
<1>1. IsSrv(Fresh) /\ Fresh.out = <<>>
  BY ListEmpty, FS_EmptySet DEF IsSrv, SrvFields, Fresh
<1>2. \A t \in Tabs : /\ dock[t] = Hidden /\ wire[t] = <<>>
                      /\ req[t].kind = "none" /\ resp[t].kind = "none" /\ resp[t].ok = TRUE
  BY DEF CopyInit, NoRequest, NoAnswer
<1>3. \A t \in Tabs : /\ Held(dock[t]) /\ IsList(wire[t]) /\ Answerable(srv.jobs, wire[t])
                      /\ resp[t].ok \in BOOLEAN /\ req[t].kind \in RequestKinds
  <2>1. Answerable(srv.jobs, <<>>)
    BY ListEmpty DEF Answerable
  <2>2. TRUE \in BOOLEAN /\ "none" \in RequestKinds
    BY DEF RequestKinds
  <2> QED BY <1>2, <2>1, <2>2, ListEmpty, HiddenHeld
<1>5. /\ IsSrv(srv) /\ srv.out = <<>> /\ faults \in Nat
      /\ DOMAIN dock = Tabs /\ DOMAIN req = Tabs /\ DOMAIN resp = Tabs /\ DOMAIN wire = Tabs
  BY <1>1 DEF CopyInit
<1>6. CopyTypes
  BY <1>2, <1>3, <1>5 DEF CopyTypes
<1>4. \A t \in Tabs : ~Stuck(dock[t])
  BY <1>2, HiddenHeld
<1> QED
  BY <1>2, <1>4, <1>6 DEF BusyInv, CopyInit

LEMMA CopyNextBusy == BusyInv /\ [CopyNext]_copyVars => BusyInv'
<1> SUFFICES ASSUME BusyInv, [CopyNext]_copyVars PROVE BusyInv'
  OBVIOUS
<1>1. ASSUME NEW t \in Tabs,
             \/ Save(t) \/ Apply(t) \/ Trash(t) \/ KeepFixing(t) \/ RollBack(t)
             \/ Serve(t) \/ Unserved(t) \/ Answer(t) \/ Receive(t) \/ Reload(t)
      PROVE  BusyInv'
  BY <1>1, ClickSteps, ServeSteps, AnswerSteps, ReceiveSteps, FaultSteps
<1>2. ASSUME NEW j \in srv.jobs, AgentTakes(j) \/ Timeout(j) \/ AgentReplies(j)
      PROVE  BusyInv'
  BY <1>2, AgentSteps, ContinueSteps
<1>5. ASSUME \/ \E t \in Tabs : CrashInRepair(t)
             \/ \E j \in srv.jobs : CrashInReply(j) \/ CrashInTimeout(j)
      PROVE  BusyInv'
  <2>1. \E s : CutShort(s)
    BY <1>5 DEF CrashInRepair, CrashInReply, CrashInTimeout
  <2> QED BY <2>1, FaultSteps
<1>3. CASE AgentEdits \/ StaleReply \/ AgentInterrupted \/ Crash \/ Restart
  BY <1>3, AgentSteps, FaultSteps
<1>4. CASE UNCHANGED copyVars
  BY <1>4 DEF copyVars, BusyInv, CopyTypes, Waits
<1> QED
  BY <1>1, <1>2, <1>3, <1>4, <1>5 DEF CopyNext

\* Whatever the pages, the chunks, the repair attempts and the order in which
\* activity is handled: as long as nothing was lost, a dock that shows an
\* apply as running (setPendingApplyLoading) waits for the answer to its
\* request, for a commit that awaits its event, or for the pushed end of one.
THEOREM BusyHasCauseHolds == CopySpec => []BusyHasCause
<1>1. BusyInv => BusyHasCause
  <2> SUFFICES ASSUME BusyInv, faults = 0, NEW t \in Tabs, dock[t].busy, ~dock[t].asked
               PROVE  \/ req[t].kind \in {"commit", "repair"}
                      \/ resp[t].kind = "repair" /\ ~resp[t].ok
                      \/ \E j \in srv.jobs : j.page = PageOf[t]
                      \/ \E i \in DOMAIN wire[t] : /\ wire[t][i].type \in {"done", "failed", "decision"}
                                                   /\ wire[t][i].page = PageOf[t]
    BY DEF BusyHasCause
  <2>1. Waits(t) /\ IsList(wire[t])
    BY DEF BusyInv, CopyTypes, Stuck
  <2>2. DOMAIN wire[t] = 1..Len(wire[t])
    BY <2>1 DEF IsList
  <2> QED BY <2>1, <2>2 DEF Waits, Promised, Has, Over, EndsAt, Ends
<1> QED
  BY <1>1, CopyInitBusy, CopyNextBusy, PTL DEF CopySpec

=============================================================================
