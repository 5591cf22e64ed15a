----------------------------- MODULE LiveInject -----------------------------
(***************************************************************************)
(* Putting the live script into a project and taking it out again:         *)
(* live.mjs, live-inject.mjs, live-server.mjs stop and, in a SvelteKit     *)
(* project, sveltekit-adapter.mjs.                                         *)
(*                                                                         *)
(* A run of the injector works through files of the user's one at a time,  *)
(* and may be killed between two of them (live.mjs gives it 15 seconds).   *)
(* The next run may find another port, another comment syntax and other    *)
(* files in the configuration.                                             *)
(*                                                                         *)
(* A page is known by what the injector looks for in it: the anchor of the *)
(* configuration and what follows it, the tag blocks, and the meta tags    *)
(* with a Content-Security-Policy.  Where in the text they stand is left   *)
(* out.  A policy gives the sources of each directive, {} when it has no   *)
(* such directive.  One run at a time; a policy is edited by the user only *)
(* while it is not patched (the revert would undo the edit).               *)
(***************************************************************************)
EXTENDS Naturals, FiniteSets

CONSTANTS
  Files, Tags,       \* the project's pages; the meta tags a page may have
  Ports, Sources,    \* localhost origins are known by their ports
  Vendored,          \* the files HARD_EXCLUDES matches
  Plussed,           \* the policies whose base64 form has a '+'
  Kit                \* detectSvelteKitProject

VARIABLES
  page, policy,      \* the pages; the policies the user wrote
  config,            \* .impeccable/live/config.json
  server,            \* the port of the running server
  run,               \* the injector at work
  ignored,           \* the block of LIVE_IGNORE_PATTERNS is in the ignore file
  layout, root       \* SvelteKit: +layout.svelte; the port in the root component

vars == <<page, policy, config, server, run, ignored, layout, root>>

None == "none"
Syntaxes == {"html", "jsx"}
Directives == {"script-src", "connect-src", "img-src"}
Blocks == [syntax : Syntaxes, port : Ports]
Policies == [Directives -> SUBSET Sources]
Tag == [content : BOOLEAN, value : Policies, marked : BOOLEAN, original : Policies]
Page == [there : BOOLEAN, anchor : {"none", "line", "bare"}, blocks : SUBSET Blocks, tags : [Tags -> Tag]]
Config == [literal : SUBSET Files, globbed : SUBSET Files, exclude : SUBSET Files,
           after : BOOLEAN, commentSyntax : Syntaxes]
Idle == [mode |-> "idle"]
Runs == [mode : {"insert"}, todo : SUBSET Files, config : Config, port : Ports]
          \cup [mode : {"remove"}, todo : SUBSET Files, config : Config]
          \cup [mode : {"apply"}, port : Ports] \cup [mode : {"unapply"}]
          \cup [mode : {"idle"}]

Init ==
  /\ policy \in [Files -> [Tags -> Policies]]
  /\ page \in [Files -> Page]
  /\ \A f \in Files : /\ page[f].blocks = {}
                      /\ \A t \in Tags : ~page[f].tags[t].marked /\ page[f].tags[t].value = policy[f][t]
  /\ config \in Config
  /\ server = None /\ root = None /\ ignored = FALSE
  /\ run = Idle
  /\ layout \in [there : BOOLEAN, import : {FALSE}, block : {FALSE}]

-----------------------------------------------------------------------------
(* resolveFiles: globs are filtered, explicit names are not *)
Resolved(c) == c.literal \cup (c.globbed \ (c.exclude \cup Vendored))

(* removeTag: all blocks of HTML syntax or, when there is none, of JSX *)
OfSyntax(p, s) == {b \in p.blocks : b.syntax = s}
RemoveTag(p) ==
  [p EXCEPT !.blocks = p.blocks \ (IF OfSyntax(p, "html") # {} THEN OfSyntax(p, "html") ELSE OfSyntax(p, "jsx"))]

(* insertTag, where there is an anchor; after one, a line ending is added   *)
(* when the text goes on.                                                   *)
InsertTag(p, c, port) ==
  [p EXCEPT !.blocks = p.blocks \cup {[syntax |-> c.commentSyntax, port |-> port]},
            !.anchor = IF c.after THEN "line" ELSE p.anchor]

(* appendOriginToDirective: a directive that is missing is added with self *)
AppendOrigin(pol, directive, origin) ==
  [pol EXCEPT ![directive] = IF pol[directive] = {} THEN {"self", origin} ELSE pol[directive] \cup {origin}]
Patched(pol, port) ==
  AppendOrigin(AppendOrigin(AppendOrigin(pol, "script-src", port), "connect-src", port), "img-src", "blob:")

(* patchCspMeta keeps the original beside the patched value; a tag that has *)
(* one already is not patched again.                                        *)
PatchTag(t, port) ==
  IF t.marked \/ ~t.content \/ Patched(t.value, port) = t.value THEN t
  ELSE [t EXCEPT !.value = Patched(t.value, port), !.marked = TRUE, !.original = t.value]
PatchCspMeta(p, port) == [p EXCEPT !.tags = [t \in Tags |-> PatchTag(p.tags[t], port)]]

(* revertCspMeta restores the value; the attribute is then removed by a     *)
(* regular expression made of it, which a '+' in it defeats.                *)
RevertTag(t) ==
  IF t.marked /\ t.content THEN [t EXCEPT !.value = t.original, !.marked = t.original \in Plussed] ELSE t
RevertCspMeta(p) == [p EXCEPT !.tags = [t \in Tags |-> RevertTag(p.tags[t])]]

(* What a run does to a page: one that is missing, or has no anchor, is     *)
(* reported and left as it is, an old block included.                       *)
Injected(p, c, port) ==
  IF ~p.there \/ p.anchor = "none" THEN p
  ELSE PatchCspMeta(InsertTag(RevertCspMeta(RemoveTag(p)), c, port), port)
Removed(p) == IF ~p.there THEN p ELSE RevertCspMeta(RemoveTag(p))

-----------------------------------------------------------------------------
(* The server: one is reused, or started on a free port; it may die.        *)
ServerStarts == server = None /\ server' \in Ports
                  /\ UNCHANGED <<page, policy, config, run, ignored, layout, root>>
ServerDies == server # None /\ server' = None
                /\ UNCHANGED <<page, policy, config, run, ignored, layout, root>>

(* live.mjs: the injector is started with the server's port; the ignore     *)
(* patterns come first.                                                     *)
StartInsert ==
  /\ run = Idle /\ server # None
  /\ ignored' = TRUE
  /\ run' = IF Kit THEN [mode |-> "apply", port |-> server]
            ELSE [mode |-> "insert", todo |-> Resolved(config), config |-> config, port |-> server]
  /\ UNCHANGED <<page, policy, config, server, layout, root>>

InsertFile(f) ==
  /\ run.mode = "insert" /\ f \in run.todo
  /\ page' = [page EXCEPT ![f] = Injected(page[f], run.config, run.port)]
  /\ run' = [run EXCEPT !.todo = run.todo \ {f}]
  /\ UNCHANGED <<policy, config, server, ignored, layout, root>>

(* live-server.mjs stop, which takes the tags out unless told not to, and   *)
(* live-inject.mjs --remove by itself.                                      *)
StartRemove ==
  /\ run = Idle
  /\ server' \in {server, None}
  /\ run' = IF Kit THEN [mode |-> "unapply"]
            ELSE [mode |-> "remove", todo |-> Resolved(config), config |-> config]
  /\ UNCHANGED <<page, policy, config, ignored, layout, root>>

RemoveFile(f) ==
  /\ run.mode = "remove" /\ f \in run.todo
  /\ page' = [page EXCEPT ![f] = Removed(page[f])]
  /\ run' = [run EXCEPT !.todo = run.todo \ {f}]
  /\ UNCHANGED <<policy, config, server, ignored, layout, root>>

(* The end of a run, by itself or killed before its time *)
RunEnds ==
  /\ run # Idle /\ run' = Idle
  /\ UNCHANGED <<page, policy, config, server, ignored, layout, root>>

-----------------------------------------------------------------------------
(* applySvelteKitLiveAdapter: the component first, then the layout, which   *)
(* is created when it is missing; each part of it is added once.            *)
EnsureRoot ==
  /\ run.mode = "apply" /\ root' = run.port
  /\ UNCHANGED <<page, policy, config, server, run, ignored, layout>>
PatchLayout ==
  /\ run.mode = "apply" /\ root = run.port
  /\ layout' = [there |-> TRUE, import |-> TRUE, block |-> TRUE]
  /\ run' = Idle
  /\ UNCHANGED <<page, policy, config, server, ignored, root>>

(* removeSvelteKitLiveAdapter: the layout first, then the component *)
UnpatchLayout ==
  /\ run.mode = "unapply"
  /\ layout' = [layout EXCEPT !.import = FALSE, !.block = FALSE]
  /\ UNCHANGED <<page, policy, config, server, run, ignored, root>>
RemoveRoot ==
  /\ run.mode = "unapply" /\ ~layout.import
  /\ root' = None
  /\ run' = Idle
  /\ UNCHANGED <<page, policy, config, server, ignored, layout>>

-----------------------------------------------------------------------------
(* The user: pages change, come and go between two runs, a block may be     *)
(* taken out by hand, and the configuration may be another for the next run. *)
EditPage(f) ==
  /\ \E there \in BOOLEAN, anchor \in {"none", "line", "bare"}, blocks \in SUBSET page[f].blocks :
       /\ there = page[f].there \/ run = Idle
       /\ page' = [page EXCEPT ![f] = [there |-> there, anchor |-> anchor, blocks |-> blocks, tags |-> page[f].tags]]
  /\ UNCHANGED <<policy, config, server, run, ignored, layout, root>>
EditPolicy(f, t) ==
  /\ page[f].blocks = {} /\ ~page[f].tags[t].marked
  /\ \E value \in Policies, content \in BOOLEAN :
       /\ page' = [page EXCEPT ![f].tags[t] = [page[f].tags[t] EXCEPT !.value = value, !.content = content]]
       /\ policy' = [policy EXCEPT ![f][t] = value]
  /\ UNCHANGED <<config, server, run, ignored, layout, root>>
EditConfig ==
  /\ config' \in Config
  /\ UNCHANGED <<page, policy, server, run, ignored, layout, root>>

Injector == StartInsert \/ StartRemove \/ RunEnds \/ EnsureRoot \/ PatchLayout \/ UnpatchLayout \/ RemoveRoot
              \/ \E f \in Files : InsertFile(f) \/ RemoveFile(f)
User == EditConfig \/ ServerStarts \/ ServerDies
          \/ \E f \in Files : EditPage(f) \/ \E t \in Tags : EditPolicy(f, t)
Next == Injector \/ User

Spec == Init /\ [][Next]_vars

-----------------------------------------------------------------------------
(* What the variables may hold. *)
TypeOK ==
  /\ page \in [Files -> Page] /\ policy \in [Files -> [Tags -> Policies]]
  /\ config \in Config /\ server \in Ports \cup {None} /\ root \in Ports \cup {None}
  /\ run \in Runs /\ ignored \in BOOLEAN
  /\ layout \in [there : BOOLEAN, import : BOOLEAN, block : BOOLEAN]

(* A page never loads two live scripts, whatever ports and comment syntaxes *)
(* earlier runs used and wherever they were killed (removeTag, which stops  *)
(* after the first syntax it finds).                                        *)
OneScript == \A f \in Files : \A a, b \in page[f].blocks : a = b

(* The policy the user wrote is never lost: it is what a tag says, or what  *)
(* its marker keeps, even when a patched page is patched again.             *)
PolicyKept ==
  \A f \in Files, t \in Tags :
    policy[f][t] = IF page[f].tags[t].marked THEN page[f].tags[t].original ELSE page[f].tags[t].value

(* The script a page loads is one its policies let it load and talk to,     *)
(* but for a policy whose marker revertCspMeta cannot take out: after a     *)
(* change of port it is not patched again.                                  *)
ScriptAllowed ==
  \A f \in Files : \A b \in page[f].blocks, t \in Tags :
    page[f].tags[t].content /\ policy[f][t] \notin Plussed =>
      b.port \in page[f].tags[t].value["script-src"] /\ b.port \in page[f].tags[t].value["connect-src"]

(* A removal leaves no block in the files it has been through, and their    *)
(* policies as the user wrote them; only such a marker is left behind.      *)
RemovalCleans ==
  run.mode = "remove" =>
    \A f \in Resolved(run.config) \ run.todo :
      page[f].there => /\ page[f].blocks = {}
                       /\ \A t \in Tags : /\ page[f].tags[t].value = policy[f][t]
                                          /\ page[f].tags[t].marked => policy[f][t] \in Plussed

(* What live mode writes into a project is ignored by git before it is there. *)
IgnoredFirst == root # None \/ (\E f \in Files : page[f].blocks # {}) => ignored

(* A layout that mounts the live component imports it, and what it imports  *)
(* is there, at every point where the adapter may be killed.                *)
LayoutResolves == (layout.block => layout.import) /\ (layout.import => root # None)
=============================================================================
