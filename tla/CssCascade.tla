----------------------------- MODULE CssCascade -----------------------------
(***************************************************************************)
(* The style every element of a static page is given before the detector's *)
(* rules look at it: static-html/css-cascade.mjs.                          *)
(*                                                                         *)
(* The style sheets are parsed into rules, one per selector, and every     *)
(* declaration is expanded into longhands and applied to the elements the  *)
(* selector matches; style attributes follow.  Per element and property    *)
(* one declaration is kept, and each new one is compared with it alone.    *)
(* Then the elements are computed from the root down.                      *)
(*                                                                         *)
(* A value is a sequence of tokens.  A property is a pair: a name and a    *)
(* side, if it has one; its dashed and its camel-case name are one name.   *)
(* Lengths are whole numbers.  The parser and the selector engine are      *)
(* libraries: which items a sheet has and which elements a selector        *)
(* matches are given.                                                      *)
(***************************************************************************)
EXTENDS Integers, Sequences, FiniteSets, SequencesExt

CONSTANTS
  Elements,            \* the elements in document order, parents before children
  ParentOf, NoParent,  \* parentElement
  StyleSheets,         \* the contents of the style elements
  Links,               \* the link elements: [stylesheet, href, remote, readable : BOOLEAN, sheet]
  StyleAttribute,      \* per element: the parts of its style attribute
  MatchedBy,           \* per selector: [known : BOOLEAN, nodes : SUBSET Nodes]
  Customs, Lower,      \* custom properties, and their names in lower case
  Timings, Plurals     \* words that start like a timing function; that end with "s"

VARIABLES
  step,                \* "parse", "match", "inline", "compute", "done"
  rules,               \* what collectStaticCssRules found
  item, nth,                \* the rule or element, and its declaration, that is next
  specified,           \* per element: the declaration kept for a property, and the properties in order
  custom, style        \* per element: custom properties and values

cssVars == <<step, rules, item, nth, specified, custom, style>>

Nodes == ToSet(Elements)

-----------------------------------------------------------------------------
(* Tokens *)

Word(w) == [kind |-> "word", of |-> w]
Px(n) == [kind |-> "length", unit |-> "px", num |-> n]
Number(n) == [kind |-> "number", num |-> n]
Color(c) == [kind |-> "color", rgb |-> c, modern |-> FALSE]
NoColor == <<>>

Inherit == <<Word("inherit")>>
IsWord(t, words) == t.kind = "word" /\ t.of \in words
FirstOf(v, Test(_)) == LET k == SelectInSeq(v, Test) IN IF k = 0 THEN <<>> ELSE <<v[k]>>

\* extractStaticColor: a value that starts with var() is taken whole
ExtractColor(v) ==
  IF v # <<>> /\ Head(v).kind = "var" THEN v ELSE FirstOf(v, LAMBDA t : t.kind = "color")

\* splitCssList
CssList(v) ==
  LET commas == {k \in DOMAIN v : v[k].kind = "comma"}
      cuts == <<0>> \o SetToSortSeq(commas, <) \o <<Len(v) + 1>>
  IN  [k \in 1 .. Len(cuts) - 1 |-> SubSeq(v, cuts[k] + 1, cuts[k + 1] - 1)]

-----------------------------------------------------------------------------
(* Longhands *)

Sides == <<"Top", "Right", "Bottom", "Left">>
BoxNames == {"borderWidth", "borderColor", "padding", "margin"}
Unsided(name) == <<name, "">>

\* the keywords of STATIC_DEFAULT_STYLE; "" is the empty value
DefaultWord == [
  backgroundImage |-> "none", outlineStyle |-> "none", boxShadow |-> "none", fontFamily |-> "",
  fontStyle |-> "normal", lineHeight |-> "normal", letterSpacing |-> "normal", textTransform |-> "none",
  textAlign |-> "start", hyphens |-> "manual", webkitHyphens |-> "manual", transitionProperty |-> "",
  transitionTimingFunction |-> "", animationName |-> "", animationTimingFunction |-> "",
  webkitBackgroundClip |-> "", backgroundClip |-> "", width |-> "", height |-> "", position |-> "static",
  visibility |-> "visible", top |-> "auto", right |-> "auto", bottom |-> "auto", left |-> "auto",
  inset |-> "", display |-> "", overflow |-> "visible", overflowX |-> "visible", overflowY |-> "visible"]
DefaultColor == [color |-> <<0, 0, 0, 1>>, outlineColor |-> <<0, 0, 0, 1>>, backgroundColor |-> <<0, 0, 0, 0>>]
DefaultPx == [borderRadius |-> 0, outlineWidth |-> 0, fontSize |-> 16]

Longhands ==
  {<<b, Sides[k]>> : b \in BoxNames, k \in 1 .. 4}
    \cup {Unsided(n) : n \in DOMAIN DefaultWord \cup DOMAIN DefaultColor \cup DOMAIN DefaultPx \cup {"fontWeight"}}
DefaultStyle ==
  [p \in Longhands |->
     CASE p[1] = "borderColor" -> <<Color(<<0, 0, 0, 1>>)>>
       [] p[1] \in BoxNames \ {"borderColor"} -> <<Px(0)>>
       [] p[1] = "fontWeight" -> <<Number(400)>>
       [] p[1] \in DOMAIN DefaultColor -> <<Color(DefaultColor[p[1]])>>
       [] p[1] \in DOMAIN DefaultPx -> <<Px(DefaultPx[p[1]])>>
       [] OTHER -> IF DefaultWord[p[1]] = "" THEN <<>> ELSE <<Word(DefaultWord[p[1]])>>]
Inherited ==
  {Unsided(n) : n \in {"color", "fontFamily", "fontSize", "fontStyle", "fontWeight", "lineHeight", "letterSpacing",
                     "textTransform", "textAlign", "hyphens", "webkitHyphens"}}
CustomNames == {<<c, "custom">> : c \in Customs}

\* expandStaticBoxValues: one to four values, clockwise from the top
BoxValues(v) ==
  [k \in 1 .. 4 |-> IF k <= Len(v) THEN <<v[k]>> ELSE IF k = 4 /\ Len(v) > 1 THEN <<v[2]>> ELSE <<v[1]>>]

\* a longhand with its value, if there is one
Sets(p, v) == IF v = <<>> THEN <<>> ELSE <<<<p, v>>>>

\* parseStaticBorder: a width needs a unit, a colour may be a var()
BorderWidth(v) == FirstOf(v, LAMBDA t : t.kind = "length")
BorderColor(v) == FirstOf(v, LAMBDA t : t.kind \in {"color", "var"})
Border(sides, v) ==
  FlattenSeq([k \in DOMAIN sides |-> Sets(<<"borderWidth", sides[k]>>, BorderWidth(v))
                                       \o Sets(<<"borderColor", sides[k]>>, BorderColor(v))])

LineStyles == {"none", "hidden", "solid", "dashed", "dotted", "double", "groove", "ridge", "inset", "outset"}
Outline(v) ==
  Sets(Unsided("outlineWidth"), IF v = <<Number(0)>> THEN <<Px(0)>> ELSE BorderWidth(v))
    \o Sets(Unsided("outlineColor"), BorderColor(v))
    \o Sets(Unsided("outlineStyle"), FirstOf(v, LAMBDA t : IsWord(t, LineStyles)))

\* a gradient or url() is the image; a colour counts when it stands before it
Background(v) ==
  LET image == SelectInSeq(v, LAMBDA t : t.kind = "image")
  IN  IF image = 0 THEN Sets(Unsided("backgroundColor"), ExtractColor(v))
      ELSE Sets(Unsided("backgroundImage"), v) \o Sets(Unsided("backgroundColor"), ExtractColor(SubSeq(v, 1, image - 1)))

\* parseStaticFont: what follows the size is the family; "16px/1.5" is one token
Weights == {"bold", "normal", "lighter", "bolder"}
Font(v) ==
  LET size == SelectInSeq(v, LAMBDA t : t.kind \in {"length", "size"})
      weight(t) == IsWord(t, Weights) \/ (t.kind = "number" /\ t.num \in {100 * k : k \in 1 .. 9})
  IN  Sets(Unsided("fontStyle"), FirstOf(v, LAMBDA t : IsWord(t, {"italic"})))
        \o Sets(Unsided("fontWeight"), FirstOf(v, weight))
        \o (IF size = 0 THEN <<>>
            ELSE (IF v[size].kind = "size"
                  THEN <<<<Unsided("fontSize"), v[size].size>>, <<Unsided("lineHeight"), v[size].line>>>>
                  ELSE <<<<Unsided("fontSize"), <<v[size]>>>>>>)
                 \o Sets(Unsided("fontFamily"), SubSeq(v, size + 1, Len(v))))

\* parseStaticTransition, parseStaticAnimation: of each item the first word that may be the name,
\* and the first timing function
Keywords == {"ease", "linear", "infinite", "alternate", "forwards", "backwards", "both", "normal", "none"}
OfItems(v, Test(_)) == LET items == CssList(v) IN FlattenSeq([k \in DOMAIN items |-> FirstOf(items[k], Test)])
TimingsOf(v) == OfItems(v, LAMBDA t : t.kind = "timing" \/ IsWord(t, Timings))
Transition(v) ==
  Sets(Unsided("transitionProperty"), OfItems(v, LAMBDA t : t.kind = "word" /\ t.of \notin Keywords \cup Plurals))
    \o Sets(Unsided("transitionTimingFunction"), TimingsOf(v))
Animation(v) ==
  Sets(Unsided("animationName"), OfItems(v, LAMBDA t : t.kind = "word" /\ t.of \notin Keywords \cup {"running", "paused"}))
    \o Sets(Unsided("animationTimingFunction"), TimingsOf(v))

\* expandStaticDeclaration: the longhands a declaration sets, in order
Expand(p, v) ==
  IF v = <<>> THEN <<>>
  ELSE CASE p \in CustomNames -> <<<<<<Lower[p[1]], "custom">>, v>>>>
         [] p = Unsided("background") -> Background(v)
         [] p = Unsided("border") -> Border(Sides, v)
         [] p \in {<<"border", Sides[k]>> : k \in 1 .. 4} -> Border(<<p[2]>>, v)
         [] p = Unsided("outline") -> Outline(v)
         [] p \in {Unsided(b) : b \in BoxNames} -> [k \in 1 .. 4 |-> <<<<p[1], Sides[k]>>, BoxValues(v)[k]>>]
         [] p = Unsided("font") -> Font(v)
         [] p = Unsided("transition") -> Transition(v)
         [] p = Unsided("animation") -> Animation(v)
         [] p \in Longhands -> <<<<p, v>>>>
         [] OTHER -> <<>>

-----------------------------------------------------------------------------
(* The cascade *)

Properties == Longhands \cup CustomNames
Bit(b) == IF b THEN 1 ELSE 0
NoDecl == [important |-> FALSE, inline |-> FALSE, specificity |-> <<0, 0, 0>>, order |-> -1, value |-> <<>>]

\* compareStaticPriority: whether new takes the place of old
Rank(d) == <<Bit(d.important), Bit(d.inline), d.specificity[1], d.specificity[2], d.specificity[3]>>
Below(a, b) == \E k \in 1 .. 5 : a[k] < b[k] /\ \A l \in 1 .. (k - 1) : a[l] = b[l]
Beats(new, old) ==
  \/ old = NoDecl
  \/ Below(Rank(old), Rank(new))
  \/ (Rank(old) = Rank(new) /\ new.order >= old.order)

\* applyStaticDeclaration, for one element: its kept declarations and the order they first came in
Given(decl) == LET pairs == Expand(decl.prop, decl.value) IN [k \in DOMAIN pairs |-> pairs[k][1]]
ValueOf(decl, p) == Expand(decl.prop, decl.value)[CHOOSE k \in DOMAIN Given(decl) : Given(decl)[k] = p][2]
Entry(decl, meta, p) ==
  [important |-> decl.important, inline |-> meta.inline, specificity |-> meta.specificity, order |-> meta.order,
   value |-> ValueOf(decl, p)]
Apply(kept, decl, meta) ==
  [of |-> [p \in Properties |->
             IF p \in ToSet(Given(decl)) /\ Beats(Entry(decl, meta, p), kept.of[p]) THEN Entry(decl, meta, p)
             ELSE kept.of[p]],
   keys |-> kept.keys \o SelectSeq(Given(decl), LAMBDA p : p \notin ToSet(kept.keys))]

\* staticSpecificity: ids inside a functional pseudo-class count too, and "::before" counts as a class
Specificity(selector) ==
  LET parts == SelectSeq(selector, LAMBDA x : x.kind # "where")
      count(v, kinds) == Len(SelectSeq(v, LAMBDA x : x.kind \in kinds))
      nested == FlattenSeq([k \in DOMAIN parts |-> parts[k].args])
  IN  <<count(parts \o nested, {"id"}), count(parts, {"class", "attribute", "pseudo", "pseudoElement"}),
        count(parts, {"type"})>>

\* collectStaticCssText: the style elements, then the linked sheets that can be read
CssText ==
  LET linked == SelectSeq(Links, LAMBDA l : l.stylesheet /\ l.href /\ ~l.remote /\ l.readable)
  IN  FlattenSeq(StyleSheets) \o FlattenSeq([k \in DOMAIN linked |-> linked[k].sheet])

\* collectStaticCssRules: one rule per selector; the conditions of an at-rule are not looked at
CollectRules(items) ==
  LET walked == SelectSeq(items, LAMBDA x : ToSet(x.within) \subseteq {"media", "supports", "layer"})
      split == [k \in DOMAIN walked |-> [n \in DOMAIN walked[k].selectors |->
                  [selector |-> walked[k].selectors[n], declarations |-> walked[k].declarations]]]
      flat == FlattenSeq(split)
  IN  [k \in DOMAIN flat |-> [selector |-> flat[k].selector, declarations |-> flat[k].declarations,
                              specificity |-> Specificity(flat[k].selector), order |-> k - 1]]

\* parseStaticStyleAttribute: a part without a colon is passed over
StyleDecls(n) == SelectSeq(StyleAttribute[n], LAMBDA d : d.colon)
\* a thousand orders are set aside for every element that has a style attribute
InlineOrder(k) ==
  LET before == {l \in 1 .. (k - 1) : StyleAttribute[Elements[l]] # <<>>}
  IN  Len(rules) + 1 + 1000 * Cardinality(before)

RuleMeta(r) == [inline |-> FALSE, specificity |-> rules[r].specificity, order |-> rules[r].order]
InlineMeta(k, n) == [inline |-> TRUE, specificity |-> <<1, 0, 0>>, order |-> InlineOrder(k) + n - 1]

\* a selector that the engine rejects matches nothing
MatchedNodes(r) ==
  LET found == MatchedBy[rules[r].selector] IN IF found.known THEN found.nodes ELSE {}

-----------------------------------------------------------------------------
(* Computed values *)

\* resolveVarRefs: a name that is not known gives its fallback, or stays as it is; nine levels at most
Substitute(v, known) ==
  FlattenSeq([k \in DOMAIN v |->
     IF v[k].kind # "var" THEN <<v[k]>>
     ELSE IF v[k].name \in DOMAIN known THEN known[v[k].name]
     ELSE IF v[k].fallback # <<>> THEN v[k].fallback ELSE <<v[k]>>])
Resolve(v, known) == FoldLeft(LAMBDA x, level : Substitute(x, known), v, [level \in 1 .. 9 |-> level])

\* resolveLengthPx: a number without a unit is a multiple
LengthPx(t, base) ==
  CASE t.kind = "number" -> t.num * base
    [] t.unit = "px" -> t.num
    [] t.unit = "rem" -> t.num * 16
    [] t.unit = "em" -> t.num * base
    [] OTHER -> (t.num * base) \div 100
InPx(v, base) == IF Len(v) = 1 /\ v[1].kind \in {"length", "number"} THEN <<Px(LengthPx(v[1], base))>> ELSE v
\* parseFloat(...) || 16
FontSize(v) == IF Len(v) = 1 /\ v[1].kind \in {"length", "number"} /\ v[1].num # 0 THEN v[1].num ELSE 16

\* normalizeStaticCssValue; size is the font size that letter spacing and line height refer to
Normalise(p, v, known, parent, size) ==
  LET r == Resolve(v, known)
      colored == p[1] \in {"color", "backgroundColor", "borderColor", "outlineColor"}
      plain == Len(r) = 1 /\ r[1].kind = "color" /\ r[1].rgb # NoColor /\ ~(p[1] = "borderColor" /\ r[1].modern)
  IN  CASE r = Inherit -> IF parent[p] # <<>> THEN parent[p] ELSE DefaultStyle[p]
        [] r # Inherit /\ colored /\ plain -> <<Color(r[1].rgb)>>
        [] r # Inherit /\ p = Unsided("fontSize") -> InPx(r, FontSize(parent[p]))
        [] r # Inherit /\ p \in {Unsided("letterSpacing"), Unsided("lineHeight")} -> InPx(r, size)
        [] OTHER -> r

\* computeNode: both loops run over the properties in the order they were first declared
KnownCustoms(n, known) ==
  LET names == SelectSeq(specified[n].keys, LAMBDA p : p \in CustomNames)
      note(acc, p) == [c \in DOMAIN acc \cup {p[1]} |->
                         IF c = p[1] THEN Resolve(specified[n].of[p].value, acc) ELSE acc[c]]
  IN  FoldLeft(note, known, names)
\* what an element starts from
Base(parent) == [p \in Longhands |-> IF p \in Inherited THEN parent[p] ELSE DefaultStyle[p]]
StyleFor(n, known, parent) ==
  LET declared(p) == specified[n].of[p] # NoDecl
      place(p) == SelectInSeq(specified[n].keys, LAMBDA q : q = p)
      fontSize == Unsided("fontSize")
      sized == Normalise(fontSize, specified[n].of[fontSize].value, known, parent, 16)
      size(p) == FontSize(IF declared(fontSize) /\ place(fontSize) < place(p) THEN sized ELSE parent[fontSize])
  IN  [p \in Longhands |-> IF declared(p) THEN Normalise(p, specified[n].of[p].value, known, parent, size(p))
                           ELSE Base(parent)[p]]

\* getStyle, makeStaticStyle: an element without a parent starts from the defaults
StyleOf(n) == IF n \in DOMAIN style THEN style[n] ELSE DefaultStyle
NoCustoms == [c \in {} |-> <<>>]
CustomOf(n) == IF n \in DOMAIN custom THEN custom[n] ELSE NoCustoms

-----------------------------------------------------------------------------
(* buildStaticStyleMap *)

CssInit ==
  /\ step = "parse"
  /\ rules = <<>>
  /\ item = 1 /\ nth = 1
  /\ specified = [n \in Nodes |-> [of |-> [p \in Properties |-> NoDecl], keys |-> <<>>]]
  /\ custom = NoCustoms /\ style = [n \in {} |-> DefaultStyle]

\* sheets the parser throws on give no rules
ParseCss ==
  /\ step = "parse"
  /\ step' = "match"
  /\ rules' \in {CollectRules(CssText), <<>>}
  /\ UNCHANGED <<item, nth, specified, custom, style>>

\* the loops over elements and declarations are exchanged: no two elements share what is kept
ApplyRule ==
  /\ step = "match" /\ item <= Len(rules) /\ nth <= Len(rules[item].declarations)
  /\ specified' = [n \in Nodes |-> IF n \in MatchedNodes(item)
                                   THEN Apply(specified[n], rules[item].declarations[nth], RuleMeta(item))
                                   ELSE specified[n]]
  /\ nth' = nth + 1
  /\ UNCHANGED <<step, rules, item, custom, style>>

NextRule ==
  /\ step = "match" /\ item <= Len(rules) /\ nth > Len(rules[item].declarations)
  /\ item' = item + 1 /\ nth' = 1
  /\ UNCHANGED <<step, rules, specified, custom, style>>

EndRules ==
  /\ step = "match" /\ item > Len(rules)
  /\ step' = "inline" /\ item' = 1 /\ nth' = 1
  /\ UNCHANGED <<rules, specified, custom, style>>

ApplyStyle ==
  /\ step = "inline" /\ item <= Len(Elements) /\ nth <= Len(StyleDecls(Elements[item]))
  /\ specified' = [n \in Nodes |-> IF n = Elements[item]
                                   THEN Apply(specified[n], StyleDecls(n)[nth], InlineMeta(item, nth))
                                   ELSE specified[n]]
  /\ nth' = nth + 1
  /\ UNCHANGED <<step, rules, item, custom, style>>

NextElement ==
  /\ step = "inline" /\ item <= Len(Elements) /\ nth > Len(StyleDecls(Elements[item]))
  /\ item' = item + 1 /\ nth' = 1
  /\ UNCHANGED <<step, rules, specified, custom, style>>

EndStyles ==
  /\ step = "inline" /\ item > Len(Elements)
  /\ step' = "compute" /\ item' = 1 /\ nth' = 1
  /\ UNCHANGED <<rules, specified, custom, style>>

ComputeNode ==
  /\ step = "compute" /\ item <= Len(Elements)
  /\ LET n == Elements[item]
         known == KnownCustoms(n, CustomOf(ParentOf[n]))
     IN  /\ custom' = [m \in DOMAIN custom \cup {n} |-> IF m = n THEN known ELSE custom[m]]
         /\ style' = [m \in DOMAIN style \cup {n} |->
                        IF m = n THEN StyleFor(n, known, StyleOf(ParentOf[n])) ELSE style[m]]
  /\ item' = item + 1
  /\ UNCHANGED <<step, rules, nth, specified>>

Computed ==
  /\ step = "compute" /\ item > Len(Elements)
  /\ step' = "done"
  /\ UNCHANGED <<rules, item, nth, specified, custom, style>>

CssNext ==
  \/ ParseCss \/ ApplyRule \/ NextRule \/ EndRules
  \/ ApplyStyle \/ NextElement \/ EndStyles
  \/ ComputeNode \/ Computed

CssSpec == CssInit /\ [][CssNext]_cssVars

-----------------------------------------------------------------------------
(* What is given: every element once, after its parent, and lists that are lists *)

IsList(s) == Len(s) \in Nat /\ DOMAIN s = 1 .. Len(s)
AreRules(rs) ==
  /\ IsList(rs)
  /\ \A k \in DOMAIN rs : /\ IsList(rs[k].declarations)
                          /\ rs[k].specificity \in Nat \X Nat \X Nat
                          /\ rs[k].order \in Nat
CssGiven ==
  /\ IsList(Elements)
  /\ \A k, l \in DOMAIN Elements : Elements[k] = Elements[l] => k = l
  /\ NoParent \notin Nodes
  /\ \A k \in DOMAIN Elements :
       ParentOf[Elements[k]] = NoParent \/ \E l \in 1 .. (k - 1) : ParentOf[Elements[k]] = Elements[l]
  /\ AreRules(CollectRules(CssText))
  /\ \A n \in Nodes : IsList(StyleDecls(n))

-----------------------------------------------------------------------------
(* Properties *)

\* The declarations that can reach an element: <<0, rule, declaration>> of a rule,
\* <<1, element, declaration>> of a style attribute
Spots == {0, 1} \X Nat \X Nat
DeclAt(q) == IF q[1] = 0 THEN rules[q[2]].declarations[q[3]] ELSE StyleDecls(Elements[q[2]])[q[3]]
EntryAt(q, p) == Entry(DeclAt(q), IF q[1] = 0 THEN RuleMeta(q[2]) ELSE InlineMeta(q[2], q[3]), p)

\* q set p on element n, and has been applied
Passed(q) == q[2] < item \/ (q[2] = item /\ q[3] < nth)
Reached(q, n, p) ==
  /\ \/ /\ q[1] = 0 /\ q[2] \in DOMAIN rules /\ q[3] \in DOMAIN rules[q[2]].declarations
        /\ n \in MatchedNodes(q[2])
        /\ step = "match" => Passed(q)
        /\ step # "parse"
     \/ /\ q[1] = 1 /\ q[2] \in DOMAIN Elements /\ q[3] \in DOMAIN StyleDecls(n)
        /\ n = Elements[q[2]]
        /\ step = "inline" => Passed(q)
        /\ step \in {"inline", "compute", "done"}
  /\ p \in ToSet(Given(DeclAt(q)))

Earlier(a, b) ==
  \/ a[1] < b[1]
  \/ a[1] = b[1] /\ a[2] < b[2]
  \/ a[1] = b[1] /\ a[2] = b[2] /\ a[3] < b[3]
\* of two declarations of p: importance, style attribute, specificity, and then the later one
LosesTo(a, b, p) ==
  \/ Below(Rank(EntryAt(a, p)), Rank(EntryAt(b, p)))
  \/ /\ Rank(EntryAt(a, p)) = Rank(EntryAt(b, p))
     /\ EntryAt(a, p).order <= EntryAt(b, p).order
     /\ EntryAt(a, p).order = EntryAt(b, p).order => Earlier(a, b)

(***************************************************************************)
(* What is kept for a property is the declaration that the cascade puts    *)
(* above all others that reached the element, though each was compared     *)
(* only with the one kept at the time; nothing is kept only if none did.   *)
(***************************************************************************)
WinnerStands ==
  \A n \in Nodes, p \in Properties :
     \/ specified[n].of[p] = NoDecl /\ \A q \in Spots : ~Reached(q, n, p)
     \/ \E w \in Spots : /\ Reached(w, n, p)
                         /\ specified[n].of[p] = EntryAt(w, p)
                         /\ \A q \in Spots : Reached(q, n, p) => q = w \/ LosesTo(q, w, p)

(***************************************************************************)
(* An element that declares nothing for an inherited property shows what   *)
(* its parent shows: the parent was computed before and stays as it is.    *)
(***************************************************************************)
InheritedAgree ==
  \A n \in Nodes, p \in Inherited :
     n \in DOMAIN style /\ specified[n].of[p] = NoDecl => style[n][p] = StyleOf(ParentOf[n])[p]
=============================================================================
