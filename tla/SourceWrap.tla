----------------------------- MODULE SourceWrap -----------------------------
(***************************************************************************)
(* What the live-mode scripts do to a source file: find the picked element *)
(* (live-wrap.mjs), put a variant wrapper around it or beside it           *)
(* (live-wrap.mjs, live-insert.mjs), and take the wrapper out again, with  *)
(* the original or with the accepted variant (live-accept.mjs).            *)
(*                                                                         *)
(* A file is a sequence of lines; a line is its indentation and the tokens *)
(* on it.  Tokens are what the scripts' regular expressions tell apart: an *)
(* opening tag, a closing tag, a self-closing tag, a tag whose attributes  *)
(* go on on later lines ("lt" ... "gt" or "sgt"), text, and a marker       *)
(* comment.  "key" is the class, id or data attribute a query matches.     *)
(***************************************************************************)
EXTENDS Integers, Sequences, SequencesExt, FiniteSets, FiniteSetsExt

Line(ind, toks) == [ind |-> ind, toks |-> toks]
NoKey           == <<"none", 0>>
Open(tag, key)  == [k |-> "open", tag |-> tag, key |-> key]
Self(tag)       == [k |-> "self", tag |-> tag, key |-> NoKey]
Close(tag)      == [k |-> "close", tag |-> tag, key |-> NoKey]
Lt(tag, key)    == [k |-> "lt", tag |-> tag, key |-> key]
Gt              == [k |-> "gt", tag |-> "none", key |-> NoKey]
SelfGt          == [k |-> "sgt", tag |-> "none", key |-> NoKey]
Text(v)         == [k |-> "text", tag |-> "none", key |-> <<"text", v>>]
Mark(m, id)     == [k |-> "mark", tag |-> m, key |-> <<"mark", id>>]
Blank           == Line(0, <<>>)

Count(l, kinds, tag) ==
    Cardinality({j \in DOMAIN l.toks : l.toks[j].k \in kinds /\ l.toks[j].tag = tag})
Keys(l)   == {l.toks[j].key : j \in DOMAIN l.toks}
IsBlank(l) == l.toks = <<>>
HasMark(l, m, id) == \E j \in DOMAIN l.toks : l.toks[j] = Mark(m, id)

OriginalKey      == <<"original", 0>>
VariantKey(n)    == <<"variant", n>>
WrapperKey(id)   == <<"variants", id>>
CarbonizeKey(id) == <<"carbonize", id>>

\* the first tag that opens on a line, "none" if no tag does
Opener(l) ==
    LET O == {j \in DOMAIN l.toks : l.toks[j].k \in {"open", "self", "lt"}}
    IN  IF O = {} THEN "none" ELSE l.toks[Min(O)].tag

-----------------------------------------------------------------------------
(* Finding the picked element: live-wrap.mjs *)

\* findOpenerLine: the match line itself or the first opener above it, if it
\* is of the wanted tag; 0 if there is none
BackWalk == 10
FindOpenerLine(lines, i, tag) ==
    LET from == Max({1, i - BackWalk})
        O    == {j \in from .. i : Opener(lines[j]) # "none"}
    IN  IF O = {} \/ Opener(lines[Max(O)]) # tag THEN 0 ELSE Max(O)

\* findClosingLine: per line, tags opened less tags self-closed and closed
Guess == 50
FindClosingLine(lines, start) ==
    LET tag == Opener(lines[start])
        net(i) == Count(lines[i], {"open", "lt", "self"}, tag)
                    - Count(lines[i], {"self"}, tag) - Count(lines[i], {"close"}, tag)
        depth[i \in start - 1 .. Len(lines)] ==
            IF i < start THEN 0 ELSE depth[i - 1] + net(i)
        E == {i \in start .. Len(lines) : depth[i] <= 0}
    IN  IF E = {} THEN Min({start + Guess, Len(lines)}) ELSE Min(E)

\* findAllElements: every element a query finds outside marker lines
FindAllElements(lines, key, tag) ==
    {[start |-> FindOpenerLine(lines, i, tag),
      end   |-> FindClosingLine(lines, FindOpenerLine(lines, i, tag))] :
        i \in {j \in DOMAIN lines :
                 /\ key \in Keys(lines[j])
                 /\ FindOpenerLine(lines, j, tag) # 0}}

\* filterByText: candidates whose source holds the text the browser saw
FilterByText(lines, cands, text) ==
    {c \in cands : \E i \in c.start .. c.end : <<"text", text>> \in Keys(lines[i])}

\* the element wrapCli and resolveElementMatch settle on: the only candidate,
\* the only one with the text, the first one if none has it; otherwise none
Resolve(lines, key, tag, text) ==
    LET cands == FindAllElements(lines, key, tag)
        f     == FilterByText(lines, cands, text)
        pool  == IF Cardinality(cands) = 1 \/ f = {} THEN cands ELSE f
    IN  IF Cardinality(f) > 1 /\ Cardinality(cands) > 1 THEN {}
        ELSE {c \in pool : \A d \in pool : c.start <= d.start}

-----------------------------------------------------------------------------
(* Wrapping and inserting *)

MinIndent(ls) ==
    LET I == {ls[i].ind : i \in {j \in DOMAIN ls : ~IsBlank(ls[j])}}
    IN  IF I = {} THEN 0 ELSE Min(I)

Reindent_Flat(ls, to) ==
    [i \in DOMAIN ls |-> IF IsBlank(ls[i]) THEN Blank ELSE Line(to, ls[i].toks)]

\* reindentOriginal, deindentContent: relative depth kept, common indentation replaced
Reindent(ls, to) ==
    [i \in DOMAIN ls |-> IF IsBlank(ls[i]) THEN Blank
                         ELSE Line(to + ls[i].ind - MinIndent(ls), ls[i].toks)]

\* applyBufferedManualEditToLines: a staged copy edit shown in the original
Edited(ls, edit) ==
    [i \in DOMAIN ls |->
        Line(ls[i].ind, [j \in DOMAIN ls[i].toks |->
            IF ls[i].toks[j] = Text(edit.from) THEN Text(edit.to) ELSE ls[i].toks[j]])]

Scaffold(id, ind, jsx, orig) ==
    LET start == <<Line(ind + IF jsx THEN 2 ELSE 0, <<Mark("start", id)>>)>>
        end   == <<Line(ind + IF jsx THEN 2 ELSE 0, <<Mark("end", id)>>)>>
        open  == <<Line(ind, <<Open("div", WrapperKey(id))>>)>>
        close == <<Line(ind, <<Close("div")>>)>>
        here  == <<Line(ind + 2, <<Mark("insert", id)>>)>>
    IN  IF jsx THEN open \o start \o orig \o here \o end \o close
               ELSE start \o open \o orig \o here \o close \o end

\* wrapCli: the picked lines c.start .. c.end move into the wrapper
WrapLines(lines, id, c, jsx, edits) ==
    LET picked == SubSeq(lines, c.start, c.end)
        shown  == IF edits = {} THEN picked ELSE Edited(picked, CHOOSE e \in edits : TRUE)
        ind    == lines[c.start].ind
        orig   == <<Line(ind + 2, <<Open("div", OriginalKey)>>)>>
                    \o Reindent(shown, ind + 4)
                    \o <<Line(ind + 2, <<Close("div")>>)>>
    IN  SubSeq(lines, 1, c.start - 1) \o Scaffold(id, ind, jsx, orig)
          \o SubSeq(lines, c.end + 1, Len(lines))

\* insertCli: an empty wrapper before or after the anchor
InsertLines(lines, id, c, jsx, pos) ==
    LET at  == IF pos = "before" THEN c.start - 1 ELSE c.end
        ref == IF at + 1 <= Len(lines) THEN at + 1 ELSE c.start
    IN  SubSeq(lines, 1, at) \o Scaffold(id, lines[ref].ind, jsx, <<>>)
          \o SubSeq(lines, at + 1, Len(lines))

\* the agent writes a variant at the insert line, with preview CSS if it needs it
AddVariant(lines, id, n, body, css) ==
    LET at  == CHOOSE i \in DOMAIN lines : HasMark(lines[i], "insert", id)
        ind == lines[at].ind
        style == IF css THEN <<Line(ind, <<Mark("css", id)>>)>> ELSE <<>>
        div == <<Line(ind, <<Open("div", VariantKey(n))>>)>>
                 \o Reindent(body, ind + 2) \o <<Line(ind, <<Close("div")>>)>>
    IN  SubSeq(lines, 1, at) \o style \o div \o SubSeq(lines, at + 1, Len(lines))

-----------------------------------------------------------------------------
(* Taking the wrapper out: live-accept.mjs *)

\* findMarkerBlock; {} if a marker is missing
FindMarkerBlock(lines, id) ==
    LET S == {i \in DOMAIN lines : HasMark(lines[i], "start", id)}
        E == {i \in DOMAIN lines : HasMark(lines[i], "end", id)}
    IN  IF S = {} \/ E = {} THEN {} ELSE {[start |-> Min(S), end |-> Min(E)]}

Flat(lines, a, b) ==
    FlattenSeq([i \in 1 .. b - a + 1 |->
        [j \in DOMAIN lines[a + i - 1].toks |->
            [line |-> a + i - 1, col |-> j, tok |-> lines[a + i - 1].toks[j]]]])

\* does the tag that starts at position p of the joined text close itself
SelfClosed(flat, p) ==
    LET G == {q \in p .. Len(flat) : flat[q].tok.k \in {"gt", "sgt"}}
    IN  flat[p].tok.k = "self" \/ (flat[p].tok.k = "lt" /\ G # {} /\ flat[Min(G)].tok.k = "sgt")

\* how the tag at position p moves the depth of elements of that tag
Delta(flat, p, tag) ==
    IF flat[p].tok.tag # tag THEN 0
    ELSE CASE flat[p].tok.k = "close" -> -1
           [] flat[p].tok.k \in {"open", "lt", "self"} -> IF SelfClosed(flat, p) THEN 0 ELSE 1
           [] OTHER -> 0

\* extractInnerByAttr: the text between the opener with this key and the tag
\* that closes it, as lines; {} if there is no opener or no close
ExtractInner(lines, block, key) ==
    LET flat == Flat(lines, block.start, block.end)
        P    == {p \in DOMAIN flat : flat[p].tok.k = "open" /\ flat[p].tok.key = key}
        p0   == Min(P)
        depth[p \in p0 .. Len(flat)] ==
            IF p = p0 THEN 1 ELSE depth[p - 1] + Delta(flat, p, flat[p0].tok.tag)
        C    == {p \in p0 + 1 .. Len(flat) : depth[p] = 0}
        piece(i, p1) ==
            LET Js == {flat[p].col : p \in {q \in p0 + 1 .. p1 - 1 : flat[q].line = i}}
            IN  IF Js = {} THEN Blank
                ELSE Line(lines[i].ind, SubSeq(lines[i].toks, Min(Js), Max(Js)))
    IN  IF P = {} \/ C = {} THEN {}
        ELSE {[i \in 1 .. flat[Min(C)].line - flat[p0].line + 1 |->
                 piece(flat[p0].line + i - 1, Min(C))]}

ExtractOriginal(lines, block) ==
    LET X == ExtractInner(lines, block, OriginalKey)
    IN  IF X = {} THEN <<>> ELSE CHOOSE x \in X : TRUE

\* extractVariant drops blank lines at either end
ExtractVariant(lines, block, n) ==
    {LET N == {i \in DOMAIN x : ~IsBlank(x[i])}
     IN  IF N = {} THEN <<Blank>> ELSE SubSeq(x, Min(N), Max(N)) :
        x \in ExtractInner(lines, block, VariantKey(n))}

\* expandReplaceRange: in JSX the wrapper encloses its markers
ExpandReplaceRange(lines, block, jsx) ==
    LET id == lines[block.start].toks[1].key[2]
        W  == {i \in 1 .. block.start - 1 : WrapperKey(id) \in Keys(lines[i])}
        s  == IF W = {} THEN block.start ELSE Max(W)
        flat == Flat(lines, s, Len(lines))
        depth[p \in 0 .. Len(flat)] == IF p = 0 THEN 0 ELSE depth[p - 1] + Delta(flat, p, "div")
        E  == {p \in DOMAIN flat : /\ flat[p].tok.tag = "div" /\ depth[p] <= 0
                                   /\ flat[p].line >= block.end}
    IN  IF ~jsx THEN block
        ELSE [start |-> s, end |-> IF E = {} THEN block.end ELSE flat[Min(E)].line]

ReplaceRange(lines, r, by) ==
    SubSeq(lines, 1, r.start - 1) \o by \o SubSeq(lines, r.end + 1, Len(lines))

\* handleDiscard, given the block
DiscardLines(lines, block, jsx) ==
    LET r == ExpandReplaceRange(lines, block, jsx)
    IN  ReplaceRange(lines, r, Reindent(ExtractOriginal(lines, block), lines[r.start].ind))

HasCss(lines, block) ==
    \E i \in block.start .. block.end : \E j \in DOMAIN lines[i].toks :
        lines[i].toks[j].k = "mark" /\ lines[i].toks[j].tag = "css"

\* handleAccept with buildCarbonizeReplacement, given the block and the variant
AcceptLines(lines, block, jsx, id, n, body) ==
    LET r   == ExpandReplaceRange(lines, block, jsx)
        ind == lines[r.start].ind
        in  == IF jsx THEN ind + 2 ELSE ind
        kept == <<Line(in, <<Mark("carbonize", id)>>), Line(in, <<Mark("css", id)>>),
                  Line(in, <<Open("div", VariantKey(n))>>)>>
                  \o Reindent(body, in + 2) \o <<Line(in, <<Close("div")>>)>>
        root == <<Line(ind, <<Open("div", CarbonizeKey(id))>>)>>
                  \o kept \o <<Line(ind, <<Close("div")>>)>>
    IN  ReplaceRange(lines, r, CASE ~HasCss(lines, block) -> Reindent(body, ind)
                                 [] jsx -> root
                                 [] OTHER -> kept)

\* the agent folds the preview CSS into the stylesheet and drops the scaffold
Carbonized(lines, id, n, body) ==
    LET C == {i \in DOMAIN lines : \E j \in DOMAIN lines[i].toks :
                  /\ lines[i].toks[j].key \in {<<"mark", id>>, VariantKey(n), CarbonizeKey(id)}}
        jsx == \E i \in DOMAIN lines : CarbonizeKey(id) \in Keys(lines[i])
        len == Len(body) + IF jsx THEN 6 ELSE 4
    IN  IF C = {} THEN lines
        ELSE ReplaceRange(lines, [start |-> Min(C), end |-> Min(C) + len - 1],
                          Reindent(body, lines[Min(C)].ind))

\* equal up to blank lines: the round trip leaves one before and one after
SameText(a, b) ==
    SelectSeq(a, LAMBDA l : ~IsBlank(l)) = SelectSeq(b, LAMBDA l : ~IsBlank(l))

=============================================================================
