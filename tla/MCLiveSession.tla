--------------------------- MODULE MCLiveSession ----------------------------
EXTENDS LiveSession

\* a page with one picked element that nests an element of the same tag
Hero == <<"class", "hero">>
Html == <<Line(0, <<Open("main", NoKey)>>),
          Line(2, <<Open("div", Hero)>>),
          Line(4, <<Open("div", NoKey), Text(<<"page", 1>>), Close("div")>>),
          Line(2, <<Close("div")>>),
          Line(0, <<Close("main")>>)>>

\* the same in JSX, with an opening tag over three lines and two candidates
Jsx  == <<Line(0, <<Lt("div", NoKey)>>), Line(2, <<Gt>>),
          Line(2, <<Open("div", Hero)>>),
          Line(4, <<Self("div"), Text(<<"page", 1>>)>>),
          Line(2, <<Close("div")>>),
          Line(2, <<Open("div", Hero), Text(<<"page", 2>>), Close("div")>>),
          Line(0, <<Close("div")>>)>>

\* an insertion after the last element, so that its indentation is the anchor's
Plain == <<Line(2, <<Open("div", Hero), Text(<<"page", 1>>), Close("div")>>)>>

File(lines, jsx, css, hmr, pos, edits) ==
    [lines |-> lines, jsx |-> jsx, css |-> css, hmr |-> hmr, pos |-> pos, edits |-> edits,
     key |-> Hero, tag |-> "div", text |-> <<"page", 1>>]
MCFiles == {File(Html, FALSE, FALSE, FALSE, "replace",
                 {[from |-> <<"page", 1>>, to |-> <<"page", 9>>]}),
            File(Jsx, TRUE, TRUE, TRUE, "replace", {}),
            File(Plain, FALSE, TRUE, FALSE, "after", {})}
=============================================================================
