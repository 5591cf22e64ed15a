---------------------------- MODULE MCDesignHook ----------------------------
EXTENDS DesignHook, TLC
CONSTANTS s1, s2, page, css

Font == [rule |-> "overused-font", value |-> "inter"]
MCFindings == {Font}
MCHarness == s1 :> "post" @@ s2 :> "pre"
MCEdits == s1 :> 2 @@ s2 :> 1
MCCoScan == page :> <<css>> @@ css :> <<>>
MCIgnoreChoices == {[kind |-> "value", rule |-> "overused-font", value |-> "inter", files |-> {}]}
=============================================================================
