---------------------------- MODULE MCCopyEdits -----------------------------
EXTENDS CopyEdits, TLC
CONSTANTS t1, r1, r2, f1, f2, home

MCFileOf == r1 :> f1 @@ r2 :> f2
MCPageOf == t1 :> home
=============================================================================
