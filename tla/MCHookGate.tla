---------------------------- MODULE MCHookGate -----------------------------
(* Instances of HookGate: a single request under every fault; and two         *)
(* requests that carry the same id beside a third one, r3, whose identity    *)
(* the daemon rejects.                                                       *)
EXTENDS HookGateInv, TLC

CONSTANTS r1, r2, r3, a, b, t

OneIdOf == r1 :> a
OneToolOf == r1 :> "Bash"
OneCallOf == a :> t
OneFilters == {{r1}}

SharedIdOf == (r1 :> a) @@ (r2 :> a) @@ (r3 :> b)
SharedToolOf == (r1 :> "Bash") @@ (r2 :> "Bash") @@ (r3 :> "Read")
SharedCallOf == (a :> None) @@ (b :> None)
SharedFilters == {{r1}, {r1, r2}}
=============================================================================
