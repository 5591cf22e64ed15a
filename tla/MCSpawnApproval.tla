-------------------------- MODULE MCSpawnApproval ---------------------------
(* Two spawn requests that compete for the slots of a small limit. *)
EXTENDS SpawnApproval, TLC

CONSTANTS r1, r2, a, b

MCIdOf == (r1 :> a) @@ (r2 :> b)
=============================================================================
