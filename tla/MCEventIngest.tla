--------------------------- MODULE MCEventIngest ---------------------------
(* EventIngest for TLC: files are numbered in the order of their creation. *)
EXTENDS EventIngest

CONSTANTS MaxFiles

MCInodes == 1..MaxFiles
=============================================================================
