----------------------------- MODULE DetectScan -----------------------------
(***************************************************************************)
(* The Detect toggle of the live bar (live-browser.js) and the detector    *)
(* script it loads into the page (detector/browser/injected/index.mjs).    *)
(* The two talk through window.postMessage: one queue, in which commands   *)
(* and answers are interleaved and every message reaches both listeners.   *)
(*                                                                         *)
(* A scan draws its overlays at once; the contrast analysis behind it is   *)
(* asynchronous, and text outside the viewport is analysed only when it is *)
(* scrolled into view, so results may arrive long after the scan was       *)
(* removed or repeated.  Which rules fire is left out: a scan finds none   *)
(* or one element, and each analysis adds none or one.                     *)
(***************************************************************************)
EXTENDS Naturals, Sequences

VARIABLES
  live,     \* the toggle's side: detectActive, detectScriptLoaded, ...
  script,   \* the detector script: up, scanGeneration, overlays drawn, analyses
  wire      \* window.postMessage's queue

dvars == <<live, script, wire>>

OverlaysInit ==
  /\ live = [bar |-> TRUE, on |-> FALSE, loaded |-> FALSE, ready |-> FALSE, wanted |-> FALSE,
             seq |-> 0, active |-> 0, count |-> 0]
  /\ script = [up |-> FALSE, gen |-> 0, drawn |-> 0, jobs |-> {}]
  /\ wire = <<>>

Scan(id) == [type |-> "scan", id |-> id, n |-> 0]
RemoveCmd == [type |-> "remove", id |-> 0, n |-> 0]
Ready == [type |-> "ready", id |-> 0, n |-> 0]
Results(id, n) == [type |-> "results", id |-> id, n |-> n]

\* requestDetectScan: only results that carry this id will be accepted.
RequestScan(l) == [l EXCEPT !.seq = @ + 1, !.active = l.seq + 1]

\* toggleDetect switched on: load the script the first time, and leave the
\* scan for its ready message if it has not arrived.
DetectOn ==
  /\ ~live.on
  /\ LET l == [live EXCEPT !.on = TRUE, !.loaded = TRUE]
     IN IF live.ready
        THEN live' = RequestScan(l) /\ wire' = Append(wire, Scan(live.seq + 1))
        ELSE live' = [l EXCEPT !.wanted = TRUE] /\ UNCHANGED wire
  /\ UNCHANGED script

\* toggleDetect switched off: the script is told to remove what it drew.
DetectOff ==
  /\ live.on
  /\ live' = [live EXCEPT !.on = FALSE, !.active = 0, !.count = 0]
  /\ wire' = Append(wire, RemoveCmd)
  /\ UNCHANGED script

\* teardown: the listener goes, and the overlays with it.
DetectExit ==
  /\ live' = [live EXCEPT !.bar = FALSE]
  /\ wire' = Append(wire, RemoveCmd)
  /\ UNCHANGED script

\* The injected script has loaded: it listens, and says so.
ScriptLoads ==
  /\ live.loaded /\ ~script.up
  /\ script' = [script EXCEPT !.up = TRUE]
  /\ wire' = Append(wire, Ready)
  /\ UNCHANGED live

\* clearOverlays as it would be without the generation.
ClearOverlays_SameGeneration(s) == [s EXCEPT !.drawn = 0]

\* clearOverlays: a new generation, so analyses of the old one are void.
ClearOverlays(s) == [s EXCEPT !.gen = @ + 1, !.drawn = 0]

\* scan: redraw, answer with the count, and start the contrast analysis.
ScanNow(s, id, n) ==
  LET t == ClearOverlays(s)
  IN [t EXCEPT !.drawn = n,
               !.jobs = @ \cup {[gen |-> t.gen, id |-> id, lazy |-> FALSE]}]

\* onDetectMessage, until teardown removes the listener.
OnDetectMessage(l, m) ==
  CASE ~l.bar -> l
    [] l.bar /\ m.type = "ready" ->
         LET r == [l EXCEPT !.ready = TRUE]
         IN IF l.wanted /\ l.on THEN RequestScan([r EXCEPT !.wanted = FALSE]) ELSE r
    [] l.bar /\ m.type = "results" ->
         IF l.on /\ (l.active = 0 \/ m.id = l.active) THEN [l EXCEPT !.count = m.n] ELSE l
    [] OTHER -> l

\* The message listener of the injected script; n is what a scan finds.
OnCommand(s, m, n) ==
  IF ~s.up THEN s
  ELSE CASE m.type = "scan" -> ScanNow(s, m.id, n)
         [] m.type = "remove" -> ClearOverlays(s)
         [] OTHER -> s

\* One message event, handled by both listeners.
Deliver ==
  /\ wire # <<>>
  /\ \E n \in 0..1 :
       LET m == Head(wire)
           l == OnDetectMessage(live, m)
       IN /\ live' = l
          /\ script' = OnCommand(script, m, n)
          /\ wire' = Tail(wire)
               \o (IF l.active # live.active THEN <<Scan(l.active)>> ELSE <<>>)
               \o (IF script.up /\ m.type = "scan" THEN <<Results(m.id, n)>> ELSE <<>>)

\* An analysis settles.  The first one of a scan always answers and may leave
\* text outside the viewport to be analysed later; a late one answers only if
\* it found something.  A superseded one is dropped.
AnalysisSettles ==
  \E j \in script.jobs, found, more \in BOOLEAN :
    LET current == j.gen = script.gen
        rest    == script.jobs \ {j}
        grown   == script.drawn + (IF found THEN 1 ELSE 0)
    IN /\ more => ~j.lazy
       /\ IF current
          THEN /\ script' = [script EXCEPT !.drawn = grown,
                                !.jobs = rest \cup (IF more THEN {[j EXCEPT !.lazy = TRUE]} ELSE {})]
               /\ wire' = IF ~j.lazy \/ found THEN Append(wire, Results(j.id, grown)) ELSE wire
          ELSE /\ ~found /\ ~more
               /\ script' = [script EXCEPT !.jobs = rest]
               /\ UNCHANGED wire
       /\ UNCHANGED live

\* Once the queue has drained, the page shows exactly what the toggle says:
\* nothing when Detect is off or the bar is gone, and when it is on, a badge
\* that counts the overlays of the last scan, whatever late analyses did in
\* between (scanGeneration in the script, detectActiveScanId in the toggle).
DetectSettles ==
  wire = <<>> => IF live.bar /\ live.on THEN live.count = script.drawn
                 ELSE script.drawn = 0 /\ (live.bar => live.count = 0)

=============================================================================
