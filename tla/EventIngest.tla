---------------------------- MODULE EventIngest ----------------------------
(***************************************************************************)
(* How the decisions that hooks take by themselves reach the audit log     *)
(* (wisphive_daemon/src/event_ingest.rs).                                  *)
(*                                                                         *)
(* A hook appends one line to events.jsonl whether or not a daemon runs.   *)
(* The daemon tails that file into SQLite, renames it into its log         *)
(* directory once it is large and imports the renamed segment again; at    *)
(* startup it imports the segments it finds, prunes old ones and imports   *)
(* the backlog of the live file.                                           *)
(*                                                                         *)
(* A file is an inode with the chunks written to it.  A line is two chunks *)
(* <<l, "start">> and <<l, "end">>, the newline being part of the second:  *)
(* a reader may see a write half done, and a write may stop half way.      *)
(* Offsets count chunks.                                                   *)
(***************************************************************************)
EXTENDS Integers, Sequences, FiniteSetsExt

CONSTANTS Lines,       \* the event lines hooks write, each once
          Inodes,      \* numbers of the files ever created, in that order;
                       \* bounds the number of rotations
          RotateAt,    \* EVENTS_LOG_MAX_BYTES, in chunks
          None,        \* no file, no import
          Faults,      \* the faults that may happen
          MaxCrashes   \* bound on the number of daemon crashes

FaultKinds == {"db",      \* an INSERT fails
               "short",   \* a hook dies, or its write stops half way (disk full)
               "io",      \* create, open, read, rename or unlink by the daemon fails
               "scan"}    \* a directory entry cannot be read at startup

ASSUME IngestAssumption ==
    /\ Inodes \subseteq Nat /\ Inodes # {}
    /\ None \notin Inodes
    /\ Faults \subseteq FaultKinds
    /\ RotateAt \in Nat
    /\ MaxCrashes \in Nat

VARIABLES
    \* the file system
    content,   \* inode |-> chunks
    created,   \* inodes that were created
    live,      \* the inode named events.jsonl, or None
    segs,      \* inodes named events-<stamp>.jsonl
    failed,    \* inodes named events-<stamp>.failed.jsonl
    old,       \* rotated segments last written before the retention cutoff
    \* the hooks
    hook,      \* what the writer of each line has done
    fd,        \* the inode it opened
    \* the database
    decision_log,  \* the lines with a row
    \* the daemon
    phase,     \* where run_ingest (or the startup before it) is
    todo,      \* segments still to recover at startup
    imp,       \* reimport_all in progress: [ino, pos], or None
    manual,    \* the same, for a ReimportEvents command
    reader,    \* the inode the tail reads
    offset,    \* its position; before the tail starts, start_len
    file_id,   \* the identity remembered for events.jsonl
    wake,      \* a change notification is queued
    crashes,
    \* observations
    missed,    \* lines that the tail or an import passed without storing them
    stalled    \* the tail could not reopen or read events.jsonl, and has not
               \* tried again since

fsVars   == <<content, created, live, segs, failed, old>>
hookVars == <<hook, fd>>
tailVars == <<reader, offset, file_id>>
vars == <<fsVars, hookVars, decision_log, phase, todo, imp, manual, tailVars,
          wake, crashes, missed, stalled>>

Chunks == Lines \X {"start", "end"}

Imports == [ino : Inodes, pos : Nat]

\* Option: an import is Some
ASSUME ImportAssumption == None \notin Imports

\* The phases before the tail's loop, those of the loop, and of a rotation.
Startup == {"recover", "prune", "create", "measure", "backlog", "open"}
Tailing == {"idle", "check", "read", "segment", "recreate", "reopen"}

\* The socket is bound, so commands are served.
Serving == phase \in {"create", "measure", "backlog", "open", "ended"} \cup Tailing

\* "done": the line was written; "mangled": it was, but behind half a line,
\* with which it forms one malformed line; "failed": it was not, or not wholly.
HookStates == {"new", "opened", "writing", "done", "mangled", "failed"}

TypeOK ==
    /\ content \in [Inodes -> Seq(Chunks)]
    /\ created \subseteq Inodes
    /\ live \in created \cup {None}
    /\ segs \subseteq created
    /\ failed \subseteq created
    /\ old \subseteq segs \cup failed
    /\ hook \in [Lines -> HookStates]
    /\ fd \in [Lines -> created \cup {None}]
    /\ decision_log \subseteq Lines
    /\ phase \in {"down", "ended"} \cup Startup \cup Tailing
    /\ todo \subseteq segs \cup failed
    /\ imp \in Imports \cup {None}
    /\ manual \in Imports \cup {None}
    /\ reader \in created \cup {None}
    /\ offset \in Nat
    /\ file_id \in created \cup {None}
    /\ wake \in BOOLEAN
    /\ crashes \in 0..MaxCrashes
    /\ missed \subseteq Lines
    /\ stalled \in BOOLEAN

Init ==
    /\ content = [i \in Inodes |-> <<>>]
    /\ created = {} /\ live = None /\ segs = {} /\ failed = {} /\ old = {}
    /\ hook = [l \in Lines |-> "new"]
    /\ fd = [l \in Lines |-> None]
    /\ decision_log = {}
    /\ phase = "down" /\ todo = {} /\ imp = None /\ manual = None
    /\ reader = None /\ offset = 0 /\ file_id = None
    /\ wake = FALSE /\ crashes = 0 /\ missed = {} /\ stalled = FALSE

-----------------------------------------------------------------------------
(* Files *)

Unused == Inodes \ created

\* open(create, append) on events.jsonl: it is there afterwards.
CreateLive ==
    IF live = None
    THEN /\ live' = Min(Unused)
         /\ created' = created \cup {Min(Unused)}
    ELSE UNCHANGED <<live, created>>

\* A change in the watched directory: the watcher queues a notification.
Notify == wake' = (wake \/ Serving)

\* Where a read of one line from position p ends: after its newline or at EOF.
LineEnd(i, p) ==
    LET newlines == {k \in (p + 1)..Len(content[i]) : content[i][k][2] = "end"}
    IN  IF newlines = {} THEN Len(content[i]) ELSE Min(newlines)

\* The lines that parse when one line is read from position p (one or none).
Parsed(i, p) ==
    {l \in Lines : SubSeq(content[i], p + 1, LineEnd(i, p))
                      = <<<<l, "start">>, <<l, "end">>>>}

\* The lines that a read from position p touches.
Touched(i, p) ==
    {content[i][k][1] : k \in (p + 1)..LineEnd(i, p)}

AtEnd(i, p) == p >= Len(content[i])

\* Line l stands whole in file i, ending at position q.
StandsAt(l, i, q) ==
    /\ q \in 2..Len(content[i])
    /\ content[i][q] = <<l, "end">> /\ content[i][q - 1] = <<l, "start">>
    /\ q > 2 => content[i][q - 2][2] = "end"

Stands(l, i) == \E q \in 1..Len(content[i]) : StandsAt(l, i, q)

-----------------------------------------------------------------------------
(* Hooks: log_auto_approved opens the file, then writes its line *)

HookOpen(l) ==
    /\ hook[l] = "new"
    /\ CreateLive
    /\ hook' = [hook EXCEPT ![l] = "opened"]
    /\ fd' = [fd EXCEPT ![l] = live']
    /\ IF live = None THEN Notify ELSE UNCHANGED wake
    /\ UNCHANGED <<content, segs, failed, old, decision_log, phase, todo, imp, manual,
                   tailVars, crashes, missed, stalled>>

\* A write makes its file young again, and is noticed if it is events.jsonl.
Write(l, part) ==
    /\ content' = [content EXCEPT ![fd[l]] = Append(@, <<l, part>>)]
    /\ old' = old \ {fd[l]}
    /\ IF fd[l] = live THEN Notify ELSE UNCHANGED wake
    /\ UNCHANGED <<created, live, segs, failed, fd, decision_log, phase, todo, imp,
                   manual, tailVars, crashes, missed, stalled>>

\* One write(2) excludes the others on the file, but not the readers.
HookWriteStart(l) ==
    /\ hook[l] = "opened"
    /\ \A k \in Lines : hook[k] = "writing" => fd[k] # fd[l]
    /\ hook' = [hook EXCEPT ![l] = "writing"]
    /\ Write(l, "start")

HookWriteEnd(l) ==
    /\ hook[l] = "writing"
    /\ Write(l, "end")
    /\ LET file  == content[fd[l]]
           whole == Len(file) > 1 => file[Len(file) - 1][2] = "end"
       IN  hook' = [hook EXCEPT ![l] = IF whole THEN "done" ELSE "mangled"]

\* The hook is killed, or its write stops half way; it ignores the error.
HookFails(l) ==
    /\ "short" \in Faults
    /\ hook[l] \in {"opened", "writing"}
    /\ hook' = [hook EXCEPT ![l] = "failed"]
    /\ UNCHANGED <<fsVars, fd, decision_log, phase, todo, imp, manual, tailVars, wake,
                   crashes, missed, stalled>>

-----------------------------------------------------------------------------
(* Importing a file line by line: reimport_all and ingest_line *)

\* ingest_line stores a line that parses (INSERT OR IGNORE: once) and skips a
\* malformed one.
Ingest(i, p) ==
    /\ decision_log' = decision_log \cup Parsed(i, p)
    /\ missed' = missed \cup (Touched(i, p) \ decision_log')

\* reimport_all passes one line of the file it reads.
ImportLine ==
    /\ imp # None
    /\ ~AtEnd(imp.ino, imp.pos)
    /\ Ingest(imp.ino, imp.pos)
    /\ imp' = [imp EXCEPT !.pos = LineEnd(imp.ino, imp.pos)]
    /\ UNCHANGED <<fsVars, hookVars, phase, todo, manual, tailVars, wake, crashes,
                   stalled>>

\* reimport_all returns: at the end of the file, or with the error of a read or
\* of an INSERT.
ImportEnds   == imp # None /\ AtEnd(imp.ino, imp.pos)
ImportBreaks == /\ imp # None
                /\ \/ "io" \in Faults
                   \/ "db" \in Faults /\ Parsed(imp.ino, imp.pos) # {}

\* What a broken import did not reach.
Unreached == {content[imp.ino][k][1] : k \in (imp.pos + 1)..Len(content[imp.ino])}

-----------------------------------------------------------------------------
(* Startup: Server::new recovers the rotated segments, then the caller prunes *)

\* A hook writes right after it opened the file, so it is done with a file
\* that was rotated by a daemon by the time the next daemon starts.
WritersGone ==
    \A l \in Lines : hook[l] \in {"opened", "writing"} => fd[l] = live

\* collect_recovery_segments: an entry that cannot be read is skipped.
DaemonStart ==
    /\ phase = "down"
    /\ WritersGone
    /\ phase' = "recover"
    /\ \E S \in SUBSET (segs \cup failed) :
          /\ "scan" \in Faults \/ S = segs \cup failed
          /\ todo' = S
    /\ UNCHANGED <<fsVars, hookVars, decision_log, imp, manual, tailVars, wake, crashes,
                   missed, stalled>>

\* The segments are taken in the order of their names, that is of their age.
RecoverNext ==
    /\ phase = "recover" /\ imp = None /\ todo # {}
    /\ imp' = [ino |-> Min(todo), pos |-> 0]
    /\ UNCHANGED <<fsVars, hookVars, decision_log, phase, todo, manual, tailVars, wake,
                   crashes, missed, stalled>>

\* An imported .failed segment is removed; the unlink may fail.
RecoverImported ==
    /\ phase = "recover"
    /\ ImportEnds
    /\ \/ failed' = failed \ {imp.ino}
       \/ "io" \in Faults /\ UNCHANGED failed
    /\ old' = old \cap (segs \cup failed')
    /\ todo' = todo \ {imp.ino}
    /\ imp' = None
    /\ UNCHANGED <<content, created, live, segs, hookVars, decision_log, phase, manual,
                   tailVars, wake, crashes, missed, stalled>>

\* A segment that cannot be imported is kept as .failed.
RecoverBroken ==
    /\ phase = "recover"
    /\ ImportBreaks
    /\ segs' = segs \ {imp.ino}
    /\ failed' = failed \cup {imp.ino}
    /\ todo' = todo \ {imp.ino}
    /\ imp' = None
    /\ UNCHANGED <<content, created, live, old, hookVars, decision_log, phase, manual,
                   tailVars, wake, crashes, missed, stalled>>

\* If it cannot even be renamed, the daemon does not start.
RecoverAborts ==
    /\ phase = "recover" /\ "io" \in Faults
    /\ ImportBreaks
    /\ imp.ino \notin failed
    /\ phase' = "down" /\ todo' = {} /\ imp' = None
    /\ UNCHANGED <<fsVars, hookVars, decision_log, manual, tailVars, wake, crashes,
                   missed, stalled>>

Recovered ==
    /\ phase = "recover" /\ imp = None /\ todo = {}
    /\ phase' = "prune"
    /\ UNCHANGED <<fsVars, hookVars, decision_log, todo, imp, manual, tailVars, wake,
                   crashes, missed, stalled>>

\* Variant: .failed segments are reaped like the others.
Prune_All ==
    /\ phase = "prune"
    /\ phase' = "create"
    /\ \E S \in SUBSET ((segs \cup failed) \cap old) :
          /\ "io" \in Faults \/ S = (segs \cup failed) \cap old
          /\ segs' = segs \ S /\ failed' = failed \ S
          /\ old' = old \ S
    /\ UNCHANGED <<content, created, live, hookVars, decision_log, todo, imp, manual,
                   tailVars, wake, crashes, missed, stalled>>

\* prune_old_files deletes old segments, .failed ones excepted.
Prune ==
    /\ phase = "prune"
    /\ phase' = "create"
    /\ \E S \in SUBSET (segs \cap old) :
          /\ "io" \in Faults \/ S = segs \cap old
          /\ segs' = segs \ S
          /\ old' = old \ S
    /\ UNCHANGED <<content, created, live, failed, hookVars, decision_log, todo, imp,
                   manual, tailVars, wake, crashes, missed, stalled>>

\* Days pass, while the daemon is down or runs.
Age(i) ==
    /\ phase \in {"down", "idle"}
    /\ i \in (segs \cup failed) \ old
    /\ old' = old \cup {i}
    /\ UNCHANGED <<content, created, live, segs, failed, hookVars, decision_log, phase,
                   todo, imp, manual, tailVars, wake, crashes, missed, stalled>>

-----------------------------------------------------------------------------
(* run_ingest up to its loop *)

\* Create the file (an error is ignored) and watch the directory.
IngestStart ==
    /\ phase = "create"
    /\ phase' = "measure"
    /\ wake' = FALSE
    /\ \/ CreateLive
       \/ "io" \in Faults /\ UNCHANGED <<live, created>>
    /\ UNCHANGED <<content, segs, failed, old, hookVars, decision_log, todo, imp,
                   manual, tailVars, crashes, missed, stalled>>

\* start_len is taken before the backlog is imported.
Measure ==
    /\ phase = "measure"
    /\ IF live = None
       THEN /\ offset' = 0
            /\ phase' = "open"
            /\ UNCHANGED imp
       ELSE /\ offset' = Len(content[live])
            /\ phase' = "backlog"
            /\ imp' = [ino |-> live, pos |-> 0]
    /\ UNCHANGED <<fsVars, hookVars, decision_log, todo, manual, reader, file_id, wake,
                   crashes, missed, stalled>>

\* The import of the backlog ends; an error is only logged.
BacklogDone ==
    /\ phase = "backlog"
    /\ \/ ImportEnds /\ UNCHANGED missed
       \/ ImportBreaks /\ missed' = missed \cup Unreached
    /\ phase' = "open" /\ imp' = None
    /\ UNCHANGED <<fsVars, hookVars, decision_log, todo, manual, tailVars, wake,
                   crashes, stalled>>

\* Variant: the tail starts at the end of the file.
OpenTail_AtEnd ==
    /\ phase = "open"
    /\ \/ /\ live # None
          /\ reader' = live /\ file_id' = live
          /\ offset' = Len(content[live])
          /\ phase' = "idle"
       \/ /\ live = None \/ "io" \in Faults
          /\ phase' = "ended"
          /\ UNCHANGED tailVars
    /\ UNCHANGED <<fsVars, hookVars, decision_log, todo, imp, manual, wake, crashes,
                   missed, stalled>>

\* The tail starts at start_len; if the file cannot be opened the task ends.
OpenTail ==
    /\ phase = "open"
    /\ \/ /\ live # None
          /\ reader' = live /\ file_id' = live
          /\ offset' = Min({offset, Len(content[live])})
          /\ phase' = "idle"
       \/ /\ live = None \/ "io" \in Faults
          /\ phase' = "ended"
          /\ UNCHANGED tailVars
    /\ UNCHANGED <<fsVars, hookVars, decision_log, todo, imp, manual, wake, crashes,
                   missed, stalled>>

-----------------------------------------------------------------------------
(* The loop of run_ingest *)

\* One notification is taken and the queued ones are drained.
Wake ==
    /\ phase = "idle" /\ wake
    /\ phase' = "check" /\ wake' = FALSE
    /\ UNCHANGED <<fsVars, hookVars, decision_log, todo, imp, manual, tailVars, crashes,
                   missed, stalled>>

\* Something else changed in the directory.
SpuriousNotify ==
    /\ Serving /\ ~wake
    /\ wake' = TRUE
    /\ UNCHANGED <<fsVars, hookVars, decision_log, phase, todo, imp, manual, tailVars,
                   crashes, missed, stalled>>

LiveLen == IF live = None THEN 0 ELSE Len(content[live])

\* Variant: only the length is compared.
CheckReplaced_LengthOnly ==
    /\ phase = "check"
    /\ phase' = "read"
    /\ \/ /\ LiveLen >= offset
          /\ stalled' = FALSE
          /\ UNCHANGED tailVars
       \/ /\ LiveLen < offset
          /\ live # None
          /\ reader' = live /\ file_id' = live /\ offset' = 0
          /\ stalled' = FALSE
       \/ /\ LiveLen < offset
          /\ live = None \/ "io" \in Faults
          /\ stalled' = TRUE
          /\ UNCHANGED tailVars
    /\ UNCHANGED <<fsVars, hookVars, decision_log, todo, imp, manual, wake, crashes,
                   missed>>

\* The file was truncated or replaced: reopen it from the start, if possible.
CheckReplaced ==
    /\ phase = "check"
    /\ phase' = "read"
    /\ \/ /\ LiveLen >= offset /\ live = file_id
          /\ stalled' = FALSE
          /\ UNCHANGED tailVars
       \/ /\ LiveLen < offset \/ live # file_id
          /\ live # None
          /\ reader' = live /\ file_id' = live /\ offset' = 0
          /\ stalled' = FALSE
       \/ /\ LiveLen < offset \/ live # file_id
          /\ live = None \/ "io" \in Faults
          /\ stalled' = TRUE
          /\ UNCHANGED tailVars
    /\ UNCHANGED <<fsVars, hookVars, decision_log, todo, imp, manual, wake, crashes,
                   missed>>

\* One line is read; it is passed even if its INSERT fails.
ReadLine ==
    /\ phase = "read"
    /\ ~AtEnd(reader, offset)
    /\ \/ Ingest(reader, offset)
       \/ /\ "db" \in Faults
          /\ missed' = missed \cup Touched(reader, offset)
          /\ UNCHANGED decision_log
    /\ offset' = LineEnd(reader, offset)
    /\ UNCHANGED <<fsVars, hookVars, phase, todo, imp, manual, reader, file_id, wake,
                   crashes, stalled>>

\* Drained (or the read failed) and the file is not large, or could not be
\* renamed: wait for the next notification.  The inodes bound the rotations.
Rest ==
    /\ phase = "read"
    /\ AtEnd(reader, offset) \/ "io" \in Faults
    /\ \/ offset < RotateAt
       \/ live = None
       \/ "io" \in Faults
       \/ Unused = {}
    /\ phase' = "idle"
    /\ stalled' = (stalled \/ ~AtEnd(reader, offset))
    /\ UNCHANGED <<fsVars, hookVars, decision_log, todo, imp, manual, tailVars, wake,
                   crashes, missed>>

-----------------------------------------------------------------------------
(* rotate_events_log *)

\* events.jsonl, whichever file that is now, is renamed into the log directory.
Rotate ==
    /\ phase = "read"
    /\ AtEnd(reader, offset) \/ "io" \in Faults
    /\ offset >= RotateAt
    /\ live # None /\ Unused # {}
    /\ segs' = segs \cup {live}
    /\ live' = None
    /\ imp' = [ino |-> live, pos |-> 0]
    /\ phase' = "segment"
    /\ Notify
    /\ UNCHANGED <<content, created, failed, old, hookVars, decision_log, todo, manual,
                   tailVars, crashes, missed, stalled>>

\* The segment is imported again; if that fails it is renamed to .failed.
SegmentDone ==
    /\ phase = "segment"
    /\ \/ ImportEnds /\ UNCHANGED <<segs, failed, missed>>
       \/ /\ ImportBreaks
          /\ missed' = missed \cup Unreached
          /\ \/ segs' = segs \ {imp.ino} /\ failed' = failed \cup {imp.ino}
             \/ "io" \in Faults /\ UNCHANGED <<segs, failed>>
    /\ phase' = "recreate" /\ imp' = None
    /\ UNCHANGED <<content, created, live, old, hookVars, decision_log, todo, manual,
                   tailVars, wake, crashes, stalled>>

Recreate ==
    /\ phase = "recreate"
    /\ phase' = "reopen"
    /\ \/ CreateLive
       \/ "io" \in Faults /\ UNCHANGED <<live, created>>
    /\ IF live' # live THEN Notify ELSE UNCHANGED wake
    /\ UNCHANGED <<content, segs, failed, old, hookVars, decision_log, todo, imp,
                   manual, tailVars, crashes, missed, stalled>>

\* If the new file cannot be opened the old reader stays.
Reopen ==
    /\ phase = "reopen"
    /\ phase' = "idle"
    /\ \/ /\ live # None
          /\ reader' = live /\ file_id' = live /\ offset' = 0
          /\ stalled' = FALSE
       \/ /\ live = None \/ "io" \in Faults
          /\ stalled' = TRUE
          /\ UNCHANGED tailVars
    /\ UNCHANGED <<fsVars, hookVars, decision_log, todo, imp, manual, wake, crashes,
                   missed>>

-----------------------------------------------------------------------------
(* The ReimportEvents command of a review client *)

ManualStart ==
    /\ Serving /\ manual = None /\ live # None
    /\ manual' = [ino |-> live, pos |-> 0]
    /\ UNCHANGED <<fsVars, hookVars, decision_log, phase, todo, imp, tailVars, wake,
                   crashes, missed, stalled>>

ManualLine ==
    /\ manual # None
    /\ ~AtEnd(manual.ino, manual.pos)
    /\ decision_log' = decision_log \cup Parsed(manual.ino, manual.pos)
    /\ manual' = [manual EXCEPT !.pos = LineEnd(manual.ino, manual.pos)]
    /\ UNCHANGED <<fsVars, hookVars, phase, todo, imp, tailVars, wake, crashes, missed,
                   stalled>>

ManualEnd ==
    /\ manual # None
    /\ \/ AtEnd(manual.ino, manual.pos)
       \/ "db" \in Faults /\ Parsed(manual.ino, manual.pos) # {}
    /\ manual' = None
    /\ UNCHANGED <<fsVars, hookVars, decision_log, phase, todo, imp, tailVars, wake,
                   crashes, missed, stalled>>

-----------------------------------------------------------------------------

\* The daemon dies or is stopped; files, rows and hooks stay.
Crash ==
    /\ phase # "down" /\ crashes < MaxCrashes
    /\ crashes' = crashes + 1
    /\ phase' = "down" /\ todo' = {} /\ imp' = None /\ manual' = None
    /\ reader' = None /\ offset' = 0 /\ file_id' = None
    /\ wake' = FALSE /\ stalled' = FALSE
    /\ UNCHANGED <<fsVars, hookVars, decision_log, missed>>

HookNext == \E l \in Lines : \/ HookOpen(l)
                             \/ HookWriteStart(l)
                             \/ HookWriteEnd(l)
                             \/ HookFails(l)

StartupNext == \/ DaemonStart
               \/ RecoverNext
               \/ RecoverImported
               \/ RecoverBroken
               \/ RecoverAborts
               \/ Recovered
               \/ Prune
               \/ IngestStart
               \/ Measure
               \/ BacklogDone
               \/ OpenTail

LoopNext == \/ Wake
            \/ CheckReplaced
            \/ ReadLine
            \/ Rest
            \/ Rotate
            \/ SegmentDone
            \/ Recreate
            \/ Reopen

ManualNext == ManualStart \/ ManualLine \/ ManualEnd

Next == \/ HookNext
        \/ ImportLine
        \/ StartupNext
        \/ LoopNext
        \/ ManualNext
        \/ SpuriousNotify
        \/ \E i \in Inodes : Age(i)
        \/ Crash

Spec == Init /\ [][Next]_vars

\* A daemon that was started runs on: its tasks are polled.
Fairness == /\ WF_vars(ImportLine)
            /\ WF_vars(StartupNext /\ phase # "down")
            /\ WF_vars(LoopNext)

FairSpec == Spec /\ Fairness

-----------------------------------------------------------------------------
(* Properties *)

\* A line that a hook wrote whole has its row or stands in a file that some
\* later import reads, through every rotation, failed import, pruning and
\* crash (rotate_events_log: "Non-lossy").
NoLineLost ==
    \A l \in Lines :
        hook[l] = "done" =>
            \/ l \in decision_log
            \/ \E i \in ({live} \cup segs \cup failed) \ {None} : Stands(l, i)

\* Whatever stands before the tail's position was stored, or was passed by an
\* INSERT that failed or a read that saw half a line: no line falls between
\* the import of the backlog and the start of the tail, or between two files.
TailLeavesNoGap ==
    phase \in Tailing \ {"segment", "recreate", "reopen"} =>
        \A l \in Lines, q \in 1..offset :
            StandsAt(l, reader, q) => l \in decision_log \cup missed

\* Under fairness a line in the live file of a running tail gets its row,
\* unless it was passed or the tail stalled or ended with its daemon.
LinesStored ==
    \A l \in Lines :
        (phase \in Tailing /\ live # None /\ hook[l] = "done" /\ Stands(l, live))
            ~> (l \in decision_log \cup missed \/ stalled \/ phase \notin Tailing)

=============================================================================
