----------------------------- MODULE CopyEdits ------------------------------
(***************************************************************************)
(* Copy edits of live mode: text changed in the page is saved into a       *)
(* staging buffer (live/manual-edits-buffer.mjs); Apply hands the page's   *)
(* batch, in chunks, to the coding agent as events it must answer in time  *)
(* (live/manual-apply.mjs), checks what the agent did to the source,       *)
(* repairs it, rolls it back or leaves the choice to the user              *)
(* (live-commit-manual-edits.mjs, live/manual-edit-routes.mjs); the page's *)
(* dock follows through the answers of its requests and pushed activity    *)
(* (live-browser.js).                                                      *)
(*                                                                         *)
(* A place in the source (a ref) holds one text; texts are numbered by the *)
(* Save that wrote them, 0 is the original.  A file may also be broken,    *)
(* which the checks after an apply find out.  An apply transaction on disk *)
(* holds the files' contents from before the commit.                       *)
(***************************************************************************)
EXTENDS Naturals, Sequences, FiniteSets, SequencesExt, FiniteSetsExt

CONSTANTS Tabs, PageOf,   \* browser tabs; the page each shows
          Refs, FileOf,   \* places with editable text; the file of each
          Nil,
          ChunkSize,      \* operations per event (manualEditApplyChunkSize)
          MaxAttempts,    \* repair attempts (repairAttemptLimit)
          MaxClicks,      \* bound on what the users do
          MaxLag,         \* bound on activity a tab has not handled when the server acts
          MaxFaults       \* bound on reloads, crashes, failing writes, interruptions

ASSUME CopyAssumption ==
    /\ DOMAIN FileOf = Refs /\ DOMAIN PageOf = Tabs
    /\ {ChunkSize, MaxAttempts} \subseteq Nat \ {0}
    /\ {MaxClicks, MaxLag, MaxFaults} \subseteq Nat

VARIABLES
    srv,       \* the disk and the server, see Fresh
    up,        \* the server runs
    agent,     \* the event the agent works on: [id, batch, edited], or Nil
    dock,      \* tab |-> its dock, see Hidden
    req,       \* tab |-> its request in flight, of kind "none" if there is none
    resp,      \* tab |-> the answer on its way back, likewise
    wire,      \* tab |-> pushed activity not yet handled
    excuse,    \* ghost: <<"late", id>>: the agent edited for an event nobody awaits
               \* any more, or still holds one of a repair that timed out;
               \* <<"cut", id>>: the server died between the two writes that end a
               \* commit; <<"clash", n>>: a request collided with a commit
    clicks, faults

copyVars == <<srv, up, agent, dock, req, resp, wire, excuse, clicks, faults>>

-----------------------------------------------------------------------------
(* The source and the staging buffer *)

\* the contents of some files
Snap(s, F) == [files  |-> F,
               text   |-> [r \in {q \in Refs : FileOf[q] \in F} |-> s.text[r]],
               broken |-> s.broken \cap F]
Restored(s, snap) ==
    [s EXCEPT !.text   = [r \in Refs |-> IF r \in DOMAIN snap.text THEN snap.text[r] ELSE @[r]],
              !.broken = (@ \ snap.files) \cup snap.broken]
Changed(s, snap) ==
    {f \in snap.files : Snap(s, {f}) # [files  |-> {f}, broken |-> snap.broken \cap {f},
                                        text   |-> [r \in {q \in Refs : FileOf[q] = f} |-> snap.text[r]]]}

RefsOf(batch)  == UNION {DOMAIN batch[i].ops : i \in DOMAIN batch}
FilesOf(batch) == {FileOf[r] : r \in RefsOf(batch)}
IdsOf(batch)   == {batch[i].id : i \in DOMAIN batch}
CountOps(batch) == Cardinality(UNION {{i} \X DOMAIN batch[i].ops : i \in DOMAIN batch})

\* stageEntry: an operation on a place already staged for the page replaces it
\* in its entry; the others go to an entry with the new id
StageEntry(buf, e) ==
    LET mine(x) == x.page = e.page
        known   == UNION {DOMAIN buf[i].ops : i \in {j \in DOMAIN buf : mine(buf[j])}}
        merged  == [i \in DOMAIN buf |->
                      IF mine(buf[i])
                      THEN [buf[i] EXCEPT !.ops =
                              [r \in DOMAIN @ |-> IF r \in DOMAIN e.ops THEN e.ops[r] ELSE @[r]]]
                      ELSE buf[i]]
        fresh   == DOMAIN e.ops \ known
    IN  IF fresh = {} THEN merged
        ELSE Append(merged, [e EXCEPT !.ops = [r \in fresh |-> e.ops[r]]])

\* removeEntries, clearAppliedEntries
OfPage(buf, p)        == SelectSeq(buf, LAMBDA e : e.page = p)
RemoveEntries(buf, p) == SelectSeq(buf, LAMBDA e : e.page # p)
ClearApplied(buf, I)  == SelectSeq(buf, LAMBDA e : e.id \notin I)
\* countByPage
CountPage(s, p) == CountOps(OfPage(s.buf, p))

-----------------------------------------------------------------------------
(* The server's state, and the activity it pushes to every tab *)

Fresh == [text |-> [r \in Refs |-> 0], broken |-> {}, \* the source
          buf  |-> <<>>,       \* the staging buffer
          tx   |-> Nil,       \* the apply transaction file: [id, page, ids, snap]
          jobs |-> {},         \* commits that await an event
          tombs |-> {},        \* timedOutApplyIds: [id, snap]
          n    |-> 0,          \* ids drawn
          out  |-> <<>>,       \* activity of the current step
          want |-> [r \in Refs |-> 0]] \* ghost: what the finished commits wrote
Record(s, type, p, k) == [s EXCEPT !.out = Append(@, [type |-> type, page |-> p, count |-> k])]
Deferreds(s) == {j.ev.id : j \in s.jobs}
\* the snapshot shows its files as the finished commits left them
AsCommitted(s, snap) ==
    snap.broken = {} /\ \A r \in DOMAIN snap.text : snap.text[r] = s.want[r]

\* writeManualApplyTransaction, clearManualApplyTransaction
WriteTransaction(s, p, batch) ==
    [s EXCEPT !.n = @ + 1,
              !.tx = [id |-> s.n + 1, page |-> p, ids |-> IdsOf(batch), snap |-> Snap(s, FilesOf(batch))]]
ClearTransaction(s, id) == IF s.tx # Nil /\ s.tx.id = id THEN [s EXCEPT !.tx = Nil] ELSE s

\* rollbackManualApplyTransaction; without a page, any transaction
RollbackTransaction_ClearsOnly(s, p) ==
    IF s.tx = Nil \/ (p # Nil /\ s.tx.page # p) THEN s ELSE [s EXCEPT !.tx = Nil]
RollbackTransaction(s, p) ==
    IF s.tx = Nil \/ (p # Nil /\ s.tx.page # p) THEN s
    ELSE IF s.tx.ids \cap IdsOf(s.buf) = {} THEN [s EXCEPT !.tx = Nil]
    ELSE [Restored(s, s.tx.snap) EXCEPT !.tx = Nil]

\* pushApplyEventAndWait: the job awaits a new event for the batch
Dispatch(s, j, batch) ==
    LET id == s.n + 1
        e  == [id |-> id, batch |-> batch, snap |-> Snap(s, FilesOf(batch))]
        s1 == [s EXCEPT !.n = id,
                        !.jobs = @ \cup {[j EXCEPT !.ev = e]}]
    IN  IF j.attempt > 0 THEN Record(s1, "repairing", j.page, 0) ELSE s1

\* the job's event is over: the deferred is taken out
Taken(s, j) == [s EXCEPT !.jobs = @ \ {j}]
\* tombstoneTimedOutApplyId; an event that is withdrawn before the agent took
\* it gets no reply, so its tombstone is left out
Tombstone(s, j) ==
    IF agent = Nil \/ agent.id # j.ev.id THEN s
    ELSE [s EXCEPT !.tombs = @ \cup {[id |-> j.ev.id, snap |-> j.ev.snap]}]

-----------------------------------------------------------------------------
(* What a result must look like, and what the checks of the source say *)

\* validateManualApplyResultMessage
ValidResult(res, batch) ==
    /\ res.applied \cup res.failed \subseteq IdsOf(batch)
    /\ res.status = "done" => res.failed = {} /\ res.applied # {}
    /\ res.status = "partial" => res.applied \cup res.failed # {}
    /\ res.status = "error" => res.applied = {}

\* verifyAppliedEntry: each operation's text is found at its place
Shows(text, r, to)  == text[r] = to
Verified(s, batch, I) ==
    {e.id : e \in {x \in ToSet(batch) : x.id \in I /\ \A r \in DOMAIN x.ops : Shows(s.text, r, x.ops[r])}}
\* findUnappliedEntrySourceChanges
Leaked(s, batch, I, snap) ==
    \E e \in ToSet(batch) : /\ e.id \notin I
                            /\ \E r \in DOMAIN e.ops : /\ Shows(s.text, r, e.ops[r])
                                                       /\ ~Shows(snap.text, r, e.ops[r])
\* runCopyEditPostApplyChecks
ChecksPass(s, F) == s.broken \cap F = {}

\* splitManualApplyBatch: the operations of the entries, in order, at most
\* ChunkSize to an event; an entry that fits is not split
Ops(e)        == LET R == SetToSeq(DOMAIN e.ops) IN [i \in DOMAIN R |-> [e EXCEPT !.ops = [r \in {R[i]} |-> e.ops[r]]]]
Join(batch, e) ==
    LET at == {i \in DOMAIN batch : batch[i].id = e.id}
    IN  IF at = {} THEN Append(batch, e)
        ELSE [i \in DOMAIN batch |->
                IF i \in at THEN [batch[i] EXCEPT !.ops = [r \in DOMAIN @ \cup DOMAIN e.ops |->
                                     IF r \in DOMAIN e.ops THEN e.ops[r] ELSE @[r]]]
                ELSE batch[i]]
AddPiece(chunks, e, fits) ==
    LET last == chunks[Len(chunks)]
    IN  IF CountOps(last) > 0 /\ ~fits THEN Append(chunks, <<e>>)
        ELSE [chunks EXCEPT ![Len(chunks)] = Join(last, e)]
Split(batch) ==
    IF CountOps(batch) <= ChunkSize THEN <<batch>>
    ELSE LET place(chunks, e) ==
               LET n    == Cardinality(DOMAIN e.ops)
                   room == ChunkSize - CountOps(chunks[Len(chunks)])
                   begin == IF n > ChunkSize /\ CountOps(chunks[Len(chunks)]) > 0
                            THEN Append(chunks, <<>>) ELSE chunks
               IN  IF n <= ChunkSize THEN AddPiece(chunks, e, n <= room)
                   ELSE FoldLeft(LAMBDA c, piece : AddPiece(c, piece, CountOps(c[Len(c)]) < ChunkSize),
                                 begin, Ops(e))
         IN  FoldLeft(place, <<<<>>>>, batch)

-----------------------------------------------------------------------------
(* A commit: live-commit-manual-edits.mjs behind POST /manual-edit-commit *)

\* the end of the route: the transaction goes unless a decision is needed
Finish(s, j, type) ==
    LET s1 == IF type = "decision" THEN s ELSE ClearTransaction(s, j.tx)
    IN  Record(s1, type, j.page, CountPage(s1, j.page))
Undo(s, j) == Finish(Restored(s, j.snap), j, "done")

\* clearAppliedEntries; a failing write is an exception that rolls back
Commit(s, j, I, ok) ==
    IF ok \/ I = {}
    THEN LET wrote == {e \in ToSet(j.batch) : e.id \in I}
         IN  Finish([s EXCEPT !.buf  = ClearApplied(@, I),
                              !.want = [r \in Refs |-> IF \E e \in wrote : r \in DOMAIN e.ops
                                                       THEN (CHOOSE e \in wrote : r \in DOMAIN e.ops).ops[r]
                                                       ELSE @[r]]], j, "done")
    ELSE Finish(RollbackTransaction(s, j.page), j, "failed")

\* commitManualEdits after the agent's result, in the order of its checks
Verdict(s, j, res) ==
    IF \/ res.status = "error"
       \/ res.applied \cap res.failed # {}
       \/ Changed(s, j.snap) \ res.files # {}
       \/ res.status = "done" /\ res.applied = {} THEN "undo"
    ELSE IF res.applied # {} /\ res.files = {} THEN "repair"
    ELSE IF Leaked(s, j.batch, res.applied, j.snap) THEN "undo"
    ELSE IF Verified(s, j.batch, res.applied) # res.applied \/ ~ChecksPass(s, res.files) THEN "repair"
    ELSE "clear"

\* repairPostApplyValidation: the whole batch again, up to MaxAttempts times
Attempt(s, j) == IF j.attempt < MaxAttempts
                 THEN Dispatch(s, [j EXCEPT !.attempt = @ + 1], j.batch)
                 ELSE Finish(s, j, "decision")
Conclude(s, j, res, ok) ==
    LET v == Verdict(s, j, res)
        I == IF res.applied = {} THEN IdsOf(j.batch) ELSE res.applied
    IN  CASE v = "undo"   -> Undo(s, j)
          [] v = "repair" -> Attempt(s, [j EXCEPT !.applied = I, !.files = res.files])
          [] v = "clear"  -> Commit(s, j, res.applied, ok)
Rejected == [status |-> "rejected", applied |-> {}, failed |-> {}, files |-> {}]
RepairReply(s, j, res, ok) ==
    LET k == [j EXCEPT !.applied = @ \cup res.applied, !.files = @ \cup res.files]
    IN  IF \/ res = Rejected \/ Verified(s, k.batch, k.applied) # k.applied
           \/ ~ChecksPass(s, k.files)
        THEN Attempt(s, k) ELSE Commit(s, k, k.applied, ok)

\* pushBatchInChunksAndWait after a chunk's result
ChunkReply(s, j, res, ok) ==
    LET here    == IdsOf(j.chunks[j.i])
        aborted == res.status \in {"rejected", "error"}
        failed  == j.failed \cup (IF aborted THEN here ELSE res.failed \cup (here \ res.applied))
        files   == j.files \cup res.files
        rest    == UNION {IdsOf(j.chunks[k]) : k \in j.i + 1 .. Len(j.chunks)}
        F       == IF aborted THEN failed \cup rest ELSE failed
        A       == IdsOf(j.batch) \ F
    IN  IF ~aborted /\ j.i < Len(j.chunks)
        THEN Dispatch(s, [j EXCEPT !.i = @ + 1, !.failed = failed, !.files = files], j.chunks[j.i + 1])
        ELSE Conclude(s, j, [status |-> IF F = {} THEN "done" ELSE IF A # {} THEN "partial" ELSE "error",
                             applied |-> A, failed |-> F, files |-> files], ok)

\* the awaiting commit goes on with its event's result
Continue(s, j, res, ok) ==
    IF j.attempt > 0 THEN RepairReply(s, j, res, ok)
    ELSE IF Len(j.chunks) > 1 THEN ChunkReply(s, j, res, ok)
    ELSE IF res = Rejected THEN Undo(s, j)
    ELSE Conclude(s, j, res, ok)

\* POST /manual-edit-commit up to its first await; repair without a transaction
\* has been refused
StartCommit_AlwaysWrites(s, p, repair, ok) ==
    LET s1    == IF repair THEN s ELSE RollbackTransaction(s, p)
        batch == OfPage(s1.buf, p)
        s2    == Record(s1, IF repair THEN "refixing" ELSE "started", p, CountOps(batch))
        s3    == WriteTransaction(s2, p, batch)
        j     == [page |-> p, batch |-> batch, tx |-> s3.tx.id, snap |-> Snap(s3, FilesOf(batch)),
                  chunks |-> Split(batch), i |-> 1, failed |-> {}, files |-> {},
                  applied |-> {}, attempt |-> 0, ev |-> Nil]
    IN  IF batch = <<>> THEN Record(s2, "done", p, 0)
        ELSE IF repair
        THEN Conclude(s3, j, [status |-> "done", applied |-> IdsOf(batch), failed |-> {},
                              files |-> FilesOf(batch)], ok)
        ELSE Dispatch(s3, j, j.chunks[1])
StartCommit(s, p, repair, ok) ==
    LET s1    == IF repair THEN s ELSE RollbackTransaction(s, p)
        batch == OfPage(s1.buf, p)
        s2    == Record(s1, IF repair THEN "refixing" ELSE "started", p, CountOps(batch))
        s3    == IF repair THEN s2 ELSE WriteTransaction(s2, p, batch)
        j     == [page |-> p, batch |-> batch, tx |-> s3.tx.id, snap |-> Snap(s3, FilesOf(batch)),
                  chunks |-> Split(batch), i |-> 1, failed |-> {}, files |-> {},
                  applied |-> {}, attempt |-> 0, ev |-> Nil]
    IN  IF batch = <<>> THEN Record(s2, "done", p, 0)
        ELSE IF repair
        THEN Conclude(s3, j, [status |-> "done", applied |-> IdsOf(batch), failed |-> {},
                              files |-> FilesOf(batch)], ok)
        ELSE Dispatch(s3, j, j.chunks[1])

\* cancelPendingEvents: each event of the page is withdrawn, what the agent
\* did since its dispatch is undone, and its commit goes on with a rejection
Cancel(j, s) == Tombstone(Restored(Taken(s, j), j.ev.snap), j)
Resume(j, s) == Continue(s, j, Rejected, TRUE)
CancelEvents(s, p) == FoldSet(Cancel, s, {j \in s.jobs : j.page = p})
Discard(s, p) ==
    LET s1 == RollbackTransaction(s, p)
        s2 == CancelEvents([s1 EXCEPT !.buf = RemoveEntries(@, p)], p)
    IN  FoldSet(Resume, Record(s2, "discarded", p, 0), {j \in s.jobs : j.page = p})

-----------------------------------------------------------------------------
(* The dock of a page: live-browser.js *)

\* hidePendingApplyDock; stored is the phase kept across reloads
Hidden == [count |-> 0, busy |-> FALSE, pill |-> TRUE, trash |-> TRUE,
           choice |-> FALSE, stored |-> "none",
           asked |-> FALSE] \* ghost: a decision has been asked for since
\* storeManualApplyState, writeManualApplyState, clearStoredManualApplyState
Store(d, phase) == IF d.stored = "none" /\ d.count = 0 THEN d ELSE [d EXCEPT !.stored = phase]
Unstored(d)     == [d EXCEPT !.stored = "none"]
\* setPendingApplyLoading
SetLoading(d, on) ==
    LET e == [d EXCEPT !.busy = on, !.pill = ~on, !.trash = ~on, !.choice = @ /\ ~on]
    IN  IF on THEN Store(e, IF d.stored = "none" THEN "applying" ELSE d.stored) ELSE Unstored(e)
\* updatePendingCounter
UpdateCounter(d, k) ==
    IF k = 0 THEN Hidden
    ELSE LET e == [d EXCEPT !.count = k]
         IN  IF e.busy \/ e.stored # "none" THEN SetLoading(e, TRUE) ELSE e
\* updateManualApplyRepairState
Repairing(d) == IF d.count > 0 \/ d.stored # "none" THEN SetLoading(Store(d, "applying"), TRUE) ELSE d
\* showManualApplyDecision
ShowDecision(d) == [Store(d, "decision") EXCEPT !.busy = FALSE, !.pill = FALSE, !.trash = FALSE,
                                                !.choice = TRUE, !.asked = TRUE]

\* handleManualEditActivity; k is what fetchPendingCount would answer
OnActivity_CounterOnly(d, m, k) ==
    CASE m.type = "stashed"    -> UpdateCounter(d, m.count)
      [] m.type = "started"    -> SetLoading(IF m.count > 0 THEN Store(UpdateCounter(d, m.count), "applying") ELSE d, TRUE)
      [] m.type = "refixing"   -> SetLoading(Repairing(IF m.count > 0 THEN UpdateCounter(d, m.count) ELSE d), TRUE)
      [] m.type = "repairing"  -> Repairing(d)
      [] m.type = "decision"   -> ShowDecision(d)
      [] m.type = "rolledback" -> UpdateCounter(Unstored(d), k)
      [] m.type = "done"       -> UpdateCounter(d, m.count)
      [] m.type = "failed"     -> UpdateCounter(SetLoading(d, FALSE), k)
      [] m.type = "discarded"  -> UpdateCounter(d, k)
OnActivity(d, m, k) ==
    CASE m.type = "stashed"    -> UpdateCounter(d, m.count)
      [] m.type = "started"    -> SetLoading(IF m.count > 0 THEN Store(UpdateCounter(d, m.count), "applying") ELSE d, TRUE)
      [] m.type = "refixing"   -> SetLoading(Repairing(IF m.count > 0 THEN UpdateCounter(d, m.count) ELSE d), TRUE)
      [] m.type = "repairing"  -> Repairing(d)
      [] m.type = "decision"   -> ShowDecision(d)
      [] m.type = "rolledback" -> UpdateCounter(Unstored(d), k)
      [] m.type = "done"       -> UpdateCounter(SetLoading(d, FALSE), m.count)
      [] m.type = "failed"     -> UpdateCounter(SetLoading(d, FALSE), k)
      [] m.type = "discarded"  -> UpdateCounter(d, k)

-----------------------------------------------------------------------------
NoOps     == [r \in {} |-> 0]
NoRequest == [kind |-> "none", ops |-> NoOps]
NoAnswer  == [kind |-> "none", ok |-> TRUE, count |-> 0]

CopyInit ==
    /\ srv = Fresh /\ up = TRUE /\ agent = Nil
    /\ dock = [t \in Tabs |-> Hidden]
    /\ req = [t \in Tabs |-> NoRequest] /\ resp = [t \in Tabs |-> NoAnswer]
    /\ wire = [t \in Tabs |-> <<>>]
    /\ excuse = {} /\ clicks = 0 /\ faults = 0

\* the server moves to s: its activity goes to every tab
Becomes(s) ==
    /\ \A t \in Tabs : Len(wire[t]) <= MaxLag
    /\ srv' = [s EXCEPT !.out = <<>>]
    /\ wire' = [t \in Tabs |-> wire[t] \o s.out]
Fault(yes) == IF yes THEN faults < MaxFaults /\ faults' = faults + 1 ELSE UNCHANGED faults

\* a tab's user waits for the answer to the last request before the next click
Free(t)  == req[t].kind = "none" /\ resp[t].kind = "none"
Click(t) == Free(t) /\ clicks < MaxClicks /\ clicks' = clicks + 1
Request(t, kind, ops) == req' = [req EXCEPT ![t] = [kind |-> kind, ops |-> ops]]
restVars == <<srv, up, agent, resp, wire, excuse, faults>>

\* applyEditing: Save the edited texts
Save(t) ==
    /\ Click(t) /\ ~dock[t].busy
    /\ \E R \in (SUBSET Refs) \ {{}} : Request(t, "stash", [r \in R |-> clicks'])
    /\ UNCHANGED <<restVars, dock>>

\* onPendingPillClick
Apply(t) ==
    /\ Click(t) /\ dock[t].count > 0 /\ ~dock[t].busy /\ dock[t].pill
    /\ dock' = [dock EXCEPT ![t] = SetLoading(Store(@, "applying"), TRUE)]
    /\ Request(t, "commit", NoOps)
    /\ UNCHANGED restVars

\* onPendingTrashClick
Trash(t) ==
    /\ Click(t) /\ dock[t].count > 0 /\ ~dock[t].busy /\ dock[t].trash
    /\ Request(t, "discard", NoOps)
    /\ UNCHANGED <<restVars, dock>>

\* onPendingKeepFixingClick
KeepFixing(t) ==
    /\ Click(t) /\ dock[t].choice /\ (dock[t].count > 0 \/ dock[t].stored # "none")
    /\ dock' = [dock EXCEPT ![t] = Repairing(@)]
    /\ Request(t, "repair", NoOps)
    /\ UNCHANGED restVars

\* onPendingRollbackClick
RollBack(t) ==
    /\ Click(t) /\ dock[t].choice
    /\ Request(t, "rollback", NoOps)
    /\ UNCHANGED <<restVars, dock>>

\* Requests that get in each other's way: a commit or a decision during
\* another's commit, or while another page's is undecided (one transaction file
\* serves all pages); a discard after the first event of a commit, which
\* restores that event's own snapshot, of a half-applied source; and a repair
\* that takes up edits saved since, in files the transaction's snapshot lacks
Collides(kind, p) ==
    \/ /\ kind \in {"commit", "repair", "rollback"}
       /\ srv.jobs # {} \/ (srv.tx # Nil /\ srv.tx.page # p)
    \/ /\ kind = "discard"
       /\ \E j \in srv.jobs : j.page = p /\ (j.i > 1 \/ j.attempt > 0)
    \/ /\ kind = "repair" /\ srv.tx # Nil
       /\ ~(FilesOf(OfPage(srv.buf, p)) \subseteq srv.tx.snap.files)

\* createManualEditRoutes: a request is served
Serve(t) ==
    /\ up /\ req[t].kind # "none"
    /\ \E ok \in BOOLEAN :
         LET p == PageOf[t]
             k == req[t].kind
             stashed == [srv EXCEPT !.n = @ + 1,
                            !.buf = StageEntry(@, [id |-> srv.n + 1, page |-> p, ops |-> req[t].ops])]
             missing == k = "repair" /\ srv.tx = Nil
             s == CASE k = "stash"    -> IF ok THEN Record(stashed, "stashed", p, CountPage(stashed, p)) ELSE srv
                    [] k = "discard"  -> Discard(srv, p)
                    [] k = "rollback" -> LET r == RollbackTransaction(srv, p)
                                         IN  Record(r, "rolledback", p, CountPage(r, p))
                    [] missing        -> srv
                    [] OTHER          -> StartCommit(srv, p, k = "repair", ok)
         IN  /\ ok \/ k \in {"stash", "repair"}
             /\ Fault(~ok)
             /\ Becomes(s)
             /\ resp' = [resp EXCEPT ![t] = [kind |-> k, ok |-> ~missing /\ (ok \/ k # "stash"),
                                             count |-> CountPage(s, p)]]
             /\ excuse' = IF Collides(k, p) THEN excuse \cup {<<"clash", srv.n>>} ELSE excuse
    /\ req' = [req EXCEPT ![t] = NoRequest]
    /\ UNCHANGED <<up, agent, dock, clicks>>

\* the server is gone: the fetch fails
Unserved(t) ==
    /\ ~up /\ req[t].kind # "none"
    /\ resp' = [resp EXCEPT ![t] = [kind |-> req[t].kind, ok |-> FALSE, count |-> 0]]
    /\ req' = [req EXCEPT ![t] = NoRequest]
    /\ UNCHANGED <<srv, up, agent, dock, wire, excuse, clicks, faults>>

\* the rest of applyEditing and of the click handlers: a commit that was
\* started says no more, its end is pushed
AfterAnswer(d, m) ==
    CASE m.kind = "stash" /\ m.ok     -> UpdateCounter(d, m.count)
      [] m.kind = "commit" /\ ~m.ok   -> IF d.count > 0 THEN SetLoading(d, FALSE) ELSE Hidden
      [] m.kind = "discard" /\ m.ok   -> UpdateCounter(d, 0)
      [] m.kind = "repair"            -> IF m.ok THEN [d EXCEPT !.choice = FALSE] ELSE ShowDecision(d)
      [] m.kind = "rollback" /\ m.ok  -> UpdateCounter(Unstored(d), m.count)
      [] OTHER                        -> d
Answer(t) ==
    /\ resp[t].kind # "none"
    /\ dock' = [dock EXCEPT ![t] = AfterAnswer(@, resp[t])]
    /\ resp' = [resp EXCEPT ![t] = NoAnswer]
    /\ UNCHANGED <<srv, up, agent, req, wire, excuse, clicks, faults>>

\* activity of another page is ignored (manualEditEventForCurrentPage)
Receive(t) ==
    /\ wire[t] # <<>>
    /\ dock' = IF Head(wire[t]).page # PageOf[t] THEN dock
               ELSE [dock EXCEPT ![t] = OnActivity(@, Head(wire[t]), CountPage(srv, PageOf[t]))]
    /\ wire' = [wire EXCEPT ![t] = Tail(@)]
    /\ UNCHANGED <<srv, up, agent, req, resp, excuse, clicks, faults>>

-----------------------------------------------------------------------------
(* The agent, which polls for the event, edits the source and replies *)

AgentTakes(j) ==
    /\ up /\ agent = Nil
    /\ agent' = [id |-> j.ev.id, batch |-> j.ev.batch, edited |-> FALSE]
    /\ UNCHANGED <<srv, up, dock, req, resp, wire, excuse, clicks, faults>>

\* it writes some of the texts and may leave one of its files broken
AgentEdits ==
    /\ agent # Nil /\ ~agent.edited
    /\ agent' = [agent EXCEPT !.edited = TRUE]
    /\ \E D \in SUBSET RefsOf(agent.batch), B \in {{}} \cup {{f} : f \in FilesOf(agent.batch)} :
         LET entry(r) == CHOOSE e \in ToSet(agent.batch) : r \in DOMAIN e.ops
         IN  srv' = [srv EXCEPT !.text = [r \in Refs |-> IF r \in D THEN entry(r).ops[r] ELSE @[r]],
                                !.broken = (@ \ FilesOf(agent.batch)) \cup B]
    /\ excuse' = IF agent.id \in Deferreds(srv) THEN excuse
                 ELSE excuse \cup {<<"late", agent.id>>}
    /\ UNCHANGED <<up, dock, req, resp, wire, clicks, faults>>

\* the repair path relies on the agent for what the first pass checks: an
\* entry with a text in the source, and a file that changed since the commit
\* began, have been reported
Candid(j, res) ==
    LET written == {e \in ToSet(j.batch) : \E r \in DOMAIN e.ops : srv.text[r] # j.snap.text[r]}
    IN  j.attempt > 0 => /\ {e.id : e \in written} \subseteq res.applied \cup j.applied
                         /\ Changed(srv, j.snap) \subseteq res.files \cup j.files
\* results that differ to the commit: partial without failures is like done,
\* and an error's failed entries and files do not matter
Results(batch) ==
    LET I == IdsOf(batch)
        Res(S, A, F) == [status : S, applied : A, failed : F, files : SUBSET FilesOf(batch)]
    IN  Res({"done"}, (SUBSET I) \ {{}}, {{}}) \cup Res({"partial"}, SUBSET I, (SUBSET I) \ {{}})
            \cup [status : {"error"}, applied : {{}}, failed : {I}, files : {{}}]

\* handlePollPost for an apply event; an invalid result is refused and the
\* agent tries again
AgentReplies(j) ==
    /\ agent # Nil /\ agent.edited /\ up /\ agent.id = j.ev.id
    /\ agent' = Nil
    /\ LET s == IF j.attempt > 0 THEN Record(Taken(srv, j), "repairing", j.page, 0) ELSE Taken(srv, j)
       IN  \E res \in Results(j.ev.batch), ok \in BOOLEAN :
              /\ ValidResult(res, j.ev.batch) /\ Candid(j, res)
              /\ Fault(~ok)
              /\ Becomes(Continue(s, j, res, ok))
    /\ UNCHANGED <<up, dock, req, resp, excuse, clicks>>

\* rollbackTimedOutReply; without a tombstone the reply is unknown.  The late
\* edit is made good if no apply began since and the snapshot is of the source
\* as the finished commits have left it
StaleReply ==
    /\ agent # Nil /\ agent.edited /\ up /\ agent.id \notin Deferreds(srv)
    /\ agent' = Nil
    /\ LET T == {x \in srv.tombs : x.id = agent.id}
           x == CHOOSE x \in T : TRUE
       IN  IF T = {} THEN UNCHANGED <<srv, excuse>>
           ELSE /\ srv' = [Restored(srv, x.snap) EXCEPT !.tombs = @ \ T]
                /\ excuse' = IF srv.jobs = {} /\ srv.tx = Nil /\ AsCommitted(srv, x.snap)
                             THEN excuse \ {<<"late", x.id>>} ELSE excuse
    /\ UNCHANGED <<up, dock, req, resp, wire, clicks, faults>>

\* the hard timeout of an event
Timeout(j) ==
    /\ up
    /\ Becomes(Continue(Tombstone(Taken(srv, j), j), j, Rejected, TRUE))
    /\ excuse' = IF j.attempt > 0 /\ agent # Nil /\ agent.id = j.ev.id
                 THEN excuse \cup {<<"late", agent.id>>} ELSE excuse
    /\ UNCHANGED <<up, agent, dock, req, resp, clicks, faults>>

AgentInterrupted ==
    /\ agent # Nil /\ agent' = Nil /\ Fault(TRUE)
    /\ srv' = [srv EXCEPT !.tombs = {}]
    /\ UNCHANGED <<up, dock, req, resp, wire, excuse, clicks>>

-----------------------------------------------------------------------------
(* Reloads, and the server's end and start *)

\* the dock starts hidden, with the state kept in sessionStorage, and asks
\* for the count; activity pushed before the new stream is missed
Reload(t) ==
    /\ up /\ Free(t) /\ Fault(TRUE)
    /\ dock' = [dock EXCEPT ![t] = UpdateCounter([Hidden EXCEPT !.stored = dock[t].stored],
                                                 CountPage(srv, PageOf[t]))]
    /\ wire' = [wire EXCEPT ![t] = <<>>]
    /\ UNCHANGED <<srv, up, agent, req, resp, excuse, clicks>>

Crash ==
    /\ up /\ up' = FALSE /\ Fault(TRUE)
    /\ srv' = [srv EXCEPT !.jobs = {}, !.tombs = {}]
    /\ wire' = [t \in Tabs |-> <<>>]
    /\ UNCHANGED <<agent, dock, req, resp, excuse, clicks>>

\* the server dies in the step that ends a commit, which has removed what was
\* applied from the buffer or undone the source; the transaction that the
\* finally of the route clears is still there
CutShort(s) ==
    /\ up /\ s.tx # srv.tx /\ up' = FALSE /\ Fault(TRUE)
    /\ srv' = [srv EXCEPT !.text = s.text, !.broken = s.broken, !.buf = s.buf,
                          !.want = s.want, !.jobs = {}, !.tombs = {}]
    /\ excuse' = IF s.buf # srv.buf /\ srv.tx.ids \cap IdsOf(s.buf) # {}
                 THEN excuse \cup {<<"cut", srv.tx.id>>} ELSE excuse
    /\ wire' = [t \in Tabs |-> <<>>]
    /\ UNCHANGED <<dock, req, resp, clicks>>
CrashInReply(j) ==
    /\ agent # Nil /\ agent.edited /\ agent.id = j.ev.id /\ agent' = Nil
    /\ \E res \in Results(j.ev.batch) :
          /\ ValidResult(res, j.ev.batch) /\ Candid(j, res)
          /\ CutShort(Continue(Taken(srv, j), j, res, TRUE))
CrashInTimeout(j) ==
    /\ CutShort(Continue(Tombstone(Taken(srv, j), j), j, Rejected, TRUE))
    /\ UNCHANGED agent
CrashInRepair(t) ==
    /\ req[t].kind = "repair" /\ srv.tx # Nil
    /\ CutShort(StartCommit(srv, PageOf[t], TRUE, TRUE))
    /\ UNCHANGED agent

\* startup: rollbackTransaction; a new token, so the
\* tabs are loaded anew and what they stored is not found
Restart ==
    /\ ~up /\ up' = TRUE
    /\ \A t \in Tabs : Free(t)
    /\ srv' = RollbackTransaction(srv, Nil)
    /\ dock' = [t \in Tabs |-> UpdateCounter(Hidden, CountPage(srv, PageOf[t]))]
    /\ UNCHANGED <<agent, req, resp, wire, excuse, clicks, faults>>

CopyNext ==
    \/ \E t \in Tabs : \/ Save(t) \/ Apply(t) \/ Trash(t) \/ KeepFixing(t) \/ RollBack(t)
                       \/ Serve(t) \/ Unserved(t) \/ Answer(t) \/ Receive(t) \/ Reload(t)
                       \/ CrashInRepair(t)
    \/ \E j \in srv.jobs : \/ AgentTakes(j) \/ Timeout(j) \/ AgentReplies(j)
                           \/ CrashInReply(j) \/ CrashInTimeout(j)
    \/ AgentEdits \/ StaleReply \/ AgentInterrupted \/ Crash \/ Restart

CopySpec == CopyInit /\ [][CopyNext]_copyVars

-----------------------------------------------------------------------------
(* Properties *)

\* At rest the source holds exactly what the finished commits wrote: whatever
\* a failed, timed-out, cut-off or undone apply left in the files is gone
\* again (rollbackChangedFiles, rollbackManualApplyTransaction,
\* rollbackTimedOutReply), and nothing a commit cleared from the buffer was
\* rolled back with it.  Not so while an excuse stands: an agent has edited
\* after its event timed out and no stale reply has made it good yet, the
\* server died with a part of the entries cleared, or requests collided.
CommittedStands ==
    up /\ srv.jobs = {} /\ srv.tx = Nil /\ excuse = {}
        => srv.text = srv.want /\ srv.broken = {}

\* While a transaction is on disk, rolling it back - by the user's choice, at
\* the next apply or at the next start - really restores, and to the source
\* as the finished commits left it, not to a half-applied one.  The same
\* excuses as above.
RecoveryRestores ==
    srv.tx # Nil /\ excuse = {} =>
        AsCommitted(srv, Snap(RollbackTransaction(srv, Nil), srv.tx.snap.files))

\* A dock that shows an apply as running waits for something that will come:
\* the answer to its request, a commit that awaits its event (which times
\* out), or the pushed end of one; unless a reload or crash lost the activity.
\* (Not so once the dock has asked for a decision: see the README.)
BusyHasCause ==
    faults = 0 => \A t \in Tabs : dock[t].busy /\ ~dock[t].asked =>
        \/ req[t].kind \in {"commit", "repair"}
        \/ resp[t].kind = "repair" /\ ~resp[t].ok
        \/ \E j \in srv.jobs : j.page = PageOf[t]
        \/ \E i \in DOMAIN wire[t] : /\ wire[t][i].type \in {"done", "failed", "decision"}
                                     /\ wire[t][i].page = PageOf[t]

=============================================================================
