--------------------------- MODULE SpawnApproval ---------------------------
(***************************************************************************)
(* A managed agent is launched only after a reviewer approved it: the      *)
(* SpawnAgent command, the worker task that waits for the decision and     *)
(* launches, the expiry task that denies what nobody decided, and          *)
(* finalize_spawn_decision, which reviewers and the expiry task run        *)
(* against each other.  Unlike a hook's decision, a spawn's is first made  *)
(* durable and only then released to its waiter.                           *)
(*                                                                         *)
(* A finalizer is a reviewer's connection, or a request r standing for its *)
(* own expiry task.  Queue methods and SQL transactions are atomic; every  *)
(* await between them is a step boundary.                                  *)
(***************************************************************************)
EXTENDS DecisionQueue, Naturals, FiniteSets

CONSTANTS Reviewers,        \* connections that review spawns
          MaxPendingSpawns, \* MAX_PENDING_SPAWNS
          Faults,           \* what may go wrong: see FaultKinds
          MaxCrashes        \* bound: daemon crashes in one behaviour

\* "db": a statement fails or times out; "reconcile": so does the transaction
\* that reconciles; "mode": the operator switches the gate off; "panic": a
\* finalizing task dies; "invalid": a request does not survive validation;
\* "client": the requester disconnects.
FaultKinds == {"db", "reconcile", "mode", "panic", "invalid", "client"}

ASSUME SpawnAssumption ==
    /\ \A q, r \in Requests : IdOf[q] = IdOf[r] => q = r   \* Uuid::new_v4
    /\ Reviewers \cap Requests = {}
    /\ MaxPendingSpawns \in Nat
    /\ Faults \subseteq FaultKinds
    /\ MaxCrashes \in Nat
    /\ IsFiniteSet(Ids)

VARIABLES phase,     \* the daemon: "up", "down" or "draining"
          crashes,   \* crashes so far
          mode,      \* the mode file: "active" or "off"
          worker,    \* the spawn's command handler, then its worker task
          result,    \* what run_after_spawn_approval returned
          expiry,    \* the spawn's expiry task
          late,      \* requests older than SPAWN_APPROVAL_TIMEOUT
          fin,       \* a finalize_spawn_decision in progress
          launched,  \* requests whose agent process was started
          unreconciled,       \* requests whose log could not be corrected
          pending_decisions,  \* ids with a row in that table
          decision_log        \* id |-> audit row, or None

dbVars  == <<pending_decisions, decision_log>>
envVars == <<phase, crashes, mode, late>>
launchVars == <<launched, unreconciled>>
vars == <<queueVars, envVars, worker, result, expiry, fin, launchVars, dbVars>>

Finalizers == Reviewers \cup Requests

WorkerStates == {"none", "admitted", "persisted", "overflow", "queued",
                 "waiting", "settling", "aborting", "settled", "forgetting",
                 "done", "refused", "unrecorded", "orphaned", "lost"}

Results == {"none", "running", "failed", "denied", "deferred", "closed"}

ExpiryStates == {"none", "sleeping", "started", "done", "aborted"}

Resolvers == {"human", "spawn_timeout:deny", "spawn_persistence_failure:deny",
              "spawn_channel_drop:deny", "daemon_restart:failclosed_spawn"}

\* failed: the ":spawn_action_failed" suffix of decided_by.
LogRows == [decision : Decisions, by : Resolvers, failed : BOOLEAN]

Finalizations == [stage : {"validate", "persist", "release", "refuse", "reconcile"},
                  req : Requests, decision : Decisions]

ASSUME OptionAssumption == None \notin Finalizations \cup LogRows  \* an Option

TypeOK ==
    /\ QueueTypeOK
    /\ phase \in {"up", "down", "draining"}
    /\ crashes \in 0..MaxCrashes
    /\ mode \in {"active", "off"}
    /\ worker \in [Requests -> WorkerStates]
    /\ result \in [Requests -> Results]
    /\ expiry \in [Requests -> ExpiryStates]
    /\ late \subseteq Requests
    /\ fin \in [Finalizers -> Finalizations \cup {None}]
    /\ launched \subseteq Requests
    /\ unreconciled \subseteq Requests
    /\ pending_decisions \subseteq Ids
    /\ decision_log \in [Ids -> LogRows \cup {None}]

Init ==
    /\ QueueInit
    /\ phase = "up"
    /\ crashes = 0
    /\ mode = "active"
    /\ worker = [r \in Requests |-> "none"]
    /\ result = [r \in Requests |-> "none"]
    /\ expiry = [r \in Requests |-> "none"]
    /\ late = {}
    /\ fin = [f \in Finalizers |-> None]
    /\ launched = {}
    /\ unreconciled = {}
    /\ pending_decisions = {}
    /\ decision_log = [id \in Ids |-> None]

-----------------------------------------------------------------------------
(* The transactions of state/decisions.rs *)

Row(d, by) == [decision |-> d, by |-> by, failed |-> FALSE]

\* resolve_spawn_pending_by returns whether the approval was recorded.
ApprovalRecorded(r) == IdOf[r] \in pending_decisions /\ decision_log[IdOf[r]] = None

ResolveSpawnPendingBy(r, by) ==
    /\ decision_log' = IF ApprovalRecorded(r)
                       THEN [decision_log EXCEPT ![IdOf[r]] = Row("approve", by)]
                       ELSE decision_log
    /\ pending_decisions' = pending_decisions \ {IdOf[r]}

\* force_failclosed_spawn_resolution: whatever row there was, and if there was
\* none, the log now says denied.  A failure suffix is not part of the update's
\* new decided_by.
ForceFailclosed(r, by) ==
    /\ decision_log' = [decision_log EXCEPT ![IdOf[r]] = Row("deny", by)]
    /\ pending_decisions' = pending_decisions \ {IdOf[r]}

DeleteManagedSpawnPending(r) ==
    /\ pending_decisions' = pending_decisions \ {IdOf[r]}
    /\ UNCHANGED decision_log

-----------------------------------------------------------------------------
(* The SpawnAgent command *)

WorkerTo(r, state) == worker' = [worker EXCEPT ![r] = state]

\* The mode is checked, then the request is validated; an error reply ends it.
Submit(r) ==
    /\ phase = "up"
    /\ worker[r] = "none"
    /\ \/ /\ mode = "active"
          /\ WorkerTo(r, "admitted")
       \/ /\ mode # "active" \/ "invalid" \in Faults
          /\ WorkerTo(r, "refused")
    /\ UNCHANGED <<queueVars, envVars, result, expiry, fin, launchVars, dbVars>>

\* persist_pending, then the provenance check; a failing check leaves the row.
PersistPending(r) ==
    /\ worker[r] = "admitted"
    /\ \/ /\ pending_decisions' = pending_decisions \cup {IdOf[r]}
          /\ WorkerTo(r, "persisted")
       \/ /\ "db" \in Faults
          /\ pending_decisions' \in {pending_decisions,
                                     pending_decisions \cup {IdOf[r]}}
          /\ WorkerTo(r, "unrecorded")
    /\ UNCHANGED <<queueVars, envVars, result, expiry, fin, launchVars, decision_log>>

\* managed_spawn_count() >= MAX_PENDING_SPAWNS
AtCapacity == Cardinality(managed_spawn_ids) >= MaxPendingSpawns

\* Capacity test and enqueue are one critical section.
QueueSpawn(r) ==
    /\ worker[r] = "persisted"
    /\ \/ /\ ~AtCapacity
          /\ EnqueueManagedSpawn(r)
          /\ WorkerTo(r, "queued")
       \/ /\ AtCapacity \/ IsDuplicate(IdOf[r])
          /\ WorkerTo(r, "overflow")
          /\ UNCHANGED queueVars
    /\ UNCHANGED <<envVars, result, expiry, fin, launchVars, dbVars>>

\* A refused enqueue takes its row away again, or fails to.
CleanUpRefused(r) ==
    /\ worker[r] = "overflow"
    /\ \/ /\ DeleteManagedSpawnPending(r)
          /\ WorkerTo(r, "refused")
       \/ /\ "db" \in Faults
          /\ UNCHANGED dbVars
          /\ WorkerTo(r, "unrecorded")
    /\ UNCHANGED <<queueVars, envVars, result, expiry, fin, launchVars>>

\* AgentSpawnQueued is written and the worker is spawned, its expiry task with
\* it.
StartWorker(r) ==
    /\ worker[r] = "queued"
    /\ WorkerTo(r, "waiting")
    /\ expiry' = [expiry EXCEPT ![r] = "sleeping"]
    /\ UNCHANGED <<queueVars, envVars, result, fin, launchVars, dbVars>>

\* The acknowledgement cannot be written: `?' leaves the handler before the
\* worker and the expiry task exist, the receiver is dropped, the entry stays.
AckFails(r) ==
    /\ "client" \in Faults
    /\ worker[r] = "queued"
    /\ WorkerTo(r, "orphaned")
    /\ UNCHANGED <<queueVars, envVars, result, expiry, fin, launchVars, dbVars>>

-----------------------------------------------------------------------------
(* finalize_spawn_decision *)

Finish(f) == fin' = [fin EXCEPT ![f] = None]

Stage(f, s) == fin' = [fin EXCEPT ![f].stage = s]

At(f, s) == fin[f] # None /\ fin[f].stage = s

\* First lock: the request is pending and a managed spawn.  (If it is neither,
\* the call returns and nothing changes.)
Peeked(f, r, d) ==
    /\ fin[f] = None
    /\ r \in Peek(IdOf[r])
    /\ IdOf[r] \in managed_spawn_ids
    /\ fin' = [fin EXCEPT ![f] = [stage |-> "validate", req |-> r, decision |-> d]]

Review(c, r, d) ==
    /\ phase = "up"
    /\ c \in Reviewers
    /\ Peeked(c, r, d)
    /\ UNCHANGED <<queueVars, envVars, worker, result, expiry, launchVars, dbVars>>

\* An invalid edited request is an error; the spawn stays pending.
ReviewInvalid(f) ==
    /\ "invalid" \in Faults
    /\ At(f, "validate")
    /\ fin[f].decision = "approve"
    /\ Finish(f)
    /\ UNCHANGED <<queueVars, envVars, worker, result, expiry, launchVars, dbVars>>

\* Second lock: deadline test and claim together.  Somebody else may have
\* claimed it meanwhile, an approval may have come too late.
ClaimSpawn(f) ==
    /\ At(f, "validate")
    /\ LET r == fin[f].req IN
       \/ /\ r \in Peek(IdOf[r])
          /\ fin[f].decision = "approve" => r \notin late
          /\ Claim(IdOf[r])
          /\ Stage(f, "persist")
       \/ /\ r \notin Peek(IdOf[r]) \/ (fin[f].decision = "approve" /\ r \in late)
          /\ Finish(f)
          /\ UNCHANGED queueVars
    /\ UNCHANGED <<envVars, worker, result, expiry, launchVars, dbVars>>

ResolverOf(f) == IF f \in Requests THEN "spawn_timeout:deny" ELSE "human"

\* The transaction each decision calls for, and whether it returns true.
Persisted(f) ==
    LET r == fin[f].req IN
    CASE fin[f].decision = "approve" -> ResolveSpawnPendingBy(r, ResolverOf(f))
      [] fin[f].decision = "deny"    -> ForceFailclosed(r, ResolverOf(f))
      [] OTHER                       -> DeleteManagedSpawnPending(r)

PersistReturns(f) ==
    LET r == fin[f].req IN
    CASE fin[f].decision = "approve" -> ApprovalRecorded(r)
      [] fin[f].decision = "deny"    -> TRUE
      [] OTHER                       -> IdOf[r] \in pending_decisions

\* Variant: an error or a timeout is taken for success.
PersistDecision_IgnoresErrors(f) ==
    /\ At(f, "persist")
    /\ \/ /\ Persisted(f)
          /\ Stage(f, IF PersistReturns(f) THEN "release" ELSE "refuse")
       \/ /\ "db" \in Faults
          /\ Persisted(f) \/ UNCHANGED dbVars
          /\ Stage(f, "release")
    /\ UNCHANGED <<queueVars, envVars, worker, result, expiry, launchVars>>

\* The transaction ends, or an error or a timeout is returned: then it may
\* have committed all the same.
PersistDecision(f) ==
    /\ At(f, "persist")
    /\ \/ /\ Persisted(f)
          /\ Stage(f, IF PersistReturns(f) THEN "release" ELSE "refuse")
       \/ /\ "db" \in Faults
          /\ Persisted(f) \/ UNCHANGED dbVars
          /\ Stage(f, "refuse")
    /\ UNCHANGED <<queueVars, envVars, worker, result, expiry, launchVars>>

\* Recorded: only now is the waiter released.
Release(f) ==
    /\ At(f, "release")
    /\ CompleteClaim(fin[f].req, fin[f].decision)
    /\ Finish(f)
    /\ UNCHANGED <<envVars, worker, result, expiry, launchVars, dbVars>>

\* Not recorded, or not known to be: the waiter is released with a Deny ...
Refuse(f) ==
    /\ At(f, "refuse")
    /\ CompleteClaim(fin[f].req, "deny")
    /\ Stage(f, "reconcile")
    /\ UNCHANGED <<envVars, worker, result, expiry, launchVars, dbVars>>

\* ... and then the log is forced to agree, unless that fails too.
Reconcile(f) ==
    /\ At(f, "reconcile")
    /\ Finish(f)
    /\ \/ /\ ForceFailclosed(fin[f].req, "spawn_persistence_failure:deny")
          /\ unreconciled' = unreconciled
       \/ /\ "reconcile" \in Faults
          /\ unreconciled' = unreconciled \cup {fin[f].req}
          /\ UNCHANGED dbVars
    /\ UNCHANGED <<queueVars, envVars, worker, result, expiry, launched>>

Holds(f, r) == /\ fin[f] # None
               /\ fin[f].req = r
               /\ fin[f].stage \in {"persist", "release", "refuse"}

\* A claim that is dropped with the task that held it: the sender goes unsent,
\* the entry in claimed_items stays.
DropClaim(f) ==
    LET gone == {r \in claims : Holds(f, r)} IN
    /\ claims' = claims \ gone
    /\ rx' = [r \in Requests |-> IF r \in gone THEN "dropped" ELSE rx[r]]
    /\ Finish(f)
    /\ UNCHANGED <<pending_senders, pending_items, claimed_items,
                   managed_spawn_ids, view>>

\* The task that finalizes dies before it released the waiter (afterwards it
\* is one more way for the reconciliation to fail).
FinalizerDies(f) ==
    /\ "panic" \in Faults
    /\ fin[f] # None
    /\ fin[f].stage # "reconcile"
    /\ DropClaim(f)
    /\ expiry' = IF f \in Requests THEN [expiry EXCEPT ![f] = "done"] ELSE expiry
    /\ UNCHANGED <<envVars, worker, result, launchVars, dbVars>>

FinalizerStep(f) == \/ ClaimSpawn(f) \/ PersistDecision(f) \/ Release(f)
                    \/ Refuse(f) \/ Reconcile(f)

-----------------------------------------------------------------------------
(* The expiry task *)

DeadlinePasses(r) ==
    /\ rx[r] # "none"
    /\ r \notin late
    /\ late' = late \cup {r}
    /\ UNCHANGED <<queueVars, phase, crashes, mode, worker, result, expiry, fin,
                   launchVars, dbVars>>

\* The sleep, which began after the request was stamped, is over.
ExpiryStarts(r) ==
    /\ expiry[r] = "sleeping"
    /\ r \in late
    /\ expiry' = [expiry EXCEPT ![r] = "started"]
    /\ UNCHANGED <<queueVars, envVars, worker, result, fin, launchVars, dbVars>>

\* It finalizes with a Deny if the request is still pending; either way, once
\* finalize_spawn_decision returns the task is over.
ExpiryFinalizes(r) ==
    /\ expiry[r] = "started"
    /\ \/ /\ Peeked(r, r, "deny")
          /\ UNCHANGED expiry
       \/ /\ fin[r] = None
          /\ r \notin Peek(IdOf[r])
          /\ expiry' = [expiry EXCEPT ![r] = "done"]
          /\ UNCHANGED fin
    /\ UNCHANGED <<queueVars, envVars, worker, result, launchVars, dbVars>>

-----------------------------------------------------------------------------
(* The worker task *)

Returns(r, res) == /\ result' = [result EXCEPT ![r] = res]
                   /\ WorkerTo(r, "settling")

\* ensure_spawn_mode_active, immediately before the process is created.
MayLaunch == mode = "active"

\* An Approve launches the reviewed request.
Launch(r) ==
    /\ worker[r] = "waiting"
    /\ rx[r] = "approve"
    /\ MayLaunch
    /\ launched' = launched \cup {r}
    /\ unreconciled' = unreconciled
    /\ Returns(r, "running")
    /\ UNCHANGED <<queueVars, envVars, expiry, fin, dbVars>>

\* The gate is off now, the reviewed request is invalid, or the process cannot
\* be started.
LaunchFails(r) ==
    /\ worker[r] = "waiting"
    /\ rx[r] = "approve"
    /\ ~MayLaunch \/ "invalid" \in Faults
    /\ Returns(r, "failed")
    /\ UNCHANGED <<queueVars, envVars, expiry, fin, launchVars, dbVars>>

NotApproved(r) ==
    /\ worker[r] = "waiting"
    /\ rx[r] \in {"deny", "ask", "dropped"}
    /\ Returns(r, CASE rx[r] = "deny" -> "denied"
                    [] rx[r] = "ask"  -> "deferred"
                    [] OTHER          -> "closed")
    /\ UNCHANGED <<queueVars, envVars, expiry, fin, launchVars, dbVars>>

\* settle_spawn_expiry reads the started flag ...
SettleExpiry(r) ==
    /\ worker[r] = "settling"
    /\ \/ /\ expiry[r] = "done"
          /\ WorkerTo(r, "settled")
       \/ /\ expiry[r] = "sleeping"
          /\ WorkerTo(r, "aborting")
    /\ UNCHANGED <<queueVars, envVars, result, expiry, fin, launchVars, dbVars>>

\* ... and aborts a task that had not started, at the await where it now is.
AbortExpiry(r) ==
    /\ worker[r] = "aborting"
    /\ DropClaim(r)
    /\ expiry' = [expiry EXCEPT ![r] = "aborted"]
    /\ WorkerTo(r, "settled")
    /\ UNCHANGED <<envVars, result, launchVars, dbVars>>

\* Variant: a failed launch is not recorded.
RecordActionFailure_Skipped(r) == UNCHANGED decision_log

\* record_spawn_action_failure: only an approval's row is marked.
RecordActionFailure(r) ==
    decision_log' = IF /\ decision_log[IdOf[r]] # None
                       /\ decision_log[IdOf[r]].decision = "approve"
                    THEN [decision_log EXCEPT ![IdOf[r]].failed = TRUE]
                    ELSE decision_log

\* What each result still needs: a failed launch is marked in the log; after a
\* closed channel finalize_spawn_abandonment first denies durably (if the id is
\* not known as a managed spawn any more it gives up).
Conclude(r) ==
    /\ worker[r] = "settled"
    /\ \/ /\ result[r] \in {"running", "denied", "deferred"}
          /\ WorkerTo(r, "done")
          /\ UNCHANGED dbVars
       \/ /\ result[r] = "failed"
          /\ RecordActionFailure(r)
          /\ WorkerTo(r, "done")
          /\ UNCHANGED pending_decisions
       \/ /\ result[r] = "closed"
          /\ IdOf[r] \in managed_spawn_ids
          /\ r \in Snapshot
          /\ ForceFailclosed(r, "spawn_channel_drop:deny")
          /\ WorkerTo(r, "forgetting")
       \/ /\ "db" \in Faults
          /\ result[r] \in {"failed", "closed"}
          /\ WorkerTo(r, "unrecorded")
          /\ UNCHANGED dbVars
    /\ UNCHANGED <<queueVars, envVars, result, expiry, fin, launchVars>>

\* Variant: the abandoned entry stays claimed.
ForgetAbandoned_Skipped(r) ==
    /\ worker[r] = "forgetting"
    /\ WorkerTo(r, "done")
    /\ UNCHANGED <<queueVars, envVars, result, expiry, fin, launchVars, dbVars>>

\* ... and then forgets the queue entry.
ForgetAbandoned(r) ==
    /\ worker[r] = "forgetting"
    /\ FinalizeLocal(IdOf[r])
    /\ WorkerTo(r, "done")
    /\ UNCHANGED <<envVars, result, expiry, fin, launchVars, dbVars>>

WorkerStep(r) ==
    \/ PersistPending(r) \/ QueueSpawn(r) \/ CleanUpRefused(r)
    \/ StartWorker(r) \/ AckFails(r)
    \/ Launch(r) \/ LaunchFails(r) \/ NotApproved(r)
    \/ SettleExpiry(r) \/ AbortExpiry(r) \/ Conclude(r) \/ ForgetAbandoned(r)

-----------------------------------------------------------------------------
(* The daemon process *)

SetMode == /\ "mode" \in Faults
           /\ mode' = IF mode = "active" THEN "off" ELSE "active"
           /\ UNCHANGED <<queueVars, phase, crashes, late, worker, result, expiry,
                          fin, launchVars, dbVars>>

Crash ==
    /\ phase # "down"
    /\ crashes < MaxCrashes
    /\ crashes' = crashes + 1
    /\ phase' = "down"
    /\ pending_senders' = [id \in Ids |-> None]
    /\ pending_items' = {}
    /\ claimed_items' = [id \in Ids |-> None]
    /\ managed_spawn_ids' = {}
    /\ claims' = {}
    /\ rx' = [r \in Requests |-> IF rx[r] = "open" THEN "dropped" ELSE rx[r]]
    /\ view' = {}
    /\ worker' = [r \in Requests |->
                     IF worker[r] = "none" THEN "none" ELSE "lost"]
    /\ expiry' = [r \in Requests |->
                     IF expiry[r] = "none" THEN "none" ELSE "aborted"]
    /\ fin' = [f \in Finalizers |-> None]
    /\ UNCHANGED <<mode, late, result, launchVars, dbVars>>

Restart == /\ phase = "down"
           /\ phase' = "draining"
           /\ UNCHANGED <<queueVars, crashes, mode, late, worker, result, expiry,
                          fin, launchVars, dbVars>>

\* drain_orphaned_pending, one row: no child was started for it, so it is
\* logged denied (INSERT OR IGNORE), and then deleted.
DrainInsert(id) ==
    /\ phase = "draining"
    /\ id \in pending_decisions
    /\ decision_log[id] = None
    /\ decision_log' = [decision_log EXCEPT ![id] =
                           Row("deny", "daemon_restart:failclosed_spawn")]
    /\ UNCHANGED <<queueVars, envVars, worker, result, expiry, fin, launchVars,
                   pending_decisions>>

DrainDelete(id) ==
    /\ phase = "draining"
    /\ id \in pending_decisions
    /\ decision_log[id] # None
    /\ pending_decisions' = pending_decisions \ {id}
    /\ UNCHANGED <<queueVars, envVars, worker, result, expiry, fin, launchVars,
                   decision_log>>

\* The socket is bound when the drain is through, or has failed.
Bind == /\ phase = "draining"
        /\ pending_decisions = {} \/ "db" \in Faults
        /\ phase' = "up"
        /\ UNCHANGED <<queueVars, crashes, mode, late, worker, result, expiry,
                       fin, launchVars, dbVars>>

Next == \/ \E r \in Requests : \/ Submit(r) \/ WorkerStep(r)
                               \/ DeadlinePasses(r)
                               \/ ExpiryStarts(r) \/ ExpiryFinalizes(r)
        \/ \E c \in Reviewers, r \in Requests, d \in Decisions : Review(c, r, d)
        \/ \E f \in Finalizers : FinalizerStep(f) \/ ReviewInvalid(f) \/ FinalizerDies(f)
        \/ SetMode \/ Crash \/ Restart \/ Bind
        \/ \E id \in Ids : DrainInsert(id) \/ DrainDelete(id)

Spec == Init /\ [][Next]_vars

-----------------------------------------------------------------------------
(* Properties *)

\* An agent process exists only for a spawn whose approval is in the audit
\* log, and it stays there: no expiry, no competing reviewer, no timed-out
\* transaction and its reconciliation, and no restart turns the row of a
\* running agent into a denial or a failure.
LaunchIsAudited ==
    \A r \in launched :
        /\ decision_log[IdOf[r]] # None
        /\ decision_log[IdOf[r]].decision = "approve"
        /\ ~decision_log[IdOf[r]].failed

\* The converse, once the worker is through: an approval in the log whose
\* launch did not happen is marked as failed, unless the reconciling
\* transaction failed as well.  (After a crash, or when the worker's own
\* write failed, one may stay unmarked: it is not "done" then.)
ApprovalMeansLaunched ==
    \A r \in Requests \ unreconciled :
        /\ worker[r] = "done"
        /\ \A f \in Finalizers : fin[f] = None
        /\ decision_log[IdOf[r]] # None
        /\ decision_log[IdOf[r]].decision = "approve"
        /\ ~decision_log[IdOf[r]].failed
        => r \in launched

\* A finished worker gives its slot back: nothing that is over counts towards
\* the limit, even when its finalizer died holding the claim.
SlotsReturned ==
    \A r \in Requests :
        worker[r] \in {"done", "refused"} => IdOf[r] \notin managed_spawn_ids
=============================================================================
