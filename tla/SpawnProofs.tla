---------------------------- MODULE SpawnProofs -----------------------------
(***************************************************************************)
(* Managed spawns, for every set of requests with distinct ids, every set  *)
(* of reviewers, every limit, every combination of faults and any number   *)
(* of crashes.                                                             *)
(*                                                                         *)
(* What is durable (decision_log), what is in memory (rx, claims, fin) and *)
(* what the worker did (worker, result, launched) are changed by different *)
(* tasks; SpawnInv says how far they may be apart at every step boundary.  *)
(***************************************************************************)
EXTENDS SpawnApproval, DecisionQueueProofs

\* The log holds no approval of r.
NotApprovedYet(r) ==
    decision_log[IdOf[r]] # None => decision_log[IdOf[r]].decision # "approve"

\* It does, and not as a failed one.
ApprovedInLog(r) ==
    /\ decision_log[IdOf[r]] # None
    /\ decision_log[IdOf[r]].decision = "approve"
    /\ ~decision_log[IdOf[r]].failed

\* A claim is held by exactly one finalizer, under the request's own id.
ClaimsHeld ==
    /\ \A f \in Finalizers, r \in Requests : Holds(f, r) => r \in claims
    /\ \A f, g \in Finalizers, r \in Requests : Holds(f, r) /\ Holds(g, r) => f = g
    /\ \A r \in claims : claimed_items[IdOf[r]] = r
    /\ \A r \in Requests : claimed_items[IdOf[r]] = r => rx[r] \in {"open", "dropped"}

\* The stages before the worker task, and its expiry task, are spawned.
Unstarted == {"none", "admitted", "persisted", "queued"}

\* An expiry task exists once its worker does; it finalizes its own request,
\* while it is started, and one that is being aborted has no call under way.
ExpiryCoherent ==
    /\ \A r \in Requests : worker[r] \in Unstarted => expiry[r] = "none"
    /\ \A r \in Requests : fin[r] # None => fin[r].req = r /\ expiry[r] = "started"
    /\ \A r \in Requests : worker[r] = "aborting" => fin[r] = None

\* Stage, channel and result of a worker go together.
WorkerCoherent ==
    \A r \in Requests :
        /\ worker[r] \in {"none", "admitted", "persisted", "overflow", "refused"} =>
              rx[r] = "none"
        /\ worker[r] \in {"none", "admitted", "persisted", "overflow", "refused",
                          "queued", "waiting", "orphaned"} => result[r] = "none"
        /\ worker[r] \in {"settling", "aborting", "settled", "forgetting", "done"} =>
              result[r] # "none"
        /\ worker[r] = "forgetting" => result[r] = "closed"
        /\ result[r] \in {"running", "failed"} => rx[r] = "approve"
        /\ result[r] = "denied" => rx[r] = "deny"
        /\ result[r] = "deferred" => rx[r] = "ask"
        /\ result[r] = "closed" => rx[r] = "dropped"
        /\ r \in launched => result[r] = "running"
        /\ result[r] = "running" => r \in launched

\* Until a decision is recorded the log holds no approval; an approval that is
\* about to be released, or was, is there; what was denied or deferred is not,
\* unless a reconciliation is still to come or failed.
LogFollows ==
    /\ \A r \in Requests :
          rx[r] = "none" \/ r \in pending_items \/ rx[r] = "ask" => NotApprovedYet(r)
    /\ \A f \in Finalizers :
          /\ At(f, "persist") => NotApprovedYet(fin[f].req)
          /\ At(f, "release") => IF fin[f].decision = "approve" THEN ApprovedInLog(fin[f].req)
                                 ELSE NotApprovedYet(fin[f].req)
          /\ At(f, "reconcile") => rx[fin[f].req] = "deny"
    /\ \A r \in Requests :
          rx[r] = "approve" => /\ decision_log[IdOf[r]] # None
                               /\ decision_log[IdOf[r]].decision = "approve"
                               /\ decision_log[IdOf[r]].failed => result[r] = "failed"
    /\ \A r \in Requests \ unreconciled :
          rx[r] = "deny" /\ worker[r] # "lost" =>
             NotApprovedYet(r) \/ \E f \in Finalizers : At(f, "reconcile") /\ fin[f].req = r

\* What a worker that is through has seen to.
ConcludedRight ==
    \A r \in Requests :
        /\ worker[r] = "done" /\ result[r] = "failed" => ~ApprovedInLog(r)
        /\ worker[r] = "forgetting" \/ (worker[r] = "done" /\ result[r] = "closed") => NotApprovedYet(r)
        /\ worker[r] = "done" /\ result[r] = "closed" => IdOf[r] \notin managed_spawn_ids

SpawnInv == /\ TypeOK
            /\ QueueInv
            /\ ClaimsHeld
            /\ ExpiryCoherent
            /\ WorkerCoherent
            /\ LogFollows
            /\ ConcludedRight

-----------------------------------------------------------------------------
(* The operators the actions are built from *)

LEMMA FinTyped ==
    ASSUME TypeOK, NEW f \in Finalizers, fin[f] # None
    PROVE  /\ fin[f] \in Finalizations
           /\ fin[f].req \in Requests
           /\ fin[f].decision \in Decisions
           /\ fin[f].stage \in {"validate", "persist", "release", "refuse", "reconcile"}
<1>1. fin[f] \in Finalizations
  BY DEF TypeOK
<1> QED BY <1>1 DEF Finalizations

LEMMA StageMoves ==
    ASSUME TypeOK, NEW f \in Finalizers, fin[f] # None,
           NEW s \in {"validate", "persist", "release", "refuse", "reconcile"},
           Stage(f, s)
    PROVE  /\ fin' \in [Finalizers -> Finalizations \cup {None}]
           /\ fin'[f] # None
           /\ fin'[f].stage = s
           /\ fin'[f].req = fin[f].req
           /\ fin'[f].decision = fin[f].decision
           /\ \A g \in Finalizers : g # f => fin'[g] = fin[g]
<1> DEFINE x == [fin[f] EXCEPT !.stage = s]
<1>1. fin[f] \in Finalizations
  BY FinTyped
<1>2. /\ x \in Finalizations
      /\ x.stage = s
      /\ x.req = fin[f].req
      /\ x.decision = fin[f].decision
  BY <1>1 DEF Finalizations
<1>3. x # None
  BY <1>2, OptionAssumption
<1>4. fin' = [fin EXCEPT ![f] = x]
  BY DEF Stage
<1> HIDE DEF x
<1> QED BY <1>2, <1>3, <1>4 DEF TypeOK

LEMMA FinishMoves ==
    ASSUME TypeOK, NEW f \in Finalizers, Finish(f)
    PROVE  /\ fin' \in [Finalizers -> Finalizations \cup {None}]
           /\ fin'[f] = None
           /\ \A g \in Finalizers : g # f => fin'[g] = fin[g]
BY DEF Finish, TypeOK

LEMMA PeekedMoves ==
    ASSUME TypeOK, NEW f \in Finalizers, NEW r \in Requests, NEW d \in Decisions,
           Peeked(f, r, d)
    PROVE  /\ fin' \in [Finalizers -> Finalizations \cup {None}]
           /\ fin[f] = None
           /\ fin'[f] # None
           /\ fin'[f].stage = "validate"
           /\ fin'[f].req = r
           /\ \A g \in Finalizers : g # f => fin'[g] = fin[g]
<1> DEFINE x == [stage |-> "validate", req |-> r, decision |-> d]
<1>1. x \in Finalizations /\ x.stage = "validate" /\ x.req = r
  BY DEF Finalizations
<1>2. x # None
  BY <1>1, OptionAssumption
<1>3. fin' = [fin EXCEPT ![f] = x] /\ fin[f] = None
  BY DEF Peeked
<1> HIDE DEF x
<1> QED BY <1>1, <1>2, <1>3 DEF TypeOK

\* The rows the transactions write.
LEMMA RowTyped ==
    ASSUME NEW d \in Decisions, NEW by \in Resolvers
    PROVE  /\ Row(d, by) \in LogRows
           /\ Row(d, by) # None
           /\ Row(d, by).decision = d
           /\ Row(d, by).failed = FALSE
<1>1. Row(d, by) \in LogRows
  BY DEF Row, LogRows
<1> QED BY <1>1, OptionAssumption DEF Row

LEMMA ForceMoves ==
    ASSUME TypeOK, NEW r \in Requests, NEW by \in Resolvers, ForceFailclosed(r, by)
    PROVE  /\ decision_log' \in [Ids -> LogRows \cup {None}]
           /\ pending_decisions' \subseteq Ids
           /\ decision_log'[IdOf[r]].decision = "deny"
           /\ \A q \in Requests : q # r => decision_log'[IdOf[q]] = decision_log[IdOf[q]]
<1> DEFINE x == Row("deny", by)
<1>1. x \in LogRows /\ x.decision = "deny"
  BY RowTyped DEF Decisions
<1>2. /\ decision_log' = [decision_log EXCEPT ![IdOf[r]] = x]
      /\ pending_decisions' = pending_decisions \ {IdOf[r]}
  BY DEF ForceFailclosed
<1> HIDE DEF x
<1> QED BY <1>1, <1>2, QueueAssumption, SpawnAssumption DEF TypeOK

\* The claim moves the peeked request and its sender together.
LEMMA ClaimMoves ==
    ASSUME QueueInv, NEW r \in Requests, r \in Peek(IdOf[r]), Claim(IdOf[r])
    PROVE  /\ pending_items' = pending_items \ {r}
           /\ claims' = claims \cup {r}
           /\ claimed_items' = [claimed_items EXCEPT ![IdOf[r]] = r]
           /\ UNCHANGED <<managed_spawn_ids, rx, view>>
<1>1. pending_senders[IdOf[r]] = r
  BY QueueAssumption DEF Peek, QueueInv, SendersMatchItems
<1>2. PICK q \in pending_items :
          /\ IdOf[q] = IdOf[r]
          /\ pending_items' = pending_items \ {q}
          /\ claimed_items' = [claimed_items EXCEPT ![IdOf[r]] = q]
  BY DEF Claim, Peek
<1>3. q = r
  BY <1>2, SpawnAssumption DEF QueueInv, QueueTypeOK
<1> QED BY <1>1, <1>2, <1>3 DEF Claim

\* A held claim is completed, never dropped: nobody finalized its id meanwhile.
LEMMA CompleteMoves ==
    ASSUME SpawnInv, NEW r \in Requests, NEW d \in Decisions, CompleteClaim(r, d)
    PROVE  /\ rx[r] = "open"
           /\ rx' = [rx EXCEPT ![r] = d]
           /\ claims' = claims \ {r}
           /\ claimed_items' = [claimed_items EXCEPT ![IdOf[r]] = None]
           /\ managed_spawn_ids' = managed_spawn_ids \ {IdOf[r]}
           /\ UNCHANGED pending_items
<1>1. r \in claims /\ rx[r] = "open"
  BY DEF CompleteClaim, SpawnInv, QueueInv, OneOwnerPerSender
<1>2. claimed_items[IdOf[r]] # None
  BY <1>1, QueueAssumption DEF SpawnInv, ClaimsHeld
<1> QED BY <1>1, <1>2 DEF CompleteClaim

\* What a finalizer that holds r's claim excludes.
LEMMA HeldMeansOpen ==
    ASSUME SpawnInv, NEW f \in Finalizers, NEW r \in Requests, Holds(f, r)
    PROVE  /\ r \in claims
           /\ r \notin pending_items
           /\ rx[r] = "open"
           /\ result[r] = "none"
           /\ worker[r] \notin {"none", "admitted", "persisted", "overflow", "refused"}
<1>1. r \in claims
  BY DEF SpawnInv, ClaimsHeld
<1>2. rx[r] = "open" /\ r \notin pending_items
  BY <1>1 DEF SpawnInv, QueueInv, OneOwnerPerSender
<1>3. result[r] \in Results
  BY DEF SpawnInv, TypeOK
<1> QED BY <1>1, <1>2, <1>3 DEF SpawnInv, WorkerCoherent, Results

-----------------------------------------------------------------------------
(* The SpawnAgent command and the worker task *)

\* Parts that a step leaves alone when it leaves alone what they speak of.
LEMMA ClaimsHeldFrame ==
    ASSUME ClaimsHeld, UNCHANGED <<queueVars, fin>>
    PROVE  ClaimsHeld'
BY DEF ClaimsHeld, Holds, queueVars

LEMMA ExpiryCoherentFrame ==
    ASSUME ExpiryCoherent, UNCHANGED <<fin, expiry>>,
           \A r \in Requests :
               /\ worker'[r] = "aborting" => worker[r] = "aborting"
               /\ worker'[r] \in Unstarted => worker[r] \in Unstarted
    PROVE  ExpiryCoherent'
BY DEF ExpiryCoherent

LEMMA LogFollowsFrame ==
    ASSUME LogFollows, UNCHANGED <<queueVars, fin, decision_log, unreconciled>>,
           \A r \in Requests : worker'[r] = "lost" <=> worker[r] = "lost",
           \A r \in Requests : result[r] = "failed" => result'[r] = "failed"
    PROVE  LogFollows'
BY DEF LogFollows, At, NotApprovedYet, ApprovedInLog, queueVars

\* A request of the command handler that is not queued yet.
LEMMA SubmitInv ==
    ASSUME SpawnInv, NEW r \in Requests,
           Submit(r) \/ PersistPending(r) \/ CleanUpRefused(r)
    PROVE  SpawnInv'
<1> USE DEF SpawnInv, Submit, PersistPending, CleanUpRefused, WorkerTo,
            DeleteManagedSpawnPending, dbVars, envVars, launchVars
<1>0. UNCHANGED <<queueVars, fin, expiry, result, decision_log, launched, unreconciled>>
  OBVIOUS
<1>1. QueueInv'
  BY <1>0, QueueUnchanged
<1>2. TypeOK'
  <2>1. pending_decisions' \subseteq Ids
    BY QueueAssumption DEF TypeOK
  <2>2. worker' \in [Requests -> WorkerStates]
    BY DEF TypeOK, WorkerStates
  <2> QED BY <1>0, <1>1, <2>1, <2>2 DEF TypeOK, QueueInv
<1>3. /\ worker[r] \in {"none", "admitted", "overflow"}
      /\ worker' = [worker EXCEPT ![r] = worker'[r]]
      /\ worker'[r] \in {"admitted", "refused", "persisted", "unrecorded"}
      /\ worker[r] = "overflow" => worker'[r] \in {"refused", "unrecorded"}
      /\ \A q \in Requests : q # r => worker'[q] = worker[q]
  BY DEF TypeOK
<1>4. ClaimsHeld' /\ LogFollows' /\ ExpiryCoherent'
  BY <1>0, <1>3, ClaimsHeldFrame, LogFollowsFrame, ExpiryCoherentFrame DEF Unstarted
<1>5. WorkerCoherent'
  BY <1>0, <1>3 DEF WorkerCoherent, queueVars
<1>6. ConcludedRight'
  BY <1>0, <1>3 DEF ConcludedRight, ApprovedInLog, NotApprovedYet, queueVars
<1> QED BY <1>1, <1>2, <1>4, <1>5, <1>6

LEMMA QueueSpawnInv ==
    ASSUME SpawnInv, NEW r \in Requests, QueueSpawn(r)
    PROVE  SpawnInv'
<1> USE DEF SpawnInv, QueueSpawn, WorkerTo, dbVars, envVars, launchVars
<1>0. UNCHANGED <<fin, expiry, result, decision_log, pending_decisions, phase, crashes,
                  mode, late, launched, unreconciled>>
  OBVIOUS
<1>1. QueueInv'
  BY QueueUnchanged, EnqueuePreservesInv DEF EnqueueManagedSpawn
<1>2. TypeOK'
  <2>1. worker' \in [Requests -> WorkerStates]
    BY DEF TypeOK, WorkerStates
  <2> QED BY <1>0, <1>1, <2>1 DEF TypeOK, QueueInv
<1>3. /\ worker[r] = "persisted"
      /\ worker'[r] \in {"queued", "overflow"}
      /\ \A q \in Requests : q # r => worker'[q] = worker[q]
  BY DEF TypeOK
<1>4. rx[r] = "none" /\ result[r] = "none" /\ r \notin launched /\ r \notin claims
      /\ NotApprovedYet(r) /\ claimed_items[IdOf[r]] # r
  BY <1>3 DEF WorkerCoherent, LogFollows, QueueInv, OneOwnerPerSender, ClaimsHeld
<1>5. CASE UNCHANGED queueVars /\ worker'[r] = "overflow"
  <2>1. ClaimsHeld' /\ LogFollows' /\ ExpiryCoherent'
    BY <1>0, <1>3, <1>5, ClaimsHeldFrame, LogFollowsFrame, ExpiryCoherentFrame DEF Unstarted
  <2>2. WorkerCoherent'
    BY <1>0, <1>3, <1>5 DEF WorkerCoherent, queueVars
  <2>3. ConcludedRight'
    BY <1>0, <1>3, <1>5 DEF ConcludedRight, ApprovedInLog, NotApprovedYet, queueVars
  <2> QED BY <1>1, <1>2, <2>1, <2>2, <2>3
<1>6. CASE EnqueueManagedSpawn(r) /\ worker'[r] = "queued"
  <2>1. /\ pending_items' = pending_items \cup {r}
        /\ managed_spawn_ids' = managed_spawn_ids \cup {IdOf[r]}
        /\ rx'[r] = "open"
        /\ \A q \in Requests : q # r => rx'[q] = rx[q]
        /\ UNCHANGED <<claimed_items, claims>>
    BY <1>6 DEF EnqueueManagedSpawn, EnqueueInner, QueueInv, QueueTypeOK
  <2>2. ClaimsHeld'
    BY <1>0, <1>4, <2>1 DEF ClaimsHeld, Holds
  <2>3. ExpiryCoherent'
    BY <1>0, <1>3, <1>6, ExpiryCoherentFrame DEF Unstarted
  <2>4. WorkerCoherent'
    BY <1>0, <1>3, <1>4, <1>6, <2>1 DEF WorkerCoherent
  <2>5. LogFollows'
    <3>1. \A f \in Finalizers : At(f, "reconcile") => fin[f].req # r
      BY <1>4 DEF LogFollows
    <3>2. \A q \in Requests : NotApprovedYet(q)' = NotApprovedYet(q)
      BY <1>0 DEF NotApprovedYet
    <3>3. \A f \in Finalizers : fin[f] # None => fin[f].req \in Requests
      BY FinTyped
    <3> QED BY <1>0, <1>3, <1>4, <2>1, <3>1, <3>2, <3>3, <1>6
            DEF LogFollows, At, ApprovedInLog, NotApprovedYet
  <2>6. ConcludedRight'
    BY <1>0, <1>3, <1>4, <1>6, <2>1, SpawnAssumption
       DEF ConcludedRight, ApprovedInLog, NotApprovedYet
  <2> QED BY <1>1, <1>2, <2>2, <2>3, <2>4, <2>5, <2>6
<1> QED BY <1>3, <1>5, <1>6 DEF TypeOK

\* The worker task up to the moment it knows its result.
LEMMA WorkerRunsInv ==
    ASSUME SpawnInv, NEW r \in Requests,
           \/ StartWorker(r) \/ AckFails(r) \/ SettleExpiry(r)
           \/ Launch(r) \/ LaunchFails(r) \/ NotApproved(r)
    PROVE  SpawnInv'
<1> USE DEF SpawnInv, dbVars, envVars, launchVars
<1>0. UNCHANGED <<queueVars, fin, decision_log, pending_decisions, phase, crashes, mode,
                  late, unreconciled>>
  BY DEF StartWorker, AckFails, SettleExpiry, Launch, LaunchFails, NotApproved
<1>1. QueueInv'
  BY <1>0, QueueUnchanged
<1>2. /\ worker' = [worker EXCEPT ![r] = worker'[r]]
      /\ worker'[r] \in {"waiting", "orphaned", "settled", "aborting", "settling"}
      /\ worker[r] \in {"queued", "waiting", "settling"}
      /\ \A q \in Requests : q # r => worker'[q] = worker[q]
  BY DEF TypeOK, StartWorker, AckFails, SettleExpiry, Launch, LaunchFails, NotApproved,
         Returns, WorkerTo
<1>3. CASE StartWorker(r) \/ AckFails(r) \/ SettleExpiry(r)
  <2> USE <1>3 DEF StartWorker, AckFails, SettleExpiry, WorkerTo
  <2>1. UNCHANGED <<result, launched>>
    OBVIOUS
  <2>2. TypeOK'
    <3>1. expiry' \in [Requests -> ExpiryStates]
      BY DEF TypeOK, ExpiryStates
    <3>2. worker' \in [Requests -> WorkerStates]
      BY DEF TypeOK, WorkerStates
    <3> QED BY <1>0, <1>1, <2>1, <3>1, <3>2 DEF TypeOK, QueueInv
  <2>3. ClaimsHeld' /\ LogFollows'
    BY <1>0, <1>2, <2>1, ClaimsHeldFrame, LogFollowsFrame
  <2>4. ExpiryCoherent'
    BY <1>0, <1>2 DEF ExpiryCoherent, TypeOK, Unstarted
  <2>5. WorkerCoherent'
    BY <1>0, <1>2, <2>1 DEF WorkerCoherent, TypeOK, queueVars
  <2>6. ConcludedRight'
    BY <1>0, <1>2, <2>1 DEF ConcludedRight, ApprovedInLog, NotApprovedYet, queueVars
  <2> QED BY <1>1, <2>2, <2>3, <2>4, <2>5, <2>6
<1>4. CASE Launch(r) \/ LaunchFails(r) \/ NotApproved(r)
  <2> USE <1>4 DEF Launch, LaunchFails, NotApproved, Returns, WorkerTo
  <2>1. /\ UNCHANGED expiry
        /\ worker[r] = "waiting" /\ worker'[r] = "settling"
        /\ result[r] = "none"
        /\ \A q \in Requests : q # r => result'[q] = result[q]
    BY DEF TypeOK, WorkerCoherent
  <2>2. \/ result'[r] = "running" /\ rx[r] = "approve" /\ launched' = launched \cup {r}
        \/ /\ launched' = launched
           /\ \/ result'[r] = "failed" /\ rx[r] = "approve"
              \/ result'[r] = "denied" /\ rx[r] = "deny"
              \/ result'[r] = "deferred" /\ rx[r] = "ask"
              \/ result'[r] = "closed" /\ rx[r] = "dropped"
    BY DEF TypeOK
  <2>3. TypeOK'
    <3>1. result' \in [Requests -> Results]
      BY <2>2 DEF TypeOK, Results
    <3>2. worker' \in [Requests -> WorkerStates]
      BY DEF TypeOK, WorkerStates
    <3>3. launched' \subseteq Requests
      BY <2>2 DEF TypeOK
    <3> QED BY <1>0, <1>1, <2>1, <3>1, <3>2, <3>3 DEF TypeOK, QueueInv
  <2>4. ClaimsHeld' /\ LogFollows' /\ ExpiryCoherent'
    BY <1>0, <1>2, <2>1, ClaimsHeldFrame, LogFollowsFrame, ExpiryCoherentFrame DEF Unstarted
  <2>5. WorkerCoherent'
    BY <1>0, <1>2, <2>1, <2>2 DEF WorkerCoherent, queueVars
  <2>6. ConcludedRight'
    BY <1>0, <1>2, <2>1 DEF ConcludedRight, ApprovedInLog, NotApprovedYet, queueVars
  <2> QED BY <1>1, <2>3, <2>4, <2>5, <2>6
<1> QED BY <1>3, <1>4

-----------------------------------------------------------------------------
(* finalize_spawn_decision *)

\* A call that begins, or ends without having claimed anything.
LEMMA CallMovesInv ==
    ASSUME SpawnInv, NEW f \in Finalizers,
           \A g \in Finalizers : g # f => fin'[g] = fin[g],
           fin' \in [Finalizers -> Finalizations \cup {None}],
           fin[f] = None \/ fin[f].stage \in {"validate", "reconcile"},
           fin'[f] # None => /\ fin'[f].stage = "validate"
                             /\ f \in Requests => /\ fin'[f].req = f
                                                  /\ expiry[f] = "started"
                                                  /\ worker[f] # "aborting",
           At(f, "reconcile") => fin[f].req \in unreconciled' \/ NotApprovedYet(fin[f].req),
           unreconciled \subseteq unreconciled',
           unreconciled' \subseteq Requests,
           UNCHANGED <<queueVars, envVars, worker, result, expiry, launched, dbVars>>
    PROVE  SpawnInv'
<1> USE DEF SpawnInv, dbVars, envVars
<1>1. QueueInv'
  BY QueueUnchanged
<1>2. TypeOK'
  BY <1>1 DEF TypeOK, QueueInv
<1>3. ClaimsHeld'
  BY DEF ClaimsHeld, Holds, queueVars
<1>4. ExpiryCoherent'
  BY DEF ExpiryCoherent, Finalizers
<1>5. WorkerCoherent'
  BY DEF WorkerCoherent, queueVars
<1>6. ConcludedRight'
  BY DEF ConcludedRight, ApprovedInLog, NotApprovedYet, queueVars
<1>7. LogFollows'
  <2>1. \A r \in Requests : /\ NotApprovedYet(r)' = NotApprovedYet(r)
                            /\ ApprovedInLog(r)' = ApprovedInLog(r)
    BY DEF NotApprovedYet, ApprovedInLog
  <2>2. \A g \in Finalizers : fin[g] # None => fin[g].req \in Requests
    BY FinTyped
  <2>3. \A r \in Requests :
          rx[r] = "none" \/ r \in pending_items \/ rx[r] = "ask" => NotApprovedYet(r)'
    BY <2>1 DEF LogFollows
  <2>4. \A g \in Finalizers :
          /\ At(g, "persist")' => NotApprovedYet(fin[g].req)'
          /\ At(g, "release")' => IF fin[g].decision = "approve" THEN ApprovedInLog(fin[g].req)'
                                  ELSE NotApprovedYet(fin[g].req)'
          /\ At(g, "reconcile")' => rx[fin[g].req] = "deny"
          /\ At(g, "persist")' \/ At(g, "release")' \/ At(g, "reconcile")' => fin'[g] = fin[g]
    BY <2>1, <2>2 DEF LogFollows, At
  <2>5. \A r \in Requests \ unreconciled' :
          rx[r] = "deny" /\ worker[r] # "lost" =>
             NotApprovedYet(r)' \/ \E g \in Finalizers : At(g, "reconcile")' /\ fin'[g].req = r
    BY <2>1, <2>2 DEF LogFollows, At
  <2>6. UNCHANGED <<rx, pending_items, decision_log, result, worker>>
    BY DEF queueVars
  <2> QED BY <2>1, <2>3, <2>4, <2>5, <2>6 DEF LogFollows, NotApprovedYet, ApprovedInLog, At
<1> QED BY <1>1, <1>2, <1>3, <1>4, <1>5, <1>6, <1>7

LEMMA ReviewInv ==
    ASSUME SpawnInv, NEW c \in Reviewers, NEW r \in Requests, NEW d \in Decisions,
           Review(c, r, d)
    PROVE  SpawnInv'
<1>1. c \in Finalizers /\ c \notin Requests
  BY SpawnAssumption DEF Finalizers
<1>2. TypeOK
  BY DEF SpawnInv
<1>3. Peeked(c, r, d) /\ UNCHANGED <<queueVars, envVars, worker, result, expiry, launchVars, dbVars>>
  BY DEF Review
<1>4. /\ fin' \in [Finalizers -> Finalizations \cup {None}]
      /\ fin[c] = None
      /\ fin'[c].stage = "validate"
      /\ \A g \in Finalizers : g # c => fin'[g] = fin[g]
  BY <1>1, <1>2, <1>3, PeekedMoves
<1>5. unreconciled \subseteq Requests /\ UNCHANGED <<launched, unreconciled>>
  BY <1>2, <1>3 DEF TypeOK, launchVars
<1> QED BY <1>1, <1>3, <1>4, <1>5, CallMovesInv DEF At

LEMMA ReviewInvalidInv ==
    ASSUME SpawnInv, NEW f \in Finalizers, ReviewInvalid(f)
    PROVE  SpawnInv'
<1>1. TypeOK
  BY DEF SpawnInv
<1>2. /\ fin[f].stage = "validate"
      /\ Finish(f)
      /\ UNCHANGED <<queueVars, envVars, worker, result, expiry, launchVars, dbVars>>
  BY DEF ReviewInvalid, At
<1>3. unreconciled \subseteq Requests /\ UNCHANGED <<launched, unreconciled>>
  BY <1>1, <1>2 DEF TypeOK, launchVars
<1> QED BY <1>1, <1>2, <1>3, FinishMoves, CallMovesInv DEF At

\* The expiry task of r.
LEMMA ExpiryInv ==
    ASSUME SpawnInv, NEW r \in Requests,
           DeadlinePasses(r) \/ ExpiryStarts(r) \/ ExpiryFinalizes(r)
    PROVE  SpawnInv'
<1> USE DEF SpawnInv
<1>0. r \in Finalizers
  BY DEF Finalizers
<1>1. CASE ExpiryFinalizes(r) /\ Peeked(r, r, "deny") /\ UNCHANGED expiry
  <2>1. /\ fin' \in [Finalizers -> Finalizations \cup {None}]
        /\ fin[r] = None
        /\ fin'[r].stage = "validate" /\ fin'[r].req = r
        /\ \A g \in Finalizers : g # r => fin'[g] = fin[g]
    BY <1>0, <1>1, PeekedMoves DEF Decisions
  <2>2. expiry[r] = "started"
        /\ UNCHANGED <<queueVars, envVars, worker, result, expiry, launchVars, dbVars>>
    BY <1>1 DEF ExpiryFinalizes
  <2>3. worker[r] # "aborting"
    <3>1. rx[r] = "open"
      BY <1>1 DEF Peeked, Peek, QueueInv, OneOwnerPerSender
    <3> QED BY <3>1 DEF WorkerCoherent, TypeOK, Results
  <2>4. unreconciled \subseteq Requests /\ UNCHANGED <<launched, unreconciled>>
    BY <2>2 DEF TypeOK, launchVars
  <2> QED BY <1>0, <2>1, <2>2, <2>3, <2>4, CallMovesInv DEF At
<1>2. CASE \/ DeadlinePasses(r) \/ ExpiryStarts(r)
           \/ ExpiryFinalizes(r) /\ UNCHANGED fin /\ fin[r] = None
  <2> USE <1>2 DEF DeadlinePasses, ExpiryStarts, ExpiryFinalizes
  <2>1. UNCHANGED <<queueVars, phase, crashes, mode, worker, result, fin, launchVars, dbVars>>
    BY DEF envVars
  <2>2. QueueInv'
    BY <2>1, QueueUnchanged
  <2>3. TypeOK'
    <3>1. late' \subseteq Requests
      BY DEF TypeOK, envVars
    <3>2. expiry' \in [Requests -> ExpiryStates]
      BY DEF TypeOK, ExpiryStates, Peeked
    <3> QED BY <2>1, <2>2, <3>1, <3>2 DEF TypeOK, QueueInv, launchVars, dbVars
  <2>4. ClaimsHeld' /\ LogFollows'
    BY <2>1, ClaimsHeldFrame, LogFollowsFrame DEF launchVars, dbVars
  <2>5. ExpiryCoherent'
    <3>1. \A q \in Requests : expiry'[q] = expiry[q] \/ (q = r /\ expiry[r] \in {"sleeping", "started"})
      BY DEF TypeOK, Peeked
    <3>2. fin[r] # None => expiry'[r] = expiry[r]
      BY DEF ExpiryCoherent, TypeOK, Peeked
    <3> QED BY <2>1, <3>1, <3>2 DEF ExpiryCoherent
  <2>6. WorkerCoherent'
    BY <2>1 DEF WorkerCoherent, queueVars, launchVars
  <2>7. ConcludedRight'
    BY <2>1 DEF ConcludedRight, ApprovedInLog, NotApprovedYet, queueVars, dbVars
  <2> QED BY <2>2, <2>3, <2>4, <2>5, <2>6, <2>7
<1> QED BY <1>1, <1>2 DEF ExpiryFinalizes

LEMMA ClaimSpawnInv ==
    ASSUME SpawnInv, NEW f \in Finalizers, ClaimSpawn(f)
    PROVE  SpawnInv'
<1> DEFINE r == fin[f].req
<1>0. TypeOK /\ fin[f] # None /\ fin[f].stage = "validate" /\ r \in Requests
  BY FinTyped DEF ClaimSpawn, At, SpawnInv
<1>1. CASE Finish(f) /\ UNCHANGED queueVars
  <2>1. UNCHANGED <<queueVars, envVars, worker, result, expiry, launchVars, dbVars>>
    BY <1>1 DEF ClaimSpawn
  <2>2. unreconciled \subseteq Requests /\ UNCHANGED <<launched, unreconciled>>
    BY <1>0, <2>1 DEF TypeOK, launchVars
  <2> QED BY <1>0, <1>1, <2>1, <2>2, FinishMoves, CallMovesInv DEF At
<1>2. CASE r \in Peek(IdOf[r]) /\ Claim(IdOf[r]) /\ Stage(f, "persist")
  <2> USE DEF SpawnInv
  <2>1. UNCHANGED <<envVars, worker, result, expiry, launchVars, dbVars>>
    BY DEF ClaimSpawn
  <2>2. /\ fin' \in [Finalizers -> Finalizations \cup {None}]
        /\ fin'[f] # None
        /\ fin'[f].stage = "persist"
        /\ fin'[f].req = r
        /\ \A g \in Finalizers : g # f => fin'[g] = fin[g]
    BY <1>0, <1>2, StageMoves
  <2>3. /\ pending_items' = pending_items \ {r}
        /\ claims' = claims \cup {r}
        /\ claimed_items' = [claimed_items EXCEPT ![IdOf[r]] = r]
        /\ UNCHANGED <<managed_spawn_ids, rx, view>>
    BY <1>0, <1>2, ClaimMoves
  <2>4. r \in pending_items /\ r \notin claims /\ rx[r] = "open"
    BY <1>0, <1>2 DEF Peek, QueueInv, OneOwnerPerSender
  <2>5. NotApprovedYet(r)
    BY <1>0, <2>4 DEF LogFollows
  <2> HIDE DEF r
  <2>6. QueueInv'
    BY <1>0, <1>2, ClaimPreservesInv, QueueAssumption
  <2>7. TypeOK'
    BY <2>1, <2>2, <2>6 DEF TypeOK, QueueInv, envVars, launchVars, dbVars
  <2>8. ClaimsHeld'
    <3>1. \A g \in Finalizers : ~Holds(g, r)
      BY <1>0, <2>4 DEF ClaimsHeld
    <3>2. \A g \in Finalizers, q \in Requests :
              Holds(g, q)' <=> Holds(g, q) \/ (g = f /\ q = r)
      BY <1>0, <2>2 DEF Holds, r
    <3>3. \A q \in claims' : claimed_items'[IdOf[q]] = q
      BY <1>0, <2>3, QueueAssumption, SpawnAssumption DEF ClaimsHeld, QueueInv, QueueTypeOK
    <3>4. \A q \in Requests : claimed_items'[IdOf[q]] = q => rx'[q] \in {"open", "dropped"}
      BY <1>0, <2>3, <2>4, QueueAssumption, SpawnAssumption DEF ClaimsHeld, QueueInv, QueueTypeOK
    <3> QED BY <1>0, <2>3, <3>1, <3>2, <3>3, <3>4 DEF ClaimsHeld
  <2>9. ExpiryCoherent'
    BY <1>0, <2>1, <2>2 DEF ExpiryCoherent, Finalizers, r
  <2>10. WorkerCoherent'
    BY <2>1, <2>3 DEF WorkerCoherent, launchVars
  <2>11. ConcludedRight'
    BY <2>1, <2>3 DEF ConcludedRight, ApprovedInLog, NotApprovedYet, dbVars
  <2>12. LogFollows'
    <3>1. UNCHANGED <<decision_log, result, worker, unreconciled, rx>>
      BY <2>1, <2>3 DEF dbVars, launchVars
    <3>2. \A g \in Finalizers : ~At(g, "validate") => g # f /\ fin'[g] = fin[g]
      BY <1>0, <2>2 DEF At
    <3> QED BY <1>0, <2>2, <2>3, <2>5, <3>1, <3>2
            DEF LogFollows, At, NotApprovedYet, ApprovedInLog
  <2> QED BY <2>6, <2>7, <2>8, <2>9, <2>10, <2>11, <2>12
<1> QED BY <1>1, <1>2 DEF ClaimSpawn

\* A finalizer in one of these stages is alone with its request.
LEMMA HolderIsAlone ==
    ASSUME SpawnInv, NEW f \in Finalizers,
           At(f, "persist") \/ At(f, "release") \/ At(f, "refuse")
    PROVE  /\ fin[f].req \in Requests
           /\ Holds(f, fin[f].req)
           /\ \A g \in Finalizers :
                 g # f /\ fin[g] # None /\ fin[g].req = fin[f].req => At(g, "validate")
<1>1. TypeOK /\ fin[f] # None /\ fin[f].req \in Requests /\ Holds(f, fin[f].req)
  BY FinTyped DEF SpawnInv, At, Holds
<1>2. rx[fin[f].req] = "open"
  BY <1>1, HeldMeansOpen
<1>3. ASSUME NEW g \in Finalizers, g # f, fin[g] # None, fin[g].req = fin[f].req
      PROVE  At(g, "validate")
  <2>1. fin[g].stage \in {"validate", "persist", "release", "refuse", "reconcile"}
    BY <1>1, <1>3, FinTyped
  <2>2. ~Holds(g, fin[f].req)
    BY <1>1, <1>3 DEF SpawnInv, ClaimsHeld
  <2>3. ~At(g, "reconcile")
    BY <1>2, <1>3 DEF SpawnInv, LogFollows
  <2> QED BY <1>3, <2>1, <2>2, <2>3 DEF At, Holds
<1> QED BY <1>1, <1>3

\* What the transaction of a finalizer does to the log.
LEMMA PersistedMoves ==
    ASSUME SpawnInv, NEW f \in Finalizers, At(f, "persist"), Persisted(f),
           NEW r, r = fin[f].req
    PROVE  /\ decision_log' \in [Ids -> LogRows \cup {None}]
           /\ pending_decisions' \subseteq Ids
           /\ \A q \in Requests : q # r => decision_log'[IdOf[q]] = decision_log[IdOf[q]]
           /\ PersistReturns(f) => IF fin[f].decision = "approve" THEN ApprovedInLog(r)'
                                   ELSE NotApprovedYet(r)'
<1>0. /\ TypeOK /\ r \in Requests /\ fin[f].decision \in Decisions
      /\ ResolverOf(f) \in Resolvers
      /\ NotApprovedYet(r)
  BY FinTyped DEF SpawnInv, At, ResolverOf, Resolvers, LogFollows
<1>1. CASE fin[f].decision = "approve"
  <2> DEFINE x == Row("approve", ResolverOf(f))
  <2>1. x \in LogRows /\ x # None /\ x.decision = "approve" /\ x.failed = FALSE
    BY <1>0, RowTyped DEF Decisions
  <2>2. /\ decision_log' = IF ApprovalRecorded(r)
                           THEN [decision_log EXCEPT ![IdOf[r]] = x] ELSE decision_log
        /\ pending_decisions' = pending_decisions \ {IdOf[r]}
        /\ PersistReturns(f) = ApprovalRecorded(r)
    BY <1>1 DEF Persisted, PersistReturns, ResolveSpawnPendingBy
  <2> HIDE DEF x
  <2> QED BY <1>0, <1>1, <2>1, <2>2, QueueAssumption, SpawnAssumption
          DEF TypeOK, ApprovedInLog
<1>2. CASE fin[f].decision = "deny"
  <2>1. ForceFailclosed(r, ResolverOf(f))
    BY <1>2 DEF Persisted
  <2> QED BY <1>0, <1>2, <2>1, ForceMoves DEF NotApprovedYet
<1>3. CASE fin[f].decision = "ask"
  <2>1. DeleteManagedSpawnPending(r)
    BY <1>3 DEF Persisted
  <2> QED BY <1>0, <1>3, <2>1 DEF DeleteManagedSpawnPending, TypeOK, NotApprovedYet
<1> QED BY <1>0, <1>1, <1>2, <1>3 DEF Decisions

LEMMA PersistDecisionInv ==
    ASSUME SpawnInv, NEW f \in Finalizers, PersistDecision(f)
    PROVE  SpawnInv'
<1> USE DEF SpawnInv
<1>0. /\ At(f, "persist") /\ fin[f] # None /\ TypeOK
      /\ UNCHANGED <<queueVars, envVars, worker, result, expiry, launchVars>>
  BY DEF PersistDecision, At
<1>1. PICK r \in Requests : r = fin[f].req
  BY <1>0, FinTyped
<1>2. /\ Holds(f, r)
      /\ \A g \in Finalizers : g # f /\ fin[g] # None /\ fin[g].req = r => At(g, "validate")
  BY <1>0, <1>1, HolderIsAlone
<1>3. PICK s \in {"release", "refuse"} :
        /\ Stage(f, s)
        /\ Persisted(f) \/ UNCHANGED dbVars
        /\ s = "release" => Persisted(f) /\ PersistReturns(f)
  BY DEF PersistDecision
<1>4. /\ decision_log' \in [Ids -> LogRows \cup {None}]
      /\ pending_decisions' \subseteq Ids
      /\ \A q \in Requests : q # r => decision_log'[IdOf[q]] = decision_log[IdOf[q]]
      /\ s = "release" => IF fin[f].decision = "approve" THEN ApprovedInLog(r)'
                          ELSE NotApprovedYet(r)'
  BY <1>0, <1>1, <1>3, PersistedMoves DEF TypeOK, dbVars
<1>5. /\ fin' \in [Finalizers -> Finalizations \cup {None}]
      /\ fin'[f] # None
      /\ fin'[f].stage = s
      /\ fin'[f].req = r
      /\ fin'[f].decision = fin[f].decision
      /\ \A g \in Finalizers : g # f => fin'[g] = fin[g]
  BY <1>0, <1>1, <1>3, StageMoves
<1>6. /\ rx[r] = "open" /\ r \notin pending_items /\ result[r] = "none"
      /\ r \notin launched
  BY <1>2, HeldMeansOpen DEF WorkerCoherent
<1>7. QueueInv'
  BY <1>0, QueueUnchanged
<1>8. TypeOK'
  BY <1>0, <1>4, <1>5, <1>7 DEF TypeOK, QueueInv, envVars, launchVars
<1>9. ClaimsHeld'
  <2>1. \A g \in Finalizers, q \in Requests : Holds(g, q)' <=> Holds(g, q)
    BY <1>0, <1>1, <1>5 DEF Holds, At
  <2> QED BY <1>0, <2>1 DEF ClaimsHeld, queueVars
<1>10. ExpiryCoherent'
  BY <1>0, <1>1, <1>5 DEF ExpiryCoherent, Finalizers
<1>11. WorkerCoherent'
  BY <1>0 DEF WorkerCoherent, queueVars, launchVars
<1>12. \A q \in Requests : q # r => /\ NotApprovedYet(q)' = NotApprovedYet(q)
                                   /\ ApprovedInLog(q)' = ApprovedInLog(q)
  BY <1>4 DEF NotApprovedYet, ApprovedInLog
<1>13. ConcludedRight'
  BY <1>0, <1>6, <1>12 DEF ConcludedRight, queueVars, WorkerCoherent
<1>14. LogFollows'
  <2>0. UNCHANGED <<rx, pending_items, result, worker, unreconciled>>
    BY <1>0 DEF queueVars, launchVars
  <2>1. \A q \in Requests :
          (rx[q] = "none" \/ q \in pending_items \/ rx[q] = "ask") => NotApprovedYet(q)'
    BY <1>6, <1>12 DEF LogFollows
  <2>2. ASSUME NEW g \in Finalizers
        PROVE  (/\ At(g, "persist") => NotApprovedYet(fin[g].req)
                /\ At(g, "release") => IF fin[g].decision = "approve"
                                       THEN ApprovedInLog(fin[g].req)
                                       ELSE NotApprovedYet(fin[g].req)
                /\ At(g, "reconcile") => rx[fin[g].req] = "deny")'
    <3>1. CASE g = f
      BY <1>3, <1>4, <1>5, <3>1 DEF At, ApprovedInLog, NotApprovedYet
    <3>2. CASE g # f /\ fin[g] # None
      <4>1. fin[g].req \in Requests /\ fin'[g] = fin[g]
        BY <1>0, <1>5, <3>2, FinTyped
      <4>2. CASE fin[g].req = r
        BY <1>2, <3>2, <4>1, <4>2 DEF At
      <4>3. CASE fin[g].req # r
        <5>1. decision_log'[IdOf[fin[g].req]] = decision_log[IdOf[fin[g].req]]
          BY <1>4, <4>1, <4>3
        <5> QED BY <2>0, <4>1, <5>1 DEF LogFollows, At, ApprovedInLog, NotApprovedYet
      <4> QED BY <4>2, <4>3
    <3>3. CASE g # f /\ fin[g] = None
      BY <1>5, <3>3 DEF At
    <3> QED BY <3>1, <3>2, <3>3
  <2>3. \A q \in Requests :
          rx[q] = "approve" => /\ decision_log'[IdOf[q]] # None
                               /\ decision_log'[IdOf[q]].decision = "approve"
                               /\ decision_log'[IdOf[q]].failed => result[q] = "failed"
    BY <1>4, <1>6 DEF LogFollows
  <2>4. \A q \in Requests \ unreconciled :
          rx[q] = "deny" /\ worker[q] # "lost" =>
             NotApprovedYet(q)' \/ \E g \in Finalizers : At(g, "reconcile")' /\ fin'[g].req = q
    BY <1>0, <1>5, <1>6, <1>12 DEF LogFollows, At
  <2> QED BY <2>0, <2>1, <2>2, <2>3, <2>4 DEF LogFollows, At, NotApprovedYet, ApprovedInLog
<1> QED BY <1>7, <1>8, <1>9, <1>10, <1>11, <1>13, <1>14

\* The waiter is released, with what was recorded or with a Deny.
LEMMA ReleaseInv ==
    ASSUME SpawnInv, NEW f \in Finalizers, Release(f) \/ Refuse(f)
    PROVE  SpawnInv'
<1> USE DEF SpawnInv
<1>0. /\ At(f, "release") \/ At(f, "refuse")
      /\ fin[f] # None /\ TypeOK /\ fin[f].decision \in Decisions
      /\ UNCHANGED <<envVars, worker, result, expiry, launchVars, dbVars>>
  BY FinTyped DEF Release, Refuse, At
<1>1. PICK r \in Requests : r = fin[f].req
  BY <1>0, FinTyped
<1>2. PICK d \in Decisions :
        /\ CompleteClaim(r, d)
        /\ \/ At(f, "release") /\ d = fin[f].decision /\ Finish(f)
           \/ At(f, "refuse") /\ d = "deny" /\ Stage(f, "reconcile")
  BY <1>0, <1>1 DEF Release, Refuse, Decisions
<1>3. /\ Holds(f, r)
      /\ \A g \in Finalizers : g # f /\ fin[g] # None /\ fin[g].req = r => At(g, "validate")
  BY <1>0, <1>1, HolderIsAlone
<1>4. /\ rx[r] = "open"
      /\ rx' = [rx EXCEPT ![r] = d]
      /\ claims' = claims \ {r}
      /\ claimed_items' = [claimed_items EXCEPT ![IdOf[r]] = None]
      /\ managed_spawn_ids' = managed_spawn_ids \ {IdOf[r]}
      /\ UNCHANGED pending_items
  BY <1>2, CompleteMoves
<1>4a. rx'[r] = d /\ \A q \in Requests : q # r => rx'[q] = rx[q]
  BY <1>4 DEF TypeOK, QueueTypeOK
<1>5. /\ fin' \in [Finalizers -> Finalizations \cup {None}]
      /\ \A g \in Finalizers : g # f => fin'[g] = fin[g]
      /\ IF At(f, "release") THEN fin'[f] = None
         ELSE fin'[f] # None /\ fin'[f].stage = "reconcile" /\ fin'[f].req = r
  BY <1>0, <1>1, <1>2, StageMoves, FinishMoves DEF At
<1>6. /\ result[r] = "none" /\ r \notin launched /\ r \notin pending_items
      /\ worker[r] \notin {"none", "admitted", "persisted", "overflow", "refused",
                           "settling", "aborting", "settled", "forgetting", "done"}
  BY <1>3, HeldMeansOpen DEF WorkerCoherent
<1>7. QueueInv'
  BY <1>2, CompleteClaimPreservesInv
<1>8. TypeOK'
  BY <1>0, <1>5, <1>7 DEF TypeOK, QueueInv, envVars, launchVars, dbVars
<1>9. ClaimsHeld'
  <2>1. \A g \in Finalizers, q \in Requests : Holds(g, q)' <=> g # f /\ Holds(g, q)
    BY <1>0, <1>1, <1>5 DEF Holds
  <2>2. \A q \in Requests : ~Holds(f, q) \/ q = r
    BY <1>1 DEF Holds
  <2>3. \A g \in Finalizers, q \in Requests : Holds(g, q)' => q # r
    BY <1>3, <2>1 DEF ClaimsHeld
  <2>4. \A q \in Requests : q # r => claimed_items'[IdOf[q]] = claimed_items[IdOf[q]]
    BY <1>4, SpawnAssumption, QueueAssumption DEF TypeOK, QueueTypeOK
  <2>5. claimed_items'[IdOf[r]] # r
    BY <1>4, QueueAssumption DEF TypeOK, QueueTypeOK
  <2> QED BY <1>4, <1>4a, <2>1, <2>3, <2>4, <2>5 DEF ClaimsHeld, TypeOK, QueueTypeOK
<1>10. ExpiryCoherent'
  BY <1>0, <1>1, <1>5 DEF ExpiryCoherent, Finalizers
<1>11. WorkerCoherent'
  BY <1>0, <1>4a, <1>6 DEF WorkerCoherent, launchVars
<1>12. ConcludedRight'
  BY <1>0, <1>4, <1>6 DEF ConcludedRight, dbVars, NotApprovedYet, ApprovedInLog
<1>13. LogFollows'
  <2>0. UNCHANGED <<pending_items, result, worker, unreconciled, decision_log>>
    BY <1>0, <1>4 DEF launchVars, dbVars
  <2>1. \A q \in Requests : /\ NotApprovedYet(q)' = NotApprovedYet(q)
                            /\ ApprovedInLog(q)' = ApprovedInLog(q)
    BY <2>0 DEF NotApprovedYet, ApprovedInLog
  <2>2. At(f, "release") => IF d = "approve" THEN ApprovedInLog(r) ELSE NotApprovedYet(r)
    BY <1>1, <1>2 DEF LogFollows, At
  <2>3. At(f, "refuse") => d = "deny" /\ fin'[f] # None /\ fin'[f].stage = "reconcile"
    BY <1>2, <1>5 DEF At
  <2>4. \A q \in Requests :
          rx'[q] = "none" \/ q \in pending_items \/ rx'[q] = "ask" => NotApprovedYet(q)
    BY <1>2, <1>4a, <1>6, <2>2 DEF LogFollows, Decisions
  <2>5. ASSUME NEW g \in Finalizers
        PROVE  (/\ At(g, "persist") => NotApprovedYet(fin[g].req)
                /\ At(g, "release") => IF fin[g].decision = "approve"
                                       THEN ApprovedInLog(fin[g].req)
                                       ELSE NotApprovedYet(fin[g].req)
                /\ At(g, "reconcile") => rx[fin[g].req] = "deny")'
    <3>1. CASE g = f
      BY <1>2, <1>4a, <1>5, <3>1 DEF At
    <3>2. CASE g # f /\ fin[g] # None
      <4>1. fin[g].req \in Requests /\ fin'[g] = fin[g]
        BY <1>0, <1>5, <3>2, FinTyped
      <4>2. CASE fin[g].req = r
        BY <1>3, <3>2, <4>1, <4>2 DEF At
      <4>3. CASE fin[g].req # r
        <5>1. rx'[fin[g].req] = rx[fin[g].req]
          BY <1>4a, <4>1, <4>3
        <5> QED BY <2>0, <4>1, <5>1 DEF LogFollows, At, ApprovedInLog, NotApprovedYet
      <4> QED BY <4>2, <4>3
    <3>3. CASE g # f /\ fin[g] = None
      BY <1>5, <3>3 DEF At
    <3> QED BY <3>1, <3>2, <3>3
  <2>6. \A q \in Requests :
          rx'[q] = "approve" => /\ decision_log[IdOf[q]] # None
                                /\ decision_log[IdOf[q]].decision = "approve"
                                /\ decision_log[IdOf[q]].failed => result[q] = "failed"
    BY <1>0, <1>2, <1>4a, <2>2 DEF LogFollows, ApprovedInLog
  <2>7. \A q \in Requests \ unreconciled :
          rx'[q] = "deny" /\ worker[q] # "lost" =>
             NotApprovedYet(q) \/ \E g \in Finalizers : At(g, "reconcile")' /\ fin'[g].req = q
    <3>1. CASE At(f, "release")
      BY <1>0, <1>4a, <1>5, <2>2, <3>1 DEF LogFollows, At
    <3>2. CASE At(f, "refuse")
      BY <1>0, <1>4a, <1>5, <2>3, <3>2 DEF LogFollows, At
    <3> QED BY <1>0, <3>1, <3>2
  <2> QED BY <2>0, <2>1, <2>4, <2>5, <2>6, <2>7 DEF LogFollows, At, NotApprovedYet, ApprovedInLog
<1> QED BY <1>7, <1>8, <1>9, <1>10, <1>11, <1>12, <1>13

\* The log of a request whose waiter was told otherwise is forced to a denial.
LEMMA ForcedLogFollows ==
    ASSUME SpawnInv, NEW r \in Requests, rx[r] \notin {"approve", "open"},
           decision_log'[IdOf[r]].decision = "deny",
           \A q \in Requests : q # r => decision_log'[IdOf[q]] = decision_log[IdOf[q]],
           \A g \in Finalizers : \/ fin'[g] = fin[g]
                                 \/ fin'[g] = None /\ fin[g] # None /\ fin[g].req = r,
           UNCHANGED <<queueVars, result, unreconciled>>,
           \A q \in Requests : worker'[q] = "lost" <=> worker[q] = "lost"
    PROVE  LogFollows' /\ NotApprovedYet(r)' /\ ~ApprovedInLog(r)'
<1> USE DEF SpawnInv
<1>0. UNCHANGED <<rx, pending_items, result, unreconciled>>
  BY DEF queueVars
<1>1. NotApprovedYet(r)' /\ ~ApprovedInLog(r)'
  BY DEF NotApprovedYet, ApprovedInLog
<1>2. \A q \in Requests : q # r => /\ NotApprovedYet(q)' = NotApprovedYet(q)
                                  /\ ApprovedInLog(q)' = ApprovedInLog(q)
  BY DEF NotApprovedYet, ApprovedInLog
<1>3. ASSUME NEW g \in Finalizers
      PROVE  (/\ At(g, "persist") => NotApprovedYet(fin[g].req)
              /\ At(g, "release") => IF fin[g].decision = "approve"
                                     THEN ApprovedInLog(fin[g].req)
                                     ELSE NotApprovedYet(fin[g].req)
              /\ At(g, "reconcile") => rx[fin[g].req] = "deny")'
  <2>1. CASE fin'[g] = None
    BY <2>1 DEF At
  <2>2. CASE fin'[g] # None /\ fin'[g] = fin[g]
    <3>1. fin[g].req \in Requests
      BY <2>2, FinTyped
    <3>2. CASE fin[g].req = r
      <4>1. ~Holds(g, r)
        BY HeldMeansOpen
      <4> QED BY <1>0, <2>2, <3>2, <4>1 DEF Holds, At, LogFollows
    <3>3. CASE fin[g].req # r
      <4>1. decision_log'[IdOf[fin[g].req]] = decision_log[IdOf[fin[g].req]]
        BY <3>1, <3>3
      <4> QED BY <1>0, <2>2, <4>1 DEF LogFollows, At, ApprovedInLog, NotApprovedYet
    <3> QED BY <3>2, <3>3
  <2> QED BY <2>1, <2>2
<1>4. \A q \in Requests :
        rx[q] = "none" \/ q \in pending_items \/ rx[q] = "ask" => NotApprovedYet(q)'
  BY <1>1, <1>2 DEF LogFollows
<1>5. \A q \in Requests :
        rx[q] = "approve" => /\ decision_log'[IdOf[q]] # None
                             /\ decision_log'[IdOf[q]].decision = "approve"
                             /\ decision_log'[IdOf[q]].failed => result[q] = "failed"
  BY DEF LogFollows
<1>6. \A q \in Requests \ unreconciled :
        rx[q] = "deny" /\ worker[q] # "lost" =>
           NotApprovedYet(q)' \/ \E g \in Finalizers : At(g, "reconcile")' /\ fin'[g].req = q
  BY <1>1, <1>2 DEF LogFollows, At
<1> QED BY <1>0, <1>1, <1>3, <1>4, <1>5, <1>6 DEF LogFollows, At, NotApprovedYet, ApprovedInLog

LEMMA ReconcileInv ==
    ASSUME SpawnInv, NEW f \in Finalizers, Reconcile(f)
    PROVE  SpawnInv'
<1>0. /\ At(f, "reconcile") /\ fin[f] # None /\ fin[f].stage = "reconcile" /\ TypeOK
      /\ Finish(f)
      /\ UNCHANGED <<queueVars, envVars, worker, result, expiry, launched>>
  BY DEF Reconcile, At, SpawnInv
<1>1. PICK r \in Requests : r = fin[f].req
  BY <1>0, FinTyped
<1>2. /\ fin' \in [Finalizers -> Finalizations \cup {None}]
      /\ fin'[f] = None
      /\ \A g \in Finalizers : g # f => fin'[g] = fin[g]
  BY <1>0, FinishMoves
<1>3. rx[r] = "deny"
  BY <1>0, <1>1 DEF SpawnInv, LogFollows
<1>4. CASE unreconciled' = unreconciled \cup {r} /\ UNCHANGED dbVars
  <2>1. unreconciled' \subseteq Requests /\ unreconciled \subseteq unreconciled'
    BY <1>0, <1>4 DEF TypeOK
  <2> QED BY <1>0, <1>1, <1>2, <1>4, <2>1, CallMovesInv
<1>5. CASE ForceFailclosed(r, "spawn_persistence_failure:deny") /\ UNCHANGED unreconciled
  <2> USE DEF SpawnInv
  <2>1. /\ decision_log' \in [Ids -> LogRows \cup {None}]
        /\ pending_decisions' \subseteq Ids
        /\ decision_log'[IdOf[r]].decision = "deny"
        /\ \A q \in Requests : q # r => decision_log'[IdOf[q]] = decision_log[IdOf[q]]
    BY <1>0, <1>5, ForceMoves DEF Resolvers
  <2>2. QueueInv'
    BY <1>0, QueueUnchanged
  <2>3. TypeOK'
    BY <1>0, <1>2, <1>5, <2>1, <2>2 DEF TypeOK, QueueInv, envVars
  <2>4. ClaimsHeld'
    <3>1. \A g \in Finalizers, q \in Requests : Holds(g, q)' <=> Holds(g, q)
      BY <1>0, <1>2 DEF Holds
    <3> QED BY <1>0, <3>1 DEF ClaimsHeld, queueVars
  <2>5. ExpiryCoherent'
    BY <1>0, <1>2 DEF ExpiryCoherent, Finalizers
  <2>6. WorkerCoherent'
    BY <1>0 DEF WorkerCoherent, queueVars
  <2>7. LogFollows' /\ NotApprovedYet(r)' /\ ~ApprovedInLog(r)'
    BY <1>0, <1>1, <1>2, <1>3, <1>5, <2>1, ForcedLogFollows
  <2>8. ConcludedRight'
    BY <1>0, <2>1, <2>7 DEF ConcludedRight, NotApprovedYet, ApprovedInLog, queueVars
  <2> QED BY <2>2, <2>3, <2>4, <2>5, <2>6, <2>7, <2>8
<1> QED BY <1>1, <1>4, <1>5 DEF Reconcile

\* A sender that is dropped with its claim leaves the queue consistent.
LEMMA DropPreservesQueue ==
    ASSUME QueueInv, NEW f, DropClaim(f)
    PROVE  QueueInv'
<1> DEFINE gone == {r \in claims : Holds(f, r)}
<1>1. /\ claims' = claims \ gone
      /\ rx' = [r \in Requests |-> IF r \in gone THEN "dropped" ELSE rx[r]]
      /\ UNCHANGED <<pending_senders, pending_items, claimed_items, managed_spawn_ids, view>>
  BY DEF DropClaim
<1>2. gone \subseteq claims
  OBVIOUS
<1> HIDE DEF gone
<1> USE DEF QueueInv
<1>3. QueueTypeOK'
  BY <1>1, <1>2 DEF QueueTypeOK
<1>4. OneOwnerPerSender'
  BY <1>1, <1>2 DEF OneOwnerPerSender, QueueTypeOK
<1>5. SendersMatchItems' /\ IdsAccountedOnce' /\ ClaimsFiledById'
  BY <1>1 DEF SendersMatchItems, IdsAccountedOnce, ClaimsFiledById
<1>6. ViewMatchesSnapshot'
  BY <1>1 DEF ViewMatchesSnapshot, Snapshot
<1> QED BY <1>3, <1>4, <1>5, <1>6

LEMMA FinalizerDiesInv ==
    ASSUME SpawnInv, NEW f \in Finalizers, FinalizerDies(f)
    PROVE  SpawnInv'
<1> USE DEF SpawnInv
<1> DEFINE gone == {r \in claims : Holds(f, r)}
<1>0. /\ fin[f] # None /\ fin[f].stage # "reconcile" /\ DropClaim(f)
      /\ UNCHANGED <<envVars, worker, result, launchVars, dbVars>>
      /\ expiry' = IF f \in Requests THEN [expiry EXCEPT ![f] = "done"] ELSE expiry
  BY DEF FinalizerDies
<1>1. /\ fin' \in [Finalizers -> Finalizations \cup {None}]
      /\ fin'[f] = None
      /\ \A g \in Finalizers : g # f => fin'[g] = fin[g]
  BY <1>0, FinishMoves DEF DropClaim
<1>2. /\ claims' = claims \ gone
      /\ \A r \in Requests : rx'[r] = IF r \in gone THEN "dropped" ELSE rx[r]
      /\ UNCHANGED <<pending_senders, pending_items, claimed_items, managed_spawn_ids, view>>
  BY <1>0 DEF DropClaim
<1>3. \A r \in Requests : Holds(f, r) <=> r \in gone
  BY DEF ClaimsHeld
<1>4. \A r \in gone :
        /\ r \in Requests /\ rx[r] = "open" /\ result[r] = "none"
        /\ worker[r] \notin {"none", "admitted", "persisted", "overflow", "refused"}
  BY <1>3, HeldMeansOpen DEF TypeOK, QueueTypeOK
<1> HIDE DEF gone
<1>5. QueueInv'
  BY <1>0, DropPreservesQueue
<1>6. TypeOK'
  <2>1. expiry' \in [Requests -> ExpiryStates]
    BY <1>0 DEF TypeOK, ExpiryStates
  <2> QED BY <1>0, <1>1, <1>5, <2>1 DEF TypeOK, QueueInv, envVars, launchVars, dbVars
<1>7. ClaimsHeld'
  <2>1. \A g \in Finalizers, r \in Requests : Holds(g, r)' <=> g # f /\ Holds(g, r)
    BY <1>1 DEF Holds
  <2>2. \A g \in Finalizers, r \in Requests : Holds(g, r)' => r \notin gone
    BY <1>3, <2>1 DEF ClaimsHeld
  <2> QED BY <1>2, <2>1, <2>2 DEF ClaimsHeld, TypeOK, QueueTypeOK
<1>8. ExpiryCoherent'
  <2>1. f \in Requests => worker[f] \notin Unstarted
    BY <1>0 DEF ExpiryCoherent
  <2> QED BY <1>0, <1>1, <2>1 DEF ExpiryCoherent, TypeOK, Finalizers
<1>9. WorkerCoherent'
  BY <1>0, <1>2, <1>4 DEF WorkerCoherent, launchVars
<1>10. ConcludedRight'
  BY <1>0, <1>2 DEF ConcludedRight, NotApprovedYet, ApprovedInLog, dbVars
<1>11. LogFollows'
  <2>1. UNCHANGED <<pending_items, result, worker, unreconciled, decision_log>>
    BY <1>0, <1>2 DEF launchVars, dbVars
  <2>2. \A g \in Finalizers, s \in {"persist", "release", "reconcile"} :
           At(g, s)' => g # f /\ fin'[g] = fin[g] /\ At(g, s) /\ fin[g].req \in Requests
    BY <1>1, FinTyped DEF At
  <2>3. \A g \in Finalizers : At(g, "reconcile") => g # f /\ At(g, "reconcile")' /\ fin'[g] = fin[g]
    BY <1>0, <1>1 DEF At
  <2>4. \A r \in Requests : rx'[r] = rx[r] \/ (rx[r] = "open" /\ rx'[r] = "dropped")
    BY <1>2, <1>4
  <2> QED BY <2>1, <2>2, <2>3, <2>4 DEF LogFollows, NotApprovedYet, ApprovedInLog
<1> QED BY <1>5, <1>6, <1>7, <1>8, <1>9, <1>10, <1>11

-----------------------------------------------------------------------------
(* The end of the worker task *)

\* The task it aborts had not called finalize_spawn_decision yet.
LEMMA AbortExpiryInv ==
    ASSUME SpawnInv, NEW r \in Requests, AbortExpiry(r)
    PROVE  SpawnInv'
<1> USE DEF SpawnInv
<1>0. /\ worker[r] = "aborting" /\ DropClaim(r)
      /\ expiry' = [expiry EXCEPT ![r] = "aborted"]
      /\ worker' = [worker EXCEPT ![r] = "settled"]
      /\ UNCHANGED <<envVars, result, launchVars, dbVars>>
  BY DEF AbortExpiry, WorkerTo
<1>1. fin[r] = None /\ r \in Finalizers
  BY <1>0 DEF ExpiryCoherent, Finalizers
<1>2. UNCHANGED <<queueVars, fin>>
  <2>1. \A q \in claims : ~Holds(r, q)
    BY <1>1 DEF Holds
  <2>2. fin' = fin
    BY <1>0, <1>1 DEF DropClaim, Finish, TypeOK
  <2>3. rx' = rx
    BY <1>0, <2>1 DEF DropClaim, TypeOK, QueueTypeOK
  <2> QED BY <1>0, <2>1, <2>2, <2>3 DEF DropClaim, queueVars
<1>3. /\ worker'[r] = "settled"
      /\ \A q \in Requests : q # r => worker'[q] = worker[q]
  BY <1>0 DEF TypeOK
<1>4. QueueInv'
  BY <1>2, QueueUnchanged
<1>5. TypeOK'
  BY <1>0, <1>2, <1>4 DEF TypeOK, QueueInv, WorkerStates, ExpiryStates, envVars, launchVars, dbVars
<1>6. ClaimsHeld' /\ LogFollows'
  BY <1>0, <1>2, <1>3, ClaimsHeldFrame, LogFollowsFrame DEF launchVars, dbVars
<1>7. ExpiryCoherent'
  BY <1>0, <1>1, <1>2, <1>3 DEF ExpiryCoherent, TypeOK, Unstarted
<1>8. WorkerCoherent'
  BY <1>0, <1>2, <1>3 DEF WorkerCoherent, queueVars, launchVars
<1>9. ConcludedRight'
  BY <1>0, <1>2, <1>3 DEF ConcludedRight, NotApprovedYet, ApprovedInLog, queueVars, dbVars
<1> QED BY <1>4, <1>5, <1>6, <1>7, <1>8, <1>9

LEMMA FailureMoves ==
    ASSUME TypeOK, NEW r \in Requests, RecordActionFailure(r)
    PROVE  /\ decision_log' \in [Ids -> LogRows \cup {None}]
           /\ ~ApprovedInLog(r)'
           /\ decision_log[IdOf[r]] # None /\ decision_log[IdOf[r]].decision = "approve" =>
                 decision_log'[IdOf[r]] # None /\ decision_log'[IdOf[r]].decision = "approve"
           /\ \A q \in Requests : q # r => decision_log'[IdOf[q]] = decision_log[IdOf[q]]
<1> DEFINE row == decision_log[IdOf[r]]
           x == [row EXCEPT !.failed = TRUE]
<1>0. IdOf[r] \in Ids
  BY QueueAssumption
<1>1. CASE row # None /\ row.decision = "approve"
  <2>1. row \in LogRows
    BY <1>0, <1>1 DEF TypeOK
  <2>2. x \in LogRows /\ x.decision = row.decision /\ x.failed = TRUE
    BY <2>1 DEF LogRows
  <2>3. x # None
    BY <2>2, OptionAssumption
  <2>4. decision_log' = [decision_log EXCEPT ![IdOf[r]] = x]
    BY <1>1 DEF RecordActionFailure
  <2> HIDE DEF x
  <2> QED BY <1>0, <1>1, <2>2, <2>3, <2>4, SpawnAssumption, QueueAssumption
          DEF TypeOK, ApprovedInLog
<1>2. CASE ~(row # None /\ row.decision = "approve")
  BY <1>0, <1>2 DEF TypeOK, ApprovedInLog, RecordActionFailure
<1> QED BY <1>1, <1>2

LEMMA ConcludeInv ==
    ASSUME SpawnInv, NEW r \in Requests, Conclude(r)
    PROVE  SpawnInv'
<1> USE DEF SpawnInv
<1>0. /\ worker[r] = "settled"
      /\ UNCHANGED <<queueVars, envVars, result, expiry, fin, launchVars>>
  BY DEF Conclude
<1>1. /\ worker'[r] \in {"done", "forgetting", "unrecorded"}
      /\ worker' \in [Requests -> WorkerStates]
      /\ worker'[r] = "forgetting" => result[r] = "closed"
      /\ \A q \in Requests : q # r => worker'[q] = worker[q]
  BY DEF Conclude, WorkerTo, TypeOK, WorkerStates
<1>2. QueueInv'
  BY <1>0, QueueUnchanged
<1>3. ClaimsHeld' /\ ExpiryCoherent'
  BY <1>0, <1>1, ClaimsHeldFrame, ExpiryCoherentFrame DEF Unstarted
<1>4. WorkerCoherent'
  BY <1>0, <1>1 DEF WorkerCoherent, queueVars, launchVars
<1>5. CASE /\ UNCHANGED dbVars
           /\ \/ worker'[r] = "unrecorded"
              \/ worker'[r] = "done" /\ result[r] \in {"running", "denied", "deferred"}
  <2>1. TypeOK'
    BY <1>0, <1>1, <1>2, <1>5 DEF TypeOK, QueueInv, envVars, launchVars, dbVars
  <2>2. LogFollows'
    BY <1>0, <1>1, <1>5, LogFollowsFrame DEF launchVars, dbVars
  <2>3. ConcludedRight'
    BY <1>0, <1>1, <1>5 DEF ConcludedRight, NotApprovedYet, ApprovedInLog, queueVars, dbVars
  <2> QED BY <1>2, <1>3, <1>4, <2>1, <2>2, <2>3
<1>6. CASE /\ result[r] = "failed" /\ worker'[r] = "done"
           /\ RecordActionFailure(r) /\ UNCHANGED pending_decisions
  <2>1. /\ decision_log' \in [Ids -> LogRows \cup {None}]
        /\ ~ApprovedInLog(r)'
        /\ decision_log[IdOf[r]] # None /\ decision_log[IdOf[r]].decision = "approve" =>
              decision_log'[IdOf[r]] # None /\ decision_log'[IdOf[r]].decision = "approve"
        /\ \A q \in Requests : q # r => decision_log'[IdOf[q]] = decision_log[IdOf[q]]
    BY <1>6, FailureMoves
  <2>2. rx[r] = "approve" /\ r \notin pending_items
    BY <1>6 DEF WorkerCoherent, QueueInv, OneOwnerPerSender
  <2>3. TypeOK'
    BY <1>0, <1>1, <1>2, <1>6, <2>1 DEF TypeOK, QueueInv, envVars, launchVars
  <2>4. \A q \in Requests : q # r => /\ NotApprovedYet(q)' = NotApprovedYet(q)
                                    /\ ApprovedInLog(q)' = ApprovedInLog(q)
    BY <2>1 DEF NotApprovedYet, ApprovedInLog
  <2>5. LogFollows'
    <3>0. UNCHANGED <<rx, pending_items, fin, result, unreconciled>>
      BY <1>0 DEF queueVars, launchVars
    <3>1. \A q \in Requests :
            rx[q] = "none" \/ q \in pending_items \/ rx[q] = "ask" => NotApprovedYet(q)'
      BY <2>2, <2>4 DEF LogFollows
    <3>2. ASSUME NEW g \in Finalizers
          PROVE  (/\ At(g, "persist") => NotApprovedYet(fin[g].req)
                  /\ At(g, "release") => IF fin[g].decision = "approve"
                                         THEN ApprovedInLog(fin[g].req)
                                         ELSE NotApprovedYet(fin[g].req)
                  /\ At(g, "reconcile") => rx[fin[g].req] = "deny")'
      <4>1. CASE fin[g] = None
        BY <3>0, <4>1 DEF At
      <4>2. CASE fin[g] # None /\ fin[g].req = r
        <5>1. ~Holds(g, r)
          BY <2>2, HeldMeansOpen
        <5> QED BY <3>0, <4>2, <5>1 DEF Holds, At, LogFollows
      <4>3. CASE fin[g] # None /\ fin[g].req # r
        <5>1. decision_log'[IdOf[fin[g].req]] = decision_log[IdOf[fin[g].req]]
          BY <2>1, <4>3, FinTyped
        <5> QED BY <3>0, <5>1 DEF LogFollows, At, ApprovedInLog, NotApprovedYet
      <4> QED BY <4>1, <4>2, <4>3
    <3>3. \A q \in Requests :
            rx[q] = "approve" => /\ decision_log'[IdOf[q]] # None
                                 /\ decision_log'[IdOf[q]].decision = "approve"
                                 /\ decision_log'[IdOf[q]].failed => result[q] = "failed"
      BY <1>6, <2>1 DEF LogFollows
    <3>4. \A q \in Requests \ unreconciled :
            rx[q] = "deny" /\ worker'[q] # "lost" =>
               NotApprovedYet(q)' \/ \E g \in Finalizers : At(g, "reconcile") /\ fin[g].req = q
      BY <1>1, <2>2, <2>4 DEF LogFollows
    <3> QED BY <3>0, <3>1, <3>2, <3>3, <3>4 DEF LogFollows, At, NotApprovedYet, ApprovedInLog
  <2>6. ConcludedRight'
    BY <1>0, <1>1, <1>6, <2>1, <2>4 DEF ConcludedRight, queueVars
  <2> QED BY <1>2, <1>3, <1>4, <2>3, <2>5, <2>6
<1>7. CASE /\ result[r] = "closed" /\ worker'[r] = "forgetting"
           /\ ForceFailclosed(r, "spawn_channel_drop:deny")
  <2>1. /\ decision_log' \in [Ids -> LogRows \cup {None}]
        /\ pending_decisions' \subseteq Ids
        /\ decision_log'[IdOf[r]].decision = "deny"
        /\ \A q \in Requests : q # r => decision_log'[IdOf[q]] = decision_log[IdOf[q]]
    BY <1>7, ForceMoves DEF Resolvers
  <2>2. rx[r] = "dropped"
    BY <1>7 DEF WorkerCoherent
  <2>3. TypeOK'
    BY <1>0, <1>1, <1>2, <2>1 DEF TypeOK, QueueInv, envVars, launchVars
  <2>4. LogFollows' /\ NotApprovedYet(r)'
    BY <1>0, <1>1, <2>1, <2>2, ForcedLogFollows DEF launchVars
  <2>5. ConcludedRight'
    BY <1>0, <1>1, <1>7, <2>1, <2>4 DEF ConcludedRight, NotApprovedYet, ApprovedInLog, queueVars
  <2> QED BY <1>2, <1>3, <1>4, <2>3, <2>4, <2>5
<1> QED BY <1>5, <1>6, <1>7 DEF Conclude, WorkerTo, TypeOK

LEMMA ForgetInv ==
    ASSUME SpawnInv, NEW r \in Requests, ForgetAbandoned(r)
    PROVE  SpawnInv'
<1> USE DEF SpawnInv
<1>0. /\ worker[r] = "forgetting" /\ FinalizeLocal(IdOf[r])
      /\ worker' = [worker EXCEPT ![r] = "done"]
      /\ UNCHANGED <<envVars, result, expiry, fin, launchVars, dbVars>>
  BY DEF ForgetAbandoned, WorkerTo
<1>1. result[r] = "closed" /\ rx[r] = "dropped" /\ NotApprovedYet(r)
      /\ r \notin pending_items /\ r \notin claims
  BY <1>0 DEF WorkerCoherent, ConcludedRight, QueueInv, OneOwnerPerSender
<1>2. pending_senders[IdOf[r]] = None
  BY <1>1, QueueAssumption, SpawnAssumption DEF QueueInv, QueueTypeOK, SendersMatchItems
<1>3. /\ UNCHANGED <<rx, claims, pending_items>>
      /\ claimed_items' = [claimed_items EXCEPT ![IdOf[r]] = None]
      /\ managed_spawn_ids' = managed_spawn_ids \ {IdOf[r]}
  <2>1. Peek(IdOf[r]) = {}
    BY <1>1, SpawnAssumption DEF Peek, TypeOK, QueueTypeOK
  <2>2. rx' = rx
    BY <1>0, <1>2, QueueAssumption DEF FinalizeLocal, TypeOK, QueueTypeOK
  <2> QED BY <1>0, <2>1, <2>2 DEF FinalizeLocal
<1>4. worker'[r] = "done" /\ \A q \in Requests : q # r => worker'[q] = worker[q]
  BY <1>0 DEF TypeOK
<1>5. QueueInv'
  BY <1>0, FinalizePreservesInv, QueueAssumption
<1>6. TypeOK'
  BY <1>0, <1>5 DEF TypeOK, QueueInv, WorkerStates, envVars, launchVars, dbVars
<1>7. ClaimsHeld'
  <2>1. \A q \in Requests : q # r => claimed_items'[IdOf[q]] = claimed_items[IdOf[q]]
    BY <1>3, SpawnAssumption, QueueAssumption DEF TypeOK, QueueTypeOK
  <2>2. claimed_items'[IdOf[r]] # r
    BY <1>3, QueueAssumption DEF TypeOK, QueueTypeOK
  <2> QED BY <1>0, <1>1, <1>3, <2>1, <2>2 DEF ClaimsHeld, Holds, TypeOK, QueueTypeOK
<1>8. ExpiryCoherent'
  BY <1>0, <1>4, ExpiryCoherentFrame DEF Unstarted
<1>9. WorkerCoherent'
  BY <1>0, <1>1, <1>3, <1>4 DEF WorkerCoherent, launchVars
<1>10. ConcludedRight'
  BY <1>0, <1>1, <1>3, <1>4 DEF ConcludedRight, NotApprovedYet, ApprovedInLog, dbVars
<1>11. LogFollows'
  BY <1>0, <1>3, <1>4 DEF LogFollows, At, NotApprovedYet, ApprovedInLog, launchVars, dbVars
<1> QED BY <1>5, <1>6, <1>7, <1>8, <1>9, <1>10, <1>11

LEMMA WorkerStepInv ==
    ASSUME SpawnInv, NEW r \in Requests, WorkerStep(r)
    PROVE  SpawnInv'
BY SubmitInv, QueueSpawnInv, WorkerRunsInv, AbortExpiryInv, ConcludeInv, ForgetInv
   DEF WorkerStep

LEMMA FinalizerStepInv ==
    ASSUME SpawnInv, NEW f \in Finalizers,
           FinalizerStep(f) \/ ReviewInvalid(f) \/ FinalizerDies(f)
    PROVE  SpawnInv'
BY ClaimSpawnInv, PersistDecisionInv, ReleaseInv, ReconcileInv, ReviewInvalidInv,
   FinalizerDiesInv
   DEF FinalizerStep

-----------------------------------------------------------------------------
(* The daemon process *)

LEMMA CrashInv ==
    ASSUME SpawnInv, Crash
    PROVE  SpawnInv'
<1> USE DEF SpawnInv
<1>0. /\ \A r \in Requests : rx'[r] = IF rx[r] = "open" THEN "dropped" ELSE rx[r]
      /\ \A r \in Requests : worker'[r] = IF worker[r] = "none" THEN "none" ELSE "lost"
      /\ \A r \in Requests : expiry'[r] = IF expiry[r] = "none" THEN "none" ELSE "aborted"
      /\ \A f \in Finalizers : fin'[f] = None
      /\ \A id \in Ids : claimed_items'[id] = None /\ pending_senders'[id] = None
      /\ pending_items' = {} /\ managed_spawn_ids' = {} /\ claims' = {} /\ view' = {}
      /\ UNCHANGED <<result, launched, unreconciled, decision_log>>
  BY DEF Crash, launchVars, dbVars
<1>1. QueueInv'
  <2>1. QueueTypeOK'
    BY DEF Crash, QueueTypeOK, QueueInv
  <2>2. SendersMatchItems' /\ IdsAccountedOnce' /\ ClaimsFiledById'
    BY <1>0, QueueAssumption DEF SendersMatchItems, IdsAccountedOnce, ClaimsFiledById
  <2>3. OneOwnerPerSender'
    BY <1>0 DEF OneOwnerPerSender
  <2>4. ViewMatchesSnapshot'
    BY <1>0, QueueAssumption DEF ViewMatchesSnapshot, Snapshot
  <2> QED BY <2>1, <2>2, <2>3, <2>4 DEF QueueInv
<1>2. TypeOK'
  <2>1. crashes' \in 0..MaxCrashes
    BY SpawnAssumption DEF Crash, TypeOK
  <2>2. worker' \in [Requests -> WorkerStates]
    BY DEF Crash, TypeOK, WorkerStates
  <2>3. expiry' \in [Requests -> ExpiryStates]
    BY DEF Crash, TypeOK, ExpiryStates
  <2>4. fin' \in [Finalizers -> Finalizations \cup {None}]
    BY DEF Crash
  <2> QED BY <1>1, <2>1, <2>2, <2>3, <2>4 DEF Crash, TypeOK, QueueInv, launchVars, dbVars
<1>3. ClaimsHeld'
  BY <1>0, QueueAssumption DEF ClaimsHeld, Holds
<1>4. ExpiryCoherent'
  BY <1>0 DEF ExpiryCoherent, Finalizers, Unstarted
<1>5. WorkerCoherent'
  BY <1>0 DEF WorkerCoherent
<1>6. LogFollows'
  BY <1>0 DEF LogFollows, At, NotApprovedYet, ApprovedInLog, WorkerCoherent
<1>7. ConcludedRight'
  BY <1>0 DEF ConcludedRight
<1> QED BY <1>1, <1>2, <1>3, <1>4, <1>5, <1>6, <1>7

\* The drain adds denials for rows that have no log entry yet.
LEMMA DrainInsertInv ==
    ASSUME SpawnInv, NEW id \in Ids, DrainInsert(id)
    PROVE  SpawnInv'
<1> USE DEF SpawnInv
<1> DEFINE x == Row("deny", "daemon_restart:failclosed_spawn")
<1>0. /\ decision_log[id] = None
      /\ decision_log' = [decision_log EXCEPT ![id] = x]
      /\ UNCHANGED <<queueVars, envVars, worker, result, expiry, fin, launchVars,
                     pending_decisions>>
  BY DEF DrainInsert
<1>1. x \in LogRows /\ x.decision = "deny"
  BY RowTyped DEF Decisions, Resolvers
<1> HIDE DEF x
<1>2. QueueInv'
  BY <1>0, QueueUnchanged
<1>3. TypeOK'
  BY <1>0, <1>1, <1>2 DEF TypeOK, QueueInv, envVars, launchVars
<1>4. ClaimsHeld' /\ ExpiryCoherent'
  BY <1>0, ClaimsHeldFrame, ExpiryCoherentFrame
<1>5. WorkerCoherent'
  BY <1>0 DEF WorkerCoherent, queueVars, launchVars
<1>6. \A i \in Ids : \/ decision_log'[i] = decision_log[i]
                     \/ decision_log[i] = None /\ decision_log'[i].decision = "deny"
  <2>1. decision_log'[id].decision = "deny"
    BY <1>0, <1>1 DEF TypeOK
  <2>2. ASSUME NEW i \in Ids, i # id PROVE decision_log'[i] = decision_log[i]
    BY <1>0, <2>2 DEF TypeOK
  <2> QED BY <1>0, <2>1, <2>2
<1>7. \A r \in Requests : /\ NotApprovedYet(r) => NotApprovedYet(r)'
                          /\ ApprovedInLog(r)' <=> ApprovedInLog(r)
  BY <1>6, QueueAssumption DEF NotApprovedYet, ApprovedInLog
<1>8. LogFollows'
  <2>0. UNCHANGED <<rx, pending_items, fin, result, worker, unreconciled>>
    BY <1>0 DEF queueVars, launchVars
  <2>1. \A g \in Finalizers : fin[g] # None => fin[g].req \in Requests
    BY FinTyped
  <2>2. \A r \in Requests : decision_log[IdOf[r]] # None => decision_log'[IdOf[r]] = decision_log[IdOf[r]]
    BY <1>6, QueueAssumption
  <2>3. ASSUME NEW g \in Finalizers
        PROVE  (/\ At(g, "persist") => NotApprovedYet(fin[g].req)
                /\ At(g, "release") => IF fin[g].decision = "approve"
                                       THEN ApprovedInLog(fin[g].req)
                                       ELSE NotApprovedYet(fin[g].req)
                /\ At(g, "reconcile") => rx[fin[g].req] = "deny")'
    <3>1. CASE fin[g] = None
      BY <2>0, <3>1 DEF At
    <3>2. CASE fin[g] # None
      <4>1. PICK q \in Requests : q = fin[g].req
        BY <2>1, <3>2
      <4>2. (NotApprovedYet(q) => NotApprovedYet(q)') /\ (ApprovedInLog(q) => ApprovedInLog(q)')
        BY <1>7
      <4> QED BY <2>0, <4>1, <4>2 DEF LogFollows, At, NotApprovedYet, ApprovedInLog
    <3> QED BY <3>1, <3>2
  <2>4. \A r \in Requests :
          rx[r] = "none" \/ r \in pending_items \/ rx[r] = "ask" => NotApprovedYet(r)'
    BY <1>7 DEF LogFollows
  <2>5. \A r \in Requests \ unreconciled :
          rx[r] = "deny" /\ worker[r] # "lost" =>
             NotApprovedYet(r)' \/ \E g \in Finalizers : At(g, "reconcile") /\ fin[g].req = r
    BY <1>7 DEF LogFollows
  <2> QED BY <2>0, <2>2, <2>3, <2>4, <2>5 DEF LogFollows, At, NotApprovedYet, ApprovedInLog
<1>9. ConcludedRight'
  BY <1>0, <1>7 DEF ConcludedRight, queueVars
<1> QED BY <1>2, <1>3, <1>4, <1>5, <1>8, <1>9

\* Steps that change the mode, the phase or a pending row only.
LEMMA QuietInv ==
    ASSUME SpawnInv, SetMode \/ Restart \/ Bind \/ (\E id \in Ids : DrainDelete(id))
    PROVE  SpawnInv'
<1> USE DEF SpawnInv
<1>0. /\ UNCHANGED <<queueVars, crashes, late, worker, result, expiry, fin, launched,
                     unreconciled, decision_log>>
      /\ phase' \in {"up", "down", "draining"} /\ mode' \in {"active", "off"}
      /\ pending_decisions' \subseteq Ids
  BY DEF SetMode, Restart, Bind, DrainDelete, TypeOK, launchVars, dbVars, envVars
<1>1. QueueInv'
  BY <1>0, QueueUnchanged
<1>2. TypeOK'
  BY <1>0, <1>1 DEF TypeOK, QueueInv
<1>3. ClaimsHeld' /\ ExpiryCoherent' /\ LogFollows'
  BY <1>0, ClaimsHeldFrame, ExpiryCoherentFrame, LogFollowsFrame
<1>4. WorkerCoherent' /\ ConcludedRight'
  BY <1>0 DEF WorkerCoherent, ConcludedRight, NotApprovedYet, ApprovedInLog, queueVars
<1> QED BY <1>1, <1>2, <1>3, <1>4

-----------------------------------------------------------------------------

LEMMA SpawnInitInv == Init => SpawnInv
<1> SUFFICES ASSUME Init PROVE SpawnInv
  OBVIOUS
<1> USE QueueAssumption, SpawnAssumption DEF Init
<1>1. QueueInv
  BY InitInv
<1>2. TypeOK
  BY <1>1 DEF TypeOK, QueueInv, WorkerStates, Results, ExpiryStates
<1>3. ClaimsHeld /\ ExpiryCoherent /\ WorkerCoherent
  BY DEF ClaimsHeld, ExpiryCoherent, WorkerCoherent, QueueInit, Holds, Finalizers, Unstarted
<1>4. LogFollows /\ ConcludedRight
  BY DEF LogFollows, ConcludedRight, QueueInit, At, NotApprovedYet, ApprovedInLog
<1> QED BY <1>1, <1>2, <1>3, <1>4 DEF SpawnInv

LEMMA SpawnNextInv == SpawnInv /\ [Next]_vars => SpawnInv'
<1> SUFFICES ASSUME SpawnInv, [Next]_vars PROVE SpawnInv'
  OBVIOUS
<1>1. CASE \E r \in Requests : \/ Submit(r) \/ WorkerStep(r) \/ DeadlinePasses(r)
                              \/ ExpiryStarts(r) \/ ExpiryFinalizes(r)
  BY <1>1, SubmitInv, WorkerStepInv, ExpiryInv
<1>2. CASE \E c \in Reviewers, r \in Requests, d \in Decisions : Review(c, r, d)
  BY <1>2, ReviewInv
<1>3. CASE \E f \in Finalizers : FinalizerStep(f) \/ ReviewInvalid(f) \/ FinalizerDies(f)
  BY <1>3, FinalizerStepInv
<1>4. CASE SetMode \/ Restart \/ Bind \/ (\E id \in Ids : DrainDelete(id))
  BY <1>4, QuietInv
<1>5. CASE Crash
  BY <1>5, CrashInv
<1>6. CASE \E id \in Ids : DrainInsert(id)
  BY <1>6, DrainInsertInv
<1>7. CASE UNCHANGED vars
  <2> USE <1>7 DEF SpawnInv, vars, envVars, launchVars, dbVars
  <2>1. QueueInv'
    BY QueueUnchanged
  <2>2. TypeOK'
    BY <2>1 DEF TypeOK, QueueInv
  <2>3. ClaimsHeld' /\ ExpiryCoherent' /\ LogFollows'
    BY ClaimsHeldFrame, ExpiryCoherentFrame, LogFollowsFrame
  <2>4. WorkerCoherent' /\ ConcludedRight'
    BY DEF WorkerCoherent, ConcludedRight, NotApprovedYet, ApprovedInLog, queueVars
  <2> QED BY <2>1, <2>2, <2>3, <2>4
<1> QED BY <1>1, <1>2, <1>3, <1>4, <1>5, <1>6, <1>7 DEF Next

\* The spawn machinery keeps its tables, its claims and its workers together,
\* whatever fails and whoever dies.
THEOREM SpawnsCoherent == Spec => []SpawnInv
BY SpawnInitInv, SpawnNextInv, PTL DEF Spec

\* The queue stays consistent when spawns are claimed, abandoned and
\* forgotten by tasks that may die between any two steps.
THEOREM SpawnQueueConsistent == Spec => []QueueInv
<1>1. SpawnInv => QueueInv
  BY DEF SpawnInv
<1> QED BY <1>1, SpawnsCoherent, PTL

\* No agent process without its approval in the audit log.
THEOREM LaunchesAudited == Spec => []LaunchIsAudited
<1>1. SpawnInv => LaunchIsAudited
  BY DEF SpawnInv, TypeOK, WorkerCoherent, LogFollows, LaunchIsAudited
<1> QED BY <1>1, SpawnsCoherent, PTL

LEMMA CoherentMeansLaunched ==
    SpawnInv => ApprovalMeansLaunched
<1> SUFFICES ASSUME SpawnInv, NEW r \in Requests \ unreconciled, worker[r] = "done",
                    \A f \in Finalizers : fin[f] = None, ApprovedInLog(r)
             PROVE  r \in launched
  BY DEF ApprovalMeansLaunched, ApprovedInLog
<1>1. ~NotApprovedYet(r)
  BY DEF ApprovedInLog, NotApprovedYet
<1>2. result[r] \in Results \ {"none"}
  BY DEF SpawnInv, TypeOK, WorkerCoherent
<1>3. result[r] \notin {"failed", "closed"}
  BY <1>1 DEF SpawnInv, ConcludedRight
<1>4. rx[r] \notin {"ask", "deny"}
  BY <1>1 DEF SpawnInv, LogFollows, At
<1> QED BY <1>2, <1>3, <1>4 DEF SpawnInv, WorkerCoherent, Results

\* No unmarked approval in the audit log without its agent process, once the
\* worker is through and the log could be reconciled.
THEOREM ApprovalsLaunched == Spec => []ApprovalMeansLaunched
BY CoherentMeansLaunched, SpawnsCoherent, PTL

LEMMA CoherentMeansReturned ==
    SpawnInv => SlotsReturned
<1> SUFFICES ASSUME SpawnInv, NEW r \in Requests, worker[r] \in {"done", "refused"},
                    IdOf[r] \in managed_spawn_ids
             PROVE  FALSE
  BY DEF SlotsReturned
<1>1. pending_senders[IdOf[r]] = r \/ claimed_items[IdOf[r]] = r
  BY QueueAssumption, SpawnAssumption
     DEF SpawnInv, QueueInv, QueueTypeOK, IdsAccountedOnce, SendersMatchItems, ClaimsFiledById
<1>2. rx[r] \in {"open", "dropped"}
  BY <1>1, QueueAssumption
     DEF SpawnInv, QueueInv, SendersMatchItems, OneOwnerPerSender, ClaimsHeld
<1>3. worker[r] = "done" /\ result[r] \in Results \ {"none"}
  BY <1>2 DEF SpawnInv, TypeOK, WorkerCoherent
<1>4. result[r] = "closed"
  BY <1>2, <1>3 DEF SpawnInv, WorkerCoherent, Results
<1> QED BY <1>3, <1>4 DEF SpawnInv, ConcludedRight

\* A worker that is through holds no slot of the limit.
THEOREM SlotsAlwaysReturned == Spec => []SlotsReturned
BY CoherentMeansReturned, SpawnsCoherent, PTL
=============================================================================
