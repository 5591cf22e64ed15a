------------------------ MODULE DecisionQueueProofs ------------------------
(***************************************************************************)
(* The decision queue keeps its structures consistent, and implements the  *)
(* decision lifecycle, for every set of requests and every assignment of   *)
(* ids to them, colliding ids included.                                    *)
(***************************************************************************)
EXTENDS DecisionQueue, TLAPS

\* Each method of the queue preserves the queue's invariant; the modules that
\* compose the queue cite these lemmas.

LEMMA EnqueuePreservesInv ==
    ASSUME NEW r \in Requests, NEW managed \in BOOLEAN,
           QueueInv, EnqueueInner(r, managed)
    PROVE  QueueInv'
<1> USE QueueAssumption DEF QueueInv, EnqueueInner, IsDuplicate
<1>1. QueueTypeOK'
  BY DEF QueueTypeOK, Decisions
<1>2. SendersMatchItems'
  BY DEF QueueTypeOK, SendersMatchItems
<1>3. OneOwnerPerSender'
  BY DEF QueueTypeOK, OneOwnerPerSender, Decisions
<1>4. IdsAccountedOnce'
  BY DEF QueueTypeOK, IdsAccountedOnce
<1>5. ClaimsFiledById'
  BY DEF ClaimsFiledById
<1>6. ViewMatchesSnapshot'
  BY DEF ViewMatchesSnapshot, Snapshot
<1> QED BY <1>1, <1>2, <1>3, <1>4, <1>5, <1>6

LEMMA FinalizePreservesInv ==
    ASSUME NEW id \in Ids, QueueInv, FinalizeLocal(id)
    PROVE  QueueInv'
<1> USE QueueAssumption DEF QueueInv, FinalizeLocal, Peek, BroadcastResolved
<1>1. QueueTypeOK'
  BY DEF QueueTypeOK, Decisions
<1>2. SendersMatchItems'
  BY DEF QueueTypeOK, SendersMatchItems
<1>3. OneOwnerPerSender'
  BY DEF QueueTypeOK, OneOwnerPerSender, SendersMatchItems, Decisions
<1>4. IdsAccountedOnce'
  BY DEF QueueTypeOK, IdsAccountedOnce
<1>5. ClaimsFiledById'
  BY DEF QueueTypeOK, ClaimsFiledById
<1>6. ViewMatchesSnapshot'
  BY DEF QueueTypeOK, ViewMatchesSnapshot, Snapshot, SendersMatchItems,
         ClaimsFiledById
<1> QED BY <1>1, <1>2, <1>3, <1>4, <1>5, <1>6

LEMMA ClaimPreservesInv ==
    ASSUME NEW id \in Ids, QueueInv, Claim(id)
    PROVE  QueueInv'
<1> USE QueueAssumption DEF QueueInv
<1>1. PICK r \in pending_items :
          /\ IdOf[r] = id
          /\ pending_items' = pending_items \ {r}
          /\ claimed_items' = [claimed_items EXCEPT ![id] = r]
  BY DEF Claim, Peek
<1>2. r \in Requests /\ pending_senders[id] = r
  BY <1>1 DEF QueueTypeOK, SendersMatchItems
<1>3. /\ pending_senders' = [pending_senders EXCEPT ![id] = None]
      /\ claims' = claims \cup {r}
      /\ UNCHANGED <<managed_spawn_ids, rx, view>>
  BY <1>2 DEF Claim
<1>4. QueueTypeOK'
  BY <1>1, <1>2, <1>3 DEF QueueTypeOK
<1>5. SendersMatchItems'
  BY <1>1, <1>2, <1>3 DEF QueueTypeOK, SendersMatchItems
<1>6. OneOwnerPerSender'
  BY <1>1, <1>2, <1>3 DEF QueueTypeOK, OneOwnerPerSender
<1>7. IdsAccountedOnce'
  BY <1>1, <1>2, <1>3 DEF QueueTypeOK, IdsAccountedOnce
<1>8. ClaimsFiledById'
  BY <1>1, <1>2, <1>3 DEF QueueTypeOK, ClaimsFiledById
<1>9. ViewMatchesSnapshot'
  <2>1. claimed_items[id] = None
    BY <1>2 DEF IdsAccountedOnce
  <2>2. Snapshot' = Snapshot
    BY <1>1, <1>2, <2>1 DEF QueueTypeOK, Snapshot
  <2> QED BY <1>3, <2>2 DEF ViewMatchesSnapshot
<1> QED BY <1>4, <1>5, <1>6, <1>7, <1>8, <1>9

LEMMA CompleteClaimPreservesInv ==
    ASSUME NEW r \in Requests, NEW d \in Decisions, QueueInv, CompleteClaim(r, d)
    PROVE  QueueInv'
<1> USE QueueAssumption DEF QueueInv, CompleteClaim, BroadcastResolved
<1>1. QueueTypeOK'
  BY DEF QueueTypeOK
<1>2. SendersMatchItems'
  BY DEF SendersMatchItems
<1>3. OneOwnerPerSender'
  BY DEF QueueTypeOK, OneOwnerPerSender, Decisions
<1>4. IdsAccountedOnce'
  BY DEF QueueTypeOK, IdsAccountedOnce
<1>5. ClaimsFiledById'
  BY DEF QueueTypeOK, ClaimsFiledById
<1>6. ViewMatchesSnapshot'
  BY DEF QueueTypeOK, ViewMatchesSnapshot, Snapshot, SendersMatchItems,
         IdsAccountedOnce, ClaimsFiledById
<1> QED BY <1>1, <1>2, <1>3, <1>4, <1>5, <1>6

LEMMA ResolvePreservesInv ==
    ASSUME NEW S \in SUBSET Ids, NEW d \in Decisions, QueueInv, ResolveIds(S, d)
    PROVE  QueueInv'
<1> USE QueueAssumption DEF QueueInv, ResolveIds, CanResolve, BroadcastResolved
<1>1. QueueTypeOK'
  BY DEF QueueTypeOK
<1>2. SendersMatchItems'
  BY DEF QueueTypeOK, SendersMatchItems
<1>3. OneOwnerPerSender'
  <2> SUFFICES ASSUME NEW r \in Requests
               PROVE  /\ rx'[r] = "open" <=> (r \in pending_items' \/ r \in claims')
                      /\ ~(r \in pending_items' /\ r \in claims')
    BY DEF OneOwnerPerSender
  <2> DEFINE found == {id \in S : CanResolve(id)}
  <2>1. (\E id \in found : pending_senders[id] = r)
            <=> (r \in pending_items /\ IdOf[r] \in found)
    BY DEF QueueTypeOK, SendersMatchItems
  <2>2. r \in pending_items' <=> (r \in pending_items /\ IdOf[r] \notin found)
    OBVIOUS
  <2>3. rx'[r] = IF r \in pending_items /\ IdOf[r] \in found THEN d ELSE rx[r]
    BY <2>1
  <2>4. d # "open"
    BY DEF Decisions
  <2> QED BY <2>2, <2>3, <2>4 DEF OneOwnerPerSender
<1>4. IdsAccountedOnce'
  BY DEF QueueTypeOK, IdsAccountedOnce
<1>5. ClaimsFiledById'
  BY DEF ClaimsFiledById
<1>6. ViewMatchesSnapshot'
  BY DEF QueueTypeOK, ViewMatchesSnapshot, Snapshot, SendersMatchItems,
         IdsAccountedOnce, ClaimsFiledById
<1> QED BY <1>1, <1>2, <1>3, <1>4, <1>5, <1>6

LEMMA QueueUnchanged ==
    ASSUME QueueInv, UNCHANGED queueVars
    PROVE  QueueInv'
BY DEF queueVars, QueueInv, QueueTypeOK, SendersMatchItems, OneOwnerPerSender,
       IdsAccountedOnce, ClaimsFiledById, ViewMatchesSnapshot, Snapshot

\* What the queue's methods do to the channels: an open channel completes, no
\* other one changes.

LEMMA ResolveChannels ==
    ASSUME NEW S \in SUBSET Ids, NEW d \in Decisions, QueueInv, ResolveIds(S, d)
    PROVE  /\ pending_items' \subseteq pending_items
           /\ \A r \in Requests : rx'[r] = rx[r] \/ (rx[r] = "open" /\ rx'[r] = d)
BY DEF ResolveIds, QueueInv, QueueTypeOK, SendersMatchItems, OneOwnerPerSender

LEMMA FinalizeChannels ==
    ASSUME NEW q \in Requests, QueueInv, FinalizeLocal(IdOf[q])
    PROVE  /\ pending_items' \subseteq pending_items \ {q}
           /\ \A r \in Requests :
                 rx'[r] = rx[r] \/ (rx[r] = "open" /\ rx'[r] = "dropped")
BY QueueAssumption
   DEF FinalizeLocal, Peek, QueueInv, QueueTypeOK, SendersMatchItems, OneOwnerPerSender

LEMMA BulkTargetsAreIds ==
    ASSUME QueueTypeOK, NEW F
    PROVE  BulkTargets(F) \in SUBSET Ids
BY QueueAssumption DEF BulkTargets, QueueTypeOK

-----------------------------------------------------------------------------

LEMMA InitInv == QueueInit => QueueInv
BY QueueAssumption
   DEF QueueInit, QueueInv, QueueTypeOK, SendersMatchItems, OneOwnerPerSender,
       IdsAccountedOnce, ClaimsFiledById, ViewMatchesSnapshot, Snapshot

LEMMA NextPreservesInv == QueueInv /\ [QueueNext]_queueVars => QueueInv'
<1> SUFFICES ASSUME QueueInv, [QueueNext]_queueVars PROVE QueueInv'
  OBVIOUS
<1>1. CASE \E r \in Requests : Enqueue(r) \/ EnqueueManagedSpawn(r)
  BY <1>1, EnqueuePreservesInv DEF Enqueue, EnqueueManagedSpawn
<1>2. CASE \E id \in Ids : FinalizeLocal(id) \/ Claim(id)
  BY <1>2, FinalizePreservesInv, ClaimPreservesInv
<1>3. CASE \E r \in Requests, d \in Decisions : CompleteClaim(r, d)
  BY <1>3, CompleteClaimPreservesInv
<1>4. CASE \E id \in Ids, d \in Decisions : Resolve(id, d)
  BY <1>4, ResolvePreservesInv DEF Resolve
<1>5. CASE \E F \in SUBSET Requests, d \in Decisions : ResolveAll(F, d)
  BY <1>5, ResolvePreservesInv, BulkTargetsAreIds DEF ResolveAll, QueueInv
<1>6. CASE UNCHANGED queueVars
  BY <1>6 DEF queueVars, QueueInv, QueueTypeOK, SendersMatchItems,
              OneOwnerPerSender, IdsAccountedOnce, ClaimsFiledById,
              ViewMatchesSnapshot, Snapshot
<1> QED BY <1>1, <1>2, <1>3, <1>4, <1>5, <1>6 DEF QueueNext

\* Whatever the callers do, and even when ids collide, the queue's senders,
\* items, claims and managed ids stay consistent with each other and with what
\* the broadcast events told the clients.
THEOREM QueueConsistent == QueueSpec => []QueueInv
BY InitInv, NextPreservesInv, PTL DEF QueueSpec

\* Each listed item has the one sender that answers it.
THEOREM ListedMeansAnswerable == QueueSpec => []SendersMatchItems
<1>1. QueueInv => SendersMatchItems
  BY DEF QueueInv
<1> QED BY <1>1, QueueConsistent, PTL

\* A sender exists in one place, and its channel is still open.
THEOREM SendersOwnedOnce == QueueSpec => []OneOwnerPerSender
<1>1. QueueInv => OneOwnerPerSender
  BY DEF QueueInv
<1> QED BY <1>1, QueueConsistent, PTL

\* The events a client received and the snapshot it would be sent agree.
THEOREM ClientsAgreeWithQueue == QueueSpec => []ViewMatchesSnapshot
<1>1. QueueInv => ViewMatchesSnapshot
  BY DEF QueueInv
<1> QED BY <1>1, QueueConsistent, PTL

-----------------------------------------------------------------------------
(* Refinement *)

LEMMA LifecycleInit == QueueInit => Lifecycle!Init
BY DEF QueueInit, Lifecycle!Init

LEMMA EnqueueOpens ==
    ASSUME NEW r \in Requests, NEW managed \in BOOLEAN,
           QueueInv, EnqueueInner(r, managed)
    PROVE  Lifecycle!Open(r)
<1>1. IdOf[r] \notin view
  BY QueueAssumption
     DEF EnqueueInner, IsDuplicate, QueueInv, QueueTypeOK, SendersMatchItems,
         ViewMatchesSnapshot, Snapshot
<1> QED BY <1>1 DEF EnqueueInner, Lifecycle!Open

LEMMA ClaimIsInvisible ==
    ASSUME NEW id \in Ids, Claim(id)
    PROVE  UNCHANGED <<rx, view>>
BY DEF Claim

LEMMA FinalizeWithdraws ==
    ASSUME NEW id \in Ids, QueueInv, FinalizeLocal(id)
    PROVE  \E S \in SUBSET Requests : Lifecycle!Withdraw(id, S)
<1> DEFINE S == {r \in Requests : r = pending_senders[id]}
<1>1. \A r \in S : rx[r] = "open" /\ IdOf[r] = id
  BY DEF QueueInv, SendersMatchItems, OneOwnerPerSender
<1>2. rx' = [r \in Requests |-> IF r \in S THEN "dropped" ELSE rx[r]]
  BY DEF FinalizeLocal
<1>3. view' = view \ {id}
  BY QueueAssumption
     DEF FinalizeLocal, BroadcastResolved, Peek, QueueInv, QueueTypeOK,
         ViewMatchesSnapshot, Snapshot, ClaimsFiledById
<1>4. Lifecycle!Withdraw(id, S)
  BY <1>1, <1>2, <1>3 DEF Lifecycle!Withdraw
<1> QED BY <1>4

LEMMA CompleteClaimAnswersOrLoses ==
    ASSUME NEW r \in Requests, NEW d \in Decisions, QueueInv, CompleteClaim(r, d)
    PROVE  Lifecycle!Lose(r) \/ Lifecycle!Answer({r}, d)
<1>1. rx[r] = "open"
  BY DEF CompleteClaim, QueueInv, OneOwnerPerSender
<1>2. CASE claimed_items[IdOf[r]] = None
  BY <1>1, <1>2 DEF CompleteClaim, Lifecycle!Lose
<1>3. CASE claimed_items[IdOf[r]] # None
  <2>1. IdOf[r] \in view
    BY <1>3, QueueAssumption
       DEF QueueInv, QueueTypeOK, ViewMatchesSnapshot, Snapshot, ClaimsFiledById
  <2>2. rx' = [q \in Requests |-> IF q \in {r} THEN d ELSE rx[q]]
    BY <1>3 DEF CompleteClaim, QueueInv, QueueTypeOK
  <2>3. view' = view \ {IdOf[q] : q \in {r}}
    BY <1>3 DEF CompleteClaim, BroadcastResolved
  <2> QED BY <1>1, <2>1, <2>2, <2>3 DEF Lifecycle!Answer
<1> QED BY <1>2, <1>3

LEMMA ResolveAnswers ==
    ASSUME NEW I \in SUBSET Ids, NEW d \in Decisions, QueueInv, ResolveIds(I, d)
    PROVE  \E S \in SUBSET Requests : Lifecycle!Answer(S, d)
<1> DEFINE found == {id \in I : CanResolve(id)}
           S == {r \in Requests : \E id \in found : pending_senders[id] = r}
<1>1. \A r \in S : rx[r] = "open" /\ IdOf[r] \in view
  BY DEF QueueInv, SendersMatchItems, OneOwnerPerSender, ViewMatchesSnapshot, Snapshot
<1>2. rx' = [r \in Requests |-> IF r \in S THEN d ELSE rx[r]]
  BY DEF ResolveIds
<1>3. found = {IdOf[r] : r \in S}
  BY DEF QueueInv, QueueTypeOK, SendersMatchItems, CanResolve
<1>4. view' = view \ found
  BY DEF ResolveIds, BroadcastResolved
<1>5. Lifecycle!Answer(S, d)
  BY <1>1, <1>2, <1>3, <1>4 DEF Lifecycle!Answer
<1> QED BY <1>5

LEMMA StepSimulates ==
    QueueInv /\ [QueueNext]_queueVars => [Lifecycle!Next]_<<rx, view>>
<1> SUFFICES ASSUME QueueInv, [QueueNext]_queueVars
             PROVE  [Lifecycle!Next]_<<rx, view>>
  OBVIOUS
<1>0. Lifecycle!Decisions = Decisions
  BY DEF Lifecycle!Decisions, Decisions
<1>1. CASE \E r \in Requests : Enqueue(r) \/ EnqueueManagedSpawn(r)
  BY <1>1, EnqueueOpens DEF Enqueue, EnqueueManagedSpawn, Lifecycle!Next
<1>2. CASE \E id \in Ids : FinalizeLocal(id) \/ Claim(id)
  BY <1>2, FinalizeWithdraws, ClaimIsInvisible DEF Lifecycle!Next
<1>3. CASE \E r \in Requests, d \in Decisions : CompleteClaim(r, d)
  <2>1. PICK r \in Requests, d \in Decisions : CompleteClaim(r, d)
    BY <1>3
  <2>2. Lifecycle!Lose(r) \/ Lifecycle!Answer({r}, d)
    BY <2>1, CompleteClaimAnswersOrLoses
  <2>3. {r} \in SUBSET Requests
    OBVIOUS
  <2> QED BY <1>0, <2>2, <2>3 DEF Lifecycle!Next
<1>4. CASE \E id \in Ids, d \in Decisions : Resolve(id, d)
  <2>1. PICK id \in Ids, d \in Decisions : ResolveIds({id}, d)
    BY <1>4 DEF Resolve
  <2>2. \E S \in SUBSET Requests : Lifecycle!Answer(S, d)
    BY <2>1, ResolveAnswers
  <2> QED BY <1>0, <2>2 DEF Lifecycle!Next
<1>5. CASE \E F \in SUBSET Requests, d \in Decisions : ResolveAll(F, d)
  <2>1. PICK F \in SUBSET Requests, d \in Decisions : ResolveIds(BulkTargets(F), d)
    BY <1>5 DEF ResolveAll
  <2>2. \E S \in SUBSET Requests : Lifecycle!Answer(S, d)
    BY <2>1, ResolveAnswers, BulkTargetsAreIds DEF QueueInv
  <2> QED BY <1>0, <2>2 DEF Lifecycle!Next
<1>6. CASE UNCHANGED queueVars
  BY <1>6 DEF queueVars
<1> QED BY <1>1, <1>2, <1>3, <1>4, <1>5, <1>6 DEF QueueNext

\* The queue implements the decision lifecycle: a waiter is answered at most
\* once, only while its id is shown to reviewers, and the answer takes the id
\* off every reviewer's list.
THEOREM QueueRefinesLifecycle == QueueSpec => RefinesLifecycle
BY LifecycleInit, StepSimulates, QueueConsistent, PTL
   DEF QueueSpec, RefinesLifecycle, Lifecycle!Spec
=============================================================================
