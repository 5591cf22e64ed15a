--------------------------- MODULE DecisionQueue ---------------------------
(***************************************************************************)
(* The daemon's in-memory decision queue (wisphive_daemon/src/queue.rs).   *)
(*                                                                         *)
(* The queue lives behind one mutex, so each of its methods is one action. *)
(* A request's oneshot channel is rx[r]: "none" before it is enqueued,     *)
(* "open" while some sender for it exists, then the decision sent or       *)
(* "dropped".  A ClaimedDecision value, which owns the sender it took out  *)
(* of the queue, is an element of `claims'.  `view' is what a review       *)
(* client shows that applies every broadcast event: NewDecision adds an    *)
(* id, DecisionResolved removes it.                                        *)
(***************************************************************************)
CONSTANTS Requests,   \* the requests ever made
          Ids,        \* decision ids
          IdOf,       \* IdOf[r]: the id request r carries (two may collide)
          None        \* no request

ASSUME QueueAssumption == /\ IdOf \in [Requests -> Ids]
                          /\ None \notin Requests

VARIABLES pending_senders,    \* id |-> the request whose sender is held, or None
          pending_items,      \* the requests listed as pending (a Vec; its
                              \* order only matters for display)
          claimed_items,      \* id |-> the request claimed under it, or None
          managed_spawn_ids,  \* ids enqueued as managed spawns
          claims,             \* the requests whose ClaimedDecision is held
          rx,                 \* the oneshot channel of every request
          view                \* ids shown by a client that saw every event

queueVars == <<pending_senders, pending_items, claimed_items,
               managed_spawn_ids, claims, rx, view>>

Decisions == {"approve", "deny", "ask"}

QueueTypeOK ==
    /\ pending_senders \in [Ids -> Requests \cup {None}]
    /\ pending_items \subseteq Requests
    /\ claimed_items \in [Ids -> Requests \cup {None}]
    /\ managed_spawn_ids \subseteq Ids
    /\ claims \subseteq Requests
    /\ rx \in [Requests -> {"none", "open", "dropped"} \cup Decisions]
    /\ view \subseteq Ids

QueueInit ==
    /\ pending_senders = [id \in Ids |-> None]
    /\ pending_items = {}
    /\ claimed_items = [id \in Ids |-> None]
    /\ managed_spawn_ids = {}
    /\ claims = {}
    /\ rx = [r \in Requests |-> "none"]
    /\ view = {}

-----------------------------------------------------------------------------
(* Queries *)

\* snapshot(): what a client is sent when it connects, queued and claimed.
Snapshot == pending_items \cup {r \in Requests : claimed_items[IdOf[r]] = r}

\* peek(id): the pending request with this id, claimed ones excluded.
Peek(id) == {r \in pending_items : IdOf[r] = id}

\* resolve(id, _) finds a sender and the id is not a managed spawn.
CanResolve(id) == id \notin managed_spawn_ids /\ pending_senders[id] # None

\* Variant: a colliding id overwrites the entry that is there.
IsDuplicate_Never(id) == FALSE

\* enqueue_inner's duplicate test.
IsDuplicate(id) == \/ pending_senders[id] # None
                   \/ claimed_items[id] # None
                   \/ id \in managed_spawn_ids

-----------------------------------------------------------------------------
(* Methods that change the queue *)

\* tui_tx.send(DecisionResolved) for every id of S.
BroadcastResolved(S) == view' = view \ S

\* enqueue_inner: a duplicate id is refused and nothing changes (the caller
\* denies it); otherwise channel, item, provenance and NewDecision.
EnqueueInner(r, managed) ==
    /\ rx[r] = "none"
    /\ ~IsDuplicate(IdOf[r])
    /\ pending_senders' = [pending_senders EXCEPT ![IdOf[r]] = r]
    /\ pending_items' = pending_items \cup {r}
    /\ managed_spawn_ids' = IF managed THEN managed_spawn_ids \cup {IdOf[r]}
                                       ELSE managed_spawn_ids
    /\ rx' = [rx EXCEPT ![r] = "open"]
    /\ view' = view \cup {IdOf[r]}
    /\ UNCHANGED <<claimed_items, claims>>

Enqueue(r) == EnqueueInner(r, FALSE)

EnqueueManagedSpawn(r) == EnqueueInner(r, TRUE)

\* finalize_local(id, d): forget the id everywhere.  A sender still held by
\* the queue is dropped unsent; one held by a claim is not touched.  The
\* resolution is broadcast only when something was removed.
FinalizeLocal(id) ==
    LET removed == \/ pending_senders[id] # None
                   \/ claimed_items[id] # None
                   \/ Peek(id) # {}
    IN /\ pending_senders' = [pending_senders EXCEPT ![id] = None]
       /\ pending_items' = pending_items \ Peek(id)
       /\ claimed_items' = [claimed_items EXCEPT ![id] = None]
       /\ managed_spawn_ids' = managed_spawn_ids \ {id}
       /\ rx' = [r \in Requests |->
                    IF r = pending_senders[id] THEN "dropped" ELSE rx[r]]
       /\ BroadcastResolved(IF removed THEN {id} ELSE {})
       /\ UNCHANGED claims

\* Variant: the claimed request stays in the list of pending items.
Claim_KeepsItem(id) ==
    /\ Peek(id) # {}
    /\ pending_senders[id] # None
    /\ claimed_items' = [claimed_items EXCEPT ![id] = pending_senders[id]]
    /\ pending_senders' = [pending_senders EXCEPT ![id] = None]
    /\ claims' = claims \cup {pending_senders[id]}
    /\ UNCHANGED <<pending_items, managed_spawn_ids, rx, view>>

\* claim(id): item and sender leave the queue together; the request stays
\* accounted for, and visible, in claimed_items.
Claim(id) ==
    /\ Peek(id) # {}
    /\ pending_senders[id] # None
    /\ \E r \in Peek(id) :
          /\ pending_items' = pending_items \ {r}
          /\ claimed_items' = [claimed_items EXCEPT ![id] = r]
    /\ pending_senders' = [pending_senders EXCEPT ![id] = None]
    /\ claims' = claims \cup {pending_senders[id]}
    /\ UNCHANGED <<managed_spawn_ids, rx, view>>

\* complete_claim(claim, d): if the id was finalized meanwhile the claim's
\* sender is dropped with it; otherwise the decision is broadcast and sent.
CompleteClaim(r, d) ==
    LET id == IdOf[r] IN
    /\ r \in claims
    /\ claims' = claims \ {r}
    /\ \/ /\ claimed_items[id] = None
          /\ rx' = [rx EXCEPT ![r] = "dropped"]
          /\ UNCHANGED <<claimed_items, managed_spawn_ids, view>>
       \/ /\ claimed_items[id] # None
          /\ claimed_items' = [claimed_items EXCEPT ![id] = None]
          /\ managed_spawn_ids' = managed_spawn_ids \ {id}
          /\ rx' = [rx EXCEPT ![r] = d]
          /\ BroadcastResolved({id})
    /\ UNCHANGED <<pending_senders, pending_items>>

\* resolve(id, d) for every id of S that can be resolved, under one lock.
ResolveIds(S, d) ==
    LET found == {id \in S : CanResolve(id)} IN
    /\ pending_senders' = [id \in Ids |->
                              IF id \in found THEN None ELSE pending_senders[id]]
    /\ pending_items' = {r \in pending_items : IdOf[r] \notin found}
    /\ managed_spawn_ids' = managed_spawn_ids \ found
    /\ rx' = [r \in Requests |->
                 IF \E id \in found : pending_senders[id] = r THEN d ELSE rx[r]]
    /\ BroadcastResolved(found)
    /\ UNCHANGED <<claimed_items, claims>>

Resolve(id, d) == ResolveIds({id}, d)

\* The ids resolve_all(filter) collects: the pending items the filter matches
\* (F) that are not managed spawns.
BulkTargets(F) ==
    {IdOf[r] : r \in {q \in pending_items \cap F :
                          IdOf[q] \notin managed_spawn_ids}}

ResolveAll(F, d) == ResolveIds(BulkTargets(F), d)

-----------------------------------------------------------------------------
(* The queue on its own: any caller may call any method at any time. *)

QueueNext ==
    \/ \E r \in Requests : Enqueue(r) \/ EnqueueManagedSpawn(r)
    \/ \E id \in Ids : FinalizeLocal(id) \/ Claim(id)
    \/ \E r \in Requests, d \in Decisions : CompleteClaim(r, d)
    \/ \E id \in Ids, d \in Decisions : Resolve(id, d)
    \/ \E F \in SUBSET Requests, d \in Decisions : ResolveAll(F, d)

QueueSpec == QueueInit /\ [][QueueNext]_queueVars

-----------------------------------------------------------------------------
(* Properties *)

\* A request is listed exactly when the queue holds the sender that answers
\* it, so a reviewer never sees an item nobody can answer and no waiter blocks
\* on a request nobody can see (pending_senders and pending_items are separate
\* structures, updated by enqueue, finalize_local, claim and resolve).
SendersMatchItems ==
    \A id \in Ids, r \in Requests :
        pending_senders[id] = r <=> (r \in pending_items /\ IdOf[r] = id)

\* A sender that exists is in exactly one place, the queue or one claim, and
\* its channel is open: an answer is never sent on a used channel.
OneOwnerPerSender ==
    \A r \in Requests :
        /\ rx[r] = "open" <=> (r \in pending_items \/ r \in claims)
        /\ ~(r \in pending_items /\ r \in claims)

\* An id is queued or claimed, never both, and only live ids carry managed
\* provenance: the managed-spawn cap counts nothing that is gone, and no id
\* is locked out of enqueue for ever.
IdsAccountedOnce ==
    \A id \in Ids :
        /\ pending_senders[id] = None \/ claimed_items[id] = None
        /\ id \in managed_spawn_ids =>
               pending_senders[id] # None \/ claimed_items[id] # None

\* A client that applied every NewDecision and DecisionResolved event shows
\* exactly what snapshot() would send it: no method forgets its broadcast.
ViewMatchesSnapshot == view = {IdOf[r] : r \in Snapshot}

\* claimed_items files a request under the request's own id.
ClaimsFiledById ==
    \A id \in Ids : claimed_items[id] # None => IdOf[claimed_items[id]] = id

QueueInv == /\ QueueTypeOK
            /\ SendersMatchItems
            /\ OneOwnerPerSender
            /\ IdsAccountedOnce
            /\ ClaimsFiledById
            /\ ViewMatchesSnapshot

\* What each waiter reads, and what reviewers are shown, behave as the
\* abstract decision lifecycle.
Lifecycle == INSTANCE DecisionLifecycle WITH answer <- rx, board <- view

RefinesLifecycle == Lifecycle!Spec

=============================================================================
