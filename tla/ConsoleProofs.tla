---------------------------- MODULE ConsoleProofs ---------------------------
(***************************************************************************)
(* What the console sends, however the feed and the user interleave.       *)
(*                                                                         *)
(* Every action ends in Commit, so the argument is made once for Commit:   *)
(* a dialog that survives it is beside the same request as before.  What   *)
(* remains for an action is that it leaves the selection alone while the   *)
(* dialog is open (StepKeeps).                                             *)
(***************************************************************************)
EXTENDS Console, WireDaemon, WebAuth, Terminals, TLAPS, WellFoundedInduction

(* What the views show, for every content of the streams. *)

(* The inputs of deriveBoard, as the reducer holds them. *)
SessionRows == [agent : STRING, project : STRING, last : Ms, live : BOOLEAN, pending : Nat]
AgentRows == [agent : STRING, project : STRING, last : Ms]
AuditRows == [agent : STRING, project : STRING, ts : Ms, tool : STRING, kind : STRING,
              resolved : BOOLEAN, term : STRING]
QueueRows == [id : STRING, agent : STRING, project : STRING, ts : Ms, tool : STRING, term : STRING]
BoardInput(b) ==
  /\ b.sessions \in Seq(SessionRows) /\ b.agents \in Seq(AgentRows)
  /\ b.audit \in Seq(AuditRows) /\ b.queue \in Seq(QueueRows)
  /\ b.now \in Nat

LEMMA RowTimes ==
  /\ \A r \in SessionRows : r.last \in Ms
  /\ \A r \in AgentRows : r.last \in Ms
  /\ \A r \in AuditRows : r.ts \in Ms
  /\ \A r \in QueueRows : r.ts \in Ms
BY DEF SessionRows, AgentRows, AuditRows, QueueRows

LEMMA NatMin ==
  ASSUME NEW T, T \subseteq Nat, T # {}
  PROVE  \E x \in T : \A y \in T : x <= y
<1> DEFINE R == OpToRel(<, Nat)
<1>1. IsWellFoundedOn(R, Nat)
  BY NatLessThanWellFounded
<1> HIDE DEF R
<1>2. \E x \in T : \A y \in T : ~(<<y, x>> \in R)
  BY <1>1, WFMin
<1>3. \A x, y \in Nat : ~(<<y, x>> \in R) => x <= y
  BY DEF R, OpToRel
<1> QED
  BY <1>2, <1>3

LEMMA LatestIs ==
  ASSUME DateMax \in Nat, NEW S, S \subseteq Ms, S # {}
  PROVE  Latest(S) \in S /\ \A u \in S : u <= Latest(S)
<1> DEFINE T == {DateMax - t : t \in S}
<1>0. \A t \in S : t \in Nat /\ DateMax - t \in Nat
  BY DEF Ms
<1>1. T \subseteq Nat /\ T # {}
  BY <1>0
<1>2. PICK x \in T : \A y \in T : x <= y
  BY <1>1, NatMin
<1>3. PICK t \in S : x = DateMax - t
  BY <1>2
<1>4. ASSUME NEW u \in S PROVE u <= t
  <2>1. DateMax - t <= DateMax - u
    BY <1>2, <1>3
  <2> QED
    BY <1>0, <2>1
<1> QED
  BY <1>4 DEF Latest

LEMMA OldestIs ==
  ASSUME NEW rows, NEW I, I # {}, I \subseteq Nat, \A i \in I : rows[i].ts \in Nat
  PROVE  /\ Oldest(rows, I) \in I
         /\ \A j \in I : rows[Oldest(rows, I)].ts <= rows[j].ts
<1>1. PICK t \in {rows[i].ts : i \in I} : \A u \in {rows[i].ts : i \in I} : t <= u
  <2> DEFINE T == {rows[i].ts : i \in I}
  <2>1. T \subseteq Nat /\ T # {}
    OBVIOUS
  <2> QED
    BY <2>1, NatMin
<1> DEFINE J == {i \in I : rows[i].ts = t}
<1>2. J # {} /\ J \subseteq Nat
  BY <1>1
<1>3. PICK i \in J : \A j \in J : i <= j
  BY <1>2, NatMin
<1>4. \A j \in I : rows[i].ts < rows[j].ts \/ (rows[i].ts = rows[j].ts /\ i <= j)
  BY <1>1, <1>3
<1> DEFINE P(k) == \A j \in I : rows[k].ts < rows[j].ts \/ (rows[k].ts = rows[j].ts /\ k <= j)
<1>5. i \in I /\ P(i)
  BY <1>3, <1>4
<1>6. Oldest(rows, I) \in I /\ P(Oldest(rows, I))
  BY <1>5 DEF Oldest
<1>7. ASSUME NEW k \in I, P(k), NEW j \in I
      PROVE  rows[k].ts <= rows[j].ts
  BY <1>7
<1> QED
  BY <1>6, <1>7

LEMMA EventsAre ==
  ASSUME NEW b, BoardInput(b)
  PROVE  /\ \A k \in DOMAIN Events(b) : Events(b)[k].ts \in Ms
         /\ \A i \in DOMAIN b.queue : \E k \in DOMAIN Events(b) : Events(b)[k] = b.queue[i]
         /\ \A i \in DOMAIN b.audit : \E k \in DOMAIN Events(b) : Events(b)[k] = b.audit[i]
         /\ DOMAIN b.queue \subseteq Nat /\ DOMAIN b.audit \subseteq Nat
<1> DEFINE A == b.audit
           Q == b.queue
<1>1. A \in Seq(AuditRows)
  BY DEF BoardInput
<1>2. Q \in Seq(QueueRows)
  BY DEF BoardInput
<1>3. Events(b) = A \o Q
  BY DEF Events
<1> HIDE DEF A, Q
<1>4. /\ Len(A) \in Nat /\ Len(Q) \in Nat /\ DOMAIN A = 1..Len(A) /\ DOMAIN Q = 1..Len(Q)
      /\ \A i \in 1..Len(A) : A[i] \in AuditRows
      /\ \A i \in 1..Len(Q) : Q[i] \in QueueRows
  BY <1>1, <1>2
<1>5. /\ DOMAIN (A \o Q) = 1..Len(A) + Len(Q)
      /\ \A i \in 1..Len(A) : (A \o Q)[i] = A[i]
      /\ \A i \in 1..Len(Q) : (A \o Q)[Len(A) + i] = Q[i]
      /\ \A k \in 1..Len(A) + Len(Q) :
           \/ k \in 1..Len(A)
           \/ k - Len(A) \in 1..Len(Q) /\ (A \o Q)[k] = Q[k - Len(A)]
  BY <1>1, <1>2, <1>4
<1>6. \A k \in 1..Len(A) + Len(Q) : (A \o Q)[k].ts \in Ms
  BY <1>4, <1>5, RowTimes
<1>7. \A i \in 1..Len(Q) : Len(A) + i \in 1..Len(A) + Len(Q)
  BY <1>4
<1>8. \A i \in 1..Len(A) : i \in 1..Len(A) + Len(Q)
  BY <1>4
<1>9. \A k \in DOMAIN Events(b) : Events(b)[k].ts \in Ms
  BY <1>3, <1>5, <1>6
<1>10. \A i \in DOMAIN Q : \E k \in DOMAIN Events(b) : Events(b)[k] = Q[i]
  BY <1>3, <1>4, <1>5, <1>7
<1>11. \A i \in DOMAIN A : \E k \in DOMAIN Events(b) : Events(b)[k] = A[i]
  BY <1>3, <1>4, <1>5, <1>8
<1>12. DOMAIN Q \subseteq Nat /\ DOMAIN A \subseteq Nat
  BY <1>4
<1> QED
  BY <1>9, <1>10, <1>11, <1>12 DEF A, Q

(* The clock of a lane: a time of the streams, not older than any of them. *)
LEMMA ActivityIs ==
  ASSUME DateMax \in Nat, NEW b, BoardInput(b), NEW a
  PROVE  /\ LastActivityMs(b, a) \in Nat
         /\ \A t \in Sightings(b, a) : t <= LastActivityMs(b, a)
<1>1. Sightings(b, a) \subseteq Ms
  <2>1. \A i \in DOMAIN b.sessions : b.sessions[i].last \in Ms
    BY RowTimes DEF BoardInput
  <2>2. \A i \in DOMAIN b.agents : b.agents[i].last \in Ms
    BY RowTimes DEF BoardInput
  <2> QED
    BY <2>1, <2>2, EventsAre DEF Sightings, Of
<1>2. {0} \cup Sightings(b, a) \subseteq Ms
  BY <1>1 DEF Ms
<1>3. \A S : S \subseteq Ms /\ S # {} => Latest(S) \in S /\ \A u \in S : u <= Latest(S)
  BY LatestIs
<1> QED
  BY <1>2, <1>3 DEF LastActivityMs, Ms

LEMMA Blockers ==
  ASSUME DateMax \in Nat, NEW b, BoardInput(b), NEW a
  PROVE  /\ Pending(b, a) \subseteq Nat /\ \A i \in Pending(b, a) : b.queue[i].ts \in Nat
         /\ DeferredRows(b, a) \subseteq Nat /\ \A i \in DeferredRows(b, a) : b.audit[i].ts \in Nat
<1>1. \A i \in DOMAIN b.queue : b.queue[i].ts \in Ms
  BY RowTimes DEF BoardInput
<1>2. \A i \in DOMAIN b.audit : b.audit[i].ts \in Ms
  BY RowTimes DEF BoardInput
<1> QED
  BY <1>1, <1>2, EventsAre DEF Pending, DeferredRows, Of, Ms

(* The link of a waiting lane goes to a blocker of that agent, and none of  *)
(* its blockers is older.                                                   *)
LEMMA TargetIs ==
  ASSUME DateMax \in Nat, NEW b, BoardInput(b), NEW a, Waiting(b, a)
  PROVE  LET target == InboxTarget(b, a) IN
         /\ \/ /\ target.kind = "decision"
               /\ \E i \in Pending(b, a) : target.requestId = b.queue[i].id
            \/ /\ target.kind = "deferred"
               /\ \E i \in DeferredRows(b, a) : /\ target.key = DeferredKey(b.audit[i])
                                                /\ target.since = b.audit[i].ts
         /\ \A i \in Pending(b, a) : target.since <= b.queue[i].ts
         /\ \A i \in DeferredRows(b, a) : target.since <= b.audit[i].ts
<1> DEFINE p == Oldest(b.queue, Pending(b, a))
           d == Oldest(b.audit, DeferredRows(b, a))
<1>1. Pending(b, a) # {} => /\ p \in Pending(b, a) /\ b.queue[p].ts \in Nat
                            /\ \A i \in Pending(b, a) : b.queue[p].ts <= b.queue[i].ts
  BY Blockers, OldestIs
<1>2. DeferredRows(b, a) # {} => /\ d \in DeferredRows(b, a) /\ b.audit[d].ts \in Nat
                                 /\ \A i \in DeferredRows(b, a) : b.audit[d].ts <= b.audit[i].ts
  BY Blockers, OldestIs
<1> HIDE DEF p, d
<1>3. CASE DecisionFirst(b, a)
  <2>1. InboxTarget(b, a) = [kind |-> "decision", requestId |-> b.queue[p].id, since |-> b.queue[p].ts]
    BY <1>3 DEF InboxTarget, p
  <2>2. Pending(b, a) # {} /\ (DeferredRows(b, a) = {} \/ b.queue[p].ts <= b.audit[d].ts)
    BY <1>3 DEF DecisionFirst, p, d
  <2>3. \A i \in DeferredRows(b, a) : b.queue[p].ts <= b.audit[i].ts
    BY <1>1, <1>2, <2>2, Blockers
  <2> QED
    BY <1>1, <2>1, <2>2, <2>3
<1>4. CASE ~DecisionFirst(b, a)
  <2>1. InboxTarget(b, a) = [kind |-> "deferred", key |-> DeferredKey(b.audit[d]), since |-> b.audit[d].ts]
    BY <1>4 DEF InboxTarget, d
  <2>2. DeferredRows(b, a) # {} /\ (Pending(b, a) = {} \/ ~(b.queue[p].ts <= b.audit[d].ts))
    BY <1>4 DEF DecisionFirst, Waiting, p, d
  <2>3. \A i \in Pending(b, a) : b.audit[d].ts <= b.queue[i].ts
    BY <1>1, <1>2, <2>2, Blockers
  <2> QED
    BY <1>2, <2>1, <2>2, <2>3
<1> QED
  BY <1>3, <1>4

(* A request in the queue is never lost from the Board: its agent has a     *)
(* lane, waiting, however old the request and whatever else is known of the *)
(* agent, and the lane links to a blocker that is not younger.  (deriveBoard)*)
THEOREM PendingIsShown ==
  ASSUME DateMax \in Nat, NEW b, BoardInput(b), NEW i \in DOMAIN b.queue, b.queue[i].ts # 0
  PROVE  LET a == b.queue[i].agent IN
         /\ a \in Lanes(b) /\ LaneState(b, a) = "waiting"
         /\ InboxTarget(b, a).since <= b.queue[i].ts
<1> DEFINE a == b.queue[i].agent
<1>1. i \in Pending(b, a)
  BY DEF Pending, Of
<1>2. Waiting(b, a) /\ LaneState(b, a) = "waiting"
  BY <1>1 DEF Waiting, LaneState
<1>3. PICK k \in DOMAIN Events(b) : Events(b)[k] = b.queue[i]
  BY EventsAre
<1>4. a \in Known(b) /\ b.queue[i].ts \in Sightings(b, a)
  BY <1>3 DEF Known, Sightings, Of
<1>5. LastActivityMs(b, a) # 0
  <2>1. b.queue[i].ts \in Nat
    BY <1>1, Blockers
  <2>2. b.queue[i].ts <= LastActivityMs(b, a) /\ LastActivityMs(b, a) \in Nat
    BY <1>4, ActivityIs
  <2> QED
    BY <2>1, <2>2
<1>6. InboxTarget(b, a).since <= b.queue[i].ts
  BY <1>1, <1>2, TargetIs
<1> QED
  BY <1>2, <1>4, <1>5, <1>6 DEF Lanes

(* The clock alone never makes a lane quieter: between two derivations from *)
(* the same streams a lane only ages off or turns from working to stalled.  *)
(* (deriveBoard under the ticks of Board.tsx)                               *)
THEOREM ClockOnlyLoudens ==
  ASSUME DateMax \in Nat, NEW b, NEW c, BoardInput(b), BoardInput(c), c.now >= b.now,
         c.sessions = b.sessions, c.agents = b.agents, c.audit = b.audit, c.queue = b.queue,
         c.ended = b.ended, NEW a \in Lanes(c)
  PROVE  /\ a \in Lanes(b)
         /\ \/ LaneState(c, a) = LaneState(b, a)
            \/ LaneState(b, a) = "working" /\ LaneState(c, a) = "stalled"
<1>1. Events(c) = Events(b) /\ Known(c) = Known(b)
  BY DEF Events, Known
<1>2. LastActivityMs(c, a) = LastActivityMs(b, a)
  BY <1>1 DEF LastActivityMs, Sightings
<1>3. LastToolName(c, a) = LastToolName(b, a)
  BY <1>1, <1>2 DEF LastToolName, Naming
<1>4. Waiting(c, a) = Waiting(b, a)
  BY DEF Waiting, Pending, DeferredRows
<1>5. SilentForMs(b, a) <= SilentForMs(c, a) /\ SilentForMs(b, a) \in Nat /\ SilentForMs(c, a) \in Nat
  BY <1>2, ActivityIs DEF SilentForMs, BoardInput
<1>6. \/ LaneState(c, a) = LaneState(b, a)
      \/ LaneState(b, a) = "working" /\ LaneState(c, a) = "stalled"
  BY <1>3, <1>4, <1>5 DEF LaneState, STALL_THRESHOLD_MS
<1>7. LaneState(c, a) = "waiting" => LaneState(b, a) = "waiting"
  BY <1>3, <1>4 DEF LaneState
<1> QED
  BY <1>1, <1>2, <1>5, <1>6, <1>7 DEF Lanes, BOARD_WINDOW_MS

(* The link of a waiting lane lands on a row that Inbox renders: a request  *)
(* of the queue, or a deferral, as long as that is not older than the hour  *)
(* for which Inbox lists deferrals.  (inboxTarget, openInboxTarget, Inbox)  *)
THEOREM LinkLands ==
  ASSUME DateMax \in Nat, NEW b, BoardInput(b), NEW a, Waiting(b, a),
         CoarseNow(b.now) - InboxTarget(b, a).since <= HOUR_MS
  PROVE  LET target == InboxTarget(b, a) IN
         \/ target.kind = "decision" /\ \E i \in DOMAIN b.queue : target.requestId = b.queue[i].id
         \/ target.kind = "deferred" /\ \E i \in InboxDeferred(b) : target.key = DeferredKey(b.audit[i])
<1>1. CASE InboxTarget(b, a).kind = "decision" /\ \E i \in Pending(b, a) : InboxTarget(b, a).requestId = b.queue[i].id
  BY <1>1 DEF Pending, Of
<1>2. CASE /\ InboxTarget(b, a).kind = "deferred"
           /\ \E i \in DeferredRows(b, a) : /\ InboxTarget(b, a).key = DeferredKey(b.audit[i])
                                            /\ InboxTarget(b, a).since = b.audit[i].ts
  BY <1>2 DEF DeferredRows, InboxDeferred, Of
<1> QED
  BY <1>1, <1>2, TargetIs

(* Once the touches are loaded, a run that wrote a file in the window is    *)
(* never called dead.  The daemon logs an auto-approved call and a touch of *)
(* it with one time; until the poll brings the touches the alarm may be     *)
(* false.  (deriveBurn, classifyArtifact)                                   *)
THEOREM DeadRunIsFruitless ==
  ASSUME NEW b, NEW a, DeadRun(b, a),
         \A i \in DOMAIN b.audit :
           b.audit[i].kind = "auto_approved" /\ b.audit[i].tool \in FILE_ARTIFACT_TOOLS =>
             \E j \in DOMAIN b.touches : /\ b.touches[j].agent = b.audit[i].agent
                                         /\ b.touches[j].tool = b.audit[i].tool
                                         /\ b.touches[j].ts = b.audit[i].ts
  PROVE  \A call \in CountedCalls(b, a) : call[1] \notin FILE_ARTIFACT_TOOLS
<1>1. \A j \in InWindow(b.touches, a, b.now) : b.touches[j].tool \notin FILE_ARTIFACT_TOOLS
  BY DEF DeadRun, Artifacts, IsArtifact
<1>2. ASSUME NEW i \in InWindow(b.audit, a, b.now), b.audit[i].kind = "auto_approved"
      PROVE  b.audit[i].tool \notin FILE_ARTIFACT_TOOLS
  <2>1. SUFFICES ASSUME b.audit[i].tool \in FILE_ARTIFACT_TOOLS PROVE FALSE
    OBVIOUS
  <2>2. PICK j \in DOMAIN b.touches : /\ b.touches[j].agent = b.audit[i].agent
                                     /\ b.touches[j].tool = b.audit[i].tool
                                     /\ b.touches[j].ts = b.audit[i].ts
    BY <1>2, <2>1 DEF InWindow, Of
  <2>3. j \in InWindow(b.touches, a, b.now)
    BY <2>2 DEF InWindow, Of
  <2> QED
    BY <1>1, <2>1, <2>2, <2>3
<1> QED
  BY <1>1, <1>2 DEF CountedCalls

(* The suggested commit header never exceeds its 72 characters, whatever    *)
(* the names of the files and of the scope.  (generateCommitMessage)        *)
THEOREM HeaderFits ==
  ASSUME NEW changes, NEW names \in Nat, NEW joined \in Nat, NEW first \in Nat,
         NEW digits \in [Int -> 1..10], Len(changes) \in Nat,
         \A i \in DOMAIN changes : changes[i].segment # None => changes[i].segment.length \in Nat
  PROVE  HeaderLength(changes, names, joined, first, digits) <= MAX_HEADER_LENGTH
<1> DEFINE type == DeriveType(changes)
           scope == ScopeLength(changes)
<1>1. scope \in Nat /\ scope <= 24
  <2> DEFINE voted == {changes[i].segment : i \in DOMAIN changes} \ {None}
             fits == {s \in voted : Majority(changes, s) /\ s.length > 0 /\ s.length <= 24}
  <2>1. ASSUME NEW s \in fits PROVE s.length \in Nat /\ s.length <= 24
    <3>1. s \in voted /\ s.length <= 24
      OBVIOUS
    <3>2. PICK i \in DOMAIN changes : s = changes[i].segment /\ s # None
      BY <3>1
    <3> QED
      BY <3>1, <3>2
  <2>2. scope = IF fits = {} THEN 0 ELSE (CHOOSE s \in fits : TRUE).length
    BY DEF ScopeLength
  <2> HIDE DEF fits
  <2>3. fits # {} => (CHOOSE s \in fits : TRUE) \in fits
    OBVIOUS
  <2>4. CASE fits = {}
    BY <2>2, <2>4
  <2>5. CASE fits # {}
    BY <2>1, <2>2, <2>3, <2>5
  <2> QED
    BY <2>4, <2>5
<1> DEFINE t == TypeLength(type)
           v == VerbLength(type)
           n == digits[Len(changes)]
           m == digits[names - 1]
<1>2. t \in Nat /\ t <= 8 /\ v \in Nat /\ v <= 6
  BY DEF TypeLength, VerbLength
<1>3. n \in Nat /\ n <= 10 /\ m \in Nat
  OBVIOUS
<1> DEFINE prefix == PrefixLength(type, scope)
           summary == SummaryLength(type, scope, names, joined, first, digits, Len(changes))
<1>4. prefix = t + (IF scope > 0 THEN scope + 2 ELSE 0) + 2
  BY DEF PrefixLength
<1>5. \/ summary = v + 1 + joined /\ v + 1 + joined <= 72 - prefix
      \/ summary = v + 1 + first + 5 + m + 5 /\ v + 1 + first + 5 + m + 5 <= 72 - prefix
      \/ summary = v + 1 + n + 5
      \/ summary = v + 1 + n + 6
  BY DEF SummaryLength, MAX_HEADER_LENGTH
<1>6. HeaderLength(changes, names, joined, first, digits) = prefix + summary
  BY DEF HeaderLength
<1> HIDE DEF type, scope, t, v, n, m, prefix, summary
<1>7. prefix \in Nat /\ prefix <= 36
  BY <1>1, <1>2, <1>4
<1>8. prefix + summary <= 72
  BY <1>2, <1>3, <1>5, <1>7
<1> QED
  BY <1>6, <1>8 DEF MAX_HEADER_LENGTH

-----------------------------------------------------------------------------
(* What the console sends. *)

LEMMA IdsTyped ==
  ASSUME NEW q \in Seq(Items)
  PROVE  Ids(q) \subseteq AllIds
BY DEF Ids, AllIds

LEMMA DetailTyped ==
  ASSUME NEW u \in UiType, NEW q \in Seq(Items)
  PROVE  /\ Detail(u, q) \in AllIds \cup {None}
         /\ Detail(u, q) # None => Detail(u, q) \in Ids(q)
<1>1. DockRows(u, q) \subseteq Ids(q)
  BY DEF DockRows, Ids
<1> QED
  BY <1>1, IdsTyped DEF Detail

LEMMA CommitTyped ==
  ASSUME NEW v \in UiType, NEW r
  PROVE  Commit(v, r) \in UiType
<1> DEFINE st == v.view = "terminals" /\ ui.view = "terminals"
           m == IF DetailStays(ui, queue, v, r) THEN v.modal ELSE None
           e == IF v.view = "inbox" THEN v.expandedDeferred ELSE None
           p == IF v.view = "projects" THEN v.pendingInstall ELSE None
           t == IF st THEN v.term ELSE None
           d == IF st /\ v.term # None THEN v.dock ELSE None
<1>1. m \in DetailModals \cup {None} /\ e \in Keys \cup {None} /\ p \in ProjectIds \cup {None}
  BY DEF UiType
<1>2. t \in Terms \cup {None} /\ d \in AllIds \cup {None}
  BY DEF UiType
<1>3. Commit(v, r) = [v EXCEPT !.modal = m, !.expandedDeferred = e, !.pendingInstall = p, !.term = t, !.dock = d]
  BY DEF Commit
<1> HIDE DEF m, e, p, t, d, st
<1> QED
  BY <1>1, <1>2, <1>3 DEF UiType

(* The condition on the state v an action hands to Commit. *)
StepKeeps(v) ==
  v.modal # None =>
    \/ /\ v.modal = ui.modal /\ v.openedFor = ui.openedFor
       /\ v.view = ui.view /\ v.selectedId = ui.selectedId
    \/ /\ v.openedFor = Detail(ui, queue)
       /\ v.view = ui.view /\ v.selectedId = ui.selectedId

LEMMA CommitKeeps ==
  ASSUME ConsoleTypeOK, DialogKeepsRequest, NEW v \in UiType, StepKeeps(v),
         queue' \in Seq(Items), ui' = Commit(v, queue')
  PROVE  ui' \in UiType /\ DialogKeepsRequest'
<1>1. ui' \in UiType
  BY CommitTyped
<1>2. SUFFICES ASSUME ui'.modal # None
               PROVE  ui'.openedFor # None /\ ui'.openedFor = Detail(ui', queue')
  BY <1>1 DEF DialogKeepsRequest
<1>3. /\ ui'.modal = (IF DetailStays(ui, queue, v, queue') THEN v.modal ELSE None)
      /\ ui'.view = v.view /\ ui'.selectedId = v.selectedId /\ ui'.openedFor = v.openedFor
      /\ ui'.term = (IF v.view = "terminals" /\ ui.view = "terminals" THEN v.term ELSE None)
      /\ ui'.dock = (IF v.view = "terminals" /\ ui.view = "terminals" /\ v.term # None THEN v.dock ELSE None)
  BY DEF Commit, UiType
<1>4. DetailStays(ui, queue, v, queue') /\ v.modal # None
  BY <1>2, <1>3
<1>5. Detail(ui', queue') = Detail(v, queue')
  <2>1. CASE v.view = "terminals"
    <3>1. ui.view = "terminals" /\ v.dock \in DockRows(v, queue')
      BY <1>4, <2>1 DEF DetailStays, Detail
    <3>2. v.term # None
      BY <3>1 DEF DockRows
    <3>3. ui'.term = v.term /\ ui'.dock = v.dock
      BY <1>3, <2>1, <3>1, <3>2
    <3> QED
      BY <1>3, <3>3 DEF Detail, DockRows
  <2>2. CASE v.view # "terminals"
    BY <1>3, <2>2 DEF Detail
  <2> QED
    BY <2>1, <2>2
<1>6. Detail(v, queue') = Detail(ui, queue)
  <2>1. CASE v.view = "queue"
    BY <1>4, <2>1 DEF DetailStays, Detail, StepKeeps
  <2>2. CASE v.view # "queue"
    BY <1>4, <2>2 DEF DetailStays
  <2> QED
    BY <2>1, <2>2
<1>7. v.openedFor = Detail(ui, queue)
  BY <1>4 DEF StepKeeps, DialogKeepsRequest
<1> QED
  BY <1>3, <1>4, <1>5, <1>6, <1>7 DEF DetailStays

LEMMA QuietStep ==
  ASSUME ~DialogOpen(ui), NEW v, v.modal = ui.modal
  PROVE  StepKeeps(v)
BY DEF DialogOpen, StepKeeps

LEMMA ClosingStep ==
  ASSUME NEW v, v.modal = None
  PROVE  StepKeeps(v)
BY DEF StepKeeps

ConsoleInv == ConsoleTypeOK /\ DialogKeepsRequest

LEMMA RenderStep ==
  ASSUME ConsoleInv, NEW v \in UiType, StepKeeps(v), Render(v)
  PROVE  ConsoleInv'
<1>1. queue' \in Seq(Items) /\ ui' = Commit(v, queue') /\ UNCHANGED <<queue, sent>>
  BY DEF Render, ConsoleInv, ConsoleTypeOK
<1>2. ui' \in UiType /\ DialogKeepsRequest'
  BY <1>1, CommitKeeps DEF ConsoleInv
<1> QED
  BY <1>1, <1>2 DEF ConsoleInv, ConsoleTypeOK

LEMMA DecideStep ==
  ASSUME ConsoleInv, NEW v \in UiType, StepKeeps(v),
         NEW id \in AllIds, NEW verdict \in {"approve", "deny"}, NEW note \in DetailModals \cup {None},
         Decide(id, verdict, note, v)
  PROVE  ConsoleInv'
<1>1. queue' \in Seq(Items) /\ ui' = Commit(v, queue') /\ queue' = queue
  BY DEF Decide, ConsoleInv, ConsoleTypeOK
<1>2. ui' \in UiType /\ DialogKeepsRequest'
  BY <1>1, CommitKeeps DEF ConsoleInv
<1> DEFINE C == [id : AllIds, verdict : {"approve", "deny"}, note : DetailModals \cup {None}]
<1>3. [id |-> id, verdict |-> verdict, note |-> note] \in C /\ sent \in Seq(C)
  BY DEF ConsoleInv, ConsoleTypeOK
<1>4. sent' \in Seq(C)
  <2> HIDE DEF C
  <2> QED
    BY <1>3 DEF Decide
<1> QED
  BY <1>1, <1>2, <1>4 DEF ConsoleInv, ConsoleTypeOK

(* The fields an action may replace, each with a value of its type. *)
LEMMA FieldsTyped ==
  ASSUME NEW u \in UiType
  PROVE  /\ \A x \in Views : [u EXCEPT !.view = x] \in UiType
         /\ \A x \in AllIds \cup {None} : [u EXCEPT !.selectedId = x] \in UiType
         /\ \A x \in Terms \cup {None} : [u EXCEPT !.term = x] \in UiType /\ [u EXCEPT !.focusTerminalId = x] \in UiType
         /\ \A x \in AgentIds \cup {None} : [u EXCEPT !.agentDrilldown = x] \in UiType
                                           /\ [u EXCEPT !.sessionAgent = x] \in UiType
         /\ \A x \in AllIds \cup {None} : [u EXCEPT !.dock = x] \in UiType /\ [u EXCEPT !.openedFor = x] \in UiType
         /\ \A x \in Keys \cup {None} : [u EXCEPT !.expandedDeferred = x] \in UiType
         /\ \A x \in DetailModals \cup {None} : [u EXCEPT !.modal = x] \in UiType
         /\ \A x \in BOOLEAN : [u EXCEPT !.showHelp = x] \in UiType /\ [u EXCEPT !.showSpawn = x] \in UiType
                             /\ [u EXCEPT !.pendingReauth = x] \in UiType
         /\ \A x \in ProjectIds \cup {None} : [u EXCEPT !.spawnDefaultProject = x] \in UiType
                                             /\ [u EXCEPT !.pendingInstall = x] \in UiType
BY DEF UiType

LEMMA BackTyped ==
  ASSUME NEW u \in UiType
  PROVE  /\ Unselected(u) \in UiType /\ Unselected(u).modal = u.modal
         /\ AfterDecision(u) \in UiType /\ AfterDecision(u).modal = u.modal
         /\ BackBehindDialogs(u) \in UiType /\ BackBehindDialogs(u).modal = u.modal
         /\ Back(u) \in UiType /\ Back(u).modal = u.modal
         /\ Closed(u) \in UiType /\ Closed(u).modal = None
<1>1. Unselected(u) \in UiType /\ Unselected(u).modal = u.modal
  BY DEF Unselected, UiType
<1>2. AfterDecision(u) \in UiType /\ AfterDecision(u).modal = u.modal
  BY <1>1 DEF AfterDecision
<1>3. BackBehindDialogs(u) \in UiType /\ BackBehindDialogs(u).modal = u.modal
  <2>1. [u EXCEPT !.agentDrilldown = None] \in UiType /\ [u EXCEPT !.agentDrilldown = None].modal = u.modal
    BY DEF UiType
  <2>2. [u EXCEPT !.sessionAgent = None] \in UiType /\ [u EXCEPT !.sessionAgent = None].modal = u.modal
    BY DEF UiType
  <2> QED
    BY <1>1, <2>1, <2>2 DEF BackBehindDialogs
<1>4. Back(u) \in UiType /\ Back(u).modal = u.modal
  <2>1. [u EXCEPT !.showHelp = FALSE] \in UiType /\ [u EXCEPT !.showHelp = FALSE].modal = u.modal
    <3>1. [u EXCEPT !.showHelp = FALSE] \in UiType
      BY FieldsTyped
    <3>2. [u EXCEPT !.showHelp = FALSE].modal = u.modal
      BY DEF UiType
    <3> QED
      BY <3>1, <3>2
  <2>2. /\ [u EXCEPT !.showSpawn = FALSE, !.spawnDefaultProject = None] \in UiType
        /\ [u EXCEPT !.showSpawn = FALSE, !.spawnDefaultProject = None].modal = u.modal
    <3> DEFINE w == [u EXCEPT !.showSpawn = FALSE]
    <3>1. w \in UiType
      BY FieldsTyped
    <3>a. w.modal = u.modal
      BY DEF UiType
    <3>2. [w EXCEPT !.spawnDefaultProject = None] \in UiType /\ [w EXCEPT !.spawnDefaultProject = None].modal = w.modal
      <4> HIDE DEF w
      <4> QED
        BY <3>1 DEF UiType
    <3> QED
      BY <3>a, <3>2
  <2> QED
    BY <1>3, <2>1, <2>2 DEF Back
<1>5. Closed(u) \in UiType /\ Closed(u).modal = None
  <2> DEFINE w1 == [u EXCEPT !.showHelp = FALSE]
             w2 == [w1 EXCEPT !.showSpawn = FALSE]
             w3 == [w2 EXCEPT !.spawnDefaultProject = None]
             w4 == [w3 EXCEPT !.pendingReauth = FALSE]
             w5 == [w4 EXCEPT !.modal = None]
  <2>0. Closed(u) = [w5 EXCEPT !.pendingInstall = None]
    BY DEF Closed
  <2> HIDE DEF w5
  <2>1. w5 \in UiType /\ w5.modal = None
    <3> HIDE DEF w4
    <3>1. w4 \in UiType
      <4> HIDE DEF w3
      <4>1. w3 \in UiType
        <5> HIDE DEF w2
        <5>1. w2 \in UiType
          <6> HIDE DEF w1
          <6>1. w1 \in UiType
            BY FieldsTyped DEF w1
          <6> QED
            BY <6>1, FieldsTyped DEF w2
        <5> QED
          BY <5>1, FieldsTyped DEF w3
      <4> QED
        BY <4>1, FieldsTyped DEF w4
    <3> QED
      BY <3>1 DEF UiType, w5
  <2> QED
    BY <2>0, <2>1 DEF UiType
<1> QED
  BY <1>1, <1>2, <1>3, <1>4, <1>5

LEMMA FeedStep ==
  ASSUME ConsoleInv, FeedChanges \/ ReauthAsked \/ FocusArrives
  PROVE  ConsoleInv'
<1> USE DEF ConsoleInv
<1>1. CASE FeedChanges
  <2>1. ui \in UiType /\ StepKeeps(ui)
    BY DEF ConsoleTypeOK, StepKeeps
  <2>2. ui' \in UiType /\ DialogKeepsRequest'
    BY <1>1, <2>1, CommitKeeps DEF FeedChanges
  <2> QED
    BY <1>1, <2>2 DEF FeedChanges, ConsoleTypeOK
<1>2. CASE ReauthAsked
  <2> DEFINE v == [ui EXCEPT !.pendingReauth = TRUE]
  <2>1. v \in UiType
    BY FieldsTyped DEF ConsoleTypeOK
  <2>2. StepKeeps(v)
    BY DEF ConsoleTypeOK, UiType, StepKeeps
  <2> QED
    BY <1>2, <2>1, <2>2, RenderStep DEF ReauthAsked
<1>3. CASE FocusArrives
  <2> DEFINE v1 == [ui EXCEPT !.term = ui.focusTerminalId]
             v2 == [v1 EXCEPT !.focusTerminalId = None]
             v3 == [ui EXCEPT !.focusTerminalId = None]
  <2>0. ui \in UiType /\ ui.focusTerminalId \in Terms \cup {None}
    BY DEF ConsoleTypeOK, UiType
  <2>1. v1 \in UiType /\ v3 \in UiType
    BY <2>0, FieldsTyped
  <2>2. v2 \in UiType
    <3> HIDE DEF v1
    <3> QED
      BY <2>1, FieldsTyped
  <2>3. StepKeeps(v2) /\ StepKeeps(v3)
    BY <2>0 DEF UiType, StepKeeps
  <2> QED
    BY <1>3, <2>1, <2>2, <2>3, RenderStep DEF FocusArrives
<1> QED
  BY <1>1, <1>2, <1>3

(* A click or a key with no dialog open that only moves around. *)
LEMMA MoveStep ==
  ASSUME ConsoleInv, ~DialogOpen(ui), NEW v \in UiType, v.modal = ui.modal, Render(v)
  PROVE  ConsoleInv'
BY QuietStep, RenderStep

LEMMA OfferedTyped ==
  ASSUME ConsoleInv
  PROVE  /\ Offered(ui, queue) \subseteq Ids(queue)
         /\ DockRows(ui, queue) \subseteq Ids(queue)
         /\ Ids(queue) \subseteq AllIds
         /\ Detail(ui, queue) # None => Detail(ui, queue) \in AllIds
<1>1. Ids(queue) \subseteq AllIds
  BY IdsTyped DEF ConsoleInv, ConsoleTypeOK
<1>2. DockRows(ui, queue) \subseteq Ids(queue)
  BY DEF DockRows, Ids
<1>3. Offered(ui, queue) \subseteq Ids(queue)
  BY <1>2 DEF Offered, Ids
<1> QED
  BY <1>1, <1>2, <1>3, DetailTyped DEF ConsoleInv, ConsoleTypeOK

LEMMA ClickStep ==
  ASSUME ConsoleInv, Click
  PROVE  ConsoleInv'
<1>0. ui \in UiType /\ queue \in Seq(Items)
  BY DEF ConsoleInv, ConsoleTypeOK
<1>a. /\ Offered(ui, queue) \subseteq AllIds /\ DockRows(ui, queue) \subseteq AllIds /\ Ids(queue) \subseteq AllIds
      /\ Detail(ui, queue) # None => Detail(ui, queue) \in AllIds
  BY OfferedTyped
<1>b. AfterDecision(ui) \in UiType /\ (~DialogOpen(ui) => StepKeeps(AfterDecision(ui)))
  BY <1>0, BackTyped, QuietStep
<1>1. ASSUME NEW view \in Views, SwitchView(view) PROVE ConsoleInv'
  <2> DEFINE v == [ui EXCEPT !.view = view]
  <2>1. v \in UiType
    BY <1>0, FieldsTyped
  <2>2. v.modal = ui.modal
    BY <1>0 DEF UiType
  <2> QED
    BY <1>1, <2>1, <2>2, MoveStep DEF SwitchView
<1>2. CASE SelectRow
  <2>1. PICK id \in Ids(queue) : Render([ui EXCEPT !.selectedId = id])
    BY <1>2 DEF SelectRow
  <2> DEFINE v == [ui EXCEPT !.selectedId = id]
  <2>2. v \in UiType
    BY <1>0, <1>a, FieldsTyped
  <2>3. v.modal = ui.modal
    BY <1>0 DEF UiType
  <2> QED
    BY <1>2, <2>1, <2>2, <2>3, MoveStep DEF SelectRow
<1>3. CASE RowDecision
  <2>1. PICK id \in Offered(ui, queue), verdict \in {"approve", "deny"} : Decide(id, verdict, None, AfterDecision(ui))
    BY <1>3 DEF RowDecision
  <2> QED
    BY <1>3, <1>a, <1>b, <2>1, DecideStep DEF RowDecision
<1>4. CASE ToggleDockRow
  <2>1. PICK id \in DockRows(ui, queue) : Render([ui EXCEPT !.dock = IF Detail(ui, queue) = id THEN None ELSE id])
    BY <1>4 DEF ToggleDockRow
  <2> DEFINE d == IF Detail(ui, queue) = id THEN None ELSE id
             v == [ui EXCEPT !.dock = d]
  <2>2. d \in AllIds \cup {None}
    BY <1>a
  <2>3. v \in UiType /\ v.modal = ui.modal
    <3> HIDE DEF d
    <3>1. v \in UiType
      BY <1>0, <2>2, FieldsTyped
    <3>2. v.modal = ui.modal
      BY <1>0 DEF UiType
    <3> QED
      BY <3>1, <3>2
  <2> QED
    BY <1>4, <2>1, <2>3, MoveStep DEF ToggleDockRow
<1>5. CASE SelectTerminal
  <2>1. PICK t \in Terms \cup {None} : Render([ui EXCEPT !.term = t])
    BY <1>5 DEF SelectTerminal
  <2> DEFINE v == [ui EXCEPT !.term = t]
  <2>2. v \in UiType
    BY <1>0, FieldsTyped
  <2>3. v.modal = ui.modal
    BY <1>0 DEF UiType
  <2> QED
    BY <1>5, <2>1, <2>2, <2>3, MoveStep DEF SelectTerminal
<1>6. CASE DetailDecision
  <2>1. PICK verdict \in {"approve", "deny"} : Decide(Detail(ui, queue), verdict, None, AfterDecision(ui))
    BY <1>6 DEF DetailDecision
  <2>2. ~DialogOpen(ui) /\ Detail(ui, queue) \in AllIds
    BY <1>6, <1>a DEF DetailDecision
  <2> QED
    BY <1>b, <2>1, <2>2, DecideStep
<1>7. CASE OpenModal
  <2>1. PICK kind \in DetailModals : Render([ui EXCEPT !.modal = kind, !.openedFor = Detail(ui, queue)])
    BY <1>7 DEF OpenModal, ModalsFor, DetailModals
  <2> DEFINE w == [ui EXCEPT !.modal = kind]
             v == [w EXCEPT !.openedFor = Detail(ui, queue)]
  <2>2. w \in UiType
    BY <1>0, FieldsTyped
  <2>3. v \in UiType
    <3> HIDE DEF w
    <3> QED
      BY <1>a, <1>7, <2>2, FieldsTyped DEF OpenModal
  <2>4. StepKeeps(v)
    BY <1>0 DEF UiType, StepKeeps
  <2> QED
    BY <2>1, <2>3, <2>4, RenderStep
<1>8. CASE SubmitModal
  <2> DEFINE w == AfterDecision(ui)
             v == [w EXCEPT !.modal = None]
             verdict == IF ui.modal = "deny-msg" THEN "deny" ELSE "approve"
  <2>1. Decide(Detail(ui, queue), verdict, ui.modal, v)
    BY <1>8 DEF SubmitModal
  <2>2. Detail(ui, queue) \in AllIds
    BY <1>8, <1>a DEF SubmitModal, ConsoleInv, DialogKeepsRequest
  <2>3. ui.modal \in DetailModals \cup {None} /\ verdict \in {"approve", "deny"}
    BY <1>0 DEF UiType
  <2>4. v \in UiType /\ v.modal = None
    <3> HIDE DEF w
    <3>1. w \in UiType
      BY <1>b DEF w
    <3> QED
      BY <3>1 DEF UiType
  <2> HIDE DEF v, verdict
  <2> QED
    BY <2>1, <2>2, <2>3, <2>4, ClosingStep, DecideStep
<1>9. CASE CloseDialog
  <2> DEFINE a == [ui EXCEPT !.showHelp = FALSE]
             w == [ui EXCEPT !.showSpawn = FALSE]
             b == [w EXCEPT !.spawnDefaultProject = None]
             c == [ui EXCEPT !.pendingReauth = FALSE]
             d == [ui EXCEPT !.modal = None]
             e == [ui EXCEPT !.pendingInstall = None]
  <2>1. a \in UiType /\ c \in UiType /\ d \in UiType /\ e \in UiType /\ w \in UiType
    BY <1>0, FieldsTyped
  <2>2. b \in UiType
    <3> HIDE DEF w
    <3> QED
      BY <2>1, FieldsTyped
  <2>3. StepKeeps(a) /\ StepKeeps(b) /\ StepKeeps(c) /\ StepKeeps(d) /\ StepKeeps(e)
    BY <1>0 DEF UiType, StepKeeps
  <2>4. Render(a) \/ Render(b) \/ Render(c) \/ Render(d) \/ Render(e)
    BY <1>9 DEF CloseDialog
  <2> HIDE DEF a, b, c, d, e
  <2> QED
    BY <2>1, <2>2, <2>3, <2>4, RenderStep
<1>10. CASE BoardLink
  <2> DEFINE w(id) == [ui EXCEPT !.selectedId = id]
             v(id) == [w(id) EXCEPT !.view = "inbox"]
             x(key) == [w(None) EXCEPT !.expandedDeferred = key]
             y(key) == [x(key) EXCEPT !.view = "inbox"]
  <2>1. \A id \in AllIds \cup {None} : w(id) \in UiType /\ w(id).modal = ui.modal
    <3>1. \A id \in AllIds \cup {None} : w(id) \in UiType
      BY <1>0, FieldsTyped
    <3>2. \A id \in AllIds \cup {None} : w(id).modal = ui.modal
      BY <1>0 DEF UiType
    <3> QED
      BY <3>1, <3>2
  <2>2. ASSUME NEW u \in UiType PROVE [u EXCEPT !.view = "inbox"] \in UiType /\ [u EXCEPT !.view = "inbox"].modal = u.modal
    BY DEF UiType, Views
  <2>3. \A u \in UiType, key \in Keys : [u EXCEPT !.expandedDeferred = key] \in UiType
                                      /\ [u EXCEPT !.expandedDeferred = key].modal = u.modal
    BY DEF UiType
  <2>4. \/ \E id \in AllIds : Render(v(id))
        \/ \E key \in Keys : Render(y(key))
    BY <1>10, <1>a DEF BoardLink, OpenInboxRequest, OpenInboxDeferred
  <2>5. \A id \in AllIds : v(id) \in UiType /\ v(id).modal = ui.modal
    <3> HIDE DEF w
    <3> QED
      BY <2>1, <2>2
  <2>6. \A key \in Keys : y(key) \in UiType /\ y(key).modal = ui.modal
    <3> HIDE DEF w
    <3> QED
      BY <2>1, <2>2, <2>3
  <2> HIDE DEF v, y
  <2> QED
    BY <1>10, <2>4, <2>5, <2>6, MoveStep DEF BoardLink
<1>11. CASE ToggleDeferred
  <2>1. PICK key \in Keys :
          Render([ui EXCEPT !.expandedDeferred = IF ui.expandedDeferred = key THEN None ELSE key])
    BY <1>11 DEF ToggleDeferred
  <2> DEFINE k == IF ui.expandedDeferred = key THEN None ELSE key
             v == [ui EXCEPT !.expandedDeferred = k]
  <2>2. k \in Keys \cup {None}
    OBVIOUS
  <2>3. v \in UiType /\ v.modal = ui.modal
    <3> HIDE DEF k
    <3>1. v \in UiType
      BY <1>0, <2>2, FieldsTyped
    <3>2. v.modal = ui.modal
      BY <1>0 DEF UiType
    <3> QED
      BY <3>1, <3>2
  <2> QED
    BY <1>11, <2>1, <2>3, MoveStep DEF ToggleDeferred
<1>12. CASE FocusTerminal
  <2>1. PICK t \in Terms : Render([ui EXCEPT !.focusTerminalId = t, !.view = "terminals"])
    BY <1>12 DEF FocusTerminal
  <2> DEFINE w == [ui EXCEPT !.focusTerminalId = t]
             v == [w EXCEPT !.view = "terminals"]
  <2>2. w \in UiType
    BY <1>0, FieldsTyped
  <2>3. v \in UiType
    <3> HIDE DEF w
    <3> QED
      BY <2>2, FieldsTyped DEF Views
  <2>4. v.modal = ui.modal
    BY <1>0 DEF UiType
  <2> QED
    BY <1>12, <2>1, <2>3, <2>4, MoveStep DEF FocusTerminal
<1>13. CASE SelectAgent \/ LeaveAgent \/ SelectSession
  <2>1. PICK a \in AgentIds \cup {None} :
          Render([ui EXCEPT !.agentDrilldown = a]) \/ Render([ui EXCEPT !.sessionAgent = a])
    BY <1>13 DEF SelectAgent, LeaveAgent, SelectSession
  <2> DEFINE v == [ui EXCEPT !.agentDrilldown = a]
             w == [ui EXCEPT !.sessionAgent = a]
  <2>2. v \in UiType /\ w \in UiType
    BY <1>0, FieldsTyped
  <2>3. v.modal = ui.modal /\ w.modal = ui.modal
    BY <1>0 DEF UiType
  <2> QED
    BY <1>13, <2>1, <2>2, <2>3, MoveStep DEF SelectAgent, LeaveAgent, SelectSession
<1>14. CASE ProjectLinks
  <2>1. PICK p \in ProjectIds : \/ Render([ui EXCEPT !.view = "history"])
                                \/ Render([ui EXCEPT !.spawnDefaultProject = p, !.showSpawn = TRUE])
                                \/ Render([ui EXCEPT !.pendingInstall = p])
    BY <1>14 DEF ProjectLinks
  <2> DEFINE a == [ui EXCEPT !.view = "history"]
             w == [ui EXCEPT !.spawnDefaultProject = p]
             b == [w EXCEPT !.showSpawn = TRUE]
             c == [ui EXCEPT !.pendingInstall = p]
  <2>2. a \in UiType /\ w \in UiType /\ c \in UiType
    BY <1>0, FieldsTyped DEF Views
  <2>3. b \in UiType
    <3> HIDE DEF w
    <3> QED
      BY <2>2, FieldsTyped
  <2>4. a.modal = ui.modal /\ b.modal = ui.modal /\ c.modal = ui.modal
    BY <1>0 DEF UiType
  <2>5. ~DialogOpen(ui) /\ (Render(a) \/ Render(b) \/ Render(c))
    BY <1>14, <2>1 DEF ProjectLinks
  <2> HIDE DEF a, b, c
  <2> QED
    BY <2>2, <2>3, <2>4, <2>5, MoveStep
<1>15. CASE OpenSpawn
  <2> DEFINE v == [ui EXCEPT !.showSpawn = TRUE]
  <2>1. v \in UiType
    BY <1>0, FieldsTyped
  <2>2. v.modal = ui.modal
    BY <1>0 DEF UiType
  <2> QED
    BY <1>15, <2>1, <2>2, MoveStep DEF OpenSpawn
<1> QED
  BY <1>1, <1>2, <1>3, <1>4, <1>5, <1>6, <1>7, <1>8, <1>9, <1>10, <1>11, <1>12, <1>13, <1>14, <1>15 DEF Click

LEMMA KeyStep ==
  ASSUME ConsoleInv, Key
  PROVE  ConsoleInv'
<1>0. ui \in UiType /\ queue \in Seq(Items)
  BY DEF ConsoleInv, ConsoleTypeOK
<1>1. ASSUME NEW i \in DOMAIN queue, ~DialogOpen(ui), MoveTo(i) PROVE ConsoleInv'
  <2> DEFINE v == [ui EXCEPT !.selectedId = queue[i].id]
  <2>1. queue[i].id \in AllIds
    BY <1>0 DEF AllIds
  <2>2. v \in UiType
    BY <1>0, <2>1, FieldsTyped
  <2>3. v.modal = ui.modal
    BY <1>0 DEF UiType
  <2> QED
    BY <1>1, <2>2, <2>3, MoveStep DEF MoveTo
<1>2. CASE KeyNext \/ KeyPrev \/ KeyEnter
  <2>1. ~DialogOpen(ui) /\ \E i \in DOMAIN queue : MoveTo(i)
    BY <1>2 DEF KeyNext, KeyPrev, KeyEnter, KeysActive
  <2> QED
    BY <1>1, <2>1
<1>3. CASE KeyDecides
  <2>1. PICK verdict \in {"approve", "deny"} : Decide(ui.selectedId, verdict, None, Unselected(ui))
    BY <1>3 DEF KeyDecides
  <2>2. ui.selectedId \in AllIds /\ ~DialogOpen(ui)
    BY <1>0, <1>3 DEF UiType, KeyDecides, KeysActive
  <2>3. Unselected(ui) \in UiType /\ StepKeeps(Unselected(ui))
    BY <1>0, <2>2, BackTyped, QuietStep
  <2> QED
    BY <2>1, <2>2, <2>3, DecideStep
<1>4. CASE KeyEscape
  <2>1. CASE ~DialogOpen(ui)
    BY <1>0, <1>4, <2>1, BackTyped, MoveStep DEF KeyEscape
  <2>2. CASE DialogOpen(ui)
    <3>1. Closed(ui) \in UiType /\ Closed(ui).modal = None
      BY <1>0, BackTyped
    <3>2. BackBehindDialogs(Closed(ui)) \in UiType /\ BackBehindDialogs(Closed(ui)).modal = None
      BY <3>1, BackTyped
    <3> QED
      BY <1>4, <2>2, <3>1, <3>2, ClosingStep, RenderStep DEF KeyEscape
  <2> QED
    BY <2>1, <2>2
<1>5. CASE KeyHelp
  <2> DEFINE v == [ui EXCEPT !.showHelp = TRUE]
  <2>1. v \in UiType
    BY <1>0, FieldsTyped
  <2>2. v.modal = ui.modal
    BY <1>0 DEF UiType
  <2> QED
    BY <1>5, <2>1, <2>2, MoveStep DEF KeyHelp
<1> QED
  BY <1>2, <1>3, <1>4, <1>5 DEF Key

(* However requests come and go, whatever the user clicks or types and      *)
(* whenever the daemon asks for the password: the dialog of a DetailView    *)
(* stands beside the request it was opened for, or it is gone.  The Queue   *)
(* reuses one DetailView for every selection (Queue.tsx has no key), so     *)
(* this rests on the guards of useKeyboard and of the dialogs.              *)
THEOREM ConsoleSound == ConsoleSpec => [](ConsoleTypeOK /\ DialogKeepsRequest)
<1>1. ConsoleInit => ConsoleInv
  <2> SUFFICES ASSUME ConsoleInit PROVE ConsoleInv
    OBVIOUS
  <2>1. ui \in UiType
    BY DEF ConsoleInit, UiType, Views
  <2>2. queue \in Seq(Items)
    BY DEF ConsoleInit
  <2>3. sent \in Seq([id : AllIds, verdict : {"approve", "deny"}, note : DetailModals \cup {None}])
    BY DEF ConsoleInit
  <2> QED
    BY <2>1, <2>2, <2>3 DEF ConsoleInit, ConsoleInv, ConsoleTypeOK, DialogKeepsRequest
<1>2. ConsoleInv /\ [ConsoleNext]_consoleVars => ConsoleInv'
  <2> SUFFICES ASSUME ConsoleInv, [ConsoleNext]_consoleVars PROVE ConsoleInv'
    OBVIOUS
  <2>1. CASE UNCHANGED consoleVars
    BY <2>1 DEF consoleVars, ConsoleInv, ConsoleTypeOK, DialogKeepsRequest, Detail, DockRows, Ids
  <2>2. CASE ConsoleNext
    BY <2>2, FeedStep, ClickStep, KeyStep DEF ConsoleNext
  <2> QED
    BY <2>1, <2>2
<1> QED
  BY <1>1, <1>2, PTL DEF ConsoleSpec, ConsoleInv

LEMMA LastSent ==
  ASSUME ConsoleInv, NEW id, NEW verdict, NEW note, NEW v, Decide(id, verdict, note, v)
  PROVE  sent'[Len(sent')].id = id /\ sent'[Len(sent')].note = note
<1> DEFINE c == [id |-> id, verdict |-> verdict, note |-> note]
           C == [id : AllIds, verdict : {"approve", "deny"}, note : DetailModals \cup {None}]
<1>1. sent' = Append(sent, c) /\ sent \in Seq(C)
  BY DEF Decide, ConsoleInv, ConsoleTypeOK
<1>2. sent'[Len(sent')] = c
  <2> HIDE DEF c, C
  <2> QED
    BY <1>1
<1> QED
  BY <1>2

LEMMA QuietSends ==
  ASSUME ConsoleInv, NEW id \in AllIds, NEW verdict, NEW v, Decide(id, verdict, None, v), ~DialogOpen(ui),
         \/ id \in Offered(ui, queue)
         \/ id = ui.selectedId /\ ui.view \in {"inbox", "queue"} /\ id \notin Ids(queue)
  PROVE  DecisionsAreMeant
BY LastSent DEF DecisionsAreMeant

LEMMA StepSends ==
  ASSUME ConsoleInv, [ConsoleNext]_consoleVars
  PROVE  DecisionsAreMeant
<1>0. ui \in UiType /\ queue \in Seq(Items)
  BY DEF ConsoleInv, ConsoleTypeOK
<1>a. /\ Offered(ui, queue) \subseteq AllIds
      /\ Detail(ui, queue) # None => Detail(ui, queue) \in AllIds /\ Detail(ui, queue) \in Ids(queue)
  BY <1>0, OfferedTyped, DetailTyped
<1>1. CASE RowDecision
  <2>1. PICK id \in Offered(ui, queue), verdict \in {"approve", "deny"} : Decide(id, verdict, None, AfterDecision(ui))
    BY <1>1 DEF RowDecision
  <2> QED
    BY <1>1, <1>a, <2>1, QuietSends DEF RowDecision
<1>2. CASE DetailDecision
  <2>1. PICK verdict \in {"approve", "deny"} : Decide(Detail(ui, queue), verdict, None, AfterDecision(ui))
    BY <1>2 DEF DetailDecision
  <2>2. ~DialogOpen(ui) /\ Detail(ui, queue) # None
    BY <1>2 DEF DetailDecision
  <2>3. Detail(ui, queue) \in Offered(ui, queue)
    BY <2>2 DEF Detail, Offered
  <2> QED
    BY <1>a, <2>1, <2>2, <2>3, QuietSends
<1>3. CASE SubmitModal
  <2>1. PICK verdict, v : Decide(Detail(ui, queue), verdict, ui.modal, v)
    BY <1>3 DEF SubmitModal
  <2>2. ui.modal # None /\ ui.openedFor = Detail(ui, queue) /\ Detail(ui, queue) # None
    BY <1>3 DEF SubmitModal, ConsoleInv, DialogKeepsRequest
  <2> QED
    BY <1>a, <2>1, <2>2, LastSent DEF DecisionsAreMeant
<1>4. CASE KeyDecides
  <2>1. PICK verdict \in {"approve", "deny"} : Decide(ui.selectedId, verdict, None, Unselected(ui))
    BY <1>4 DEF KeyDecides
  <2>2. ~DialogOpen(ui) /\ ui.view \in {"inbox", "queue"} /\ ui.selectedId \in AllIds
    BY <1>0, <1>4 DEF KeyDecides, KeysActive, UiType
  <2>3. Offered(ui, queue) = Ids(queue)
    BY <2>2 DEF Offered
  <2> QED
    BY <2>1, <2>2, <2>3, QuietSends
<1>5. ASSUME sent' = sent PROVE DecisionsAreMeant
  BY <1>5 DEF DecisionsAreMeant
<1>6. ASSUME NEW v, Render(v) PROVE sent' = sent
  BY <1>6 DEF Render
<1>7. CASE FeedChanges \/ UNCHANGED consoleVars
  BY <1>5, <1>7 DEF FeedChanges, consoleVars
<1>8. CASE ReauthAsked \/ FocusArrives \/ KeyNext \/ KeyPrev \/ KeyEnter \/ KeyEscape \/ KeyHelp
  BY <1>5, <1>6, <1>8 DEF ReauthAsked, FocusArrives, KeyNext, KeyPrev, KeyEnter, KeyEscape, KeyHelp, MoveTo
<1>9. CASE \/ \E view \in Views : SwitchView(view)
           \/ SelectRow \/ ToggleDockRow \/ SelectTerminal \/ OpenModal
  BY <1>5, <1>6, <1>9 DEF SwitchView, SelectRow, ToggleDockRow, SelectTerminal, OpenModal
<1>10. CASE CloseDialog \/ BoardLink \/ ToggleDeferred
  BY <1>5, <1>6, <1>10 DEF CloseDialog, BoardLink, OpenInboxRequest, OpenInboxDeferred, ToggleDeferred
<1>11. CASE FocusTerminal \/ SelectAgent \/ LeaveAgent \/ SelectSession \/ ProjectLinks \/ OpenSpawn
  BY <1>5, <1>6, <1>11 DEF FocusTerminal, SelectAgent, LeaveAgent, SelectSession, ProjectLinks, OpenSpawn
<1> QED
  BY <1>1, <1>2, <1>3, <1>4, <1>7, <1>8, <1>9, <1>10, <1>11 DEF ConsoleNext, Click, Key

(* Every decision the console hands to approve() or deny() is one the user  *)
(* had in front of him at that moment; no key or button decides behind an   *)
(* open dialog, and a dialog's message goes with the request it was opened  *)
(* for (useKeyboard's enabled guard, DetailView's dialogs, Inbox and Queue).*)
THEOREM DecisionsMeant == ConsoleSpec => [][DecisionsAreMeant]_consoleVars
<1>1. ConsoleInv /\ [ConsoleNext]_consoleVars => DecisionsAreMeant
  BY StepSends
<1>2. ConsoleSpec => []ConsoleInv
  BY ConsoleSound, PTL DEF ConsoleInv
<1> QED
  BY <1>1, <1>2, PTL DEF ConsoleSpec

-----------------------------------------------------------------------------
(* The wire: the browser reads whatever the daemon writes.  For each Rust    *)
(* type, the reader of protocol.ts that is used for it does not throw.       *)

LEMMA Times ==
  ASSUME NEW v, UtcTime(v)
  PROVE  ReadRfc3339(v)
<1>1. v.day <= DaysInMonth(v.year, v.month)
  BY DEF UtcTime, LeapYear, DaysInMonth
<1> QED
  BY <1>1 DEF UtcTime, ReadRfc3339, ReadString

LEMMA Numbers ==
  ASSUME NEW v
  PROVE  /\ U16(v) => ReadU16(v)
         /\ U32(v) => ReadU32(v)
         /\ I32(v) => ReadI32(v)
         /\ U64(v) => ReadU64Safe(v)
         /\ I64(v) => ReadI64Safe(v)
<1>1. ASSUME NEW low \in Int, NEW high \in Int, Number(v, low, high),
             -MAX_SAFE_INTEGER <= low, high <= MAX_SAFE_INTEGER
      PROVE  ReadBoundedInteger(v, low, high)
  <2>1. v.value \in Int /\ low <= v.value /\ v.value <= high
    BY <1>1 DEF Number
  <2>2. -MAX_SAFE_INTEGER <= v.value /\ v.value <= MAX_SAFE_INTEGER
    BY <1>1, <2>1 DEF MAX_SAFE_INTEGER
  <2> QED
    BY <1>1, <2>1, <2>2 DEF Number, ReadBoundedInteger
<1>2. U16(v) => ReadU16(v)
  BY <1>1 DEF U16, ReadU16, MAX_SAFE_INTEGER
<1>3. U32(v) => ReadU32(v)
  BY <1>1 DEF U32, ReadU32, MAX_SAFE_INTEGER
<1>4. I32(v) => ReadI32(v)
  BY <1>1 DEF I32, ReadI32, MAX_SAFE_INTEGER
<1>5. U64(v) => ReadU64Safe(v)
  BY <1>1 DEF U64, ReadU64Safe, MAX_SAFE_INTEGER
<1>6. I64(v) => ReadI64Safe(v)
  BY <1>1 DEF I64, ReadI64Safe, MAX_SAFE_INTEGER
<1> QED
  BY <1>2, <1>3, <1>4, <1>5, <1>6

LEMMA Words ==
  ASSUME NEW v
  PROVE  /\ Str(v) => ReadString(v)
         /\ Bool(v) => ReadBoolean(v)
         /\ Uuid(v) => ReadUuid(v)
         /\ Value(v) => ReadJsonValue(v)
         /\ AgentType(v) => ReadAgentType(v)
         /\ AgentTypeLabel(v) => ReadAgentTypeLabel(v)
         /\ HookEventType(v) => ReadHookEventType(v)
         /\ Decision(v) => ReadDecision(v)
         /\ AuditDecisionKind(v) => ReadAuditDecisionKind(v)
         /\ TerminalStatus(v) => ReadTerminalStatus(v)
         /\ TerminalDirection(v) => ReadTerminalDirection(v)
         /\ DiskAlertKind(v) => ReadDiskAlertKind(v)
         /\ ConfigAlertKind(v) => ReadConfigAlertKind(v)
  BY DEF Str, Bool, Uuid, Value, Word, AgentType, AgentTypeLabel, HookEventType, Decision,
         AuditDecisionKind, TerminalStatus, TerminalDirection, DiskAlertKind, ConfigAlertKind,
         ReadString, ReadBoolean, ReadUuid, ReadJsonValue, ReadOneOf, ReadAgentType, ReadAgentTypeLabel,
         ReadHookEventType, ReadDecision, ReadAuditDecisionKind, ReadTerminalStatus,
         ReadTerminalDirection, ReadDiskAlertKind, ReadConfigAlertKind

(***************************************************************************)
(* Structures.                                                             *)
(***************************************************************************)

LEMMA PermissionRuleRead ==
  ASSUME NEW o, PermissionRule(o)
  PROVE  ParsePermissionRule(o)
  BY Words, Numbers, Times
     DEF PermissionRule, ParsePermissionRule, Skipped, Nullable, Vec, OptionalField, OptionalJsonField, ArrayOf, ReadObject

LEMMA PermissionSuggestionRead ==
  ASSUME NEW o, PermissionSuggestion(o)
  PROVE  ParsePermissionSuggestion(o)
  BY PermissionRuleRead, Words, Numbers, Times
     DEF PermissionSuggestion, ParsePermissionSuggestion, Skipped, Nullable, Vec, OptionalField, OptionalJsonField, ArrayOf, ReadObject

LEMMA DecisionRequestRead ==
  ASSUME NEW o, DecisionRequest(o)
  PROVE  ParseDecisionRequest(o)
  BY PermissionSuggestionRead, Words, Numbers, Times
     DEF DecisionRequest, ParseDecisionRequest, Skipped, Nullable, Vec, OptionalField, OptionalJsonField, ArrayOf, ReadObject

LEMMA HistoryEntryRead ==
  ASSUME NEW o, HistoryEntry(o)
  PROVE  ParseHistoryEntry(o)
  BY Words, Numbers, Times
     DEF HistoryEntry, ParseHistoryEntry, Skipped, Nullable, Vec, OptionalField, OptionalJsonField, ArrayOf, ReadObject

LEMMA AuditDecisionRead ==
  ASSUME NEW o, AuditDecision(o)
  PROVE  ParseAuditDecision(o)
  BY Words, Numbers, Times
     DEF AuditDecision, ParseAuditDecision, Skipped, Nullable, Vec, OptionalField, OptionalJsonField, ArrayOf, ReadObject

LEMMA AgentInfoRead ==
  ASSUME NEW o, AgentInfo(o)
  PROVE  ParseAgentInfo(o)
  BY Words, Numbers, Times
     DEF AgentInfo, ParseAgentInfo, Skipped, Nullable, Vec, OptionalField, OptionalJsonField, ArrayOf, ReadObject

LEMMA ManagedAgentRead ==
  ASSUME NEW o, ManagedAgent(o)
  PROVE  ParseManagedAgent(o)
  BY Words, Numbers, Times
     DEF ManagedAgent, ParseManagedAgent, Skipped, Nullable, Vec, OptionalField, OptionalJsonField, ArrayOf, ReadObject

LEMMA SessionSummaryRead ==
  ASSUME NEW o, SessionSummary(o)
  PROVE  ParseSessionSummary(o)
  BY Words, Numbers, Times
     DEF SessionSummary, ParseSessionSummary, Skipped, Nullable, Vec, OptionalField, OptionalJsonField, ArrayOf, ReadObject

LEMMA ProjectSummaryRead ==
  ASSUME NEW o, ProjectSummary(o)
  PROVE  ParseProjectSummary(o)
  BY Words, Numbers, Times
     DEF ProjectSummary, ParseProjectSummary, Skipped, Nullable, Vec, OptionalField, OptionalJsonField, ArrayOf, ReadObject

LEMMA WorktreeChangeRead ==
  ASSUME NEW o, WorktreeChange(o)
  PROVE  ParseWorktreeChange(o)
  BY Words, Numbers, Times
     DEF WorktreeChange, ParseWorktreeChange, Skipped, Nullable, Vec, OptionalField, OptionalJsonField, ArrayOf, ReadObject

LEMMA WorktreeStatusRead ==
  ASSUME NEW o, WorktreeStatus(o)
  PROVE  ParseWorktreeStatus(o)
  BY WorktreeChangeRead, Words, Numbers, Times
     DEF WorktreeStatus, ParseWorktreeStatus, Skipped, Nullable, Vec, OptionalField, OptionalJsonField, ArrayOf, ReadObject

LEMMA ArtifactTouchRead ==
  ASSUME NEW o, ArtifactTouch(o)
  PROVE  ParseArtifactTouch(o)
  BY Words, Numbers, Times
     DEF ArtifactTouch, ParseArtifactTouch, Skipped, Nullable, Vec, OptionalField, OptionalJsonField, ArrayOf, ReadObject

LEMMA ProjectHookStatusRead ==
  ASSUME NEW o, ProjectHookStatus(o)
  PROVE  ParseProjectHookStatus(o)
  BY Words, Numbers, Times
     DEF ProjectHookStatus, ParseProjectHookStatus, Skipped, Nullable, Vec, OptionalField, OptionalJsonField, ArrayOf, ReadObject

LEMMA TerminalSessionMetaRead ==
  ASSUME NEW o, TerminalSessionMeta(o)
  PROVE  ParseTerminalSessionMeta(o)
  BY Words, Numbers, Times
     DEF TerminalSessionMeta, ParseTerminalSessionMeta, Skipped, Nullable, Vec, OptionalField, OptionalJsonField, ArrayOf, ReadObject

(***************************************************************************)
(* Messages.                                                               *)
(***************************************************************************)

LEMMA ReviewMessageRead ==
  ASSUME NEW m, m.js = "object", m.type.js = "string", ReviewMessage(m)
  PROVE  m.type.text \in UnknownToBrowser \/ ParseServerMessage(m)
  BY PermissionSuggestionRead, DecisionRequestRead, AuditDecisionRead, AgentInfoRead, ManagedAgentRead, Words, Numbers, Times
     DEF ReviewMessage, ParseReviewMessage, ParseServiceMessage, ParseServerMessage, ReadObject, ReadString, Skipped,
         Nullable, Vec, OptionalField, OptionalJsonField, ArrayOf, UnknownToBrowser

LEMMA QueryMessageRead ==
  ASSUME NEW m, m.js = "object", m.type.js = "string", QueryMessage(m)
  PROVE  m.type.text \in UnknownToBrowser \/ ParseServerMessage(m)
  BY HistoryEntryRead, SessionSummaryRead, ProjectSummaryRead, WorktreeStatusRead, ArtifactTouchRead, ProjectHookStatusRead, AgentInfoRead, Words, Numbers, Times
     DEF QueryMessage, ParseReviewMessage, ParseServiceMessage, ParseServerMessage, ReadObject, ReadString, Skipped,
         Nullable, Vec, OptionalField, OptionalJsonField, ArrayOf, UnknownToBrowser

LEMMA ServiceMessageRead ==
  ASSUME NEW m, m.js = "object", m.type.js = "string", ServiceMessage(m)
  PROVE  m.type.text \in UnknownToBrowser \/ ParseServerMessage(m)
  BY Words, Numbers, Times
     DEF ServiceMessage, ParseReviewMessage, ParseServiceMessage, ParseServerMessage, ReadObject, ReadString, Skipped,
         Nullable, Vec, OptionalField, OptionalJsonField, ArrayOf, UnknownToBrowser

LEMMA TerminalMessageRead ==
  ASSUME NEW m, m.js = "object", m.type.js = "string", TerminalMessage(m)
  PROVE  m.type.text \in UnknownToBrowser \/ ParseServerMessage(m)
  BY TerminalSessionMetaRead, Words, Numbers, Times
     DEF TerminalMessage, ParseReviewMessage, ParseServiceMessage, ParseServerMessage, ReadObject, ReadString, Skipped,
         Nullable, Vec, OptionalField, OptionalJsonField, ArrayOf, UnknownToBrowser

\* parseServerMessage reads every message the daemon can write, but for the two
\* it never writes to a browser: no required field is one that serde may skip
\* or write as null, no enum has a word the reader lacks, and no integer type
\* is wider than its reader while 64-bit counters are exact in a double.
THEOREM BrowserReadsDaemon ==
  ASSUME NEW m, ServerMessage(m)
  PROVE  m.type.text \in UnknownToBrowser \/ ParseServerMessage(m)
  BY ReviewMessageRead, QueryMessageRead, ServiceMessageRead, TerminalMessageRead DEF ServerMessage

-----------------------------------------------------------------------------
(***************************************************************************)
(* The sign-in: outside the recorded races, and unless setPassword waits,  *)
(* the phase agrees with useAuth's token in every state, at rest or not;   *)
(* that token is the stored one unless a write was refused or another tab  *)
(* changed it; and the profile shared by the components is never           *)
(* unlearned.                                                              *)
(***************************************************************************)

Results == {"none", "login", "setup", "200", "400", "401", "403", "409", "429", "lost"}
Progress == [at : {"idle", "sent", "answered"}, tok : Nat, res : Results, new : Nat]

\* The requests whose success carries a token.
Granting == {"login", "setpw", "pklogin"}

ReqInv ==
    /\ stored \in Nat /\ issued \in Nat
    /\ req \in [Kinds -> Progress]
    /\ \A k \in Granting : req[k].res = "200" => req[k].new # 0

SignedIn(p) == p \in {"authed", "authed-pending-enroll"}

SessionShown == ~raced /\ waiter = "none" => ((tok # 0) <=> SignedIn(phase))

TokenStored == ~drifted => tok = stored

\* No probe is in flight once the profile is known, so none can unlearn it.
ProbeInv == probe => cache # "ok"

AuthInv == ReqInv /\ SessionShown /\ TokenStored /\ ProbeInv

-----------------------------------------------------------------------------
(* The requests *)

LEMMA ReqInit == Init => ReqInv
<1> SUFFICES ASSUME Init PROVE ReqInv
  OBVIOUS
<1>1. PICK t \in {0, 1} :
        /\ stored = t /\ issued = t
        /\ req = [k \in Kinds |-> IF k = "status" /\ t = 0
                                  THEN [NoReq EXCEPT !.at = "sent"] ELSE NoReq]
  BY DEF Init
<1>2. NoReq \in Progress /\ [NoReq EXCEPT !.at = "sent"] \in Progress
  BY DEF NoReq, Progress, Results
<1>3. \A k \in Granting : k \in Kinds /\ k # "status"
  BY DEF Granting, Kinds
<1>4. req \in [Kinds -> Progress]
  BY <1>1, <1>2
<1>5. \A k \in Granting : req[k].res = "none"
  BY <1>1, <1>3 DEF NoReq
<1> QED BY <1>1, <1>4, <1>5 DEF ReqInv

\* A request that is replaced by an idle or a newly sent one.
LEMMA ReqReset ==
    ASSUME ReqInv, stored' \in Nat, issued' \in Nat, NEW k \in Kinds,
           NEW p \in Progress, p.res = "none", req' = [req EXCEPT ![k] = p]
    PROVE  ReqInv'
<1>1. req' \in [Kinds -> Progress]
  BY DEF ReqInv
<1>2. \A j \in Kinds : req'[j] = IF j = k THEN p ELSE req[j]
  BY DEF ReqInv
<1>3. Granting \subseteq Kinds
  BY DEF Granting, Kinds
<1> QED BY <1>1, <1>2, <1>3 DEF ReqInv

LEMMA SendReq ==
    ASSUME ReqInv, NEW k \in Kinds, Send(k), UNCHANGED <<stored, issued>>
    PROVE  ReqInv'
<1> DEFINE p == [NoReq EXCEPT !.at = "sent", !.tok = stored]
<1>1. p \in Progress /\ p.res = "none"
  BY DEF ReqInv, NoReq, Progress, Results
<1>2. req' = [req EXCEPT ![k] = p]
  BY DEF Send
<1> HIDE DEF p
<1> QED BY <1>1, <1>2, ReqReset DEF ReqInv

LEMMA DoneReq ==
    ASSUME ReqInv, NEW k \in Kinds, Done(k), UNCHANGED issued, stored' \in Nat
    PROVE  ReqInv'
<1>1. NoReq \in Progress /\ NoReq.res = "none"
  BY DEF NoReq, Progress, Results
<1> QED BY <1>1, ReqReset DEF ReqInv, Done

\* An answer without a token: "200" only where none is due.
LEMMA AnswerReq ==
    ASSUME ReqInv, UNCHANGED <<stored, issued>>, NEW k \in Kinds, NEW res \in Results,
           k \in Granting => res # "200",
           req' = [req EXCEPT ![k].at = "answered", ![k].res = res]
    PROVE  ReqInv'
<1>1. req[k] \in Progress
  BY DEF ReqInv
<1> DEFINE p == [req[k] EXCEPT !.at = "answered", !.res = res]
<1>2. p \in Progress /\ p.res = res
  BY <1>1 DEF Progress, Results
<1>3. req' = [req EXCEPT ![k] = p]
  BY DEF ReqInv
<1> HIDE DEF p
<1>4. req' \in [Kinds -> Progress]
  BY <1>2, <1>3 DEF ReqInv
<1>5. \A j \in Kinds : req'[j] = IF j = k THEN p ELSE req[j]
  BY <1>3 DEF ReqInv
<1>6. Granting \subseteq Kinds
  BY DEF Granting, Kinds
<1> QED BY <1>2, <1>4, <1>5, <1>6 DEF ReqInv

LEMMA GrantReq ==
    ASSUME ReqInv, UNCHANGED stored, NEW k \in Kinds, Grant(k)
    PROVE  ReqInv'
<1>1. req[k] \in Progress
  BY DEF ReqInv
<1>2. issued' \in Nat /\ issued' # 0
  BY DEF ReqInv, Grant
<1> DEFINE p == [req[k] EXCEPT !.at = "answered", !.res = "200", !.new = issued']
<1>3. p \in Progress /\ p.new # 0
  BY <1>1, <1>2 DEF Progress, Results
<1>4. req' = [req EXCEPT ![k] = p]
  BY DEF ReqInv, Grant
<1> HIDE DEF p
<1>5. req' \in [Kinds -> Progress]
  BY <1>3, <1>4 DEF ReqInv
<1>6. \A j \in Kinds : req'[j] = IF j = k THEN p ELSE req[j]
  BY <1>4 DEF ReqInv
<1>7. Granting \subseteq Kinds
  BY DEF Granting, Kinds
<1> QED BY <1>2, <1>3, <1>5, <1>6, <1>7 DEF ReqInv

-----------------------------------------------------------------------------
(* Server steps *)

LEMMA ServeAuth ==
    ASSUME AuthInv, NEW k \in Kinds, Serve(k)
    PROVE  AuthInv'
<1>1. UNCHANGED <<stored, tok, drifted, waiter, phase, raced, cache, probe>>
  BY DEF Serve, clientVars, profVars
<1>2. ReqInv'
  <2>1. ReqInv
    BY DEF AuthInv
  <2>2. CASE Grant(k)
    BY <1>1, <2>1, <2>2, GrantReq
  <2>3. CASE \E res \in {"login", "setup", "401", "409", "400"} : Answer(k, res)
    <3>1. PICK res \in {"login", "setup", "401", "409", "400"} : Answer(k, res)
      BY <2>3
    <3> QED BY <1>1, <2>1, <3>1, AnswerReq DEF Answer, Results
  <2>4. CASE /\ k \in {"logout", "api", "reauth", "enroll"}
             /\ \E res \in {"200", "401", "403"} :
                  req' = [req EXCEPT ![k].at = "answered", ![k].res = res]
             /\ UNCHANGED issued
    <3>1. PICK res \in {"200", "401", "403"} :
            req' = [req EXCEPT ![k].at = "answered", ![k].res = res]
      BY <2>4
    <3>2. k \notin Granting
      BY <2>4 DEF Granting
    <3> QED BY <1>1, <2>1, <2>4, <3>1, <3>2, AnswerReq DEF Results
  <2> QED BY <2>2, <2>3, <2>4 DEF Serve, Answer
<1> QED BY <1>1, <1>2 DEF AuthInv, SessionShown, TokenStored, ProbeInv, SignedIn

LEMMA FailAuth ==
    ASSUME AuthInv, NEW k \in Kinds, Fail(k)
    PROVE  AuthInv'
<1>1. UNCHANGED <<stored, tok, drifted, waiter, issued, phase, raced, cache, probe>>
  BY DEF Fail, clientVars, profVars, serverVars
<1>2. PICK res \in {"lost", "429"} :
        req' = [req EXCEPT ![k].at = "answered", ![k].res = res]
  BY DEF Fail
<1>3. ReqInv'
  BY <1>1, <1>2, AnswerReq DEF AuthInv, Results
<1> QED BY <1>1, <1>3 DEF AuthInv, SessionShown, TokenStored, ProbeInv, SignedIn

-----------------------------------------------------------------------------
(* The steps of the page *)

\* The token, the phase and the store agree as far as they should.
Agree == SessionShown /\ TokenStored

\* What the steps that touch the token make of the session.
LEMMA TokenSteps ==
    ASSUME ReqInv, Agree
    PROVE  /\ \A t \in Nat \ {0} : StoreToken(t) => Agree' /\ stored' \in Nat
           /\ \A p : \A t \in Nat \ {0} : AdoptToken(t, p) /\ SignedIn(p) => Agree' /\ stored' \in Nat
           /\ ClearToken => Agree' /\ stored' \in Nat
           /\ KeepToken /\ UNCHANGED waiter => Agree' /\ stored' \in Nat
           /\ \A k \in Kinds : Wrapped(k) /\ UNCHANGED waiter => Agree' /\ stored' \in Nat
<1> USE DEF Agree, SessionShown, TokenStored, SignedIn, ReqInv
<1>0. Listen => SessionShown' /\ TokenStored'
  BY DEF Listen, PhaseFor
<1>1. ASSUME NEW t \in Nat \ {0}, StoreToken(t)
      PROVE  Agree' /\ stored' \in Nat
  BY <1>0, <1>1 DEF StoreToken, Write
<1>2. ASSUME NEW t \in Nat \ {0}, NEW p, AdoptToken(t, p), SignedIn(p)
      PROVE  Agree' /\ stored' \in Nat
  BY <1>2 DEF AdoptToken, Write
<1>3. ClearToken => Agree' /\ stored' \in Nat
  BY <1>0 DEF ClearToken
<1>4. KeepToken /\ UNCHANGED waiter => Agree' /\ stored' \in Nat
  BY DEF KeepToken, clientVars
<1> QED BY <1>1, <1>2, <1>3, <1>4 DEF Wrapped

LEMMA AnswersAuth ==
    ASSUME AuthInv,
           \/ \E k \in {"status", "refresh"} : StatusAnswered(k)
           \/ \E k \in {"api", "reauth", "logout"} : ShellAnswered(k)
           \/ LoginAnswered \/ SetPasswordAnswered \/ PasskeyLoginAnswered \/ EnrollAnswered
    PROVE  AuthInv'
<1>0. ReqInv /\ Agree /\ ProbeInv
  BY DEF AuthInv, Agree
<1>1. PICK k \in Kinds : Settled(k)
  BY DEF StatusAnswered, ShellAnswered, LoginAnswered, SetPasswordAnswered,
         PasskeyLoginAnswered, EnrollAnswered, Kinds
<1>2. ASSUME Agree', stored' \in Nat, ProbeInv' PROVE AuthInv'
  <2>1. Done(k) /\ UNCHANGED issued
    BY <1>1 DEF Settled, serverVars
  <2>2. ReqInv'
    BY <1>0, <1>2, <2>1, DoneReq
  <2> QED BY <1>2, <2>2 DEF AuthInv, Agree
<1>3. \A j \in Granting : j \in Kinds /\ (req[j].res = "200" => req[j].new \in Nat \ {0})
  BY <1>0 DEF ReqInv, Granting, Kinds, Progress
<1>4. CASE \E j \in {"status", "refresh"} : StatusAnswered(j)
  <2>1. PICK j \in {"status", "refresh"} : StatusAnswered(j)
    BY <1>4
  <2>2. Agree' /\ stored' \in Nat
    BY <1>0, <2>1 DEF StatusAnswered, Agree, SessionShown, TokenStored, SignedIn, ReqInv
  <2>3. ProbeInv'
    BY <1>0, <2>1 DEF StatusAnswered, profVars, ProbeInv
  <2> QED BY <1>2, <2>2, <2>3
<1>5. CASE \E j \in {"api", "reauth", "logout"} : ShellAnswered(j)
  <2>1. PICK j \in {"api", "reauth", "logout"} : ShellAnswered(j)
    BY <1>5
  <2>2. j \in Kinds /\ (ClearToken \/ Wrapped(j)) /\ UNCHANGED waiter
    BY <2>1 DEF ShellAnswered, Kinds, profVars
  <2>3. Agree' /\ stored' \in Nat
    BY <1>0, <2>2, TokenSteps
  <2>4. ProbeInv'
    BY <1>0, <2>1 DEF ShellAnswered, profVars, ProbeInv
  <2> QED BY <1>2, <2>3, <2>4
<1>6. CASE LoginAnswered
  <2>1. /\ \/ req["login"].res = "200" /\ AdoptToken(req["login"].new, "authed")
           \/ Wrapped("login")
        /\ "login" \in Granting /\ "login" \in Kinds
        /\ UNCHANGED waiter
    BY <1>6 DEF LoginAnswered, Granting, Kinds, profVars
  <2>2. Agree' /\ stored' \in Nat
    BY <1>0, <1>3, <2>1, TokenSteps DEF SignedIn
  <2>3. ProbeInv'
    BY <1>0, <1>6 DEF LoginAnswered, profVars, ProbeInv
  <2> QED BY <1>2, <2>2, <2>3
<1>7. CASE PasskeyLoginAnswered
  <2>1. /\ \/ req["pklogin"].res = "200" /\ StoreToken(req["pklogin"].new)
           \/ Wrapped("pklogin")
        /\ "pklogin" \in Granting /\ "pklogin" \in Kinds
        /\ UNCHANGED waiter
    BY <1>7 DEF PasskeyLoginAnswered, CeremonyFailed, Granting, Kinds, profVars
  <2>2. Agree' /\ stored' \in Nat
    BY <1>0, <1>3, <2>1, TokenSteps
  <2>3. ProbeInv'
    BY <1>0, <1>7 DEF PasskeyLoginAnswered, profVars, ProbeInv
  <2> QED BY <1>2, <2>2, <2>3
<1>8. CASE EnrollAnswered
  <2>1. "enroll" \in Kinds /\ UNCHANGED waiter
    BY <1>8 DEF Kinds, EnrollAnswered, profVars
  <2>2. Agree' /\ stored' \in Nat
    <3>1. CASE ~CeremonyFailed("enroll")
      BY <1>0, <1>8, <2>1, <3>1
         DEF EnrollAnswered, Agree, SessionShown, TokenStored, SignedIn, ReqInv
    <3>2. CASE CeremonyFailed("enroll")
      BY <1>0, <1>8, <2>1, <3>2, TokenSteps DEF EnrollAnswered
    <3> QED BY <3>1, <3>2
  <2>3. ProbeInv'
    BY <1>0, <1>8 DEF EnrollAnswered, profVars, ProbeInv
  <2> QED BY <1>2, <2>2, <2>3
<1>9. CASE SetPasswordAnswered
  <2>1. "setpw" \in Granting /\ "setpw" \in Kinds
    BY DEF Granting, Kinds
  <2>2. CASE req["setpw"].res = "200" /\ cache = "ok"
    <3>1. /\ AdoptToken(req["setpw"].new, AfterSetPassword(CanEnroll))
          /\ UNCHANGED profVars
      BY <1>9, <2>2 DEF SetPasswordAnswered
    <3>2. SignedIn(AfterSetPassword(CanEnroll))
      BY DEF SignedIn, AfterSetPassword
    <3>3. Agree' /\ stored' \in Nat
      BY <1>0, <1>3, <2>1, <2>2, <3>1, <3>2, TokenSteps
    <3> QED BY <1>0, <1>2, <3>1, <3>3 DEF ProbeInv, profVars
  <2>3. CASE req["setpw"].res = "200" /\ cache # "ok"
    <3>1. /\ AdoptToken(req["setpw"].new, PhaseFor(stored')) /\ UNCHANGED cache
          /\ waiter' = "live"
      BY <1>9, <2>3 DEF SetPasswordAnswered
    <3>2. Agree' /\ stored' \in Nat
      BY <1>0, <1>3, <2>1, <2>3, <3>1
         DEF AdoptToken, Write, Agree, SessionShown, TokenStored, ReqInv
    <3> QED BY <1>2, <2>3, <3>1, <3>2 DEF ProbeInv
  <2>4. CASE req["setpw"].res = "409"
    <3>1. /\ phase' = "unauthed" /\ raced' = (raced \/ tok # 0)
          /\ UNCHANGED <<stored, tok, drifted, profVars>>
      BY <1>9, <2>4 DEF SetPasswordAnswered
    <3> QED BY <1>0, <1>2, <3>1
            DEF Agree, SessionShown, TokenStored, SignedIn, ProbeInv, profVars, ReqInv
  <2>5. CASE req["setpw"].res \notin {"200", "409"}
    <3>1. Wrapped("setpw") /\ UNCHANGED profVars
      BY <1>9, <2>5 DEF SetPasswordAnswered
    <3>2. Agree' /\ stored' \in Nat
      BY <1>0, <2>1, <3>1, TokenSteps DEF profVars
    <3> QED BY <1>0, <1>2, <3>1, <3>2 DEF ProbeInv, profVars
  <2> QED BY <2>2, <2>3, <2>4, <2>5
<1> QED BY <1>4, <1>5, <1>6, <1>7, <1>8, <1>9

\* setPassword resumes: signed in, or recorded as a race.
LEMMA ResumeAuth ==
    ASSUME ReqInv, Agree, NEW from, NEW e, Resume(from, e)
    PROVE  Agree' /\ UNCHANGED stored
<1>1. CASE waiter # from
  BY <1>1 DEF Resume, clientVars, Agree, SessionShown, TokenStored, SignedIn
<1>2. CASE waiter = from
  <2>1. /\ phase' = AfterSetPassword(e) /\ raced' = (raced \/ tok = 0)
        /\ UNCHANGED <<stored, tok, drifted>>
    BY <1>2 DEF Resume
  <2> QED BY <2>1 DEF AfterSetPassword, Agree, SessionShown, TokenStored, SignedIn
<1> QED BY <1>1, <1>2

LEMMA ProbesAuth ==
    ASSUME AuthInv, ProfileAnswered \/ AbortedSettles \/ Rerender \/ CountdownEnds
    PROVE  AuthInv'
<1>0. ReqInv /\ Agree /\ ProbeInv
  BY DEF AuthInv, Agree
<1>1. CASE ProfileAnswered
  <2>1. Agree' /\ UNCHANGED stored
    BY <1>0, <1>1, ResumeAuth DEF ProfileAnswered
  <2> QED BY <1>0, <1>1, <2>1 DEF AuthInv, Agree, ProfileAnswered, ReqInv, ProbeInv, serverVars
<1>2. CASE AbortedSettles
  <2>1. Agree' /\ UNCHANGED stored
    BY <1>0, <1>2, ResumeAuth DEF AbortedSettles
  <2> QED BY <1>0, <1>2, <2>1 DEF AuthInv, Agree, AbortedSettles, ReqInv, ProbeInv, serverVars
<1>3. CASE Rerender
  <2>1. /\ UNCHANGED <<stored, tok, drifted, issued, phase, raced, cache>>
        /\ waiter' = "none" => waiter = "none"
    BY <1>3 DEF Rerender, clientVars, serverVars
  <2>2. ReqInv'
    <3>1. CASE UNCHANGED req
      BY <1>0, <2>1, <3>1 DEF ReqInv
    <3>2. CASE Send("status")
      BY <1>0, <2>1, <3>2, SendReq DEF Kinds
    <3> QED BY <1>3, <3>1, <3>2 DEF Rerender, Send
  <2>3. ProbeInv'
    BY <1>0, <1>3, <2>1 DEF Rerender, ProbeInv
  <2> QED BY <1>0, <2>1, <2>2, <2>3 DEF AuthInv, Agree, SessionShown, TokenStored, SignedIn
<1>4. CASE CountdownEnds
  BY <1>0, <1>4 DEF CountdownEnds, AuthInv, Agree, ReqInv, SessionShown, TokenStored, SignedIn,
                    ProbeInv, clientVars, profVars, serverVars
<1> QED BY <1>1, <1>2, <1>3, <1>4

LEMMA UserAuth ==
    ASSUME AuthInv, UserStep
    PROVE  AuthInv'
<1>0. ReqInv /\ SessionShown /\ TokenStored /\ ProbeInv
  BY DEF AuthInv
<1>1. CASE \E k \in Kinds : Send(k) /\ Started
  <2>1. PICK k \in Kinds : Send(k) /\ Started
    BY <1>1
  <2>2. UNCHANGED <<stored, tok, drifted, waiter, issued, phase, raced, cache, probe>>
    BY <2>1 DEF Started, clientVars, profVars, serverVars
  <2>3. ReqInv'
    BY <1>0, <2>1, <2>2, SendReq
  <2> QED BY <1>0, <2>2, <2>3 DEF AuthInv, SessionShown, TokenStored, SignedIn, ProbeInv
<1>2. CASE SkipEnroll
  BY <1>0, <1>2 DEF SkipEnroll, AuthInv, ReqInv, SessionShown, TokenStored, SignedIn, ProbeInv,
                    profVars, serverVars
<1> QED BY <1>1, <1>2 DEF UserStep, SubmitForm, RefreshStatus, LoginWithPasskey,
                         EnrollPasskey, ShellCall, Kinds

LEMMA InitAuth == Init => AuthInv
<1> SUFFICES ASSUME Init PROVE AuthInv
  OBVIOUS
<1>1. SessionShown
  BY DEF Init, SessionShown, SignedIn
<1>2. ProbeInv /\ TokenStored
  BY DEF Init, ProbeInv, TokenStored
<1> QED BY <1>1, <1>2, ReqInit DEF AuthInv

LEMMA NextAuth == AuthInv /\ [Next]_vars => AuthInv'
<1> SUFFICES ASSUME AuthInv, [Next]_vars PROVE AuthInv'
  OBVIOUS
<1>1. CASE ClientStep
  BY <1>1, AnswersAuth, ProbesAuth DEF ClientStep
<1>2. CASE UserStep
  BY <1>2, UserAuth
<1>3. CASE \E k \in Kinds : Serve(k) \/ Fail(k)
  BY <1>3, ServeAuth, FailAuth
<1>4. CASE \/ ExternalPassword \/ \E t \in valid : Revoke(t)
           \/ UNCHANGED vars
  <2>1. UNCHANGED <<stored, tok, drifted, waiter, issued, phase, raced, cache, probe, req>>
    BY <1>4 DEF ExternalPassword, Revoke, vars, clientVars, profVars, serverVars
  <2> QED BY <2>1 DEF AuthInv, ReqInv, SessionShown, TokenStored, SignedIn, ProbeInv
<1>5. CASE OtherTabSignsIn \/ OtherTabClears
  <2>1. /\ stored' \in Nat /\ issued' \in Nat /\ drifted'
        /\ UNCHANGED <<tok, waiter, phase, raced, cache, probe, req>>
    BY <1>5 DEF OtherTabSignsIn, OtherTabClears, profVars, AuthInv, ReqInv
  <2> QED BY <2>1 DEF AuthInv, ReqInv, SessionShown, TokenStored, SignedIn, ProbeInv
<1> QED BY <1>1, <1>2, <1>3, <1>4, <1>5 DEF Next

-----------------------------------------------------------------------------
\* AuthInv is inductive: every action keeps the requests typed, the phase in
\* agreement with the token and the token with the store, refused writes and
\* other tabs recorded, and the probe away from a known profile.
THEOREM SignInCoherent == Spec => []AuthInv
BY InitAuth, NextAuth, PTL DEF Spec

\* useAuth: whatever is answered, aborted or rendered in whatever order, the
\* application shows with a token and a form shows without one, but for the
\* late answers raced records; and the token is the stored one, but for the
\* refused writes and other tabs that drifted records.
THEOREM ScreensAgree == Spec => []ScreenAgrees
<1>1. AuthInv => ScreenAgrees
  BY DEF AuthInv, SessionShown, TokenStored, SignedIn, ScreenAgrees, Quiet
<1> QED BY <1>1, SignInCoherent, PTL

LEMMA ProfileStep == AuthInv /\ [Next]_vars => [cache = "ok" => cache' = "ok"]_vars
<1> SUFFICES ASSUME AuthInv, Next, cache = "ok" PROVE cache' = "ok"
  BY DEF vars
<1>1. ~probe
  BY DEF AuthInv, ProbeInv
<1> QED
  BY <1>1 DEF Next, ClientStep, UserStep, StatusAnswered, ShellAnswered, LoginAnswered,
     SetPasswordAnswered, PasskeyLoginAnswered, EnrollAnswered, ProfileAnswered,
     AbortedSettles, Rerender, CountdownEnds, SubmitForm, RefreshStatus, LoginWithPasskey,
     EnrollPasskey, SkipEnroll, ShellCall, Started, Serve, Fail, ExternalPassword,
     Revoke, OtherTabSignsIn, OtherTabClears, profVars

\* useAuthProfile: a profile once published is never overwritten, by a failed
\* probe or by an aborted one that settles late.
THEOREM ProfileIsKept == Spec => ProfileSticks
BY SignInCoherent, NextAuth, ProfileStep, PTL DEF Spec, ProfileSticks

(***************************************************************************)
(* Terminals: what the variables hold.                                     *)
(***************************************************************************)
Orders == [op : {"create", "attach", "detach", "write", "close", "meta", "replay"},
           id : Sess]
            \cup [op : {"list"}, id : {NoSession}]
Grants == [n : Nat, id : Sess, from : Nat]
Rxs == [q : Seq(Nat), lag : BOOLEAN]
RowMaps == UNION {[D -> {"absent", "running", "ended"}] : D \in SUBSET Sess}
Chunks == [type : {"chunk", "replay"}, id : Sess, at : Nat, by : Grants]
Catchups == [type : {"catchup"}, id : Sess, by : Grants, outs : SUBSET Nat]
Errors == [type : {"error"}]
EventFrames == [type : {"created", "ended"}, id : Sess]
Lists == [type : {"list"}, rows : RowMaps]
Frames == Chunks \cup Catchups \cup Errors \cup EventFrames \cup Lists

DaemonTypes ==
    /\ row \in [Sess -> {"absent", "running", "ended"}]
    /\ live \subseteq Sess
    /\ hist \in [Sess -> Seq({"out", "other"})]
    /\ unsent \in [Sess -> SUBSET Nat]

LoopTypes ==
    /\ seam \in {NoSeam} \cup [id : Sess, by : Grants, rx : Rxs]
    /\ att \in [Sess -> {NoAtt} \cup [on : {TRUE}, by : Grants, rx : Rxs]]
    /\ replays \subseteq [id : Sess, by : Grants, left : SUBSET Nat]
    /\ conn \in Seq(Frames) /\ feed \in Seq(Frames)
    /\ serial \in Nat

WireTypes ==
    /\ up \in Seq(Orders) /\ down \in Seq(Frames) /\ linked \in BOOLEAN

Writings == [outs : SUBSET Nat, by : Grants, kind : {"chunk", "replay", "catchup"}]

ViewTypes ==
    /\ mounted \in BOOLEAN /\ replay \in BOOLEAN
    /\ sel \in Sess \cup {NoSession} /\ liveRef \in Sess \cup {NoSession}
    /\ screen \in Seq(Writings)
    /\ list \in RowMaps

TermTypes == DaemonTypes /\ LoopTypes /\ WireTypes /\ ViewTypes

LEMMA RowMapDomain ==
    ASSUME NEW r \in RowMaps
    PROVE  /\ DOMAIN r \subseteq Sess
           /\ \A s \in DOMAIN r : r[s] \in {"absent", "running", "ended"}
BY DEF RowMaps

LEMMA RowMapIs ==
    ASSUME NEW D \in SUBSET Sess, NEW r \in [D -> {"absent", "running", "ended"}]
    PROVE  r \in RowMaps
BY DEF RowMaps

LEMMA RowsOK ==
    ASSUME row \in [Sess -> {"absent", "running", "ended"}]
    PROVE  Rows \in RowMaps
<1>1. {x \in Sess : row[x] # "absent"} \in SUBSET Sess
    OBVIOUS
<1>2. Rows \in [{x \in Sess : row[x] # "absent"} -> {"absent", "running", "ended"}]
    BY DEF Rows
<1> QED
    BY <1>1, <1>2, RowMapIs

LEMMA ListedOK ==
    ASSUME list \in RowMaps, NEW m \in Frames
    PROVE  Listed(m) \in RowMaps
<1>0. DOMAIN list \subseteq Sess /\ \A s \in DOMAIN list : list[s] \in {"absent", "running", "ended"}
    BY RowMapDomain
<1>1. CASE m.type = "created"
    <2>1. m.id \in Sess
        BY <1>1 DEF Frames, Chunks, Catchups, Errors, EventFrames, Lists
    <2>2. DOMAIN list \cup {m.id} \in SUBSET Sess
        BY <1>0, <2>1
    <2>3. Listed(m) \in [DOMAIN list \cup {m.id} -> {"absent", "running", "ended"}]
        BY <1>0, <1>1, <2>1 DEF Listed
    <2> QED
        BY <2>2, <2>3, RowMapIs
<1>2. CASE m.type = "list"
    BY <1>2 DEF Listed, Frames, Chunks, Catchups, Errors, EventFrames, Lists
<1>3. CASE m.type = "ended"
    <2>1. Listed(m) \in [DOMAIN list -> {"absent", "running", "ended"}]
        BY <1>0, <1>3 DEF Listed
    <2> QED
        BY <1>0, <2>1, RowMapIs
<1>4. CASE m.type \notin {"created", "list", "ended"}
    BY <1>4 DEF Listed
<1> QED
    BY <1>1, <1>2, <1>3, <1>4

LEMMA DeliverOK ==
    ASSUME NEW rx \in Rxs, NEW i \in Nat
    PROVE  Deliver(rx, i) \in Rxs
BY DEF Deliver, Rxs

LEMMA NoFrames == \A S : <<>> \in Seq(S)
OBVIOUS

LEMMA TermInitTypes == TermInit => TermTypes
<1> SUFFICES ASSUME TermInit PROVE TermTypes
    OBVIOUS
<1>1. DaemonTypes
    <2>1. row \in [Sess -> {"absent", "running", "ended"}] /\ live \subseteq Sess
        BY DEF TermInit
    <2>2. \A s \in Sess : (IF row[s] = "absent" THEN <<>> ELSE <<"out">>) \in Seq({"out", "other"})
        <3>1. <<>> \in Seq({"out", "other"}) /\ <<"out">> \in Seq({"out", "other"})
            OBVIOUS
        <3> QED
            BY <3>1
    <2>3. hist = [s \in Sess |-> IF row[s] = "absent" THEN <<>> ELSE <<"out">>]
          /\ unsent = [s \in Sess |-> {}]
        BY DEF TermInit
    <2> QED
        BY <2>1, <2>2, <2>3 DEF DaemonTypes
<1>2. LoopTypes /\ WireTypes
    BY DEF TermInit, LoopTypes, WireTypes
<1>3. list \in RowMaps
    <2>1. list \in [{} -> {"absent", "running", "ended"}]
        BY DEF TermInit
    <2> QED
        BY <2>1, RowMapIs
<1>4. ViewTypes
    <2>1. /\ mounted = FALSE /\ replay = FALSE /\ sel = NoSession /\ liveRef = NoSession /\ screen = <<>>
        BY DEF TermInit
    <2> QED
        BY <1>3, <2>1, NoFrames DEF ViewTypes
<1> QED
    BY <1>1, <1>2, <1>4 DEF TermTypes

LEMMA RunningOnly ==
    \A a \in {NoAtt} \cup [on : {TRUE}, by : Grants, rx : Rxs] :
        a.on => a \in [on : {TRUE}, by : Grants, rx : Rxs]
<1>1. NoAtt.on = FALSE
    BY DEF NoAtt
<1> QED
    BY <1>1

LEMMA IngestTypes ==
    ASSUME TermTypes, NEW s \in Sess, Ingest(s)
    PROVE  TermTypes'
<1>1. DaemonTypes'
    BY DEF TermTypes, DaemonTypes, Ingest, Assign
<1> QED
    BY <1>1 DEF TermTypes, LoopTypes, WireTypes, ViewTypes, Ingest, loopVars, wireVars, viewVars

LEMMA PublishTypes ==
    ASSUME TermTypes, NEW s \in Sess, Publish(s)
    PROVE  TermTypes'
<1>1. PICK i \in unsent[s] : Publish(s)!(i)
    BY DEF Publish
<1>2. DaemonTypes'
    BY <1>1 DEF TermTypes, DaemonTypes
<1>3. i \in Nat
    BY DEF TermTypes, DaemonTypes
<1>4. att' \in [Sess -> {NoAtt} \cup [on : {TRUE}, by : Grants, rx : Rxs]]
    <2>1. CASE att[s].on
        <3>1. att[s] \in [on : {TRUE}, by : Grants, rx : Rxs]
            BY <2>1, RunningOnly DEF TermTypes, LoopTypes
        <3>2. Deliver(att[s].rx, i) \in Rxs
            BY <1>3, <3>1, DeliverOK
        <3> QED
            BY <1>1, <2>1, <3>1, <3>2 DEF TermTypes, LoopTypes
    <2> QED
        BY <1>1, <2>1 DEF TermTypes, LoopTypes
<1>5. seam' \in {NoSeam} \cup [id : Sess, by : Grants, rx : Rxs]
    <2>1. CASE seam.id = s
        <3>1. seam \in [id : Sess, by : Grants, rx : Rxs]
            BY <2>1, TerminalsAssumption DEF TermTypes, LoopTypes, NoSeam
        <3>2. Deliver(seam.rx, i) \in Rxs
            BY <1>3, <3>1, DeliverOK
        <3> QED
            BY <1>1, <2>1, <3>1, <3>2
    <2> QED
        BY <1>1, <2>1 DEF TermTypes, LoopTypes
<1> QED
    BY <1>1, <1>2, <1>4, <1>5 DEF TermTypes, LoopTypes, WireTypes, ViewTypes, wireVars, viewVars

LEMMA EndedTypes ==
    ASSUME TermTypes, NEW s \in Sess, Ended(s)
    PROVE  TermTypes'
<1>1. DaemonTypes'
    BY DEF TermTypes, DaemonTypes, Ended
<1>2. [type |-> "ended", id |-> s] \in Frames
    BY DEF Frames, EventFrames
<1>3. LoopTypes'
    <2>1. feed' \in Seq(Frames)
        BY <1>2 DEF TermTypes, LoopTypes, Ended
    <2> QED
        BY <2>1, ZenonT(40) DEF TermTypes, LoopTypes, Ended
<1> QED
    BY <1>1, <1>3 DEF TermTypes, WireTypes, ViewTypes, Ended, wireVars, viewVars

LEMMA ForwardTypes ==
    ASSUME TermTypes, NEW s \in Sess, Forward(s)
    PROVE  TermTypes'
<1> USE DEF TermTypes
<1>1. att[s] \in [on : {TRUE}, by : Grants, rx : Rxs]
    BY RunningOnly DEF LoopTypes, Forward
<1>2. ErrorFrame \in Frames
    BY DEF ErrorFrame, Frames, Errors
<1>3. CASE att[s].rx.q # <<>>
    <2>1. Head(att[s].rx.q) \in Nat /\ Tail(att[s].rx.q) \in Seq(Nat)
        <3>1. att[s].rx.q \in Seq(Nat)
            BY <1>1 DEF Rxs
        <3> QED
            BY <1>3, <3>1
    <2>2. att' \in [Sess -> {NoAtt} \cup [on : {TRUE}, by : Grants, rx : Rxs]]
        <3>1. att' = [att EXCEPT ![s].rx.q = Tail(att[s].rx.q)]
            BY <1>3 DEF Forward
        <3>2. att[s].rx \in Rxs
            BY <1>1
        <3>3. [att[s].rx EXCEPT !.q = Tail(att[s].rx.q)] \in Rxs
            BY <2>1, <3>2 DEF Rxs
        <3>4. [att[s] EXCEPT !.rx = [att[s].rx EXCEPT !.q = Tail(att[s].rx.q)]]
                \in [on : {TRUE}, by : Grants, rx : Rxs]
            BY <1>1, <3>3
        <3> QED
            BY <3>1, <3>4 DEF LoopTypes
    <2>3. [type |-> "chunk", id |-> s, at |-> Head(att[s].rx.q), by |-> att[s].by] \in Frames
        BY <1>1, <2>1 DEF Frames, Chunks
    <2>4. conn' \in Seq(Frames)
        <3>1. conn' = conn \/ conn' = Append(conn, [type |-> "chunk", id |-> s,
                                    at |-> Head(att[s].rx.q), by |-> att[s].by])
            BY <1>3 DEF Forward, TrySend
        <3> QED
            BY <2>3, <3>1 DEF LoopTypes
    <2> QED
        BY <2>2, <2>4, ZenonT(40) DEF LoopTypes, Forward, DaemonTypes, WireTypes, ViewTypes,
                          daemonVars, wireVars, viewVars
<1>4. CASE att[s].rx.q = <<>>
    <2>1. conn' \in Seq(Frames)
        <3>1. conn' = conn \/ conn' = Append(conn, ErrorFrame)
            BY <1>4 DEF Forward, TrySend, ErrorFrame
        <3> QED
            BY <1>2, <3>1 DEF LoopTypes
    <2> QED
        <3>1. att' = [att EXCEPT ![s] = NoAtt]
            BY <1>4 DEF Forward
        <3>2. att' \in [Sess -> {NoAtt} \cup [on : {TRUE}, by : Grants, rx : Rxs]]
            BY <3>1 DEF LoopTypes
        <3> QED
            BY <2>1, <3>2, ZenonT(40) DEF LoopTypes, Forward, DaemonTypes, WireTypes, ViewTypes,
                          daemonVars, wireVars, viewVars
<1> QED
    BY <1>3, <1>4

LEMMA StreamTypes ==
    ASSUME TermTypes, NEW r \in replays, StreamReplay(r)
    PROVE  TermTypes'
<1> USE DEF TermTypes
<1>1. r \in [id : Sess, by : Grants, left : SUBSET Nat]
    BY DEF LoopTypes
<1>2. CASE r.left = {}
    BY <1>2 DEF LoopTypes, StreamReplay, DaemonTypes, WireTypes, ViewTypes, daemonVars,
                wireVars, viewVars
<1>3. CASE r.left # {}
    <2> DEFINE i == CHOOSE x \in r.left : \A y \in r.left : x <= y
    <2>1. i \in r.left
        <3>1. \E x \in r.left : \A y \in r.left : x <= y
            BY <1>1, <1>3, NatMin
        <3> QED
            BY <3>1
    <2>2. [type |-> "replay", id |-> r.id, at |-> i, by |-> r.by] \in Frames
        BY <1>1, <2>1 DEF Frames, Chunks
    <2>3. [r EXCEPT !.left = @ \ {i}] \in [id : Sess, by : Grants, left : SUBSET Nat]
        BY <1>1
    <2> HIDE DEF i
    <2>4. /\ conn' = Append(conn, [type |-> "replay", id |-> r.id, at |-> i, by |-> r.by])
          /\ replays' = (replays \ {r}) \cup {[r EXCEPT !.left = @ \ {i}]}
        BY <1>3 DEF StreamReplay, i
    <2>5. conn' \in Seq(Frames)
        BY <2>2, <2>4 DEF LoopTypes
    <2>6. replays' \subseteq [id : Sess, by : Grants, left : SUBSET Nat]
        BY <2>3, <2>4 DEF LoopTypes
    <2> QED
        BY <2>5, <2>6, ZenonT(40) DEF LoopTypes, StreamReplay, DaemonTypes, WireTypes, ViewTypes,
                          daemonVars, wireVars, viewVars
<1> QED
    BY <1>2, <1>3

LEMMA PumpTypes ==
    ASSUME TermTypes, PumpConn \/ PumpFeed
    PROVE  TermTypes'
<1> USE DEF TermTypes
<1>1. /\ conn' \in Seq(Frames) /\ feed' \in Seq(Frames) /\ down' \in Seq(Frames)
    <2>1. CASE PumpConn
        <3>1. Head(conn) \in Frames /\ Tail(conn) \in Seq(Frames)
            BY <2>1 DEF PumpConn, LoopTypes
        <3> QED
            BY <2>1, <3>1 DEF PumpConn, LoopTypes, WireTypes
    <2>2. CASE PumpFeed
        <3>1. Head(feed) \in Frames /\ Tail(feed) \in Seq(Frames)
            BY <2>2 DEF PumpFeed, LoopTypes
        <3> QED
            BY <2>2, <3>1 DEF PumpFeed, LoopTypes, WireTypes
    <2> QED
        BY <2>1, <2>2
<1> QED
    BY <1>1, ZenonT(40) DEF PumpConn, PumpFeed, LoopTypes, DaemonTypes, WireTypes, ViewTypes,
       daemonVars, viewVars

LEMMA CommandTypes ==
    ASSUME TermTypes, ReadCommand
    PROVE  TermTypes'
<1> USE DEF TermTypes
<1> DEFINE c == Head(up)
<1>1. /\ c \in Orders /\ up' \in Seq(Orders) /\ linked' = linked
      /\ UNCHANGED <<mounted, sel, replay, liveRef, screen, list>>
    BY DEF ReadCommand, WireTypes, viewVars
<1>2. ViewTypes'
    BY <1>1 DEF ViewTypes
<1>3. ErrorFrame \in Frames
    BY DEF ErrorFrame, Frames, Errors
<1>4. ListFrame \in Frames
    BY RowsOK DEF DaemonTypes, ListFrame, Frames, Lists
<1> HIDE DEF c
<1>5. CASE c.op = "list"
    <2>1. TermList
        BY <1>1, <1>5 DEF ReadCommand, c
    <2> QED
        <3>1. down' \in Seq(Frames)
            BY <1>4, <2>1 DEF TermList, WireTypes
        <3> QED
            BY <1>1, <1>2, <2>1, <3>1, ZenonT(40) DEF TermList, LoopTypes, DaemonTypes, WireTypes, daemonVars, loopVars
<1>6. CASE c.op # "list"
    <2>1. PICK s \in Sess : s = c.id
        BY <1>1, <1>6 DEF Orders
    <2>2. CASE c.op = "create"
        <3>1. TermCreate(s)
            BY <1>1, <2>1, <2>2 DEF ReadCommand, c
        <3>2. [type |-> "created", id |-> s] \in Frames
            BY DEF Frames, EventFrames
        <3>3. /\ row' \in [Sess -> {"absent", "running", "ended"}] /\ live' \subseteq Sess
              /\ down' \in Seq(Frames)
            BY <3>1, <3>2 DEF TermCreate, DaemonTypes, WireTypes
        <3> QED
            BY <1>1, <1>2, <3>1, <3>3, ZenonT(40) DEF TermCreate, LoopTypes, DaemonTypes, WireTypes, loopVars
    <2>3. CASE c.op = "attach"
        <3>1. TermAttach(s)
            BY <1>1, <2>1, <2>3 DEF ReadCommand, c
        <3>2. GrantOf(s, Len(hist[s]) + 1) \in Grants
            BY DEF GrantOf, Grants, LoopTypes, DaemonTypes
        <3>3. [q |-> <<>>, lag |-> FALSE] \in Rxs
            BY DEF Rxs
        <3>4. seam' \in {NoSeam} \cup [id : Sess, by : Grants, rx : Rxs] /\ serial' \in Nat
            <4>1. [id |-> s, by |-> GrantOf(s, Len(hist[s]) + 1), rx |-> [q |-> <<>>, lag |-> FALSE]]
                    \in [id : Sess, by : Grants, rx : Rxs]
                BY <3>2, <3>3
            <4>2. \/ seam' = seam /\ serial' = serial
                  \/ /\ seam' = [id |-> s, by |-> GrantOf(s, Len(hist[s]) + 1),
                                  rx |-> [q |-> <<>>, lag |-> FALSE]]
                     /\ serial' = serial + 1
                BY <3>1 DEF TermAttach
            <4>3. serial' \in Nat
                BY <4>2 DEF LoopTypes
            <4>4. seam' \in {NoSeam} \cup [id : Sess, by : Grants, rx : Rxs]
                BY <4>1, <4>2, ZenonT(40) DEF LoopTypes
            <4> QED
                BY <4>3, <4>4
        <3>5. att' \in [Sess -> {NoAtt} \cup [on : {TRUE}, by : Grants, rx : Rxs]]
            BY <3>1 DEF TermAttach, LoopTypes
        <3>6. down' \in Seq(Frames)
            BY <1>3, <3>1 DEF TermAttach, WireTypes
        <3> QED
            BY <1>1, <1>2, <3>1, <3>4, <3>5, <3>6, ZenonT(40) DEF TermAttach, LoopTypes, DaemonTypes, WireTypes, daemonVars
    <2>4. CASE c.op = "detach"
        <3>1. TermDetach(s)
            BY <1>1, <2>1, <2>4 DEF ReadCommand, c
        <3>2. att' \in [Sess -> {NoAtt} \cup [on : {TRUE}, by : Grants, rx : Rxs]]
            BY <3>1 DEF TermDetach, LoopTypes
        <3>3. down' \in Seq(Frames)
            BY <1>3, <3>1 DEF TermDetach, WireTypes
        <3> QED
            BY <1>1, <1>2, <3>1, <3>2, <3>3, ZenonT(40) DEF TermDetach, LoopTypes, DaemonTypes, WireTypes, daemonVars
    <2>5. CASE c.op = "write"
        <3>1. TermWrite(s)
            BY <1>1, <2>1, <2>5 DEF ReadCommand, c
        <3>2. /\ hist' \in [Sess -> Seq({"out", "other"})] /\ unsent' \in [Sess -> SUBSET Nat]
              /\ down' \in Seq(Frames)
            <4>1. down' \in Seq(Frames)
                BY <1>3, <3>1 DEF TermWrite, WireTypes
            <4>2. CASE s \in live
                <5>1. Assign(s, "other")
                    BY <3>1, <4>2 DEF TermWrite
                <5>2. Append(hist[s], "other") \in Seq({"out", "other"}) /\ Len(hist[s]) + 1 \in Nat
                    BY DEF DaemonTypes
                <5> QED
                    BY <4>1, <5>1, <5>2 DEF Assign, DaemonTypes
            <4>3. CASE s \notin live
                BY <3>1, <4>1, <4>3 DEF TermWrite, DaemonTypes, daemonVars
            <4> QED
                BY <4>2, <4>3
        <3> QED
            BY <1>1, <1>2, <3>1, <3>2, ZenonT(40) DEF TermWrite, Assign, LoopTypes, DaemonTypes, WireTypes, daemonVars, loopVars
    <2>6. CASE c.op = "close"
        <3>1. TermClose(s)
            BY <1>1, <2>1, <2>6 DEF ReadCommand, c
        <3>2. att' \in [Sess -> {NoAtt} \cup [on : {TRUE}, by : Grants, rx : Rxs]]
            BY <3>1 DEF TermClose, LoopTypes
        <3>3. down' \in Seq(Frames)
            BY <1>3, <3>1 DEF TermClose, WireTypes
        <3> QED
            BY <1>1, <1>2, <3>1, <3>2, <3>3, ZenonT(40) DEF TermClose, LoopTypes, DaemonTypes, WireTypes, daemonVars
    <2>7. CASE c.op = "meta"
        <3>1. TermSetMeta
            BY <1>1, <2>1, <2>7 DEF ReadCommand, c
        <3>2. feed' \in Seq(Frames)
            BY <1>4, <3>1 DEF TermSetMeta, LoopTypes
        <3> QED
            BY <1>1, <1>2, <3>1, <3>2, ZenonT(40) DEF TermSetMeta, LoopTypes, DaemonTypes, WireTypes, daemonVars
    <2>8. CASE c.op = "replay"
        <3>1. TermReplay(s)
            BY <1>1, <2>1, <2>8 DEF ReadCommand, c
        <3>2. GrantOf(s, 0) \in Grants
            BY DEF GrantOf, Grants, LoopTypes
        <3>3. \A n : OutBelow(s, n) \subseteq Nat
            BY DEF OutBelow
        <3>4. replays' \subseteq [id : Sess, by : Grants, left : SUBSET Nat] /\ serial' \in Nat
            <4>1. CASE UNCHANGED <<replays, serial>>
                BY <4>1 DEF LoopTypes
            <4>2. CASE ~UNCHANGED <<replays, serial>>
                <5>1. PICK n \in Nat : replays' = replays \cup {[id |-> s, by |-> GrantOf(s, 0),
                                                             left |-> OutBelow(s, n + 1)]}
                    <6>1. \E n \in {k \in 0..Len(hist[s]) : \A i \in unsent[s] : k < i} :
                             replays' = replays \cup {[id |-> s, by |-> GrantOf(s, 0),
                                                       left |-> OutBelow(s, n + 1)]}
                        BY <3>1, <4>2 DEF TermReplay
                    <6> QED
                        BY <6>1
                <5>2. [id |-> s, by |-> GrantOf(s, 0), left |-> OutBelow(s, n + 1)]
                        \in [id : Sess, by : Grants, left : SUBSET Nat]
                    BY <3>2, <3>3
                <5>3. serial' = serial + 1
                    BY <3>1, <4>2 DEF TermReplay
                <5> QED
                    BY <5>1, <5>2, <5>3 DEF LoopTypes
            <4> QED
                BY <4>1, <4>2
        <3>5. down' \in Seq(Frames)
            BY <1>3, <3>1 DEF TermReplay, WireTypes
        <3> QED
            BY <1>1, <1>2, <3>1, <3>4, <3>5, ZenonT(40) DEF TermReplay, LoopTypes, DaemonTypes, WireTypes, daemonVars
    <2> QED
        BY <1>1, <1>6, <2>2, <2>3, <2>4, <2>5, <2>6, <2>7, <2>8 DEF Orders
<1> QED
    BY <1>5, <1>6

LEMMA FinishTypes ==
    ASSUME TermTypes, FinishAttach
    PROVE  TermTypes'
<1> USE DEF TermTypes
<1>1. seam \in [id : Sess, by : Grants, rx : Rxs]
    BY DEF LoopTypes, FinishAttach
<1>2. \A s, n : OutBelow(s, n) \subseteq Nat
    BY DEF OutBelow
<1>3. [type |-> "catchup", id |-> seam.id, by |-> seam.by,
       outs |-> OutBelow(seam.id, seam.by.from)] \in Frames
    BY <1>1, <1>2 DEF Frames, Catchups
<1>4. att' \in [Sess -> {NoAtt} \cup [on : {TRUE}, by : Grants, rx : Rxs]]
    <2>1. [on |-> TRUE, by |-> seam.by, rx |-> seam.rx] \in [on : {TRUE}, by : Grants, rx : Rxs]
        BY <1>1
    <2> QED
        BY <1>1, <2>1 DEF FinishAttach, LoopTypes
<1>5. down' \in Seq(Frames)
    BY <1>3 DEF FinishAttach, WireTypes
<1> QED
    BY <1>4, <1>5, ZenonT(40) DEF FinishAttach, LoopTypes, DaemonTypes, WireTypes, ViewTypes, daemonVars, viewVars

LEMMA SocketTypes ==
    ASSUME TermTypes, Drop \/ Relink
    PROVE  TermTypes'
<1> USE DEF TermTypes
<1>1. CASE Drop
    <2>1. /\ up' \in Seq(Orders) /\ down' \in Seq(Frames) /\ conn' \in Seq(Frames)
          /\ feed' \in Seq(Frames) /\ linked' \in BOOLEAN
          /\ replays' \subseteq [id : Sess, by : Grants, left : SUBSET Nat]
        <3>1. /\ up' = <<>> /\ down' = <<>> /\ conn' = <<>> /\ feed' = <<>>
              /\ linked' = FALSE /\ replays' = {}
            BY <1>1 DEF Drop
        <3> QED
            BY <3>1, NoFrames
    <2>2. att' \in [Sess -> {NoAtt} \cup [on : {TRUE}, by : Grants, rx : Rxs]]
        BY <1>1 DEF Drop
    <2> QED
        BY <1>1, <2>1, <2>2, ZenonT(40) DEF Drop, LoopTypes, DaemonTypes, WireTypes, ViewTypes,
           daemonVars, viewVars
<1>2. CASE Relink
    BY <1>2, ZenonT(40) DEF Relink, LoopTypes, DaemonTypes, WireTypes, ViewTypes, daemonVars, viewVars, loopVars
<1> QED
    BY <1>1, <1>2

\* What the view sends.
LEMMA SentTypes ==
    ASSUME TermTypes, NEW known \in SUBSET Sess
    PROVE  /\ Detaching \in Seq(Orders) /\ Refit(known) \in Seq(Orders)
           /\ \A s \in Sess, op \in {"create", "attach", "write", "close", "meta", "replay"} :
                 <<Cmd(op, s)>> \in Seq(Orders)
           /\ <<Cmd("list", NoSession)>> \in Seq(Orders)
           /\ \A cmds \in Seq(Orders) : Sent(cmds) => up' \in Seq(Orders)
<1> USE DEF TermTypes
<1>1. \A op \in {"create", "attach", "detach", "write", "close", "meta", "replay"}, s \in Sess :
        Cmd(op, s) \in Orders
    BY DEF Cmd, Orders
<1>2. Cmd("list", NoSession) \in Orders
    BY DEF Cmd, Orders
<1>3. Detaching \in Seq(Orders)
    BY <1>1 DEF Detaching, ViewTypes
<1>4. Refit(known) \in Seq(Orders)
    BY <1>1 DEF Refit
<1> QED
    <2>1. \A o \in Orders : <<o>> \in Seq(Orders)
        OBVIOUS
    <2>2. ASSUME NEW cmds \in Seq(Orders), Sent(cmds) PROVE up' \in Seq(Orders)
        BY <2>2 DEF Sent, WireTypes
    <2> QED
        BY <1>1, <1>2, <1>3, <1>4, <2>1, <2>2

LEMMA SelectTypes ==
    ASSUME TermTypes, NEW s \in Sess, NEW b \in BOOLEAN, NEW known \in SUBSET Sess, Select(s, b, known)
    PROVE  /\ sel' \in Sess /\ replay' \in BOOLEAN /\ liveRef' \in Sess \cup {NoSession}
           /\ screen' \in Seq(Writings) /\ up' \in Seq(Orders)
<1>1. up' \in Seq(Orders)
    <2> DEFINE rest == IF b THEN <<Cmd("replay", s)>>
                       ELSE <<Cmd("attach", s)>>
                              \o (IF sel = s /\ ~replay THEN <<>> ELSE <<Cmd("write", s)>>)
    <2>1. rest \in Seq(Orders)
        BY SentTypes
    <2>2. Sent(Refit(known) \o Detaching \o rest)
        BY DEF Select
    <2>3. Refit(known) \o Detaching \o rest \in Seq(Orders)
        BY <2>1, SentTypes
    <2> HIDE DEF rest
    <2> QED
        BY <2>2, <2>3, SentTypes
<1> QED
    BY <1>1 DEF Select, TermTypes, ViewTypes

LEMMA ShowTypes ==
    ASSUME TermTypes, NEW target \in Sess \cup {NoSession}, Show(target)
    PROVE  TermTypes'
<1> USE DEF TermTypes
<1> DEFINE f == IF target = NoSession THEN focus ELSE target
<1>1. DaemonTypes' /\ LoopTypes'
    BY DEF Show, DaemonTypes, LoopTypes, daemonVars, loopVars
<1>2. DOMAIN list \subseteq Sess
    BY RowMapDomain DEF ViewTypes
<1>3. CASE f \in DOMAIN list
    <2>1. Sent(<<Cmd("list", NoSession), Cmd("attach", f), Cmd("write", f)>>)
        BY <1>3 DEF Show
    <2>2. Cmd("list", NoSession) \in Orders /\ Cmd("attach", f) \in Orders /\ Cmd("write", f) \in Orders
        BY <1>2, <1>3 DEF Cmd, Orders
    <2>3. <<Cmd("list", NoSession), Cmd("attach", f), Cmd("write", f)>> \in Seq(Orders)
        BY <2>2
    <2>4. up' \in Seq(Orders)
        BY <2>1, <2>3, SentTypes
    <2>5. sel' = f /\ liveRef' = f
        BY <1>3 DEF Show
    <2> QED
        BY <1>1, <1>2, <1>3, <2>4, <2>5 DEF Show, WireTypes, ViewTypes
<1>4. CASE f \notin DOMAIN list
    <2>1. Sent(<<Cmd("list", NoSession)>>)
        BY <1>4 DEF Show
    <2>2. up' \in Seq(Orders)
        BY <2>1, SentTypes
    <2> QED
        BY <1>1, <1>4, <2>2 DEF Show, WireTypes, ViewTypes
<1> QED
    BY <1>3, <1>4

LEMMA LeaveTypes ==
    ASSUME TermTypes, Hide \/ HandleBack
    PROVE  TermTypes'
<1> USE DEF TermTypes
<1>1. up' \in Seq(Orders)
    BY SentTypes DEF Hide, HandleBack
<1>2. /\ mounted' \in BOOLEAN /\ replay' \in BOOLEAN /\ sel' \in Sess \cup {NoSession}
      /\ liveRef' \in Sess \cup {NoSession} /\ screen' \in Seq(Writings)
    BY NoFrames DEF Hide, HandleBack, ViewTypes
<1> QED
    BY <1>1, <1>2, ZenonT(40) DEF Hide, HandleBack, DaemonTypes, LoopTypes, WireTypes, ViewTypes, daemonVars, loopVars

LEMMA OpenTypes ==
    ASSUME TermTypes, NEW s \in Sess, NEW b \in BOOLEAN, Open(s, b)
    PROVE  TermTypes'
<1>1. DOMAIN list \in SUBSET Sess
    BY RowMapDomain DEF TermTypes, ViewTypes
<1>2. /\ sel' \in Sess /\ replay' \in BOOLEAN /\ liveRef' \in Sess \cup {NoSession}
      /\ screen' \in Seq(Writings) /\ up' \in Seq(Orders)
    BY <1>1, SelectTypes DEF Open
<1> QED
    BY <1>2 DEF TermTypes, Open, DaemonTypes, LoopTypes, WireTypes, ViewTypes, daemonVars, loopVars

LEMMA OrderTypes ==
    ASSUME TermTypes, NEW s \in Sess, NEW op \in {"create", "close", "meta", "write"}, Order(op, s)
    PROVE  TermTypes'
<1>1. up' \in Seq(Orders)
    BY SentTypes DEF Order
<1> QED
    BY <1>1 DEF TermTypes, Order, DaemonTypes, LoopTypes, WireTypes, ViewTypes, daemonVars, loopVars, viewVars

LEMMA WrittenOK ==
    ASSUME TermTypes, NEW m \in Chunks \cup Catchups
    PROVE  Written(m) \in Seq(Writings)
<1>1. m.by \in Grants /\ m.type \in {"chunk", "replay", "catchup"}
    BY DEF Chunks, Catchups
<1>2. CASE m.type = "catchup"
    <2>1. Painted(m.outs, m) \in Writings
        BY <1>1, <1>2 DEF Chunks, Catchups, Painted, Writings
    <2> QED
        BY <1>2, <2>1 DEF Written, TermTypes, ViewTypes
<1>3. CASE m.type # "catchup"
    <2>1. Painted({m.at}, m) \in Writings
        BY <1>1, <1>3 DEF Chunks, Catchups, Painted, Writings
    <2> QED
        BY <1>3, <2>1 DEF Written, TermTypes, ViewTypes
<1> QED
    BY <1>2, <1>3

LEMMA ReceiveTypes ==
    ASSUME TermTypes, Receive
    PROVE  TermTypes'
<1> USE DEF TermTypes
<1>1. PICK m : m = Head(down)
    OBVIOUS
<1>2. m \in Frames /\ down' \in Seq(Frames) /\ linked' = linked
    BY <1>1 DEF Receive, WireTypes
<1>3. DaemonTypes' /\ LoopTypes'
    BY DEF Receive, DaemonTypes, LoopTypes, daemonVars, loopVars
<1>4. CASE m.type \in {"chunk", "catchup", "replay"}
    <2>1. m \in Chunks \cup Catchups
        BY <1>2, <1>4 DEF Frames, Errors, EventFrames, Lists
    <2>2. screen' = Written(m) /\ UNCHANGED <<up, mounted, sel, replay, liveRef, list>>
        BY <1>1, <1>4 DEF Receive
    <2> QED
        BY <1>2, <1>3, <2>1, <2>2, WrittenOK DEF WireTypes, ViewTypes
<1>5. CASE m.type \notin {"chunk", "catchup", "replay"}
    <2>1. list' \in RowMaps /\ mounted' = mounted
        BY <1>1, <1>2, <1>5, ListedOK DEF Receive, ViewTypes
    <2>2. PICK known \in SUBSET Sess : known = DOMAIN list'
        BY <2>1, RowMapDomain
    <2>3. CASE mounted /\ list' # list
        <3>1. FocusEffect(known)
            BY <1>1, <1>5, <2>2, <2>3 DEF Receive
        <3>2. CASE HonourFocus(known)
            <4>1. focus \in Sess
                BY <2>2, <3>2 DEF HonourFocus
            <4>2. Select(focus, FALSE, known)
                BY <3>2 DEF HonourFocus
            <4>3. /\ sel' \in Sess /\ replay' \in BOOLEAN /\ liveRef' \in Sess \cup {NoSession}
                  /\ screen' \in Seq(Writings) /\ up' \in Seq(Orders)
                BY <4>1, <4>2, SelectTypes
            <4> QED
                BY <1>2, <1>3, <2>1, <4>3 DEF WireTypes, ViewTypes
        <3>3. CASE AwaitFocus(known)
            <4>1. up' \in Seq(Orders)
                BY <3>3, SentTypes DEF AwaitFocus
            <4>2. screen' \in Seq(Writings)
                BY <3>3 DEF AwaitFocus, ViewTypes
            <4> QED
                BY <1>2, <1>3, <2>1, <3>3, <4>1, <4>2 DEF AwaitFocus, WireTypes, ViewTypes
        <3> QED
            BY <3>1, <3>2, <3>3 DEF FocusEffect
    <2>4. CASE ~(mounted /\ list' # list)
        <3>1. UNCHANGED <<up, sel, replay, liveRef, screen>>
            BY <1>1, <1>5, <2>4 DEF Receive
        <3> QED
            BY <1>2, <1>3, <2>1, <3>1 DEF WireTypes, ViewTypes
    <2> QED
        BY <2>3, <2>4
<1> QED
    BY <1>4, <1>5

LEMMA QuietTypes ==
    ASSUME TermTypes, GiveUp \/ UNCHANGED termVars
    PROVE  TermTypes'
BY DEF TermTypes, GiveUp, termVars, DaemonTypes, LoopTypes, WireTypes, ViewTypes, daemonVars, loopVars,
       wireVars, viewVars

LEMMA TermTypesNext == TermTypes /\ [TermNext]_termVars => TermTypes'
<1> SUFFICES ASSUME TermTypes, [TermNext]_termVars PROVE TermTypes'
    OBVIOUS
<1>1. CASE Daemon
    BY <1>1, IngestTypes, PublishTypes, EndedTypes, ForwardTypes, StreamTypes, PumpTypes,
       CommandTypes, FinishTypes DEF Daemon
<1>2. CASE Operator
    BY <1>2, ShowTypes, OpenTypes, OrderTypes, LeaveTypes DEF Operator
<1> QED
    BY <1>1, <1>2, ReceiveTypes, QuietTypes, SocketTypes DEF TermNext

THEOREM TermTypesInvariant == TermSpec => []TermTypes
<1>1. TermInit => TermTypes
    BY TermInitTypes
<1> QED
    BY <1>1, TermTypesNext, PTL DEF TermSpec

(***************************************************************************)
(* Nobody streams to a pane nobody views.  The bridge to the invariant: a  *)
(* session that is not the viewed one may still be attached, or have an    *)
(* attach on its way, only if a detach of it is on its way behind that.    *)
(***************************************************************************)
AttachIn(q, s) == \E i \in 1..Len(q) : q[i].op = "attach" /\ q[i].id = s
StopIn(q, s) ==
    \E i \in 1..Len(q) :
        /\ q[i].op = "detach" /\ q[i].id = s
        /\ \A j \in i..Len(q) : ~(q[j].op = "attach" /\ q[j].id = s)

Unwatched(s) ==
    att[s].on \/ seam.id = s \/ AttachIn(up, s) => StopIn(up, s)

LeakInv ==
    /\ TermTypes
    /\ ~linked => /\ up = <<>> /\ seam = NoSeam
                  /\ \A s \in Sess : ~att[s].on
    /\ ~mounted => liveRef = NoSession
    /\ \A s \in Sess : s # liveRef => Unwatched(s)

LEMMA StopJoined ==
    ASSUME NEW p \in Seq(Orders), NEW q \in Seq(Orders), NEW s \in Sess
    PROVE  /\ AttachIn(p \o q, s) <=> AttachIn(p, s) \/ AttachIn(q, s)
           /\ StopIn(q, s) => StopIn(p \o q, s)
           /\ StopIn(p, s) /\ ~AttachIn(q, s) => StopIn(p \o q, s)
<1>0. /\ p \o q \in Seq(Orders) /\ Len(p \o q) = Len(p) + Len(q)
      /\ Len(p) \in Nat /\ Len(q) \in Nat
    OBVIOUS
<1>1. \A i \in 1..Len(p) : (p \o q)[i] = p[i]
    OBVIOUS
<1>2. \A i \in 1..Len(q) : (p \o q)[Len(p) + i] = q[i]
    OBVIOUS
<1>3. \A i \in 1..(Len(p) + Len(q)) : i \in 1..Len(p) \/ (i - Len(p) \in 1..Len(q) /\ (p \o q)[i] = q[i - Len(p)])
    OBVIOUS
<1>4. AttachIn(p \o q, s) <=> AttachIn(p, s) \/ AttachIn(q, s)
    <2>1. AttachIn(p, s) => AttachIn(p \o q, s)
        BY <1>0, <1>1 DEF AttachIn
    <2>2. ASSUME AttachIn(q, s) PROVE AttachIn(p \o q, s)
        <3>1. PICK i \in 1..Len(q) : q[i].op = "attach" /\ q[i].id = s
            BY <2>2 DEF AttachIn
        <3>2. Len(p) + i \in 1..Len(p \o q)
            BY <1>0
        <3> QED
            BY <1>2, <3>1, <3>2 DEF AttachIn
    <2>3. ASSUME AttachIn(p \o q, s) PROVE AttachIn(p, s) \/ AttachIn(q, s)
        <3>1. PICK i \in 1..(Len(p) + Len(q)) : (p \o q)[i].op = "attach" /\ (p \o q)[i].id = s
            BY <1>0, <2>3 DEF AttachIn
        <3> QED
            BY <1>1, <1>3, <3>1 DEF AttachIn
    <2> QED
        BY <2>1, <2>2, <2>3
<1>5. ASSUME StopIn(q, s) PROVE StopIn(p \o q, s)
    <2>1. PICK i \in 1..Len(q) : /\ q[i].op = "detach" /\ q[i].id = s
                                 /\ \A j \in i..Len(q) : ~(q[j].op = "attach" /\ q[j].id = s)
        BY <1>5 DEF StopIn
    <2>2. Len(p) + i \in 1..Len(p \o q) /\ (p \o q)[Len(p) + i] = q[i]
        BY <1>0, <1>2
    <2>3. ASSUME NEW j \in (Len(p) + i)..Len(p \o q)
          PROVE  ~((p \o q)[j].op = "attach" /\ (p \o q)[j].id = s)
        <3>1. j - Len(p) \in i..Len(q) /\ j - Len(p) \in 1..Len(q) /\ j \notin 1..Len(p)
              /\ j \in 1..(Len(p) + Len(q))
            BY <1>0
        <3> QED
            BY <1>3, <2>1, <3>1
    <2> QED
        BY <2>1, <2>2, <2>3 DEF StopIn
<1>6. ASSUME StopIn(p, s), ~AttachIn(q, s) PROVE StopIn(p \o q, s)
    <2>1. PICK i \in 1..Len(p) : /\ p[i].op = "detach" /\ p[i].id = s
                                 /\ \A j \in i..Len(p) : ~(p[j].op = "attach" /\ p[j].id = s)
        BY <1>6 DEF StopIn
    <2>2. i \in 1..Len(p \o q) /\ (p \o q)[i] = p[i]
        BY <1>0, <1>1
    <2>3. ASSUME NEW j \in i..Len(p \o q)
          PROVE  ~((p \o q)[j].op = "attach" /\ (p \o q)[j].id = s)
        <3>1. j \in 1..(Len(p) + Len(q)) /\ (j \in 1..Len(p) => j \in i..Len(p))
            BY <1>0
        <3> QED
            BY <1>1, <1>3, <1>6, <2>1, <3>1 DEF AttachIn
    <2> QED
        BY <2>1, <2>2, <2>3 DEF StopIn
<1> QED
    BY <1>4, <1>5, <1>6

LEMMA StopRead ==
    ASSUME NEW q \in Seq(Orders), q # <<>>, NEW s \in Sess
    PROVE  /\ AttachIn(Tail(q), s) => AttachIn(q, s)
           /\ StopIn(q, s) => StopIn(Tail(q), s) \/ (Head(q).op = "detach" /\ Head(q).id = s
                                                       /\ ~AttachIn(Tail(q), s))
<1>0. /\ Tail(q) \in Seq(Orders) /\ Len(Tail(q)) = Len(q) - 1 /\ Head(q) = q[1]
      /\ Len(q) \in Nat \ {0}
    OBVIOUS
<1>1. \A i \in 1..(Len(q) - 1) : Tail(q)[i] = q[i + 1]
    OBVIOUS
<1>2. AttachIn(Tail(q), s) => AttachIn(q, s)
    BY <1>0, <1>1 DEF AttachIn
<1>3. ASSUME StopIn(q, s)
      PROVE  StopIn(Tail(q), s) \/ (Head(q).op = "detach" /\ Head(q).id = s /\ ~AttachIn(Tail(q), s))
    <2>1. PICK i \in 1..Len(q) : /\ q[i].op = "detach" /\ q[i].id = s
                                 /\ \A j \in i..Len(q) : ~(q[j].op = "attach" /\ q[j].id = s)
        BY <1>3 DEF StopIn
    <2>2. CASE i = 1
        <3>1. ~AttachIn(Tail(q), s)
            BY <1>0, <1>1, <2>1, <2>2 DEF AttachIn
        <3> QED
            BY <1>0, <2>1, <2>2, <3>1
    <2>3. CASE i # 1
        <3>1. i - 1 \in 1..Len(Tail(q)) /\ Tail(q)[i - 1] = q[i]
            BY <1>0, <1>1, <2>3
        <3>2. \A j \in (i - 1)..Len(Tail(q)) : j \in 1..(Len(q) - 1) /\ j + 1 \in i..Len(q)
            BY <1>0, <2>3
        <3>3. \A j \in (i - 1)..Len(Tail(q)) : ~(Tail(q)[j].op = "attach" /\ Tail(q)[j].id = s)
            BY <1>1, <2>1, <3>2
        <3> QED
            BY <2>1, <3>1, <3>3 DEF StopIn
    <2> QED
        BY <2>2, <2>3
<1> QED
    BY <1>2, <1>3

LEMMA StopEmpty ==
    ASSUME NEW s \in Sess
    PROVE  ~AttachIn(<<>>, s) /\ ~StopIn(<<>>, s)
BY DEF AttachIn, StopIn

LEMMA StopOne ==
    ASSUME NEW s \in Sess, NEW o \in Orders
    PROVE  /\ AttachIn(<<o>>, s) <=> o.op = "attach" /\ o.id = s
           /\ o.op = "detach" /\ o.id = s => StopIn(<<o>>, s)
<1>1. Len(<<o>>) = 1 /\ <<o>>[1] = o
    OBVIOUS
<1>2. AttachIn(<<o>>, s) <=> o.op = "attach" /\ o.id = s
    BY <1>1 DEF AttachIn
<1>3. ASSUME o.op = "detach", o.id = s PROVE StopIn(<<o>>, s)
    <2>1. \A j \in 1..1 : j = 1
        OBVIOUS
    <2> QED
        BY <1>1, <1>3, <2>1 DEF StopIn
<1> QED
    BY <1>2, <1>3

LEMMA StopCmd ==
    ASSUME NEW op \in {"create", "attach", "detach", "write", "close", "meta", "replay"},
           NEW s \in Sess, NEW r \in Sess
    PROVE  /\ <<Cmd(op, s)>> \in Seq(Orders)
           /\ AttachIn(<<Cmd(op, s)>>, r) <=> op = "attach" /\ s = r
           /\ op = "detach" /\ s = r => StopIn(<<Cmd(op, s)>>, r)
<1>1. Cmd(op, s) \in Orders /\ Cmd(op, s).op = op /\ Cmd(op, s).id = s
    BY DEF Cmd, Orders
<1>2. PICK o \in Orders : o = Cmd(op, s) /\ o.op = op /\ o.id = s
    BY <1>1, Zenon
<1>3. <<o>> \in Seq(Orders)
    OBVIOUS
<1> QED
    BY <1>2, <1>3, StopOne

\* What a step that only sends orders has to send.
LEMMA SendKeeps ==
    ASSUME LeakInv, NEW cmds \in Seq(Orders), Sent(cmds), UNCHANGED <<att, seam, linked>>,
           \A s \in Sess : s # liveRef' => ~AttachIn(cmds, s) /\ (s = liveRef => StopIn(cmds, s))
    PROVE  /\ ~linked' => /\ up' = <<>> /\ seam' = NoSeam
                          /\ \A s \in Sess : ~att'[s].on
           /\ \A s \in Sess : s # liveRef' => Unwatched(s)'
<1>1. up \in Seq(Orders)
    BY DEF LeakInv, TermTypes, WireTypes
<1>2. CASE linked
    <2>1. up' = up \o cmds
        BY <1>2 DEF Sent
    <2>2. ASSUME NEW s \in Sess, s # liveRef' PROVE Unwatched(s)'
        <3>1. CASE s = liveRef
            BY <1>1, <2>1, <2>2, <3>1, StopJoined DEF Unwatched
        <3>2. CASE s # liveRef
            <4>1. Unwatched(s)
                BY <3>2 DEF LeakInv
            <4> QED
                BY <1>1, <2>1, <2>2, <4>1, StopJoined DEF Unwatched
        <3> QED
            BY <3>1, <3>2
    <2> QED
        BY <1>2, <2>2
<1>3. CASE ~linked
    <2>1. /\ up' = <<>> /\ seam' = NoSeam /\ att' = att /\ \A s \in Sess : ~att[s].on
        BY <1>3 DEF Sent, LeakInv
    <2>2. ASSUME NEW s \in Sess PROVE Unwatched(s)'
        BY <2>1, StopEmpty, TerminalsAssumption DEF Unwatched, NoSeam
    <2> QED
        BY <2>1, <2>2
<1> QED
    BY <1>2, <1>3

LEMMA SelectKeeps ==
    ASSUME LeakInv, NEW s \in Sess, NEW b \in BOOLEAN, NEW known \in SUBSET Sess,
           Select(s, b, known), UNCHANGED <<att, seam, linked>>
    PROVE  /\ ~linked' => /\ up' = <<>> /\ seam' = NoSeam
                          /\ \A r \in Sess : ~att'[r].on
           /\ \A r \in Sess : r # liveRef' => Unwatched(r)'
<1> DEFINE rest == IF b THEN <<Cmd("replay", s)>>
                   ELSE <<Cmd("attach", s)>>
                          \o (IF sel = s /\ ~replay THEN <<>> ELSE <<Cmd("write", s)>>)
<1>0. TermTypes
    BY DEF LeakInv
<1>1. rest \in Seq(Orders) /\ Detaching \in Seq(Orders) /\ Refit(known) \in Seq(Orders)
    BY <1>0, SentTypes
<1>2. /\ Cmd("replay", s) \in Orders /\ Cmd("attach", s) \in Orders /\ Cmd("write", s) \in Orders
      /\ \A r \in Sess : Cmd("detach", r) \in Orders /\ Cmd("write", r) \in Orders
    BY DEF Cmd, Orders
<1>3. ASSUME NEW r \in Sess PROVE ~AttachIn(Refit(known), r)
    <2>1. CASE Refit(known) = <<>>
        BY <2>1, StopEmpty
    <2>2. CASE Refit(known) = <<Cmd("write", sel)>> /\ sel \in Sess
        BY <2>2, StopCmd
    <2> QED
        BY <2>1, <2>2 DEF Refit
<1>4. ASSUME NEW r \in Sess PROVE ~AttachIn(Detaching, r) /\ (r = liveRef => StopIn(Detaching, r))
    <2>1. CASE liveRef = NoSession
        BY <2>1, StopEmpty, TerminalsAssumption DEF Detaching
    <2>2. CASE liveRef # NoSession
        <3>1. liveRef \in Sess /\ Detaching = <<Cmd("detach", liveRef)>>
            BY <1>0, <2>2 DEF Detaching, TermTypes, ViewTypes
        <3> QED
            BY <1>2, <3>1, StopOne DEF Cmd
    <2> QED
        BY <2>1, <2>2
<1>5. ASSUME NEW r \in Sess, r # liveRef' PROVE ~AttachIn(rest, r)
    <2>1. CASE b
        <3>1. rest = <<Cmd("replay", s)>>
            BY <2>1
        <3> HIDE DEF rest
        <3> QED
            BY <3>1, StopCmd
    <2>2. CASE ~b
        <3>1. r # s
            BY <1>5, <2>2 DEF Select
        <3>2. ~AttachIn(<<Cmd("attach", s)>>, r) /\ ~AttachIn(<<Cmd("write", s)>>, r) /\ ~AttachIn(<<>>, r)
            BY <1>2, <3>1, StopOne, StopEmpty DEF Cmd
        <3>3. PICK w \in Seq(Orders) : /\ w = IF sel = s /\ ~replay THEN <<>> ELSE <<Cmd("write", s)>>
                                       /\ ~AttachIn(w, r)
            <4>1. <<Cmd("write", s)>> \in Seq(Orders) /\ <<>> \in Seq(Orders)
                BY StopCmd, NoFrames
            <4> QED
                BY <3>2, <4>1, Zenon
        <3>4. <<Cmd("attach", s)>> \in Seq(Orders) /\ rest = <<Cmd("attach", s)>> \o w
            BY <1>2, <2>2, <3>3
        <3> HIDE DEF rest
        <3> QED
            BY <3>2, <3>3, <3>4, StopJoined
    <2> QED
        BY <2>1, <2>2
<1>6. Sent(Refit(known) \o Detaching \o rest)
    BY DEF Select
<1> HIDE DEF rest
<1>7. PICK cmds \in Seq(Orders) : cmds = Refit(known) \o Detaching \o rest
    <2>1. Refit(known) \o Detaching \o rest \in Seq(Orders)
        BY <1>1
    <2> QED
        BY <2>1, Zenon
<1>8. ASSUME NEW r \in Sess, r # liveRef' PROVE ~AttachIn(cmds, r) /\ (r = liveRef => StopIn(cmds, r))
    <2>1. Refit(known) \o Detaching \in Seq(Orders)
        BY <1>1
    <2>2. ~AttachIn(Refit(known) \o Detaching, r) /\ (r = liveRef => StopIn(Refit(known) \o Detaching, r))
        BY <1>1, <1>3, <1>4, StopJoined
    <2> QED
        BY <1>1, <1>5, <1>7, <1>8, <2>1, <2>2, StopJoined
<1> QED
    BY <1>6, <1>7, <1>8, SendKeeps

LEMMA LeakShow ==
    ASSUME LeakInv, NEW target \in Sess \cup {NoSession}, Show(target)
    PROVE  LeakInv'
<1> DEFINE f == IF target = NoSession THEN focus ELSE target
<1>0. TermTypes /\ TermTypes'
    BY ShowTypes DEF LeakInv
<1>1. UNCHANGED <<att, seam, linked>> /\ liveRef = NoSession /\ mounted' = TRUE
    BY DEF Show, LeakInv, loopVars
<1>2. Cmd("list", NoSession) \in Orders
    BY DEF Cmd, Orders
<1>3. CASE f \in DOMAIN list
    <2>1. Sent(<<Cmd("list", NoSession), Cmd("attach", f), Cmd("write", f)>>) /\ liveRef' = f
        BY <1>3 DEF Show
    <2>2. f \in Sess
        BY <1>0, <1>3, RowMapDomain DEF TermTypes, ViewTypes
    <2>3. Cmd("attach", f) \in Orders /\ Cmd("write", f) \in Orders
        BY <2>2 DEF Cmd, Orders
    <2> HIDE DEF f
    <2>4. PICK cmds \in Seq(Orders) : cmds = <<Cmd("list", NoSession), Cmd("attach", f), Cmd("write", f)>>
        <3>1. <<Cmd("list", NoSession), Cmd("attach", f), Cmd("write", f)>> \in Seq(Orders)
            BY <1>2, <2>3
        <3> QED
            BY <3>1, Zenon
    <2>5. /\ Len(cmds) = 3 /\ cmds[1] = Cmd("list", NoSession) /\ cmds[2] = Cmd("attach", f)
          /\ cmds[3] = Cmd("write", f)
        BY <2>4
    <2>6. \A s \in Sess : s # liveRef' => ~AttachIn(cmds, s) /\ (s = liveRef => StopIn(cmds, s))
        BY <1>1, <2>1, <2>5, TerminalsAssumption DEF AttachIn, Cmd
    <2>7. /\ ~linked' => /\ up' = <<>> /\ seam' = NoSeam
                         /\ \A r \in Sess : ~att'[r].on
          /\ \A r \in Sess : r # liveRef' => Unwatched(r)'
        BY <1>1, <2>1, <2>4, <2>6, SendKeeps
    <2> QED
        BY <1>0, <1>1, <2>7 DEF LeakInv
<1>4. CASE f \notin DOMAIN list
    <2>1. Sent(<<Cmd("list", NoSession)>>) /\ liveRef' = liveRef
        BY <1>4 DEF Show
    <2>2. <<Cmd("list", NoSession)>> \in Seq(Orders)
        BY <1>2
    <2>3. \A s \in Sess : s # liveRef' => ~AttachIn(<<Cmd("list", NoSession)>>, s)
                                          /\ (s = liveRef => StopIn(<<Cmd("list", NoSession)>>, s))
        BY <1>1, <1>2, <2>1, StopOne, TerminalsAssumption DEF Cmd
    <2>7. /\ ~linked' => /\ up' = <<>> /\ seam' = NoSeam
                         /\ \A r \in Sess : ~att'[r].on
          /\ \A r \in Sess : r # liveRef' => Unwatched(r)'
        BY <1>1, <2>1, <2>2, <2>3, SendKeeps
    <2> QED
        BY <1>0, <1>1, <2>7 DEF LeakInv
<1> QED
    BY <1>3, <1>4

LEMMA LeakLeave ==
    ASSUME LeakInv, Hide \/ HandleBack
    PROVE  LeakInv'
<1>0. TermTypes /\ TermTypes'
    BY LeaveTypes DEF LeakInv
<1>1. UNCHANGED <<att, seam, linked>> /\ liveRef' = NoSession /\ Sent(Detaching)
    BY DEF Hide, HandleBack, loopVars
<1>2. Detaching \in Seq(Orders)
    BY <1>0, SentTypes
<1>3. \A s \in Sess : ~AttachIn(Detaching, s) /\ (s = liveRef => StopIn(Detaching, s))
    <2>1. CASE liveRef = NoSession
        BY <2>1, StopEmpty, TerminalsAssumption DEF Detaching
    <2>2. CASE liveRef # NoSession
        <3>1. liveRef \in Sess /\ Detaching = <<Cmd("detach", liveRef)>>
            BY <1>0, <2>2 DEF Detaching, TermTypes, ViewTypes
        <3>2. Cmd("detach", liveRef) \in Orders
            BY <3>1 DEF Cmd, Orders
        <3> QED
            BY <3>1, <3>2, StopOne DEF Cmd
    <2> QED
        BY <2>1, <2>2
<1>4. /\ ~linked' => /\ up' = <<>> /\ seam' = NoSeam
                     /\ \A r \in Sess : ~att'[r].on
      /\ \A r \in Sess : r # liveRef' => Unwatched(r)'
    BY <1>1, <1>2, <1>3, SendKeeps
<1> QED
    BY <1>0, <1>1, <1>4 DEF LeakInv

LEMMA LeakOpen ==
    ASSUME LeakInv, NEW s \in Sess, NEW b \in BOOLEAN, Open(s, b)
    PROVE  LeakInv'
<1>0. TermTypes /\ TermTypes'
    BY OpenTypes DEF LeakInv
<1>1. PICK known \in SUBSET Sess : known = DOMAIN list
    BY <1>0, RowMapDomain DEF TermTypes, ViewTypes
<1>2. Select(s, b, known) /\ UNCHANGED <<att, seam, linked>> /\ mounted' = TRUE
    BY <1>1 DEF Open, loopVars
<1>3. /\ ~linked' => /\ up' = <<>> /\ seam' = NoSeam
                     /\ \A r \in Sess : ~att'[r].on
      /\ \A r \in Sess : r # liveRef' => Unwatched(r)'
    BY <1>2, SelectKeeps
<1> QED
    BY <1>0, <1>2, <1>3 DEF LeakInv

LEMMA LeakOrder ==
    ASSUME LeakInv, NEW s \in Sess, NEW op \in {"create", "close", "meta", "write"}, Order(op, s)
    PROVE  LeakInv'
<1>0. TermTypes /\ TermTypes'
    BY OrderTypes DEF LeakInv
<1>1. UNCHANGED <<att, seam, linked, liveRef, mounted>> /\ Sent(<<Cmd(op, s)>>)
    BY DEF Order, loopVars, viewVars
<1>2. Cmd(op, s) \in Orders
    BY DEF Cmd, Orders
<1>3. \A r \in Sess : ~AttachIn(<<Cmd(op, s)>>, r)
    BY <1>2, StopOne DEF Cmd
<1>4. /\ ~linked' => /\ up' = <<>> /\ seam' = NoSeam
                     /\ \A r \in Sess : ~att'[r].on
      /\ \A r \in Sess : r # liveRef' => Unwatched(r)'
    <2>1. PICK cmds \in Seq(Orders) : cmds = <<Cmd(op, s)>>
        BY StopCmd, Zenon
    <2>2. \A r \in Sess : r # liveRef' => ~AttachIn(cmds, r)
        BY <1>3, <2>1
    <2>3. \A r \in Sess : r # liveRef' => r # liveRef
        BY <1>1
    <2> QED
        BY <1>1, <2>1, <2>2, <2>3, SendKeeps
<1> QED
    BY <1>0, <1>1, <1>4 DEF LeakInv

LEMMA LeakReceive ==
    ASSUME LeakInv, Receive
    PROVE  LeakInv'
<1>0. TermTypes /\ TermTypes'
    BY ReceiveTypes DEF LeakInv
<1>1. UNCHANGED <<att, seam, linked, mounted>>
    BY DEF Receive, loopVars
<1>2. PICK known \in SUBSET Sess : known = DOMAIN list'
    BY <1>0, RowMapDomain DEF TermTypes, ViewTypes
<1>3. CASE UNCHANGED <<up, liveRef>>
    <2>1. UNCHANGED <<up, liveRef, att, seam, linked, mounted>>
        BY <1>1, <1>3
    <2>2. \A s \in Sess : Unwatched(s)' = Unwatched(s)
        BY <2>1 DEF Unwatched
    <2> QED
        BY <1>0, <2>1, <2>2 DEF LeakInv
<1>4. CASE ~UNCHANGED <<up, liveRef>>
    <2>1. mounted /\ FocusEffect(known)
        <3>1. PICK m : m = Head(down)
            OBVIOUS
        <3>2. m.type \notin {"chunk", "catchup", "replay"}
            BY <1>4, <3>1 DEF Receive
        <3>3. IF mounted /\ list' # list THEN FocusEffect(DOMAIN list')
               ELSE UNCHANGED <<up, sel, replay, liveRef, screen, focus, timer, notice>>
            BY <3>1, <3>2 DEF Receive
        <3> QED
            BY <1>2, <1>4, <3>3
    <2>2. /\ ~linked' => /\ up' = <<>> /\ seam' = NoSeam
                         /\ \A r \in Sess : ~att'[r].on
          /\ \A r \in Sess : r # liveRef' => Unwatched(r)'
        <3>1. CASE HonourFocus(known)
            <4>1. focus \in Sess /\ Select(focus, FALSE, known)
                BY <1>2, <3>1 DEF HonourFocus
            <4> QED
                BY <1>1, <4>1, SelectKeeps
        <3>2. CASE AwaitFocus(known)
            <4>1. Sent(Refit(known)) /\ liveRef' = liveRef
                BY <3>2 DEF AwaitFocus
            <4>2. Refit(known) \in Seq(Orders)
                BY <1>0, SentTypes
            <4>3. \A r \in Sess : ~AttachIn(Refit(known), r)
                <5>1. CASE Refit(known) = <<>>
                    BY <5>1, StopEmpty
                <5>2. CASE Refit(known) = <<Cmd("write", sel)>> /\ sel \in Sess
                    <6>1. Cmd("write", sel) \in Orders
                        BY <5>2 DEF Cmd, Orders
                    <6> QED
                        BY <5>2, <6>1, StopOne DEF Cmd
                <5> QED
                    BY <5>1, <5>2 DEF Refit
            <4>4. \A r \in Sess : r # liveRef' => r # liveRef
                BY <4>1
            <4> QED
                BY <1>1, <4>1, <4>2, <4>3, <4>4, SendKeeps
        <3> QED
            BY <2>1, <3>1, <3>2 DEF FocusEffect
    <2> QED
        BY <1>0, <1>1, <2>1, <2>2 DEF LeakInv
<1> QED
    BY <1>3, <1>4

\* A session's forwarder only ever ends by itself.
LEMMA LeakFewer ==
    ASSUME LeakInv, TermTypes', UNCHANGED <<up, liveRef, linked, mounted>>,
           \A s \in Sess : att'[s].on => att[s].on,
           \A s \in Sess : seam'.id = s => seam.id = s, seam = NoSeam => seam' = NoSeam
    PROVE  LeakInv'
<1>1. \A s \in Sess : Unwatched(s) => Unwatched(s)'
    BY DEF Unwatched
<1> QED
    BY <1>1 DEF LeakInv

LEMMA LeakDaemon ==
    ASSUME LeakInv, \/ \E s \in Sess : Ingest(s) \/ Publish(s) \/ Ended(s) \/ Forward(s)
                    \/ \E r \in replays : StreamReplay(r)
                    \/ PumpConn \/ PumpFeed
    PROVE  LeakInv'
<1>0. TermTypes /\ TermTypes'
    BY IngestTypes, PublishTypes, EndedTypes, ForwardTypes, StreamTypes, PumpTypes DEF LeakInv
<1>1. UNCHANGED <<up, liveRef, linked, mounted>>
    BY DEF Ingest, Publish, Ended, Forward, StreamReplay, PumpConn, PumpFeed, wireVars, viewVars
<1>2. CASE UNCHANGED <<att, seam>>
    BY <1>0, <1>1, <1>2, LeakFewer
<1>3. ASSUME NEW s \in Sess, Publish(s) PROVE LeakInv'
    <2>1. PICK i \in unsent[s] : Publish(s)!(i)
        BY <1>3 DEF Publish
    <2>2. \A r \in Sess : att'[r].on => att[r].on
        BY <1>0, <2>1 DEF TermTypes, LoopTypes
    <2>3. (\A r \in Sess : seam'.id = r => seam.id = r) /\ (seam = NoSeam => seam' = NoSeam)
        <3>1. CASE seam.id = s
            <4>1. seam # NoSeam
                BY <3>1, TerminalsAssumption DEF NoSeam
            <4>2. seam' = [seam EXCEPT !.rx = Deliver(seam.rx, i)] /\ seam'.id = seam.id
                BY <1>0, <2>1, <3>1, <4>1 DEF TermTypes, LoopTypes
            <4> QED
                BY <4>1, <4>2
        <3>2. CASE seam.id # s
            BY <2>1, <3>2
        <3> QED
            BY <3>1, <3>2
    <2> QED
        BY <1>0, <1>1, <2>2, <2>3, LeakFewer
<1>4. ASSUME NEW s \in Sess, Forward(s) PROVE LeakInv'
    <2>1. \A r \in Sess : att'[r].on => att[r].on
        <3>1. NoAtt.on = FALSE
            BY DEF NoAtt
        <3> QED
            BY <1>0, <1>4, <3>1 DEF Forward, TermTypes, LoopTypes
    <2>2. seam' = seam
        BY <1>4 DEF Forward
    <2> QED
        BY <1>0, <1>1, <2>1, <2>2, LeakFewer
<1> QED
    BY <1>2, <1>3, <1>4 DEF Ingest, Ended, StreamReplay, PumpConn, PumpFeed, loopVars

\* A command read: what it stops it was sent to stop, what it starts had
\* its attach waiting.
LEMMA LeakRead ==
    ASSUME LeakInv, ReadCommand
    PROVE  LeakInv'
<1> DEFINE c == Head(up)
<1>0. TermTypes /\ TermTypes'
    BY CommandTypes DEF LeakInv
<1>1. /\ seam = NoSeam /\ up # <<>> /\ up' = Tail(up) /\ up \in Seq(Orders) /\ c \in Orders
      /\ UNCHANGED <<linked, mounted, liveRef>>
    BY <1>0 DEF ReadCommand, viewVars, TermTypes, WireTypes
<1>2. linked
    BY <1>1 DEF LeakInv
<1>3. \A s \in Sess : /\ AttachIn(Tail(up), s) => AttachIn(up, s)
                      /\ StopIn(up, s) => StopIn(Tail(up), s)
                            \/ (c.op = "detach" /\ c.id = s /\ ~AttachIn(Tail(up), s))
    BY <1>1, StopRead
<1>4. \A s \in Sess : c.op = "attach" /\ c.id = s => AttachIn(up, s)
    <2>1. 1 \in 1..Len(up) /\ up[1] = c
        BY <1>1
    <2> QED
        BY <2>1 DEF AttachIn
<1>5. ASSUME NEW s \in Sess
      PROVE  /\ att'[s].on => att[s].on
             /\ c.op = "detach" /\ c.id = s => ~att'[s].on
             /\ seam'.id = s => c.op = "attach" /\ c.id = s
             /\ c.op = "detach" => seam' = seam
    <2>0. NoAtt.on = FALSE /\ NoSeam.id # s
        BY TerminalsAssumption DEF NoAtt, NoSeam
    <2>1. CASE c.op = "attach"
        <3>1. PICK r \in Sess : r = c.id
            BY <1>1, <2>1 DEF Orders
        <3>2. TermAttach(r)
            BY <1>1, <2>1, <3>1 DEF ReadCommand
        <3>3. att' = [att EXCEPT ![r] = NoAtt] /\ att \in [Sess -> {NoAtt} \cup [on : {TRUE}, by : Grants, rx : Rxs]]
            BY <1>0, <3>2 DEF TermAttach, TermTypes, LoopTypes
        <3>4. seam' = seam \/ seam'.id = r
            BY <3>2 DEF TermAttach
        <3> QED
            BY <1>1, <2>0, <2>1, <3>1, <3>3, <3>4
    <2>2. CASE c.op \in {"detach", "close"}
        <3>1. PICK r \in Sess : r = c.id
            BY <1>1, <2>2 DEF Orders
        <3>2. TermDetach(r) \/ TermClose(r)
            BY <1>1, <2>2, <3>1 DEF ReadCommand
        <3>3. att' = [att EXCEPT ![r] = NoAtt] /\ seam' = seam
              /\ att \in [Sess -> {NoAtt} \cup [on : {TRUE}, by : Grants, rx : Rxs]]
            BY <1>0, <3>2 DEF TermDetach, TermClose, TermTypes, LoopTypes
        <3> QED
            BY <1>1, <2>0, <2>2, <3>1, <3>3
    <2>3. CASE c.op \notin {"attach", "detach", "close"}
        <3>1. c.op \in {"create", "write", "list", "meta", "replay"}
            BY <1>1, <2>3 DEF Orders
        <3>2. UNCHANGED <<att, seam>>
            <4>1. PICK r : r = c.id
                OBVIOUS
            <4>2. TermCreate(r) \/ TermWrite(r) \/ TermList \/ TermSetMeta \/ TermReplay(r)
                BY <1>1, <3>1, <4>1 DEF ReadCommand
            <4> QED
                BY <4>2 DEF TermCreate, TermWrite, TermList, TermSetMeta, TermReplay, loopVars
        <3> QED
            BY <1>1, <2>0, <2>3, <3>2
    <2> QED
        BY <2>1, <2>2, <2>3
<1> HIDE DEF c
<1>6. ASSUME NEW s \in Sess, s # liveRef' PROVE Unwatched(s)'
    <2>1. Unwatched(s)
        BY <1>1, <1>6 DEF LeakInv
    <2>2. seam'.id = s => AttachIn(up, s)
        BY <1>4, <1>5
    <2>3. ASSUME att'[s].on \/ seam'.id = s \/ AttachIn(up', s) PROVE StopIn(up', s)
        <3>1. StopIn(up, s)
            BY <1>1, <1>3, <1>5, <2>1, <2>2, <2>3 DEF Unwatched
        <3>2. CASE c.op = "detach" /\ c.id = s /\ ~AttachIn(Tail(up), s)
            BY <1>1, <1>5, <2>3, <3>2
        <3> QED
            BY <1>1, <1>3, <3>1, <3>2
    <2> QED
        BY <2>3 DEF Unwatched
<1> QED
    BY <1>0, <1>1, <1>2, <1>6 DEF LeakInv

LEMMA LeakFinish ==
    ASSUME LeakInv, FinishAttach
    PROVE  LeakInv'
<1>0. TermTypes /\ TermTypes'
    BY FinishTypes DEF LeakInv
<1>1. /\ seam # NoSeam /\ seam' = NoSeam /\ UNCHANGED <<up, linked, mounted, liveRef>>
      /\ att' = [att EXCEPT ![seam.id] = [on |-> TRUE, by |-> seam.by, rx |-> seam.rx]]
    BY DEF FinishAttach, viewVars
<1>2. linked
    BY <1>1 DEF LeakInv
<1>3. ASSUME NEW s \in Sess PROVE (att'[s].on => att[s].on \/ seam.id = s) /\ seam'.id # s
    BY <1>0, <1>1, TerminalsAssumption DEF TermTypes, LoopTypes, NoSeam
<1>4. \A s \in Sess : Unwatched(s) => Unwatched(s)'
    BY <1>1, <1>3 DEF Unwatched
<1> QED
    BY <1>0, <1>1, <1>2, <1>4 DEF LeakInv

LEMMA LeakSocket ==
    ASSUME LeakInv, Drop \/ Relink
    PROVE  LeakInv'
<1>0. TermTypes /\ TermTypes'
    BY SocketTypes DEF LeakInv
<1>1. UNCHANGED <<mounted, liveRef>>
    BY DEF Drop, Relink, viewVars
<1>2. up' = <<>> /\ seam' = NoSeam /\ \A s \in Sess : ~att'[s].on
    <2>1. NoAtt.on = FALSE
        BY DEF NoAtt
    <2>2. CASE Drop
        BY <2>1, <2>2 DEF Drop
    <2>3. CASE Relink
        BY <2>3 DEF Relink, LeakInv, loopVars
    <2> QED
        BY <2>2, <2>3
<1>3. \A s \in Sess : Unwatched(s)'
    BY <1>2, StopEmpty, TerminalsAssumption DEF Unwatched, NoSeam
<1> QED
    BY <1>0, <1>1, <1>2, <1>3 DEF LeakInv

LEMMA LeakQuiet ==
    ASSUME LeakInv, GiveUp \/ UNCHANGED termVars
    PROVE  LeakInv'
<1>0. TermTypes /\ TermTypes'
    BY QuietTypes DEF LeakInv
<1>1. UNCHANGED <<att, seam, up, linked, mounted, liveRef>>
    BY DEF GiveUp, termVars, loopVars, wireVars, viewVars
<1> QED
    BY <1>0, <1>1, LeakFewer

\* Nobody streams to a pane nobody views (Terminals.tsx's cleanup and
\* handleSelect detach, handle_terminal_command): once the orders sent are
\* read, whatever is still forwarded is the viewed session.
THEOREM NoLeakedForwarderHolds == TermSpec => []NoLeakedForwarder
<1>1. TermInit => LeakInv
    <2> SUFFICES ASSUME TermInit PROVE LeakInv
        OBVIOUS
    <2>1. \A s \in Sess : Unwatched(s)
        <3>1. NoAtt.on = FALSE
            BY DEF NoAtt
        <3> QED
            BY <3>1, StopEmpty, TerminalsAssumption DEF TermInit, Unwatched, NoSeam
    <2> QED
        BY <2>1, TermInitTypes DEF LeakInv, TermInit
<1>2. LeakInv /\ [TermNext]_termVars => LeakInv'
    <2> SUFFICES ASSUME LeakInv, [TermNext]_termVars PROVE LeakInv'
        OBVIOUS
    <2>1. CASE Daemon
        BY <2>1, LeakDaemon, LeakRead, LeakFinish DEF Daemon
    <2>2. CASE Operator
        BY <2>2, LeakShow, LeakOpen, LeakOrder, LeakLeave DEF Operator
    <2> QED
        BY <2>1, <2>2, LeakReceive, LeakQuiet, LeakSocket DEF TermNext
<1>3. LeakInv => NoLeakedForwarder
    <2> SUFFICES ASSUME LeakInv, up = <<>>, NEW s \in Sess, att[s].on PROVE s = liveRef
        BY DEF NoLeakedForwarder
    <2> QED
        BY StopEmpty DEF LeakInv, Unwatched
<1> QED
    BY <1>1, <1>2, <1>3, PTL DEF TermSpec

(***************************************************************************)
(* The attach seam.  An attachment's output travels from its receiver over *)
(* the connection's channel and the wire to the screen; each place holds   *)
(* later frames than the next.  Positions are read in the history h.       *)
(***************************************************************************)
IsOut(h, x) == x \in 1..Len(h) /\ h[x] = "out"

Paints(m, a, h) == m.type = "chunk" /\ m.by = a /\ IsOut(h, m.at)
ChunkOuts(q, a, h) == {q[i].at : i \in {j \in 1..Len(q) : Paints(q[j], a, h)}}
Rising(q, a, h) ==
    \A i, j \in 1..Len(q) :
        i < j /\ Paints(q[i], a, h) /\ Paints(q[j], a, h) => q[i].at < q[j].at

Kept(i, a, h) == a.from <= i /\ IsOut(h, i)
RxOuts(q, a, h) == {q[i] : i \in {j \in 1..Len(q) : Kept(q[j], a, h)}}
RxRising(q, a, h) ==
    \A i, j \in 1..Len(q) :
        i < j /\ Kept(q[i], a, h) /\ Kept(q[j], a, h) => q[i] < q[j]

Wrote(e, a) == e.kind = "chunk" /\ e.by = a
ScreenOuts(sc, a) == UNION {sc[i].outs : i \in {j \in 1..Len(sc) : Wrote(sc[j], a)}}
ScreenRising(sc, a) ==
    \A i, j \in 1..Len(sc) :
        i < j /\ Wrote(sc[i], a) /\ Wrote(sc[j], a) =>
            \A x \in sc[i].outs, y \in sc[j].outs : x < y

Apart(P, Q) == \A x \in P, y \in Q : x < y
InLine(P, D, C, Q) == Apart(P, D \cup C \cup Q) /\ Apart(D, C \cup Q) /\ Apart(C, Q)

\* What travels is output not waiting to be published, and leaves no gap;
\* an open receiver has been offered everything published.
WholeOf(T, a, h, U, open) ==
    /\ \A x \in T : Kept(x, a, h) /\ x \notin U
    /\ \A x \in T : \A y \in 1..Len(h) : y < x /\ Kept(y, a, h) => y \in T
    /\ open => \A y \in 1..Len(h) : Kept(y, a, h) /\ y \notin U => y \in T

\* The receiver of a forwarder that ended.
Over == [q |-> <<>>, lag |-> TRUE]

Exact(a, h, U, rx, cn, dn, sc) ==
    /\ ScreenRising(sc, a) /\ Rising(dn, a, h) /\ Rising(cn, a, h) /\ RxRising(rx.q, a, h)
    /\ InLine(ScreenOuts(sc, a), ChunkOuts(dn, a, h), ChunkOuts(cn, a, h), RxOuts(rx.q, a, h))
    /\ WholeOf(ScreenOuts(sc, a) \cup ChunkOuts(dn, a, h) \cup ChunkOuts(cn, a, h)
                 \cup RxOuts(rx.q, a, h), a, h, U, ~rx.lag)

Histories == Seq({"out", "other"})

LEMMA ChunkAppend ==
    ASSUME NEW q \in Seq(Frames), NEW m \in Frames, NEW a \in Grants, NEW h \in Histories
    PROVE  /\ ~Paints(m, a, h) => /\ ChunkOuts(Append(q, m), a, h) = ChunkOuts(q, a, h)
                                  /\ Rising(q, a, h) => Rising(Append(q, m), a, h)
           /\ Paints(m, a, h) => /\ ChunkOuts(Append(q, m), a, h) = ChunkOuts(q, a, h) \cup {m.at}
                                 /\ Rising(q, a, h) /\ Apart(ChunkOuts(q, a, h), {m.at}) =>
                                        Rising(Append(q, m), a, h)
<1> DEFINE r == Append(q, m)
<1>1. /\ r \in Seq(Frames) /\ Len(r) = Len(q) + 1 /\ r[Len(q) + 1] = m /\ Len(q) \in Nat
      /\ \A i \in 1..Len(q) : r[i] = q[i]
    OBVIOUS
<1>2. \A i \in 1..Len(r) : i \in 1..Len(q) \/ i = Len(q) + 1
    BY <1>1
<1>3. 1..Len(q) \subseteq 1..Len(r) /\ Len(q) + 1 \in 1..Len(r)
    BY <1>1
<1>4. \A x : x \in ChunkOuts(q, a, h) <=> \E i \in 1..Len(q) : Paints(q[i], a, h) /\ q[i].at = x
    BY DEF ChunkOuts
<1>5. \A x : x \in ChunkOuts(r, a, h) <=> \E i \in 1..Len(r) : Paints(r[i], a, h) /\ r[i].at = x
    BY DEF ChunkOuts
<1> HIDE DEF r
<1>6. \A x : x \in ChunkOuts(r, a, h) <=> x \in ChunkOuts(q, a, h) \/ (Paints(m, a, h) /\ x = m.at)
    BY <1>1, <1>2, <1>3, <1>4, <1>5
<1>7. ASSUME Rising(q, a, h), Paints(m, a, h) => Apart(ChunkOuts(q, a, h), {m.at})
      PROVE  Rising(r, a, h)
    <2> SUFFICES ASSUME NEW i \in 1..Len(r), NEW j \in 1..Len(r), i < j,
                        Paints(r[i], a, h), Paints(r[j], a, h)
                 PROVE  r[i].at < r[j].at
        BY DEF Rising
    <2>1. i \in 1..Len(q) /\ r[i] = q[i]
        BY <1>1
    <2>2. CASE j \in 1..Len(q)
        BY <1>1, <1>7, <2>1, <2>2 DEF Rising
    <2>3. CASE j = Len(q) + 1
        <3>1. q[i].at \in ChunkOuts(q, a, h)
            BY <1>4, <2>1
        <3> QED
            BY <1>1, <1>7, <2>1, <2>3, <3>1 DEF Apart
    <2> QED
        BY <1>2, <2>2, <2>3
<1> QED
    BY <1>6, <1>7 DEF r

LEMMA ChunkSame ==
    ASSUME NEW q \in Seq(Frames), NEW m \in Frames, NEW a \in Grants, NEW h \in Histories,
           ~Paints(m, a, h), Rising(q, a, h)
    PROVE  ChunkOuts(Append(q, m), a, h) = ChunkOuts(q, a, h) /\ Rising(Append(q, m), a, h)
<1>1. ~Paints(m, a, h) => /\ ChunkOuts(Append(q, m), a, h) = ChunkOuts(q, a, h)
                          /\ Rising(q, a, h) => Rising(Append(q, m), a, h)
    BY ChunkAppend
<1> QED
    BY <1>1

LEMMA ChunkMore ==
    ASSUME NEW q \in Seq(Frames), NEW m \in Frames, NEW a \in Grants, NEW h \in Histories,
           Paints(m, a, h), Rising(q, a, h), Apart(ChunkOuts(q, a, h), {m.at})
    PROVE  /\ ChunkOuts(Append(q, m), a, h) = ChunkOuts(q, a, h) \cup {m.at}
           /\ Rising(Append(q, m), a, h)
BY ChunkAppend

LEMMA ChunkTail ==
    ASSUME NEW q \in Seq(Frames), q # <<>>, NEW a \in Grants, NEW h \in Histories, Rising(q, a, h)
    PROVE  /\ Rising(Tail(q), a, h)
           /\ ~Paints(Head(q), a, h) => ChunkOuts(q, a, h) = ChunkOuts(Tail(q), a, h)
           /\ Paints(Head(q), a, h) =>
                /\ ChunkOuts(q, a, h) = ChunkOuts(Tail(q), a, h) \cup {Head(q).at}
                /\ Apart({Head(q).at}, ChunkOuts(Tail(q), a, h))
<1> DEFINE r == Tail(q)
<1>1. /\ r \in Seq(Frames) /\ Len(r) = Len(q) - 1 /\ Head(q) = q[1] /\ Len(q) \in Nat
      /\ \A i \in 1..Len(r) : r[i] = q[i + 1]
    OBVIOUS
<1>2. \A i \in 1..Len(q) : i = 1 \/ (i - 1 \in 1..Len(r) /\ r[i - 1] = q[i])
    BY <1>1
<1>3. 1 \in 1..Len(q) /\ \A i \in 1..Len(r) : i + 1 \in 1..Len(q)
    BY <1>1
<1>4. \A x : x \in ChunkOuts(q, a, h) <=> \E i \in 1..Len(q) : Paints(q[i], a, h) /\ q[i].at = x
    BY DEF ChunkOuts
<1>5. \A x : x \in ChunkOuts(r, a, h) <=> \E i \in 1..Len(r) : Paints(r[i], a, h) /\ r[i].at = x
    BY DEF ChunkOuts
<1> HIDE DEF r
<1>6. \A x : x \in ChunkOuts(q, a, h) <=> x \in ChunkOuts(r, a, h) \/ (Paints(q[1], a, h) /\ x = q[1].at)
    BY <1>1, <1>2, <1>3, <1>4, <1>5
<1>7. Rising(r, a, h)
    <2> SUFFICES ASSUME NEW i \in 1..Len(r), NEW j \in 1..Len(r), i < j,
                        Paints(r[i], a, h), Paints(r[j], a, h)
                 PROVE  r[i].at < r[j].at
        BY DEF Rising
    <2>1. i + 1 \in 1..Len(q) /\ j + 1 \in 1..Len(q) /\ i + 1 < j + 1
        BY <1>3
    <2> QED
        BY <1>1, <2>1 DEF Rising
<1>8. ASSUME Paints(q[1], a, h) PROVE Apart({q[1].at}, ChunkOuts(r, a, h))
    <2> SUFFICES ASSUME NEW j \in 1..Len(r), Paints(r[j], a, h) PROVE q[1].at < r[j].at
        BY <1>5 DEF Apart
    <2>1. j + 1 \in 1..Len(q) /\ 1 < j + 1
        BY <1>3
    <2> QED
        BY <1>1, <1>3, <1>8, <2>1 DEF Rising
<1> QED
    BY <1>1, <1>6, <1>7, <1>8 DEF r

LEMMA RxAppend ==
    ASSUME NEW q \in Seq(Nat), NEW m \in Nat, NEW a \in Grants, NEW h \in Histories
    PROVE  /\ ~Kept(m, a, h) => /\ RxOuts(Append(q, m), a, h) = RxOuts(q, a, h)
                                /\ RxRising(q, a, h) => RxRising(Append(q, m), a, h)
           /\ Kept(m, a, h) => /\ RxOuts(Append(q, m), a, h) = RxOuts(q, a, h) \cup {m}
                               /\ RxRising(q, a, h) /\ Apart(RxOuts(q, a, h), {m}) =>
                                      RxRising(Append(q, m), a, h)
<1> DEFINE r == Append(q, m)
<1>1. /\ r \in Seq(Nat) /\ Len(r) = Len(q) + 1 /\ r[Len(q) + 1] = m /\ Len(q) \in Nat
      /\ \A i \in 1..Len(q) : r[i] = q[i]
    OBVIOUS
<1>2. \A i \in 1..Len(r) : i \in 1..Len(q) \/ i = Len(q) + 1
    BY <1>1
<1>3. 1..Len(q) \subseteq 1..Len(r) /\ Len(q) + 1 \in 1..Len(r)
    BY <1>1
<1>4. \A x : x \in RxOuts(q, a, h) <=> \E i \in 1..Len(q) : Kept(q[i], a, h) /\ q[i] = x
    BY DEF RxOuts
<1>5. \A x : x \in RxOuts(r, a, h) <=> \E i \in 1..Len(r) : Kept(r[i], a, h) /\ r[i] = x
    BY DEF RxOuts
<1> HIDE DEF r
<1>6. \A x : x \in RxOuts(r, a, h) <=> x \in RxOuts(q, a, h) \/ (Kept(m, a, h) /\ x = m)
    BY <1>1, <1>2, <1>3, <1>4, <1>5
<1>7. ASSUME RxRising(q, a, h), Kept(m, a, h) => Apart(RxOuts(q, a, h), {m})
      PROVE  RxRising(r, a, h)
    <2> SUFFICES ASSUME NEW i \in 1..Len(r), NEW j \in 1..Len(r), i < j,
                        Kept(r[i], a, h), Kept(r[j], a, h)
                 PROVE  r[i] < r[j]
        BY DEF RxRising
    <2>1. i \in 1..Len(q) /\ r[i] = q[i]
        BY <1>1
    <2>2. CASE j \in 1..Len(q)
        BY <1>1, <1>7, <2>1, <2>2 DEF RxRising
    <2>3. CASE j = Len(q) + 1
        <3>1. q[i] \in RxOuts(q, a, h)
            BY <1>4, <2>1
        <3> QED
            BY <1>1, <1>7, <2>1, <2>3, <3>1 DEF Apart
    <2> QED
        BY <1>2, <2>2, <2>3
<1> QED
    BY <1>6, <1>7 DEF r

LEMMA RxTail ==
    ASSUME NEW q \in Seq(Nat), q # <<>>, NEW a \in Grants, NEW h \in Histories, RxRising(q, a, h)
    PROVE  /\ RxRising(Tail(q), a, h)
           /\ ~Kept(Head(q), a, h) => RxOuts(q, a, h) = RxOuts(Tail(q), a, h)
           /\ Kept(Head(q), a, h) =>
                /\ RxOuts(q, a, h) = RxOuts(Tail(q), a, h) \cup {Head(q)}
                /\ Apart({Head(q)}, RxOuts(Tail(q), a, h))
<1> DEFINE r == Tail(q)
<1>1. /\ r \in Seq(Nat) /\ Len(r) = Len(q) - 1 /\ Head(q) = q[1] /\ Len(q) \in Nat
      /\ \A i \in 1..Len(r) : r[i] = q[i + 1]
    OBVIOUS
<1>2. \A i \in 1..Len(q) : i = 1 \/ (i - 1 \in 1..Len(r) /\ r[i - 1] = q[i])
    BY <1>1
<1>3. 1 \in 1..Len(q) /\ \A i \in 1..Len(r) : i + 1 \in 1..Len(q)
    BY <1>1
<1>4. \A x : x \in RxOuts(q, a, h) <=> \E i \in 1..Len(q) : Kept(q[i], a, h) /\ q[i] = x
    BY DEF RxOuts
<1>5. \A x : x \in RxOuts(r, a, h) <=> \E i \in 1..Len(r) : Kept(r[i], a, h) /\ r[i] = x
    BY DEF RxOuts
<1> HIDE DEF r
<1>6. \A x : x \in RxOuts(q, a, h) <=> x \in RxOuts(r, a, h) \/ (Kept(q[1], a, h) /\ x = q[1])
    BY <1>1, <1>2, <1>3, <1>4, <1>5
<1>7. RxRising(r, a, h)
    <2> SUFFICES ASSUME NEW i \in 1..Len(r), NEW j \in 1..Len(r), i < j,
                        Kept(r[i], a, h), Kept(r[j], a, h)
                 PROVE  r[i] < r[j]
        BY DEF RxRising
    <2>1. i + 1 \in 1..Len(q) /\ j + 1 \in 1..Len(q) /\ i + 1 < j + 1
        BY <1>3
    <2> QED
        BY <1>1, <2>1 DEF RxRising
<1>8. ASSUME Kept(q[1], a, h) PROVE Apart({q[1]}, RxOuts(r, a, h))
    <2> SUFFICES ASSUME NEW j \in 1..Len(r), Kept(r[j], a, h) PROVE q[1] < r[j]
        BY <1>5 DEF Apart
    <2>1. j + 1 \in 1..Len(q) /\ 1 < j + 1
        BY <1>3
    <2> QED
        BY <1>1, <1>3, <1>8, <2>1 DEF RxRising
<1> QED
    BY <1>1, <1>6, <1>7, <1>8 DEF r

LEMMA ScreenAppend ==
    ASSUME NEW sc \in Seq(Writings), NEW e \in Writings, NEW a \in Grants
    PROVE  /\ ~Wrote(e, a) => /\ ScreenOuts(Append(sc, e), a) = ScreenOuts(sc, a)
                              /\ ScreenRising(sc, a) => ScreenRising(Append(sc, e), a)
           /\ Wrote(e, a) => /\ ScreenOuts(Append(sc, e), a) = ScreenOuts(sc, a) \cup e.outs
                             /\ ScreenRising(sc, a) /\ Apart(ScreenOuts(sc, a), e.outs) =>
                                    ScreenRising(Append(sc, e), a)
<1> DEFINE r == Append(sc, e)
<1>1. /\ r \in Seq(Writings) /\ Len(r) = Len(sc) + 1 /\ r[Len(sc) + 1] = e /\ Len(sc) \in Nat
      /\ \A i \in 1..Len(sc) : r[i] = sc[i]
    OBVIOUS
<1>2. \A i \in 1..Len(r) : i \in 1..Len(sc) \/ i = Len(sc) + 1
    BY <1>1
<1>3. 1..Len(sc) \subseteq 1..Len(r) /\ Len(sc) + 1 \in 1..Len(r)
    BY <1>1
<1>4. \A x : x \in ScreenOuts(sc, a) <=> \E i \in 1..Len(sc) : Wrote(sc[i], a) /\ x \in sc[i].outs
    BY DEF ScreenOuts
<1>5. \A x : x \in ScreenOuts(r, a) <=> \E i \in 1..Len(r) : Wrote(r[i], a) /\ x \in r[i].outs
    BY DEF ScreenOuts
<1> HIDE DEF r
<1>6. \A x : x \in ScreenOuts(r, a) <=> x \in ScreenOuts(sc, a) \/ (Wrote(e, a) /\ x \in e.outs)
    BY <1>1, <1>2, <1>3, <1>4, <1>5
<1>7. ASSUME ScreenRising(sc, a), Wrote(e, a) => Apart(ScreenOuts(sc, a), e.outs)
      PROVE  ScreenRising(r, a)
    <2> SUFFICES ASSUME NEW i \in 1..Len(r), NEW j \in 1..Len(r), i < j,
                        Wrote(r[i], a), Wrote(r[j], a), NEW x \in r[i].outs, NEW y \in r[j].outs
                 PROVE  x < y
        BY DEF ScreenRising
    <2>1. i \in 1..Len(sc) /\ r[i] = sc[i]
        BY <1>1
    <2>2. CASE j \in 1..Len(sc)
        BY <1>1, <1>7, <2>1, <2>2 DEF ScreenRising
    <2>3. CASE j = Len(sc) + 1
        <3>1. x \in ScreenOuts(sc, a)
            BY <1>4, <2>1
        <3> QED
            BY <1>1, <1>7, <2>3, <3>1 DEF Apart
    <2> QED
        BY <1>2, <2>2, <2>3
<1> QED
    BY <1>6, <1>7 DEF r

\* Frames placed in a history mean the same in a longer one.
LEMMA SameOut ==
    ASSUME NEW h \in Histories, NEW k \in {"out", "other"}, NEW x \in Nat
    PROVE  /\ Len(Append(h, k)) = Len(h) + 1
           /\ IsOut(Append(h, k), x) <=> IsOut(h, x) \/ (x = Len(h) + 1 /\ k = "out")
BY DEF IsOut, Histories

LEMMA ChunkGrow ==
    ASSUME NEW q \in Seq(Frames), NEW a \in Grants, NEW h \in Histories,
           NEW k \in {"out", "other"},
           \A i \in 1..Len(q) : q[i].type = "chunk" /\ q[i].by = a => q[i].at \in 1..Len(h)
    PROVE  /\ ChunkOuts(q, a, Append(h, k)) = ChunkOuts(q, a, h)
           /\ Rising(q, a, h) => Rising(q, a, Append(h, k))
<1>1. ASSUME NEW i \in 1..Len(q) PROVE Paints(q[i], a, Append(h, k)) <=> Paints(q[i], a, h)
    <2>1. CASE q[i].type = "chunk" /\ q[i].by = a
        <3>1. q[i].at \in 1..Len(h) /\ Len(h) \in Nat
            BY <2>1 DEF Histories
        <3>2. q[i].at \in Nat /\ q[i].at # Len(h) + 1
            BY <3>1
        <3> QED
            BY <3>2, SameOut DEF Paints
    <2> QED
        BY <2>1 DEF Paints
<1> QED
    BY <1>1 DEF ChunkOuts, Rising

LEMMA RxGrow ==
    ASSUME NEW q \in Seq(Nat), NEW a \in Grants, NEW h \in Histories,
           NEW k \in {"out", "other"}, \A i \in 1..Len(q) : q[i] \in 1..Len(h)
    PROVE  /\ RxOuts(q, a, Append(h, k)) = RxOuts(q, a, h)
           /\ RxRising(q, a, h) => RxRising(q, a, Append(h, k))
<1>1. ASSUME NEW i \in 1..Len(q) PROVE Kept(q[i], a, Append(h, k)) <=> Kept(q[i], a, h)
    <2>1. q[i] \in Nat /\ q[i] # Len(h) + 1
        BY DEF Histories
    <2> QED
        BY <2>1, SameOut DEF Kept
<1> QED
    BY <1>1 DEF RxOuts, RxRising

LEMMA ExactGrow ==
    ASSUME NEW a \in Grants, NEW h \in Histories, NEW U \in SUBSET Nat, NEW rx \in Rxs,
           NEW cn \in Seq(Frames), NEW dn \in Seq(Frames), NEW sc \in Seq(Writings),
           Exact(a, h, U, rx, cn, dn, sc), NEW k \in {"out", "other"},
           \A i \in 1..Len(cn) : cn[i].type = "chunk" /\ cn[i].by = a => cn[i].at \in 1..Len(h),
           \A i \in 1..Len(dn) : dn[i].type = "chunk" /\ dn[i].by = a => dn[i].at \in 1..Len(h),
           \A i \in 1..Len(rx.q) : rx.q[i] \in 1..Len(h)
    PROVE  Exact(a, Append(h, k), U \cup {Len(h) + 1}, rx, cn, dn, sc)
<1> DEFINE H == Append(h, k)
           V == U \cup {Len(h) + 1}
           T == ScreenOuts(sc, a) \cup ChunkOuts(dn, a, h) \cup ChunkOuts(cn, a, h) \cup RxOuts(rx.q, a, h)
<1>1. /\ ChunkOuts(cn, a, H) = ChunkOuts(cn, a, h) /\ Rising(cn, a, H)
      /\ ChunkOuts(dn, a, H) = ChunkOuts(dn, a, h) /\ Rising(dn, a, H)
    BY ChunkGrow DEF Exact
<1>2. RxOuts(rx.q, a, H) = RxOuts(rx.q, a, h) /\ RxRising(rx.q, a, H)
    BY RxGrow DEF Exact, Rxs
<1>3. \A x \in Nat : Kept(x, a, H) <=> Kept(x, a, h) \/ (a.from <= x /\ x = Len(h) + 1 /\ k = "out")
    BY SameOut DEF Kept
<1>4. \A x : Kept(x, a, h) => x \in 1..Len(h) /\ x \in Nat
    BY DEF Kept, IsOut
<1>5. Len(H) = Len(h) + 1 /\ Len(h) \in Nat
    BY DEF Histories
<1>6. WholeOf(T, a, h, U, ~rx.lag)
    BY DEF Exact
<1> HIDE DEF T, H
<1>7. WholeOf(T, a, H, V, ~rx.lag)
    <2>1. ASSUME NEW x \in T PROVE Kept(x, a, H) /\ x \notin V
        <3>1. Kept(x, a, h) /\ x \notin U /\ x \in 1..Len(h)
            BY <1>4, <1>6 DEF WholeOf
        <3> QED
            BY <1>3, <1>5, <3>1
    <2>2. ASSUME NEW x \in T, NEW y \in 1..Len(H), y < x, Kept(y, a, H) PROVE y \in T
        <3>1. x \in 1..Len(h)
            BY <1>4, <1>6 DEF WholeOf
        <3>2. y \in 1..Len(h) /\ Kept(y, a, h)
            BY <1>3, <1>5, <2>2, <3>1
        <3> QED
            BY <1>6, <2>2, <3>2 DEF WholeOf
    <2>3. ASSUME ~rx.lag, NEW y \in 1..Len(H), Kept(y, a, H), y \notin V PROVE y \in T
        <3>1. y \in 1..Len(h) /\ Kept(y, a, h) /\ y \notin U
            BY <1>3, <1>5, <2>3
        <3> QED
            BY <1>6, <2>3, <3>1 DEF WholeOf
    <2> QED
        BY <2>1, <2>2, <2>3 DEF WholeOf
<1> QED
    BY <1>1, <1>2, <1>7 DEF Exact, T, H

\* The loop writes what its workers queued.
LEMMA ExactPump ==
    ASSUME NEW a \in Grants, NEW h \in Histories, NEW U \in SUBSET Nat, NEW rx \in Rxs,
           NEW cn \in Seq(Frames), NEW dn \in Seq(Frames), NEW sc \in Seq(Writings),
           Exact(a, h, U, rx, cn, dn, sc), cn # <<>>
    PROVE  Exact(a, h, U, rx, Tail(cn), Append(dn, Head(cn)), sc)
<1> DEFINE m == Head(cn)
           c == Tail(cn)
           d == Append(dn, m)
<1>1. m \in Frames
    OBVIOUS
<1>2. Rising(cn, a, h) /\ Rising(dn, a, h)
    BY DEF Exact
<1>3. /\ Rising(c, a, h)
      /\ ~Paints(m, a, h) => ChunkOuts(cn, a, h) = ChunkOuts(c, a, h)
      /\ Paints(m, a, h) => /\ ChunkOuts(cn, a, h) = ChunkOuts(c, a, h) \cup {m.at}
                            /\ Apart({m.at}, ChunkOuts(c, a, h))
    BY <1>2, ChunkTail
<1>4. Apart(ChunkOuts(dn, a, h), ChunkOuts(cn, a, h))
    BY DEF Exact, InLine, Apart
<1>5. Paints(m, a, h) => Apart(ChunkOuts(dn, a, h), {m.at})
    BY <1>3, <1>4 DEF Apart
<1>6. /\ Rising(d, a, h)
      /\ ~Paints(m, a, h) => ChunkOuts(d, a, h) = ChunkOuts(dn, a, h)
      /\ Paints(m, a, h) => ChunkOuts(d, a, h) = ChunkOuts(dn, a, h) \cup {m.at}
    <2> HIDE DEF m
    <2>1. CASE Paints(m, a, h)
        BY <1>1, <1>2, <1>5, <2>1, ChunkMore
    <2>2. CASE ~Paints(m, a, h)
        BY <1>1, <1>2, <2>2, ChunkSame
    <2> QED
        BY <2>1, <2>2
<1> HIDE DEF m, c, d
<1>7. CASE Paints(m, a, h)
    <2>1. InLine(ScreenOuts(sc, a), ChunkOuts(d, a, h), ChunkOuts(c, a, h), RxOuts(rx.q, a, h))
        BY <1>3, <1>6, <1>7 DEF Exact, InLine, Apart
    <2>2. ChunkOuts(d, a, h) \cup ChunkOuts(c, a, h) = ChunkOuts(dn, a, h) \cup ChunkOuts(cn, a, h)
        BY <1>3, <1>6, <1>7
    <2>3. ScreenOuts(sc, a) \cup ChunkOuts(d, a, h) \cup ChunkOuts(c, a, h) \cup RxOuts(rx.q, a, h)
            = ScreenOuts(sc, a) \cup ChunkOuts(dn, a, h) \cup ChunkOuts(cn, a, h) \cup RxOuts(rx.q, a, h)
        BY <2>2
    <2> QED
        BY <1>3, <1>6, <2>1, <2>3 DEF Exact, c, d, m
<1>8. CASE ~Paints(m, a, h)
    BY <1>3, <1>6, <1>8 DEF Exact, c, d, m
<1> QED
    BY <1>7, <1>8

\* Any other frame is neither here nor there.
LEMMA ExactPlain ==
    ASSUME NEW a \in Grants, NEW h \in Histories, NEW U \in SUBSET Nat, NEW rx \in Rxs,
           NEW cn \in Seq(Frames), NEW dn \in Seq(Frames), NEW sc \in Seq(Writings),
           Exact(a, h, U, rx, cn, dn, sc), NEW m \in Frames, ~Paints(m, a, h)
    PROVE  /\ Exact(a, h, U, rx, Append(cn, m), dn, sc)
           /\ Exact(a, h, U, rx, cn, Append(dn, m), sc)
<1>1. ~Paints(m, a, h)
    OBVIOUS
<1>2. Rising(cn, a, h) /\ Rising(dn, a, h)
    BY DEF Exact
<1>3. ChunkOuts(Append(cn, m), a, h) = ChunkOuts(cn, a, h) /\ Rising(Append(cn, m), a, h)
    BY <1>1, <1>2, ChunkSame
<1>4. ChunkOuts(Append(dn, m), a, h) = ChunkOuts(dn, a, h) /\ Rising(Append(dn, m), a, h)
    BY <1>1, <1>2, ChunkSame
<1> QED
    BY <1>3, <1>4 DEF Exact

\* The forwarder ends, or the socket with all that was on its way: what is
\* on the screen stays a beginning.
LEMMA ExactClose ==
    ASSUME NEW a \in Grants, NEW h \in Histories, NEW U \in SUBSET Nat, NEW rx \in Rxs,
           NEW cn \in Seq(Frames), NEW dn \in Seq(Frames), NEW sc \in Seq(Writings),
           Exact(a, h, U, rx, cn, dn, sc)
    PROVE  /\ Exact(a, h, U, Over, cn, dn, sc)
           /\ Exact(a, h, U, Over, <<>>, <<>>, sc)
<1>1. RxOuts(<<>>, a, h) = {} /\ RxRising(<<>>, a, h)
    BY DEF RxOuts, RxRising
<1>2. ChunkOuts(<<>>, a, h) = {} /\ Rising(<<>>, a, h)
    BY DEF ChunkOuts, Rising
<1>3. Over.q = <<>> /\ Over.lag
    BY DEF Over
<1> DEFINE P == ScreenOuts(sc, a)
           D == ChunkOuts(dn, a, h)
           C == ChunkOuts(cn, a, h)
           Q == RxOuts(rx.q, a, h)
<1>4. InLine(P, D, C, Q) /\ WholeOf(P \cup D \cup C \cup Q, a, h, U, ~rx.lag)
    BY DEF Exact
<1>5. /\ ScreenRising(sc, a) /\ Rising(dn, a, h) /\ Rising(cn, a, h)
    BY DEF Exact
<1> HIDE DEF P, D, C, Q
<1>6. \A x \in P \cup D \cup C \cup Q : x \in Nat
    BY <1>4 DEF WholeOf, Kept, IsOut
<1>7. InLine(P, D, C, {}) /\ InLine(P, {}, {}, {})
    BY <1>4 DEF InLine, Apart
<1>8. WholeOf(P \cup D \cup C \cup {}, a, h, U, FALSE)
    <2>1. \A x \in P \cup D \cup C : \A y \in Q : x < y
        BY <1>4 DEF InLine, Apart
    <2>2. ASSUME NEW x \in P \cup D \cup C, NEW y \in 1..Len(h), y < x, Kept(y, a, h)
          PROVE  y \in P \cup D \cup C
        <3>1. y \in P \cup D \cup C \cup Q
            BY <1>4, <2>2 DEF WholeOf
        <3>2. ASSUME y \in Q PROVE FALSE
            <4>1. x < y /\ x \in Nat
                BY <1>6, <2>1, <3>2
            <4> QED
                BY <2>2, <4>1
        <3> QED
            BY <3>1, <3>2
    <2> QED
        BY <1>4, <2>2 DEF WholeOf
<1>9. WholeOf(P \cup {} \cup {} \cup {}, a, h, U, FALSE)
    <2>1. \A x \in P : \A y \in D \cup C \cup Q : x < y
        BY <1>4 DEF InLine, Apart
    <2>2. ASSUME NEW x \in P, NEW y \in 1..Len(h), y < x, Kept(y, a, h)
          PROVE  y \in P
        <3>1. y \in P \cup D \cup C \cup Q
            BY <1>4, <2>2 DEF WholeOf
        <3>2. ASSUME y \in D \cup C \cup Q PROVE FALSE
            <4>1. x < y /\ x \in Nat
                BY <1>6, <2>1, <3>2
            <4> QED
                BY <2>2, <4>1
        <3> QED
            BY <3>1, <3>2
    <2> QED
        BY <1>4, <2>2 DEF WholeOf
<1>10. Exact(a, h, U, Over, cn, dn, sc)
    BY <1>1, <1>3, <1>5, <1>7, <1>8 DEF Exact, P, D, C
<1>11. Exact(a, h, U, Over, <<>>, <<>>, sc)
    BY <1>1, <1>2, <1>3, <1>5, <1>7, <1>9 DEF Exact, P
<1> QED
    BY <1>10, <1>11

\* The forwarder takes a frame: below the boundary it is skipped, else it
\* joins the channel.
LEMMA ExactSkip ==
    ASSUME NEW a \in Grants, NEW h \in Histories, NEW U \in SUBSET Nat, NEW rx \in Rxs,
           NEW cn \in Seq(Frames), NEW dn \in Seq(Frames), NEW sc \in Seq(Writings),
           Exact(a, h, U, rx, cn, dn, sc), rx.q # <<>>, NEW rx2 \in Rxs,
           rx2.q = Tail(rx.q), rx2.lag = rx.lag, ~Kept(Head(rx.q), a, h)
    PROVE  Exact(a, h, U, rx2, cn, dn, sc)
<1>1. rx.q \in Seq(Nat) /\ RxRising(rx.q, a, h)
    BY DEF Rxs, Exact
<1>2. RxOuts(rx2.q, a, h) = RxOuts(rx.q, a, h) /\ RxRising(rx2.q, a, h)
    BY <1>1, RxTail
<1> QED
    BY <1>2 DEF Exact

LEMMA ExactForward ==
    ASSUME NEW a \in Grants, NEW h \in Histories, NEW U \in SUBSET Nat, NEW rx \in Rxs,
           NEW cn \in Seq(Frames), NEW dn \in Seq(Frames), NEW sc \in Seq(Writings),
           Exact(a, h, U, rx, cn, dn, sc), rx.q # <<>>, NEW rx2 \in Rxs,
           rx2.q = Tail(rx.q), rx2.lag = rx.lag, a.from <= Head(rx.q),
           NEW m \in Frames, m.type = "chunk", m.by = a, m.at = Head(rx.q)
    PROVE  Exact(a, h, U, rx2, Append(cn, m), dn, sc)
<1>1. rx.q \in Seq(Nat) /\ RxRising(rx.q, a, h) /\ Rising(cn, a, h)
    BY DEF Rxs, Exact
<1>2. Kept(Head(rx.q), a, h) <=> Paints(m, a, h)
    BY DEF Kept, Paints
<1>3. CASE ~Paints(m, a, h)
    BY <1>2, <1>3, ExactSkip, ExactPlain
<1>4. Paints(m, a, h) =>
        /\ ChunkOuts(Append(cn, m), a, h) = ChunkOuts(cn, a, h) \cup {m.at}
        /\ Rising(cn, a, h) /\ Apart(ChunkOuts(cn, a, h), {m.at}) => Rising(Append(cn, m), a, h)
    <2>1. cn \in Seq(Frames) /\ m \in Frames /\ a \in Grants /\ h \in Histories
        OBVIOUS
    <2> QED
        BY ONLY <2>1, ChunkAppend
<1>5. CASE Paints(m, a, h)
    <2> DEFINE P == ScreenOuts(sc, a)
               D == ChunkOuts(dn, a, h)
               C == ChunkOuts(cn, a, h)
               Q == RxOuts(rx.q, a, h)
               C2 == ChunkOuts(Append(cn, m), a, h)
               Q2 == RxOuts(rx2.q, a, h)
    <2>1. RxRising(rx2.q, a, h) /\ Q = Q2 \cup {m.at} /\ Apart({m.at}, Q2)
        <3>1. /\ RxRising(Tail(rx.q), a, h)
              /\ Kept(Head(rx.q), a, h) =>
                    /\ RxOuts(rx.q, a, h) = RxOuts(Tail(rx.q), a, h) \cup {Head(rx.q)}
                    /\ Apart({Head(rx.q)}, RxOuts(Tail(rx.q), a, h))
            BY <1>1, RxTail
        <3> QED
            BY <1>2, <1>5, <3>1
    <2>2. InLine(P, D, C, Q)
        BY DEF Exact
    <2>3. Apart(C, {m.at})
        BY <2>1, <2>2 DEF InLine, Apart
    <2>4. C2 = C \cup {m.at} /\ Rising(Append(cn, m), a, h)
        <3>1. Apart(ChunkOuts(cn, a, h), {m.at})
            BY <2>3
        <3> HIDE DEF C
        <3>2. /\ ChunkOuts(Append(cn, m), a, h) = ChunkOuts(cn, a, h) \cup {m.at}
              /\ Rising(Append(cn, m), a, h)
            BY <1>1, <1>5, <1>4, <3>1
        <3> QED
            BY <3>2 DEF C
    <2>5. ScreenRising(sc, a) /\ Rising(dn, a, h) /\ WholeOf(P \cup D \cup C \cup Q, a, h, U, ~rx.lag)
        BY DEF Exact
    <2> HIDE DEF P, D, C, Q, C2, Q2
    <2>6. InLine(P, D, C2, Q2)
        BY <2>1, <2>2, <2>4 DEF InLine, Apart
    <2>7. P \cup D \cup C2 \cup Q2 = P \cup D \cup C \cup Q
        BY <2>1, <2>4
    <2> QED
        BY <2>1, <2>4, <2>5, <2>6, <2>7 DEF Exact, P, D, C2, Q2
<1> QED
    BY <1>3, <1>5

\* A frame is published: the receiver keeps it or has lagged.
LEMMA ExactPublish ==
    ASSUME NEW a \in Grants, NEW h \in Histories, NEW U \in SUBSET Nat, NEW rx \in Rxs,
           NEW cn \in Seq(Frames), NEW dn \in Seq(Frames), NEW sc \in Seq(Writings),
           Exact(a, h, U, rx, cn, dn, sc), NEW i \in U,
           \A u \in U : IsOut(h, u) => \A j \in 1..Len(h) : u < j => ~IsOut(h, j)
    PROVE  /\ Exact(a, h, U \ {i}, Deliver(rx, i), cn, dn, sc)
           /\ rx = Over => Exact(a, h, U \ {i}, rx, cn, dn, sc)
<1> DEFINE P == ScreenOuts(sc, a)
           D == ChunkOuts(dn, a, h)
           C == ChunkOuts(cn, a, h)
           Q == RxOuts(rx.q, a, h)
           V == U \ {i}
<1>1. InLine(P, D, C, Q) /\ WholeOf(P \cup D \cup C \cup Q, a, h, U, ~rx.lag)
    BY DEF Exact
<1>2. ScreenRising(sc, a) /\ Rising(dn, a, h) /\ Rising(cn, a, h) /\ RxRising(rx.q, a, h)
    BY DEF Exact
<1>3. i \in Nat /\ rx.q \in Seq(Nat)
    BY DEF Rxs
<1> HIDE DEF P, D, C, Q
<1>4. CASE rx.lag \/ Len(rx.q) = RxCap
    <2>1. Deliver(rx, i) = Over
        BY <1>4 DEF Deliver, Over
    <2>2. Exact(a, h, U, Over, cn, dn, sc)
        BY ExactClose
    <2>3. Exact(a, h, V, Over, cn, dn, sc)
        <3>1. Over.lag
            BY DEF Over
        <3> QED
            BY <2>2, <3>1 DEF Exact, WholeOf
    <2>4. rx = Over => Exact(a, h, V, rx, cn, dn, sc)
        BY <2>3
    <2> QED
        BY <2>1, <2>3, <2>4
<1>5. CASE ~rx.lag /\ Len(rx.q) # RxCap
    <2>1. PICK rx2 : rx2 = Deliver(rx, i)
        OBVIOUS
    <2>2. rx2 = [rx EXCEPT !.q = Append(rx.q, i)]
        BY <1>5, <2>1 DEF Deliver
    <2>3. rx2.q = Append(rx.q, i) /\ rx2.lag = rx.lag
        BY <2>2 DEF Rxs
    <2>4. rx # Over
        BY <1>5 DEF Over
    <2>5. Exact(a, h, V, rx2, cn, dn, sc)
        <3>1. CASE ~Kept(i, a, h)
            <4>1. RxOuts(rx2.q, a, h) = Q /\ RxRising(rx2.q, a, h)
                <5>1. ~Kept(i, a, h) => /\ RxOuts(Append(rx.q, i), a, h) = RxOuts(rx.q, a, h)
                                        /\ RxRising(rx.q, a, h) => RxRising(Append(rx.q, i), a, h)
                    BY <1>3, RxAppend
                <5> QED
                    BY <1>2, <2>3, <3>1, <5>1 DEF Q
            <4>2. WholeOf(P \cup D \cup C \cup Q, a, h, V, ~rx2.lag)
                BY <1>1, <2>3, <3>1 DEF WholeOf
            <4> QED
                BY <1>1, <1>2, <2>3, <4>1, <4>2 DEF Exact, P, D, C, Q
        <3>2. CASE Kept(i, a, h)
            <4>1. \A x \in P \cup D \cup C \cup Q : x < i
                <5>1. \A x \in P \cup D \cup C \cup Q : x \in 1..Len(h) /\ IsOut(h, x) /\ x # i
                    BY <1>1 DEF WholeOf, Kept, IsOut
                <5>2. IsOut(h, i)
                    BY <3>2 DEF Kept
                <5>3. \A x \in 1..Len(h) : IsOut(h, x) => ~(i < x)
                    BY <5>2
                <5>4. \A x \in 1..Len(h) : x # i /\ ~(i < x) => x < i
                    BY <1>3
                <5> QED
                    BY <5>1, <5>3, <5>4
            <4>2. Apart(Q, {i})
                BY <4>1 DEF Apart
            <4>3. RxOuts(rx2.q, a, h) = Q \cup {i} /\ RxRising(rx2.q, a, h)
                BY <1>2, <1>3, <2>3, <3>2, <4>2, RxAppend DEF Q
            <4>4. InLine(P, D, C, Q \cup {i})
                BY <1>1, <4>1 DEF InLine, Apart
            <4>5. WholeOf(P \cup D \cup C \cup (Q \cup {i}), a, h, V, ~rx2.lag)
                <5>1. ASSUME NEW y \in 1..Len(h), y < i, Kept(y, a, h) PROVE y \in P \cup D \cup C \cup Q
                    <6>1. y \notin U
                        BY <3>2, <5>1 DEF Kept, IsOut
                    <6> QED
                        BY <1>1, <1>5, <5>1, <6>1 DEF WholeOf
                <5> QED
                    BY <1>1, <1>5, <2>3, <3>2, <5>1 DEF WholeOf
            <4> QED
                BY <1>2, <2>3, <4>3, <4>4, <4>5 DEF Exact, P, D, C
        <3> QED
            BY <3>1, <3>2
    <2> QED
        BY <2>1, <2>4, <2>5
<1> QED
    BY <1>4, <1>5

\* The console takes a frame off the wire.
LEMMA ExactSkim ==
    ASSUME NEW a \in Grants, NEW h \in Histories, NEW U \in SUBSET Nat, NEW rx \in Rxs,
           NEW cn \in Seq(Frames), NEW dn \in Seq(Frames), NEW sc \in Seq(Writings),
           Exact(a, h, U, rx, cn, dn, sc), dn # <<>>, ~Paints(Head(dn), a, h)
    PROVE  Exact(a, h, U, rx, cn, Tail(dn), sc)
<1>1. Rising(dn, a, h)
    BY DEF Exact
<1>2. Rising(Tail(dn), a, h) /\ ChunkOuts(dn, a, h) = ChunkOuts(Tail(dn), a, h)
    BY <1>1, ChunkTail
<1> QED
    BY <1>2 DEF Exact

LEMMA ExactRead ==
    ASSUME NEW a \in Grants, NEW h \in Histories, NEW U \in SUBSET Nat, NEW rx \in Rxs,
           NEW cn \in Seq(Frames), NEW dn \in Seq(Frames), NEW sc \in Seq(Writings),
           Exact(a, h, U, rx, cn, dn, sc), dn # <<>>, Paints(Head(dn), a, h),
           NEW e \in Writings, Wrote(e, a), e.outs = {Head(dn).at}
    PROVE  Exact(a, h, U, rx, cn, Tail(dn), Append(sc, e))
<1> DEFINE P == ScreenOuts(sc, a)
           D == ChunkOuts(dn, a, h)
           C == ChunkOuts(cn, a, h)
           Q == RxOuts(rx.q, a, h)
           P2 == ScreenOuts(Append(sc, e), a)
           D2 == ChunkOuts(Tail(dn), a, h)
<1>1. Rising(dn, a, h) /\ ScreenRising(sc, a)
    BY DEF Exact
<1>2. InLine(P, D, C, Q)
    BY DEF Exact
<1>3. Rising(Tail(dn), a, h) /\ D = D2 \cup {Head(dn).at} /\ Apart({Head(dn).at}, D2)
    <2>1. /\ Rising(Tail(dn), a, h)
          /\ Paints(Head(dn), a, h) =>
                /\ ChunkOuts(dn, a, h) = ChunkOuts(Tail(dn), a, h) \cup {Head(dn).at}
                /\ Apart({Head(dn).at}, ChunkOuts(Tail(dn), a, h))
        BY <1>1, ChunkTail
    <2> QED
        BY <2>1
<1>4. Apart(P, e.outs)
    BY <1>2, <1>3 DEF InLine, Apart
<1>5. P2 = P \cup e.outs /\ ScreenRising(Append(sc, e), a)
    <2>1. sc \in Seq(Writings) /\ e \in Writings /\ a \in Grants /\ Wrote(e, a)
        OBVIOUS
    <2> QED
        BY ONLY <1>1, <1>4, <2>1, ScreenAppend
<1>6. Rising(cn, a, h) /\ RxRising(rx.q, a, h) /\ WholeOf(P \cup D \cup C \cup Q, a, h, U, ~rx.lag)
    BY DEF Exact
<1> HIDE DEF P, D, C, Q, P2, D2
<1>7. InLine(P2, D2, C, Q)
    BY <1>2, <1>3, <1>5 DEF InLine, Apart
<1>8. P2 \cup D2 \cup C \cup Q = P \cup D \cup C \cup Q
    BY <1>3, <1>5
<1> QED
    BY <1>3, <1>5, <1>6, <1>7, <1>8 DEF Exact, P2, D2, C, Q

\* Writes of other attachments, and a screen that has none of a's.
LEMMA ExactBeside ==
    ASSUME NEW a \in Grants, NEW h \in Histories, NEW U \in SUBSET Nat, NEW rx \in Rxs,
           NEW cn \in Seq(Frames), NEW dn \in Seq(Frames), NEW sc \in Seq(Writings),
           Exact(a, h, U, rx, cn, dn, sc), NEW e \in Writings, ~Wrote(e, a)
    PROVE  Exact(a, h, U, rx, cn, dn, Append(sc, e))
<1>1. ScreenRising(sc, a)
    BY DEF Exact
<1>2. ScreenOuts(Append(sc, e), a) = ScreenOuts(sc, a) /\ ScreenRising(Append(sc, e), a)
    <2>1. sc \in Seq(Writings) /\ e \in Writings /\ a \in Grants /\ ~Wrote(e, a)
        OBVIOUS
    <2> QED
        BY ONLY <1>1, <2>1, ScreenAppend
<1> QED
    BY <1>2 DEF Exact

LEMMA ScreenNone ==
    ASSUME NEW sc, NEW a, \A i \in 1..Len(sc) : ~Wrote(sc[i], a)
    PROVE  ScreenOuts(sc, a) = {} /\ ScreenRising(sc, a)
BY DEF ScreenOuts, ScreenRising

LEMMA ExactScreen ==
    ASSUME NEW a \in Grants, NEW h \in Histories, NEW U \in SUBSET Nat, NEW rx \in Rxs,
           NEW cn \in Seq(Frames), NEW dn \in Seq(Frames), NEW sc \in Seq(Writings),
           Exact(a, h, U, rx, cn, dn, sc), NEW sc2 \in Seq(Writings),
           \A i \in 1..Len(sc) : ~Wrote(sc[i], a), \A i \in 1..Len(sc2) : ~Wrote(sc2[i], a)
    PROVE  Exact(a, h, U, rx, cn, dn, sc2)
<1>1. ScreenOuts(sc, a) = {} /\ ScreenOuts(sc2, a) = {} /\ ScreenRising(sc2, a)
    BY ScreenNone
<1> QED
    BY <1>1 DEF Exact

\* A fresh attachment, at the end of the history.
LEMMA ExactNew ==
    ASSUME NEW a \in Grants, NEW h \in Histories, NEW U \in SUBSET Nat,
           NEW cn \in Seq(Frames), NEW dn \in Seq(Frames), NEW sc \in Seq(Writings),
           a.from = Len(h) + 1, \A i \in 1..Len(sc) : ~Wrote(sc[i], a),
           \A i \in 1..Len(cn) : ~(cn[i].type = "chunk" /\ cn[i].by = a),
           \A i \in 1..Len(dn) : ~(dn[i].type = "chunk" /\ dn[i].by = a)
    PROVE  Exact(a, h, U, [q |-> <<>>, lag |-> FALSE], cn, dn, sc)
<1>1. ScreenOuts(sc, a) = {} /\ ScreenRising(sc, a)
    BY ScreenNone
<1>2. ChunkOuts(cn, a, h) = {} /\ Rising(cn, a, h) /\ ChunkOuts(dn, a, h) = {} /\ Rising(dn, a, h)
    BY DEF ChunkOuts, Rising, Paints
<1>3. RxOuts(<<>>, a, h) = {} /\ RxRising(<<>>, a, h)
    BY DEF RxOuts, RxRising
<1>4. \A y \in 1..Len(h) : ~Kept(y, a, h)
    BY DEF Kept, Histories
<1>5. WholeOf({}, a, h, U, TRUE) /\ InLine({}, {}, {}, {})
    BY <1>4 DEF WholeOf, InLine, Apart
<1> QED
    BY <1>1, <1>2, <1>3, <1>5 DEF Exact

RxFrom(a, sm, ats) ==
    IF sm.id = a.id /\ sm.by = a THEN sm.rx
    ELSE IF ats[a.id].on /\ ats[a.id].by = a THEN ats[a.id].rx ELSE Over

\* Attachments whose catchup is on its way, or heads the screen.
Anchored(a) ==
    \/ seam # NoSeam /\ seam.by = a
    \/ \E i \in 1..Len(down) : down[i].type = "catchup" /\ down[i].by = a
    \/ screen # <<>> /\ screen[1].kind = "catchup" /\ screen[1].by = a

ExactAll ==
    \A a \in Grants : Anchored(a) /\ a \notin lossy =>
        Exact(a, hist[a.id], unsent[a.id], RxFrom(a, seam, att), conn, down, screen)

\* Output is published in order: what is numbered last is unsent last.
UnsentLast ==
    \A s \in Sess : \A i \in unsent[s] :
        /\ i \in 1..Len(hist[s])
        /\ IsOut(hist[s], i) => \A j \in 1..Len(hist[s]) : i < j => ~IsOut(hist[s], j)

Granted(g, s) == g.id = s /\ g.n < serial /\ g.from <= Len(hist[s]) + 1
Placed(q, s) == \A i \in 1..Len(q) : q[i] \in 1..Len(hist[s])
Streams(m) == m.type \in {"chunk", "catchup"}
Clear(q, a) == \A i \in 1..Len(q) : ~(Streams(q[i]) /\ q[i].by = a)
Blank(a) == \A i \in 1..Len(screen) : screen[i].kind = "replay" \/ screen[i].by # a

\* An attachment in the making is nobody else's yet.
Attaching ==
    /\ \A s \in Sess : att[s].on => Granted(att[s].by, s) /\ Placed(att[s].rx.q, s)
    /\ seam # NoSeam =>
        /\ Granted(seam.by, seam.id) /\ Placed(seam.rx.q, seam.id)
        /\ att[seam.id].on => att[seam.id].by # seam.by
        /\ Clear(conn, seam.by) /\ Clear(down, seam.by) /\ Blank(seam.by)

Sound(m) ==
    /\ Streams(m) => Granted(m.by, m.id)
    /\ m.type = "chunk" => m.at \in 1..Len(hist[m.id])
    /\ m.type = "catchup" => m.outs = OutBelow(m.id, m.by.from)

\* A catchup comes before all else of its attachment.
Framing ==
    /\ \A i \in 1..Len(conn) : Sound(conn[i]) /\ conn[i].type # "catchup"
    /\ \A i \in 1..Len(feed) : ~Streams(feed[i])
    /\ \A i \in 1..Len(down) : Sound(down[i])
    /\ \A i \in 1..Len(down) : down[i].type = "catchup" =>
        /\ \A j \in 1..Len(down) : j < i => ~(Streams(down[j]) /\ down[j].by = down[i].by)
        /\ Blank(down[i].by)

Painting ==
    screen # <<>> =>
        /\ Registered(sel)
        /\ \A i \in 1..Len(screen) :
            /\ screen[i].kind = "replay" <=> replay
            /\ screen[i].kind # "replay" => Granted(screen[i].by, sel)
            /\ screen[i].kind = "catchup" =>
                  i = 1 /\ screen[i].outs = OutBelow(sel, screen[i].by.from)
            /\ screen[i].kind = "chunk" => \E x \in 1..Len(hist[sel]) :
                  screen[i].outs = {x} /\ IsOut(hist[sel], x)

SeamInv == TermTypes /\ UnsentLast /\ Attaching /\ Framing /\ Painting /\ ExactAll

LEMMA AppendIs ==
    ASSUME NEW S, NEW q \in Seq(S), NEW m \in S
    PROVE  /\ Append(q, m) \in Seq(S) /\ Len(Append(q, m)) = Len(q) + 1
           /\ \A i \in 1..Len(Append(q, m)) :
                 \/ i \in 1..Len(q) /\ Append(q, m)[i] = q[i]
                 \/ i = Len(q) + 1 /\ Append(q, m)[i] = m
OBVIOUS

LEMMA TailIs ==
    ASSUME NEW S, NEW q \in Seq(S), q # <<>>
    PROVE  /\ Tail(q) \in Seq(S) /\ Head(q) \in S /\ Head(q) = q[1] /\ 1 \in 1..Len(q)
           /\ \A i \in 1..Len(Tail(q)) : i + 1 \in 1..Len(q) /\ Tail(q)[i] = q[i + 1]
OBVIOUS

Attachments == [Sess -> {NoAtt} \cup [on : {TRUE}, by : Grants, rx : Rxs]]
Seams == {NoSeam} \cup [id : Sess, by : Grants, rx : Rxs]

LEMMA RxTyped ==
    ASSUME NEW a \in Grants, NEW sm \in Seams, NEW ats \in Attachments
    PROVE  RxFrom(a, sm, ats) \in Rxs
<1>1. Over \in Rxs
    BY DEF Over, Rxs
<1>2. a.id \in Sess
    BY DEF Grants
<1>3. CASE sm.id = a.id
    <2>1. sm \in [id : Sess, by : Grants, rx : Rxs]
        BY <1>2, <1>3, TerminalsAssumption DEF Seams, NoSeam
    <2>2. ats[a.id].on => ats[a.id].rx \in Rxs
        BY <1>2, RunningOnly DEF Attachments
    <2> QED
        BY <1>1, <2>1, <2>2 DEF RxFrom
<1>4. CASE sm.id # a.id
    <2>2. ats[a.id].on => ats[a.id].rx \in Rxs
        BY <1>2, RunningOnly DEF Attachments
    <2> QED
        BY <1>1, <1>4, <2>2 DEF RxFrom
<1> QED
    BY <1>3, <1>4

LEMMA RxCut ==
    ASSUME NEW a \in Grants, NEW sm \in Seams, NEW ats \in Attachments, NEW s \in Sess
    PROVE  RxFrom(a, sm, [ats EXCEPT ![s] = NoAtt]) \in {RxFrom(a, sm, ats), Over}
<1>1. NoAtt.on = FALSE
    BY DEF NoAtt
<1>2. a.id \in Sess
    BY DEF Grants
<1> QED
    BY <1>1, <1>2 DEF RxFrom, Attachments

\* What a step adds to the channel, the wire and the feed that is no
\* attachment's, and a forwarder that ends.
LEMMA LoopStep ==
    ASSUME SeamInv, TermTypes',
           UNCHANGED <<hist, unsent, seam, serial, screen, mounted, sel, list, replay>>,
           att' = att \/ \E s \in Sess : att' = [att EXCEPT ![s] = NoAtt],
           down' = down \/ \E m \in Frames : ~Streams(m) /\ down' = Append(down, m),
           conn' = conn \/ \E m \in Frames : ~Streams(m) /\ conn' = Append(conn, m),
           lossy \subseteq lossy', \A i \in 1..Len(feed') : ~Streams(feed'[i])
    PROVE  SeamInv'
<1>0. /\ TermTypes /\ UnsentLast /\ Attaching /\ Framing /\ Painting /\ ExactAll
      /\ conn \in Seq(Frames) /\ down \in Seq(Frames)
    BY DEF SeamInv, TermTypes, LoopTypes, WireTypes
<1>1. UnsentLast' /\ Painting'
    BY <1>0 DEF UnsentLast, Painting, Registered, Granted, OutBelow
<1>2. ASSUME NEW i \in 1..Len(down')
      PROVE  (i \in 1..Len(down) /\ down'[i] = down[i]) \/ (~Streams(down'[i]) /\ i = Len(down) + 1)
    BY <1>0, AppendIs
<1>3. ASSUME NEW i \in 1..Len(conn')
      PROVE  (i \in 1..Len(conn) /\ conn'[i] = conn[i]) \/ ~Streams(conn'[i])
    <2>1. CASE conn' = conn
        BY <2>1
    <2>2. CASE conn' # conn
        <3>1. PICK m \in Frames : ~Streams(m) /\ conn' = Append(conn, m)
            BY <2>2
        <3> QED
            BY <1>0, <3>1, AppendIs
    <2> QED
        BY <2>1, <2>2
<1>4. ASSUME NEW s \in Sess PROVE att'[s] = att[s] \/ ~att'[s].on
    <2>1. NoAtt.on = FALSE
        BY DEF NoAtt
    <2> QED
        BY <1>0, <2>1 DEF TermTypes, LoopTypes
<1>5. \A g, s : Granted(g, s)' <=> Granted(g, s)
    BY DEF Granted
<1>6. Attaching'
    <2>1. ASSUME NEW s \in Sess, att'[s].on
          PROVE  Granted(att[s].by, s)' /\ Placed(att[s].rx.q, s)'
        <3>1. att'[s] = att[s] /\ att[s].on
            BY <1>4, <2>1
        <3>2. Granted(att[s].by, s) /\ Placed(att[s].rx.q, s)
            BY <1>0, <3>1 DEF Attaching
        <3> QED
            BY <3>1, <3>2 DEF Granted, Placed
    <2>2. ASSUME seam # NoSeam
          PROVE  /\ Granted(seam.by, seam.id)' /\ Placed(seam.rx.q, seam.id)'
                 /\ att'[seam.id].on => att'[seam.id].by # seam.by
                 /\ Clear(conn, seam.by)' /\ Clear(down, seam.by)' /\ Blank(seam.by)'
        <3>1. seam.id \in Sess
            BY <1>0, <2>2 DEF TermTypes, LoopTypes
        <3>2. Clear(conn, seam.by)' /\ Clear(down, seam.by)' /\ Blank(seam.by)'
            BY <1>0, <1>2, <1>3, <2>2 DEF Attaching, Clear, Blank
        <3> QED
            BY <1>0, <1>4, <1>5, <2>2, <3>1, <3>2 DEF Attaching, Placed
    <2>3. seam' = seam
        OBVIOUS
    <2> QED
        BY <2>1, <2>2, <2>3 DEF Attaching
<1>7. Framing'
    <2>1. \A m : Sound(m)' <=> Sound(m)
        BY DEF Sound, Granted, OutBelow
    <2>2. \A m : ~Streams(m) => Sound(m) /\ m.type # "catchup"
        BY DEF Sound, Streams
    <2>3. \A i \in 1..Len(conn') : Sound(conn'[i]) /\ conn'[i].type # "catchup"
        BY <1>0, <1>3, <2>2 DEF Framing
    <2>4. \A i \in 1..Len(down') : Sound(down'[i])
        BY <1>0, <1>2, <2>2 DEF Framing
    <2>5. ASSUME NEW i \in 1..Len(down'), down'[i].type = "catchup"
          PROVE  /\ \A j \in 1..Len(down') : j < i => ~(Streams(down'[j]) /\ down'[j].by = down'[i].by)
                 /\ Blank(down[i].by)'
        <3>1. i \in 1..Len(down) /\ down'[i] = down[i]
            BY <1>2, <2>2, <2>5
        <3>2. Blank(down[i].by)
            BY <1>0, <2>5, <3>1 DEF Framing
        <3>3. \A j \in 1..Len(down') : j < i => ~(Streams(down'[j]) /\ down'[j].by = down'[i].by)
            BY <1>0, <1>2, <2>5, <3>1 DEF Framing
        <3>4. screen' = screen
            OBVIOUS
        <3> QED
            BY <3>1, <3>2, <3>3, <3>4 DEF Blank
    <2>6. \A i \in 1..Len(conn') : Sound(conn[i])' /\ conn'[i].type # "catchup"
        BY <2>1, <2>3
    <2>7. \A i \in 1..Len(down') : Sound(down[i])'
        BY <2>1, <2>4
    <2> QED
        BY <2>5, <2>6, <2>7 DEF Framing
<1>8. ExactAll'
    <2> SUFFICES ASSUME NEW a \in Grants, Anchored(a)', a \notin lossy'
                 PROVE  Exact(a, hist[a.id], unsent[a.id], RxFrom(a, seam, att'), conn', down', screen)
        BY DEF ExactAll
    <2>1. Anchored(a)
        BY <1>2 DEF Anchored, Streams
    <2>2. PICK h, U, rx, rx2 : h = hist[a.id] /\ U = unsent[a.id]
                               /\ rx = RxFrom(a, seam, att) /\ rx2 = RxFrom(a, seam, att')
        OBVIOUS
    <2>3. Exact(a, h, U, rx, conn, down, screen)
        BY <1>0, <2>1, <2>2 DEF ExactAll
    <2>4. a.id \in Sess
        BY DEF Grants
    <2>5. h \in Histories /\ U \in SUBSET Nat /\ screen \in Seq(Writings)
        BY <1>0, <2>2, <2>4 DEF TermTypes, DaemonTypes, ViewTypes, Histories
    <2>6. seam \in Seams /\ att \in Attachments
        BY <1>0 DEF TermTypes, LoopTypes, Seams, Attachments
    <2>7. rx \in Rxs /\ rx2 \in {rx, Over}
        BY <2>2, <2>6, RxTyped, RxCut
    <2>8. Exact(a, h, U, rx2, conn, down, screen) /\ rx2 \in Rxs
        <3>1. Over \in Rxs
            BY DEF Over, Rxs
        <3> QED
            BY <1>0, <2>3, <2>5, <2>7, <3>1, ExactClose
    <2>9. Exact(a, h, U, rx2, conn', down, screen) /\ conn' \in Seq(Frames)
        <3>1. CASE conn' = conn
            BY <1>0, <2>8, <3>1
        <3>2. CASE conn' # conn
            <4>1. PICK m \in Frames : ~Streams(m) /\ conn' = Append(conn, m)
                BY <3>2
            <4>2. ~Paints(m, a, h)
                BY <4>1 DEF Paints, Streams
            <4>3. Exact(a, h, U, rx2, Append(conn, m), down, screen)
                BY ONLY <1>0, <2>5, <2>8, <4>2, ExactPlain, a \in Grants, m \in Frames
            <4> QED
                BY <1>0, <4>1, <4>3, AppendIs
        <3> QED
            BY <3>1, <3>2
    <2>10. Exact(a, h, U, rx2, conn', down', screen)
        <3>1. CASE down' = down
            BY <2>9, <3>1
        <3>2. CASE down' # down
            <4>1. PICK m \in Frames : ~Streams(m) /\ down' = Append(down, m)
                BY <3>2
            <4>2. ~Paints(m, a, h)
                BY <4>1 DEF Paints, Streams
            <4>3. PICK cn \in Seq(Frames) : cn = conn'
                BY <2>9
            <4>4. Exact(a, h, U, rx2, cn, down, screen)
                BY <2>9, <4>3
            <4>5. Exact(a, h, U, rx2, cn, Append(down, m), screen)
                BY ONLY <1>0, <2>5, <2>8, <4>2, <4>4, ExactPlain, a \in Grants, m \in Frames, cn \in Seq(Frames)
            <4> QED
                BY <4>1, <4>3, <4>5
        <3> QED
            BY <3>1, <3>2
    <2> QED
        BY <2>2, <2>10
<1> QED
    BY <1>1, <1>6, <1>7, <1>8 DEF SeamInv

\* What SeamInv says of an attachment, in the types the lemmas above take.
LEMMA ExactTyped ==
    ASSUME SeamInv, NEW a \in Grants
    PROVE  /\ a.id \in Sess /\ hist[a.id] \in Histories /\ unsent[a.id] \in SUBSET Nat
           /\ RxFrom(a, seam, att) \in Rxs /\ conn \in Seq(Frames) /\ down \in Seq(Frames)
           /\ screen \in Seq(Writings) /\ seam \in Seams /\ att \in Attachments
<1>1. a.id \in Sess
    BY DEF Grants
<1>2. seam \in Seams /\ att \in Attachments
    BY DEF SeamInv, TermTypes, LoopTypes, Seams, Attachments
<1>3. RxFrom(a, seam, att) \in Rxs
    BY <1>2, RxTyped
<1> QED
    BY <1>1, <1>2, <1>3 DEF SeamInv, TermTypes, DaemonTypes, LoopTypes, WireTypes, ViewTypes, Histories

LEMMA SeamPump ==
    ASSUME SeamInv, TermTypes', PumpConn
    PROVE  SeamInv'
<1>0. /\ TermTypes /\ UnsentLast /\ Attaching /\ Framing /\ Painting /\ ExactAll
      /\ conn \in Seq(Frames) /\ down \in Seq(Frames)
    BY DEF SeamInv, TermTypes, LoopTypes, WireTypes
<1>1. /\ seam = NoSeam /\ conn # <<>> /\ down' = Append(down, Head(conn)) /\ conn' = Tail(conn)
      /\ UNCHANGED <<hist, unsent, seam, att, serial, screen, mounted, sel, list, replay, feed, lossy>>
    BY DEF PumpConn, daemonVars, viewVars
<1>2. PICK m \in Frames : m = Head(conn) /\ m = conn[1] /\ 1 \in 1..Len(conn)
    BY <1>0, <1>1, TailIs
<1>3. Sound(m) /\ m.type # "catchup"
    BY <1>0, <1>2 DEF Framing
<1>4. UnsentLast' /\ Painting'
    BY <1>0, <1>1 DEF UnsentLast, Painting, Registered, Granted, OutBelow
<1>5. Attaching'
    BY <1>0, <1>1 DEF Attaching, Granted, Placed
<1>6. \A i \in 1..Len(down') : (i \in 1..Len(down) /\ down'[i] = down[i]) \/ (i = Len(down) + 1 /\ down'[i] = m)
    BY <1>0, <1>1, <1>2, AppendIs
<1>7. \A i \in 1..Len(conn') : i + 1 \in 1..Len(conn) /\ conn'[i] = conn[i + 1]
    BY <1>0, <1>1, TailIs
<1>8. Framing'
    <2>1. \A f : Sound(f)' <=> Sound(f)
        BY <1>1 DEF Sound, Granted, OutBelow
    <2>2. \A i \in 1..Len(conn') : Sound(conn'[i]) /\ conn'[i].type # "catchup"
        BY <1>0, <1>7 DEF Framing
    <2>3. \A i \in 1..Len(down') : Sound(down'[i])
        BY <1>0, <1>3, <1>6 DEF Framing
    <2>4. ASSUME NEW i \in 1..Len(down'), down'[i].type = "catchup"
          PROVE  /\ \A j \in 1..Len(down') : j < i => ~(Streams(down'[j]) /\ down'[j].by = down'[i].by)
                 /\ Blank(down[i].by)'
        <3>1. i \in 1..Len(down) /\ down'[i] = down[i]
            BY <1>3, <1>6, <2>4
        <3>2. Blank(down[i].by)
            BY <1>0, <2>4, <3>1 DEF Framing
        <3>3. \A j \in 1..Len(down') : j < i => j \in 1..Len(down) /\ down'[j] = down[j]
            BY <1>0, <1>6, <3>1
        <3>4. \A j \in 1..Len(down') : j < i => ~(Streams(down'[j]) /\ down'[j].by = down'[i].by)
            BY <1>0, <2>4, <3>1, <3>3 DEF Framing
        <3> QED
            BY <1>1, <3>1, <3>2, <3>4 DEF Blank
    <2>5. \A i \in 1..Len(conn') : Sound(conn[i])' /\ conn'[i].type # "catchup"
        BY <2>1, <2>2
    <2>6. \A i \in 1..Len(down') : Sound(down[i])'
        BY <2>1, <2>3
    <2>7. \A i \in 1..Len(feed') : ~Streams(feed'[i])
        BY <1>0, <1>1 DEF Framing
    <2> QED
        BY <2>4, <2>5, <2>6, <2>7 DEF Framing
<1>9. ExactAll'
    <2> SUFFICES ASSUME NEW a \in Grants, Anchored(a)', a \notin lossy'
                 PROVE  Exact(a, hist'[a.id], unsent'[a.id], RxFrom(a, seam', att'), conn', down', screen')
        BY DEF ExactAll
    <2>1. Anchored(a)
        BY <1>1, <1>3, <1>6 DEF Anchored
    <2>2. PICK h \in Histories, U \in SUBSET Nat, rx \in Rxs :
            h = hist[a.id] /\ U = unsent[a.id] /\ rx = RxFrom(a, seam, att)
        BY ExactTyped
    <2>3. Exact(a, h, U, rx, conn, down, screen) /\ screen \in Seq(Writings)
        BY <1>0, <1>1, <2>1, <2>2, ExactTyped DEF ExactAll
    <2>4. Exact(a, h, U, rx, Tail(conn), Append(down, Head(conn)), screen)
        BY ONLY <1>0, <1>1, <2>3, ExactPump, a \in Grants, h \in Histories, U \in SUBSET Nat, rx \in Rxs
    <2> QED
        BY <1>1, <2>2, <2>4
<1> QED
    BY <1>4, <1>5, <1>8, <1>9 DEF SeamInv

LEMMA SeamForward ==
    ASSUME SeamInv, TermTypes', NEW s \in Sess, Forward(s), att[s].rx.q # <<>>
    PROVE  SeamInv'
<1>0. /\ TermTypes /\ UnsentLast /\ Attaching /\ Framing /\ Painting /\ ExactAll
      /\ conn \in Seq(Frames) /\ down \in Seq(Frames)
    BY DEF SeamInv, TermTypes, LoopTypes, WireTypes
<1>1. att[s].on /\ att[s] \in [on : {TRUE}, by : Grants, rx : Rxs]
    BY <1>0, RunningOnly DEF Forward, TermTypes, LoopTypes
<1>2. PICK g \in Grants, rx \in Rxs, i \in Nat :
        g = att[s].by /\ rx = att[s].rx /\ i = Head(rx.q) /\ rx.q # <<>> /\ rx.q \in Seq(Nat)
    <2>1. att[s].rx.q \in Seq(Nat) /\ Head(att[s].rx.q) \in Nat
        <3>1. att[s].rx.q \in Seq(Nat)
            BY <1>1 DEF Rxs
        <3> QED
            BY <3>1
    <2> QED
        BY <1>1, <2>1
<1>3. PICK rx2 \in Rxs : rx2 = [rx EXCEPT !.q = Tail(rx.q)] /\ rx2.q = Tail(rx.q) /\ rx2.lag = rx.lag
    <2>1. Tail(rx.q) \in Seq(Nat)
        BY <1>2
    <2>2. [rx EXCEPT !.q = Tail(rx.q)] \in Rxs
        BY <1>2, <2>1 DEF Rxs
    <2> QED
        BY <2>2 DEF Rxs
<1>4. /\ att' = [att EXCEPT ![s] = [on |-> TRUE, by |-> g, rx |-> rx2]]
      /\ att \in Attachments /\ seam \in Seams
    <2>1. att' = [att EXCEPT ![s].rx.q = Tail(rx.q)]
        BY <1>2 DEF Forward
    <2>2. att \in Attachments /\ seam \in Seams
        BY <1>0 DEF TermTypes, LoopTypes, Attachments, Seams
    <2>3. [att[s] EXCEPT !.rx = rx2] = [on |-> TRUE, by |-> g, rx |-> rx2]
        <3>1. PICK r \in [on : {TRUE}, by : Grants, rx : Rxs] : r = att[s] /\ r.by = g /\ r.rx = rx
            BY <1>1, <1>2
        <3>2. r.on = TRUE
            OBVIOUS
        <3>3. [r EXCEPT !.rx = rx2] = [on |-> r.on, by |-> r.by, rx |-> rx2]
            OBVIOUS
        <3> QED
            BY <3>1, <3>2, <3>3
    <2>4. att' = [att EXCEPT ![s] = [att[s] EXCEPT !.rx = rx2]]
        BY <1>2, <1>3, <2>1, <2>2 DEF Attachments
    <2> QED
        BY <2>2, <2>3, <2>4
<1>5. /\ Granted(g, s) /\ Placed(rx.q, s) /\ g.id = s /\ i \in 1..Len(hist[s])
    <2>1. Granted(g, s) /\ Placed(rx.q, s)
        BY <1>0, <1>1, <1>2 DEF Attaching
    <2>2. i = rx.q[1] /\ 1 \in 1..Len(rx.q)
        BY <1>2
    <2> QED
        BY <2>1, <2>2 DEF Granted, Placed
<1>6. PICK m \in Frames : /\ m = [type |-> "chunk", id |-> s, at |-> i, by |-> g]
                          /\ m.type = "chunk" /\ m.id = s /\ m.at = i /\ m.by = g
    <2>1. [type |-> "chunk", id |-> s, at |-> i, by |-> g] \in Frames
        BY DEF Frames, Chunks
    <2> QED
        BY <2>1
<1>7. /\ UNCHANGED <<hist, unsent, seam, serial, screen, mounted, sel, list, replay, feed, down>>
      /\ conn' = IF i < g.from THEN conn ELSE TrySend(m)
      /\ lossy' = IF i >= g.from /\ Len(conn) >= ConnCap THEN lossy \cup {g} ELSE lossy
    BY <1>2, <1>6 DEF Forward, daemonVars, wireVars, viewVars
<1>8. /\ conn' = conn \/ (conn' = Append(conn, m) /\ g.from <= i)
      /\ g \notin lossy' /\ g.from <= i => conn' = Append(conn, m)
      /\ lossy \subseteq lossy'
    BY <1>7, TerminalsAssumption DEF TrySend, Grants
<1>9. UnsentLast' /\ Painting'
    BY <1>0, <1>7 DEF UnsentLast, Painting, Registered, Granted, OutBelow
<1>10. \A j \in 1..Len(conn') : (j \in 1..Len(conn) /\ conn'[j] = conn[j]) \/ conn'[j] = m
    <2>1. CASE conn' = conn
        BY <2>1
    <2>2. CASE conn' = Append(conn, m)
        BY <1>0, <2>2, AppendIs
    <2> QED
        BY <1>8, <2>1, <2>2
<1>11. \A x, r : Granted(x, r)' <=> Granted(x, r)
    BY <1>7 DEF Granted
<1>12. Attaching'
    <2>1. ASSUME NEW r \in Sess, att'[r].on
          PROVE  Granted(att[r].by, r)' /\ Placed(att[r].rx.q, r)'
        <3>1. CASE r = s
            <4>1. att'[r].by = g /\ att'[r].rx = rx2
                BY <1>4, <3>1 DEF Attachments
            <4>2. Placed(rx2.q, s)
                BY <1>2, <1>3, <1>5, TailIs DEF Placed
            <4> QED
                BY <1>5, <1>7, <3>1, <4>1, <4>2 DEF Granted, Placed
        <3>2. CASE r # s
            <4>1. att'[r] = att[r]
                BY <1>4, <3>2 DEF Attachments
            <4>2. Granted(att[r].by, r) /\ Placed(att[r].rx.q, r)
                BY <1>0, <2>1, <4>1 DEF Attaching
            <4> QED
                BY <1>7, <4>1, <4>2 DEF Granted, Placed
        <3> QED
            BY <3>1, <3>2
    <2>2. ASSUME seam # NoSeam
          PROVE  /\ Granted(seam.by, seam.id)' /\ Placed(seam.rx.q, seam.id)'
                 /\ att'[seam.id].on => att'[seam.id].by # seam.by
                 /\ Clear(conn, seam.by)' /\ Clear(down, seam.by)' /\ Blank(seam.by)'
        <3>1. /\ Granted(seam.by, seam.id) /\ Placed(seam.rx.q, seam.id)
              /\ att[seam.id].on => att[seam.id].by # seam.by
              /\ Clear(conn, seam.by) /\ Clear(down, seam.by) /\ Blank(seam.by)
            BY <1>0, <2>2 DEF Attaching
        <3>2. seam.id \in Sess
            BY <1>4, <2>2 DEF Seams
        <3>3. g # seam.by
            BY <1>1, <1>2, <1>5, <3>1 DEF Granted
        <3>4. att'[seam.id].on => att'[seam.id].by # seam.by
            BY <1>4, <3>1, <3>2, <3>3 DEF Attachments
        <3>5. Clear(conn', seam.by)
            BY <1>6, <1>10, <3>1, <3>3 DEF Clear
        <3> QED
            BY <1>7, <3>1, <3>4, <3>5 DEF Granted, Placed, Clear, Blank
    <2> QED
        BY <1>7, <2>1, <2>2 DEF Attaching
<1>13. Framing'
    <2>1. \A f : Sound(f)' <=> Sound(f)
        BY <1>7 DEF Sound, Granted, OutBelow
    <2>2. Sound(m)
        BY <1>5, <1>6 DEF Sound, Streams
    <2>3. \A j \in 1..Len(conn') : Sound(conn'[j]) /\ conn'[j].type # "catchup"
        BY <1>0, <1>6, <1>10, <2>2 DEF Framing
    <2>4. \A j \in 1..Len(conn') : Sound(conn[j])' /\ conn'[j].type # "catchup"
        BY <2>1, <2>3
    <2>5. \A j \in 1..Len(down') : Sound(down[j])'
        BY <1>0, <1>7, <2>1 DEF Framing
    <2> QED
        BY <1>0, <1>7, <2>4, <2>5 DEF Framing, Blank
<1>14. ExactAll'
    <2> SUFFICES ASSUME NEW a \in Grants, Anchored(a)', a \notin lossy'
                 PROVE  Exact(a, hist'[a.id], unsent'[a.id], RxFrom(a, seam', att'), conn', down', screen')
        BY DEF ExactAll
    <2>1. Anchored(a) /\ a \notin lossy
        BY <1>7, <1>8 DEF Anchored
    <2>2. PICK h \in Histories, U \in SUBSET Nat, r1 \in Rxs :
            h = hist[a.id] /\ U = unsent[a.id] /\ r1 = RxFrom(a, seam, att)
        BY ExactTyped
    <2>3. /\ Exact(a, h, U, r1, conn, down, screen) /\ screen \in Seq(Writings)
          /\ a.id \in Sess
        BY <1>0, <2>1, <2>2, ExactTyped DEF ExactAll
    <2>4. CASE a = g
        <3>1. ~(seam.id = a.id /\ seam.by = a)
            BY <1>0, <1>1, <1>2, <1>5, <2>4, TerminalsAssumption DEF Attaching, NoSeam
        <3>2. r1 = rx /\ RxFrom(a, seam, att') = rx2
            BY <1>1, <1>2, <1>4, <1>5, <2>2, <2>4, <3>1 DEF RxFrom, Attachments
        <3>3. CASE i < g.from
            <4>1. conn' = conn
                BY <1>7, <3>3
            <4>2. ~Kept(Head(rx.q), a, h)
                BY <1>2, <2>4, <3>3 DEF Kept, Grants
            <4>3. Exact(a, h, U, rx2, conn, down, screen)
                BY ONLY <1>0, <1>2, <1>3, <2>3, <3>2, <4>2, ExactSkip, a \in Grants, h \in Histories,
                        U \in SUBSET Nat, rx \in Rxs, rx2 \in Rxs
            <4> QED
                BY <1>7, <2>2, <3>2, <4>1, <4>3
        <3>4. CASE ~(i < g.from)
            <4>1. g.from <= i /\ conn' = Append(conn, m)
                BY <1>8, <2>4, <3>4 DEF Grants
            <4>2. a.from <= Head(rx.q) /\ m.type = "chunk" /\ m.by = a /\ m.at = Head(rx.q)
                BY <1>2, <1>6, <2>4, <4>1
            <4>3. Exact(a, h, U, rx2, Append(conn, m), down, screen)
                BY ONLY <1>0, <1>2, <1>3, <2>3, <3>2, <4>2, ExactForward, a \in Grants, h \in Histories,
                        U \in SUBSET Nat, rx \in Rxs, rx2 \in Rxs, m \in Frames
            <4> QED
                BY <1>7, <2>2, <3>2, <4>1, <4>3
        <3> QED
            BY <3>3, <3>4
    <2>5. CASE a # g
        <3>1. RxFrom(a, seam, att') = r1
            BY <1>1, <1>2, <1>4, <2>2, <2>3, <2>5 DEF RxFrom, Attachments
        <3>2. CASE conn' = conn
            BY <1>7, <2>2, <2>3, <3>1, <3>2
        <3>3. CASE conn' = Append(conn, m)
            <4>1. ~Paints(m, a, h)
                BY <1>6, <2>5 DEF Paints
            <4>2. Exact(a, h, U, r1, Append(conn, m), down, screen)
                BY ONLY <1>0, <2>3, <4>1, ExactPlain, a \in Grants, h \in Histories,
                        U \in SUBSET Nat, r1 \in Rxs, m \in Frames
            <4> QED
                BY <1>7, <2>2, <3>1, <3>3, <4>2
        <3> QED
            BY <1>8, <3>2, <3>3
    <2> QED
        BY <2>4, <2>5
<1> QED
    BY <1>9, <1>12, <1>13, <1>14 DEF SeamInv

LEMMA SoundAt ==
    ASSUME NEW m, Sound(m), m.type = "chunk"
    PROVE  m.at \in 1..Len(hist[m.by.id])
BY DEF Sound, Streams, Granted

LEMMA SeamGrow ==
    ASSUME SeamInv, TermTypes', NEW s \in Sess, NEW k \in {"out", "other"}, Assign(s, k),
           k = "out" => unsent[s] = {},
           UNCHANGED <<seam, att, conn, feed, down, screen, serial, lossy, mounted, sel, list, replay>>
    PROVE  SeamInv'
<1>0. /\ TermTypes /\ UnsentLast /\ Attaching /\ Framing /\ Painting /\ ExactAll
      /\ conn \in Seq(Frames) /\ down \in Seq(Frames) /\ hist \in [Sess -> Histories]
      /\ unsent \in [Sess -> SUBSET Nat]
    BY DEF SeamInv, TermTypes, LoopTypes, WireTypes, DaemonTypes, Histories
<1>1. PICK h \in Histories : h = hist[s] /\ Len(h) \in Nat
    BY <1>0 DEF Histories
<1>2. /\ hist' = [hist EXCEPT ![s] = Append(h, k)]
      /\ unsent' = [unsent EXCEPT ![s] = unsent[s] \cup {Len(h) + 1}]
    BY <1>1 DEF Assign
<1>3. \A r \in Sess : /\ r # s => hist'[r] = hist[r] /\ unsent'[r] = unsent[r]
                      /\ r = s => hist'[r] = Append(h, k) /\ unsent'[r] = unsent[s] \cup {Len(h) + 1}
    BY <1>0, <1>2
<1>4. Len(Append(h, k)) = Len(h) + 1 /\ \A x \in Nat :
         IsOut(Append(h, k), x) <=> IsOut(h, x) \/ (x = Len(h) + 1 /\ k = "out")
    BY SameOut
\* What was placed stays placed and means the same.
<1>5. ASSUME NEW r \in Sess
      PROVE  /\ 1..Len(hist[r]) \subseteq 1..Len(hist'[r])
             /\ \A x \in 1..Len(hist[r]) : IsOut(hist'[r], x) <=> IsOut(hist[r], x)
             /\ \A n \in Nat : n <= Len(hist[r]) + 1 => n <= Len(hist'[r]) + 1
    <2>1. CASE r = s
        <3>1. \A x \in 1..Len(h) : x \in Nat /\ x # Len(h) + 1 /\ x \in 1..(Len(h) + 1)
            BY <1>1
        <3>2. hist[r] = h /\ hist'[r] = Append(h, k)
            BY <1>1, <1>3, <2>1
        <3>3. \A x \in 1..Len(h) : IsOut(Append(h, k), x) <=> IsOut(h, x)
            BY <1>4, <3>1
        <3>4. \A n \in Nat : n <= Len(h) + 1 => n <= Len(h) + 1 + 1
            BY <1>1
        <3> QED
            BY <1>4, <3>1, <3>2, <3>3, <3>4
    <2>2. CASE r # s
        BY <1>3, <2>2
    <2> QED
        BY <2>1, <2>2
<1>6. ASSUME NEW r \in Sess, NEW n \in Nat, n <= Len(hist[r]) + 1
      PROVE  OutBelow(r, n)' = OutBelow(r, n)
    <2>1. Len(hist[r]) \in Nat /\ Len(hist'[r]) \in Nat
        BY <1>0, <1>1, <1>3, <1>4 DEF Histories
    <2>2. \A x : x \in OutBelow(r, n) <=> x < n /\ IsOut(hist[r], x)
        BY DEF OutBelow, IsOut
    <2>3. \A x : x \in OutBelow(r, n)' <=> x < n /\ IsOut(hist'[r], x)
        BY DEF OutBelow, IsOut
    <2>4. \A x \in 1..Len(hist'[r]) : x < n => x \in 1..Len(hist[r])
        BY <1>6, <2>1
    <2>5. \A x : IsOut(hist'[r], x) => x \in 1..Len(hist'[r])
        BY DEF IsOut
    <2>6. \A x : IsOut(hist[r], x) => x \in 1..Len(hist[r])
        BY DEF IsOut
    <2>7. \A x : x \in OutBelow(r, n)' <=> x \in OutBelow(r, n)
        BY <1>5, <2>2, <2>3, <2>4, <2>5, <2>6
    <2> QED
        BY <2>7
<1>7. \A g \in Grants, r \in Sess : Granted(g, r) => Granted(g, r)'
    BY <1>5 DEF Granted, Grants
<1>8. ASSUME NEW q, NEW r \in Sess, Placed(q, r) PROVE \A j \in 1..Len(q) : q[j] \in 1..Len(hist'[r])
    BY <1>5, <1>8 DEF Placed
<1>9. UnsentLast'
    <2> SUFFICES ASSUME NEW r \in Sess, NEW u \in unsent'[r]
                 PROVE  /\ u \in 1..Len(hist'[r])
                        /\ IsOut(hist'[r], u) => \A j \in 1..Len(hist'[r]) : u < j => ~IsOut(hist'[r], j)
        BY DEF UnsentLast
    <2>1. CASE r # s
        BY <1>0, <1>3, <2>1 DEF UnsentLast
    <2>2. CASE r = s /\ u = Len(h) + 1
        BY <1>1, <1>3, <1>4, <2>2
    <2>3. CASE r = s /\ u \in unsent[s]
        <3>1. k # "out"
            BY <2>3
        <3>2. u \in 1..Len(h) /\ (IsOut(h, u) => \A j \in 1..Len(h) : u < j => ~IsOut(h, j))
            BY <1>0, <1>1, <2>3 DEF UnsentLast
        <3>3. \A j \in 1..(Len(h) + 1) : j \in Nat /\ (IsOut(h, j) => j \in 1..Len(h))
            BY <1>1 DEF IsOut
        <3>4. hist'[r] = Append(h, k)
            BY <1>3, <2>3
        <3>5. \A j \in 1..(Len(h) + 1) : IsOut(Append(h, k), j) <=> IsOut(h, j)
            BY <1>4, <3>1, <3>3
        <3>6. u \in 1..(Len(h) + 1)
            BY <1>1, <3>2
        <3>7. IsOut(h, u) => \A j \in 1..(Len(h) + 1) : u < j => ~IsOut(h, j)
            BY <3>2, <3>3
        <3> QED
            BY <1>4, <3>4, <3>5, <3>6, <3>7
    <2> QED
        BY <1>3, <2>1, <2>2, <2>3
<1>10. Attaching'
    <2>1. ASSUME NEW r \in Sess, att'[r].on
          PROVE  Granted(att[r].by, r)' /\ Placed(att[r].rx.q, r)'
        <3>1. Granted(att[r].by, r) /\ Placed(att[r].rx.q, r) /\ att[r].by \in Grants
            BY <1>0, <2>1, RunningOnly DEF Attaching, TermTypes, LoopTypes
        <3> QED
            BY <1>5, <1>7, <3>1 DEF Placed
    <2>2. ASSUME seam # NoSeam
          PROVE  /\ Granted(seam.by, seam.id)' /\ Placed(seam.rx.q, seam.id)'
                 /\ att'[seam.id].on => att'[seam.id].by # seam.by
                 /\ Clear(conn, seam.by)' /\ Clear(down, seam.by)' /\ Blank(seam.by)'
        <3>1. seam.id \in Sess /\ seam.by \in Grants
            BY <1>0, <2>2 DEF TermTypes, LoopTypes
        <3>2. /\ Granted(seam.by, seam.id) /\ Placed(seam.rx.q, seam.id)
              /\ att[seam.id].on => att[seam.id].by # seam.by
              /\ Clear(conn, seam.by) /\ Clear(down, seam.by) /\ Blank(seam.by)
            BY <1>0, <2>2 DEF Attaching
        <3> QED
            BY <1>5, <1>7, <3>1, <3>2 DEF Placed, Clear, Blank
    <2> QED
        BY <2>1, <2>2 DEF Attaching
<1>11. ASSUME NEW m \in Frames, Sound(m) PROVE Sound(m)'
    <2>1. ASSUME Streams(m) PROVE m.id \in Sess /\ m.by \in Grants /\ Granted(m.by, m.id)
        BY <1>11, <2>1 DEF Sound, Streams, Frames, Chunks, Catchups, Errors, EventFrames, Lists
    <2>2. Streams(m) => Granted(m.by, m.id)'
        BY <1>7, <2>1
    <2>3. m.type = "chunk" => m.at \in 1..Len(hist'[m.id])
        BY <1>5, <1>11, <2>1 DEF Sound, Streams
    <2>4. m.type = "catchup" => m.outs = OutBelow(m.id, m.by.from)'
        BY <1>6, <1>11, <2>1 DEF Sound, Streams, Granted, Grants
    <2> QED
        BY <2>2, <2>3, <2>4 DEF Sound
<1>12. Framing'
    <2>1. /\ \A i \in 1..Len(conn) : conn[i] \in Frames /\ Sound(conn[i]) /\ conn[i].type # "catchup"
          /\ \A i \in 1..Len(down) : down[i] \in Frames /\ Sound(down[i])
        BY <1>0 DEF Framing
    <2>2. /\ \A i \in 1..Len(conn) : Sound(conn[i])'
          /\ \A i \in 1..Len(down) : Sound(down[i])'
        BY <1>11, <2>1
    <2> QED
        BY <1>0, <2>1, <2>2 DEF Framing, Blank
<1>13. Painting'
    <2>1. ASSUME screen # <<>>, NEW i \in 1..Len(screen)
          PROVE  /\ screen[i].kind # "replay" => Granted(screen[i].by, sel)'
                 /\ screen[i].kind = "catchup" => i = 1 /\ screen[i].outs = OutBelow(sel, screen[i].by.from)'
                 /\ screen[i].kind = "chunk" => \E x \in 1..Len(hist'[sel]) :
                         screen[i].outs = {x} /\ IsOut(hist'[sel], x)
        <3>1. sel \in Sess /\ screen[i].by \in Grants
            <4>1. sel \in DOMAIN list /\ list \in RowMaps /\ screen[i] \in Writings
                BY <1>0, <2>1 DEF Painting, Registered, TermTypes, ViewTypes
            <4> QED
                BY <4>1, RowMapDomain DEF Writings
        <3>2. screen[i].kind # "replay" => Granted(screen[i].by, sel)
            BY <1>0, <2>1 DEF Painting
        <3>3. screen[i].kind # "replay" => screen[i].by.from \in Nat /\ screen[i].by.from <= Len(hist[sel]) + 1
            BY <3>1, <3>2 DEF Granted, Grants
        <3>4. screen[i].kind = "catchup" => i = 1 /\ screen[i].outs = OutBelow(sel, screen[i].by.from)
            BY <1>0, <2>1 DEF Painting
        <3>5. screen[i].kind = "chunk" => \E x \in 1..Len(hist[sel]) :
                         screen[i].outs = {x} /\ IsOut(hist[sel], x)
            BY <1>0, <2>1 DEF Painting
        <3>6. screen[i].kind = "catchup" => screen[i].outs = OutBelow(sel, screen[i].by.from)'
            BY <1>6, <3>1, <3>3, <3>4
        <3> QED
            BY <1>5, <1>7, <3>1, <3>2, <3>4, <3>5, <3>6
    <2> QED
        BY <1>0, <2>1 DEF Painting, Registered
<1>14. ExactAll'
    <2> SUFFICES ASSUME NEW a \in Grants, Anchored(a)', a \notin lossy'
                 PROVE  Exact(a, hist'[a.id], unsent'[a.id], RxFrom(a, seam', att'), conn', down', screen')
        BY DEF ExactAll
    <2>1. Anchored(a)
        BY DEF Anchored
    <2>2. PICK H \in Histories, U \in SUBSET Nat, rx \in Rxs :
            H = hist[a.id] /\ U = unsent[a.id] /\ rx = RxFrom(a, seam, att)
        BY ExactTyped
    <2>3. Exact(a, H, U, rx, conn, down, screen) /\ screen \in Seq(Writings) /\ a.id \in Sess
        BY <1>0, <2>1, <2>2, ExactTyped DEF ExactAll
    <2>4. CASE a.id # s
        BY <1>3, <2>2, <2>3, <2>4
    <2>5. CASE a.id = s
        <3>1. H = h
            BY <1>1, <2>2, <2>5
        <3>2. \A i \in 1..Len(conn) : conn[i].type = "chunk" /\ conn[i].by = a => conn[i].at \in 1..Len(H)
            BY <1>0, <2>2, SoundAt DEF Framing
        <3>3. \A i \in 1..Len(down) : down[i].type = "chunk" /\ down[i].by = a => down[i].at \in 1..Len(H)
            BY <1>0, <2>2, SoundAt DEF Framing
        <3>4. \A i \in 1..Len(rx.q) : rx.q[i] \in 1..Len(H)
            <4>1. \A i \in 1..Len(Over.q) : FALSE
                BY DEF Over
            <4>2. CASE seam.id = a.id /\ seam.by = a
                <5>1. seam # NoSeam
                    BY <2>3, <4>2, TerminalsAssumption DEF NoSeam
                <5> QED
                    BY <1>0, <2>2, <4>2, <5>1 DEF RxFrom, Attaching, Placed
            <4>3. CASE ~(seam.id = a.id /\ seam.by = a) /\ att[a.id].on /\ att[a.id].by = a
                BY <1>0, <2>2, <2>3, <4>3 DEF RxFrom, Attaching, Placed
            <4> QED
                BY <2>2, <4>1, <4>2, <4>3 DEF RxFrom
        <3>5. Exact(a, Append(H, k), U \cup {Len(H) + 1}, rx, conn, down, screen)
            BY ONLY <1>0, <2>3, <3>2, <3>3, <3>4, ExactGrow, a \in Grants, H \in Histories,
                    U \in SUBSET Nat, rx \in Rxs, k \in {"out", "other"}
        <3> QED
            BY <1>3, <2>2, <2>3, <2>5, <3>1, <3>5
    <2> QED
        BY <2>4, <2>5
<1> QED
    BY <1>9, <1>10, <1>12, <1>13, <1>14 DEF SeamInv

LEMMA DeliverPlaced ==
    ASSUME NEW rx \in Rxs, NEW n \in Nat, NEW i \in 1..n, \A j \in 1..Len(rx.q) : rx.q[j] \in 1..n
    PROVE  \A j \in 1..Len(Deliver(rx, i).q) : Deliver(rx, i).q[j] \in 1..n
<1>1. rx.q \in Seq(Nat) /\ i \in Nat
    BY DEF Rxs
<1>2. \A j \in 1..Len(Append(rx.q, i)) : Append(rx.q, i)[j] \in 1..n
    BY <1>1, AppendIs
<1>3. CASE rx.lag \/ Len(rx.q) = RxCap
    BY <1>3 DEF Deliver
<1>4. CASE ~(rx.lag \/ Len(rx.q) = RxCap)
    <2>1. Deliver(rx, i).q = Append(rx.q, i)
        BY <1>4 DEF Deliver, Rxs
    <2> QED
        BY <1>2, <2>1
<1> QED
    BY <1>3, <1>4

LEMMA SeamPublish ==
    ASSUME SeamInv, TermTypes', NEW s \in Sess, Publish(s)
    PROVE  SeamInv'
<1>0. /\ TermTypes /\ UnsentLast /\ Attaching /\ Framing /\ Painting /\ ExactAll
      /\ conn \in Seq(Frames) /\ down \in Seq(Frames) /\ hist \in [Sess -> Histories]
      /\ unsent \in [Sess -> SUBSET Nat] /\ seam \in Seams /\ att \in Attachments
    BY DEF SeamInv, TermTypes, LoopTypes, WireTypes, DaemonTypes, Histories, Seams, Attachments
<1>1. PICK i \in unsent[s] : Publish(s)!(i)
    BY DEF Publish
<1>2. /\ unsent' = [unsent EXCEPT ![s] = unsent[s] \ {i}]
      /\ att' = IF att[s].on THEN [att EXCEPT ![s].rx = Deliver(att[s].rx, i)] ELSE att
      /\ seam' = IF seam.id = s THEN [seam EXCEPT !.rx = Deliver(seam.rx, i)] ELSE seam
      /\ UNCHANGED <<hist, conn, feed, down, screen, serial, lossy, mounted, sel, list, replay>>
    BY <1>0, <1>1 DEF wireVars, viewVars, Attachments
<1>3. i \in 1..Len(hist[s]) /\ i \in Nat /\ Len(hist[s]) \in Nat
    BY <1>0 DEF UnsentLast, Histories
<1>4. ASSUME NEW r \in Sess
      PROVE  /\ att'[r].on <=> att[r].on
             /\ att[r].on => att'[r].by = att[r].by
             /\ att[r].on => att'[r].rx = IF r = s THEN Deliver(att[r].rx, i) ELSE att[r].rx
    <2>1. CASE att[s].on /\ r = s
        <3>1. att[s] \in [on : {TRUE}, by : Grants, rx : Rxs]
            BY <1>0, <2>1, RunningOnly DEF Attachments
        <3>2. att'[s] = [att[s] EXCEPT !.rx = Deliver(att[s].rx, i)]
            BY <1>0, <1>2, <2>1 DEF Attachments
        <3> QED
            BY <2>1, <3>1, <3>2
    <2>2. CASE ~(att[s].on /\ r = s)
        BY <1>0, <1>2, <2>2 DEF Attachments
    <2> QED
        BY <2>1, <2>2
<1>5. /\ seam' # NoSeam <=> seam # NoSeam
      /\ seam'.id = seam.id
      /\ seam # NoSeam => seam'.by = seam.by
      /\ seam # NoSeam => seam'.rx = IF seam.id = s THEN Deliver(seam.rx, i) ELSE seam.rx
    <2>1. CASE seam.id = s
        <3>1. seam \in [id : Sess, by : Grants, rx : Rxs] /\ seam # NoSeam
            BY <1>0, <2>1, TerminalsAssumption DEF Seams, NoSeam
        <3>2. seam' = [seam EXCEPT !.rx = Deliver(seam.rx, i)]
            BY <1>2, <2>1
        <3>3. seam'.id = seam.id /\ seam'.by = seam.by /\ seam'.rx = Deliver(seam.rx, i)
            BY <3>1, <3>2
        <3>4. seam' # NoSeam
            BY <2>1, <3>3, TerminalsAssumption DEF NoSeam
        <3> QED
            BY <2>1, <3>1, <3>3, <3>4
    <2>2. CASE seam.id # s
        BY <1>2, <2>2
    <2> QED
        BY <2>1, <2>2
<1>6. UnsentLast' /\ Painting'
    BY <1>0, <1>2 DEF UnsentLast, Painting, Registered, Granted, OutBelow
<1>7. \A g, r : Granted(g, r)' <=> Granted(g, r)
    BY <1>2 DEF Granted
<1>8. ASSUME NEW rx \in Rxs, Placed(rx.q, s)
      PROVE  \A j \in 1..Len(Deliver(rx, i).q) : Deliver(rx, i).q[j] \in 1..Len(hist'[s])
    BY <1>2, <1>3, <1>8, DeliverPlaced DEF Placed
<1>9. Attaching'
    <2>1. ASSUME NEW r \in Sess, att'[r].on
          PROVE  Granted(att[r].by, r)' /\ Placed(att[r].rx.q, r)'
        <3>1. Granted(att[r].by, r) /\ Placed(att[r].rx.q, r) /\ att[r].rx \in Rxs
            BY <1>0, <1>4, <2>1, RunningOnly DEF Attaching, Attachments
        <3>2. \A j \in 1..Len(att'[r].rx.q) : att'[r].rx.q[j] \in 1..Len(hist'[r])
            BY <1>2, <1>4, <1>8, <2>1, <3>1 DEF Placed
        <3> QED
            BY <1>2, <1>4, <2>1, <3>1, <3>2 DEF Placed, Granted
    <2>2. ASSUME seam # NoSeam
          PROVE  /\ Granted(seam.by, seam.id)' /\ Placed(seam.rx.q, seam.id)'
                 /\ att'[seam.id].on => att'[seam.id].by # seam.by
                 /\ Clear(conn, seam.by)' /\ Clear(down, seam.by)' /\ Blank(seam.by)'
        <3>1. /\ Granted(seam.by, seam.id) /\ Placed(seam.rx.q, seam.id)
              /\ att[seam.id].on => att[seam.id].by # seam.by
              /\ Clear(conn, seam.by) /\ Clear(down, seam.by) /\ Blank(seam.by)
              /\ seam.rx \in Rxs /\ seam.id \in Sess
            BY <1>0, <2>2 DEF Attaching, Seams
        <3>2. \A j \in 1..Len(seam'.rx.q) : seam'.rx.q[j] \in 1..Len(hist'[seam.id])
            BY <1>2, <1>5, <1>8, <2>2, <3>1 DEF Placed
        <3> QED
            BY <1>2, <1>4, <1>5, <2>2, <3>1, <3>2 DEF Placed, Granted, Clear, Blank
    <2> QED
        BY <1>5, <2>1, <2>2 DEF Attaching
<1>10. Framing'
    <2>1. \A f : Sound(f)' <=> Sound(f)
        BY <1>2 DEF Sound, Granted, OutBelow
    <2>2. /\ \A j \in 1..Len(conn') : Sound(conn[j])' /\ conn'[j].type # "catchup"
          /\ \A j \in 1..Len(down') : Sound(down[j])'
        BY <1>0, <1>2, <2>1 DEF Framing
    <2> QED
        BY <1>0, <1>2, <2>2 DEF Framing, Blank
<1>11. ExactAll'
    <2> SUFFICES ASSUME NEW a \in Grants, Anchored(a)', a \notin lossy'
                 PROVE  Exact(a, hist'[a.id], unsent'[a.id], RxFrom(a, seam', att'), conn', down', screen')
        BY DEF ExactAll
    <2>1. Anchored(a)
        BY <1>2, <1>5 DEF Anchored
    <2>2. PICK h \in Histories, U \in SUBSET Nat, rx \in Rxs :
            h = hist[a.id] /\ U = unsent[a.id] /\ rx = RxFrom(a, seam, att)
        BY ExactTyped
    <2>3. Exact(a, h, U, rx, conn, down, screen) /\ screen \in Seq(Writings) /\ a.id \in Sess
        BY <1>0, <1>2, <2>1, <2>2, ExactTyped DEF ExactAll
    <2>4. seam.id = a.id => seam # NoSeam
        BY <2>3, TerminalsAssumption DEF NoSeam
    <2>5. CASE a.id # s
        <3>1. RxFrom(a, seam', att') = rx
            BY <1>4, <1>5, <2>2, <2>3, <2>4, <2>5 DEF RxFrom
        <3> QED
            BY <1>0, <1>2, <2>2, <2>3, <2>5, <3>1
    <2>6. CASE a.id = s
        <3>1. unsent'[a.id] = U \ {i} /\ i \in U
            BY <1>0, <1>2, <2>2, <2>6
        <3>2. \A u \in U : IsOut(h, u) => \A j \in 1..Len(h) : u < j => ~IsOut(h, j)
            BY <1>0, <2>2, <2>3 DEF UnsentLast
        <3>3. /\ Exact(a, h, U \ {i}, Deliver(rx, i), conn, down, screen)
              /\ rx = Over => Exact(a, h, U \ {i}, rx, conn, down, screen)
            BY ONLY <1>0, <2>3, <3>1, <3>2, ExactPublish, a \in Grants, h \in Histories,
                    U \in SUBSET Nat, rx \in Rxs
        <3>4. RxFrom(a, seam', att') = Deliver(rx, i) \/ (rx = Over /\ RxFrom(a, seam', att') = rx)
            <4>1. CASE seam.id = a.id /\ seam.by = a
                BY <1>5, <2>2, <2>4, <2>6, <4>1 DEF RxFrom
            <4>2. CASE ~(seam.id = a.id /\ seam.by = a) /\ att[a.id].on /\ att[a.id].by = a
                BY <1>4, <1>5, <2>2, <2>3, <2>4, <2>6, <4>2 DEF RxFrom
            <4>3. CASE ~(seam.id = a.id /\ seam.by = a) /\ ~(att[a.id].on /\ att[a.id].by = a)
                BY <1>4, <1>5, <2>2, <2>3, <2>4, <2>6, <4>3 DEF RxFrom
            <4> QED
                BY <4>1, <4>2, <4>3
        <3> QED
            BY <1>2, <2>2, <3>1, <3>3, <3>4
    <2> QED
        BY <2>5, <2>6
<1> QED
    BY <1>6, <1>9, <1>10, <1>11 DEF SeamInv

LEMMA SeamAttach ==
    ASSUME SeamInv, TermTypes', seam = NoSeam, NEW s \in Sess, s \in live, TermAttach(s),
           UNCHANGED <<screen, mounted, sel, list, replay>>
    PROVE  SeamInv'
<1>0. /\ TermTypes /\ UnsentLast /\ Attaching /\ Framing /\ Painting /\ ExactAll
      /\ conn \in Seq(Frames) /\ down \in Seq(Frames) /\ hist \in [Sess -> Histories]
      /\ unsent \in [Sess -> SUBSET Nat] /\ seam \in Seams /\ att \in Attachments /\ serial \in Nat
    BY DEF SeamInv, TermTypes, LoopTypes, WireTypes, DaemonTypes, Histories, Seams, Attachments
<1>1. PICK g \in Grants : g = GrantOf(s, Len(hist[s]) + 1) /\ g.n = serial /\ g.id = s /\ g.from = Len(hist[s]) + 1
    <2>1. Len(hist[s]) + 1 \in Nat
        BY <1>0 DEF Histories
    <2>2. PICK n \in Nat : n = Len(hist[s]) + 1
        BY <2>1
    <2>3. [n |-> serial, id |-> s, from |-> n] \in Grants
        BY <1>0 DEF Grants
    <2> QED
        BY <2>2, <2>3 DEF GrantOf
<1>2. /\ att' = [att EXCEPT ![s] = NoAtt]
      /\ seam' = [id |-> s, by |-> g, rx |-> [q |-> <<>>, lag |-> FALSE]]
      /\ serial' = serial + 1
      /\ UNCHANGED <<hist, unsent, conn, feed, down, lossy>>
    BY <1>1 DEF TermAttach, daemonVars
<1>3. NoAtt.on = FALSE
    BY DEF NoAtt
<1>4. \A x \in Grants : \A r : Granted(x, r) => Granted(x, r)' /\ x # g
    BY <1>0, <1>1, <1>2 DEF Granted, Grants
<1>5. \A m \in Frames : Streams(m) => m.by \in Grants
    BY DEF Streams, Frames, Chunks, Catchups, Errors, EventFrames, Lists
<1>6. \A m \in Frames : Sound(m) => Sound(m)'
    BY <1>2, <1>4, <1>5 DEF Sound, OutBelow
<1>7. UnsentLast'
    BY <1>0, <1>2 DEF UnsentLast
<1>8. \A i \in 1..Len(screen) : screen[i] \in Writings /\ screen[i].by \in Grants
    <2>1. screen \in Seq(Writings)
        BY <1>0 DEF TermTypes, ViewTypes
    <2>2. \A i \in 1..Len(screen) : screen[i] \in Writings
        BY <2>1
    <2>3. \A e \in Writings : e.by \in Grants
        BY DEF Writings
    <2> QED
        BY <2>2, <2>3
<1>9. Painting'
    <2>1. ASSUME screen # <<>>, NEW i \in 1..Len(screen), screen[i].kind # "replay"
          PROVE  Granted(screen[i].by, sel)'
        <3>1. PICK x \in Grants : x = screen[i].by
            BY <1>8
        <3>2. Granted(x, sel)
            BY <1>0, <2>1, <3>1 DEF Painting
        <3>3. sel' = sel /\ screen' = screen
            OBVIOUS
        <3> QED
            BY <1>4, <3>1, <3>2, <3>3 DEF Granted
    <2>3. \A i \in 1..Len(screen) : screen[i].kind = "catchup" /\ screen[i].outs = OutBelow(sel, screen[i].by.from) =>
                screen[i].outs = OutBelow(sel, screen[i].by.from)'
        BY <1>2 DEF OutBelow
    <2> QED
        BY <1>0, <1>2, <2>1, <2>3 DEF Painting, Registered
<1>10. Framing'
    <2>1. /\ \A j \in 1..Len(conn) : Sound(conn[j])' /\ conn[j].type # "catchup"
          /\ \A j \in 1..Len(down) : Sound(down[j])'
        <3>1. \A j \in 1..Len(conn) : conn[j] \in Frames /\ Sound(conn[j]) /\ conn[j].type # "catchup"
            BY <1>0 DEF Framing
        <3>2. \A j \in 1..Len(down) : down[j] \in Frames /\ Sound(down[j])
            BY <1>0 DEF Framing
        <3>3. \A j \in 1..Len(conn) : Sound(conn[j])'
            <4>1. ASSUME NEW j \in 1..Len(conn) PROVE Sound(conn[j])'
                <5>1. PICK m \in Frames : m = conn[j]
                    BY <3>1
                <5>2. Sound(m)'
                    BY <1>6, <3>1, <5>1
                <5> QED
                    BY <1>2, <5>1, <5>2 DEF Sound, Granted
            <4> QED
                BY <4>1
        <3>4. \A j \in 1..Len(down) : Sound(down[j])'
            <4>1. ASSUME NEW j \in 1..Len(down) PROVE Sound(down[j])'
                <5>1. PICK m \in Frames : m = down[j]
                    BY <3>2
                <5>2. Sound(m)'
                    BY <1>6, <3>2, <5>1
                <5> QED
                    BY <1>2, <5>1, <5>2 DEF Sound, Granted
            <4> QED
                BY <4>1
        <3> QED
            BY <3>1, <3>3, <3>4
    <2> QED
        BY <1>0, <1>2, <2>1 DEF Framing, Blank
<1>11. Clear(conn, g) /\ Clear(down, g) /\ Blank(g)
    <2>1. Clear(conn, g) /\ Clear(down, g)
        BY <1>0, <1>4, <1>5 DEF Clear, Framing, Sound
    <2>2. Blank(g)
        <3>1. ASSUME NEW i \in 1..Len(screen), screen[i].kind # "replay" PROVE screen[i].by # g
            <4>1. screen # <<>>
                OBVIOUS
            <4> QED
                BY <1>0, <1>4, <1>8, <3>1, <4>1 DEF Painting
        <3> QED
            BY <3>1 DEF Blank
    <2> QED
        BY <2>1, <2>2
<1>12. Attaching'
    <2>1. ASSUME NEW r \in Sess, att'[r].on
          PROVE  Granted(att[r].by, r)' /\ Placed(att[r].rx.q, r)'
        <3>1. att'[r] = att[r]
            BY <1>0, <1>2, <1>3, <2>1 DEF Attachments
        <3>2. Granted(att[r].by, r) /\ Placed(att[r].rx.q, r) /\ att[r].by \in Grants
            BY <1>0, <2>1, <3>1, RunningOnly DEF Attaching, Attachments
        <3>3. Granted(att[r].by, r)'
            <4>1. PICK x \in Grants : x = att[r].by
                BY <3>2
            <4>2. Granted(x, r)'
                BY <1>4, <3>2, <4>1
            <4> QED
                BY <3>1, <4>1, <4>2 DEF Granted
        <3> QED
            BY <1>2, <3>1, <3>2, <3>3 DEF Placed
    <2>2. /\ Granted(seam.by, seam.id)' /\ Placed(seam.rx.q, seam.id)'
          /\ ~att'[seam'.id].on
          /\ Clear(conn, seam.by)' /\ Clear(down, seam.by)' /\ Blank(seam.by)'
        <3>1. Granted(g, s)'
            BY <1>0, <1>1, <1>2 DEF Granted
        <3>2. ~att'[s].on
            BY <1>0, <1>2, <1>3 DEF Attachments
        <3> QED
            BY <1>2, <1>11, <3>1, <3>2 DEF Granted, Placed, Clear, Blank
    <2> QED
        BY <2>1, <2>2 DEF Attaching
<1>13. ExactAll'
    <2> SUFFICES ASSUME NEW a \in Grants, Anchored(a)', a \notin lossy'
                 PROVE  Exact(a, hist'[a.id], unsent'[a.id], RxFrom(a, seam', att'), conn', down', screen')
        BY DEF ExactAll
    <2>1. PICK h \in Histories, U \in SUBSET Nat, rx \in Rxs :
            h = hist[a.id] /\ U = unsent[a.id] /\ rx = RxFrom(a, seam, att)
        BY ExactTyped
    <2>2. screen \in Seq(Writings) /\ a.id \in Sess
        BY ExactTyped
    <2>3. CASE a = g
        <3>1. RxFrom(a, seam', att') = [q |-> <<>>, lag |-> FALSE]
            BY <1>1, <1>2, <2>3 DEF RxFrom
        <3>2. a.from = Len(h) + 1
            BY <1>1, <2>1, <2>3
        <3>3. /\ \A i \in 1..Len(conn) : ~(conn[i].type = "chunk" /\ conn[i].by = a)
              /\ \A i \in 1..Len(down) : ~(down[i].type = "chunk" /\ down[i].by = a)
            BY <1>11, <2>3 DEF Clear, Streams
        <3>4. \A i \in 1..Len(screen) : ~Wrote(screen[i], a)
            BY <1>11, <2>3 DEF Blank, Wrote
        <3>5. Exact(a, h, U, [q |-> <<>>, lag |-> FALSE], conn, down, screen)
            BY ONLY <1>0, <2>2, <3>2, <3>3, <3>4, ExactNew, a \in Grants, h \in Histories, U \in SUBSET Nat
        <3> QED
            BY <1>2, <2>1, <3>1, <3>5
    <2>4. CASE a # g
        <3>1. Anchored(a)
            BY <1>2, <2>4 DEF Anchored
        <3>2. Exact(a, h, U, rx, conn, down, screen)
            BY <1>0, <1>2, <2>1, <3>1 DEF ExactAll
        <3>3. RxFrom(a, seam', att') \in {rx, Over}
            <4>1. RxFrom(a, seam', att') = RxFrom(a, seam, att')
                BY <1>1, <1>2, <2>2, <2>4, TerminalsAssumption DEF RxFrom, NoSeam
            <4>2. RxFrom(a, seam, att') \in {rx, Over}
                BY <1>0, <1>2, <2>1, RxCut
            <4> QED
                BY <4>1, <4>2
        <3>4. Exact(a, h, U, Over, conn, down, screen)
            BY ONLY <1>0, <2>2, <3>2, ExactClose, a \in Grants, h \in Histories, U \in SUBSET Nat, rx \in Rxs
        <3> QED
            BY <1>2, <2>1, <3>2, <3>3, <3>4
    <2> QED
        BY <2>3, <2>4
<1> QED
    BY <1>7, <1>9, <1>10, <1>12, <1>13 DEF SeamInv

LEMMA SeamFinish ==
    ASSUME SeamInv, TermTypes', FinishAttach
    PROVE  SeamInv'
<1>0. /\ TermTypes /\ UnsentLast /\ Attaching /\ Framing /\ Painting /\ ExactAll
      /\ conn \in Seq(Frames) /\ down \in Seq(Frames) /\ hist \in [Sess -> Histories]
      /\ unsent \in [Sess -> SUBSET Nat] /\ seam \in Seams /\ att \in Attachments
    BY DEF SeamInv, TermTypes, LoopTypes, WireTypes, DaemonTypes, Histories, Seams, Attachments
<1>1. seam # NoSeam /\ seam \in [id : Sess, by : Grants, rx : Rxs]
    BY <1>0 DEF FinishAttach, Seams
<1>2. PICK g \in Grants, s \in Sess, r0 \in Rxs : g = seam.by /\ s = seam.id /\ r0 = seam.rx
    BY <1>1
<1>3. PICK m \in Frames : /\ m = [type |-> "catchup", id |-> s, by |-> g, outs |-> OutBelow(s, g.from)]
                          /\ m.type = "catchup" /\ m.id = s /\ m.by = g /\ m.outs = OutBelow(s, g.from)
    <2>1. PICK P \in SUBSET Nat : P = OutBelow(s, g.from)
        <3>1. OutBelow(s, g.from) \in SUBSET Nat
            BY DEF OutBelow
        <3> QED
            BY <3>1, Zenon
    <2>2. [type |-> "catchup", id |-> s, by |-> g, outs |-> P] \in Frames
        BY DEF Frames, Catchups
    <2> QED
        BY <2>1, <2>2
<1>4. /\ seam' = NoSeam /\ down' = Append(down, m)
      /\ att' = [att EXCEPT ![s] = [on |-> TRUE, by |-> g, rx |-> r0]]
      /\ UNCHANGED <<hist, unsent, conn, feed, lossy, serial, screen, mounted, sel, list, replay>>
    BY <1>2, <1>3 DEF FinishAttach, daemonVars, viewVars
<1>5. /\ Granted(g, s) /\ Placed(r0.q, s) /\ Clear(conn, g) /\ Clear(down, g) /\ Blank(g) /\ g.id = s
      /\ att[s].on => att[s].by # g
    BY <1>0, <1>1, <1>2 DEF Attaching, Granted
<1>6. \A i \in 1..Len(down') : (i \in 1..Len(down) /\ down'[i] = down[i]) \/ (i = Len(down) + 1 /\ down'[i] = m)
    BY <1>0, <1>4, AppendIs
<1>7. UnsentLast' /\ Painting'
    BY <1>0, <1>4 DEF UnsentLast, Painting, Registered, Granted, OutBelow
<1>8. Attaching'
    <2>1. ASSUME NEW r \in Sess, att'[r].on
          PROVE  Granted(att[r].by, r)' /\ Placed(att[r].rx.q, r)'
        <3>1. CASE r = s
            <4>1. att'[r].by = g /\ att'[r].rx = r0
                BY <1>0, <1>4, <3>1 DEF Attachments
            <4> QED
                BY <1>4, <1>5, <3>1, <4>1 DEF Granted, Placed
        <3>2. CASE r # s
            <4>1. att'[r] = att[r]
                BY <1>0, <1>4, <3>2 DEF Attachments
            <4>2. Granted(att[r].by, r) /\ Placed(att[r].rx.q, r)
                BY <1>0, <2>1, <4>1 DEF Attaching
            <4> QED
                BY <1>4, <4>1, <4>2 DEF Granted, Placed
        <3> QED
            BY <3>1, <3>2
    <2> QED
        BY <1>4, <2>1 DEF Attaching
<1>9. Framing'
    <2>1. \A f : Sound(f)' <=> Sound(f)
        BY <1>4 DEF Sound, Granted, OutBelow
    <2>2. Sound(m)
        BY <1>3, <1>5 DEF Sound
    <2>3. \A j \in 1..Len(conn') : Sound(conn[j])' /\ conn'[j].type # "catchup"
        BY <1>0, <1>4, <2>1 DEF Framing
    <2>4. \A j \in 1..Len(down') : Sound(down'[j])
        BY <1>0, <1>6, <2>2 DEF Framing
    <2>5. \A j \in 1..Len(down') : Sound(down[j])'
        BY <2>1, <2>4
    <2>6. ASSUME NEW i \in 1..Len(down'), down'[i].type = "catchup"
          PROVE  /\ \A j \in 1..Len(down') : j < i => ~(Streams(down'[j]) /\ down'[j].by = down'[i].by)
                 /\ Blank(down[i].by)'
        <3>0. \A j \in 1..Len(down') : j < i => j \in 1..Len(down) /\ down'[j] = down[j]
            BY <1>0, <1>6
        <3>1. CASE i = Len(down) + 1 /\ down'[i] = m
            BY <1>3, <1>4, <1>5, <3>0, <3>1 DEF Clear, Blank
        <3>2. CASE i \in 1..Len(down) /\ down'[i] = down[i]
            <4>1. Blank(down[i].by)
                BY <1>0, <2>6, <3>2 DEF Framing
            <4>2. \A j \in 1..Len(down') : j < i => ~(Streams(down'[j]) /\ down'[j].by = down'[i].by)
                BY <1>0, <2>6, <3>0, <3>2 DEF Framing
            <4> QED
                BY <1>4, <3>2, <4>1, <4>2 DEF Blank
        <3> QED
            BY <1>6, <3>1, <3>2
    <2>7. \A i \in 1..Len(feed') : ~Streams(feed'[i])
        BY <1>0, <1>4 DEF Framing
    <2> QED
        BY <2>3, <2>5, <2>6, <2>7 DEF Framing
<1>10. ExactAll'
    <2> SUFFICES ASSUME NEW a \in Grants, Anchored(a)', a \notin lossy'
                 PROVE  Exact(a, hist'[a.id], unsent'[a.id], RxFrom(a, seam', att'), conn', down', screen')
        BY DEF ExactAll
    <2>1. Anchored(a)
        BY <1>1, <1>2, <1>3, <1>4, <1>6 DEF Anchored
    <2>2. PICK h \in Histories, U \in SUBSET Nat, rx \in Rxs :
            h = hist[a.id] /\ U = unsent[a.id] /\ rx = RxFrom(a, seam, att)
        BY ExactTyped
    <2>3. Exact(a, h, U, rx, conn, down, screen) /\ screen \in Seq(Writings) /\ a.id \in Sess
        BY <1>0, <1>4, <2>1, <2>2, ExactTyped DEF ExactAll
    <2>4. RxFrom(a, seam', att') \in {rx, Over}
        <3>1. seam'.id # a.id
            BY <1>4, <2>3, TerminalsAssumption DEF NoSeam
        <3>2. CASE a = g
            <4>1. rx = r0
                BY <1>2, <1>5, <2>2, <3>2 DEF RxFrom
            <4>2. att'[a.id].on /\ att'[a.id].by = a /\ att'[a.id].rx = r0
                BY <1>0, <1>4, <1>5, <3>2 DEF Attachments
            <4> QED
                BY <3>1, <4>1, <4>2 DEF RxFrom
        <3>3. CASE a # g /\ a.id = s
            <4>1. att'[a.id].by = g
                BY <1>0, <1>4, <3>3 DEF Attachments
            <4> QED
                BY <3>1, <3>3, <4>1 DEF RxFrom
        <3>4. CASE a # g /\ a.id # s
            <4>1. att'[a.id] = att[a.id]
                BY <1>0, <1>4, <2>3, <3>4 DEF Attachments
            <4> QED
                BY <1>2, <2>2, <3>1, <3>4, <4>1 DEF RxFrom
        <3> QED
            BY <3>2, <3>3, <3>4
    <2>5. Over \in Rxs
        BY DEF Over, Rxs
    <2>6. PICK rx2 \in Rxs : rx2 = RxFrom(a, seam', att')
        BY <2>4, <2>5
    <2>7. Exact(a, h, U, Over, conn, down, screen)
        BY ONLY <1>0, <2>3, ExactClose, a \in Grants, h \in Histories, U \in SUBSET Nat, rx \in Rxs
    <2>8. Exact(a, h, U, rx2, conn, down, screen)
        BY <2>3, <2>4, <2>6, <2>7
    <2>9. ~Paints(m, a, h)
        BY <1>3 DEF Paints
    <2>10. Exact(a, h, U, rx2, conn, Append(down, m), screen)
        BY ONLY <1>0, <2>3, <2>8, <2>9, ExactPlain, a \in Grants, h \in Histories,
                U \in SUBSET Nat, rx2 \in Rxs, m \in Frames
    <2> QED
        BY <1>4, <2>2, <2>6, <2>10
<1> QED
    BY <1>7, <1>8, <1>9, <1>10 DEF SeamInv

LEMMA SeamDrop ==
    ASSUME SeamInv, TermTypes', Drop
    PROVE  SeamInv'
<1>0. /\ TermTypes /\ UnsentLast /\ Attaching /\ Framing /\ Painting /\ ExactAll
    BY DEF SeamInv
<1>1. /\ seam' = NoSeam /\ down' = <<>> /\ conn' = <<>> /\ feed' = <<>> /\ att' = [s \in Sess |-> NoAtt]
      /\ UNCHANGED <<hist, unsent, lossy, serial, screen, mounted, sel, list, replay>>
    BY DEF Drop, daemonVars, viewVars
<1>2. NoAtt.on = FALSE
    BY DEF NoAtt
<1>3. UnsentLast' /\ Painting'
    BY <1>0, <1>1 DEF UnsentLast, Painting, Registered, Granted, OutBelow
<1>4. Attaching' /\ Framing'
    BY <1>1, <1>2 DEF Attaching, Framing
<1>5. ExactAll'
    <2> SUFFICES ASSUME NEW a \in Grants, Anchored(a)', a \notin lossy'
                 PROVE  Exact(a, hist'[a.id], unsent'[a.id], RxFrom(a, seam', att'), conn', down', screen')
        BY DEF ExactAll
    <2>1. Anchored(a)
        BY <1>1 DEF Anchored
    <2>2. PICK h \in Histories, U \in SUBSET Nat, rx \in Rxs :
            h = hist[a.id] /\ U = unsent[a.id] /\ rx = RxFrom(a, seam, att)
        BY ExactTyped
    <2>3. Exact(a, h, U, rx, conn, down, screen) /\ screen \in Seq(Writings) /\ a.id \in Sess
          /\ conn \in Seq(Frames) /\ down \in Seq(Frames)
        BY <1>0, <1>1, <2>1, <2>2, ExactTyped DEF ExactAll
    <2>4. Exact(a, h, U, Over, <<>>, <<>>, screen)
        BY ONLY <2>3, ExactClose, a \in Grants, h \in Histories, U \in SUBSET Nat, rx \in Rxs
    <2>5. RxFrom(a, seam', att') = Over
        BY <1>1, <1>2, <2>3, TerminalsAssumption DEF RxFrom, NoSeam
    <2> QED
        BY <1>1, <2>2, <2>4, <2>5
<1> QED
    BY <1>3, <1>4, <1>5 DEF SeamInv

\* The view changes, and with a list frame read the wire.
LEMMA SeamView ==
    ASSUME SeamInv, TermTypes', Painting',
           UNCHANGED <<hist, unsent, seam, att, conn, feed, lossy, serial>>,
           screen' = screen \/ screen' = <<>>,
           \/ down' = down
           \/ down # <<>> /\ ~Streams(Head(down)) /\ down' = Tail(down)
    PROVE  SeamInv'
<1>0. /\ TermTypes /\ UnsentLast /\ Attaching /\ Framing /\ Painting /\ ExactAll
      /\ conn \in Seq(Frames) /\ down \in Seq(Frames)
    BY DEF SeamInv, TermTypes, LoopTypes, WireTypes
<1>1. PICK k \in {0, 1} : \A i \in 1..Len(down') : i + k \in 1..Len(down) /\ down'[i] = down[i + k]
    <2>1. CASE down' = down
        <3>1. \A i \in 1..Len(down') : i + 0 \in 1..Len(down) /\ down'[i] = down[i + 0]
            BY <2>1
        <3> QED
            BY <3>1
    <2>2. CASE down # <<>> /\ down' = Tail(down)
        BY <1>0, <2>2, TailIs
    <2> QED
        BY <2>1, <2>2
<1>2. UnsentLast'
    BY <1>0 DEF UnsentLast
<1>3. \A a : Blank(a) => Blank(a)'
    BY DEF Blank
<1>4. \A a : Clear(down, a) => Clear(down, a)'
    BY <1>1 DEF Clear
<1>5. Attaching'
    <2>1. ASSUME seam # NoSeam PROVE Clear(down, seam.by)' /\ Blank(seam.by)'
        <3>1. PICK g : g = seam.by
            OBVIOUS
        <3>2. Clear(down, g)' /\ Blank(g)'
            BY <1>0, <1>3, <1>4, <2>1, <3>1 DEF Attaching
        <3> QED
            BY <3>1, <3>2 DEF Clear, Blank
    <2> QED
        BY <1>0, <2>1 DEF Attaching, Granted, Placed, Clear
<1>6. Framing'
    <2>1. \A f : Sound(f)' <=> Sound(f)
        BY DEF Sound, Granted, OutBelow
    <2>2. \A j \in 1..Len(conn') : Sound(conn[j])' /\ conn'[j].type # "catchup"
        BY <1>0, <2>1 DEF Framing
    <2>3. \A j \in 1..Len(down') : Sound(down'[j])
        BY <1>0, <1>1 DEF Framing
    <2>4. \A j \in 1..Len(down') : Sound(down[j])'
        BY <2>1, <2>3
    <2>5. ASSUME NEW i \in 1..Len(down'), down'[i].type = "catchup"
          PROVE  /\ \A j \in 1..Len(down') : j < i => ~(Streams(down'[j]) /\ down'[j].by = down'[i].by)
                 /\ Blank(down[i].by)'
        <3>1. i + k \in 1..Len(down) /\ down'[i] = down[i + k]
            BY <1>1
        <3>2. /\ \A j \in 1..Len(down) : j < i + k => ~(Streams(down[j]) /\ down[j].by = down[i + k].by)
              /\ Blank(down[i + k].by)
            BY <1>0, <2>5, <3>1 DEF Framing
        <3>3. \A j \in 1..Len(down') : j < i => j + k < i + k
            OBVIOUS
        <3>4. \A j \in 1..Len(down') : j < i => ~(Streams(down'[j]) /\ down'[j].by = down'[i].by)
            BY <1>1, <3>1, <3>2, <3>3
        <3>5. PICK g : g = down[i + k].by
            OBVIOUS
        <3>6. Blank(g)'
            BY <1>3, <3>2, <3>5
        <3> QED
            BY <3>1, <3>4, <3>5, <3>6 DEF Blank
    <2>6. \A i \in 1..Len(feed') : ~Streams(feed'[i])
        BY <1>0 DEF Framing
    <2> QED
        BY <2>2, <2>4, <2>5, <2>6 DEF Framing
<1>7. ExactAll'
    <2> SUFFICES ASSUME NEW a \in Grants, Anchored(a)', a \notin lossy'
                 PROVE  Exact(a, hist'[a.id], unsent'[a.id], RxFrom(a, seam', att'), conn', down', screen')
        BY DEF ExactAll
    <2>1. Anchored(a)
        BY <1>1 DEF Anchored
    <2>2. PICK h \in Histories, U \in SUBSET Nat, rx \in Rxs :
            h = hist[a.id] /\ U = unsent[a.id] /\ rx = RxFrom(a, seam, att)
        BY ExactTyped
    <2>3. Exact(a, h, U, rx, conn, down, screen) /\ screen \in Seq(Writings) /\ a.id \in Sess
        BY <1>0, <2>1, <2>2, ExactTyped DEF ExactAll
    <2>4. Exact(a, h, U, rx, conn, down, screen')
        <3>1. CASE screen' = screen
            BY <2>3, <3>1
        <3>2. CASE screen' = <<>>
            <4>1. (seam # NoSeam /\ seam.by = a) \/ \E i \in 1..Len(down) : down[i].type = "catchup" /\ down[i].by = a
                BY <1>1, <3>2 DEF Anchored
            <4>2. Blank(a)
                BY <1>0, <4>1 DEF Attaching, Framing
            <4>3. \A i \in 1..Len(screen) : ~Wrote(screen[i], a)
                BY <4>2 DEF Blank, Wrote
            <4>4. <<>> \in Seq(Writings) /\ \A i \in 1..Len(<<>>) : ~Wrote(<<>>[i], a)
                OBVIOUS
            <4>5. Exact(a, h, U, rx, conn, down, <<>>)
                BY ONLY <1>0, <2>3, <4>3, <4>4, ExactScreen, a \in Grants, h \in Histories,
                        U \in SUBSET Nat, rx \in Rxs
            <4> QED
                BY <3>2, <4>5
        <3> QED
            BY <3>1, <3>2
    <2>5. Exact(a, h, U, rx, conn, down', screen')
        <3>1. CASE down' = down
            BY <2>4, <3>1
        <3>2. CASE down # <<>> /\ ~Streams(Head(down)) /\ down' = Tail(down)
            <4>1. ~Paints(Head(down), a, h)
                BY <3>2 DEF Paints, Streams
            <4>2. PICK sc \in Seq(Writings) : sc = screen'
                BY <2>3, NoFrames
            <4>3. Exact(a, h, U, rx, conn, down, sc)
                BY <2>4, <4>2
            <4>4. Exact(a, h, U, rx, conn, Tail(down), sc)
                BY ONLY <1>0, <3>2, <4>1, <4>3, ExactSkim, a \in Grants, h \in Histories,
                        U \in SUBSET Nat, rx \in Rxs, sc \in Seq(Writings)
            <4> QED
                BY <3>2, <4>2, <4>4
        <3> QED
            BY <3>1, <3>2
    <2> QED
        BY <2>2, <2>5
<1> QED
    BY <1>2, <1>5, <1>6, <1>7 DEF SeamInv

\* The pane's handler: what a streamed frame writes.
LEMMA SeamWrite ==
    ASSUME SeamInv, TermTypes', Receive, Head(down).type \in {"chunk", "catchup", "replay"}
    PROVE  SeamInv'
<1>0. /\ TermTypes /\ UnsentLast /\ Attaching /\ Framing /\ Painting /\ ExactAll
      /\ conn \in Seq(Frames) /\ down \in Seq(Frames) /\ screen \in Seq(Writings)
      /\ screen' \in Seq(Writings) /\ hist \in [Sess -> Histories]
    BY DEF SeamInv, TermTypes, LoopTypes, WireTypes, ViewTypes, DaemonTypes, Histories
<1>1. PICK m \in Frames : m = Head(down) /\ m = down[1] /\ 1 \in 1..Len(down)
    BY <1>0, TailIs DEF Receive
<1>2. /\ down # <<>> /\ down' = Tail(down) /\ screen' = Written(m)
      /\ UNCHANGED <<hist, unsent, seam, att, conn, feed, lossy, serial, mounted, sel, list, replay>>
    BY <1>1 DEF Receive, daemonVars, loopVars
<1>3. m.id \in Sess /\ m.by \in Grants /\ (m.type # "catchup" => m.at \in Nat)
      /\ (m.type = "catchup" => m.outs \in SUBSET Nat) /\ m.type \in {"chunk", "catchup", "replay"}
    BY <1>1 DEF Frames, Chunks, Catchups, Errors, EventFrames, Lists
<1>4. Sound(m) /\ (m.type = "chunk" => m.at \in 1..Len(hist[m.id]))
    BY <1>0, <1>1 DEF Framing, Sound
<1>5. \A i \in 1..Len(down') : i + 1 \in 1..Len(down) /\ down'[i] = down[i + 1]
    BY <1>0, <1>2, TailIs
<1>6. PICK e \in Writings : e.by = m.by /\ e.kind = m.type
                            /\ e.outs = IF m.type = "catchup" THEN m.outs ELSE {m.at}
    <2>1. PICK P \in SUBSET Nat : P = IF m.type = "catchup" THEN m.outs ELSE {m.at}
        <3>1. (IF m.type = "catchup" THEN m.outs ELSE {m.at}) \in SUBSET Nat
            BY <1>3
        <3> QED
            BY <3>1, Zenon
    <2>2. [outs |-> P, by |-> m.by, kind |-> m.type] \in Writings
        BY <1>3 DEF Writings
    <2> QED
        BY <2>1, <2>2
<1>7. \/ screen' = screen /\ (Shown(m) => m.type # "catchup" /\ hist[m.id][m.at] # "out")
      \/ screen' = <<e>> /\ Shown(m) /\ m.type = "catchup"
      \/ screen' = Append(screen, e) /\ Shown(m) /\ m.type # "catchup" /\ hist[m.id][m.at] = "out"
    <2>1. \A P \in SUBSET Nat : P = e.outs => Painted(P, m) = e
        BY <1>6 DEF Painted, Writings
    <2>2. m.type = "catchup" => Painted(m.outs, m) = e
        BY <1>3, <1>6, <2>1
    <2>3. m.type # "catchup" => Painted({m.at}, m) = e
        BY <1>3, <1>6, <2>1
    <2> QED
        BY <1>2, <2>2, <2>3 DEF Written
<1>8. Shown(m) => Registered(sel) /\ m.id = sel /\ (replay <=> m.type = "replay")
    BY DEF Shown, Registered
<1>9. ASSUME NEW i \in 1..Len(screen')
      PROVE  \/ i \in 1..Len(screen) /\ screen'[i] = screen[i]
             \/ screen'[i] = e /\ Shown(m) /\ (m.type = "catchup" => i = 1)
    <2>1. CASE screen' = screen
        BY <2>1
    <2>2. CASE screen' = <<e>> /\ Shown(m) /\ m.type = "catchup"
        BY <2>2
    <2>3. CASE screen' = Append(screen, e) /\ Shown(m) /\ m.type # "catchup"
        BY <1>0, <2>3, AppendIs
    <2> QED
        BY <1>7, <2>1, <2>2, <2>3
<1>10. \A f, s : (Granted(f, s)' <=> Granted(f, s)) /\ (Sound(f)' <=> Sound(f))
    BY <1>2 DEF Sound, Granted, OutBelow
<1>11. Painting'
    <2>1. ASSUME NEW i \in 1..Len(screen')
          PROVE  /\ screen'[i].kind = "replay" <=> replay
                 /\ screen'[i].kind # "replay" => Granted(screen'[i].by, sel)
                 /\ screen'[i].kind = "catchup" =>
                       i = 1 /\ screen'[i].outs = OutBelow(sel, screen'[i].by.from)
                 /\ screen'[i].kind = "chunk" => \E x \in 1..Len(hist[sel]) :
                       screen'[i].outs = {x} /\ IsOut(hist[sel], x)
        <3>1. CASE i \in 1..Len(screen) /\ screen'[i] = screen[i]
            <4>1. screen # <<>>
                BY <3>1
            <4> QED
                BY <1>0, <3>1, <4>1 DEF Painting
        <3>2. CASE screen'[i] = e /\ Shown(m) /\ (m.type = "catchup" => i = 1)
            <4>1. m.id = sel /\ (replay <=> m.type = "replay")
                BY <1>8, <3>2
            <4>2. e.kind = "chunk" => screen' = Append(screen, e) \/ screen' = screen
                BY <1>6, <1>7
            <4>3. m.type = "chunk" => (IsOut(hist[sel], m.at) /\ m.at \in 1..Len(hist[sel])) \/ screen' = screen
                BY <1>4, <1>6, <1>7, <3>2, <4>1 DEF IsOut
            <4>4. CASE screen' = screen
                <5>1. screen # <<>> /\ i \in 1..Len(screen) /\ screen'[i] = screen[i]
                    BY <4>4
                <5> QED
                    BY <1>0, <5>1 DEF Painting
            <4>5. CASE screen' # screen
                <5>1. e.kind # "replay" => Granted(e.by, sel)
                    BY <1>3, <1>4, <1>6, <4>1 DEF Sound, Streams
                <5>2. e.kind = "catchup" => i = 1 /\ e.outs = OutBelow(sel, e.by.from)
                    BY <1>3, <1>4, <1>6, <3>2, <4>1 DEF Sound
                <5>3. e.kind = "chunk" => \E x \in 1..Len(hist[sel]) : e.outs = {x} /\ IsOut(hist[sel], x)
                    BY <1>6, <4>3, <4>5
                <5> QED
                    BY <1>6, <3>2, <4>1, <5>1, <5>2, <5>3
            <4> QED
                BY <4>4, <4>5
        <3> QED
            BY <1>9, <3>1, <3>2
    <2>2. screen' # <<>> => Registered(sel)
        <3>1. CASE screen # <<>>
            BY <1>0, <3>1 DEF Painting
        <3>2. CASE screen = <<>>
            BY <1>7, <1>8, <3>2
        <3> QED
            BY <3>1, <3>2
    <2>3. UNCHANGED <<hist, serial, mounted, sel, list, replay>>
        BY <1>2
    <2> QED
        BY <2>1, <2>2, <2>3 DEF Painting, Registered, Granted, OutBelow
<1>12. ASSUME NEW b, ~(Streams(m) /\ m.by = b), Blank(b)
       PROVE  Blank(b)'
    <2>1. e.kind = "replay" \/ e.by # b
        BY <1>3, <1>6, <1>12 DEF Streams
    <2> QED
        BY <1>9, <1>12, <2>1 DEF Blank
<1>13. UnsentLast'
    BY <1>0, <1>2 DEF UnsentLast
<1>14. Attaching'
    <2>1. ASSUME seam # NoSeam PROVE Clear(down, seam.by)' /\ Blank(seam.by)'
        <3>1. PICK g : g = seam.by
            OBVIOUS
        <3>2. Clear(down, g) /\ Blank(g)
            BY <1>0, <2>1, <3>1 DEF Attaching
        <3>3. ~(Streams(m) /\ m.by = g)
            BY <1>1, <3>2 DEF Clear
        <3>4. Blank(g)'
            BY <1>12, <3>2, <3>3
        <3>5. Clear(down, g)'
            BY <1>5, <3>2 DEF Clear
        <3> QED
            BY <1>2, <3>1, <3>4, <3>5 DEF Clear, Blank
    <2> QED
        BY <1>0, <1>2, <2>1 DEF Attaching, Granted, Placed, Clear
<1>15. Framing'
    <2>2. \A j \in 1..Len(conn') : Sound(conn[j])' /\ conn'[j].type # "catchup"
        BY <1>0, <1>2, <1>10 DEF Framing
    <2>3. \A j \in 1..Len(down') : Sound(down'[j])
        BY <1>0, <1>5 DEF Framing
    <2>4. \A j \in 1..Len(down') : Sound(down[j])'
        BY <1>10, <2>3
    <2>5. ASSUME NEW i \in 1..Len(down'), down'[i].type = "catchup"
          PROVE  /\ \A j \in 1..Len(down') : j < i => ~(Streams(down'[j]) /\ down'[j].by = down'[i].by)
                 /\ Blank(down[i].by)'
        <3>1. i + 1 \in 1..Len(down) /\ down'[i] = down[i + 1]
            BY <1>5
        <3>2. /\ \A j \in 1..Len(down) : j < i + 1 => ~(Streams(down[j]) /\ down[j].by = down[i + 1].by)
              /\ Blank(down[i + 1].by)
            BY <1>0, <2>5, <3>1 DEF Framing
        <3>3. \A j \in 1..Len(down') : j < i => j + 1 < i + 1
            OBVIOUS
        <3>4. \A j \in 1..Len(down') : j < i => ~(Streams(down'[j]) /\ down'[j].by = down'[i].by)
            BY <1>5, <3>1, <3>2, <3>3
        <3>5. PICK g : g = down[i + 1].by
            OBVIOUS
        <3>6. ~(Streams(m) /\ m.by = g)
            BY <1>1, <3>1, <3>2, <3>5
        <3>7. Blank(g)'
            BY <1>12, <3>2, <3>5, <3>6
        <3> QED
            BY <3>1, <3>4, <3>5, <3>7 DEF Blank
    <2>6. \A i \in 1..Len(feed') : ~Streams(feed'[i])
        BY <1>0, <1>2 DEF Framing
    <2> QED
        BY <2>2, <2>4, <2>5, <2>6 DEF Framing
<1>16. ASSUME NEW a \in Grants, Anchored(a)', a \notin lossy'
       PROVE  Exact(a, hist'[a.id], unsent'[a.id], RxFrom(a, seam', att'), conn', down', screen')
    <2>2. PICK h \in Histories, U \in SUBSET Nat, rx \in Rxs :
            h = hist[a.id] /\ U = unsent[a.id] /\ rx = RxFrom(a, seam, att)
        BY ExactTyped
    <2>3. a.id \in Sess /\ UNCHANGED <<hist, unsent, seam, att, conn, lossy>>
        BY <1>2, ExactTyped
    <2>4. \/ seam # NoSeam /\ seam.by = a
          \/ \E i \in 1..Len(down') : down'[i].type = "catchup" /\ down'[i].by = a
          \/ screen' # <<>> /\ screen'[1].kind = "catchup" /\ screen'[1].by = a
        BY <1>16, <2>3 DEF Anchored
    <2>5. ASSUME \/ seam # NoSeam /\ seam.by = a
                 \/ \E i \in 1..Len(down') : down'[i].type = "catchup" /\ down'[i].by = a
          PROVE  ~(Streams(m) /\ m.by = a) /\ Anchored(a) /\ Blank(a)
        <3>1. CASE seam # NoSeam /\ seam.by = a
            BY <1>0, <1>1, <3>1 DEF Attaching, Clear, Anchored
        <3>2. ASSUME NEW i \in 1..Len(down'), down'[i].type = "catchup", down'[i].by = a
              PROVE  ~(Streams(m) /\ m.by = a) /\ Anchored(a) /\ Blank(a)
            <4>1. i + 1 \in 1..Len(down) /\ down[i + 1].type = "catchup" /\ down[i + 1].by = a /\ 1 < i + 1
                BY <1>5, <3>2
            <4> QED
                BY <1>0, <1>1, <4>1 DEF Framing, Anchored
        <3> QED
            BY <2>5, <3>1, <3>2
    <2>6. ASSUME Anchored(a) PROVE Exact(a, h, U, rx, conn, down, screen)
        BY <1>0, <1>16, <2>2, <2>3, <2>6 DEF ExactAll
    <2>7. CASE screen' = screen
        <3>1. Anchored(a)
            BY <2>4, <2>5, <2>7 DEF Anchored
        <3>2. ~Paints(m, a, h)
            <4>1. SUFFICES ASSUME Paints(m, a, h) PROVE FALSE
                OBVIOUS
            <4>2. m.type = "chunk" /\ m.by = a /\ IsOut(h, m.at)
                BY <4>1 DEF Paints
            <4>3. screen # <<>> /\ screen[1].kind = "catchup" /\ screen[1].by = a
                BY <2>4, <2>5, <2>7, <4>2 DEF Streams
            <4>4. 1 \in 1..Len(screen)
                BY <1>0, <4>3
            <4>5. Registered(sel) /\ ~replay /\ a.id = sel
                BY <1>0, <4>3, <4>4 DEF Painting, Granted
            <4>6. m.id = a.id
                BY <1>4, <4>2 DEF Sound, Streams, Granted
            <4>7. Shown(m)
                <5>1. replay = FALSE
                    BY <1>0, <4>5 DEF TermTypes, ViewTypes
                <5>2. (m.type = "replay") = FALSE
                    BY <4>2
                <5>3. Registered(m.id)
                    BY <4>5, <4>6
                <5> QED
                    BY <5>1, <5>2, <5>3 DEF Shown
            <4>8. hist[m.id][m.at] = "out"
                BY <2>2, <4>2, <4>6 DEF IsOut
            <4>9. Len(Append(screen, e)) # Len(screen)
                BY <1>0, AppendIs
            <4> QED
                BY <1>7, <2>7, <4>2, <4>7, <4>8, <4>9
        <3>3. Exact(a, h, U, rx, conn, Tail(down), screen)
            BY ONLY <1>0, <1>1, <1>2, <2>6, <3>1, <3>2, ExactSkim, a \in Grants, h \in Histories,
                    U \in SUBSET Nat, rx \in Rxs
        <3> QED
            BY <1>2, <2>2, <2>3, <2>7, <3>3
    <2>8. CASE screen' = Append(screen, e) /\ Shown(m) /\ m.type # "catchup" /\ hist[m.id][m.at] = "out"
        <3>1. Anchored(a)
            <4>1. CASE screen = <<>>
                <5>1. screen'[1] = e
                    BY <1>0, <2>8, <4>1, AppendIs
                <5> QED
                    BY <1>6, <2>4, <2>5, <2>8, <5>1
            <4>2. CASE screen # <<>>
                <5>1. screen'[1] = screen[1]
                    BY <1>0, <2>8, <4>2, AppendIs
                <5> QED
                    BY <2>4, <2>5, <4>2, <5>1 DEF Anchored
            <4> QED
                BY <4>1, <4>2
        <3>2. CASE m.type = "chunk" /\ m.by = a
            <4>1. Paints(m, a, h)
                <5>1. m.id = a.id
                    BY <1>4, <3>2 DEF Sound, Streams, Granted
                <5> QED
                    BY <1>4, <2>2, <2>8, <3>2, <5>1 DEF Paints, IsOut
            <4>2. Wrote(e, a) /\ e.outs = {m.at}
                BY <1>6, <3>2 DEF Wrote
            <4>3. Exact(a, h, U, rx, conn, Tail(down), Append(screen, e))
                BY ONLY <1>0, <1>1, <1>2, <2>6, <3>1, <4>1, <4>2, ExactRead, a \in Grants, h \in Histories,
                        U \in SUBSET Nat, rx \in Rxs, e \in Writings
            <4> QED
                BY <1>2, <2>2, <2>3, <2>8, <4>3
        <3>3. CASE ~(m.type = "chunk" /\ m.by = a)
            <4>1. ~Paints(m, a, h) /\ ~Wrote(e, a)
                BY <1>6, <3>3 DEF Paints, Wrote
            <4>2. Exact(a, h, U, rx, conn, Tail(down), screen) /\ Tail(down) \in Seq(Frames)
                BY ONLY <1>0, <1>1, <1>2, <2>6, <3>1, <4>1, ExactSkim, TailIs, a \in Grants, h \in Histories,
                        U \in SUBSET Nat, rx \in Rxs
            <4>3. PICK dn \in Seq(Frames) : dn = Tail(down)
                BY <4>2
            <4>4. Exact(a, h, U, rx, conn, dn, Append(screen, e))
                BY ONLY <1>0, <4>1, <4>2, <4>3, ExactBeside, a \in Grants, h \in Histories,
                        U \in SUBSET Nat, rx \in Rxs, dn \in Seq(Frames), e \in Writings
            <4> QED
                BY <1>2, <2>2, <2>3, <2>8, <4>3, <4>4
        <3> QED
            BY <3>2, <3>3
    <2>9. CASE screen' = <<e>> /\ Shown(m) /\ m.type = "catchup"
        <3>1. e.by = a \/ (Anchored(a) /\ Blank(a))
            <4>1. screen'[1] = e
                BY <2>9
            <4> QED
                BY <2>4, <2>5, <4>1
        <3>2. Anchored(a) /\ Blank(a)
            <4>1. CASE e.by = a
                <5>1. down[1].type = "catchup" /\ down[1].by = a /\ 1 \in 1..Len(down)
                    BY <1>1, <1>6, <2>9, <4>1
                <5> QED
                    BY <1>0, <5>1 DEF Anchored, Framing
            <4> QED
                BY <3>1, <4>1
        <3>3. ~Paints(m, a, h) /\ ~Wrote(e, a)
            BY <1>6, <2>9 DEF Paints, Wrote
        <3>4. Exact(a, h, U, rx, conn, Tail(down), screen) /\ Tail(down) \in Seq(Frames)
            BY ONLY <1>0, <1>1, <1>2, <2>6, <3>2, <3>3, ExactSkim, TailIs, a \in Grants, h \in Histories,
                    U \in SUBSET Nat, rx \in Rxs
        <3>5. \A i \in 1..Len(screen) : ~Wrote(screen[i], a)
            BY <3>2 DEF Blank, Wrote
        <3>6. <<e>> \in Seq(Writings) /\ \A i \in 1..Len(<<e>>) : ~Wrote(<<e>>[i], a)
            BY <3>3
        <3>7. PICK dn \in Seq(Frames), sc \in Seq(Writings) : dn = Tail(down) /\ sc = <<e>>
            BY <3>4, <3>6
        <3>8. Exact(a, h, U, rx, conn, dn, screen) /\ \A i \in 1..Len(sc) : ~Wrote(sc[i], a)
            BY <3>4, <3>6, <3>7
        <3>9. Exact(a, h, U, rx, conn, dn, sc)
            BY ONLY <1>0, <3>5, <3>8, ExactScreen, a \in Grants, h \in Histories, U \in SUBSET Nat,
                    rx \in Rxs, dn \in Seq(Frames), sc \in Seq(Writings)
        <3> QED
            BY <1>2, <2>2, <2>3, <2>9, <3>7, <3>9
    <2> QED
        BY <1>7, <2>7, <2>8, <2>9
<1> QED
    BY <1>11, <1>13, <1>14, <1>15, <1>16 DEF SeamInv, ExactAll

\* The view's steps: a pane is kept only with its key, and while its session
\* is listed.
LEMMA SeamScene ==
    ASSUME SeamInv, TermTypes',
           UNCHANGED <<hist, unsent, seam, att, conn, feed, lossy, serial>>,
           \/ screen' = <<>>
           \/ screen' = screen /\ sel' = sel /\ replay' = replay /\ mounted' /\ sel \in DOMAIN list',
           \/ down' = down
           \/ down # <<>> /\ ~Streams(Head(down)) /\ down' = Tail(down)
    PROVE  SeamInv'
<1>1. Painting
    BY DEF SeamInv
<1>2. Painting'
    <2>1. CASE screen' = <<>>
        BY <2>1 DEF Painting
    <2>2. CASE screen' = screen /\ sel' = sel /\ replay' = replay /\ mounted' /\ sel \in DOMAIN list'
        <3>1. Registered(sel)'
            BY <2>2 DEF Registered
        <3>2. UNCHANGED <<screen, sel, replay, hist, serial>>
            BY <2>2
        <3> QED
            BY <1>1, <3>1, <3>2 DEF Painting, Granted, OutBelow
    <2> QED
        BY <2>1, <2>2
<1>3. screen' = screen \/ screen' = <<>>
    OBVIOUS
<1> QED
    BY ONLY <1>2, <1>3, SeamView, SeamInv, TermTypes',
       UNCHANGED <<hist, unsent, seam, att, conn, feed, lossy, serial>>,
       \/ down' = down
       \/ down # <<>> /\ ~Streams(Head(down)) /\ down' = Tail(down)

LEMMA SelectScene ==
    ASSUME NEW s, NEW b, NEW known, Select(s, b, known), mounted', s \in DOMAIN list'
    PROVE  \/ screen' = <<>>
           \/ screen' = screen /\ sel' = sel /\ replay' = replay /\ mounted' /\ sel \in DOMAIN list'
BY DEF Select

LEMMA SeamShow ==
    ASSUME SeamInv, TermTypes', NEW t \in Sess \cup {NoSession}, Show(t)
    PROVE  SeamInv'
<1>1. ~mounted /\ UNCHANGED <<hist, unsent, seam, att, conn, feed, lossy, serial, down, screen>>
    BY DEF Show, daemonVars, loopVars
<1>2. screen = <<>>
    BY <1>1 DEF SeamInv, Painting, Registered
<1>3. screen' = <<>>
    BY <1>1, <1>2
<1> QED
    BY <1>1, <1>3, SeamScene

LEMMA SeamLeave ==
    ASSUME SeamInv, TermTypes', Hide \/ HandleBack
    PROVE  SeamInv'
<1>1. screen' = <<>> /\ UNCHANGED <<hist, unsent, seam, att, conn, feed, lossy, serial, down>>
    BY DEF Hide, HandleBack, daemonVars, loopVars
<1> QED
    BY <1>1, SeamScene

LEMMA SeamOpen ==
    ASSUME SeamInv, TermTypes', NEW s \in Sess, NEW b \in BOOLEAN, Open(s, b)
    PROVE  SeamInv'
<1>1. /\ mounted' /\ s \in DOMAIN list' /\ Select(s, b, DOMAIN list)
      /\ UNCHANGED <<hist, unsent, seam, att, conn, feed, lossy, serial, down>>
    BY DEF Open, daemonVars, loopVars
<1>2. PICK known : Select(s, b, known)
    BY <1>1
<1> QED
    BY <1>1, <1>2, SelectScene, SeamScene

\* A frame that carries no output: the view's list and its focus effect.
LEMMA SeamListed ==
    ASSUME SeamInv, TermTypes', Receive, Head(down).type \notin {"chunk", "catchup", "replay"}
    PROVE  SeamInv'
<1>1. /\ UNCHANGED <<hist, unsent, seam, att, conn, feed, lossy, serial>>
      /\ down # <<>> /\ ~Streams(Head(down)) /\ down' = Tail(down)
    BY DEF Receive, daemonVars, loopVars, Streams
<1>2. CASE mounted /\ list' # list
    <2>1. PICK known : known = DOMAIN list'
        OBVIOUS
    <2>2. mounted' /\ FocusEffect(known)
        BY <1>2, <2>1 DEF Receive
    <2>3. CASE HonourFocus(known)
        <3>1. PICK s : s = focus
            OBVIOUS
        <3>2. Select(s, FALSE, known) /\ s \in DOMAIN list'
            BY <2>1, <2>3, <3>1 DEF HonourFocus
        <3> QED
            BY <1>1, <2>2, <3>2, SelectScene, SeamScene
    <2>4. CASE AwaitFocus(known)
        <3>1. \/ screen' = <<>>
              \/ screen' = screen /\ sel' = sel /\ replay' = replay /\ mounted' /\ sel \in DOMAIN list'
            BY <2>1, <2>2, <2>4 DEF AwaitFocus
        <3> QED
            BY <1>1, <3>1, SeamScene
    <2> QED
        BY <2>2, <2>3, <2>4 DEF FocusEffect
<1>3. CASE ~(mounted /\ list' # list)
    <2>1. UNCHANGED <<screen, sel, replay, mounted>>
        BY <1>3 DEF Receive
    <2>2. screen # <<>> => mounted /\ sel \in DOMAIN list
        BY DEF SeamInv, Painting, Registered
    <2>3. \/ screen' = <<>>
          \/ screen' = screen /\ sel' = sel /\ replay' = replay /\ mounted' /\ sel \in DOMAIN list'
        BY <1>3, <2>1, <2>2
    <2> QED
        BY <1>1, <2>3, SeamScene
<1> QED
    BY <1>2, <1>3

\* A replay task takes the next identity.
LEMMA SeamSerial ==
    ASSUME SeamInv, TermTypes', serial' = serial + 1,
           UNCHANGED <<hist, unsent, seam, att, conn, feed, down, lossy, screen, mounted, sel, list, replay>>
    PROVE  SeamInv'
<1>0. /\ TermTypes /\ UnsentLast /\ Attaching /\ Framing /\ Painting /\ ExactAll
      /\ conn \in Seq(Frames) /\ down \in Seq(Frames)
      /\ seam \in Seams /\ att \in Attachments /\ serial \in Nat
    BY DEF SeamInv, TermTypes, LoopTypes, WireTypes, Seams, Attachments
<1>1. \A x \in Grants : \A r : Granted(x, r) => Granted(x, r)'
    BY <1>0 DEF Granted, Grants
<1>2. \A m \in Frames : Streams(m) => m.by \in Grants
    BY DEF Streams, Frames, Chunks, Catchups, Errors, EventFrames, Lists
<1>3. \A m \in Frames : Sound(m) => Sound(m)'
    BY <1>1, <1>2 DEF Sound, OutBelow
<1>4. UnsentLast'
    BY <1>0 DEF UnsentLast
<1>5. \A i \in 1..Len(screen) : screen[i].by \in Grants
    <2>1. screen \in Seq(Writings)
        BY <1>0 DEF TermTypes, ViewTypes
    <2>2. \A i \in 1..Len(screen) : screen[i] \in Writings
        BY <2>1
    <2>3. \A e \in Writings : e.by \in Grants
        BY DEF Writings
    <2> QED
        BY <2>2, <2>3
<1>6. Painting'
    <2>1. ASSUME screen # <<>>, NEW i \in 1..Len(screen), screen[i].kind # "replay"
          PROVE  Granted(screen[i].by, sel)'
        <3>1. PICK x \in Grants : x = screen[i].by
            BY <1>5
        <3>2. Granted(x, sel)
            BY <1>0, <2>1, <3>1 DEF Painting
        <3> QED
            BY <1>1, <3>1, <3>2 DEF Granted
    <2>2. \A i \in 1..Len(screen) : screen[i].kind = "catchup" /\ screen[i].outs = OutBelow(sel, screen[i].by.from) =>
                screen[i].outs = OutBelow(sel, screen[i].by.from)'
        BY DEF OutBelow
    <2> QED
        BY <1>0, <2>1, <2>2 DEF Painting, Registered
<1>7. Framing'
    <2>1. ASSUME NEW j \in 1..Len(conn) PROVE Sound(conn[j])'
        <3>1. PICK m \in Frames : m = conn[j]
            BY <1>0
        <3>2. Sound(m)'
            BY <1>0, <1>3, <3>1 DEF Framing
        <3> QED
            BY <3>1, <3>2 DEF Sound, Granted
    <2>2. ASSUME NEW j \in 1..Len(down) PROVE Sound(down[j])'
        <3>1. PICK m \in Frames : m = down[j]
            BY <1>0
        <3>2. Sound(m)'
            BY <1>0, <1>3, <3>1 DEF Framing
        <3> QED
            BY <3>1, <3>2 DEF Sound, Granted
    <2> QED
        BY <1>0, <2>1, <2>2 DEF Framing, Blank
<1>8. Attaching'
    <2>1. ASSUME NEW r \in Sess, att[r].on PROVE Granted(att[r].by, r)'
        <3>1. PICK x \in Grants : x = att[r].by
            BY <1>0, <2>1, RunningOnly DEF Attachments
        <3>2. Granted(x, r)'
            BY <1>0, <1>1, <2>1, <3>1 DEF Attaching
        <3> QED
            BY <3>1, <3>2 DEF Granted
    <2>2. ASSUME seam # NoSeam PROVE Granted(seam.by, seam.id)'
        <3>1. PICK x \in Grants, r \in Sess : x = seam.by /\ r = seam.id
            BY <1>0, <2>2 DEF Seams
        <3>2. Granted(x, r)'
            BY <1>0, <1>1, <2>2, <3>1 DEF Attaching
        <3> QED
            BY <3>1, <3>2 DEF Granted
    <2> QED
        BY <1>0, <2>1, <2>2 DEF Attaching, Placed, Clear, Blank
<1>9. ExactAll'
    BY <1>0 DEF ExactAll, Anchored
<1> QED
    BY <1>4, <1>6, <1>7, <1>8, <1>9 DEF SeamInv

LEMMA FeedPlain ==
    ASSUME SeamInv, feed' = feed \/ \E m \in Frames : ~Streams(m) /\ feed' = Append(feed, m)
    PROVE  \A i \in 1..Len(feed') : ~Streams(feed'[i])
<1>1. feed \in Seq(Frames) /\ \A i \in 1..Len(feed) : ~Streams(feed[i])
    BY DEF SeamInv, TermTypes, LoopTypes, Framing
<1>2. CASE feed' = feed
    BY <1>1, <1>2
<1>3. ASSUME NEW m \in Frames, ~Streams(m), feed' = Append(feed, m)
      PROVE  \A i \in 1..Len(feed') : ~Streams(feed'[i])
    BY <1>1, <1>3, AppendIs
<1> QED
    BY <1>2, <1>3

LEMMA PlainFrames ==
    /\ ErrorFrame \in Frames /\ ~Streams(ErrorFrame)
    /\ TermTypes => ListFrame \in Frames /\ ~Streams(ListFrame)
    /\ \A s \in Sess, k \in {"created", "ended"} :
          [type |-> k, id |-> s] \in Frames /\ ~Streams([type |-> k, id |-> s])
    /\ \A s \in Sess, g \in Grants, x \in Nat :
          /\ [type |-> "replay", id |-> s, at |-> x, by |-> g] \in Frames
          /\ ~Streams([type |-> "replay", id |-> s, at |-> x, by |-> g])
<1>1. TermTypes => ListFrame \in Frames /\ ~Streams(ListFrame)
    BY RowsOK DEF TermTypes, DaemonTypes, ListFrame, Frames, Lists, Streams
<1>2. ErrorFrame \in Frames /\ ~Streams(ErrorFrame)
    BY DEF ErrorFrame, Frames, Errors, Streams
<1>3. \A s \in Sess, k \in {"created", "ended"} :
          [type |-> k, id |-> s] \in Frames /\ ~Streams([type |-> k, id |-> s])
    BY DEF Frames, EventFrames, Streams
<1>4. \A s \in Sess, g \in Grants, x \in Nat :
          /\ [type |-> "replay", id |-> s, at |-> x, by |-> g] \in Frames
          /\ ~Streams([type |-> "replay", id |-> s, at |-> x, by |-> g])
    BY DEF Frames, Chunks, Streams
<1> QED
    BY <1>1, <1>2, <1>3, <1>4

LEMMA SeamEnded ==
    ASSUME SeamInv, TermTypes', NEW s \in Sess, Ended(s)
    PROVE  SeamInv'
<1>1. UNCHANGED <<hist, unsent, seam, serial, screen, mounted, sel, list, replay, att, down, conn, lossy>>
    BY DEF Ended, wireVars, viewVars
<1>2. feed' = feed \/ \E m \in Frames : ~Streams(m) /\ feed' = Append(feed, m)
    <2>1. [type |-> "ended", id |-> s] \in Frames /\ ~Streams([type |-> "ended", id |-> s])
        BY PlainFrames
    <2> QED
        BY <2>1 DEF Ended
<1>3. lossy \subseteq lossy' /\ \A i \in 1..Len(feed') : ~Streams(feed'[i])
    BY <1>1, <1>2, FeedPlain
<1> QED
    BY <1>1, <1>3, LoopStep

LEMMA SeamReplay ==
    ASSUME SeamInv, TermTypes', NEW r \in replays, StreamReplay(r)
    PROVE  SeamInv'
<1>1. UNCHANGED <<hist, unsent, seam, serial, screen, mounted, sel, list, replay, att, down, feed, lossy>>
    BY DEF StreamReplay, daemonVars, wireVars, viewVars
<1>2. r \in [id : Sess, by : Grants, left : SUBSET Nat]
    BY DEF SeamInv, TermTypes, LoopTypes
<1>3. conn' = conn \/ \E m \in Frames : ~Streams(m) /\ conn' = Append(conn, m)
    <2>1. CASE r.left = {}
        BY <2>1 DEF StreamReplay
    <2>2. CASE r.left # {}
        <3>1. PICK x : x = CHOOSE z \in r.left : \A y \in r.left : z <= y
            OBVIOUS
        <3>2. x \in Nat
            BY <1>2, <2>2, <3>1, NatMin
        <3>3. conn' = Append(conn, [type |-> "replay", id |-> r.id, at |-> x, by |-> r.by])
            BY <2>2, <3>1 DEF StreamReplay
        <3> QED
            BY <1>2, <3>2, <3>3, PlainFrames
    <2> QED
        BY <2>1, <2>2
<1>4. lossy \subseteq lossy' /\ \A i \in 1..Len(feed') : ~Streams(feed'[i])
    BY <1>1, FeedPlain
<1> QED
    BY <1>1, <1>3, <1>4, LoopStep

LEMMA SeamFeed ==
    ASSUME SeamInv, TermTypes', PumpFeed
    PROVE  SeamInv'
<1>1. UNCHANGED <<hist, unsent, seam, serial, screen, mounted, sel, list, replay, att, conn, lossy>>
    BY DEF PumpFeed, daemonVars, viewVars
<1>2. feed \in Seq(Frames) /\ feed # <<>> /\ \A i \in 1..Len(feed) : ~Streams(feed[i])
    BY DEF SeamInv, TermTypes, LoopTypes, Framing, PumpFeed
<1>3. PICK m \in Frames : m = Head(feed) /\ ~Streams(m)
    BY <1>2, TailIs
<1>4. down' = Append(down, m) /\ feed' = Tail(feed)
    BY <1>3 DEF PumpFeed
<1>5. \A i \in 1..Len(feed') : ~Streams(feed'[i])
    BY <1>2, <1>4, TailIs
<1>6. lossy \subseteq lossy'
    BY <1>1
<1> QED
    BY <1>1, <1>3, <1>4, <1>5, <1>6, LoopStep

\* A forwarder with nothing left ends.
LEMMA SeamOver ==
    ASSUME SeamInv, TermTypes', NEW s \in Sess, Forward(s), att[s].rx.q = <<>>
    PROVE  SeamInv'
<1>1. UNCHANGED <<hist, unsent, seam, serial, screen, mounted, sel, list, replay, down, feed>>
    BY DEF Forward, daemonVars, wireVars, viewVars
<1>2. att' = [att EXCEPT ![s] = NoAtt] /\ lossy \subseteq lossy'
    BY DEF Forward
<1>3. conn' = conn \/ \E m \in Frames : ~Streams(m) /\ conn' = Append(conn, m)
    <2>1. [type |-> "error"] \in Frames /\ ~Streams([type |-> "error"])
        BY PlainFrames DEF ErrorFrame
    <2>2. conn' = conn \/ conn' = Append(conn, [type |-> "error"])
        BY DEF Forward, TrySend
    <2> QED
        BY <2>1, <2>2
<1>4. \A i \in 1..Len(feed') : ~Streams(feed'[i])
    BY <1>1, FeedPlain
<1> QED
    BY <1>1, <1>2, <1>3, <1>4, LoopStep

LEMMA SeamIdle ==
    ASSUME SeamInv, TermTypes',
           UNCHANGED <<hist, unsent, seam, att, conn, feed, down, lossy, serial,
                       screen, mounted, sel, list, replay>>
    PROVE  SeamInv'
<1>1. lossy \subseteq lossy' /\ \A i \in 1..Len(feed') : ~Streams(feed'[i])
    BY FeedPlain
<1> QED
    BY <1>1, LoopStep

\* A command read.
LEMMA SeamRead ==
    ASSUME SeamInv, TermTypes', ReadCommand
    PROVE  SeamInv'
<1>0. TermTypes /\ up \in Seq(Orders) /\ up # <<>> /\ seam = NoSeam
    BY DEF SeamInv, TermTypes, WireTypes, ReadCommand
<1>1. PICK c \in Orders : c = Head(up)
    BY <1>0
<1>2. UNCHANGED <<screen, mounted, sel, list, replay>>
    BY DEF ReadCommand, viewVars
<1>3. c.op \in {"create", "attach", "detach", "write", "close", "list", "meta", "replay"}
    BY DEF Orders
<1>4. c.op # "list" => c.id \in Sess
    BY DEF Orders
<1>5. CASE c.op = "create"
    <2>1. PICK s \in Sess : s = c.id
        BY <1>4, <1>5
    <2>2. TermCreate(s)
        BY <1>1, <1>5, <2>1 DEF ReadCommand
    <2>3. \E m \in Frames : ~Streams(m) /\ down' = Append(down, m)
        BY <2>2, PlainFrames DEF TermCreate
    <2>4. UNCHANGED <<hist, unsent, seam, serial, att, conn, feed, lossy>>
        BY <2>2 DEF TermCreate, loopVars
    <2>5. lossy \subseteq lossy' /\ \A i \in 1..Len(feed') : ~Streams(feed'[i])
        BY <2>4, FeedPlain
    <2> QED
        BY <1>2, <2>3, <2>4, <2>5, LoopStep
<1>6. CASE c.op = "attach"
    <2>1. PICK s \in Sess : s = c.id
        BY <1>4, <1>6
    <2>2. TermAttach(s)
        BY <1>1, <1>6, <2>1 DEF ReadCommand
    <2>3. CASE s \in live
        BY <1>0, <1>2, <2>2, <2>3, SeamAttach
    <2>4. CASE s \notin live
        <3>1. /\ att' = [att EXCEPT ![s] = NoAtt] /\ down' = Append(down, ErrorFrame)
              /\ UNCHANGED <<hist, unsent, seam, serial, conn, feed, lossy>>
            BY <2>2, <2>4 DEF TermAttach, daemonVars
        <3>2. \E m \in Frames : ~Streams(m) /\ down' = Append(down, m)
            BY <3>1, PlainFrames
        <3>3. lossy \subseteq lossy' /\ \A i \in 1..Len(feed') : ~Streams(feed'[i])
            BY <3>1, FeedPlain
        <3> QED
            BY <1>2, <3>1, <3>2, <3>3, LoopStep
    <2> QED
        BY <2>3, <2>4
<1>7. CASE c.op = "detach"
    <2>1. PICK s \in Sess : s = c.id
        BY <1>4, <1>7
    <2>2. TermDetach(s)
        BY <1>1, <1>7, <2>1 DEF ReadCommand
    <2>3. /\ att' = [att EXCEPT ![s] = NoAtt]
          /\ UNCHANGED <<hist, unsent, seam, serial, conn, feed, lossy, down>>
        BY <2>2 DEF TermDetach, daemonVars
    <2>4. lossy \subseteq lossy' /\ \A i \in 1..Len(feed') : ~Streams(feed'[i])
        BY <2>3, FeedPlain
    <2> QED
        BY <1>2, <2>3, <2>4, LoopStep
<1>8. CASE c.op = "write"
    <2>1. PICK s \in Sess : s = c.id
        BY <1>4, <1>8
    <2>2. TermWrite(s)
        BY <1>1, <1>8, <2>1 DEF ReadCommand
    <2>3. UNCHANGED <<seam, att, conn, feed, serial, lossy>>
        BY <2>2 DEF TermWrite, loopVars
    <2>4. CASE s \in live
        <3>1. Assign(s, "other") /\ UNCHANGED down
            BY <2>2, <2>4 DEF TermWrite
        <3>2. PICK k \in {"out", "other"} : k = "other"
            OBVIOUS
        <3>3. Assign(s, k) /\ (k = "out" => unsent[s] = {})
            BY <3>1, <3>2
        <3> QED
            BY <1>2, <2>3, <3>1, <3>3, SeamGrow
    <2>5. CASE s \notin live
        <3>1. UNCHANGED <<hist, unsent>> /\ down' = Append(down, ErrorFrame)
            BY <2>2, <2>5 DEF TermWrite, daemonVars
        <3>2. \E m \in Frames : ~Streams(m) /\ down' = Append(down, m)
            BY <3>1, PlainFrames
        <3>3. lossy \subseteq lossy' /\ \A i \in 1..Len(feed') : ~Streams(feed'[i])
            BY <2>3, FeedPlain
        <3> QED
            BY <1>2, <2>3, <3>1, <3>2, <3>3, LoopStep
    <2> QED
        BY <2>4, <2>5
<1>9. CASE c.op = "close"
    <2>1. PICK s \in Sess : s = c.id
        BY <1>4, <1>9
    <2>2. TermClose(s)
        BY <1>1, <1>9, <2>1 DEF ReadCommand
    <2>3. /\ att' = [att EXCEPT ![s] = NoAtt] /\ down' \in {down, Append(down, ErrorFrame)}
          /\ UNCHANGED <<hist, unsent, seam, serial, conn, feed, lossy>>
        BY <2>2 DEF TermClose, daemonVars
    <2>4. down' = down \/ \E m \in Frames : ~Streams(m) /\ down' = Append(down, m)
        BY <2>3, PlainFrames
    <2>5. lossy \subseteq lossy' /\ \A i \in 1..Len(feed') : ~Streams(feed'[i])
        BY <2>3, FeedPlain
    <2> QED
        BY <1>2, <2>3, <2>4, <2>5, LoopStep
<1>10. CASE c.op = "list"
    <2>1. TermList
        BY <1>1, <1>10 DEF ReadCommand
    <2>2. UNCHANGED <<hist, unsent, seam, serial, att, conn, feed, lossy>>
        BY <2>1 DEF TermList, daemonVars, loopVars
    <2>3. \E m \in Frames : ~Streams(m) /\ down' = Append(down, m)
        BY <1>0, <2>1, PlainFrames DEF TermList
    <2>4. lossy \subseteq lossy' /\ \A i \in 1..Len(feed') : ~Streams(feed'[i])
        BY <2>2, FeedPlain
    <2> QED
        BY <1>2, <2>2, <2>3, <2>4, LoopStep
<1>11. CASE c.op = "meta"
    <2>1. TermSetMeta
        BY <1>1, <1>11 DEF ReadCommand
    <2>2. UNCHANGED <<hist, unsent, seam, serial, att, conn, down, lossy>>
        BY <2>1 DEF TermSetMeta, daemonVars
    <2>3. \E m \in Frames : ~Streams(m) /\ feed' = Append(feed, m)
        BY <1>0, <2>1, PlainFrames DEF TermSetMeta
    <2>4. lossy \subseteq lossy' /\ \A i \in 1..Len(feed') : ~Streams(feed'[i])
        BY <2>2, <2>3, FeedPlain
    <2> QED
        BY <1>2, <2>2, <2>4, LoopStep
<1>12. CASE c.op = "replay"
    <2>1. PICK s \in Sess : s = c.id
        BY <1>4, <1>12
    <2>2. TermReplay(s)
        BY <1>1, <1>12, <2>1 DEF ReadCommand
    <2>3. UNCHANGED <<hist, unsent, seam, att, conn, feed, lossy>>
        BY <2>2 DEF TermReplay, daemonVars
    <2>4. \/ serial' = serial + 1 /\ down' = down
          \/ serial' = serial /\ down' = Append(down, ErrorFrame)
        BY <2>2 DEF TermReplay
    <2>5. CASE serial' = serial + 1 /\ down' = down
        BY <1>2, <2>3, <2>5, SeamSerial
    <2>6. CASE serial' = serial /\ down' = Append(down, ErrorFrame)
        <3>1. \E m \in Frames : ~Streams(m) /\ down' = Append(down, m)
            BY <2>6, PlainFrames
        <3>2. lossy \subseteq lossy' /\ \A i \in 1..Len(feed') : ~Streams(feed'[i])
            BY <2>3, FeedPlain
        <3> QED
            BY <1>2, <2>3, <2>6, <3>1, <3>2, LoopStep
    <2> QED
        BY <2>4, <2>5, <2>6
<1> QED
    BY <1>3, <1>5, <1>6, <1>7, <1>8, <1>9, <1>10, <1>11, <1>12

LEMMA SeamIngest ==
    ASSUME SeamInv, TermTypes', NEW s \in Sess, Ingest(s)
    PROVE  SeamInv'
<1>1. PICK k \in {"out", "other"} : k = "out"
    OBVIOUS
<1>2. /\ Assign(s, k) /\ unsent[s] = {}
      /\ UNCHANGED <<seam, att, conn, feed, down, screen, serial, lossy, mounted, sel, list, replay>>
    BY <1>1 DEF Ingest, loopVars, wireVars, viewVars
<1> QED
    BY <1>2, SeamGrow

LEMMA SeamStart == TermInit => SeamInv
<1> SUFFICES ASSUME TermInit PROVE SeamInv
    OBVIOUS
<1>1. TermTypes
    BY TermInitTypes
<1>2. NoAtt.on = FALSE
    BY DEF NoAtt
<1>3. /\ unsent = [s \in Sess |-> {}] /\ seam = NoSeam /\ att = [s \in Sess |-> NoAtt]
      /\ conn = <<>> /\ feed = <<>> /\ down = <<>> /\ screen = <<>>
    BY DEF TermInit
<1>4. UnsentLast /\ Painting
    BY <1>3 DEF UnsentLast, Painting
<1>5. Attaching /\ Framing
    BY <1>2, <1>3 DEF Attaching, Framing
<1>6. ExactAll
    BY <1>3 DEF ExactAll, Anchored
<1> QED
    BY <1>1, <1>4, <1>5, <1>6 DEF SeamInv

LEMMA SeamNext == SeamInv /\ [TermNext]_termVars => SeamInv'
<1> SUFFICES ASSUME SeamInv, [TermNext]_termVars PROVE SeamInv'
    OBVIOUS
<1>0. TermTypes /\ TermTypes'
    BY TermTypesNext DEF SeamInv
<1>1. CASE UNCHANGED termVars \/ GiveUp \/ Relink
    <2>1. UNCHANGED <<hist, unsent, seam, att, conn, feed, down, lossy, serial,
                      screen, mounted, sel, list, replay>>
        BY <1>1 DEF GiveUp, Relink, termVars, daemonVars, loopVars, wireVars, viewVars
    <2> QED
        BY <1>0, <2>1, SeamIdle
<1>2. CASE Daemon
    <2>1. ASSUME NEW s \in Sess, Forward(s) PROVE SeamInv'
        BY <1>0, <2>1, SeamForward, SeamOver
    <2> QED
        BY <1>0, <1>2, <2>1, SeamIngest, SeamPublish, SeamEnded, SeamReplay, SeamPump, SeamFeed,
           SeamRead, SeamFinish DEF Daemon
<1>3. CASE Operator
    <2>1. ASSUME NEW s \in Sess, NEW op, Order(op, s) PROVE SeamInv'
        <3>1. UNCHANGED <<hist, unsent, seam, att, conn, feed, down, lossy, serial,
                          screen, mounted, sel, list, replay>>
            BY <2>1 DEF Order, daemonVars, loopVars, viewVars
        <3> QED
            BY <1>0, <3>1, SeamIdle
    <2> QED
        BY <1>0, <1>3, <2>1, SeamShow, SeamOpen, SeamLeave DEF Operator
<1>4. CASE Receive
    BY <1>0, <1>4, SeamWrite, SeamListed
<1>5. CASE Drop
    BY <1>0, <1>5, SeamDrop
<1> QED
    BY <1>1, <1>2, <1>3, <1>4, <1>5 DEF TermNext

LEMMA SeamShown == SeamInv => SeamExact
<1> SUFFICES ASSUME SeamInv, ~replay, screen # <<>>, screen[1].kind = "catchup", screen[1].by \notin lossy
             PROVE  LET b == screen[1].by IN
                    /\ \A i, j \in Writes(b) : i < j => \A x \in screen[i].outs, y \in screen[j].outs : x < y
                    /\ OnScreen(b) \subseteq OutBelow(sel, Len(hist[sel]) + 1)
                    /\ \A x \in OnScreen(b) : OutBelow(sel, x) \subseteq OnScreen(b)
    BY DEF SeamExact
<1>0. TermTypes /\ Painting /\ ExactAll /\ screen \in Seq(Writings)
    BY DEF SeamInv, TermTypes, ViewTypes
<1>1. 1 \in 1..Len(screen) /\ DOMAIN screen = 1..Len(screen) /\ screen[1] \in Writings
    BY <1>0
<1>2. PICK a \in Grants : a = screen[1].by
    BY <1>1 DEF Writings
<1>3. a.id = sel /\ screen[1].outs = OutBelow(sel, a.from)
    BY <1>0, <1>1, <1>2 DEF Painting, Granted
<1>4. PICK h \in Histories, U \in SUBSET Nat, rx \in Rxs :
        h = hist[sel] /\ U = unsent[sel] /\ rx = RxFrom(a, seam, att)
    BY <1>3, ExactTyped
<1>5. Exact(a, h, U, rx, conn, down, screen)
    BY <1>0, <1>2, <1>3, <1>4 DEF ExactAll, Anchored
<1>6. \A i \in 2..Len(screen) :
        screen[i].by = a => Wrote(screen[i], a) /\ \E x \in Nat : screen[i].outs = {x} /\ IsOut(h, x)
    <2> SUFFICES ASSUME NEW i \in 2..Len(screen), screen[i].by = a
                 PROVE  Wrote(screen[i], a) /\ \E x \in Nat : screen[i].outs = {x} /\ IsOut(h, x)
        OBVIOUS
    <2>1. i \in 1..Len(screen) /\ i # 1 /\ screen[i] \in Writings
        BY <1>0
    <2>2. screen[i].kind \in {"chunk", "replay", "catchup"}
        BY <2>1 DEF Writings
    <2>3. screen[i].kind = "chunk"
        BY <1>0, <2>1, <2>2 DEF Painting
    <2>4. \E x \in 1..Len(h) : screen[i].outs = {x} /\ IsOut(h, x)
        BY <1>0, <1>4, <2>1, <2>3 DEF Painting
    <2> QED
        BY <2>3, <2>4 DEF Wrote
<1> DEFINE P == ScreenOuts(screen, a)
           D == ChunkOuts(down, a, h)
           C == ChunkOuts(conn, a, h)
           Q == RxOuts(rx.q, a, h)
           T == P \cup D \cup C \cup Q
<1>7. /\ ScreenRising(screen, a) /\ Apart(P, D \cup C \cup Q)
      /\ \A x \in T : Kept(x, a, h)
      /\ \A x \in T : \A y \in 1..Len(h) : y < x /\ Kept(y, a, h) => y \in T
    BY <1>5 DEF Exact, InLine, WholeOf
<1>8. \A i \in 2..Len(screen) : screen[i].by = a => screen[i].outs \subseteq P
    BY <1>6 DEF ScreenOuts
<1>9. ASSUME NEW i \in Writes(a) PROVE i = 1 \/ (i \in 2..Len(screen) /\ screen[i].by = a)
    BY <1>1 DEF Writes
<1>10. \A x \in OutBelow(sel, a.from) : x \in 1..Len(h) /\ x < a.from /\ IsOut(h, x)
    BY <1>4 DEF OutBelow, IsOut
<1>11. \A x : IsOut(h, x) => x \in 1..Len(h) /\ x \in Nat
    BY DEF IsOut
<1> HIDE DEF P, D, C, Q
<1>12. \A i, j \in Writes(a) : i < j => \A x \in screen[i].outs, y \in screen[j].outs : x < y
    <2> SUFFICES ASSUME NEW i \in Writes(a), NEW j \in Writes(a), i < j,
                        NEW x \in screen[i].outs, NEW y \in screen[j].outs
                 PROVE  x < y
        OBVIOUS
    <2>1. j \in 2..Len(screen) /\ screen[j].by = a
        BY <1>9
    <2>2. Wrote(screen[j], a) /\ y \in P
        BY <1>6, <1>8, <2>1
    <2>3. CASE i = 1
        BY <1>2, <1>3, <1>7, <1>10, <1>11, <2>2, <2>3 DEF Kept, Grants
    <2>4. CASE i # 1
        <3>1. Wrote(screen[i], a) /\ i \in 1..Len(screen) /\ j \in 1..Len(screen)
            BY <1>6, <1>9, <2>1, <2>4
        <3> QED
            BY <1>7, <2>2, <3>1 DEF ScreenRising
    <2> QED
        BY <2>3, <2>4
<1>13. OnScreen(a) \subseteq OutBelow(sel, a.from) \cup P
    BY <1>3, <1>8, <1>9 DEF OnScreen
<1>14. OutBelow(sel, a.from) \cup P \subseteq OnScreen(a)
    <2>1. 1 \in Writes(a)
        BY <1>1, <1>2 DEF Writes
    <2>2. OutBelow(sel, a.from) \subseteq OnScreen(a)
        BY <1>3, <2>1 DEF OnScreen
    <2>3. P \subseteq OnScreen(a)
        BY <1>1 DEF P, ScreenOuts, OnScreen, Writes, Wrote
    <2> QED
        BY <2>2, <2>3
<1>15. \A x \in P : IsOut(h, x) /\ a.from <= x
    BY <1>7 DEF Kept
<1>16. OnScreen(a) \subseteq OutBelow(sel, Len(hist[sel]) + 1)
    <2>1. \A x : IsOut(h, x) => x \in OutBelow(sel, Len(hist[sel]) + 1)
        BY <1>4 DEF IsOut, OutBelow, Histories
    <2> QED
        BY <1>10, <1>13, <1>15, <2>1
<1>17. ASSUME NEW x \in OnScreen(a), NEW y \in OutBelow(sel, x) PROVE y \in OnScreen(a)
    <2>1. y \in 1..Len(h) /\ y < x /\ IsOut(h, y)
        BY <1>4 DEF OutBelow, IsOut
    <2>2. CASE y < a.from
        BY <1>4, <1>14, <2>1, <2>2 DEF OutBelow, IsOut
    <2>3. CASE ~(y < a.from)
        <3>1. a.from \in Nat /\ x \in Nat /\ y \in Nat
            BY <1>10, <1>11, <1>13, <1>15, <2>1 DEF Grants
        <3>2. x \in P
            BY <1>10, <1>13, <2>1, <2>3, <3>1
        <3>3. Kept(y, a, h)
            BY <2>1, <2>3, <3>1 DEF Kept
        <3>4. y \in T
            BY <1>7, <2>1, <3>2, <3>3
        <3>5. y \in P
            BY <1>7, <2>1, <3>1, <3>2, <3>4 DEF Apart
        <3> QED
            BY <1>14, <3>5
    <2> QED
        BY <2>2, <2>3
<1> QED
    BY <1>2, <1>12, <1>16, <1>17

\* The attach seam is exact (terminal.rs attach_with and its forwarder,
\* TerminalView.tsx's handler): a pane shows, of the attachment that painted
\* it, the session's output from the start, in order, once each, none left
\* out, unless the daemon dropped a frame for a slow client.
THEOREM SeamExactHolds == TermSpec => []SeamExact
BY SeamStart, SeamNext, SeamShown, PTL DEF TermSpec

=============================================================================
