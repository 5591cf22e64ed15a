--------------------------- MODULE HookGateProofs ---------------------------
(***************************************************************************)
(* The hook gate for every set of requests, clients, tools and filters,    *)
(* colliding ids included, under every combination of faults.              *)
(***************************************************************************)
EXTENDS HookGateInv, DecisionQueueProofs

(* The hook process *)

LEMMA HookStepInv ==
    ASSUME NEW r \in Requests, GateInv, HookStep(r) \/ HookKill(r)
    PROVE  GateInv'
<1> USE DEF GateInv, queueVars, procVars, dbVars, envVars
<1>1. UNCHANGED queueVars
  BY DEF HookStep, HookModeOff, HookAutoApprove, HookConnect, HookUnreachable,
         HookRead, HookKill
<1>2. QueueInv'
  BY <1>1, QueueUnchanged
<1>3. CASE HookModeOff(r) \/ HookAutoApprove(r) \/ HookUnreachable(r)
  <2> USE <1>3 DEF HookModeOff, HookAutoApprove, HookUnreachable, HookAnswers
  <2>1. TypeOK'
    BY <1>2 DEF QueueInv, TypeOK, Decisions
  <2>2. NoZombieItems' /\ WaitCoherent' /\ JobsCoherent'
    BY DEF NoZombieItems, WaitCoherent, JobsCoherent
  <2>3. ReplyCoherent'
    BY DEF TypeOK, ReplyCoherent
  <2> QED BY <1>2, <2>1, <2>2, <2>3
<1>4. CASE HookConnect(r)
  <2> USE <1>4 DEF HookConnect
  <2>1. TypeOK'
    BY <1>2 DEF QueueInv, TypeOK, HandlerStates
  <2>2. NoZombieItems' /\ WaitCoherent' /\ JobsCoherent'
    BY DEF TypeOK, NoZombieItems, WaitCoherent, JobsCoherent, ReplyCoherent,
           Early, Decided
  <2>3. ReplyCoherent'
    BY DEF TypeOK, ReplyCoherent, Decisions
  <2> QED BY <1>2, <2>1, <2>2, <2>3
<1>5. CASE HookRead(r) \/ HookKill(r)
  <2> USE <1>5 DEF HookRead, HookKill, HookAnswers
  <2>1. TypeOK'
    BY <1>2 DEF QueueInv, TypeOK, Decisions
  <2>2. NoZombieItems' /\ WaitCoherent' /\ JobsCoherent'
    BY DEF NoZombieItems, WaitCoherent, JobsCoherent
  <2>3. ReplyCoherent'
    BY DEF TypeOK, ReplyCoherent, Decisions
  <2> QED BY <1>2, <2>1, <2>2, <2>3
<1> QED BY <1>3, <1>4, <1>5 DEF HookStep

-----------------------------------------------------------------------------
(* The handler *)

\* Steps that only move the handler, or end it with an answer.
LEMMA HandlerMovesInv ==
    ASSUME NEW r \in Requests, GateInv,
           \/ RejectIdentity(r) \/ RejectMode(r) \/ Admit(r) \/ PersistPending(r)
           \/ RejectDuplicate(r) \/ DeletePending(r) \/ Recording(r) \/ Reply(r)
           \/ HandlerDbError(r)
    PROVE  GateInv'
<1> USE DEF GateInv, queueVars, procVars, dbVars, envVars, Goto, Respond, HangUp
<1>1. UNCHANGED queueVars
  BY DEF RejectIdentity, RejectMode, Admit, PersistPending, RejectDuplicate,
         DeletePending, Recording, Reply, HandlerDbError
<1>2. QueueInv'
  BY <1>1, QueueUnchanged
<1>3. CASE RejectIdentity(r) \/ RejectMode(r) \/ RejectDuplicate(r)
  <2> USE <1>3 DEF RejectIdentity, RejectMode, RejectDuplicate
  <2>1. TypeOK'
    BY <1>2 DEF QueueInv, TypeOK, HandlerStates, Decisions
  <2>2. NoZombieItems'
    BY DEF TypeOK, QueueTypeOK, NoZombieItems
  <2>3. WaitCoherent'
    BY DEF TypeOK, WaitCoherent, Early, Decided
  <2>4. JobsCoherent'
    BY DEF TypeOK, JobsCoherent
  <2>5. ReplyCoherent'
    BY DEF TypeOK, ReplyCoherent, Decisions
  <2> QED BY <1>2, <2>1, <2>2, <2>3, <2>4, <2>5
<1>4. CASE Admit(r) \/ PersistPending(r)
  <2> USE <1>4 DEF Admit, PersistPending
  <2>1. TypeOK'
    BY <1>2, QueueAssumption DEF QueueInv, TypeOK, HandlerStates
  <2>2. NoZombieItems'
    BY DEF TypeOK, QueueTypeOK, NoZombieItems
  <2>3. WaitCoherent'
    BY DEF TypeOK, WaitCoherent, Early, Decided
  <2>4. JobsCoherent'
    BY DEF TypeOK, JobsCoherent
  <2>5. ReplyCoherent'
    BY DEF TypeOK, ReplyCoherent, Decisions
  <2> QED BY <1>2, <2>1, <2>2, <2>3, <2>4, <2>5
<1>5. CASE DeletePending(r) \/ Recording(r)
  <2> USE <1>5 DEF DeletePending, Recording
  <2>1. TypeOK'
    BY <1>2 DEF QueueInv, TypeOK, HandlerStates
  <2>2. NoZombieItems'
    BY DEF TypeOK, QueueTypeOK, NoZombieItems
  <2>3. WaitCoherent'
    BY DEF TypeOK, WaitCoherent, Early, Decided
  <2>4. JobsCoherent'
    BY DEF TypeOK, JobsCoherent
  <2>5. ReplyCoherent'
    BY DEF TypeOK, ReplyCoherent, Decisions
  <2> QED BY <1>2, <2>1, <2>2, <2>3, <2>4, <2>5
<1>6. CASE Reply(r)
  <2> USE <1>6 DEF Reply
  <2>1. TypeOK'
    BY <1>2 DEF QueueInv, TypeOK, HandlerStates, WaitCoherent, Decided
  <2>2. NoZombieItems'
    BY DEF TypeOK, QueueTypeOK, NoZombieItems
  <2>3. WaitCoherent'
    BY DEF TypeOK, WaitCoherent, Early, Decided
  <2>4. JobsCoherent'
    BY DEF TypeOK, JobsCoherent
  <2>5. ReplyCoherent'
    BY DEF TypeOK, ReplyCoherent, WaitCoherent, Decided, Decisions
  <2> QED BY <1>2, <2>1, <2>2, <2>3, <2>4, <2>5
<1>7. CASE HandlerDbError(r)
  <2> USE <1>7 DEF HandlerDbError
  <2>1. TypeOK'
    BY <1>2 DEF QueueInv, TypeOK, HandlerStates
  <2>2. NoZombieItems'
    BY DEF TypeOK, QueueTypeOK, NoZombieItems
  <2>3. WaitCoherent'
    BY DEF TypeOK, WaitCoherent, Early, Decided
  <2>4. JobsCoherent'
    BY DEF TypeOK, JobsCoherent
  <2>5. ReplyCoherent'
    BY DEF TypeOK, ReplyCoherent, Decisions
  <2> QED BY <1>2, <2>1, <2>2, <2>3, <2>4, <2>5
<1> QED BY <1>3, <1>4, <1>5, <1>6, <1>7

LEMMA HandlerEnqueueInv ==
    ASSUME NEW r \in Requests, GateInv, HandlerEnqueue(r)
    PROVE  GateInv'
<1> USE DEF GateInv, HandlerEnqueue, Goto, procVars, dbVars, envVars
<1>1. QueueInv'
  BY EnqueuePreservesInv DEF Enqueue
<1>2. /\ pending_items' = pending_items \cup {r}
      /\ rx' = [rx EXCEPT ![r] = "open"]
  BY DEF Enqueue, EnqueueInner
<1>3. TypeOK'
  BY <1>1 DEF QueueInv, TypeOK, HandlerStates
<1>4. NoZombieItems'
  BY <1>2 DEF TypeOK, QueueTypeOK, NoZombieItems
<1>5. WaitCoherent'
  BY <1>2 DEF TypeOK, QueueTypeOK, WaitCoherent, Early, Decided
<1>6. JobsCoherent'
  BY DEF TypeOK, JobsCoherent
<1>7. ReplyCoherent'
  BY DEF TypeOK, ReplyCoherent, Decisions
<1> QED BY <1>1, <1>3, <1>4, <1>5, <1>6, <1>7

LEMMA WaitInv ==
    ASSUME NEW r \in Requests, GateInv,
           \/ WaitResolved(r)
           \/ \E why \in {"dropped", "timeout", "gone"} : WaitOtherwise(r, why)
    PROVE  GateInv'
<1> USE DEF GateInv, Goto, procVars, dbVars, envVars
<1>1. QueueInv'
  BY QueueUnchanged DEF WaitResolved, WaitOtherwise
<1>2. CASE WaitResolved(r)
  <2> USE <1>2 DEF WaitResolved, queueVars
  <2>1. TypeOK'
    BY <1>1 DEF QueueInv, TypeOK, HandlerStates
  <2>2. NoZombieItems'
    BY DEF TypeOK, QueueInv, QueueTypeOK, OneOwnerPerSender, NoZombieItems, Decisions
  <2>3. WaitCoherent'
    BY DEF TypeOK, WaitCoherent, Early, Decided
  <2>4. JobsCoherent'
    BY DEF TypeOK, JobsCoherent
  <2>5. ReplyCoherent'
    BY DEF TypeOK, ReplyCoherent, Decisions
  <2> QED BY <1>1, <2>1, <2>2, <2>3, <2>4, <2>5
<1>3. ASSUME NEW why \in {"dropped", "timeout", "gone"}, WaitOtherwise(r, why)
      PROVE  GateInv'
  <2> USE <1>3 DEF WaitOtherwise, Fires, queueVars
  <2>1. TypeOK'
    BY <1>1 DEF QueueInv, TypeOK, HandlerStates
  <2>2. NoZombieItems'
    BY DEF TypeOK, QueueTypeOK, NoZombieItems
  <2>3. WaitCoherent'
    BY DEF TypeOK, WaitCoherent, Early, Decided
  <2>4. JobsCoherent'
    BY DEF TypeOK, JobsCoherent
  <2>5. ReplyCoherent'
    BY DEF TypeOK, ReplyCoherent, Decisions
  <2> QED BY <1>1, <2>1, <2>2, <2>3, <2>4, <2>5
<1> QED BY <1>2, <1>3

LEMMA SettleInv ==
    ASSUME NEW r \in Requests, GateInv, Settle(r)
    PROVE  GateInv'
<1> USE DEF GateInv, Settle, Goto, procVars, dbVars, envVars
<1>1. IdOf[r] \in Ids
  BY QueueAssumption
<1>2. QueueInv'
  BY <1>1, FinalizePreservesInv
<1>3. /\ pending_items' \subseteq pending_items \ {r}
      /\ \A q \in Requests : rx'[q] = rx[q] \/ (rx[q] = "open" /\ rx'[q] = "dropped")
  BY FinalizeChannels
<1>4. TypeOK'
  BY <1>2 DEF QueueInv, TypeOK, HandlerStates, Decisions
<1>5. NoZombieItems'
  BY <1>3 DEF TypeOK, QueueTypeOK, NoZombieItems
<1>6. WaitCoherent'
  BY <1>3 DEF TypeOK, QueueTypeOK, WaitCoherent, Early, Decided, Decisions
<1>7. JobsCoherent'
  BY DEF TypeOK, JobsCoherent
<1>8. ReplyCoherent'
  BY DEF TypeOK, ReplyCoherent, WaitCoherent, Decisions
<1> QED BY <1>2, <1>4, <1>5, <1>6, <1>7, <1>8

LEMMA RecordOutcomeInv ==
    ASSUME NEW r \in Requests, GateInv, RecordOutcome(r)
    PROVE  GateInv'
<1> USE DEF GateInv, RecordOutcome, Goto, StartJob, procVars, dbVars, envVars, queueVars
<1>1. QueueInv'
  BY QueueUnchanged
<1>2. /\ IdOf[r] \in Ids
      /\ verdict[r] \in Decisions
      /\ Attribution(r) \in DecidedBy
  BY QueueAssumption DEF WaitCoherent, Decided, Attribution, DecidedBy
<1>3. TypeOK'
  BY <1>1, <1>2 DEF QueueInv, TypeOK, HandlerStates, Writers, Jobs
<1>4. NoZombieItems'
  BY DEF TypeOK, QueueTypeOK, NoZombieItems
<1>5. WaitCoherent'
  BY DEF TypeOK, WaitCoherent, Early, Decided
<1>6. JobsCoherent'
  BY DEF TypeOK, JobsCoherent, Writers
<1>7. ReplyCoherent'
  BY DEF TypeOK, ReplyCoherent, Decisions
<1> QED BY <1>1, <1>3, <1>4, <1>5, <1>6, <1>7

LEMMA HandlerStepInv ==
    ASSUME NEW r \in Requests, GateInv, HandlerStep(r) \/ HandlerDbError(r)
    PROVE  GateInv'
BY HandlerMovesInv, HandlerEnqueueInv, WaitInv, SettleInv, RecordOutcomeInv
   DEF HandlerStep

-----------------------------------------------------------------------------
(* The audit writes *)

LEMMA JobInv ==
    ASSUME NEW w \in Writers, GateInv, JobStep(w) \/ JobFail(w)
    PROVE  GateInv'
<1> USE DEF GateInv, procVars, dbVars, envVars
<1>1. QueueInv'
  BY QueueUnchanged DEF JobStep, JobSelect, JobInsert, JobDelete, JobFail
<1>2. job[w] \in Jobs
  BY DEF TypeOK, JobStep, JobSelect, JobInsert, JobDelete, JobFail
<1>3. CASE JobStep(w)
  <2> USE <1>3 DEF JobStep, JobSelect, JobInsert, JobDelete, queueVars
  <2>1. \A id \in Ids, d \in Decisions, by \in DecidedBy :
            Recorded(id, d, by) \in [Ids -> LogRows \cup {None}]
    BY DEF TypeOK, Recorded, LogRows
  <2>2. job' \in [Writers -> Jobs \cup {None}]
    BY <1>2 DEF TypeOK, Jobs
  <2>3. TypeOK'
    BY <1>1, <1>2, <2>1, <2>2 DEF QueueInv, TypeOK, Jobs
  <2>4. JobsCoherent'
    BY DEF TypeOK, JobsCoherent, Writers
  <2>5. NoZombieItems' /\ WaitCoherent' /\ ReplyCoherent'
    BY DEF NoZombieItems, WaitCoherent, ReplyCoherent
  <2> QED BY <1>1, <2>3, <2>4, <2>5
<1>4. CASE JobFail(w)
  <2> USE <1>4 DEF JobFail, HangUp, queueVars
  <2>1. TypeOK'
    BY <1>1 DEF QueueInv, TypeOK, HandlerStates
  <2>2. NoZombieItems'
    BY DEF TypeOK, QueueTypeOK, NoZombieItems, JobsCoherent
  <2>3. WaitCoherent'
    BY DEF TypeOK, WaitCoherent, JobsCoherent, Early, Decided
  <2>4. JobsCoherent'
    BY DEF TypeOK, JobsCoherent, Writers
  <2>5. ReplyCoherent'
    BY DEF TypeOK, ReplyCoherent, JobsCoherent, Decisions
  <2> QED BY <1>1, <2>1, <2>2, <2>3, <2>4, <2>5
<1> QED BY <1>3, <1>4

-----------------------------------------------------------------------------
(* The reviewers *)

\* Steps of a reviewer that touch neither the queue nor a handler.
LEMMA QuietClientInv ==
    ASSUME GateInv, TypeOK', UNCHANGED <<queueVars, procVars>>,
           \A r \in Requests : job'[r] = job[r]
    PROVE  GateInv'
<1>1. QueueInv'
  BY QueueUnchanged DEF GateInv
<1>2. NoZombieItems' /\ WaitCoherent' /\ ReplyCoherent' /\ JobsCoherent'
  BY DEF GateInv, NoZombieItems, WaitCoherent, ReplyCoherent, JobsCoherent,
         queueVars, procVars
<1> QED BY <1>1, <1>2 DEF GateInv

\* Steps of a reviewer that resolve.
LEMMA ResolvingClientInv ==
    ASSUME GateInv, NEW S \in SUBSET Ids, NEW d \in Decisions, ResolveIds(S, d),
           cmd' \in [Clients -> Commands \cup {None}],
           UNCHANGED <<procVars, dbVars, envVars, job>>
    PROVE  GateInv'
<1> USE DEF GateInv, procVars, dbVars, envVars
<1>1. QueueInv'
  BY ResolvePreservesInv
<1>2. /\ pending_items' \subseteq pending_items
      /\ \A r \in Requests : rx'[r] = rx[r] \/ (rx[r] = "open" /\ rx'[r] = d)
  BY ResolveChannels
<1>3. TypeOK'
  BY <1>1 DEF QueueInv, TypeOK
<1>4. NoZombieItems'
  BY <1>2 DEF NoZombieItems
<1>5. WaitCoherent'
  BY <1>2 DEF WaitCoherent, Decisions
<1>6. ReplyCoherent' /\ JobsCoherent'
  BY DEF ReplyCoherent, JobsCoherent
<1> QED BY <1>1, <1>3, <1>4, <1>5, <1>6

LEMMA BeginTypes ==
    ASSUME TypeOK, NEW c \in Clients, NEW op \in AllOps,
           NEW ids \in SUBSET Ids, NEW stage \in {"resolve", "persist"},
           NEW rule \in Tools \cup {None}, Begin(c, op, ids, stage, rule)
    PROVE  cmd' \in [Clients -> Commands \cup {None}]
BY DEF TypeOK, Begin, Commands

LEMMA DecisionOfType ==
    ASSUME NEW op \in AllOps PROVE DecisionOf(op) \in Decisions
BY DEF DecisionOf, Decisions

LEMMA LookInv ==
    ASSUME NEW c \in Clients, GateInv, NEW id \in Ids,
           \/ LookApprove(c, id) \/ LookPermission(c, id)
           \/ \E op \in {"deny", "ask"} : LookRefuse(c, op, id)
    PROVE  GateInv'
<1>1. \E op \in AllOps, rule \in Tools \cup {None} : Begin(c, op, {id}, "resolve", rule)
  <2>1. \A r \in Peek(id) : ToolOf[r] \in Tools
    BY GateAssumption DEF Peek, GateInv, QueueInv, QueueTypeOK
  <2>2. CASE LookApprove(c, id)
    <3>1. PICK rule \in {None} \cup {ToolOf[r] : r \in Peek(id)} :
              Begin(c, "approve", {id}, "resolve", rule)
      BY <2>2 DEF LookApprove
    <3>2. rule \in Tools \cup {None}
      BY <2>1, <3>1
    <3> QED BY <3>1, <3>2 DEF AllOps
  <2>3. CASE LookPermission(c, id)
    BY <2>3 DEF LookPermission, AllOps
  <2>4. CASE \E op \in {"deny", "ask"} : LookRefuse(c, op, id)
    BY <2>4 DEF LookRefuse, AllOps
  <2> QED BY <2>2, <2>3, <2>4
<1>2. cmd' \in [Clients -> Commands \cup {None}]
  BY <1>1, BeginTypes DEF GateInv
<1>3. UNCHANGED <<queueVars, procVars, dbVars, envVars, job>>
  BY DEF LookApprove, LookPermission, LookRefuse
<1>4. TypeOK'
  BY <1>2, <1>3 DEF GateInv, TypeOK, QueueTypeOK, queueVars, procVars, dbVars, envVars
<1> QED BY <1>3, <1>4, QuietClientInv

LEMMA LookBulkInv ==
    ASSUME NEW c \in Clients, GateInv, NEW F \in Filters,
           NEW op \in {"approve_all", "deny_all"}, LookBulk(c, op, F)
    PROVE  GateInv'
<1>1. Snapshot \subseteq Requests
  BY DEF Snapshot, GateInv, QueueInv, QueueTypeOK
<1>2. \E ids \in SUBSET Ids : Begin(c, op, ids, "resolve", None)
  <2> DEFINE ids == {IdOf[r] : r \in {r \in Snapshot \cap F :
                                        op = "approve_all" => ~Gated(c, r)}}
  <2>1. ids \in SUBSET Ids
    BY <1>1, QueueAssumption
  <2>2. Begin(c, op, ids, "resolve", None)
    BY DEF LookBulk
  <2> QED BY <2>1, <2>2
<1>3. cmd' \in [Clients -> Commands \cup {None}]
  BY <1>2, BeginTypes DEF GateInv, AllOps
<1>4. UNCHANGED <<queueVars, procVars, dbVars, envVars, job>>
  BY DEF LookBulk
<1>5. TypeOK'
  BY <1>3, <1>4 DEF GateInv, TypeOK, QueueTypeOK, queueVars, procVars, dbVars, envVars
<1> QED BY <1>4, <1>5, QuietClientInv

LEMMA ApproveAllTuiInv ==
    ASSUME NEW c \in Clients, GateInv, NEW F \in Filters, ApproveAllTui(c, F)
    PROVE  GateInv'
<1>1. BulkTargets(F) \in SUBSET Ids
  BY BulkTargetsAreIds DEF GateInv, QueueInv
<1>2. ResolveIds(BulkTargets(F), "approve")
  BY DEF ApproveAllTui, ResolveAll
<1>3. cmd' \in [Clients -> Commands \cup {None}]
  BY <1>1, BeginTypes DEF ApproveAllTui, GateInv, AllOps
<1> QED BY <1>1, <1>2, <1>3, ResolvingClientInv DEF ApproveAllTui, Decisions

LEMMA ResolveCommandInv ==
    ASSUME NEW c \in Clients, GateInv, ResolveCommand(c)
    PROVE  GateInv'
<1> DEFINE todo == ToPersist(cmd[c].op, cmd[c].ids)
<1>1. cmd[c] \in Commands
  BY DEF ResolveCommand, GateInv, TypeOK
<1>2. cmd[c].op \in AllOps /\ cmd[c].ids \in SUBSET Ids
  BY <1>1 DEF Commands
<1>3. todo \in SUBSET Ids
  BY <1>2 DEF ToPersist
<1>4. cmd' \in [Clients -> Commands \cup {None}]
  BY <1>1, <1>3 DEF ResolveCommand, GateInv, TypeOK, Commands
<1>5. ResolveIds(cmd[c].ids, DecisionOf(cmd[c].op))
  BY DEF ResolveCommand
<1> QED BY <1>2, <1>4, <1>5, DecisionOfType, ResolvingClientInv DEF ResolveCommand

LEMMA EagerPersistInv ==
    ASSUME NEW c \in Clients, NEW id \in Ids, GateInv, EagerPersist(c, id)
    PROVE  GateInv'
<1>1. cmd[c] \in Commands
  BY DEF EagerPersist, GateInv, TypeOK
<1>2. DecisionOf(cmd[c].op) \in Decisions
  BY <1>1, DecisionOfType DEF Commands
<1>3. [stage |-> "select", id |-> id, decision |-> DecisionOf(cmd[c].op),
       by |-> "human"] \in Jobs
  BY <1>2 DEF Jobs, DecidedBy
<1>4. job' \in [Writers -> Jobs \cup {None}]
  BY <1>3 DEF EagerPersist, StartJob, GateInv, TypeOK
<1>5. cmd' \in [Clients -> Commands \cup {None}]
  BY <1>1 DEF EagerPersist, GateInv, TypeOK, Commands
<1>6. UNCHANGED <<queueVars, procVars, dbVars, envVars>>
  BY DEF EagerPersist
<1>7. TypeOK'
  BY <1>4, <1>5, <1>6
     DEF GateInv, TypeOK, QueueTypeOK, queueVars, procVars, dbVars, envVars
<1>8. \A r \in Requests : job'[r] = job[r]
  BY GateAssumption DEF EagerPersist, StartJob, GateInv, TypeOK, Writers
<1> QED BY <1>6, <1>7, <1>8, QuietClientInv

LEMMA OtherClientInv ==
    ASSUME NEW c \in Clients, GateInv,
           FinishCommand(c) \/ MarkDeviceFresh(c) \/ GraceLapses(c)
    PROVE  GateInv'
<1>1. UNCHANGED <<queueVars, procVars, dbVars, phase, crashes, mode, job>>
  BY DEF FinishCommand, MarkDeviceFresh, GraceLapses
<1>2. rules' \subseteq Tools /\ fresh' \subseteq WebClients
  <2>1. CASE FinishCommand(c)
    <3>1. cmd[c] \in Commands
      BY <2>1 DEF FinishCommand, GateInv, TypeOK
    <3> QED BY <2>1, <3>1 DEF FinishCommand, GateInv, TypeOK, Commands
  <2>2. CASE MarkDeviceFresh(c) \/ GraceLapses(c)
    BY <2>2 DEF MarkDeviceFresh, GraceLapses, GateInv, TypeOK
  <2> QED BY <2>1, <2>2
<1>3. cmd' \in [Clients -> Commands \cup {None}]
  BY DEF FinishCommand, MarkDeviceFresh, GraceLapses, GateInv, TypeOK
<1>4. TypeOK'
  BY <1>1, <1>2, <1>3 DEF GateInv, TypeOK, QueueTypeOK, queueVars, procVars, dbVars
<1> QED BY <1>1, <1>4, QuietClientInv

LEMMA ClientStepInv ==
    ASSUME NEW c \in Clients, GateInv, ClientStep(c)
    PROVE  GateInv'
<1>1. Shown \subseteq Ids
  BY QueueAssumption DEF Shown
<1>2. CASE \E id \in Shown : \/ LookApprove(c, id) \/ LookPermission(c, id)
                             \/ \E op \in {"deny", "ask"} : LookRefuse(c, op, id)
  BY <1>1, <1>2, LookInv
<1>3. CASE \E F \in Filters : \/ ApproveAllTui(c, F)
                              \/ \E op \in {"approve_all", "deny_all"} : LookBulk(c, op, F)
  BY <1>3, ApproveAllTuiInv, LookBulkInv
<1>4. CASE ResolveCommand(c) \/ \E id \in Ids : EagerPersist(c, id)
  BY <1>4, ResolveCommandInv, EagerPersistInv
<1>5. CASE FinishCommand(c) \/ MarkDeviceFresh(c) \/ GraceLapses(c)
  BY <1>5, OtherClientInv
<1> QED BY <1>2, <1>3, <1>4, <1>5 DEF ClientStep

-----------------------------------------------------------------------------
(* The daemon process *)

LEMMA DaemonStepInv ==
    ASSUME GateInv, DaemonStep \/ SetMode
    PROVE  GateInv'
<1>1. CASE \E id \in Ids : DrainRow(id)
  <2>1. PICK id \in Ids : DrainRow(id)
    BY <1>1
  <2>2. [stage |-> "select", id |-> id, decision |-> "approve",
         by |-> "daemon_restart:failopen"] \in Jobs
    BY DEF Jobs, Decisions, DecidedBy
  <2>3. job' \in [Writers -> Jobs \cup {None}]
    BY <2>1, <2>2 DEF DrainRow, StartJob, GateInv, TypeOK
  <2>4. TypeOK'
    BY <2>1, <2>3
       DEF DrainRow, GateInv, TypeOK, QueueTypeOK, queueVars, procVars, dbVars, envVars
  <2>5. \A r \in Requests : job'[r] = job[r]
    BY <2>1, GateAssumption DEF DrainRow, StartJob, GateInv, TypeOK, Writers
  <2> QED BY <2>1, <2>4, <2>5, QuietClientInv DEF DrainRow
<1>2. CASE Restart \/ Bind \/ DrainFails \/ SetMode
  <2> USE <1>2 DEF Restart, Bind, DrainFails, SetMode
  <2>1. TypeOK'
    BY DEF GateInv, TypeOK, QueueTypeOK, queueVars, procVars, dbVars, envVars
  <2>2. \A r \in Requests : job'[r] = job[r]
    BY GateAssumption DEF GateInv, TypeOK, Writers
  <2>3. UNCHANGED <<queueVars, procVars>>
    OBVIOUS
  <2> QED BY <2>1, <2>2, <2>3, QuietClientInv
<1> QED BY <1>1, <1>2 DEF DaemonStep

LEMMA CrashInv ==
    ASSUME GateInv, Crash
    PROVE  GateInv'
<1> USE DEF GateInv, Crash, Running, procVars, dbVars, envVars
<1>1. QueueInv'
  <2>1. QueueTypeOK'
    BY DEF QueueInv, QueueTypeOK
  <2>2. SendersMatchItems' /\ IdsAccountedOnce' /\ ClaimsFiledById'
    BY QueueAssumption DEF SendersMatchItems, IdsAccountedOnce, ClaimsFiledById
  <2>3. OneOwnerPerSender'
    BY DEF QueueInv, QueueTypeOK, OneOwnerPerSender
  <2>4. ViewMatchesSnapshot'
    BY QueueAssumption DEF ViewMatchesSnapshot, Snapshot
  <2> QED BY <2>1, <2>2, <2>3, <2>4 DEF QueueInv
<1>2. TypeOK'
  BY <1>1, GateAssumption DEF QueueInv, TypeOK, HandlerStates, Writers
<1>3. NoZombieItems'
  BY DEF NoZombieItems
<1>4. WaitCoherent'
  BY DEF TypeOK, QueueTypeOK, WaitCoherent, Early, Decided, Decisions
<1>5. JobsCoherent'
  BY DEF JobsCoherent, Writers
<1>6. ReplyCoherent'
  BY DEF TypeOK, ReplyCoherent, Decisions
<1> QED BY <1>1, <1>2, <1>3, <1>4, <1>5, <1>6

-----------------------------------------------------------------------------
(* Theorems *)

LEMMA GateInitInv == Init => GateInv
<1> SUFFICES ASSUME Init PROVE GateInv
  OBVIOUS
<1>1. QueueInv
  BY InitInv DEF Init
<1>2. TypeOK
  BY <1>1, GateAssumption DEF Init, QueueInv, TypeOK, HandlerStates
<1>3. NoZombieItems /\ WaitCoherent /\ ReplyCoherent /\ JobsCoherent
  BY DEF Init, QueueInit, NoZombieItems, WaitCoherent, ReplyCoherent, JobsCoherent,
         Early, Decided, Decisions, Writers
<1> QED BY <1>1, <1>2, <1>3 DEF GateInv

LEMMA GateNextInv == GateInv /\ [Next]_vars => GateInv'
<1> SUFFICES ASSUME GateInv, [Next]_vars PROVE GateInv'
  OBVIOUS
<1>1. CASE \E r \in Requests : \/ HookStep(r) \/ HookKill(r)
                               \/ HandlerStep(r) \/ HandlerDbError(r)
  BY <1>1, HookStepInv, HandlerStepInv
<1>2. CASE \E c \in Clients : ClientStep(c)
  BY <1>2, ClientStepInv
<1>3. CASE \E w \in Writers : JobStep(w) \/ JobFail(w)
  BY <1>3, JobInv
<1>4. CASE DaemonStep \/ SetMode \/ Crash
  BY <1>4, DaemonStepInv, CrashInv
<1>6. CASE \E t \in ToolCalls : IngestLine(t)
  <2>1. TypeOK'
    BY <1>6 DEF IngestLine, GateInv, TypeOK, QueueTypeOK, queueVars, procVars, envVars
  <2> QED BY <1>6, <2>1, QuietClientInv DEF IngestLine
<1>5. CASE UNCHANGED vars
  <2>1. TypeOK'
    BY <1>5 DEF GateInv, TypeOK, QueueTypeOK, vars, queueVars, procVars, dbVars, envVars
  <2> QED BY <1>5, <2>1, QuietClientInv DEF vars
<1> QED BY <1>1, <1>2, <1>3, <1>4, <1>5, <1>6 DEF Next

\* Every variable of the gate, the queue and the tables keeps its type and the
\* stages of hook, handler, channel and audit write stay in step, whatever the
\* reviewers do, whatever fails and however ids collide.
THEOREM GateInvariant == Spec => []GateInv
BY GateInitInv, GateNextInv, PTL DEF Spec

\* The queue stays consistent under the handlers and review commands that use
\* it, across crashes and restarts.
THEOREM GateKeepsQueue == Spec => []QueueInv
<1>1. GateInv => QueueInv
  BY DEF GateInv
<1> QED BY <1>1, GateInvariant, PTL

\* No reviewer is ever shown a request that no handler waits for.
THEOREM NoZombies == Spec => []NoZombieItems
<1>1. GateInv => NoZombieItems
  BY DEF GateInv
<1> QED BY <1>1, GateInvariant, PTL

\* A reviewer's Deny is overridden only by a timeout that was already taken, a
\* failed database write of the handler, or the death of the daemon.
THEOREM DenialsStand == Spec => []DenyStands
<1>1. GateInv => DenyStands
  <2> SUFFICES ASSUME GateInv, NEW r \in Requests,
                      rx[r] = "deny", hook[r] = "approve"
               PROVE  waited[r] = "timeout" \/ handler[r] \in {"failed", "lost"}
    BY DEF DenyStands
  <2>1. handler[r] # "none"
    BY DEF GateInv, WaitCoherent, Early
  <2>2. resp[r] = "eof" \/ verdict[r] = "approve"
    BY <2>1 DEF GateInv, ReplyCoherent
  <2>3. CASE resp[r] = "eof"
    BY <2>3 DEF GateInv, ReplyCoherent
  <2>4. CASE verdict[r] = "approve"
    BY <2>4 DEF GateInv, TypeOK, WaitCoherent
  <2> QED BY <2>2, <2>3, <2>4
<1> QED BY <1>1, GateInvariant, PTL


-----------------------------------------------------------------------------
(* The audit log tells the truth, for every set of requests with distinct   *)
(* ids, every set of clients and every combination of faults: AuditInv is   *)
(* inductive.  GateInv, its first part, is preserved by GateNextInv; the    *)
(* lemmas below take GateInv' as given.                                     *)

\* Steps that touch none of what AuditInv speaks of.
LEMMA QuietAudit ==
    ASSUME AuditInv, GateInv',
           UNCHANGED <<rx, claims, handler, waited, verdict, resp, phase, dbVars, job, cmd>>
    PROVE  AuditInv'
<1> USE DEF AuditInv, OnRecord, CallsLogged, dbVars
<1>1. NothingClaimed' /\ DrainRunsAlone' /\ OutcomeCoherent'
  BY DEF NothingClaimed, DrainRunsAlone, OutcomeCoherent, Serving, Running
<1>2. UndecidedUntouched' /\ RowOrLog' /\ DeleteAfterLog'
  BY DEF UndecidedUntouched, RowOrLog, DeleteAfterLog
<1>3. CommandsTruthful' /\ JobsTruthful'
  BY DEF CommandsTruthful, JobsTruthful, Delivered
<1>4. LogTruthful' /\ LoggedBeforeReply'
  BY DEF LogTruthful, LoggedBeforeReply
<1> QED BY <1>1, <1>2, <1>3, <1>4

\* An open channel has a handler that waits.
LEMMA OpenMeansWaiting ==
    ASSUME AuditInv, NEW r \in Requests, rx[r] = "open"
    PROVE  handler[r] \in {"waiting", "settling"}
BY DEF AuditInv, GateInv, QueueInv, OneOwnerPerSender, NoZombieItems, NothingClaimed

-----------------------------------------------------------------------------
(* Hook and handler *)

\* Steps of a handler that leave the queue, the tables and the jobs alone.
LEMMA HandlerMovesAudit ==
    ASSUME AuditInv, GateInv', NEW r \in Requests,
           \/ HookConnect(r) \/ RejectIdentity(r) \/ RejectMode(r) \/ Admit(r)
           \/ RejectDuplicate(r) \/ Recording(r) \/ Reply(r) \/ HandlerDbError(r)
           \/ WaitResolved(r)
           \/ \E why \in {"dropped", "timeout", "gone"} : WaitOtherwise(r, why)
    PROVE  AuditInv'
<1> USE DEF AuditInv, OnRecord, CallsLogged, dbVars, envVars, queueVars, Goto, Respond, HangUp
<1>0. TypeOK /\ WaitCoherent /\ ReplyCoherent /\ JobsCoherent
  BY DEF GateInv
<1>1. UNCHANGED <<rx, claims, phase, dbVars, job, cmd>>
  BY DEF HookConnect, RejectIdentity, RejectMode, Admit, RejectDuplicate, Recording,
         Reply, HandlerDbError, WaitResolved, WaitOtherwise
<1>2. NothingClaimed'
  BY <1>1 DEF NothingClaimed
<1>3. RowOrLog' /\ DeleteAfterLog'
  BY <1>1 DEF RowOrLog, DeleteAfterLog
<1>4. CommandsTruthful'
  BY <1>1 DEF CommandsTruthful, Delivered
<1>5. CASE HookConnect(r) \/ Admit(r)
  <2> USE <1>5 DEF HookConnect, Admit
  <2>1. DrainRunsAlone'
    BY <1>0, <1>1 DEF DrainRunsAlone, Serving, Running, TypeOK
  <2>2. OutcomeCoherent'
    BY <1>0, <1>1 DEF OutcomeCoherent, TypeOK, ReplyCoherent
  <2>3. UndecidedUntouched'
    BY <1>0, <1>1 DEF UndecidedUntouched, TypeOK, ReplyCoherent, Early
  <2>4. JobsTruthful'
    BY <1>1 DEF JobsTruthful, Delivered
  <2>5. LogTruthful' /\ LoggedBeforeReply'
    BY <1>0, <1>1 DEF LogTruthful, LoggedBeforeReply, TypeOK, WaitCoherent, ReplyCoherent, Early
  <2> QED BY <1>2, <1>3, <1>4, <2>1, <2>2, <2>3, <2>4, <2>5
<1>6. CASE RejectIdentity(r) \/ RejectMode(r) \/ RejectDuplicate(r)
  <2> USE <1>6 DEF RejectIdentity, RejectMode, RejectDuplicate
  <2>1. DrainRunsAlone'
    BY <1>0, <1>1 DEF DrainRunsAlone, Serving, Running, TypeOK
  <2>2. OutcomeCoherent'
    BY <1>0, <1>1 DEF OutcomeCoherent, TypeOK, WaitCoherent, Early
  <2>3. UndecidedUntouched'
    BY <1>0, <1>1 DEF UndecidedUntouched, TypeOK, WaitCoherent, Early
  <2>4. JobsTruthful'
    BY <1>1 DEF JobsTruthful, Delivered
  <2>5. LogTruthful' /\ LoggedBeforeReply'
    BY <1>0, <1>1 DEF LogTruthful, LoggedBeforeReply, TypeOK, WaitCoherent, Early
  <2> QED BY <1>2, <1>3, <1>4, <2>1, <2>2, <2>3, <2>4, <2>5
<1>7. CASE Recording(r) \/ Reply(r) \/ HandlerDbError(r)
  <2> USE <1>7 DEF Recording, Reply, HandlerDbError
  <2>1. DrainRunsAlone'
    BY <1>0, <1>1 DEF DrainRunsAlone, Serving, Running, TypeOK
  <2>2. OutcomeCoherent'
    BY <1>0, <1>1 DEF OutcomeCoherent, TypeOK, Decisions
  <2>3. UndecidedUntouched'
    BY <1>0, <1>1 DEF UndecidedUntouched, TypeOK, Early
  <2>4. JobsTruthful'
    BY <1>1 DEF JobsTruthful, Delivered
  <2>5. LogTruthful' /\ LoggedBeforeReply'
    BY <1>0, <1>1 DEF LogTruthful, LoggedBeforeReply, TypeOK, WaitCoherent, Early
  <2> QED BY <1>2, <1>3, <1>4, <2>1, <2>2, <2>3, <2>4, <2>5
<1>8. CASE WaitResolved(r) \/ \E why \in {"dropped", "timeout", "gone"} : WaitOtherwise(r, why)
  <2> USE <1>8 DEF WaitResolved, WaitOtherwise, Fires
  <2>1. DrainRunsAlone'
    BY <1>0, <1>1 DEF DrainRunsAlone, Serving, Running, TypeOK
  <2>2. OutcomeCoherent'
    BY <1>0, <1>1 DEF OutcomeCoherent, TypeOK, ReplyCoherent, Decisions
  <2>3. UndecidedUntouched'
    BY <1>0, <1>1 DEF UndecidedUntouched, TypeOK, Early
  <2>4. JobsTruthful'
    BY <1>0, <1>1 DEF JobsTruthful, JobsCoherent, Delivered, TypeOK
  <2>5. LogTruthful' /\ LoggedBeforeReply'
    BY <1>0, <1>1 DEF LogTruthful, LoggedBeforeReply, TypeOK, WaitCoherent, Early
  <2> QED BY <1>2, <1>3, <1>4, <2>1, <2>2, <2>3, <2>4, <2>5
<1> QED BY <1>5, <1>6, <1>7, <1>8

LEMMA PersistPendingAudit ==
    ASSUME UniqueIds, AuditInv, GateInv', NEW r \in Requests, PersistPending(r)
    PROVE  AuditInv'
<1> USE DEF AuditInv, OnRecord, CallsLogged, PersistPending, Goto, envVars, queueVars
<1>0. TypeOK /\ WaitCoherent /\ ReplyCoherent
  BY DEF GateInv
<1>1. NothingClaimed' /\ CommandsTruthful' /\ JobsTruthful'
  BY DEF NothingClaimed, CommandsTruthful, JobsTruthful, Delivered
<1>2. RowOrLog' /\ DeleteAfterLog'
  BY DEF RowOrLog, DeleteAfterLog
<1>3. DrainRunsAlone'
  BY <1>0 DEF DrainRunsAlone, Serving, Running, TypeOK
<1>4. OutcomeCoherent'
  BY <1>0 DEF OutcomeCoherent, TypeOK
<1>5. UndecidedUntouched'
  BY <1>0 DEF UndecidedUntouched, UniqueIds, TypeOK, Early
<1>6. LogTruthful' /\ LoggedBeforeReply'
  BY <1>0 DEF LogTruthful, LoggedBeforeReply, TypeOK, WaitCoherent, Early
<1> QED BY <1>1, <1>2, <1>3, <1>4, <1>5, <1>6

LEMMA HandlerEnqueueAudit ==
    ASSUME AuditInv, GateInv', NEW r \in Requests, HandlerEnqueue(r)
    PROVE  AuditInv'
<1> USE DEF AuditInv, OnRecord, CallsLogged, HandlerEnqueue, Goto, envVars, dbVars
<1>0. TypeOK /\ QueueTypeOK /\ WaitCoherent
  BY DEF GateInv, TypeOK
<1>1. /\ rx' = [rx EXCEPT ![r] = "open"]
      /\ rx[r] = "none"
      /\ UNCHANGED claims
  BY DEF Enqueue, EnqueueInner
<1>2. NothingClaimed'
  BY <1>1 DEF NothingClaimed
<1>3. CommandsTruthful' /\ JobsTruthful'
  BY <1>0, <1>1 DEF CommandsTruthful, JobsTruthful, Delivered, QueueTypeOK
<1>4. RowOrLog' /\ DeleteAfterLog'
  BY <1>0, <1>1 DEF RowOrLog, DeleteAfterLog, UndecidedUntouched, QueueTypeOK, Early
<1>5. DrainRunsAlone'
  BY <1>0 DEF DrainRunsAlone, Serving, Running, TypeOK
<1>6. OutcomeCoherent'
  BY <1>0, <1>1 DEF OutcomeCoherent, TypeOK, QueueTypeOK
<1>7. UndecidedUntouched'
  BY <1>0, <1>1 DEF UndecidedUntouched, TypeOK, QueueTypeOK, Early
<1>8. LogTruthful' /\ LoggedBeforeReply'
  BY <1>0, <1>1 DEF LogTruthful, LoggedBeforeReply, TypeOK, QueueTypeOK
<1> QED BY <1>2, <1>3, <1>4, <1>5, <1>6, <1>7, <1>8

LEMMA SettleAudit ==
    ASSUME AuditInv, GateInv', NEW r \in Requests, Settle(r)
    PROVE  AuditInv'
<1> USE DEF AuditInv, OnRecord, CallsLogged, Settle, Goto, envVars, dbVars
<1>0. TypeOK /\ WaitCoherent /\ ReplyCoherent /\ JobsCoherent
  BY DEF GateInv
<1>1. /\ \A q \in Requests : rx'[q] = rx[q] \/ (rx[q] = "open" /\ rx'[q] = "dropped")
      /\ UNCHANGED claims
  BY FinalizeChannels DEF GateInv, FinalizeLocal
<1>2. NothingClaimed'
  BY <1>1 DEF NothingClaimed
<1>3. CommandsTruthful' /\ JobsTruthful'
  BY <1>0, <1>1 DEF CommandsTruthful, JobsTruthful, JobsCoherent, Delivered, TypeOK
<1>4. RowOrLog' /\ DeleteAfterLog'
  BY <1>1 DEF RowOrLog, DeleteAfterLog, UndecidedUntouched
<1>5. DrainRunsAlone'
  BY <1>0 DEF DrainRunsAlone, Serving, Running, TypeOK
<1>6. OutcomeCoherent'
  <2> SUFFICES ASSUME NEW q \in Requests
               PROVE  /\ waited'[q] = "none" /\ handler'[q] \notin {"waiting", "lost"} => rx'[q] = "none"
                      /\ handler'[q] = "deleting" => verdict'[q] = "ask"
                      /\ verdict'[q] = "ask" => rx'[q] = "ask"
                      /\ waited'[q] # "none" /\ resp'[q] \in Decisions => resp'[q] = verdict'[q]
    BY DEF OutcomeCoherent
  <2>1. CASE q = r
    BY <1>0, <2>1 DEF TypeOK, WaitCoherent, ReplyCoherent, Decisions
  <2>2. CASE q # r
    BY <1>0, <1>1, <2>2 DEF OutcomeCoherent, TypeOK
  <2> QED BY <2>1, <2>2
<1>7. UndecidedUntouched'
  BY <1>0, <1>1 DEF UndecidedUntouched, TypeOK, Early
<1>8. LogTruthful' /\ LoggedBeforeReply'
  BY <1>0, <1>1 DEF LogTruthful, LoggedBeforeReply, TypeOK
<1> QED BY <1>2, <1>3, <1>4, <1>5, <1>6, <1>7, <1>8

LEMMA DeletePendingAudit ==
    ASSUME UniqueIds, AuditInv, GateInv', NEW r \in Requests, DeletePending(r)
    PROVE  AuditInv'
<1> USE DEF AuditInv, OnRecord, CallsLogged, DeletePending, Goto, envVars, queueVars
<1>0. TypeOK /\ WaitCoherent /\ ReplyCoherent
  BY DEF GateInv
<1>1. NothingClaimed' /\ CommandsTruthful' /\ JobsTruthful'
  BY DEF NothingClaimed, CommandsTruthful, JobsTruthful, Delivered
<1>2. verdict[r] = "ask" /\ rx[r] = "ask"
  BY DEF OutcomeCoherent
<1>3. RowOrLog' /\ DeleteAfterLog'
  BY <1>2 DEF RowOrLog, DeleteAfterLog, UniqueIds
<1>4. DrainRunsAlone'
  BY <1>0 DEF DrainRunsAlone, Serving, Running, TypeOK
<1>5. OutcomeCoherent'
  BY <1>0 DEF OutcomeCoherent, TypeOK
<1>6. UndecidedUntouched'
  BY <1>0, <1>2 DEF UndecidedUntouched, UniqueIds, TypeOK, Early
<1>7. LogTruthful' /\ LoggedBeforeReply'
  BY <1>0, <1>2 DEF LogTruthful, LoggedBeforeReply, TypeOK
<1> QED BY <1>1, <1>3, <1>4, <1>5, <1>6, <1>7

\* A handler starts to write: its request is decided, so no rule about
\* undecided ones is broken.
LEMMA RecordOutcomeAudit ==
    ASSUME UniqueIds, AuditInv, GateInv', NEW r \in Requests, RecordOutcome(r)
    PROVE  AuditInv'
<1> USE DEF AuditInv, OnRecord, CallsLogged, RecordOutcome, Goto, StartJob, envVars, dbVars, queueVars
<1>0. TypeOK /\ WaitCoherent /\ ReplyCoherent /\ TypeOK'
  BY DEF GateInv
<1>1. NothingClaimed' /\ CommandsTruthful' /\ RowOrLog'
  BY DEF NothingClaimed, CommandsTruthful, Delivered, RowOrLog
<1>2. DrainRunsAlone'
  BY <1>0, GateAssumption DEF DrainRunsAlone, Serving, Running, TypeOK, Writers
<1>3. OutcomeCoherent'
  BY <1>0 DEF OutcomeCoherent, TypeOK
<1>4. UndecidedUntouched'
  <2>1. handler[r] = "settled" /\ rx[r] # "open"
    BY OpenMeansWaiting
  <2> QED BY <1>0, <2>1 DEF UndecidedUntouched, UniqueIds, TypeOK, Early, Writers
<1>5. JobsTruthful'
  BY <1>0, GateAssumption DEF JobsTruthful, Delivered, TypeOK, Writers
<1>6. DeleteAfterLog'
  BY <1>0 DEF DeleteAfterLog, TypeOK, Writers
<1>7. LogTruthful'
  BY <1>0 DEF LogTruthful, TypeOK
<1>8. LoggedBeforeReply'
  <2>1. CASE verdict[r] = "ask"
    BY <1>0, <2>1 DEF LoggedBeforeReply, TypeOK, WaitCoherent
  <2>2. CASE verdict[r] # "ask"
    <3>1. job'[r] = [stage |-> "select", id |-> IdOf[r], decision |-> verdict[r],
                     by |-> Attribution(r)]
      BY <1>0, <2>2 DEF TypeOK, Writers
    <3>2. job'[r] # None
      <4>1. IdOf[r] \in Ids /\ verdict[r] \in Decisions /\ Attribution(r) \in DecidedBy
        BY <1>0, QueueAssumption DEF WaitCoherent, Decided, Attribution, DecidedBy
      <4> QED BY <3>1, <4>1, GateAssumption DEF Jobs
    <3> QED BY <1>0, <2>2, <3>2 DEF LoggedBeforeReply, TypeOK, Writers
  <2> QED BY <2>1, <2>2
<1> QED BY <1>1, <1>2, <1>3, <1>4, <1>5, <1>6, <1>7, <1>8

-----------------------------------------------------------------------------
(* The audit writes *)

\* A writer is at work on a request only after it was decided.
LEMMA WriterFacts ==
    ASSUME AuditInv, NEW w \in Writers, job[w] # None, NEW r \in Requests,
           job[w].id = IdOf[r]
    PROVE  handler[r] \notin Early /\ rx[r] # "open"
BY DEF AuditInv, UndecidedUntouched

LEMMA JobSelectAudit ==
    ASSUME AuditInv, GateInv', NEW w \in Writers, JobSelect(w)
    PROVE  AuditInv'
<1> USE DEF AuditInv, OnRecord, CallsLogged, JobSelect, envVars, dbVars, procVars, queueVars
<1>0. TypeOK /\ TypeOK' /\ job[w] \in Jobs
  BY DEF GateInv, TypeOK
<1>1. /\ job'[w].id = job[w].id
      /\ job'[w].decision = job[w].decision
      /\ job'[w].stage = IF job[w].id \in pending_decisions THEN "insert" ELSE "delete"
      /\ \A v \in Writers : v # w => job'[v] = job[v]
      /\ job'[w] \in Jobs
  BY <1>0 DEF TypeOK, Jobs
<1>2. job'[w] # None
  BY <1>1, GateAssumption
<1>3. NothingClaimed' /\ CommandsTruthful' /\ RowOrLog' /\ OutcomeCoherent' /\ LogTruthful'
  BY DEF NothingClaimed, CommandsTruthful, Delivered, RowOrLog, OutcomeCoherent, LogTruthful
<1>4. DrainRunsAlone'
  BY <1>1 DEF DrainRunsAlone, Serving, Running, Writers
<1>5. UndecidedUntouched'
  BY <1>1 DEF UndecidedUntouched
<1>6. JobsTruthful'
  BY <1>1 DEF JobsTruthful, Delivered, Writers
<1>7. DeleteAfterLog'
  BY <1>1 DEF DeleteAfterLog, RowOrLog
<1>8. LoggedBeforeReply'
  BY <1>1, <1>2 DEF LoggedBeforeReply, Writers
<1> QED BY <1>3, <1>4, <1>5, <1>6, <1>7, <1>8

LEMMA JobInsertAudit ==
    ASSUME UniqueIds, AuditInv, GateInv', NEW w \in Writers, JobInsert(w)
    PROVE  AuditInv'
<1> USE DEF AuditInv, OnRecord, CallsLogged, JobInsert, envVars, procVars, queueVars
<1> DEFINE id == job[w].id
<1>0. TypeOK /\ WaitCoherent /\ JobsCoherent /\ job[w] \in Jobs
  BY DEF GateInv, TypeOK
<1>1. /\ job'[w].id = id
      /\ job'[w].decision = job[w].decision
      /\ \A v \in Writers : v # w => job'[v] = job[v]
      /\ job'[w] \in Jobs
  BY <1>0 DEF TypeOK, Jobs
<1>2. job'[w] # None
  BY <1>1, GateAssumption
<1>3. id \in Ids /\ [decision |-> job[w].decision, by |-> job[w].by] \in LogRows
  BY <1>0 DEF Jobs, LogRows
<1>4. /\ \A i \in Ids : i # id => decision_log'[i] = decision_log[i]
      /\ decision_log[id] # None => decision_log'[id] = decision_log[id]
      /\ decision_log[id] = None /\ decision_log'[id] # None =>
            /\ decision_log'[id].decision = job[w].decision
            /\ ~OnRecord(id)
      /\ decision_log'[id] = None => CallOf[id] \in CallsLogged
  BY <1>0, <1>3, GateAssumption DEF Recorded, TypeOK
<1>12. \A i \in Ids : OnRecord(i) => OnRecord(i)'
  <2>1. \A i \in Ids : decision_log[i] # None => decision_log'[i] # None
    BY <1>4
  <2>2. CallsLogged \subseteq CallsLogged'
    BY <2>1
  <2> QED BY <2>1, <2>2
<1>13. OnRecord(id)'
  <2>1. CallsLogged \subseteq CallsLogged'
    <3>1. \A i \in Ids : decision_log[i] # None => decision_log'[i] # None
      BY <1>4
    <3> QED BY <3>1
  <2> QED BY <1>4, <2>1
<1>5. NothingClaimed' /\ CommandsTruthful' /\ OutcomeCoherent'
  BY DEF NothingClaimed, CommandsTruthful, Delivered, OutcomeCoherent
<1>6. DrainRunsAlone'
  BY <1>1 DEF DrainRunsAlone, Serving, Running, Writers
<1>7. UndecidedUntouched'
  BY <1>1, <1>4, QueueAssumption, WriterFacts DEF UndecidedUntouched
<1>8. JobsTruthful'
  BY <1>1 DEF JobsTruthful, Delivered, Writers
<1>9. RowOrLog' /\ DeleteAfterLog'
  <2> HIDE DEF OnRecord, CallsLogged
  <2> QED BY <1>1, <1>12, <1>13, QueueAssumption DEF RowOrLog, DeleteAfterLog
<1>10. LogTruthful'
  <2> SUFFICES ASSUME NEW r \in Requests, IdOf[r] = id, decision_log[id] = None,
                      ~OnRecord(id),
                      rx[r] \in {"approve", "deny"},
                      handler[r] \notin {"failed", "lost"},
                      waited[r] \notin {"timeout", "gone"}
               PROVE  job[w].decision = rx[r]
    BY <1>4, QueueAssumption DEF LogTruthful
  <2>1. CASE w \in Clients
    BY <2>1 DEF JobsTruthful, Delivered, UniqueIds
  <2>2. CASE w \in Requests
    <3>1. w = r /\ handler[r] = "logging" /\ job[w].decision = verdict[r]
      BY <1>0, <2>2 DEF JobsTruthful, JobsCoherent, UniqueIds
    <3>2. waited[r] = "resolved"
      BY <1>0, <3>1 DEF TypeOK, WaitCoherent, Decided, Decisions
    <3> QED BY <1>0, <3>1, <3>2 DEF WaitCoherent
  <2>3. CASE w = Boot
    <3>1. ~Running(r)
      BY <2>3 DEF DrainRunsAlone, Serving
    <3>2. handler[r] = "closed"
      BY <3>1, <1>0 DEF Running, WaitCoherent, Early
    <3>3. waited[r] = "resolved"
      BY <1>0, <3>2 DEF TypeOK, OutcomeCoherent, WaitCoherent
    <3> QED BY <3>2, <3>3 DEF LoggedBeforeReply
  <2> QED BY <2>1, <2>2, <2>3 DEF Writers
<1>11. LoggedBeforeReply'
  <2> HIDE DEF OnRecord, CallsLogged
  <2> QED BY <1>1, <1>2, <1>12, QueueAssumption DEF LoggedBeforeReply, Writers
<1> QED BY <1>5, <1>6, <1>7, <1>8, <1>9, <1>10, <1>11

LEMMA JobDeleteAudit ==
    ASSUME AuditInv, GateInv', NEW w \in Writers, JobDelete(w)
    PROVE  AuditInv'
<1> USE DEF AuditInv, OnRecord, CallsLogged, JobDelete, envVars, procVars, queueVars
<1>0. TypeOK
  BY DEF GateInv
<1>1. /\ job'[w] = None
      /\ \A v \in Writers : v # w => job'[v] = job[v]
  BY <1>0 DEF TypeOK
<1>2. NothingClaimed' /\ CommandsTruthful' /\ OutcomeCoherent' /\ LogTruthful'
  BY DEF NothingClaimed, CommandsTruthful, Delivered, OutcomeCoherent, LogTruthful
<1>3. DrainRunsAlone'
  BY <1>1 DEF DrainRunsAlone, Serving, Running, Writers
<1>4. UndecidedUntouched'
  BY <1>1, WriterFacts DEF UndecidedUntouched, Early
<1>5. JobsTruthful'
  BY <1>1 DEF JobsTruthful, Delivered, Writers
<1>6. RowOrLog' /\ DeleteAfterLog'
  BY <1>1 DEF RowOrLog, DeleteAfterLog
<1>7. LoggedBeforeReply'
  BY <1>1 DEF LoggedBeforeReply, DeleteAfterLog, JobsTruthful, Writers
<1> QED BY <1>2, <1>3, <1>4, <1>5, <1>6, <1>7

\* A line imported meanwhile can only put more tool calls on record.
LEMMA IngestAudit ==
    ASSUME AuditInv, GateInv', NEW t \in ToolCalls, IngestLine(t)
    PROVE  AuditInv'
<1> USE DEF AuditInv, IngestLine, envVars, procVars, queueVars
<1>1. \A id \in Ids : OnRecord(id) => OnRecord(id)'
  BY DEF OnRecord, CallsLogged
<1>2. NothingClaimed' /\ DrainRunsAlone' /\ OutcomeCoherent'
  BY DEF NothingClaimed, DrainRunsAlone, OutcomeCoherent, Serving, Running
<1>3. UndecidedUntouched' /\ LogTruthful'
  BY DEF UndecidedUntouched, LogTruthful
<1>4. RowOrLog' /\ DeleteAfterLog' /\ LoggedBeforeReply'
  BY <1>1, QueueAssumption DEF RowOrLog, DeleteAfterLog, LoggedBeforeReply
<1>5. CommandsTruthful' /\ JobsTruthful'
  BY DEF CommandsTruthful, JobsTruthful, Delivered
<1> QED BY <1>2, <1>3, <1>4, <1>5

LEMMA JobFailAudit ==
    ASSUME AuditInv, GateInv', NEW w \in Writers, JobFail(w)
    PROVE  AuditInv'
<1> USE DEF AuditInv, OnRecord, CallsLogged, JobFail, HangUp, envVars, dbVars, queueVars
<1>0. TypeOK /\ WaitCoherent /\ JobsCoherent
  BY DEF GateInv
<1>1. /\ job'[w] = None
      /\ \A v \in Writers : v # w => job'[v] = job[v]
  BY <1>0 DEF TypeOK
<1>2. /\ \A r \in Requests : r # w => handler'[r] = handler[r] /\ resp'[r] = resp[r]
      /\ w \in Requests => /\ handler[w] = "logging"
                           /\ handler'[w] = "failed"
                           /\ resp'[w] = "eof"
  BY <1>0, GateAssumption DEF TypeOK, JobsCoherent
<1>3. NothingClaimed' /\ CommandsTruthful' /\ RowOrLog'
  BY DEF NothingClaimed, CommandsTruthful, Delivered, RowOrLog
<1>4. DrainRunsAlone'
  BY <1>1, <1>2 DEF DrainRunsAlone, Serving, Running, Writers
<1>5. OutcomeCoherent'
  BY <1>2 DEF OutcomeCoherent, Decisions
<1>6. UndecidedUntouched'
  BY <1>1, <1>2 DEF UndecidedUntouched, Early
<1>7. JobsTruthful' /\ DeleteAfterLog'
  BY <1>1 DEF JobsTruthful, DeleteAfterLog, Delivered, Writers
<1>8. LogTruthful'
  BY <1>2 DEF LogTruthful
<1>9. LoggedBeforeReply'
  BY <1>1, <1>2 DEF LoggedBeforeReply, Writers
<1> QED BY <1>3, <1>4, <1>5, <1>6, <1>7, <1>8, <1>9

-----------------------------------------------------------------------------
(* The reviewers *)

\* Steps of a reviewer that change only its command.
LEMMA CommandAudit ==
    ASSUME AuditInv, GateInv', CommandsTruthful',
           UNCHANGED <<queueVars, procVars, dbVars, phase, job>>
    PROVE  AuditInv'
<1> USE DEF AuditInv, OnRecord, CallsLogged, queueVars, procVars, dbVars
<1>1. NothingClaimed' /\ DrainRunsAlone' /\ OutcomeCoherent'
  BY DEF NothingClaimed, DrainRunsAlone, OutcomeCoherent, Serving, Running
<1>2. UndecidedUntouched' /\ RowOrLog' /\ DeleteAfterLog' /\ JobsTruthful'
  BY DEF UndecidedUntouched, RowOrLog, DeleteAfterLog, JobsTruthful, Delivered
<1>3. LogTruthful' /\ LoggedBeforeReply'
  BY DEF LogTruthful, LoggedBeforeReply
<1> QED BY <1>1, <1>2, <1>3

\* A command that begins has nothing to write yet.
LEMMA BeginAudit ==
    ASSUME AuditInv, NEW c \in Clients, NEW op \in Ops, NEW ids, NEW rule,
           Begin(c, op, ids, "resolve", rule), UNCHANGED rx
    PROVE  CommandsTruthful'
BY DEF AuditInv, GateInv, TypeOK, Begin, CommandsTruthful, Delivered

LEMMA LookAudit ==
    ASSUME AuditInv, GateInv', NEW c \in Clients,
           \/ \E id \in Ids : \/ LookApprove(c, id) \/ LookPermission(c, id)
                              \/ \E op \in {"deny", "ask"} : LookRefuse(c, op, id)
           \/ \E F \in Filters, op \in {"approve_all", "deny_all"} : LookBulk(c, op, F)
    PROVE  AuditInv'
<1>1. UNCHANGED <<queueVars, procVars, dbVars, envVars, job>>
  BY DEF LookApprove, LookPermission, LookRefuse, LookBulk
<1>2. \E op \in Ops, ids \in SUBSET Ids, rule \in Tools \cup {None} :
          Begin(c, op, ids, "resolve", rule)
  <2>1. Snapshot \subseteq Requests /\ pending_items \subseteq Requests
    BY DEF Snapshot, AuditInv, GateInv, QueueInv, QueueTypeOK
  <2>2. ASSUME NEW id \in Ids, LookApprove(c, id)
        PROVE  \E rule \in Tools \cup {None} : Begin(c, "approve", {id}, "resolve", rule)
    <3>1. PICK rule \in {None} \cup {ToolOf[r] : r \in Peek(id)} :
              Begin(c, "approve", {id}, "resolve", rule)
      BY <2>2 DEF LookApprove
    <3>2. rule \in Tools \cup {None}
      BY <2>1, <3>1, GateAssumption DEF Peek
    <3> QED BY <3>1, <3>2
  <2>3. ASSUME NEW F \in Filters, NEW op \in {"approve_all", "deny_all"}, LookBulk(c, op, F)
        PROVE  \E ids \in SUBSET Ids : Begin(c, op, ids, "resolve", None)
    <3> DEFINE ids == {IdOf[r] : r \in {r \in Snapshot \cap F :
                                          op = "approve_all" => ~Gated(c, r)}}
    <3>1. ids \in SUBSET Ids
      BY <2>1, QueueAssumption
    <3>2. Begin(c, op, ids, "resolve", None)
      BY <2>3 DEF LookBulk
    <3> QED BY <3>1, <3>2
  <2>4. CASE \E id \in Ids : LookApprove(c, id)
    BY <2>2, <2>4 DEF LookApprove
  <2>5. CASE \E id \in Ids : LookPermission(c, id)
    BY <2>5 DEF LookPermission
  <2>6. CASE \E id \in Ids, op \in {"deny", "ask"} : LookRefuse(c, op, id)
    BY <2>6 DEF LookRefuse
  <2>7. CASE \E F \in Filters, op \in {"approve_all", "deny_all"} : LookBulk(c, op, F)
    BY <2>3, <2>7 DEF LookBulk
  <2> QED BY <2>4, <2>5, <2>6, <2>7
<1>3. CommandsTruthful'
  BY <1>1, <1>2, BeginAudit DEF queueVars
<1> QED BY <1>1, <1>3, CommandAudit DEF envVars

\* A resolve completes open channels only, and those nobody has written about.
LEMMA ResolvingAudit ==
    ASSUME AuditInv, GateInv', CommandsTruthful',
           NEW S \in SUBSET Ids, NEW d \in Decisions, ResolveIds(S, d),
           UNCHANGED <<procVars, dbVars, envVars, job>>
    PROVE  AuditInv'
<1> USE DEF AuditInv, OnRecord, CallsLogged, procVars, dbVars, envVars
<1>0. WaitCoherent
  BY DEF GateInv
<1>1. /\ \A r \in Requests : rx'[r] = rx[r] \/ (rx[r] = "open" /\ rx'[r] = d)
      /\ UNCHANGED claims
      /\ d # "open"
  BY ResolveChannels DEF GateInv, ResolveIds, Decisions
<1>2. NothingClaimed' /\ DrainRunsAlone'
  BY <1>1 DEF NothingClaimed, DrainRunsAlone, Serving, Running
<1>3. OutcomeCoherent'
  BY <1>1 DEF OutcomeCoherent
<1>4. UndecidedUntouched'
  BY <1>1 DEF UndecidedUntouched
<1>5. JobsTruthful'
  BY <1>1 DEF JobsTruthful, Delivered
<1>6. RowOrLog' /\ DeleteAfterLog'
  BY <1>1 DEF RowOrLog, DeleteAfterLog, UndecidedUntouched
<1>7. LogTruthful'
  BY <1>1 DEF LogTruthful, UndecidedUntouched
<1>8. LoggedBeforeReply'
  BY <1>0, <1>1 DEF LoggedBeforeReply, WaitCoherent, Decisions
<1> QED BY <1>2, <1>3, <1>4, <1>5, <1>6, <1>7, <1>8

\* Whatever can be resolved is delivered.
LEMMA ResolveDelivers ==
    ASSUME QueueInv, NEW S \in SUBSET Ids, NEW d \in {"approve", "deny"},
           ResolveIds(S, d), NEW id \in S, CanResolve(id)
    PROVE  \E r \in Requests : IdOf[r] = id /\ rx'[r] = d
<1>1. pending_senders[id] \in Requests /\ IdOf[pending_senders[id]] = id
  BY DEF CanResolve, QueueInv, QueueTypeOK, SendersMatchItems
<1>2. rx'[pending_senders[id]] = d
  BY <1>1 DEF ResolveIds
<1> QED BY <1>1, <1>2

LEMMA ApproveAllTuiAudit ==
    ASSUME AuditInv, GateInv', NEW c \in Clients, NEW F \in Filters, ApproveAllTui(c, F)
    PROVE  AuditInv'
<1>0. QueueInv /\ TypeOK
  BY DEF AuditInv, GateInv
<1>1. BulkTargets(F) \in SUBSET Ids
  BY <1>0, BulkTargetsAreIds DEF QueueInv
<1>2. ResolveIds(BulkTargets(F), "approve")
  BY DEF ApproveAllTui, ResolveAll
<1>3. \A id \in BulkTargets(F) : CanResolve(id)
  BY <1>0, QueueAssumption
     DEF BulkTargets, CanResolve, QueueInv, QueueTypeOK, SendersMatchItems
<1>4. \A id \in BulkTargets(F) : \E r \in Requests : IdOf[r] = id /\ rx'[r] = "approve"
  BY <1>0, <1>1, <1>2, <1>3, ResolveDelivers
<1>5. \A r \in Requests : rx'[r] = rx[r] \/ rx[r] = "open"
  BY <1>0, <1>1, <1>2, ResolveChannels DEF Decisions
<1>6. DecisionOf("approve_all") = "approve"
  BY DEF DecisionOf
<1>7. cmd' = [cmd EXCEPT ![c] = [op |-> "approve_all", stage |-> "persist",
                                 ids |-> BulkTargets(F), rule |-> None]]
      /\ "approve_all" \in Ops
  BY DEF ApproveAllTui, Begin
<1>8. CommandsTruthful'
  <2> SUFFICES ASSUME NEW k \in Clients, cmd'[k] # None
               PROVE  /\ cmd'[k].op \in Ops
                      /\ cmd'[k].stage = "persist" =>
                            \A id \in cmd'[k].ids : Delivered(id, DecisionOf(cmd[k].op))'
    BY DEF CommandsTruthful
  <2>1. CASE k = c
    <3>1. cmd'[k].op = "approve_all" /\ cmd'[k].ids = BulkTargets(F)
      BY <1>0, <1>7, <2>1 DEF TypeOK
    <3> QED BY <1>4, <1>6, <1>7, <3>1 DEF Delivered, DecisionOf
  <2>2. CASE k # c
    <3>1. cmd'[k] = cmd[k]
      BY <1>0, <1>7, <2>2 DEF TypeOK
    <3> QED BY <1>5, <3>1 DEF AuditInv, CommandsTruthful, Delivered, DecisionOf
  <2> QED BY <2>1, <2>2
<1> QED BY <1>1, <1>2, <1>8, ResolvingAudit DEF ApproveAllTui, Decisions

\* Without ApprovePermission a command writes only what it resolved.
LEMMA ResolveCommandAudit ==
    ASSUME "approve_permission" \notin Ops,
           AuditInv, GateInv', NEW c \in Clients, ResolveCommand(c)
    PROVE  AuditInv'
<1> DEFINE op   == cmd[c].op
           ids  == cmd[c].ids
           todo == ToPersist(op, ids)
<1>0. QueueInv /\ TypeOK
  BY DEF AuditInv, GateInv
<1>1. cmd[c] # None /\ cmd[c] \in Commands /\ op \in Ops /\ op # "approve_permission"
  BY <1>0 DEF ResolveCommand, TypeOK, AuditInv, CommandsTruthful
<1>2. ids \in SUBSET Ids /\ op \in AllOps
  BY <1>1 DEF Commands
<1>3. ResolveIds(ids, DecisionOf(op))
  BY DEF ResolveCommand
<1>4. DecisionOf(op) \in Decisions
  BY <1>2, DecisionOfType
<1>5. \A id \in todo : /\ DecisionOf(op) \in {"approve", "deny"}
                       /\ \E r \in Requests : IdOf[r] = id /\ rx'[r] = DecisionOf(op)
  <2> SUFFICES ASSUME NEW id \in todo
               PROVE  /\ DecisionOf(op) \in {"approve", "deny"}
                      /\ \E r \in Requests : IdOf[r] = id /\ rx'[r] = DecisionOf(op)
    OBVIOUS
  <2>1. op # "ask" /\ id \in ids /\ CanResolve(id)
    BY <1>1 DEF ToPersist
  <2>2. DecisionOf(op) \in {"approve", "deny"}
    BY <1>2, <2>1 DEF DecisionOf
  <2> QED BY <1>0, <1>2, <1>3, <2>1, <2>2, ResolveDelivers
<1>6. \A r \in Requests : rx'[r] = rx[r] \/ rx[r] = "open"
  BY <1>0, <1>2, <1>3, <1>4, ResolveChannels
<1>7. CommandsTruthful'
  <2> SUFFICES ASSUME NEW k \in Clients, cmd'[k] # None
               PROVE  /\ cmd'[k].op \in Ops
                      /\ cmd'[k].stage = "persist" =>
                            \A id \in cmd'[k].ids : Delivered(id, DecisionOf(cmd[k].op))'
    BY DEF CommandsTruthful
  <2>1. CASE k = c
    <3>1. cmd'[c] = [cmd[c] EXCEPT !.stage = "persist", !.ids = todo]
      BY <1>0, <2>1 DEF ResolveCommand, TypeOK
    <3>2. cmd'[c].op = op /\ cmd'[c].ids = todo
      BY <1>1, <3>1 DEF Commands
    <3> QED BY <1>1, <1>5, <2>1, <3>2 DEF Delivered, DecisionOf
  <2>2. CASE k # c
    <3>1. cmd'[k] = cmd[k]
      BY <1>0, <2>2 DEF ResolveCommand, TypeOK
    <3> QED BY <1>6, <3>1 DEF AuditInv, CommandsTruthful, Delivered, DecisionOf
  <2> QED BY <2>1, <2>2
<1> QED BY <1>2, <1>3, <1>4, <1>7, ResolvingAudit DEF ResolveCommand

\* A reviewer starts to write what it delivered.
LEMMA EagerPersistAudit ==
    ASSUME UniqueIds, AuditInv, GateInv', NEW c \in Clients, NEW id \in Ids,
           EagerPersist(c, id)
    PROVE  AuditInv'
<1> USE DEF AuditInv, OnRecord, CallsLogged, EagerPersist, StartJob, queueVars, procVars, dbVars, envVars
<1>0. TypeOK /\ WaitCoherent /\ cmd[c] \in Commands
  BY DEF GateInv, TypeOK
<1>1. /\ job'[c] = [stage |-> "select", id |-> id,
                    decision |-> DecisionOf(cmd[c].op), by |-> "human"]
      /\ \A v \in Writers : v # c => job'[v] = job[v]
  BY <1>0 DEF TypeOK, Writers
<1>2. /\ cmd'[c].op = cmd[c].op
      /\ cmd'[c].stage = "persist"
      /\ cmd'[c].ids = cmd[c].ids \ {id}
      /\ \A k \in Clients : k # c => cmd'[k] = cmd[k]
  BY <1>0 DEF TypeOK, Commands
<1>3. Delivered(id, DecisionOf(cmd[c].op))
  BY DEF CommandsTruthful
<1>4. NothingClaimed' /\ OutcomeCoherent' /\ RowOrLog' /\ LogTruthful'
  BY DEF NothingClaimed, OutcomeCoherent, RowOrLog, LogTruthful
<1>5. DrainRunsAlone'
  BY <1>1, GateAssumption DEF DrainRunsAlone, Serving, Running, Writers
<1>6. UndecidedUntouched'
  <2>1. \A r \in Requests : IdOf[r] = id => handler[r] \notin Early /\ rx[r] # "open"
    BY <1>0, <1>3 DEF Delivered, UniqueIds, WaitCoherent
  <2> QED BY <1>1, <2>1 DEF UndecidedUntouched
<1>7. CommandsTruthful'
  BY <1>2 DEF CommandsTruthful, Delivered, DecisionOf
<1>8. JobsTruthful'
  BY <1>1, <1>3, GateAssumption DEF JobsTruthful, Delivered, Writers
<1>9. DeleteAfterLog'
  BY <1>1 DEF DeleteAfterLog
<1>10. LoggedBeforeReply'
  BY <1>1, GateAssumption DEF LoggedBeforeReply, Writers
<1> QED BY <1>4, <1>5, <1>6, <1>7, <1>8, <1>9, <1>10

LEMMA OtherClientAudit ==
    ASSUME AuditInv, GateInv', NEW c \in Clients,
           FinishCommand(c) \/ MarkDeviceFresh(c) \/ GraceLapses(c)
    PROVE  AuditInv'
<1>1. UNCHANGED <<queueVars, procVars, dbVars, phase, job>>
  BY DEF FinishCommand, MarkDeviceFresh, GraceLapses
<1>2. \A k \in Clients : cmd'[k] = cmd[k] \/ cmd'[k] = None
  BY DEF FinishCommand, MarkDeviceFresh, GraceLapses, AuditInv, GateInv, TypeOK
<1>3. CommandsTruthful'
  BY <1>1, <1>2 DEF AuditInv, CommandsTruthful, Delivered, DecisionOf, queueVars
<1> QED BY <1>1, <1>3, CommandAudit

-----------------------------------------------------------------------------
(* The daemon process *)

\* While the daemon drains, a row that is left belongs to a request that was
\* enqueued, or whose handler was lost.
LEMMA DrainRowAudit ==
    ASSUME AuditInv, GateInv', NEW id \in Ids, DrainRow(id)
    PROVE  AuditInv'
<1> USE DEF AuditInv, OnRecord, CallsLogged, DrainRow, StartJob, queueVars, procVars, dbVars, envVars
<1>0. TypeOK
  BY DEF GateInv
<1>1. /\ job'[Boot].id = id
      /\ job'[Boot].stage = "select"
      /\ \A v \in Writers : v # Boot => job'[v] = job[v]
  BY <1>0 DEF TypeOK, Writers
<1>2. NothingClaimed' /\ OutcomeCoherent' /\ RowOrLog' /\ LogTruthful' /\ CommandsTruthful'
  BY DEF NothingClaimed, OutcomeCoherent, RowOrLog, LogTruthful, CommandsTruthful, Delivered
<1>3. DrainRunsAlone'
  BY DEF DrainRunsAlone, Serving, Running
<1>4. UndecidedUntouched'
  <2>1. \A r \in Requests : IdOf[r] = id => handler[r] \notin Early /\ rx[r] # "open"
    BY OpenMeansWaiting DEF DrainRunsAlone, Serving, Running, UndecidedUntouched, Early
  <2> QED BY <1>1, <2>1 DEF UndecidedUntouched
<1>5. JobsTruthful'
  BY <1>1, GateAssumption DEF JobsTruthful, Delivered, Writers
<1>6. DeleteAfterLog'
  BY <1>1 DEF DeleteAfterLog
<1>7. LoggedBeforeReply'
  BY <1>1, GateAssumption DEF LoggedBeforeReply, Writers
<1> QED BY <1>2, <1>3, <1>4, <1>5, <1>6, <1>7

LEMMA DrainEndsAudit ==
    ASSUME AuditInv, GateInv', Restart \/ Bind \/ DrainFails
    PROVE  AuditInv'
<1> USE DEF AuditInv, OnRecord, CallsLogged, Restart, Bind, DrainFails, queueVars, procVars, dbVars
<1>0. TypeOK
  BY DEF GateInv
<1>1. \A v \in Writers : job'[v] = job[v] \/ (v = Boot /\ job'[v] = None)
  BY <1>0 DEF TypeOK
<1>2. NothingClaimed' /\ OutcomeCoherent' /\ RowOrLog' /\ LogTruthful' /\ CommandsTruthful'
  BY DEF NothingClaimed, OutcomeCoherent, RowOrLog, LogTruthful, CommandsTruthful, Delivered
<1>3. DrainRunsAlone'
  BY <1>0 DEF DrainRunsAlone, Serving, Running, TypeOK, Writers
<1>4. UndecidedUntouched' /\ DeleteAfterLog'
  BY <1>1 DEF UndecidedUntouched, DeleteAfterLog
<1>5. JobsTruthful'
  BY <1>1, GateAssumption DEF JobsTruthful, Delivered, Writers
<1>6. LoggedBeforeReply'
  BY <1>1, GateAssumption DEF LoggedBeforeReply, Writers
<1> QED BY <1>2, <1>3, <1>4, <1>5, <1>6

LEMMA CrashAudit ==
    ASSUME AuditInv, GateInv', Crash
    PROVE  AuditInv'
<1> USE DEF AuditInv, OnRecord, CallsLogged, Crash, Running, dbVars
<1>0. TypeOK /\ WaitCoherent /\ ReplyCoherent /\ QueueTypeOK
  BY DEF GateInv, TypeOK
<1>1. NothingClaimed' /\ CommandsTruthful' /\ JobsTruthful' /\ DeleteAfterLog'
  BY DEF NothingClaimed, CommandsTruthful, JobsTruthful, DeleteAfterLog, Writers
<1>2. DrainRunsAlone'
  BY DEF DrainRunsAlone, Serving, Writers
<1>3. OutcomeCoherent'
  BY <1>0 DEF OutcomeCoherent, Decisions
<1>4. UndecidedUntouched'
  BY <1>0 DEF UndecidedUntouched, Early
<1>5. RowOrLog'
  BY <1>0 DEF RowOrLog, UndecidedUntouched
<1>6. LogTruthful' /\ LoggedBeforeReply'
  BY <1>0 DEF LogTruthful, LoggedBeforeReply, WaitCoherent, Decisions
<1> QED BY <1>1, <1>2, <1>3, <1>4, <1>5, <1>6

-----------------------------------------------------------------------------
(* Theorem *)

LEMMA AuditInit == Init => AuditInv
<1> SUFFICES ASSUME Init PROVE AuditInv
  OBVIOUS
<1>1. GateInv
  BY GateInitInv
<1>2. /\ NothingClaimed /\ DrainRunsAlone /\ OutcomeCoherent /\ UndecidedUntouched
      /\ CommandsTruthful /\ JobsTruthful /\ RowOrLog /\ DeleteAfterLog
      /\ LogTruthful /\ LoggedBeforeReply
  BY QueueAssumption
     DEF Init, QueueInit, NothingClaimed, DrainRunsAlone, OutcomeCoherent,
         UndecidedUntouched, CommandsTruthful, JobsTruthful, RowOrLog, DeleteAfterLog,
         LogTruthful, LoggedBeforeReply, Serving, Writers, Decisions
<1> QED BY <1>1, <1>2 DEF AuditInv

LEMMA AuditNext ==
    ASSUME UniqueIds, "approve_permission" \notin Ops
    PROVE  AuditInv /\ [Next]_vars => AuditInv'
<1> SUFFICES ASSUME AuditInv, [Next]_vars PROVE AuditInv'
  OBVIOUS
<1>0. GateInv'
  BY GateNextInv DEF AuditInv
<1>1. ASSUME NEW r \in Requests,
             HookStep(r) \/ HookKill(r) \/ HandlerStep(r) \/ HandlerDbError(r)
      PROVE  AuditInv'
  <2>1. CASE HookModeOff(r) \/ HookAutoApprove(r) \/ HookUnreachable(r)
             \/ HookRead(r) \/ HookKill(r)
    <3>1. UNCHANGED <<rx, claims, handler, waited, verdict, resp, phase, dbVars, job, cmd>>
      BY <2>1 DEF HookModeOff, HookAutoApprove, HookUnreachable, HookRead, HookKill,
                  queueVars, envVars
    <3> QED BY <1>0, <3>1, QuietAudit
  <2>2. CASE HookConnect(r) \/ HandlerStep(r) \/ HandlerDbError(r)
    BY <1>0, <2>2, HandlerMovesAudit, PersistPendingAudit, HandlerEnqueueAudit,
       SettleAudit, DeletePendingAudit, RecordOutcomeAudit
       DEF HandlerStep
  <2> QED BY <1>1, <2>1, <2>2 DEF HookStep
<1>2. ASSUME NEW c \in Clients, ClientStep(c) PROVE AuditInv'
  <2>1. Shown \subseteq Ids
    BY QueueAssumption DEF Shown
  <2>2. CASE \/ \E id \in Shown : \/ LookApprove(c, id) \/ LookPermission(c, id)
                                  \/ \E op \in {"deny", "ask"} : LookRefuse(c, op, id)
             \/ \E F \in Filters, op \in {"approve_all", "deny_all"} : LookBulk(c, op, F)
    BY <1>0, <2>1, <2>2, LookAudit
  <2>3. CASE \E F \in Filters : ApproveAllTui(c, F)
    BY <1>0, <2>3, ApproveAllTuiAudit
  <2>4. CASE ResolveCommand(c)
    BY <1>0, <2>4, ResolveCommandAudit
  <2>5. CASE \E id \in Ids : EagerPersist(c, id)
    BY <1>0, <2>5, EagerPersistAudit
  <2>6. CASE FinishCommand(c) \/ MarkDeviceFresh(c) \/ GraceLapses(c)
    BY <1>0, <2>6, OtherClientAudit
  <2> QED BY <1>2, <2>2, <2>3, <2>4, <2>5, <2>6 DEF ClientStep
<1>3. ASSUME NEW w \in Writers, JobStep(w) \/ JobFail(w) PROVE AuditInv'
  BY <1>0, <1>3, JobSelectAudit, JobInsertAudit, JobDeleteAudit, JobFailAudit DEF JobStep
<1>4. CASE DaemonStep
  BY <1>0, <1>4, DrainRowAudit, DrainEndsAudit DEF DaemonStep
<1>7. CASE \E t \in ToolCalls : IngestLine(t)
  BY <1>0, <1>7, IngestAudit
<1>5. CASE SetMode \/ UNCHANGED vars
  <2>1. UNCHANGED <<rx, claims, handler, waited, verdict, resp, phase, dbVars, job, cmd>>
    BY <1>5 DEF SetMode, vars, queueVars, procVars, envVars
  <2> QED BY <1>0, <2>1, QuietAudit
<1>6. CASE Crash
  BY <1>0, <1>6, CrashAudit
<1> QED BY <1>1, <1>2, <1>3, <1>4, <1>5, <1>6, <1>7 DEF Next

\* A hook that was told a reviewer's decision finds exactly that decision in
\* the audit log, whoever wrote the row and whatever failed, crashed or was
\* imported between, or the log has another row of its tool call; provided ids
\* are distinct and no client uses ApprovePermission (which logs without
\* looking whether its resolve reached anybody).
THEOREM AuditTruthful ==
    ASSUME UniqueIds, "approve_permission" \notin Ops
    PROVE  Spec => []AuditMatchesReply
<1>1. AuditInv => AuditMatchesReply
  <2> SUFFICES ASSUME AuditInv, NEW r \in Requests,
                      waited[r] = "resolved", resp[r] \in {"approve", "deny"}
               PROVE  \/ /\ decision_log[IdOf[r]] # None
                         /\ decision_log[IdOf[r]].decision = resp[r]
                      \/ /\ decision_log[IdOf[r]] = None
                         /\ CallOf[IdOf[r]] \in CallsLogged
    BY DEF AuditMatchesReply
  <2>1. handler[r] = "closed"
    BY DEF AuditInv, GateInv, ReplyCoherent, Decisions
  <2>2. resp[r] = verdict[r] /\ verdict[r] = rx[r]
    BY DEF AuditInv, GateInv, WaitCoherent, OutcomeCoherent, Decisions
  <2> QED BY <2>1, <2>2 DEF AuditInv, OnRecord, LoggedBeforeReply, LogTruthful
<1>2. AuditInv /\ [Next]_vars => AuditInv'
  BY AuditNext
<1> QED BY <1>1, <1>2, AuditInit, PTL DEF Spec

-----------------------------------------------------------------------------
(* Every pending row has a handler that answers for it.                      *)

\* Steps that touch neither a handler nor the table.
LEMMA RowsFrame ==
    ASSUME RowInv, GateInv', UNCHANGED <<handler, phase, pending_decisions>>,
           \A r \in Requests : job'[r] = job[r],
           \A id \in Ids : claimed_items'[id] = None
    PROVE  RowInv'
BY DEF RowInv, OwnsRow

\* A step of one handler, or of its write: it still owns its row afterwards,
\* or the row is gone, or it did not own one before.
LEMMA RowsMove ==
    ASSUME UniqueIds, RowInv, GateInv', NEW r \in Requests,
           \A q \in Requests : q # r => handler'[q] = handler[q] /\ job'[q] = job[q],
           job'[r] # None => job'[r].id = IdOf[r],
           phase' = phase,
           \A id \in Ids : claimed_items'[id] = None,
           pending_decisions' \subseteq pending_decisions \cup {IdOf[r]},
           \/ OwnsRow(r)'
           \/ IdOf[r] \notin pending_decisions'
           \/ ~OwnsRow(r) /\ pending_decisions' \subseteq pending_decisions
    PROVE  RowInv'
<1>1. ASSUME phase = "up", NEW id \in pending_decisions'
      PROVE  \E q \in Requests : IdOf[q] = id /\ OwnsRow(q)'
  <2>1. CASE id = IdOf[r] /\ OwnsRow(r)'
    BY <2>1
  <2>2. CASE id # IdOf[r] \/ ~OwnsRow(r)'
    <3>1. id \in pending_decisions
      BY <1>1, <2>2
    <3>2. PICK q \in Requests : IdOf[q] = id /\ OwnsRow(q)
      BY <1>1, <3>1 DEF RowInv
    <3>3. q # r
      BY <1>1, <2>2, <3>2
    <3> QED BY <3>2, <3>3 DEF OwnsRow
  <2> QED BY <2>1, <2>2
<1> QED BY <1>1 DEF RowInv, OwnsRow

LEMMA HandlerRows ==
    ASSUME UniqueIds, RowInv, GateInv', NEW r \in Requests,
           HookConnect(r) \/ HandlerStep(r) \/ HandlerDbError(r)
    PROVE  RowInv'
<1>0. TypeOK /\ WaitCoherent /\ QueueInv
  BY DEF RowInv, GateInv
<1> USE DEF Goto, HangUp, Respond, queueVars, envVars, dbVars, procVars
<1>1. /\ \A q \in Requests : q # r => handler'[q] = handler[q]
      /\ phase' = phase
      /\ \A id \in Ids : claimed_items[id] = None
      /\ r \in Writers /\ IdOf[r] \in Ids
  BY <1>0, QueueAssumption DEF HookConnect, HandlerStep, HandlerDbError, RejectIdentity, RejectMode,
     Admit, PersistPending, HandlerEnqueue, RejectDuplicate, WaitResolved, WaitOtherwise,
     Settle, RecordOutcome, DeletePending, Recording, Reply, TypeOK, Writers, RowInv
<1>2. CASE HookConnect(r) \/ RejectIdentity(r) \/ RejectMode(r) \/ Admit(r)
           \/ Recording(r) \/ Reply(r)
  <2>1. UNCHANGED <<job, claimed_items, pending_decisions>>
    BY <1>2 DEF HookConnect, RejectIdentity, RejectMode, Admit, Recording, Reply
  <2>2. ~OwnsRow(r)
    BY <1>0, <1>2 DEF HookConnect, RejectIdentity, RejectMode, Admit, Recording, Reply,
       OwnsRow, Owners, RowInv, GateInv, ReplyCoherent
  <2> QED BY <1>1, <2>1, <2>2, RowsMove DEF RowInv
<1>3. CASE HandlerDbError(r) \/ WaitResolved(r)
           \/ \E why \in {"dropped", "timeout", "gone"} : WaitOtherwise(r, why)
  <2>1. UNCHANGED <<job, claimed_items, pending_decisions>>
    BY <1>3 DEF HandlerDbError, WaitResolved, WaitOtherwise
  <2>2. handler'[r] \in {"failed", "settled", "settling"}
    BY <1>0, <1>3 DEF HandlerDbError, WaitResolved, WaitOtherwise, TypeOK
  <2>3. OwnsRow(r)'
    BY <2>2 DEF OwnsRow, Owners
  <2> QED BY <1>1, <2>1, <2>3, RowsMove DEF RowInv
<1>4. CASE PersistPending(r)
  <2>1. UNCHANGED <<job, claimed_items>> /\ pending_decisions' = pending_decisions \cup {IdOf[r]}
    BY <1>4 DEF PersistPending
  <2>2. OwnsRow(r)'
    BY <1>0, <1>4 DEF PersistPending, TypeOK, OwnsRow, Owners
  <2> QED BY <1>1, <2>1, <2>2, RowsMove DEF RowInv
<1>5. CASE HandlerEnqueue(r) \/ Settle(r)
  <2>1. UNCHANGED <<job, pending_decisions>>
    BY <1>5 DEF HandlerEnqueue, Settle
  <2>2. \A id \in Ids : claimed_items'[id] = None
    BY <1>0, <1>1, <1>5 DEF HandlerEnqueue, Settle, Enqueue, EnqueueInner, FinalizeLocal,
       QueueInv, QueueTypeOK
  <2>3. OwnsRow(r)'
    BY <1>0, <1>5 DEF HandlerEnqueue, Settle, TypeOK, OwnsRow, Owners
  <2> QED BY <1>1, <2>1, <2>2, <2>3, RowsMove DEF RowInv
<1>6. CASE RejectDuplicate(r)
  <2>1. handler[r] = "persisted" /\ IsDuplicate(IdOf[r])
    BY <1>6 DEF RejectDuplicate
  <2>2. pending_senders[IdOf[r]] # None
    BY <1>0, <1>1, <2>1 DEF IsDuplicate, QueueInv, IdsAccountedOnce
  <2>3. pending_senders[IdOf[r]] = r /\ r \in pending_items
    BY <1>0, <1>1, <2>2 DEF QueueInv, QueueTypeOK, SendersMatchItems, UniqueIds
  <2>4. rx[r] = "open"
    BY <1>0, <2>3 DEF QueueInv, OneOwnerPerSender
  <2> QED BY <1>0, <2>1, <2>4 DEF WaitCoherent, Early
<1>7. CASE RecordOutcome(r)
  <2>1. UNCHANGED <<claimed_items, pending_decisions>>
    BY <1>7 DEF RecordOutcome
  <2>2. CASE verdict[r] = "ask"
    <3>1. UNCHANGED job /\ OwnsRow(r)'
      BY <1>0, <1>7, <2>2 DEF RecordOutcome, TypeOK, OwnsRow, Owners
    <3> QED BY <1>1, <2>1, <3>1, RowsMove DEF RowInv
  <2>3. CASE verdict[r] # "ask"
    <3> DEFINE x == [stage |-> "select", id |-> IdOf[r], decision |-> verdict[r],
                     by |-> Attribution(r)]
    <3>1. job' = [job EXCEPT ![r] = x] /\ handler'[r] = "logging" /\ handler[r] = "settled"
      BY <1>0, <1>7, <2>3 DEF RecordOutcome, StartJob, TypeOK
    <3>2. verdict[r] \in Decisions /\ Attribution(r) \in DecidedBy
      BY <1>0, <3>1 DEF WaitCoherent, Decided, Attribution, DecidedBy
    <3>3. x \in Jobs /\ x.id = IdOf[r]
      BY <1>1, <3>2 DEF Jobs
    <3> HIDE DEF x
    <3>4. x # None
      BY <3>3, GateAssumption
    <3>5. job'[r] = x /\ \A q \in Requests : q # r => job'[q] = job[q]
      BY <1>0, <1>1, <3>1 DEF TypeOK, Writers
    <3>6. OwnsRow(r)'
      BY <3>1, <3>4, <3>5 DEF OwnsRow, Owners
    <3> QED BY <1>1, <2>1, <3>3, <3>5, <3>6, RowsMove
  <2> QED BY <2>2, <2>3
<1>8. CASE DeletePending(r)
  <2>1. /\ UNCHANGED <<job, claimed_items>>
        /\ pending_decisions' = pending_decisions \ {IdOf[r]}
    BY <1>8 DEF DeletePending
  <2> QED BY <1>1, <2>1, RowsMove DEF RowInv
<1> QED BY <1>2, <1>3, <1>4, <1>5, <1>6, <1>7, <1>8 DEF HandlerStep

\* A handler's write deletes its row with its last statement.
LEMMA JobRows ==
    ASSUME UniqueIds, RowInv, GateInv', NEW w \in Writers, JobStep(w) \/ JobFail(w)
    PROVE  RowInv'
<1>0. TypeOK /\ JobsCoherent
  BY DEF RowInv, GateInv
<1>1. job[w] # None /\ job[w] \in Jobs
      /\ UNCHANGED <<claimed_items, phase>>
  BY <1>0 DEF JobStep, JobSelect, JobInsert, JobDelete, JobFail, TypeOK, queueVars, envVars
<1>2. /\ \A v \in Writers : v # w => job'[v] = job[v]
      /\ job'[w] # None => job'[w].id = job[w].id
      /\ pending_decisions' \subseteq pending_decisions
  BY <1>0, <1>1 DEF JobStep, JobSelect, JobInsert, JobDelete, JobFail, TypeOK, Jobs, dbVars
<1>3. /\ \A r \in Requests : r # w => handler'[r] = handler[r]
      /\ w \notin Requests => UNCHANGED handler
  BY <1>0, GateAssumption
     DEF JobStep, JobSelect, JobInsert, JobDelete, JobFail, HangUp, TypeOK, procVars
<1>4. CASE w \in Requests
  <2>1. job[w].id = IdOf[w] /\ handler[w] = "logging"
    BY <1>0, <1>1, <1>4 DEF RowInv, JobsCoherent
  <2>2. OwnsRow(w)' \/ IdOf[w] \notin pending_decisions'
    <3>1. CASE JobSelect(w) \/ JobInsert(w)
      <4>1. job'[w] \in Jobs
        BY <1>0, <1>1, <3>1 DEF JobSelect, JobInsert, TypeOK, Jobs
      <4>2. job'[w] # None /\ handler'[w] = "logging"
        BY <2>1, <3>1, <4>1, GateAssumption DEF JobSelect, JobInsert, procVars
      <4> QED BY <4>2 DEF OwnsRow, Owners
    <3>2. CASE JobDelete(w)
      BY <2>1, <3>2 DEF JobDelete
    <3>3. CASE JobFail(w)
      <4>1. handler'[w] = "failed"
        BY <1>0, <1>4, <3>3, GateAssumption DEF JobFail, HangUp, TypeOK
      <4> QED BY <4>1 DEF OwnsRow, Owners
    <3> QED BY <3>1, <3>2, <3>3 DEF JobStep
  <2> QED BY <1>1, <1>2, <1>3, <1>4, <2>1, <2>2, RowsMove DEF RowInv, Writers
<1>5. CASE w \notin Requests
  BY <1>1, <1>2, <1>3, <1>5 DEF RowInv, OwnsRow, Writers
<1> QED BY <1>4, <1>5

LEMMA ClientRows ==
    ASSUME RowInv, GateInv', NEW c \in Clients, ClientStep(c)
    PROVE  RowInv'
<1>0. TypeOK
  BY DEF RowInv, GateInv
<1>1. UNCHANGED <<handler, phase, pending_decisions, claimed_items>>
  BY DEF ClientStep, LookApprove, LookPermission, LookRefuse, ApproveAllTui, LookBulk,
         ResolveCommand, EagerPersist, FinishCommand, MarkDeviceFresh, GraceLapses,
         ResolveAll, ResolveIds, queueVars, procVars, dbVars, envVars
<1>2. \A r \in Requests : job'[r] = job[r]
  <2>1. CASE \E id \in Ids : EagerPersist(c, id)
    <3>1. PICK id \in Ids : EagerPersist(c, id)
      BY <2>1
    <3>2. c \notin Requests /\ Requests \subseteq Writers
      BY GateAssumption DEF Writers
    <3>3. \A w \in Writers : w # c => job'[w] = job[w]
      BY <1>0, <3>1 DEF EagerPersist, StartJob, TypeOK
    <3> QED BY <3>2, <3>3
  <2>2. CASE ~\E id \in Ids : EagerPersist(c, id)
    <3>1. UNCHANGED job
      BY <2>2 DEF ClientStep, LookApprove, LookPermission, LookRefuse, ApproveAllTui,
                  LookBulk, ResolveCommand, FinishCommand, MarkDeviceFresh, GraceLapses,
                  procVars, dbVars, envVars
    <3> QED BY <3>1
  <2> QED BY <2>1, <2>2
<1> QED BY <1>1, <1>2, RowsFrame DEF RowInv

\* The daemon serves when the table is empty, or is not up.
LEMMA DaemonRows ==
    ASSUME RowInv, GateInv', DaemonStep \/ Crash
    PROVE  RowInv'
<1>0. TypeOK /\ IdOf \in [Requests -> Ids]
  BY QueueAssumption DEF RowInv, GateInv
<1>1. phase' = "up" => pending_decisions' = {}
  BY DEF DaemonStep, Restart, Bind, DrainFails, DrainRow, Crash, dbVars, envVars
<1>2. \A id \in Ids : claimed_items'[id] = None
  BY DEF DaemonStep, Restart, Bind, DrainFails, DrainRow, Crash, queueVars, RowInv
<1>3. \A r \in Requests : job'[r] = job[r] \/ job'[r] = None
  BY <1>0, GateAssumption
     DEF DaemonStep, Restart, Bind, DrainFails, DrainRow, Crash, StartJob, TypeOK, Writers
<1> QED BY <1>1, <1>2, <1>3 DEF RowInv

\* No orphaned row: while the daemon serves after a complete drain, a row of
\* pending_decisions belongs to a handler still at work on it, or to one whose
\* database write failed; distinct ids are all this needs.
THEOREM RowsAreOwned ==
    ASSUME UniqueIds
    PROVE  Spec => []RowsHaveOwners
<1>1. Init => RowInv
  <2>1. Init => GateInv
    BY GateInitInv
  <2>2. ASSUME Init PROVE (\A id \in Ids : claimed_items[id] = None) /\ pending_decisions = {}
                          /\ \A r \in Requests : job[r] = None
    BY <2>2 DEF Init, QueueInit, Writers
  <2> QED BY <2>1, <2>2 DEF RowInv
<1>2. RowInv /\ [Next]_vars => RowInv'
  <2> SUFFICES ASSUME RowInv, [Next]_vars PROVE RowInv'
    OBVIOUS
  <2>0. GateInv'
    BY GateNextInv DEF RowInv
  <2>1. ASSUME NEW r \in Requests,
               HookStep(r) \/ HookKill(r) \/ HandlerStep(r) \/ HandlerDbError(r)
        PROVE  RowInv'
    <3>1. CASE HookConnect(r) \/ HandlerStep(r) \/ HandlerDbError(r)
      BY <2>0, <3>1, HandlerRows
    <3>2. CASE HookModeOff(r) \/ HookAutoApprove(r) \/ HookUnreachable(r)
               \/ HookRead(r) \/ HookKill(r)
      <4>1. UNCHANGED <<handler, phase, pending_decisions, job, claimed_items>>
        BY <3>2 DEF HookModeOff, HookAutoApprove, HookUnreachable, HookRead, HookKill,
                    queueVars, envVars, dbVars
      <4> QED BY <2>0, <4>1, RowsFrame DEF RowInv
    <3> QED BY <2>1, <3>1, <3>2 DEF HookStep
  <2>2. ASSUME NEW c \in Clients, ClientStep(c) PROVE RowInv'
    BY <2>0, <2>2, ClientRows
  <2>3. ASSUME NEW w \in Writers, JobStep(w) \/ JobFail(w) PROVE RowInv'
    BY <2>0, <2>3, JobRows
  <2>4. CASE DaemonStep \/ Crash
    BY <2>0, <2>4, DaemonRows
  <2>5. CASE SetMode \/ (\E t \in ToolCalls : IngestLine(t)) \/ UNCHANGED vars
    <3>1. UNCHANGED <<handler, phase, pending_decisions, job, claimed_items>>
      BY <2>5 DEF SetMode, IngestLine, vars, queueVars, procVars, envVars, dbVars
    <3> QED BY <2>0, <3>1, RowsFrame DEF RowInv
  <2> QED BY <2>1, <2>2, <2>3, <2>4, <2>5 DEF Next
<1>3. RowInv => RowsHaveOwners
  BY DEF RowInv, RowsHaveOwners, OwnsRow, Owners
<1> QED BY <1>1, <1>2, <1>3, PTL DEF Spec

-----------------------------------------------------------------------------
(* A channel is dropped only by the late finalize_local of a twin.           *)

\* Steps that drop no channel somebody waits on.
LEMMA TwinsFrame ==
    ASSUME TwinInv,
           \A r \in Requests : waited[r] \in {"timeout", "gone"} => waited'[r] = waited[r],
           \A r \in Requests : handler'[r] = "waiting" /\ rx'[r] = "dropped" =>
                                   handler[r] = "waiting" /\ rx[r] = "dropped",
           \A r \in Requests : waited'[r] = "dropped" =>
                                   \/ waited[r] = "dropped"
                                   \/ handler[r] = "waiting" /\ rx[r] = "dropped"
    PROVE  TwinInv'
<1>1. \A r \in Requests : HasTwin(r) => HasTwin(r)'
  BY DEF HasTwin
<1>2. \A r \in Requests : waited[r] = "dropped" => HasTwin(r)
  BY DEF TwinInv, DropsHaveTwins, HasTwin
<1>3. \A r \in Requests : waited'[r] = "dropped" => HasTwin(r)'
  BY <1>1, <1>2 DEF TwinInv
<1>4. DropsHaveTwins'
  BY <1>3 DEF DropsHaveTwins, HasTwin
<1> QED BY <1>1, <1>4 DEF TwinInv

LEMMA SettleTwins ==
    ASSUME GateInv, TwinInv, NEW r \in Requests, Settle(r)
    PROVE  TwinInv'
<1> USE DEF GateInv, Settle, Goto
<1>1. UNCHANGED waited /\ waited[r] \in {"dropped", "timeout", "gone"}
  BY DEF WaitCoherent
<1>2. \A q \in Requests : HasTwin(q)' <=> HasTwin(q)
  BY <1>1 DEF HasTwin
<1>3. ASSUME NEW q \in Requests, handler'[q] = "waiting", rx'[q] = "dropped"
      PROVE  HasTwin(q)
  <2>1. q # r /\ handler[q] = "waiting" /\ waited[q] = "none"
    BY <1>3 DEF TypeOK, WaitCoherent
  <2>2. CASE rx[q] = "dropped"
    BY <2>1, <2>2 DEF TwinInv
  <2>3. CASE rx[q] # "dropped"
    <3>1. q = pending_senders[IdOf[r]] /\ IdOf[r] \in Ids
      BY <1>3, <2>3, QueueAssumption DEF FinalizeLocal, TypeOK, QueueTypeOK
    <3>2. IdOf[q] = IdOf[r]
      BY <3>1 DEF QueueInv, SendersMatchItems
    <3>3. CASE waited[r] \in {"timeout", "gone"}
      BY <2>1, <3>2, <3>3 DEF HasTwin
    <3>4. CASE waited[r] = "dropped"
      <4>1. PICK p \in Requests \ {r} : /\ IdOf[p] = IdOf[r]
                                        /\ waited[p] \in {"timeout", "gone"}
        BY <3>4 DEF TwinInv, DropsHaveTwins
      <4> QED BY <2>1, <3>2, <4>1 DEF HasTwin
    <3> QED BY <1>1, <3>3, <3>4
  <2> QED BY <2>2, <2>3
<1>4. DropsHaveTwins'
  BY <1>1 DEF TwinInv, DropsHaveTwins
<1> QED BY <1>2, <1>3, <1>4 DEF TwinInv

LEMMA HandlerTwins ==
    ASSUME GateInv, TwinInv, NEW r \in Requests, HandlerStep(r) \/ HandlerDbError(r)
    PROVE  TwinInv'
<1> USE DEF GateInv, Goto, HangUp, Respond, queueVars
<1>1. CASE Settle(r)
  BY <1>1, SettleTwins
<1>2. CASE HandlerEnqueue(r)
  <2>1. UNCHANGED waited /\ rx' = [rx EXCEPT ![r] = "open"]
    BY <1>2 DEF HandlerEnqueue, Enqueue, EnqueueInner
  <2> QED BY <1>2, <2>1, TwinsFrame DEF HandlerEnqueue, TypeOK, QueueTypeOK
<1>3. CASE WaitResolved(r) \/ \E why \in {"dropped", "timeout", "gone"} : WaitOtherwise(r, why)
  <2>1. UNCHANGED rx /\ handler[r] = "waiting" /\ waited[r] = "none"
    BY <1>3 DEF WaitResolved, WaitOtherwise, WaitCoherent
  <2>2. handler'[r] # "waiting"
    BY <1>3 DEF WaitResolved, WaitOtherwise, TypeOK
  <2>3. waited'[r] = "dropped" => rx[r] = "dropped"
    BY <1>3 DEF WaitResolved, WaitOtherwise, Fires, TypeOK
  <2>4. \A q \in Requests : q # r => handler'[q] = handler[q] /\ waited'[q] = waited[q]
    BY <1>3 DEF WaitResolved, WaitOtherwise, TypeOK
  <2> QED BY <2>1, <2>2, <2>3, <2>4, TwinsFrame
<1>4. CASE \/ RejectIdentity(r) \/ RejectMode(r) \/ Admit(r) \/ PersistPending(r)
           \/ RejectDuplicate(r) \/ RecordOutcome(r) \/ DeletePending(r)
           \/ Recording(r) \/ Reply(r) \/ HandlerDbError(r)
  <2>1. UNCHANGED <<rx, waited>>
    BY <1>4 DEF RejectIdentity, RejectMode, Admit, PersistPending, RejectDuplicate,
       RecordOutcome, DeletePending, Recording, Reply, HandlerDbError
  <2>2. \A q \in Requests : handler'[q] = "waiting" => handler[q] = "waiting"
    BY <1>4 DEF RejectIdentity, RejectMode, Admit, PersistPending, RejectDuplicate,
       RecordOutcome, DeletePending, Recording, Reply, HandlerDbError, TypeOK
  <2> QED BY <2>1, <2>2, TwinsFrame
<1> QED BY <1>1, <1>2, <1>3, <1>4 DEF HandlerStep

\* Reviewers deliver decisions; they drop no channel.
LEMMA ClientTwins ==
    ASSUME GateInv, TwinInv, NEW c \in Clients, ClientStep(c)
    PROVE  TwinInv'
<1>1. UNCHANGED procVars
  BY DEF ClientStep, LookApprove, LookPermission, LookRefuse, ApproveAllTui, LookBulk,
         ResolveCommand, EagerPersist, FinishCommand, MarkDeviceFresh, GraceLapses
<1>2. \A r \in Requests : rx'[r] = "dropped" => rx[r] = "dropped"
  <2>1. CASE UNCHANGED queueVars
    BY <2>1 DEF queueVars
  <2>2. CASE \E F \in Filters : ApproveAllTui(c, F)
    BY <2>2 DEF ApproveAllTui, ResolveAll, ResolveIds
  <2>3. CASE ResolveCommand(c)
    <3>1. DecisionOf(cmd[c].op) \in Decisions
      BY DEF DecisionOf, Decisions
    <3> QED BY <2>3, <3>1 DEF ResolveCommand, ResolveIds, Decisions
  <2> QED BY <2>1, <2>2, <2>3
       DEF ClientStep, LookApprove, LookPermission, LookRefuse, LookBulk,
           EagerPersist, FinishCommand, MarkDeviceFresh, GraceLapses
<1> QED BY <1>1, <1>2, TwinsFrame DEF procVars

\* A request is failed open by a dropped channel only if another request with
\* its id timed out or lost its hook before, for every set of colliding ids:
\* with distinct ids no living handler ever sees its channel dropped.
THEOREM DropsNeedTwins == Spec => []DropsHaveTwins
<1>1. Init => TwinInv
  BY DEF Init, TwinInv, DropsHaveTwins
<1>2. GateInv /\ TwinInv /\ [Next]_vars => TwinInv'
  <2> SUFFICES ASSUME GateInv, TwinInv, [Next]_vars PROVE TwinInv'
    OBVIOUS
  <2>1. ASSUME NEW r \in Requests, HookStep(r) \/ HookKill(r) PROVE TwinInv'
    <3>1. UNCHANGED <<rx, waited>>
      BY <2>1 DEF HookStep, HookKill, HookModeOff, HookAutoApprove, HookConnect,
         HookUnreachable, HookRead, queueVars
    <3>2. \A q \in Requests : handler'[q] = "waiting" => handler[q] = "waiting"
      BY <2>1 DEF HookStep, HookKill, HookModeOff, HookAutoApprove, HookConnect,
         HookUnreachable, HookRead, GateInv, TypeOK
    <3> QED BY <3>1, <3>2, TwinsFrame
  <2>2. ASSUME NEW r \in Requests, HandlerStep(r) \/ HandlerDbError(r) PROVE TwinInv'
    BY <2>2, HandlerTwins
  <2>3. ASSUME NEW c \in Clients, ClientStep(c) PROVE TwinInv'
    BY <2>3, ClientTwins
  <2>4. ASSUME NEW w \in Writers, JobStep(w) \/ JobFail(w) PROVE TwinInv'
    <3>1. UNCHANGED <<rx, waited>>
      BY <2>4 DEF JobStep, JobSelect, JobInsert, JobDelete, JobFail, queueVars, procVars
    <3>2. \A q \in Requests : handler'[q] = "waiting" => handler[q] = "waiting"
      BY <2>4 DEF JobStep, JobSelect, JobInsert, JobDelete, JobFail, HangUp, procVars,
         GateInv, TypeOK
    <3> QED BY <3>1, <3>2, TwinsFrame
  <2>5. CASE DaemonStep \/ SetMode \/ (\E t \in ToolCalls : IngestLine(t)) \/ UNCHANGED vars
    <3>1. UNCHANGED <<rx, waited, handler>>
      BY <2>5 DEF DaemonStep, Restart, Bind, DrainFails, DrainRow, SetMode, IngestLine,
         vars, queueVars, procVars
    <3> QED BY <3>1, TwinsFrame
  <2>6. CASE Crash
    <3>1. UNCHANGED waited /\ \A q \in Requests : handler'[q] # "waiting"
      BY <2>6 DEF Crash, Running
    <3> QED BY <3>1, TwinsFrame DEF TwinInv
  <2> QED BY <2>1, <2>2, <2>3, <2>4, <2>5, <2>6 DEF Next
<1>3. TwinInv => DropsHaveTwins
  BY DEF TwinInv
<1> QED BY <1>1, <1>2, <1>3, GateInvariant, PTL DEF Spec
=============================================================================
