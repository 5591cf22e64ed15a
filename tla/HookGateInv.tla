----------------------------- MODULE HookGateInv -----------------------------
(***************************************************************************)
(* Inductive invariants of the hook gate.  GateInv ties the stages of a    *)
(* request together and holds even when ids collide.  AuditInv is about    *)
(* the audit log and needs what UniqueIds states and that no client sends  *)
(* ApprovePermission, whose audit row does not follow its resolve.         *)
(***************************************************************************)
EXTENDS HookGate


\* The request has not been enqueued yet.
Early == {"none", "accepted", "admitted", "persisted"}

\* The states after the wait in which a verdict is carried along.
Decided == {"settled", "logging", "deleting", "replying"}

\* The stages of a handler, its channel and its verdict go together.
WaitCoherent ==
    \A r \in Requests :
        /\ handler[r] \in Early => rx[r] = "none"
        /\ handler[r] \in Early \cup {"waiting"} => waited[r] = "none"
        /\ handler[r] = "settling" => waited[r] \in {"dropped", "timeout", "gone"}
        /\ handler[r] \in Decided => verdict[r] \in Decisions
        /\ waited[r] = "none" => verdict[r] = "none"
        /\ waited[r] = "resolved" => verdict[r] = rx[r] /\ rx[r] \in Decisions
        /\ waited[r] = "dropped" => rx[r] = "dropped"
        /\ waited[r] = "gone" => verdict[r] \in {"none", "deny"}

\* What the hook can read, and what it did, follows from how its handler ended.
ReplyCoherent ==
    \A r \in Requests :
        /\ resp[r] = "eof" => handler[r] \in {"failed", "lost"}
        /\ resp[r] \in Decisions => handler[r] = "closed"
        /\ resp[r] \in {"approve", "ask"} => verdict[r] = resp[r]
        /\ hook[r] = "new" => handler[r] = "none"
        /\ hook[r] = "approve" => handler[r] = "none" \/ resp[r] \in {"approve", "eof"}

\* A handler writes to the log only while it is at that stage.
JobsCoherent ==
    \A r \in Requests : job[r] # None => handler[r] = "logging"

GateInv == /\ TypeOK
           /\ QueueInv
           /\ NoZombieItems
           /\ WaitCoherent
           /\ ReplyCoherent
           /\ JobsCoherent

-----------------------------------------------------------------------------
(* The audit log *)

UniqueIds == \A q, r \in Requests : IdOf[q] = IdOf[r] => q = r

\* The gate claims nothing: claims belong to managed spawns.
NothingClaimed == claims = {}

\* No handler runs beside the startup drain.
DrainRunsAlone ==
    /\ ~Serving => \A r \in Requests : ~Running(r)
    /\ job[Boot] # None => phase = "draining"

\* The verdict, and the reply, of a request that was enqueued.
OutcomeCoherent ==
    \A r \in Requests :
        /\ waited[r] = "none" /\ handler[r] \notin {"waiting", "lost"} => rx[r] = "none"
        /\ handler[r] = "deleting" => verdict[r] = "ask"
        /\ verdict[r] = "ask" => rx[r] = "ask"
        /\ waited[r] # "none" /\ resp[r] \in Decisions => resp[r] = verdict[r]

\* Until a request is decided nobody writes about it, and its row exists from
\* persist_pending on.
UndecidedUntouched ==
    \A r \in Requests :
        /\ handler[r] \in Early \/ rx[r] = "open" =>
              /\ decision_log[IdOf[r]] = None
              /\ \A w \in Writers : job[w] # None => job[w].id # IdOf[r]
        /\ handler[r] \in {"none", "accepted", "admitted"} =>
              IdOf[r] \notin pending_decisions
        /\ handler[r] = "persisted" \/ rx[r] = "open" => IdOf[r] \in pending_decisions

\* The decision d was delivered to the request with this id.
Delivered(id, d) ==
    /\ d \in {"approve", "deny"}
    /\ \E r \in Requests : IdOf[r] = id /\ rx[r] = d

\* What a command still has to write was delivered by it.
CommandsTruthful ==
    \A c \in Clients :
        cmd[c] # None =>
            /\ cmd[c].op \in Ops
            /\ cmd[c].stage = "persist" =>
                  \A id \in cmd[c].ids : Delivered(id, DecisionOf(cmd[c].op))

\* So is what is being written by a client; a handler writes its own verdict.
JobsTruthful ==
    /\ \A c \in Clients : job[c] # None => Delivered(job[c].id, job[c].decision)
    /\ \A r \in Requests :
          job[r] # None => job[r].id = IdOf[r] /\ job[r].decision = verdict[r]

\* The log has a row with this id, or one of the same tool call.
OnRecord(id) == decision_log[id] # None \/ CallOf[id] \in CallsLogged

\* An answered request has its pending row or is on record, ...
RowOrLog ==
    \A r \in Requests :
        rx[r] \notin {"none", "ask"} =>
            IdOf[r] \in pending_decisions \/ OnRecord(IdOf[r])

\* ... and a writer deletes the row only after it is.
DeleteAfterLog ==
    \A w \in Writers, r \in Requests :
        /\ job[w] # None
        /\ job[w].stage = "delete"
        /\ job[w].id = IdOf[r]
        /\ rx[r] \notin {"none", "ask"}
        => OnRecord(IdOf[r])

\* The audit row of a request that a reviewer decided holds that decision.
LogTruthful ==
    \A r \in Requests :
        /\ decision_log[IdOf[r]] # None
        /\ rx[r] \in {"approve", "deny"}
        /\ handler[r] \notin {"failed", "lost"}
        /\ waited[r] \notin {"timeout", "gone"}
        => decision_log[IdOf[r]].decision = rx[r]

\* The request is on record before the reply is sent.
LoggedBeforeReply ==
    \A r \in Requests :
        /\ waited[r] = "resolved"
        /\ rx[r] \in {"approve", "deny"}
        /\ \/ handler[r] \in {"replying", "closed"}
           \/ handler[r] = "logging" /\ job[r] = None
        => OnRecord(IdOf[r])

AuditInv == /\ GateInv
            /\ NothingClaimed
            /\ DrainRunsAlone
            /\ OutcomeCoherent
            /\ UndecidedUntouched
            /\ CommandsTruthful
            /\ JobsTruthful
            /\ RowOrLog
            /\ DeleteAfterLog
            /\ LogTruthful
            /\ LoggedBeforeReply

-----------------------------------------------------------------------------
(* The rows of pending_decisions; distinct ids are all it needs *)

\* The stages at which a handler answers for its row.
Owners == {"persisted", "waiting", "settling", "settled", "logging", "deleting", "failed"}

\* A handler at the end of its write has deleted its row.
OwnsRow(r) == /\ handler[r] \in Owners
              /\ handler[r] = "logging" => job[r] # None

RowInv == /\ GateInv
          /\ \A id \in Ids : claimed_items[id] = None
          /\ \A r \in Requests : job[r] # None => job[r].id = IdOf[r]
          /\ phase = "up" =>
                \A id \in pending_decisions : \E r \in Requests : IdOf[r] = id /\ OwnsRow(r)

-----------------------------------------------------------------------------
(* Dropped channels *)

\* Another request carries this one's id, and its wait ended without an answer.
HasTwin(r) == \E q \in Requests \ {r} : /\ IdOf[q] = IdOf[r]
                                        /\ waited[q] \in {"timeout", "gone"}

\* A handler that is about to see its channel dropped has such a twin already.
TwinInv == /\ DropsHaveTwins
           /\ \A r \in Requests :
                 handler[r] = "waiting" /\ rx[r] = "dropped" => HasTwin(r)
=============================================================================
