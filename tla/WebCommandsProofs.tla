------------------------- MODULE WebCommandsProofs --------------------------
(***************************************************************************)
(* Proofs about the commands of the browser console, for any number of     *)
(* decisions, projects, clicks and lost connections.                       *)
(*                                                                         *)
(* A stash is worth one send: it is made by a click and cleared by the     *)
(* replay that uses it.  Updaters run in the order they were queued, so a  *)
(* dismissal that is queued before every retry takes effect before them,   *)
(* and an answer to a spawn is folded in after the updater that awaits it. *)
(***************************************************************************)
EXTENDS WebCommands, TLAPS, SequenceTheorems, FiniteSetTheorems

Commands ==
    [type : {"approve", "deny"}, key : Ids]
      \cup [type : {"install_hooks"}, key : Projects]
      \cup [type : {"spawn_agent"}, key : Corrs]

Snapshots == UNION {SetToSeqs(P) : P \in SUBSET Ids}

Frames ==
    [type : {"new_decision", "decision_resolved"}, id : Ids]
      \cup [type : {"web_reauth_required"}, id : Keys]
      \cup [type : {"install_hooks_result"}, project : Projects, ok : BOOLEAN]
      \cup [type : {"command_error"}, corr : Corrs, text : {"refused", "failed"}]
      \cup [type : {"agent_spawn_queued"}, corr : Corrs, id : Ids]
      \cup [type : {"welcome"}]
      \cup [type : {"queue_snapshot"}, items : Snapshots]

Updaters ==
    [do : {"reduce"}, m : Frames]
      \cup [do : {"error"}, text : {"approve", "deny", "install_hooks"}]
      \cup [do : {"spawn"}, corr : Corrs, sent : BOOLEAN]
      \cup [do : {"clear", "dismiss", "retry"}]

TypeOK ==
    /\ pend \subseteq Ids
    /\ up \in Seq(Commands) /\ wire \in Seq(Frames) /\ todo \in Seq(Updaters)
    /\ gated \subseteq Keys /\ IsFiniteSet(gated) /\ gone \subseteq Keys
    /\ stash \in [Ids -> {"none", "tool", "blank"}] /\ installs \subseteq Projects
    /\ sent \in [Keys -> Nat] /\ via \in [Corrs -> Nat]
    /\ clicks \in 0..MaxClicks /\ drops \in Nat /\ conn \in {0, drops + 1}

\* k is still to be replayed if it is gated.
Wanted(k) == k \in installs \/ (k \in Ids /\ stash[k] = "tool")

\* A stash is worth one send.
SentInv == \A k \in Keys : sent[k] <= 2 /\ (Wanted(k) => sent[k] <= 1)

\* What was abandoned has lost its stash, or will before any replay.
Doomed(k) == /\ k \in gated
             /\ \E i \in 1..Len(todo) : /\ todo[i].do = "dismiss"
                                        /\ \A j \in 1..i : todo[j].do # "retry"
GoneInv == \A k \in gone : ~Wanted(k) \/ Doomed(k)

\* The request of spawn c, or an answer to it, is on its way, ...
Answers(m, c) == m.type \in {"command_error", "agent_spawn_queued"} /\ m.corr = c
Travels(c) == \/ \E i \in 1..Len(up) : up[i].type = "spawn_agent" /\ up[i].key = c
              \/ \E i \in 1..Len(wire) : Answers(wire[i], c)

\* ... or is to be folded in behind the first n updaters.
Arrives(c, n) == \E j \in 1..Len(todo) :
                     j > n /\ todo[j].do = "reduce" /\ Answers(todo[j].m, c)
Awaited(c, n) == via[c] # 0 /\ (via[c] = conn => Travels(c) \/ Arrives(c, n))

SpawnStates == [phase : {"none", "pending", "queued", "refused"},
                corr : Corrs \cup {NoId}, decision : Ids \cup {NoId}]
SpawnShown == "spawn" \in DOMAIN view /\ view.spawn \in SpawnStates

SpawnInv ==
    /\ SpawnShown
    /\ \A c \in Corrs : via[c] <= (IF conn = 0 THEN drops ELSE drops + 1)
    /\ view.spawn.phase = "pending" =>
         view.spawn.corr \in 1..clicks /\ Awaited(view.spawn.corr, 0)
    /\ \A i \in 1..Len(todo) : todo[i].do = "spawn" =>
         todo[i].corr <= clicks /\ (todo[i].sent => Awaited(todo[i].corr, i))

CommandInv == TypeOK /\ SentInv /\ GoneInv /\ SpawnInv

-----------------------------------------------------------------------------
(* Sequences *)

\* t is s with something behind it.
Grows(t, s) == Len(t) >= Len(s) /\ \A i \in 1..Len(s) : t[i] = s[i]

LEMMA AppendGrows ==
    ASSUME NEW S, NEW s \in Seq(S), NEW e \in S
    PROVE  /\ Append(s, e) \in Seq(S) /\ Grows(Append(s, e), s)
           /\ Len(Append(s, e)) = Len(s) + 1 /\ Append(s, e)[Len(s) + 1] = e
BY AppendProperties, LenProperties DEF Grows

LEMMA ConcatGrows ==
    ASSUME NEW S, NEW s \in Seq(S), NEW t \in Seq(S)
    PROVE  s \o t \in Seq(S) /\ Grows(s \o t, s) /\ Len(s \o t) = Len(s) + Len(t)
<1>1. Len(s) \in Nat /\ Len(t) \in Nat
  BY LenProperties
<1> QED BY <1>1, ConcatProperties DEF Grows

LEMMA TailOf ==
    ASSUME NEW S, NEW s \in Seq(S), s # <<>>
    PROVE  /\ Head(s) \in S /\ Head(s) = s[1] /\ Len(s) \in Nat \ {0}
           /\ Tail(s) \in Seq(S) /\ Len(Tail(s)) = Len(s) - 1
           /\ \A i \in 2..Len(s) : Tail(s)[i - 1] = s[i]
<1>1. Len(s) \in Nat /\ Len(s) # 0 /\ Head(s) = s[1]
  BY LenProperties, EmptySeq
<1> QED BY <1>1, HeadTailProperties

LEMMA GrowsTwice ==
    ASSUME NEW S, NEW s \in Seq(S), NEW t \in Seq(S), NEW u \in Seq(S),
           Grows(t, s), Grows(u, t)
    PROVE  Grows(u, s)
<1>1. Len(s) \in Nat /\ Len(t) \in Nat /\ Len(u) \in Nat
  BY LenProperties
<1> QED BY <1>1 DEF Grows

LEMMA GrowsSelf ==
    ASSUME NEW S, NEW s \in Seq(S)
    PROVE  Grows(s, s)
BY LenProperties DEF Grows

\* A sequence of the elements of a finite set.
LEMMA SetToSeqsType ==
    ASSUME NEW S, IsFiniteSet(S), NEW q \in SetToSeqs(S)
    PROVE  q \in Seq(S)
<1>1. Cardinality(S) \in Nat
  BY FS_CardinalityType
<1>2. q \in [1..Cardinality(S) -> S]
  BY DEF SetToSeqs
<1> QED BY <1>1, <1>2, SeqDef

LEMMA SetToSeqType ==
    ASSUME NEW S, IsFiniteSet(S)
    PROVE  SetToSeq(S) \in Seq(S)
<1> DEFINE n == Cardinality(S)
<1>1. n \in Nat /\ ExistsBijection(1..n, S)
  BY FS_CardinalityType
<1>2. \E f \in [1..n -> S] : IsInjective(f)
  BY <1>1 DEF ExistsBijection, Bijection, Injection
<1>3. SetToSeq(S) \in [1..n -> S]
  BY <1>2 DEF SetToSeq
<1> HIDE DEF n
<1> QED BY <1>1, <1>3, SeqDef

-----------------------------------------------------------------------------
(* Commands, frames and updaters *)

LEMMA CommandIs ==
    ASSUME NEW c \in Commands
    PROVE  /\ c.type \in {"approve", "deny", "install_hooks", "spawn_agent"}
           /\ c.type \in {"approve", "deny"} => c.key \in Ids
           /\ c.type = "install_hooks" => c.key \in Projects
           /\ c.type = "spawn_agent" => c.key \in Corrs
BY DEF Commands

LEMMA FrameIs ==
    ASSUME NEW m \in Frames
    PROVE  /\ m.type \in {"new_decision", "decision_resolved", "web_reauth_required",
                          "install_hooks_result", "command_error", "agent_spawn_queued",
                          "welcome", "queue_snapshot"}
           /\ m.type = "web_reauth_required" => m.id \in Keys
           /\ m.type \in {"command_error", "agent_spawn_queued"} => m.corr \in Corrs
           /\ m.type = "agent_spawn_queued" => m.id \in Ids
BY DEF Frames

LEMMA UpdaterIs ==
    ASSUME NEW u \in Updaters
    PROVE  /\ u.do \in {"reduce", "error", "spawn", "clear", "dismiss", "retry"}
           /\ u.do = "reduce" => u.m \in Frames
           /\ u.do = "spawn" => u.corr \in Corrs /\ u.sent \in BOOLEAN
BY DEF Updaters

LEMMA MakesCommand ==
    /\ \A d \in Ids : [type |-> "approve", key |-> d] \in Commands
                      /\ [type |-> "deny", key |-> d] \in Commands
    /\ \A p \in Projects : [type |-> "install_hooks", key |-> p] \in Commands
    /\ \A c \in Corrs : [type |-> "spawn_agent", key |-> c] \in Commands
BY DEF Commands

LEMMA MakesFrame ==
    /\ \A d \in Ids : [type |-> "new_decision", id |-> d] \in Frames
                      /\ [type |-> "decision_resolved", id |-> d] \in Frames
    /\ \A k \in Keys : [type |-> "web_reauth_required", id |-> k] \in Frames
    /\ \A p \in Projects, b \in BOOLEAN :
          [type |-> "install_hooks_result", project |-> p, ok |-> b] \in Frames
    /\ \A c \in Corrs : [type |-> "command_error", corr |-> c, text |-> "refused"] \in Frames
                        /\ [type |-> "command_error", corr |-> c, text |-> "failed"] \in Frames
    /\ \A c \in Corrs, d \in Ids : [type |-> "agent_spawn_queued", corr |-> c, id |-> d] \in Frames
    /\ [type |-> "welcome"] \in Frames
    /\ \A q \in Snapshots : [type |-> "queue_snapshot", items |-> q] \in Frames
BY DEF Frames

LEMMA MakesUpdater ==
    /\ \A m \in Frames : [do |-> "reduce", m |-> m] \in Updaters
    /\ \A t \in {"approve", "deny", "install_hooks"} : [do |-> "error", text |-> t] \in Updaters
    /\ \A c \in Corrs, b \in BOOLEAN : [do |-> "spawn", corr |-> c, sent |-> b] \in Updaters
    /\ \A x \in {"clear", "dismiss", "retry"} : [do |-> x] \in Updaters
BY DEF Updaters

\* What a replay sends or leaves as error rows.
ErrorRows == {[do |-> "error", text |-> t] : t \in {"approve", "install_hooks"}}

LEMMA BatchFinite ==
    ASSUME TypeOK, NEW again \in {{}, Batch({})}, NEW keys,
           keys = Replayed(Batch(gated) \cup again)
    PROVE  IsFiniteSet(keys) /\ keys \subseteq Keys
<1>1. IsFiniteSet(Batch({}))
  BY FS_EmptySet, FS_Singleton DEF Batch
<1>2. IsFiniteSet(Batch(gated))
  BY FS_Singleton DEF Batch, TypeOK
<1>3. IsFiniteSet(again)
  BY <1>1, FS_EmptySet
<1>4. IsFiniteSet(Batch(gated) \cup again)
  BY <1>2, <1>3, FS_Union
<1>5. keys \subseteq Batch(gated) \cup again
  BY DEF Replayed
<1>6. IsFiniteSet(keys)
  BY <1>4, <1>5, FS_Subset
<1>7. keys \subseteq Keys
  BY DEF Replayed, Keys, TypeOK
<1> QED BY <1>6, <1>7

LEMMA ReplaysType ==
    ASSUME NEW keys, IsFiniteSet(keys), keys \subseteq Keys, NEW cs \in Replays(keys)
    PROVE  cs \in Seq(Commands)
<1> DEFINE T == {ReplayCommand(k) : k \in keys}
           f == [k \in keys |-> ReplayCommand(k)]
<1>1. f \in Surjection(keys, T)
  BY DEF Surjection
<1>2. IsFiniteSet(T)
  BY <1>1, FS_Surjection
<1>3. cs \in SetToSeqs(T)
  BY DEF Replays
<1>4. T \subseteq Commands
  BY MakesCommand DEF ReplayCommand, Keys
<1> HIDE DEF T
<1>5. cs \in Seq(T)
  BY <1>2, <1>3, SetToSeqsType
<1> QED BY <1>4, <1>5, SeqMonotonic

LEMMA NotSentType ==
    ASSUME NEW keys
    PROVE  NotSent(keys) \in Seq(ErrorRows)
<1> DEFINE T == {[do |-> "error", text |-> ReplayCommand(k).type] : k \in keys}
           a == [do |-> "error", text |-> "approve"]
           b == [do |-> "error", text |-> "install_hooks"]
<1>1. \A k \in keys : ReplayCommand(k).type \in {"approve", "install_hooks"}
  BY DEF ReplayCommand
<1>2. T \subseteq ErrorRows
  BY <1>1 DEF ErrorRows
<1>3. ErrorRows = {a} \cup {b}
  BY DEF ErrorRows
<1>4. IsFiniteSet({a} \cup {b})
  BY FS_Singleton, FS_Union
<1>5. NotSent(keys) = SetToSeq(T)
  BY DEF NotSent
<1> HIDE DEF T, a, b
<1>6. IsFiniteSet(T)
  BY <1>2, <1>3, <1>4, FS_Subset
<1>7. SetToSeq(T) \in Seq(T)
  BY <1>6, SetToSeqType
<1> QED BY <1>2, <1>5, <1>7, SeqMonotonic

\* An updater that has run is gone; a retry that cannot send leaves error rows.
LEMMA RetryQueues ==
    ASSUME TypeOK, todo # <<>>, RetryUpdater
    PROVE  /\ todo' \in Seq(Updaters) /\ Grows(todo', Tail(todo))
           /\ \A i \in 1..Len(todo') : i > Len(Tail(todo)) => todo'[i] \in ErrorRows
           /\ up' \in Seq(Commands) /\ Grows(up', up)
<1>1. PICK again \in {{}, Batch({})} :
        LET keys == Replayed(Batch(gated) \cup again) IN
        IF conn = 0
        THEN UNCHANGED <<up, sent>> /\ todo' = Tail(todo) \o NotSent(keys)
        ELSE /\ \E cs \in Replays(keys) : up' = up \o cs
             /\ todo' = Tail(todo)
  BY DEF RetryUpdater
<1> DEFINE keys == Replayed(Batch(gated) \cup again)
<1>2. IsFiniteSet(keys) /\ keys \subseteq Keys
  BY BatchFinite
<1>3. NotSent(keys) \in Seq(ErrorRows)
  BY NotSentType
<1>4. ErrorRows \subseteq Updaters
  BY MakesUpdater DEF ErrorRows
<1>5. NotSent(keys) \in Seq(Updaters)
  BY <1>3, <1>4, SeqMonotonic
<1>6. Tail(todo) \in Seq(Updaters) /\ up \in Seq(Commands)
  BY TailOf DEF TypeOK
<1>7. CASE conn = 0
  <2>1. todo' = Tail(todo) \o NotSent(keys) /\ up' = up
    BY <1>1, <1>7
  <2> HIDE DEF keys
  <2>2. todo' \in Seq(Updaters) /\ Grows(todo', Tail(todo))
    BY <1>5, <1>6, <2>1, ConcatGrows
  <2>3. /\ Len(todo') = Len(Tail(todo)) + Len(NotSent(keys))
        /\ \A i \in 1..Len(todo') : todo'[i] = IF i <= Len(Tail(todo)) THEN Tail(todo)[i]
                                               ELSE NotSent(keys)[i - Len(Tail(todo))]
    BY <1>5, <1>6, <2>1, ConcatProperties
  <2>4. Len(Tail(todo)) \in Nat /\ Len(NotSent(keys)) \in Nat
    BY <1>5, <1>6, LenProperties
  <2>5. \A i \in 1..Len(NotSent(keys)) : NotSent(keys)[i] \in ErrorRows
    BY <1>3, ElementOfSeq
  <2>6. \A i \in 1..Len(todo') : i > Len(Tail(todo)) => i - Len(Tail(todo)) \in 1..Len(NotSent(keys))
    BY <2>3, <2>4
  <2>7. \A i \in 1..Len(todo') : i > Len(Tail(todo)) => todo'[i] \in ErrorRows
    BY <2>3, <2>4, <2>5, <2>6
  <2> QED BY <1>6, <2>1, <2>2, <2>7, GrowsSelf
<1>8. CASE conn # 0
  <2>1. PICK cs \in Replays(keys) : up' = up \o cs
    BY <1>1, <1>8
  <2>2. todo' = Tail(todo)
    BY <1>1, <1>8
  <2>3. cs \in Seq(Commands)
    BY <1>2, ReplaysType
  <2>4. up' \in Seq(Commands) /\ Grows(up', up)
    BY <1>6, <2>1, <2>3, ConcatGrows
  <2>5. Grows(todo', Tail(todo))
    BY <1>6, <2>2, GrowsSelf
  <2>6. Len(Tail(todo)) \in Nat
    BY <1>6, LenProperties
  <2> QED BY <1>6, <2>2, <2>4, <2>5, <2>6
<1> QED BY <1>7, <1>8

\* What a retry leaves of the refs, and what it counts.
LEMMA RetryRefs ==
    ASSUME RetryUpdater
    PROVE  \E batch :
             /\ gated \subseteq batch /\ gated' = {}
             /\ stash' = [d \in Ids |-> IF d \in batch THEN "none" ELSE stash[d]]
             /\ installs' = installs \ batch
             /\ view' = [view EXCEPT !.reauth = NoId]
             /\ \/ sent' = sent
                \/ sent' = [k \in Keys |->
                              sent[k] + (IF k \in Replayed(batch) THEN 1 ELSE 0)]
<1>1. PICK again \in {{}, Batch({})} :
        LET batch == Batch(gated) \cup again
            keys  == Replayed(batch)
        IN
        /\ gated' = {}
        /\ stash' = [d \in Ids |-> IF d \in batch THEN "none" ELSE stash[d]]
        /\ installs' = installs \ batch
        /\ view' = [view EXCEPT !.reauth = NoId]
        /\ IF conn = 0
           THEN UNCHANGED <<up, sent>> /\ todo' = Tail(todo) \o NotSent(keys)
           ELSE /\ \E cs \in Replays(keys) : up' = up \o cs
                /\ sent' = [k \in Keys |-> sent[k] + (IF k \in keys THEN 1 ELSE 0)]
                /\ todo' = Tail(todo)
  BY DEF RetryUpdater
<1> DEFINE batch == Batch(gated) \cup again
<1>2. gated \subseteq batch
  BY DEF Batch
<1>3. \/ sent' = sent
      \/ sent' = [k \in Keys |-> sent[k] + (IF k \in Replayed(batch) THEN 1 ELSE 0)]
  BY <1>1
<1>4. /\ gated' = {}
      /\ stash' = [d \in Ids |-> IF d \in batch THEN "none" ELSE stash[d]]
      /\ installs' = installs \ batch
      /\ view' = [view EXCEPT !.reauth = NoId]
  BY <1>1
<1> HIDE DEF batch
<1> QED BY <1>2, <1>3, <1>4

-----------------------------------------------------------------------------
(* Types; with them, how the three queues change *)

\* What a step does to a queue: it stays or grows.
Longer(S, t, s) == t \in Seq(S) /\ Grows(t, s)

LEMMA ReadCommandQueues ==
    ASSUME TypeOK, ReadCommand
    PROVE  /\ Longer(Frames, wire', wire) /\ pend' \subseteq Ids
           /\ up' = Tail(up) /\ up # <<>>
           /\ up[1].type = "spawn_agent" =>
                \E i \in 1..Len(wire') : Answers(wire'[i], up[1].key)
<1> DEFINE c == up[1]
<1>0. /\ up # <<>> /\ up' = Tail(up) /\ c = Head(up) /\ c \in Commands
      /\ wire \in Seq(Frames) /\ Len(wire) \in Nat /\ pend \subseteq Ids
  BY TailOf, LenProperties DEF TypeOK, ReadCommand
<1>1. \/ c.type = "approve" /\ DoApprove(c.key)
      \/ c.type = "deny" /\ DoResolve(c.key)
      \/ c.type = "install_hooks" /\ DoInstall(c.key)
      \/ c.type = "spawn_agent" /\ DoSpawn(c.key)
  BY <1>0 DEF ReadCommand
<1>2. /\ c.type \in {"approve", "deny"} => c.key \in Ids
      /\ c.type = "install_hooks" => c.key \in Projects
      /\ c.type = "spawn_agent" => c.key \in Corrs
  BY <1>0, CommandIs
<1> HIDE DEF c
<1>3. ASSUME NEW d \in Ids, DoResolve(d)
      PROVE  Longer(Frames, wire', wire) /\ pend' \subseteq Ids
  <2>1. wire' = wire \/ wire' = Append(wire, [type |-> "decision_resolved", id |-> d])
    BY <1>3 DEF DoResolve, Broadcast
  <2>2. pend' \subseteq Ids
    BY <1>0, <1>3 DEF DoResolve
  <2>3. [type |-> "decision_resolved", id |-> d] \in Frames
    BY MakesFrame
  <2>4. CASE wire' = wire
    BY <1>0, <2>2, <2>4, GrowsSelf DEF Longer
  <2>5. CASE wire' = Append(wire, [type |-> "decision_resolved", id |-> d])
    BY <1>0, <2>2, <2>3, <2>5, AppendGrows DEF Longer
  <2> QED BY <2>1, <2>4, <2>5
<1>4. ASSUME NEW m \in Frames, Reply(m)
      PROVE  /\ Longer(Frames, wire', wire)
             /\ Len(wire') = Len(wire) + 1 /\ wire'[Len(wire) + 1] = m
  BY <1>0, <1>4, AppendGrows DEF Reply, Longer
<1>5. CASE c.type = "approve" /\ DoApprove(c.key)
  <2>1. CASE c.key \in pend \cap Sudo /\ ~fresh
    <3>1. [type |-> "web_reauth_required", id |-> c.key] \in Frames
      BY <1>2, <1>5, MakesFrame DEF Keys
    <3>2. Reply([type |-> "web_reauth_required", id |-> c.key]) /\ pend' = pend
      BY <1>5, <2>1 DEF DoApprove
    <3>3. Longer(Frames, wire', wire)
      BY <1>4, <3>1, <3>2
    <3> QED BY <1>0, <1>5, <3>2, <3>3 DEF c
  <2>2. CASE ~(c.key \in pend \cap Sudo /\ ~fresh)
    <3>1. DoResolve(c.key)
      BY <1>5, <2>2 DEF DoApprove
    <3> QED BY <1>0, <1>2, <1>3, <1>5, <3>1 DEF c
  <2> QED BY <2>1, <2>2
<1>6. CASE c.type = "deny" /\ DoResolve(c.key)
  BY <1>0, <1>2, <1>3, <1>6 DEF c
<1>7. CASE c.type = "install_hooks" /\ DoInstall(c.key)
  <2>1. c.key \in Projects /\ c.key \in Keys
    BY <1>2, <1>7 DEF Keys
  <2>2. \E m \in Frames : Reply(m)
    BY <1>7, <2>1, MakesFrame DEF DoInstall
  <2>3. pend' = pend
    BY <1>7 DEF DoInstall
  <2>4. Longer(Frames, wire', wire)
    BY <1>4, <2>2
  <2> QED BY <1>0, <1>7, <2>3, <2>4 DEF c
<1>8. CASE c.type = "spawn_agent" /\ DoSpawn(c.key)
  <2>0. c.key \in Corrs
    BY <1>2, <1>8
  <2>1. CASE /\ Reply([type |-> "command_error", corr |-> c.key, text |-> "refused"])
             /\ pend' = pend
    <3> DEFINE m == [type |-> "command_error", corr |-> c.key, text |-> "refused"]
    <3>1. m \in Frames /\ Answers(m, c.key)
      BY <2>0, MakesFrame DEF Answers
    <3> HIDE DEF m
    <3>2. Reply(m)
      BY <2>1 DEF m
    <3>3. Longer(Frames, wire', wire) /\ Len(wire') = Len(wire) + 1 /\ wire'[Len(wire) + 1] = m
      BY <1>4, <3>1, <3>2
    <3> QED BY <1>0, <2>1, <3>1, <3>3 DEF c
  <2>2. ASSUME NEW d \in Ids \ seen, pend' = pend \cup {d},
               wire' = wire \o <<[type |-> "agent_spawn_queued", corr |-> c.key, id |-> d],
                                 [type |-> "new_decision", id |-> d]>>
        PROVE  /\ Longer(Frames, wire', wire) /\ pend' \subseteq Ids
               /\ \E i \in 1..Len(wire') : Answers(wire'[i], c.key)
    <3> DEFINE a == [type |-> "agent_spawn_queued", corr |-> c.key, id |-> d]
               b == [type |-> "new_decision", id |-> d]
    <3>1. a \in Frames /\ b \in Frames /\ Answers(a, c.key)
      BY <2>0, MakesFrame DEF Answers
    <3> HIDE DEF a, b
    <3>2. <<a, b>> \in Seq(Frames) /\ Len(<<a, b>>) = 2 /\ <<a, b>>[1] = a
      BY <3>1
    <3>3. wire' = wire \o <<a, b>>
      BY <2>2 DEF a, b
    <3>4. Longer(Frames, wire', wire) /\ Len(wire') = Len(wire) + 2
      BY <1>0, <3>2, <3>3, ConcatGrows DEF Longer
    <3>5. wire'[Len(wire) + 1] = a
      BY <1>0, <3>2, <3>3, ConcatProperties
    <3> QED BY <1>0, <2>2, <3>1, <3>4, <3>5
  <2>3. \/ /\ Reply([type |-> "command_error", corr |-> c.key, text |-> "refused"])
           /\ pend' = pend
        \/ \E d \in Ids \ seen :
             /\ pend' = pend \cup {d}
             /\ wire' = wire \o <<[type |-> "agent_spawn_queued", corr |-> c.key, id |-> d],
                                  [type |-> "new_decision", id |-> d]>>
    BY <1>8 DEF DoSpawn
  <2> QED BY <1>0, <2>1, <2>2, <2>3 DEF c
<1> QED BY <1>1, <1>5, <1>6, <1>7, <1>8

\* A frame for the browser, a command for the daemon.
LEMMA BroadcastGrows ==
    ASSUME TypeOK, NEW m \in Frames, Broadcast(m) \/ Reply(m) \/ UNCHANGED wire
    PROVE  Longer(Frames, wire', wire)
<1>1. wire \in Seq(Frames)
  BY DEF TypeOK
<1>2. CASE wire' = wire
  BY <1>1, <1>2, GrowsSelf DEF Longer
<1>3. CASE wire' = Append(wire, m)
  BY <1>1, <1>3, AppendGrows DEF Longer
<1> QED BY <1>2, <1>3 DEF Broadcast, Reply

LEMMA SendGrows ==
    ASSUME TypeOK, NEW c \in Commands, Send(c), c.type # "spawn_agent"
    PROVE  /\ Longer(Commands, up', up) /\ Longer(Updaters, todo', todo)
           /\ todo' = todo \/ todo' = Append(todo, [do |-> "error", text |-> c.type])
<1>1. up \in Seq(Commands) /\ todo \in Seq(Updaters)
  BY DEF TypeOK
<1>2. CASE conn # 0
  <2>1. up' = Append(up, c) /\ todo' = todo
    BY <1>2 DEF Send
  <2> QED BY <1>1, <2>1, AppendGrows, GrowsSelf DEF Longer
<1>3. CASE conn = 0
  <2>1. up' = up /\ todo' = Append(todo, [do |-> "error", text |-> c.type])
    BY <1>3 DEF Send
  <2>2. [do |-> "error", text |-> c.type] \in Updaters
    BY CommandIs, MakesUpdater
  <2>3. Longer(Updaters, todo', todo)
    BY <1>1, <2>1, <2>2, AppendGrows DEF Longer
  <2> QED BY <1>1, <2>1, <2>3, GrowsSelf DEF Longer
<1> QED BY <1>2, <1>3

LEMMA QueueGrows ==
    ASSUME TypeOK, NEW u \in Updaters, todo' = Append(todo, u)
    PROVE  Longer(Updaters, todo', todo)
BY AppendGrows DEF TypeOK, Longer

LEMMA TypeInit == Init => TypeOK
<1> SUFFICES ASSUME Init PROVE TypeOK
  OBVIOUS
<1>1. up \in Seq(Commands) /\ wire \in Seq(Frames) /\ todo \in Seq(Updaters)
  BY DEF Init
<1>2. IsFiniteSet(gated)
  BY FS_EmptySet DEF Init
<1> QED BY <1>1, <1>2, CommandsAssumption DEF Init, TypeOK

LEMMA TypeStep == TypeOK /\ [Next]_vars => TypeOK'
<1> SUFFICES ASSUME TypeOK, [Next]_vars
             PROVE  TypeOK'
  OBVIOUS
<1> USE DEF daemonVars, netVars, refVars, ghostVars
<1>1. ASSUME NEW d \in Ids, Enqueue(d)
      PROVE  TypeOK'
  <2>1. Longer(Frames, wire', wire)
    BY <1>1, MakesFrame, BroadcastGrows DEF Enqueue
  <2> QED BY <1>1, <2>1 DEF Enqueue, Longer, TypeOK
<1>2. ASSUME NEW d \in Ids, OtherResolve(d)
      PROVE  TypeOK'
  <2>1. Longer(Frames, wire', wire)
    BY <1>2, MakesFrame, BroadcastGrows DEF OtherResolve
  <2> QED BY <1>2, <2>1 DEF OtherResolve, Longer, TypeOK
<1>3. ASSUME NEW d \in Ids, Approve(d)
      PROVE  TypeOK'
  <2>1. Longer(Commands, up', up) /\ Longer(Updaters, todo', todo)
    <3> DEFINE c == [type |-> "approve", key |-> d]
    <3>1. c \in Commands /\ c.type # "spawn_agent"
      BY MakesCommand
    <3>2. Send(c)
      BY <1>3 DEF Approve
    <3> HIDE DEF c
    <3> QED BY <3>1, <3>2, SendGrows
  <2>2. stash' \in [Ids -> {"none", "tool", "blank"}]
    BY <1>3 DEF Approve, TypeOK
  <2>3. sent' \in [Keys -> Nat] /\ gone' \subseteq Keys
    BY <1>3 DEF Approve, Asked, TypeOK
  <2> QED BY <1>3, <2>1, <2>2, <2>3, CommandsAssumption DEF Approve, Counted, Longer, TypeOK
<1>4. ASSUME NEW d \in Ids, Deny(d)
      PROVE  TypeOK'
  <2>1. Longer(Commands, up', up) /\ Longer(Updaters, todo', todo)
    <3> DEFINE c == [type |-> "deny", key |-> d]
    <3>1. c \in Commands /\ c.type # "spawn_agent"
      BY MakesCommand
    <3>2. Send(c)
      BY <1>4 DEF Deny
    <3> HIDE DEF c
    <3> QED BY <3>1, <3>2, SendGrows
  <2> QED BY <1>4, <2>1, CommandsAssumption DEF Deny, Counted, Longer, TypeOK
<1>5. ASSUME NEW p \in Projects, InstallHooks(p)
      PROVE  TypeOK'
  <2>1. Longer(Commands, up', up) /\ Longer(Updaters, todo', todo)
    <3> DEFINE c == [type |-> "install_hooks", key |-> p]
    <3>1. c \in Commands /\ c.type # "spawn_agent"
      BY MakesCommand
    <3>2. Send(c)
      BY <1>5 DEF InstallHooks
    <3> HIDE DEF c
    <3> QED BY <3>1, <3>2, SendGrows
  <2>2. sent' \in [Keys -> Nat] /\ gone' \subseteq Keys
    BY <1>5 DEF InstallHooks, Asked, TypeOK
  <2> QED BY <1>5, <2>1, <2>2, CommandsAssumption DEF InstallHooks, Counted, Longer, TypeOK
<1>6. ASSUME NEW c \in Corrs, WorkerFails(c)
      PROVE  TypeOK'
  <2>1. Longer(Frames, wire', wire)
    BY <1>6, MakesFrame, BroadcastGrows DEF WorkerFails
  <2> QED BY <1>6, <2>1 DEF WorkerFails, Longer, TypeOK
<1>7. CASE SpawnAgent
  <2>0. clicks' = clicks + 1 /\ clicks' \in Corrs /\ clicks' \in 0..MaxClicks
    BY <1>7, CommandsAssumption DEF SpawnAgent, Counted, Corrs, TypeOK
  <2>1. up' \in Seq(Commands)
    <3>1. [type |-> "spawn_agent", key |-> clicks'] \in Commands
      BY <2>0, MakesCommand
    <3> QED BY <1>7, <3>1, AppendGrows DEF SpawnAgent, TypeOK
  <2>2. todo' \in Seq(Updaters)
    <3>1. [do |-> "spawn", corr |-> clicks', sent |-> conn # 0] \in Updaters
      BY <2>0, MakesUpdater
    <3>2. todo' = Append(todo, [do |-> "spawn", corr |-> clicks', sent |-> conn # 0])
      BY <1>7 DEF SpawnAgent
    <3> QED BY <3>1, <3>2, QueueGrows DEF Longer
  <2>3. via' \in [Corrs -> Nat]
    BY <1>7, <2>0 DEF SpawnAgent, TypeOK
  <2> QED BY <1>7, <2>0, <2>1, <2>2, <2>3 DEF SpawnAgent, TypeOK
<1>8. CASE ClearSpawn
  <2>1. todo' \in Seq(Updaters)
    BY <1>8, MakesUpdater, QueueGrows DEF ClearSpawn, Longer
  <2> QED BY <1>8, <2>1 DEF ClearSpawn, TypeOK
<1>9. CASE Dismiss \/ SubmitReauth \/ ReauthHandled \/ Lapse \/ UNCHANGED vars
  BY <1>9 DEF Dismiss, SubmitReauth, ReauthHandled, Lapse, vars, TypeOK
<1>10. CASE ReauthAnswered
  <2>1. todo' \in Seq(Updaters)
    <3>1. CASE todo' = todo
      BY <3>1 DEF TypeOK
    <3>2. CASE todo' = Append(todo, [do |-> "retry"])
      BY <3>2, MakesUpdater, QueueGrows DEF Longer
    <3> QED BY <1>10, <3>1, <3>2 DEF ReauthAnswered
  <2> QED BY <1>10, <2>1 DEF ReauthAnswered, TypeOK
<1>11. CASE CancelReauth
  <2>1. todo' \in Seq(Updaters)
    BY <1>11, MakesUpdater, QueueGrows DEF CancelReauth, Longer
  <2> QED BY <1>11, <2>1 DEF CancelReauth, TypeOK
<1>12. CASE WrongPassword
  <2>1. up' \in Seq(Commands) /\ wire' \in Seq(Frames) /\ todo' \in Seq(Updaters)
    BY <1>12 DEF WrongPassword
  <2>2. IsFiniteSet(gated')
    BY <1>12, FS_EmptySet DEF WrongPassword
  <2> QED BY <1>12, <2>1, <2>2 DEF WrongPassword, TypeOK
<1>13. CASE ReadCommand
  <2>1. wire' \in Seq(Frames) /\ pend' \subseteq Ids /\ up' \in Seq(Commands)
    BY <1>13, ReadCommandQueues, TailOf DEF Longer, TypeOK
  <2> QED BY <1>13, <2>1 DEF ReadCommand, TypeOK
<1>14. CASE Receive
  <2> DEFINE m == Head(wire)
  <2>1. m \in Frames /\ wire' \in Seq(Frames)
    BY <1>14, TailOf DEF Receive, TypeOK
  <2>2. todo' = Append(todo, [do |-> "reduce", m |-> m])
    BY <1>14 DEF Receive
  <2>3. gated' \in {gated, gated \cup {m.id}} /\ (gated' # gated => m.type = "web_reauth_required")
    BY <1>14 DEF Receive
  <2>4. stash' \in [Ids -> {"none", "tool", "blank"}]
    BY <1>14 DEF Receive, TypeOK
  <2> HIDE DEF m
  <2>5. todo' \in Seq(Updaters)
    BY <2>1, <2>2, MakesUpdater, QueueGrows DEF Longer
  <2>6. gated' \subseteq Keys /\ IsFiniteSet(gated')
    <3>1. m.type = "web_reauth_required" => m.id \in Keys
      BY <2>1, FrameIs
    <3>2. IsFiniteSet(gated) /\ gated \subseteq Keys
      BY DEF TypeOK
    <3>3. IsFiniteSet(gated \cup {m.id})
      BY <3>2, FS_AddElement
    <3> QED BY <2>3, <3>1, <3>2, <3>3
  <2> QED BY <1>14, <2>1, <2>4, <2>5, <2>6 DEF Receive, TypeOK
<1>15. CASE RunUpdater
  <2>0. /\ todo # <<>> /\ Tail(todo) \in Seq(Updaters)
    BY <1>15, TailOf DEF RunUpdater, TypeOK
  <2>1. CASE DismissUpdater /\ todo' = Tail(todo)
    <3>1. stash' \in [Ids -> {"none", "tool", "blank"}] /\ installs' \subseteq Projects
      BY <2>1 DEF DismissUpdater, TypeOK
    <3>2. gated' \subseteq Keys /\ IsFiniteSet(gated')
      BY <2>1, FS_EmptySet DEF DismissUpdater
    <3> QED BY <1>15, <2>0, <2>1, <3>1, <3>2 DEF RunUpdater, DismissUpdater, TypeOK
  <2>2. CASE RetryUpdater
    <3>1. todo' \in Seq(Updaters) /\ up' \in Seq(Commands)
      BY <2>0, <2>2, RetryQueues
    <3>2. gated' \subseteq Keys /\ IsFiniteSet(gated')
      BY <2>2, FS_EmptySet DEF RetryUpdater
    <3>3. PICK batch :
             /\ stash' = [d \in Ids |-> IF d \in batch THEN "none" ELSE stash[d]]
             /\ installs' = installs \ batch
             /\ \/ sent' = sent
                \/ sent' = [k \in Keys |->
                              sent[k] + (IF k \in Replayed(batch) THEN 1 ELSE 0)]
      BY <2>2, RetryRefs
    <3>4. /\ stash' \in [Ids -> {"none", "tool", "blank"}] /\ installs' \subseteq Projects
      BY <3>3 DEF TypeOK
    <3>5. sent' \in [Keys -> Nat]
      <4>1. sent \in [Keys -> Nat]
        BY DEF TypeOK
      <4>2. CASE sent' = sent
        BY <4>1, <4>2
      <4>3. CASE sent' = [k \in Keys |->
                              sent[k] + (IF k \in Replayed(batch) THEN 1 ELSE 0)]
        <5>1. \A k \in Keys : sent[k] + (IF k \in Replayed(batch) THEN 1 ELSE 0) \in Nat
          BY <4>1
        <5> QED BY <4>3, <5>1
      <4> QED BY <3>3, <4>2, <4>3
    <3> QED BY <1>15, <3>1, <3>2, <3>4, <3>5 DEF RunUpdater, TypeOK
  <2>3. CASE PureUpdater(Head(todo))
    <3>1. installs' \subseteq Projects
      BY <2>3 DEF PureUpdater, TypeOK
    <3> QED BY <1>15, <2>0, <2>3, <3>1 DEF RunUpdater, PureUpdater, TypeOK
  <2> QED BY <1>15, <2>1, <2>2, <2>3 DEF RunUpdater
<1>16. CASE Drop
  <2>1. up' \in Seq(Commands) /\ wire' \in Seq(Frames)
    BY <1>16 DEF Drop
  <2> QED BY <1>16, <2>1 DEF Drop, TypeOK
<1>17. CASE Relink
  <2>1. PICK q \in SetToSeqs(pend) :
          wire' = <<[type |-> "welcome"], [type |-> "queue_snapshot", items |-> q]>>
    BY <1>17 DEF Relink
  <2>2. q \in Snapshots
    BY DEF Snapshots, TypeOK
  <2>3. [type |-> "welcome"] \in Frames /\ [type |-> "queue_snapshot", items |-> q] \in Frames
    BY <2>2, MakesFrame
  <2>4. wire' \in Seq(Frames)
    BY <2>1, <2>3
  <2> QED BY <1>17, <2>4 DEF Relink, TypeOK
<1> QED BY <1>1, <1>2, <1>3, <1>4, <1>5, <1>6, <1>7, <1>8, <1>9, <1>10, <1>11, <1>12,
           <1>13, <1>14, <1>15, <1>16, <1>17 DEF Next

-----------------------------------------------------------------------------
(* One click, at most two sends *)

LEMMA SentStep == TypeOK /\ SentInv /\ [Next]_vars => SentInv'
<1> SUFFICES ASSUME TypeOK, SentInv, [Next]_vars
             PROVE  SentInv'
  OBVIOUS
<1> USE DEF daemonVars, netVars, refVars, ghostVars
<1>0. /\ sent \in [Keys -> Nat] /\ stash \in [Ids -> {"none", "tool", "blank"}]
      /\ installs \subseteq Projects /\ \A k \in Keys : sent[k] \in Nat
  BY DEF TypeOK
<1>1. ASSUME UNCHANGED <<sent, stash, installs>>
      PROVE  SentInv'
  BY <1>1 DEF SentInv, Wanted
\* k is asked for; no other key becomes wanted
<1>2. ASSUME NEW k \in Keys, Asked(k),
             \A j \in Keys : j # k => (Wanted(j)' => Wanted(j))
      PROVE  SentInv'
  <2>1. ASSUME NEW j \in Keys PROVE sent'[j] <= 2 /\ (Wanted(j)' => sent'[j] <= 1)
    <3>1. CASE j = k
      <4>1. sent'[j] \in {0, 1}
        BY <1>0, <1>2, <3>1 DEF Asked
      <4> QED BY <4>1
    <3>2. CASE j # k
      <4>1. sent'[j] = sent[j]
        BY <1>0, <1>2, <3>2 DEF Asked
      <4> QED BY <1>2, <3>2, <4>1 DEF SentInv
    <3> QED BY <3>1, <3>2
  <2> QED BY <2>1 DEF SentInv
\* nothing is sent, nothing becomes wanted
<1>3. ASSUME sent' = sent, \A j \in Keys : Wanted(j)' => Wanted(j)
      PROVE  SentInv'
  BY <1>3 DEF SentInv
<1>4. ASSUME NEW d \in Ids, Approve(d)
      PROVE  SentInv'
  <2>1. \A j \in Keys : j # d => (Wanted(j)' => Wanted(j))
    BY <1>0, <1>4 DEF Approve, Wanted
  <2> QED BY <1>2, <1>4, <2>1 DEF Approve, Keys
<1>5. ASSUME NEW p \in Projects, InstallHooks(p)
      PROVE  SentInv'
  <2>1. \A j \in Keys : j # p => (Wanted(j)' => Wanted(j))
    BY <1>5 DEF InstallHooks, Wanted
  <2> QED BY <1>2, <1>5, <2>1 DEF InstallHooks, Keys
<1>6. CASE WrongPassword
  BY <1>3, <1>6 DEF WrongPassword, Wanted
<1>7. CASE Receive
  <2>1. \A d \in Ids : stash'[d] \in {"none", stash[d]}
    BY <1>0, <1>7 DEF Receive
  <2>2. sent' = sent /\ installs' = installs
    BY <1>7 DEF Receive
  <2>3. \A j \in Keys : Wanted(j)' => Wanted(j)
    BY <2>1, <2>2 DEF Wanted
  <2> QED BY <1>3, <2>2, <2>3
<1>8. CASE RunUpdater
  <2>1. CASE DismissUpdater
    BY <1>3, <2>1 DEF DismissUpdater, Wanted
  <2>2. CASE RetryUpdater
    <3>1. PICK batch :
             /\ stash' = [d \in Ids |-> IF d \in batch THEN "none" ELSE stash[d]]
             /\ installs' = installs \ batch
             /\ \/ sent' = sent
                \/ sent' = [k \in Keys |->
                              sent[k] + (IF k \in Replayed(batch) THEN 1 ELSE 0)]
      BY <2>2, RetryRefs
    <3>2. \A j \in Keys : Wanted(j)' => Wanted(j) /\ j \notin batch
      BY <3>1 DEF Wanted
    <3>3. CASE sent' = sent
      BY <1>3, <3>2, <3>3
    <3>4. CASE sent' = [k \in Keys |-> sent[k] + (IF k \in Replayed(batch) THEN 1 ELSE 0)]
      <4>1. \A k \in Keys : k \in Replayed(batch) => k \in batch /\ Wanted(k)
        BY DEF Replayed, Wanted
      <4>2. ASSUME NEW k \in Keys PROVE sent'[k] <= 2 /\ (Wanted(k)' => sent'[k] <= 1)
        <5>1. CASE k \in Replayed(batch)
          <6>1. sent'[k] = sent[k] + 1 /\ sent[k] <= 1 /\ ~Wanted(k)'
            BY <3>2, <3>4, <4>1, <5>1 DEF SentInv
          <6> QED BY <1>0, <6>1
        <5>2. CASE k \notin Replayed(batch)
          <6>1. sent'[k] = sent[k]
            BY <1>0, <3>4, <5>2
          <6> QED BY <3>2, <6>1 DEF SentInv
        <5> QED BY <5>1, <5>2
      <4> QED BY <4>2 DEF SentInv
    <3> QED BY <3>1, <3>3, <3>4
  <2>3. CASE PureUpdater(Head(todo))
    <3>1. sent' = sent /\ stash' = stash /\ installs' \subseteq installs
      BY <2>3 DEF PureUpdater
    <3> QED BY <1>3, <3>1 DEF Wanted
  <2> QED BY <1>8, <2>1, <2>2, <2>3 DEF RunUpdater
<1>9. CASE \/ UNCHANGED vars \/ \E d \in Ids : Enqueue(d) \/ OtherResolve(d) \/ Deny(d)
           \/ \E c \in Corrs : WorkerFails(c)
           \/ SpawnAgent \/ ClearSpawn \/ Dismiss
           \/ SubmitReauth \/ ReauthHandled \/ ReauthAnswered \/ CancelReauth
           \/ Lapse \/ ReadCommand \/ Drop \/ Relink
  BY <1>1, <1>9 DEF vars, Enqueue, OtherResolve, Deny, WorkerFails, SpawnAgent, ClearSpawn,
       Dismiss, SubmitReauth, ReauthHandled, ReauthAnswered, CancelReauth, Lapse,
       ReadCommand, Drop, Relink
<1> QED BY <1>4, <1>5, <1>6, <1>7, <1>8, <1>9 DEF Next

LEMMA SentInit == Init => SentInv
BY DEF Init, SentInv, Wanted, Keys

\* One click is worth at most two sends, whatever is bounced, replayed, rerun
\* or reconnected: the command itself and one replay, because the replay
\* clears the stash it came from (retryPendingApprove).
THEOREM OneReplay == Spec => []OneReplayPerClick
<1>1. Init => TypeOK /\ SentInv
  BY TypeInit, SentInit
<1>2. TypeOK /\ SentInv /\ [Next]_vars => (TypeOK /\ SentInv)'
  BY TypeStep, SentStep
<1>3. SentInv => OneReplayPerClick
  BY DEF SentInv, OneReplayPerClick
<1> QED BY <1>1, <1>2, <1>3, PTL DEF Spec

-----------------------------------------------------------------------------
(* What was abandoned *)

\* Only React runs updaters, only an unmount forgets them.
LEMMA TodoGrows ==
    ASSUME TypeOK, [Next]_vars, ~RunUpdater, ~WrongPassword
    PROVE  Grows(todo', todo)
<1> USE DEF daemonVars, netVars, refVars, ghostVars
<1>0. todo \in Seq(Updaters)
  BY DEF TypeOK
<1>1. ASSUME todo' = todo PROVE Grows(todo', todo)
  BY <1>0, <1>1, GrowsSelf
<1>2. ASSUME NEW u \in Updaters, todo' = Append(todo, u) PROVE Grows(todo', todo)
  BY <1>2, QueueGrows DEF Longer
<1>3. ASSUME NEW c \in Commands, Send(c), c.type # "spawn_agent" PROVE Grows(todo', todo)
  BY <1>3, SendGrows DEF Longer
<1>4. ASSUME NEW d \in Ids, Approve(d) \/ Deny(d) PROVE Grows(todo', todo)
  <2>1. [type |-> "approve", key |-> d] \in Commands /\ [type |-> "deny", key |-> d] \in Commands
    BY MakesCommand
  <2> QED BY <1>3, <1>4, <2>1 DEF Approve, Deny
<1>5. ASSUME NEW p \in Projects, InstallHooks(p) PROVE Grows(todo', todo)
  <2>1. [type |-> "install_hooks", key |-> p] \in Commands
    BY MakesCommand
  <2> QED BY <1>3, <1>5, <2>1 DEF InstallHooks
<1>6. CASE SpawnAgent
  <2>1. clicks' \in Corrs
    BY <1>6, CommandsAssumption DEF SpawnAgent, Counted, Corrs, TypeOK
  <2>2. [do |-> "spawn", corr |-> clicks', sent |-> conn # 0] \in Updaters
    BY <2>1, MakesUpdater
  <2> QED BY <1>2, <1>6, <2>2 DEF SpawnAgent
<1>7. CASE ClearSpawn \/ ReauthAnswered \/ CancelReauth
  <2>1. /\ [do |-> "clear"] \in Updaters /\ [do |-> "retry"] \in Updaters
        /\ [do |-> "dismiss"] \in Updaters
    BY MakesUpdater
  <2> QED BY <1>1, <1>2, <1>7, <2>1 DEF ClearSpawn, ReauthAnswered, CancelReauth
<1>8. CASE Receive
  <2>1. Head(wire) \in Frames
    BY <1>8, TailOf DEF Receive, TypeOK
  <2>2. [do |-> "reduce", m |-> Head(wire)] \in Updaters
    BY <2>1, MakesUpdater
  <2> QED BY <1>2, <1>8, <2>2 DEF Receive
<1>9. CASE \/ UNCHANGED vars \/ \E d \in Ids : Enqueue(d) \/ OtherResolve(d)
           \/ \E c \in Corrs : WorkerFails(c)
           \/ Dismiss \/ SubmitReauth \/ ReauthHandled \/ Lapse \/ ReadCommand
           \/ Drop \/ Relink
  BY <1>1, <1>9 DEF vars, Enqueue, OtherResolve, WorkerFails, Dismiss, SubmitReauth,
       ReauthHandled, Lapse, ReadCommand, Drop, Relink
<1> QED BY <1>4, <1>5, <1>6, <1>7, <1>8, <1>9 DEF Next

LEMMA DoomKept ==
    ASSUME TypeOK, TypeOK', Grows(todo', todo), gated \subseteq gated',
           NEW k \in Keys, Doomed(k)
    PROVE  Doomed(k)'
<1>1. Len(todo) \in Nat /\ Len(todo') \in Nat
  BY LenProperties DEF TypeOK
<1>2. PICK i \in 1..Len(todo) : todo[i].do = "dismiss" /\ \A j \in 1..i : todo[j].do # "retry"
  BY DEF Doomed
<1>3. i \in 1..Len(todo') /\ \A j \in 1..i : j \in 1..Len(todo) /\ todo'[j] = todo[j]
  BY <1>1 DEF Grows
<1>4. todo'[i].do = "dismiss" /\ \A j \in 1..i : todo'[j].do # "retry"
  BY <1>1, <1>2, <1>3
<1> QED BY <1>3, <1>4 DEF Doomed

LEMMA GoneStep == TypeOK /\ TypeOK' /\ GoneInv /\ [Next]_vars => GoneInv'
<1> SUFFICES ASSUME TypeOK, TypeOK', GoneInv, [Next]_vars
             PROVE  GoneInv'
  OBVIOUS
<1> USE DEF daemonVars, netVars, refVars, ghostVars
<1>0. /\ stash \in [Ids -> {"none", "tool", "blank"}] /\ installs \subseteq Projects
      /\ gone \subseteq Keys /\ gone' \subseteq Keys /\ gated \subseteq Keys
      /\ Len(todo) \in Nat /\ Len(todo') \in Nat
  BY LenProperties DEF TypeOK
\* nothing abandoned becomes wanted, and no updater runs
<1>1. ASSUME Grows(todo', todo), gated \subseteq gated',
             \A k \in gone' : k \in gone /\ (Wanted(k)' => Wanted(k))
      PROVE  GoneInv'
  BY <1>0, <1>1, DoomKept DEF GoneInv
<1>2. ASSUME NEW d \in Ids, Approve(d)
      PROVE  GoneInv'
  <2>1. Grows(todo', todo)
    <3>1. ~RunUpdater /\ ~WrongPassword
      BY <1>2, CommandsAssumption DEF Approve, Counted, RunUpdater, WrongPassword, TypeOK
    <3> QED BY <3>1, TodoGrows
  <2>2. \A k \in gone' : k \in gone /\ (Wanted(k)' => Wanted(k))
    BY <1>0, <1>2 DEF Approve, Asked, Wanted
  <2> QED BY <1>1, <1>2, <2>1, <2>2 DEF Approve
<1>3. ASSUME NEW p \in Projects, InstallHooks(p)
      PROVE  GoneInv'
  <2>1. Grows(todo', todo)
    <3>1. ~RunUpdater /\ ~WrongPassword
      BY <1>3, CommandsAssumption DEF InstallHooks, Counted, RunUpdater, WrongPassword, TypeOK
    <3> QED BY <3>1, TodoGrows
  <2>2. \A k \in gone' : k \in gone /\ (Wanted(k)' => Wanted(k))
    BY <1>0, <1>3 DEF InstallHooks, Asked, Wanted
  <2> QED BY <1>1, <1>3, <2>1, <2>2 DEF InstallHooks
<1>4. CASE WrongPassword
  BY <1>4 DEF WrongPassword, GoneInv, Wanted
<1>5. CASE CancelReauth
  <2>1. todo' = Append(todo, [do |-> "dismiss"]) /\ gated' = gated /\ gone' = gone \cup gated
    BY <1>5 DEF CancelReauth
  <2>2. [do |-> "dismiss"] \in Updaters
    BY MakesUpdater
  <2>3. Grows(todo', todo) /\ Len(todo') = Len(todo) + 1 /\ todo'[Len(todo) + 1] = [do |-> "dismiss"]
    BY <2>1, <2>2, AppendGrows DEF TypeOK
  <2>4. \A j \in 1..Len(todo) : todo'[j] = todo[j] /\ todo[j].do # "retry"
    <3>1. DOMAIN todo = 1..Len(todo)
      BY LenProperties DEF TypeOK
    <3> QED BY <1>5, <2>3, <3>1 DEF CancelReauth, Grows
  <2>5. \A k \in gated : Doomed(k)'
    <3>1. \A j \in 1..(Len(todo) + 1) : todo'[j].do # "retry"
      BY <1>0, <2>3, <2>4
    <3> QED BY <1>0, <2>1, <2>3, <3>1 DEF Doomed
  <2>6. \A k \in gone : ~Wanted(k)' \/ Doomed(k)'
    <3>1. \A k \in Keys : Wanted(k)' <=> Wanted(k)
      BY <1>5 DEF CancelReauth, Wanted
    <3> QED BY <1>0, <2>1, <2>3, <3>1, DoomKept DEF GoneInv
  <2> QED BY <2>1, <2>5, <2>6 DEF GoneInv
<1>6. CASE Receive
  <2>1. Grows(todo', todo)
    <3>1. ~RunUpdater /\ ~WrongPassword
      <4>1. wire # <<>> /\ wire \in Seq(Frames) /\ wire' = Tail(wire)
        BY <1>6 DEF Receive, TypeOK
      <4>2. wire' # wire
        BY <4>1, TailOf
      <4>3. Len(todo') = Len(todo) + 1
        <5>1. Head(wire) \in Frames
          BY <4>1, TailOf
        <5>2. [do |-> "reduce", m |-> Head(wire)] \in Updaters
          BY <5>1, MakesUpdater
        <5> QED BY <1>6, <5>2, AppendGrows DEF Receive, TypeOK
      <4>4. ~RunUpdater
        BY <4>2 DEF RunUpdater
      <4>5. ~WrongPassword
        BY <1>0, <4>3 DEF WrongPassword
      <4> QED BY <4>4, <4>5
    <3> QED BY <3>1, TodoGrows
  <2>2. \A d \in Ids : stash'[d] \in {"none", stash[d]}
    BY <1>0, <1>6 DEF Receive
  <2>3. installs' = installs /\ gone' = gone /\ gated \subseteq gated'
    BY <1>6 DEF Receive
  <2>4. \A k \in gone' : k \in gone /\ (Wanted(k)' => Wanted(k))
    BY <2>2, <2>3 DEF Wanted
  <2> QED BY <1>1, <2>1, <2>3, <2>4
<1>7. CASE RunUpdater
  <2>0. /\ todo # <<>> /\ gone' = gone /\ Head(todo) = todo[1] /\ Len(todo) \in Nat \ {0}
        /\ Len(Tail(todo)) = Len(todo) - 1 /\ \A i \in 2..Len(todo) : Tail(todo)[i - 1] = todo[i]
    BY <1>7, TailOf DEF RunUpdater, TypeOK
  <2>1. CASE Head(todo).do = "dismiss" /\ DismissUpdater
    <3>1. \A k \in gated : ~Wanted(k)'
      BY <2>1 DEF DismissUpdater, Batch, Wanted
    <3>2. \A k \in Keys : Wanted(k)' => Wanted(k)
      BY <2>1 DEF DismissUpdater, Wanted
    <3> QED BY <1>0, <2>0, <3>1, <3>2 DEF GoneInv, Doomed
  <2>2. CASE Head(todo).do = "retry" /\ RetryUpdater
    <3>1. \A k \in Keys : ~Doomed(k)
      BY <2>0, <2>2 DEF Doomed
    <3>2. \A k \in Keys : Wanted(k)' => Wanted(k)
      BY <2>2, RetryRefs DEF Wanted
    <3> QED BY <1>0, <2>0, <3>1, <3>2 DEF GoneInv
  <2>3. CASE Head(todo).do \notin {"dismiss", "retry"} /\ PureUpdater(Head(todo))
    <3>1. /\ todo' = Tail(todo) /\ gated' = gated /\ stash' = stash /\ installs' \subseteq installs
      BY <2>3 DEF PureUpdater
    <3>2. \A k \in Keys : Wanted(k)' => Wanted(k)
      BY <3>1 DEF Wanted
    <3>3. ASSUME NEW k \in Keys, Doomed(k) PROVE Doomed(k)'
      <4>1. PICK i \in 1..Len(todo) : todo[i].do = "dismiss" /\ \A j \in 1..i : todo[j].do # "retry"
        BY <3>3 DEF Doomed
      <4>2. i # 1
        BY <2>0, <2>3, <4>1
      <4>3. i - 1 \in 1..Len(todo') /\ todo'[i - 1] = todo[i]
        BY <2>0, <3>1, <4>2
      <4>4. ASSUME NEW j \in 1..(i - 1) PROVE todo'[j].do # "retry"
        <5>1. j + 1 \in 2..Len(todo) /\ j + 1 \in 1..i /\ (j + 1) - 1 = j
          BY <2>0, <4>1
        <5>2. todo'[j] = todo[j + 1]
          BY <2>0, <3>1, <5>1
        <5> QED BY <4>1, <5>1, <5>2
      <4> QED BY <3>1, <3>3, <4>1, <4>3, <4>4 DEF Doomed
    <3> QED BY <1>0, <2>0, <3>2, <3>3 DEF GoneInv
  <2> QED BY <1>7, <2>1, <2>2, <2>3 DEF RunUpdater
<1>8. CASE \/ UNCHANGED vars \/ \E d \in Ids : Enqueue(d) \/ OtherResolve(d) \/ Deny(d)
           \/ \E c \in Corrs : WorkerFails(c)
           \/ SpawnAgent \/ ClearSpawn \/ Dismiss
           \/ SubmitReauth \/ ReauthHandled \/ ReauthAnswered
           \/ Lapse \/ ReadCommand \/ Drop \/ Relink
  <2>1. /\ UNCHANGED <<gated, stash, installs, gone>>
    BY <1>8 DEF vars, Enqueue, OtherResolve, Deny, WorkerFails, SpawnAgent, ClearSpawn,
       Dismiss, SubmitReauth, ReauthHandled, ReauthAnswered, Lapse, ReadCommand, Drop, Relink
  <2>2. CASE RunUpdater
    BY <1>7, <2>2
  <2>3. CASE WrongPassword
    BY <1>4, <2>3
  <2>4. CASE ~RunUpdater /\ ~WrongPassword
    <3>1. Grows(todo', todo)
      BY <2>4, TodoGrows
    <3> QED BY <1>1, <2>1, <3>1 DEF Wanted
  <2> QED BY <2>2, <2>3, <2>4
<1> QED BY <1>2, <1>3, <1>4, <1>5, <1>6, <1>7, <1>8 DEF Next

LEMMA GoneInit == Init => GoneInv
BY DEF Init, GoneInv

\* A step that replays only replays what is still wanted.
LEMMA NotReplayed ==
    ASSUME TypeOK, GoneInv, [Next]_vars, NEW k \in gone, k \in gone'
    PROVE  sent'[k] <= sent[k]
<1> USE DEF daemonVars, netVars, refVars, ghostVars
<1>0. k \in Keys /\ sent \in [Keys -> Nat] /\ sent[k] \in Nat
  BY DEF TypeOK
<1>1. ASSUME sent'[k] = sent[k] PROVE sent'[k] <= sent[k]
  BY <1>0, <1>1
<1>2. ASSUME NEW j \in Keys, Asked(j) PROVE sent'[k] <= sent[k]
  <2>1. k # j
    BY <1>2 DEF Asked
  <2> QED BY <1>0, <1>1, <1>2, <2>1 DEF Asked
<1>3. ASSUME NEW d \in Ids, Approve(d) PROVE sent'[k] <= sent[k]
  BY <1>2, <1>3 DEF Approve, Keys
<1>4. ASSUME NEW p \in Projects, InstallHooks(p) PROVE sent'[k] <= sent[k]
  BY <1>2, <1>4 DEF InstallHooks, Keys
<1>5. CASE RunUpdater
  <2>1. CASE Head(todo).do = "dismiss" /\ DismissUpdater
    BY <1>1, <2>1 DEF DismissUpdater
  <2>2. CASE Head(todo).do = "retry" /\ RetryUpdater
    <3>1. PICK batch : \/ sent' = sent
                       \/ sent' = [j \in Keys |->
                                     sent[j] + (IF j \in Replayed(batch) THEN 1 ELSE 0)]
      BY <2>2, RetryRefs
    <3>2. ~Doomed(k)
      <4>1. Head(todo) = todo[1]
        BY <1>5, TailOf DEF RunUpdater, TypeOK
      <4> QED BY <2>2, <4>1 DEF Doomed
    <3>3. k \notin Replayed(batch)
      BY <3>2 DEF GoneInv, Wanted, Replayed
    <3> QED BY <1>0, <3>1, <3>3
  <2>3. CASE PureUpdater(Head(todo))
    BY <1>1, <2>3 DEF PureUpdater
  <2> QED BY <1>5, <2>1, <2>2, <2>3 DEF RunUpdater
<1>6. CASE \/ UNCHANGED vars \/ \E d \in Ids : Enqueue(d) \/ OtherResolve(d) \/ Deny(d)
           \/ \E c \in Corrs : WorkerFails(c)
           \/ SpawnAgent \/ ClearSpawn \/ Dismiss
           \/ SubmitReauth \/ ReauthHandled \/ ReauthAnswered \/ CancelReauth \/ WrongPassword
           \/ Lapse \/ ReadCommand \/ Receive \/ Drop \/ Relink
  BY <1>1, <1>6 DEF vars, Enqueue, OtherResolve, Deny, WorkerFails, SpawnAgent, ClearSpawn,
       Dismiss, SubmitReauth, ReauthHandled, ReauthAnswered, CancelReauth, WrongPassword,
       Lapse, ReadCommand, Receive, Drop, Relink
<1> QED BY <1>3, <1>4, <1>5, <1>6 DEF Next

\* What had accumulated under the password prompt when it was cancelled is not
\* sent again unless it is asked for again: dismissReauth runs before any
\* retryPendingApprove queued later, and takes the stashes with it.
THEOREM AbandonedNotSent == Spec => AbandonedStays
<1>1. Init => TypeOK /\ GoneInv
  BY TypeInit, GoneInit
<1>2. TypeOK /\ GoneInv /\ [Next]_vars => (TypeOK /\ GoneInv)'
  BY TypeStep, GoneStep
<1>3. TypeOK /\ GoneInv /\ [Next]_vars
        => [\A k \in gone : k \in gone' => sent'[k] <= sent[k]]_vars
  BY NotReplayed
<1> QED BY <1>1, <1>2, <1>3, PTL DEF Spec, AbandonedStays

-----------------------------------------------------------------------------
(* Spawn requests and their answers *)

\* No spawn is queued for the view.
NoNewSpawn == \A i \in 1..Len(todo') : i > Len(todo) => todo'[i].do # "spawn"

LEMMA NothingQueued ==
    ASSUME TypeOK, \/ todo' = todo
                   \/ \E u \in Updaters : u.do # "spawn" /\ todo' = Append(todo, u)
    PROVE  Grows(todo', todo) /\ NoNewSpawn
<1>0. todo \in Seq(Updaters) /\ Len(todo) \in Nat
  BY LenProperties DEF TypeOK
<1>1. CASE todo' = todo
  BY <1>0, <1>1, GrowsSelf DEF NoNewSpawn
<1>2. ASSUME NEW u \in Updaters, u.do # "spawn", todo' = Append(todo, u)
      PROVE  Grows(todo', todo) /\ NoNewSpawn
  <2>1. Grows(todo', todo) /\ Len(todo') = Len(todo) + 1 /\ todo'[Len(todo) + 1] = u
    BY <1>0, <1>2, AppendGrows
  <2>2. \A i \in 1..Len(todo') : i > Len(todo) => i = Len(todo) + 1
    BY <1>0, <2>1
  <2> QED BY <1>2, <2>1, <2>2 DEF NoNewSpawn
<1> QED BY <1>1, <1>2

LEMMA TravelsOn ==
    ASSUME TypeOK, TypeOK', Grows(up', up), Grows(wire', wire), NEW c \in Corrs, Travels(c)
    PROVE  Travels(c)'
<1>1. Len(up) \in Nat /\ Len(up') \in Nat /\ Len(wire) \in Nat /\ Len(wire') \in Nat
  BY LenProperties DEF TypeOK
<1>2. CASE \E i \in 1..Len(up) : up[i].type = "spawn_agent" /\ up[i].key = c
  <2>1. PICK i \in 1..Len(up) : up[i].type = "spawn_agent" /\ up[i].key = c
    BY <1>2
  <2>2. i \in 1..Len(up') /\ up'[i] = up[i]
    BY <1>1 DEF Grows
  <2> QED BY <2>1, <2>2 DEF Travels
<1>3. CASE \E i \in 1..Len(wire) : Answers(wire[i], c)
  <2>1. PICK i \in 1..Len(wire) : Answers(wire[i], c)
    BY <1>3
  <2>2. i \in 1..Len(wire') /\ wire'[i] = wire[i]
    BY <1>1 DEF Grows
  <2> QED BY <2>1, <2>2 DEF Travels
<1> QED BY <1>2, <1>3 DEF Travels

LEMMA ArrivesOn ==
    ASSUME TypeOK, TypeOK', Grows(todo', todo), NEW c \in Corrs, NEW n \in Nat, Arrives(c, n)
    PROVE  Arrives(c, n)'
<1>1. Len(todo) \in Nat /\ Len(todo') \in Nat
  BY LenProperties DEF TypeOK
<1>2. PICK j \in 1..Len(todo) : j > n /\ todo[j].do = "reduce" /\ Answers(todo[j].m, c)
  BY DEF Arrives
<1>3. j \in 1..Len(todo') /\ todo'[j] = todo[j]
  BY <1>1 DEF Grows
<1> QED BY <1>2, <1>3 DEF Arrives

\* Updaters are queued and messages travel; nothing else happens.
LEMMA SpawnKept ==
    ASSUME TypeOK, TypeOK', SpawnInv, Grows(todo', todo), NoNewSpawn,
           UNCHANGED <<via, conn, drops>>, clicks <= clicks',
           SpawnShown', view'.spawn = view.spawn,
           \A c \in Corrs, n \in 0..Len(todo) : Travels(c) => Travels(c)' \/ Arrives(c, n)'
    PROVE  SpawnInv'
<1>0. /\ Len(todo) \in Nat /\ Len(todo') \in Nat /\ clicks \in 0..MaxClicks
      /\ clicks' \in 0..MaxClicks /\ MaxClicks \in Nat
  BY LenProperties, CommandsAssumption DEF TypeOK
<1>1. ASSUME NEW c \in Corrs, NEW n \in 0..Len(todo), Awaited(c, n)
      PROVE  Awaited(c, n)'
  BY <1>0, <1>1, ArrivesOn DEF Awaited
<1>2. \A c \in Corrs : via'[c] <= (IF conn' = 0 THEN drops' ELSE drops' + 1)
  BY DEF SpawnInv
<1>3. view'.spawn.phase = "pending" =>
         view'.spawn.corr \in 1..clicks' /\ Awaited(view.spawn.corr, 0)'
  <2> SUFFICES ASSUME view.spawn.phase = "pending"
               PROVE  view.spawn.corr \in 1..clicks' /\ Awaited(view.spawn.corr, 0)'
    OBVIOUS
  <2>1. view.spawn.corr \in 1..clicks /\ Awaited(view.spawn.corr, 0)
    BY DEF SpawnInv
  <2>2. PICK c \in Corrs : c = view.spawn.corr
    BY <1>0, <2>1 DEF Corrs
  <2>3. Awaited(c, 0)'
    BY <1>0, <1>1, <2>1, <2>2
  <2>4. view'.spawn.corr = c
    BY <2>2
  <2> QED BY <1>0, <2>1, <2>3, <2>2, <2>4
<1>4. ASSUME NEW i \in 1..Len(todo'), todo'[i].do = "spawn"
      PROVE  todo'[i].corr <= clicks' /\ (todo'[i].sent => Awaited(todo[i].corr, i)')
  <2>1. i \in 1..Len(todo) /\ todo'[i] = todo[i] /\ i \in 0..Len(todo)
    BY <1>0, <1>4 DEF NoNewSpawn, Grows
  <2>2. PICK c \in Corrs : c = todo[i].corr
    <3>1. todo[i] \in Updaters
      BY <2>1, ElementOfSeq DEF TypeOK
    <3> QED BY <1>4, <2>1, <3>1, UpdaterIs
  <2>3. c <= clicks /\ (todo[i].sent => Awaited(c, i))
    BY <1>4, <2>1, <2>2 DEF SpawnInv
  <2>4. todo[i].sent => Awaited(c, i)'
    BY <1>1, <2>1, <2>3
  <2>5. c <= clicks'
    BY <1>0, <2>3 DEF Corrs
  <2> QED BY <2>1, <2>2, <2>4, <2>5
<1> QED BY <1>2, <1>3, <1>4 DEF SpawnInv

\* The daemon answers a spawn on the connection that asked.
LEMMA ReadTravels ==
    ASSUME TypeOK, TypeOK', ReadCommand, NEW c \in Corrs, Travels(c)
    PROVE  Travels(c)'
<1>0. /\ Longer(Frames, wire', wire) /\ up' = Tail(up) /\ up # <<>>
      /\ up[1].type = "spawn_agent" => \E i \in 1..Len(wire') : Answers(wire'[i], up[1].key)
  BY ReadCommandQueues
<1>1. /\ Len(up) \in Nat \ {0} /\ Len(up') = Len(up) - 1
      /\ \A i \in 2..Len(up) : up'[i - 1] = up[i]
  BY <1>0, TailOf DEF TypeOK
<1>2. Len(wire) \in Nat /\ Len(wire') \in Nat
  BY LenProperties DEF TypeOK
<1>3. ASSUME NEW i \in 1..Len(up), up[i].type = "spawn_agent", up[i].key = c
      PROVE  Travels(c)'
  <2>1. CASE i = 1
    BY <1>0, <1>3, <2>1 DEF Travels
  <2>2. CASE i # 1
    <3>1. i - 1 \in 1..Len(up') /\ up'[i - 1] = up[i]
      BY <1>1, <2>2
    <3> QED BY <1>3, <3>1 DEF Travels
  <2> QED BY <2>1, <2>2
<1>4. ASSUME NEW i \in 1..Len(wire), Answers(wire[i], c)
      PROVE  Travels(c)'
  <2>1. i \in 1..Len(wire') /\ wire'[i] = wire[i]
    BY <1>0, <1>2 DEF Longer, Grows
  <2> QED BY <1>4, <2>1 DEF Travels
<1> QED BY <1>3, <1>4 DEF Travels

\* The browser queues an answer behind every updater it already has.
LEMMA ReceiveTravels ==
    ASSUME TypeOK, TypeOK', Receive, NEW c \in Corrs, NEW n \in 0..Len(todo), Travels(c)
    PROVE  Travels(c)' \/ Arrives(c, n)'
<1>0. /\ wire # <<>> /\ wire' = Tail(wire) /\ up' = up
      /\ todo' = Append(todo, [do |-> "reduce", m |-> Head(wire)])
  BY DEF Receive
<1>1. /\ Head(wire) \in Frames /\ Head(wire) = wire[1] /\ Len(wire) \in Nat \ {0}
      /\ Len(wire') = Len(wire) - 1 /\ \A i \in 2..Len(wire) : wire'[i - 1] = wire[i]
  BY <1>0, TailOf DEF TypeOK
<1>2. Len(todo) \in Nat
  BY LenProperties DEF TypeOK
<1>3. /\ Len(todo') = Len(todo) + 1
      /\ todo'[Len(todo) + 1] = [do |-> "reduce", m |-> wire[1]]
  <2>1. [do |-> "reduce", m |-> Head(wire)] \in Updaters
    BY <1>1, MakesUpdater
  <2> QED BY <1>0, <1>1, <2>1, AppendGrows DEF TypeOK
<1>4. ASSUME NEW i \in 1..Len(wire), Answers(wire[i], c)
      PROVE  Travels(c)' \/ Arrives(c, n)'
  <2>1. CASE i = 1
    <3>1. /\ Len(todo) + 1 \in 1..Len(todo') /\ Len(todo) + 1 > n
          /\ todo'[Len(todo) + 1].do = "reduce" /\ Answers(todo'[Len(todo) + 1].m, c)
      BY <1>2, <1>3, <1>4, <2>1
    <3> QED BY <3>1 DEF Arrives
  <2>2. CASE i # 1
    <3>1. i - 1 \in 1..Len(wire') /\ wire'[i - 1] = wire[i]
      BY <1>1, <2>2
    <3> QED BY <1>4, <3>1 DEF Travels
  <2> QED BY <2>1, <2>2
<1> QED BY <1>0, <1>4 DEF Travels

\* The console asks for a spawn and queues the updater that awaits it.
LEMMA SpawnAgentStep ==
    ASSUME TypeOK, TypeOK', SpawnInv, SpawnAgent
    PROVE  SpawnInv'
<1>k. PICK k \in Corrs : k = clicks + 1
  BY CommandsAssumption DEF SpawnAgent, Counted, Corrs, TypeOK
<1>0. /\ k \in Corrs /\ clicks' = k /\ Len(todo) \in Nat /\ Len(todo') \in Nat /\ clicks \in Nat
      /\ conn \in {0, drops + 1} /\ drops \in Nat /\ via \in [Corrs -> Nat]
      /\ up \in Seq(Commands) /\ todo \in Seq(Updaters) /\ wire \in Seq(Frames)
  BY <1>k, LenProperties, CommandsAssumption DEF SpawnAgent, Counted, Corrs, TypeOK
<1>1. /\ up' = IF conn # 0 THEN Append(up, [type |-> "spawn_agent", key |-> k]) ELSE up
      /\ todo' = Append(todo, [do |-> "spawn", corr |-> k, sent |-> conn # 0])
      /\ via' = [via EXCEPT ![k] = conn]
      /\ UNCHANGED <<conn, drops, wire, view>>
  BY <1>0, <1>k DEF SpawnAgent
<1>2. /\ Grows(todo', todo) /\ Len(todo') = Len(todo) + 1
      /\ todo'[Len(todo) + 1] = [do |-> "spawn", corr |-> k, sent |-> conn # 0]
  <2>1. [do |-> "spawn", corr |-> k, sent |-> conn # 0] \in Updaters
    BY <1>0, MakesUpdater
  <2> QED BY <1>0, <1>1, <2>1, AppendGrows
<1>3. /\ Grows(up', up)
      /\ conn # 0 => Len(up) + 1 \in 1..Len(up')
                     /\ up'[Len(up) + 1] = [type |-> "spawn_agent", key |-> k]
  <2>1. [type |-> "spawn_agent", key |-> k] \in Commands
    BY <1>0, MakesCommand
  <2>2. Len(up) \in Nat
    BY <1>0, LenProperties
  <2>3. CASE conn # 0
    <3>1. up' = Append(up, [type |-> "spawn_agent", key |-> k])
      BY <1>1, <2>3
    <3> QED BY <1>0, <2>1, <2>2, <3>1, AppendGrows
  <2>4. CASE conn = 0
    BY <1>0, <1>1, <2>4, GrowsSelf
  <2> QED BY <2>3, <2>4
<1>4. Grows(wire', wire)
  BY <1>0, <1>1, GrowsSelf
<1>5. ASSUME NEW c \in Corrs, c <= clicks, NEW n \in Nat, Awaited(c, n)
      PROVE  Awaited(c, n)'
  <2>1. via'[c] = via[c] /\ conn' = conn
    BY <1>0, <1>1, <1>5, <1>k DEF Corrs
  <2>2. Travels(c) => Travels(c)'
    BY <1>3, <1>4, TravelsOn
  <2>3. Arrives(c, n) => Arrives(c, n)'
    BY <1>2, ArrivesOn
  <2> QED BY <1>5, <2>1, <2>2, <2>3 DEF Awaited
<1>6. SpawnShown'
  BY <1>1 DEF SpawnInv, SpawnShown
<1>7. \A c \in Corrs : via'[c] <= (IF conn' = 0 THEN drops' ELSE drops' + 1)
  <2> TAKE c \in Corrs
  <2>1. via[c] <= (IF conn = 0 THEN drops ELSE drops + 1)
    BY DEF SpawnInv
  <2> QED BY <1>0, <1>1, <2>1
<1>8. view'.spawn.phase = "pending" =>
         view'.spawn.corr \in 1..clicks' /\ Awaited(view.spawn.corr, 0)'
  <2> SUFFICES ASSUME view.spawn.phase = "pending"
               PROVE  view.spawn.corr \in 1..clicks' /\ Awaited(view.spawn.corr, 0)'
    BY <1>1
  <2>1. view.spawn.corr \in 1..clicks /\ Awaited(view.spawn.corr, 0)
    BY DEF SpawnInv
  <2>2. PICK c \in Corrs : c = view.spawn.corr
    BY <2>1, CommandsAssumption DEF Corrs, TypeOK
  <2>3. Awaited(c, 0)'
    BY <1>0, <1>5, <2>1, <2>2
  <2>4. view'.spawn.corr = c
    BY <1>1, <2>2
  <2> QED BY <1>0, <2>1, <2>2, <1>k, <2>3, <2>4
<1>9. ASSUME NEW i \in 1..Len(todo'), todo'[i].do = "spawn"
       PROVE  todo'[i].corr <= clicks' /\ (todo'[i].sent => Awaited(todo[i].corr, i)')
  <2>1. CASE i \in 1..Len(todo)
    <3>1. todo'[i] = todo[i] /\ i \in Nat
      BY <1>2, <2>1 DEF Grows
    <3>2. PICK c \in Corrs : c = todo[i].corr
      <4>1. todo[i] \in Updaters
        BY <1>0, <2>1, ElementOfSeq
      <4> QED BY <1>9, <3>1, <4>1, UpdaterIs
    <3>3. c <= clicks /\ (todo[i].sent => Awaited(c, i))
      BY <1>9, <2>1, <3>1, <3>2 DEF SpawnInv
    <3>4. todo[i].sent => Awaited(c, i)'
      BY <1>5, <3>1, <3>3
    <3>5. c <= clicks'
      BY <1>0, <1>k, <3>3 DEF Corrs
    <3> QED BY <3>1, <3>2, <3>4, <3>5
  <2>2. CASE i \notin 1..Len(todo)
    <3>1. PICK n \in Nat : n = Len(todo) + 1
      BY <1>0
    <3>2. i = n
      BY <1>0, <1>2, <2>2, <3>1
    <3>3. todo'[i].corr = k /\ todo'[i].sent = (conn # 0)
      BY <1>2, <3>1, <3>2
    <3>4. conn # 0 => Awaited(k, n)'
      <4> SUFFICES ASSUME conn # 0 PROVE via'[k] # 0 /\ Travels(k)'
        BY DEF Awaited
      <4>1. via'[k] # 0
        BY <1>0, <1>1
      <4>2. up'[Len(up) + 1].type = "spawn_agent" /\ up'[Len(up) + 1].key = k
        BY <1>3
      <4> QED BY <1>3, <4>1, <4>2 DEF Travels
    <3>5. k <= clicks'
      BY <1>0 DEF Corrs
    <3>6. todo'[i].sent => Awaited(todo[i].corr, i)'
      <4> SUFFICES ASSUME todo'[i].sent PROVE Awaited(todo[i].corr, i)'
        OBVIOUS
      <4>1. Awaited(k, n)'
        BY <3>3, <3>4
      <4> QED BY <3>2, <3>3, <4>1
    <3> QED BY <3>3, <3>5, <3>6
  <2> QED BY <2>1, <2>2
<1> QED BY <1>6, <1>7, <1>8, <1>9 DEF SpawnInv

\* A frame changes the spawn on show only by answering it.
LEMMA ReduceSpawn ==
    ASSUME NEW v, "spawn" \in DOMAIN v, v.spawn \in SpawnStates, NEW m \in Frames
    PROVE  /\ "spawn" \in DOMAIN Reduce(v, m)
           /\ \/ /\ Reduce(v, m).spawn = v.spawn
                 /\ ~(v.spawn.phase = "pending" /\ Answers(m, v.spawn.corr))
              \/ /\ Reduce(v, m).spawn \in SpawnStates
                 /\ Reduce(v, m).spawn.phase # "pending"
<1>0. m.type \in {"new_decision", "decision_resolved", "web_reauth_required",
                  "install_hooks_result", "command_error", "agent_spawn_queued",
                  "welcome", "queue_snapshot"}
  BY FrameIs
<1>1. CASE m.type = "welcome"
  BY <1>1 DEF Reduce, Welcome, Answers
<1>2. CASE m.type = "queue_snapshot"
  BY <1>2 DEF Reduce, QueueSnapshot, Answers
<1>3. CASE m.type = "new_decision"
  BY <1>3 DEF Reduce, NewDecision, Answers
<1>4. CASE m.type = "decision_resolved"
  <2>1. Reduce(v, m) = DecisionResolved(v, m)
    BY <1>4 DEF Reduce
  <2> QED BY <1>4, <2>1 DEF DecisionResolved, Answers
<1>5. CASE m.type = "web_reauth_required"
  <2>1. Reduce(v, m) = WebReauthRequired(v, m)
    BY <1>5 DEF Reduce
  <2> QED BY <1>5, <2>1 DEF WebReauthRequired, Answers
<1>6. CASE m.type = "install_hooks_result"
  <2>1. Reduce(v, m) = InstallHooksResult(v, m)
    BY <1>6 DEF Reduce
  <2> QED BY <1>6, <2>1 DEF InstallHooksResult, Answers
<1>7. CASE m.type = "command_error"
  <2>1. Reduce(v, m) = CommandError(v, m)
    BY <1>7 DEF Reduce
  <2>2. CASE v.spawn.phase \in {"pending", "queued"} /\ m.corr = v.spawn.corr
    <3>1. Reduce(v, m) = [v EXCEPT !.spawn = [v.spawn EXCEPT !.phase = "refused"]]
      BY <2>1, <2>2 DEF CommandError
    <3>2. /\ "spawn" \in DOMAIN Reduce(v, m)
          /\ Reduce(v, m).spawn = [v.spawn EXCEPT !.phase = "refused"]
      BY <3>1
    <3> QED BY <3>2 DEF SpawnStates
  <2>3. CASE ~(v.spawn.phase \in {"pending", "queued"} /\ m.corr = v.spawn.corr)
    <3>1. Reduce(v, m) = [v EXCEPT !.errors = AppendError(v.errors, "daemon", m.text)]
      BY <2>1, <2>3 DEF CommandError, ErrorFrame
    <3>2. "spawn" \in DOMAIN Reduce(v, m) /\ Reduce(v, m).spawn = v.spawn
      BY <3>1
    <3> QED BY <2>3, <3>2 DEF Answers
  <2> QED BY <2>2, <2>3
<1>8. CASE m.type = "agent_spawn_queued"
  <2>1. Reduce(v, m) = AgentSpawnQueued(v, m)
    BY <1>8 DEF Reduce
  <2>2. CASE v.spawn.phase = "pending" /\ m.corr = v.spawn.corr
    <3>1. m.id \in Ids
      BY <1>8, FrameIs
    <3>2. Reduce(v, m) = [v EXCEPT !.spawn = [v.spawn EXCEPT !.phase = "queued", !.decision = m.id]]
      BY <2>1, <2>2 DEF AgentSpawnQueued
    <3>3. /\ "spawn" \in DOMAIN Reduce(v, m)
          /\ Reduce(v, m).spawn = [v.spawn EXCEPT !.phase = "queued", !.decision = m.id]
      BY <3>2
    <3> QED BY <3>1, <3>3 DEF SpawnStates
  <2>3. CASE ~(v.spawn.phase = "pending" /\ m.corr = v.spawn.corr)
    BY <2>1, <2>3 DEF AgentSpawnQueued, Answers
  <2> QED BY <2>2, <2>3
<1> QED BY <1>0, <1>1, <1>2, <1>3, <1>4, <1>5, <1>6, <1>7, <1>8

\* The first updater has run: what the rest await is one place nearer.
LEMMA OneNearer ==
    ASSUME TypeOK, TypeOK', todo # <<>>, Grows(todo', Tail(todo)),
           Grows(up', up), UNCHANGED <<wire, via, conn>>,
           NEW c \in Corrs, NEW n \in 1..Len(todo), Awaited(c, n)
    PROVE  Awaited(c, n - 1)'
<1>0. /\ Len(todo) \in Nat \ {0} /\ Len(Tail(todo)) = Len(todo) - 1 /\ Len(todo') \in Nat
      /\ \A i \in 2..Len(todo) : Tail(todo)[i - 1] = todo[i]
  BY TailOf, LenProperties DEF TypeOK
<1>1. Grows(wire', wire)
  BY GrowsSelf DEF TypeOK
<1>2. Travels(c) => Travels(c)'
  BY <1>1, TravelsOn
<1>3. ASSUME Arrives(c, n) PROVE Arrives(c, n - 1)'
  <2>1. PICK j \in 1..Len(todo) : j > n /\ todo[j].do = "reduce" /\ Answers(todo[j].m, c)
    BY <1>3 DEF Arrives
  <2>2. j \in 2..Len(todo) /\ j - 1 \in 1..Len(Tail(todo)) /\ j - 1 > n - 1
    BY <1>0, <2>1
  <2>3. j - 1 \in 1..Len(todo') /\ todo'[j - 1] = todo[j]
    BY <1>0, <2>2 DEF Grows
  <2> QED BY <2>1, <2>2, <2>3 DEF Arrives
<1> QED BY <1>2, <1>3 DEF Awaited

LEMMA UpdaterQueues ==
    ASSUME TypeOK, RunUpdater
    PROVE  /\ todo # <<>> /\ Grows(todo', Tail(todo)) /\ Grows(up', up)
           /\ \A i \in 1..Len(todo') : i > Len(Tail(todo)) => todo'[i].do # "spawn"
           /\ UNCHANGED <<wire, via, conn, drops, clicks>>
<1>0. todo # <<>> /\ UNCHANGED <<wire, via, conn, drops, clicks>>
  BY DEF RunUpdater
<1>1. Tail(todo) \in Seq(Updaters) /\ up \in Seq(Commands) /\ Len(Tail(todo)) \in Nat
  BY <1>0, TailOf, LenProperties DEF TypeOK
<1>2. CASE todo' = Tail(todo) /\ up' = up
  <2>1. Grows(todo', Tail(todo)) /\ Grows(up', up)
    BY <1>1, <1>2, GrowsSelf
  <2>2. \A i \in 1..Len(todo') : ~(i > Len(Tail(todo)))
    BY <1>1, <1>2
  <2> QED BY <1>0, <2>1, <2>2
<1>3. CASE RetryUpdater
  <2>1. \A r \in ErrorRows : r.do # "spawn"
    BY DEF ErrorRows
  <2> QED BY <1>0, <1>3, <2>1, RetryQueues
<1> QED BY <1>2, <1>3 DEF RunUpdater, DismissUpdater, PureUpdater

LEMMA RunUpdaterStep ==
    ASSUME TypeOK, TypeOK', SpawnInv, RunUpdater
    PROVE  SpawnInv'
<1>0. /\ todo # <<>> /\ Grows(todo', Tail(todo)) /\ Grows(up', up)
      /\ \A i \in 1..Len(todo') : i > Len(Tail(todo)) => todo'[i].do # "spawn"
      /\ UNCHANGED <<wire, via, conn, drops, clicks>>
  BY UpdaterQueues
<1>1. /\ Head(todo) \in Updaters /\ Head(todo) = todo[1] /\ Len(todo) \in Nat \ {0}
      /\ Len(Tail(todo)) = Len(todo) - 1 /\ \A i \in 2..Len(todo) : Tail(todo)[i - 1] = todo[i]
      /\ Len(todo') \in Nat /\ todo \in Seq(Updaters)
  BY <1>0, TailOf, LenProperties DEF TypeOK
<1>2. ASSUME NEW c \in Corrs, Awaited(c, 1) PROVE Awaited(c, 0)'
  <2>1. 1 \in 1..Len(todo) /\ 1 - 1 = 0
    BY <1>1
  <2>2. Awaited(c, 1 - 1)'
    BY <1>0, <1>2, <2>1, OneNearer
  <2> QED BY <2>1, <2>2
<1>3. \A c \in Corrs : via'[c] <= (IF conn' = 0 THEN drops' ELSE drops' + 1)
  BY <1>0 DEF SpawnInv
<1>4. ASSUME NEW i \in 1..Len(todo'), todo'[i].do = "spawn"
      PROVE  todo'[i].corr <= clicks' /\ (todo'[i].sent => Awaited(todo[i].corr, i)')
  <2>1. i \in 1..Len(Tail(todo)) /\ i + 1 \in 2..Len(todo) /\ i + 1 \in 1..Len(todo)
        /\ (i + 1) - 1 = i
    BY <1>0, <1>1, <1>4
  <2>2. todo'[i] = todo[i + 1]
    BY <1>0, <1>1, <2>1 DEF Grows
  <2>3. PICK c \in Corrs : c = todo[i + 1].corr
    <3>1. todo[i + 1] \in Updaters
      BY <1>1, <2>1, ElementOfSeq
    <3> QED BY <1>4, <2>2, <3>1, UpdaterIs
  <2>4. c <= clicks /\ (todo[i + 1].sent => Awaited(c, i + 1))
    BY <1>4, <2>1, <2>2, <2>3 DEF SpawnInv
  <2>5. todo[i + 1].sent => Awaited(c, i)'
    <3> SUFFICES ASSUME todo[i + 1].sent PROVE Awaited(c, i)'
      OBVIOUS
    <3>1. Awaited(c, (i + 1) - 1)'
      BY <1>0, <2>1, <2>4, OneNearer
    <3> QED BY <2>1, <3>1
  <2>6. todo'[i].sent => Awaited(todo[i].corr, i)'
    <3> SUFFICES ASSUME todo'[i].sent PROVE Awaited(todo[i].corr, i)'
      OBVIOUS
    <3>1. Awaited(c, i)'
      BY <2>2, <2>5
    <3>2. todo'[i].corr = c
      BY <2>2, <2>3
    <3> QED BY <3>1, <3>2
  <2> QED BY <1>0, <2>2, <2>3, <2>4, <2>6
\* the view shows another phase, or the same and its answer is still ahead
<1>5. ASSUME SpawnShown', view'.spawn.phase # "pending"
      PROVE  SpawnInv'
  BY <1>3, <1>4, <1>5 DEF SpawnInv
<1>6. ASSUME SpawnShown', NEW c \in Corrs, view'.spawn.corr = c, c <= clicks, Awaited(c, 1)
      PROVE  SpawnInv'
  <2>1. Awaited(c, 0)'
    BY <1>2, <1>6
  <2>2. c \in 1..clicks'
    BY <1>0, <1>6, CommandsAssumption DEF Corrs, TypeOK
  <2>3. view'.spawn.corr \in 1..clicks' /\ Awaited(view.spawn.corr, 0)'
    BY <1>6, <2>1, <2>2
  <2> QED BY <1>3, <1>4, <1>6, <2>3 DEF SpawnInv
<1>7. ASSUME "spawn" \in DOMAIN view', view'.spawn = view.spawn,
             ~(/\ view.spawn.phase = "pending" /\ todo[1].do = "reduce"
               /\ Answers(todo[1].m, view.spawn.corr))
      PROVE  SpawnInv'
  <2>0. SpawnShown'
    BY <1>7 DEF SpawnInv, SpawnShown
  <2>1. CASE view.spawn.phase # "pending"
    BY <1>5, <1>7, <2>0, <2>1
  <2>2. CASE view.spawn.phase = "pending"
    <3>1. view.spawn.corr \in 1..clicks /\ Awaited(view.spawn.corr, 0)
      BY <2>2 DEF SpawnInv
    <3>2. PICK c \in Corrs : c = view.spawn.corr
      BY <3>1, CommandsAssumption DEF Corrs, TypeOK
    <3>3. Arrives(c, 0) => Arrives(c, 1)
      <4> SUFFICES ASSUME Arrives(c, 0) PROVE Arrives(c, 1)
        OBVIOUS
      <4>1. PICK j \in 1..Len(todo) : todo[j].do = "reduce" /\ Answers(todo[j].m, c)
        BY DEF Arrives
      <4>2. j # 1
        BY <1>7, <2>2, <3>2, <4>1
      <4>3. j > 1
        BY <4>2
      <4> QED BY <4>1, <4>3 DEF Arrives
    <3>4. Awaited(c, 1)
      BY <3>1, <3>2, <3>3 DEF Awaited
    <3>5. c <= clicks /\ view'.spawn.corr = c
      BY <1>7, <3>1, <3>2 DEF TypeOK
    <3> QED BY <1>6, <2>0, <3>4, <3>5
  <2> QED BY <2>1, <2>2
<1>8. "spawn" \in DOMAIN view /\ view.spawn \in SpawnStates
  BY DEF SpawnInv, SpawnShown
<1>9. CASE Head(todo).do = "dismiss" /\ DismissUpdater
  <2>1. view' = [view EXCEPT !.reauth = NoId]
    BY <1>9 DEF DismissUpdater
  <2>2. "spawn" \in DOMAIN view' /\ view'.spawn = view.spawn
    BY <1>8, <2>1
  <2> QED BY <1>1, <1>7, <1>9, <2>2
<1>10. CASE Head(todo).do = "retry" /\ RetryUpdater
  <2>1. view' = [view EXCEPT !.reauth = NoId]
    BY <1>10, RetryRefs
  <2>2. "spawn" \in DOMAIN view' /\ view'.spawn = view.spawn
    BY <1>8, <2>1
  <2> QED BY <1>1, <1>7, <1>10, <2>2
<1>11. CASE Head(todo).do \notin {"dismiss", "retry"} /\ PureUpdater(Head(todo))
  <2>0. view' = NextView(todo[1])
    BY <1>1, <1>11 DEF PureUpdater
  <2>1. CASE todo[1].do = "reduce"
    <3>1. todo[1].m \in Frames
      BY <1>1, <2>1, UpdaterIs
    <3>2. view' = Reduce(view, todo[1].m)
      BY <2>0, <2>1 DEF NextView
    <3>3. PICK m \in Frames : m = todo[1].m
      BY <3>1
    <3>4. /\ "spawn" \in DOMAIN view'
          /\ \/ /\ view'.spawn = view.spawn
                /\ ~(view.spawn.phase = "pending" /\ Answers(m, view.spawn.corr))
             \/ view'.spawn \in SpawnStates /\ view'.spawn.phase # "pending"
      BY <1>8, <3>2, <3>3, ReduceSpawn
    <3>5. CASE view'.spawn = view.spawn /\ ~(view.spawn.phase = "pending" /\ Answers(m, view.spawn.corr))
      BY <1>7, <3>3, <3>4, <3>5
    <3>6. CASE view'.spawn \in SpawnStates /\ view'.spawn.phase # "pending"
      <4>1. SpawnShown'
        BY <3>4, <3>6 DEF SpawnShown
      <4> QED BY <1>5, <3>6, <4>1
    <3> QED BY <3>4, <3>5, <3>6
  <2>2. CASE todo[1].do = "error"
    <3>1. view' = [view EXCEPT !.errors = AppendError(view.errors, "client", todo[1].text)]
      BY <2>0, <2>2 DEF NextView
    <3>2. "spawn" \in DOMAIN view' /\ view'.spawn = view.spawn
      BY <1>8, <3>1
    <3> QED BY <1>7, <2>2, <3>2
  <2>3. CASE todo[1].do = "spawn"
    <3>1. PICK c \in Corrs : c = todo[1].corr
      BY <1>1, <2>3, UpdaterIs
    <3>2. view' = [view EXCEPT !.spawn = [phase |-> IF todo[1].sent THEN "pending" ELSE "refused",
                                         corr |-> c, decision |-> NoId]]
      BY <2>0, <2>3, <3>1 DEF NextView
    <3>3. /\ "spawn" \in DOMAIN view'
          /\ view'.spawn = [phase |-> IF todo[1].sent THEN "pending" ELSE "refused",
                            corr |-> c, decision |-> NoId]
      BY <1>8, <3>2
    <3>4. SpawnShown'
      BY <3>3 DEF SpawnShown, SpawnStates
    <3>5. CASE ~todo[1].sent
      BY <1>5, <3>3, <3>4, <3>5
    <3>6. CASE todo[1].sent
      <4>1. 1 \in 1..Len(todo)
        BY <1>1
      <4>2. c <= clicks /\ Awaited(c, 1)
        BY <2>3, <3>1, <3>6, <4>1 DEF SpawnInv
      <4>3. view'.spawn.corr = c
        BY <3>3
      <4> QED BY <1>6, <3>4, <4>2, <4>3
    <3> QED BY <3>5, <3>6
  <2>4. CASE todo[1].do = "clear"
    <3>1. view' = [view EXCEPT !.spawn = Idle]
      BY <2>0, <2>4 DEF NextView
    <3>2. "spawn" \in DOMAIN view' /\ view'.spawn = Idle
      BY <1>8, <3>1
    <3>3. SpawnShown' /\ view'.spawn.phase # "pending"
      BY <3>2 DEF SpawnShown, SpawnStates, Idle
    <3> QED BY <1>5, <3>3
  <2> QED BY <1>1, <1>11, <2>1, <2>2, <2>3, <2>4, UpdaterIs
<1> QED BY <1>9, <1>10, <1>11 DEF RunUpdater

LEMMA SpawnStep == TypeOK /\ TypeOK' /\ SpawnInv /\ [Next]_vars => SpawnInv'
<1> SUFFICES ASSUME TypeOK, TypeOK', SpawnInv, [Next]_vars
             PROVE  SpawnInv'
  OBVIOUS
<1> USE DEF daemonVars, netVars, refVars, ghostVars
<1>0. /\ up \in Seq(Commands) /\ wire \in Seq(Frames) /\ todo \in Seq(Updaters)
      /\ Grows(up, up) /\ Grows(wire, wire) /\ clicks \in Nat /\ SpawnShown
      /\ drops \in Nat /\ conn \in {0, drops + 1} /\ via \in [Corrs -> Nat]
  BY GrowsSelf, CommandsAssumption DEF TypeOK, SpawnInv
\* queues grow and nothing is taken from them
<1>1. ASSUME Grows(up', up), Grows(wire', wire), UNCHANGED <<via, conn, drops>>, clicks <= clicks',
             SpawnShown', view'.spawn = view.spawn,
             \/ todo' = todo
             \/ \E u \in Updaters : u.do # "spawn" /\ todo' = Append(todo, u)
      PROVE  SpawnInv'
  <2>1. Grows(todo', todo) /\ NoNewSpawn
    BY <1>1, NothingQueued
  <2>2. \A c \in Corrs, n \in 0..Len(todo) : Travels(c) => Travels(c)' \/ Arrives(c, n)'
    BY <1>1, TravelsOn
  <2> QED BY <1>1, <2>1, <2>2, SpawnKept
<1>2. ASSUME NEW d \in Ids, Enqueue(d) \/ OtherResolve(d)
      PROVE  SpawnInv'
  <2>1. Grows(wire', wire)
    BY <1>2, MakesFrame, BroadcastGrows DEF Enqueue, OtherResolve, Longer
  <2>2. UNCHANGED <<via, conn, drops, clicks, view, todo, up>>
    BY <1>2 DEF Enqueue, OtherResolve
  <2> QED BY <1>0, <1>1, <2>1, <2>2 DEF SpawnShown
<1>3. ASSUME NEW c \in Corrs, WorkerFails(c)
      PROVE  SpawnInv'
  <2>1. Grows(wire', wire)
    BY <1>3, MakesFrame, BroadcastGrows DEF WorkerFails, Longer
  <2>2. UNCHANGED <<via, conn, drops, clicks, view, todo, up>>
    BY <1>3 DEF WorkerFails
  <2> QED BY <1>0, <1>1, <2>1, <2>2 DEF SpawnShown
<1>4. ASSUME NEW c \in Commands, Send(c), c.type # "spawn_agent", Counted,
             UNCHANGED <<via, conn, drops, wire, view>>
      PROVE  SpawnInv'
  <2>1. Grows(up', up) /\ (todo' = todo \/ todo' = Append(todo, [do |-> "error", text |-> c.type]))
    BY <1>4, SendGrows DEF Longer
  <2>2. [do |-> "error", text |-> c.type] \in Updaters
    BY <1>4, CommandIs, MakesUpdater
  <2>3. \/ todo' = todo
        \/ \E u \in Updaters : u.do # "spawn" /\ todo' = Append(todo, u)
    BY <2>1, <2>2
  <2>4. clicks <= clicks'
    BY <1>0, <1>4 DEF Counted
  <2> QED BY <1>0, <1>1, <1>4, <2>1, <2>3, <2>4 DEF SpawnShown
<1>5. ASSUME NEW d \in Ids, Approve(d) \/ Deny(d)
      PROVE  SpawnInv'
  <2>1. [type |-> "approve", key |-> d] \in Commands /\ [type |-> "deny", key |-> d] \in Commands
    BY MakesCommand
  <2> QED BY <1>4, <1>5, <2>1 DEF Approve, Deny
<1>6. ASSUME NEW p \in Projects, InstallHooks(p)
      PROVE  SpawnInv'
  <2>1. [type |-> "install_hooks", key |-> p] \in Commands
    BY MakesCommand
  <2> QED BY <1>4, <1>6, <2>1 DEF InstallHooks
<1>7. CASE SpawnAgent
  BY <1>7, SpawnAgentStep
<1>8. CASE ClearSpawn \/ ReauthAnswered \/ CancelReauth
  <2>1. /\ [do |-> "clear"] \in Updaters /\ [do |-> "retry"] \in Updaters
        /\ [do |-> "dismiss"] \in Updaters
    BY MakesUpdater
  <2>2. \/ todo' = todo
        \/ \E u \in Updaters : u.do # "spawn" /\ todo' = Append(todo, u)
    BY <1>8, <2>1 DEF ClearSpawn, ReauthAnswered, CancelReauth
  <2>3. UNCHANGED <<via, conn, drops, clicks, view, wire, up>>
    BY <1>8 DEF ClearSpawn, ReauthAnswered, CancelReauth
  <2> QED BY <1>0, <1>1, <2>2, <2>3 DEF SpawnShown
<1>9. CASE Dismiss
  <2>1. UNCHANGED <<via, conn, drops, clicks, todo, wire, up>>
    BY <1>9 DEF Dismiss
  <2>2. "spawn" \in DOMAIN view' /\ view'.spawn = view.spawn
    BY <1>0, <1>9 DEF Dismiss, DismissError, SpawnShown
  <2>3. SpawnShown'
    BY <1>0, <2>2 DEF SpawnShown
  <2> QED BY <1>0, <1>1, <2>1, <2>2, <2>3
<1>10. CASE SubmitReauth \/ ReauthHandled \/ Lapse \/ UNCHANGED vars
  <2>1. UNCHANGED <<via, conn, drops, clicks, todo, wire, up, view>>
    BY <1>10 DEF SubmitReauth, ReauthHandled, Lapse, vars
  <2> QED BY <1>0, <1>1, <2>1 DEF SpawnShown
<1>11. CASE ReadCommand
  <2>1. UNCHANGED <<via, conn, drops, clicks, todo, view>>
    BY <1>11 DEF ReadCommand
  <2>2. Grows(todo', todo) /\ NoNewSpawn
    BY <2>1, NothingQueued
  <2>3. \A c \in Corrs, n \in 0..Len(todo) : Travels(c) => Travels(c)' \/ Arrives(c, n)'
    BY <1>11, ReadTravels
  <2> QED BY <1>0, <2>1, <2>2, <2>3, SpawnKept DEF SpawnShown
<1>12. CASE Receive
  <2>1. UNCHANGED <<via, conn, drops, clicks, view>>
    BY <1>12 DEF Receive
  <2>2. Grows(todo', todo) /\ NoNewSpawn
    <3>1. Head(wire) \in Frames
      BY <1>12, TailOf DEF Receive, TypeOK
    <3>2. [do |-> "reduce", m |-> Head(wire)] \in Updaters
      BY <3>1, MakesUpdater
    <3> QED BY <1>12, <3>2, NothingQueued DEF Receive
  <2>3. \A c \in Corrs, n \in 0..Len(todo) : Travels(c) => Travels(c)' \/ Arrives(c, n)'
    BY <1>12, ReceiveTravels
  <2> QED BY <1>0, <2>1, <2>2, <2>3, SpawnKept DEF SpawnShown
<1>13. CASE RunUpdater
  BY <1>13, RunUpdaterStep
\* no spawn was sent on a connection still to come, nor on none
<1>14. CASE WrongPassword
  <2>1. /\ todo' = <<>> /\ conn' = 0 /\ drops' = drops + 1 /\ via' = via /\ view' = EmptyView
    BY <1>14 DEF WrongPassword
  <2>2. SpawnShown' /\ view'.spawn.phase # "pending"
    BY <2>1 DEF SpawnShown, SpawnStates, EmptyView, Idle
  <2>3. \A c \in Corrs : via'[c] <= drops'
    BY <1>0, <2>1 DEF SpawnInv
  <2> QED BY <2>1, <2>2, <2>3 DEF SpawnInv
<1>15. CASE Drop \/ Relink
  <2>1. /\ UNCHANGED <<todo, via, view, clicks>>
        /\ \A c \in Corrs : via'[c] <= (IF conn' = 0 THEN drops' ELSE drops' + 1)
        /\ \A c \in Corrs : via[c] # 0 => via'[c] # conn'
    <3>1. CASE Drop
      BY <1>0, <3>1 DEF Drop, SpawnInv
    <3>2. CASE Relink
      BY <1>0, <3>2 DEF Relink, SpawnInv
    <3> QED BY <1>15, <3>1, <3>2
  <2>2. ASSUME NEW c \in Corrs, NEW n, Awaited(c, n) PROVE Awaited(c, n)'
    BY <2>1, <2>2 DEF Awaited
  <2>3. SpawnShown'
    BY <1>0, <2>1 DEF SpawnShown
  <2>4. view'.spawn.phase = "pending" =>
          view'.spawn.corr \in 1..clicks' /\ Awaited(view.spawn.corr, 0)'
    <3> SUFFICES ASSUME view.spawn.phase = "pending"
                 PROVE  view'.spawn.corr \in 1..clicks' /\ Awaited(view.spawn.corr, 0)'
      BY <2>1
    <3>1. view.spawn.corr \in 1..clicks /\ Awaited(view.spawn.corr, 0)
      BY DEF SpawnInv
    <3>2. PICK c \in Corrs : c = view.spawn.corr
      BY <3>1, CommandsAssumption DEF Corrs, TypeOK
    <3>3. Awaited(c, 0)' /\ view'.spawn.corr = c
      BY <2>1, <2>2, <3>1, <3>2
    <3> QED BY <2>1, <3>1, <3>2, <3>3
  <2>5. ASSUME NEW i \in 1..Len(todo'), todo'[i].do = "spawn"
        PROVE  todo'[i].corr <= clicks' /\ (todo'[i].sent => Awaited(todo[i].corr, i)')
    <3>1. todo'[i] = todo[i] /\ i \in 1..Len(todo) /\ todo[i].do = "spawn"
      BY <2>1, <2>5
    <3>2. todo[i].corr \in Corrs
      BY <1>0, <3>1, ElementOfSeq, UpdaterIs
    <3>3. PICK c \in Corrs : c = todo[i].corr
      BY <3>2
    <3>4. c <= clicks /\ (todo[i].sent => Awaited(c, i))
      BY <3>1, <3>3 DEF SpawnInv
    <3>5. todo[i].sent => Awaited(c, i)'
      BY <2>2, <3>4
    <3>6. todo'[i].corr = c
      BY <3>1, <3>3
    <3> QED BY <2>1, <3>1, <3>4, <3>5, <3>6
  <2> QED BY <2>1, <2>3, <2>4, <2>5 DEF SpawnInv
<1> QED BY <1>2, <1>3, <1>5, <1>6, <1>7, <1>8, <1>9, <1>10, <1>11, <1>12, <1>13, <1>14,
           <1>15 DEF Next

LEMMA SpawnInit == Init => SpawnInv
<1> SUFFICES ASSUME Init PROVE SpawnInv
  OBVIOUS
<1>1. view.spawn = Idle /\ "spawn" \in DOMAIN view
  BY DEF Init, Welcome, EmptyView
<1>2. SpawnShown /\ view.spawn.phase # "pending"
  BY <1>1 DEF SpawnShown, SpawnStates, Idle
<1>3. todo = <<>> /\ conn = 1 /\ drops = 0 /\ \A c \in Corrs : via[c] = 0
  BY DEF Init
<1> QED BY <1>2, <1>3 DEF SpawnInv

\* The commands stay coherent with what the console shows: stashes, sends,
\* abandoned gates and tracked spawns, for every number of decisions,
\* projects, clicks and connections.
THEOREM CommandsCoherent == Spec => []CommandInv
<1>1. Init => CommandInv
  BY TypeInit, SentInit, GoneInit, SpawnInit DEF CommandInv
<1>2. CommandInv /\ [Next]_vars => CommandInv'
  BY TypeStep, SentStep, GoneStep, SpawnStep DEF CommandInv
<1> QED BY <1>1, <1>2, PTL DEF Spec

\* The spawn modal never waits for an answer that is not coming: each answer
\* is written to the connection that asked before the request is gone from it
\* and is folded in behind the updater that starts the wait (SpawnModal.tsx,
\* spawnAgent and the command_error and agent_spawn_queued cases).
THEOREM SpawnsAwaited == Spec => []PendingIsAwaited
<1>1. CommandInv => PendingIsAwaited
  <2> SUFFICES ASSUME CommandInv, view.spawn.phase = "pending", via[view.spawn.corr] = conn
               PROVE  PendingIsAwaited
    BY DEF PendingIsAwaited
  <2> DEFINE c == view.spawn.corr
  <2>1. Travels(c) \/ Arrives(c, 0)
    BY DEF CommandInv, SpawnInv, Awaited
  <2>2. DOMAIN up = 1..Len(up) /\ DOMAIN wire = 1..Len(wire) /\ DOMAIN todo = 1..Len(todo)
    BY LenProperties DEF CommandInv, TypeOK
  <2> QED BY <2>1, <2>2 DEF Travels, Arrives, Answers, PendingIsAwaited
<1> QED BY <1>1, CommandsCoherent, PTL

=============================================================================
