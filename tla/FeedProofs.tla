----------------------------- MODULE FeedProofs -----------------------------
(***************************************************************************)
(* Proofs about the two feeds of a decision log: the lines hooks append,   *)
(* on their way into the database, and the frames the daemon broadcasts,   *)
(* on their way into the browser console.                                  *)
(*                                                                         *)
(* Files only grow.  While the daemon recovers and prunes segments nobody  *)
(* writes to them, an import stands at the end of a line and has stored    *)
(* what it passed; so what is deleted was stored.  The import of the       *)
(* backlog ends behind the position from which the tail reads on.          *)
(*                                                                         *)
(* A subscription starts before the snapshots are taken.  What waits in    *)
(* its ring then is older than the queue snapshot and repeats what the     *)
(* snapshot says; what is sent later continues it.                         *)
(***************************************************************************)
EXTENDS EventIngest, WebFeed, TLAPS, SequenceTheorems, WellFoundedInduction

Files == ({live} \cup segs \cup failed) \ {None}
Writer(l) == hook[l] \in {"opened", "writing"}

FilesInv ==
    /\ live = None => Unused # {}
    /\ live \notin segs \cup failed
    /\ segs \cap failed = {}

WritersInv ==
    /\ \A l \in Lines : Writer(l) => fd[l] \in Files
    /\ \A l, k \in Lines :
          hook[l] = "writing" /\ hook[k] = "writing" /\ fd[l] = fd[k] => l = k
    /\ \A l \in Lines : hook[l] = "writing" =>
          /\ content[fd[l]] # <<>>
          /\ content[fd[l]][Len(content[fd[l]])] = <<l, "start">>
    /\ phase \in {"recover", "prune"} => WritersGone

\* Which phases import, and what.
ImportInv ==
    /\ imp # None => phase \in {"recover", "backlog", "segment"}
    /\ phase = "recover" /\ imp # None => imp.ino \in todo
    /\ phase = "segment" => imp # None /\ imp.ino \in segs
    /\ phase = "backlog" => imp # None /\ live # None /\ imp.ino = live
    /\ phase # "recover" => todo = {}

\* Position p of file i is behind a line.
Boundary(i, p) ==
    /\ p \in 0..Len(content[i])
    /\ p = 0 \/ p = Len(content[i]) \/ content[i][p][2] = "end"

\* The lines that stand in the file f up to position p are in S.
Holds(f, p, S) ==
    \A l \in Lines, q \in 1..p :
        /\ q \in 2..Len(f)
        /\ f[q] = <<l, "end">> /\ f[q - 1] = <<l, "start">>
        /\ q > 2 => f[q - 2][2] = "end"
        => l \in S

RecoverInv ==
    /\ phase = "recover" /\ imp # None =>
         Boundary(imp.ino, imp.pos) /\ Holds(content[imp.ino], imp.pos, decision_log)
    /\ phase \in {"recover", "prune"} /\ "scan" \notin Faults =>
         \A i \in segs \ todo : Holds(content[i], Len(content[i]), decision_log)

Passed == decision_log \cup missed

BacklogInv ==
    /\ phase = "backlog" =>
         /\ imp.pos \in 0..Len(content[live]) /\ offset \in 0..Len(content[live])
         /\ Holds(content[live], imp.pos, Passed)
    /\ phase = "open" =>
         /\ live = None => offset = 0
         /\ live # None => /\ offset \in 0..Len(content[live])
                           /\ Holds(content[live], offset, Passed)

TailInv ==
    phase \in Tailing =>
        /\ reader \in created
        /\ offset \in 0..Len(content[reader])
        /\ Holds(content[reader], offset, Passed)

\* An entry that the startup scan skipped may be pruned unread.
Kept == "scan" \notin Faults => NoLineLost

IngestInv == /\ TypeOK /\ FilesInv /\ WritersInv /\ ImportInv
             /\ RecoverInv /\ BacklogInv /\ TailInv /\ Kept

-----------------------------------------------------------------------------
(* Positions and lines *)

LEMMA MinIs ==
    ASSUME NEW S, S \subseteq Nat, S # {}
    PROVE  Min(S) \in S /\ \A y \in S : Min(S) <= y
<1> DEFINE R == OpToRel(<, Nat)
<1>1. IsWellFoundedOn(R, Nat)
  BY NatLessThanWellFounded
<1> HIDE DEF R
<1>2. \E x \in S : \A y \in S : ~(<<y, x>> \in R)
  BY <1>1, WFMin
<1>3. \A x, y \in Nat : ~(<<y, x>> \in R) => x <= y
  BY DEF R, OpToRel
<1>4. \E x \in S : \A y \in S : x <= y
  BY <1>2, <1>3
<1> QED BY <1>4 DEF Min

LEMMA LineEndIs ==
    ASSUME TypeOK, NEW i \in Inodes, NEW p \in 0..Len(content[i])
    PROVE  /\ LineEnd(i, p) \in p..Len(content[i])
           /\ p < Len(content[i]) => p < LineEnd(i, p)
           /\ \A k \in (p + 1)..(LineEnd(i, p) - 1) : content[i][k][2] # "end"
           /\ LineEnd(i, p) = Len(content[i]) \/ content[i][LineEnd(i, p)][2] = "end"
<1> DEFINE newlines == {k \in (p + 1)..Len(content[i]) : content[i][k][2] = "end"}
<1>0. Len(content[i]) \in Nat /\ p \in Nat
  BY DEF TypeOK
<1>1. CASE newlines = {}
  <2>1. LineEnd(i, p) = Len(content[i])
    BY <1>1 DEF LineEnd
  <2> QED BY <1>0, <1>1, <2>1
<1>2. CASE newlines # {}
  <2>1. LineEnd(i, p) = Min(newlines)
    BY <1>2 DEF LineEnd
  <2>2. newlines \subseteq Nat
    BY <1>0
  <2>3. Min(newlines) \in newlines /\ \A y \in newlines : Min(newlines) <= y
    BY <1>2, <2>2, MinIs
  <2>4. \A k \in (p + 1)..(LineEnd(i, p) - 1) : k \notin newlines
    BY <1>0, <2>1, <2>2, <2>3
  <2>5. LineEnd(i, p) \in (p + 1)..Len(content[i]) /\ content[i][LineEnd(i, p)][2] = "end"
    BY <2>1, <2>3
  <2>6. \A k \in (p + 1)..(LineEnd(i, p) - 1) : content[i][k][2] # "end"
    BY <1>0, <2>4, <2>5
  <2> HIDE DEF newlines
  <2> QED BY <1>0, <2>5, <2>6
<1> QED BY <1>1, <1>2

\* A line that stands between p and the end of the read: it is touched, and it
\* parses if p is behind a line.
LEMMA ReadsLine ==
    ASSUME TypeOK, NEW i \in Inodes, NEW p \in 0..Len(content[i]),
           NEW l \in Lines, NEW q \in (p + 1)..LineEnd(i, p), StandsAt(l, i, q)
    PROVE  /\ l \in Touched(i, p)
           /\ Boundary(i, p) => l \in Parsed(i, p)
<1>0. /\ p \in Nat /\ LineEnd(i, p) \in p..Len(content[i]) /\ Len(content[i]) \in Nat
      /\ content[i] \in Seq(Chunks)
  BY LineEndIs DEF TypeOK
<1>1. /\ q \in 2..Len(content[i])
      /\ content[i][q] = <<l, "end">> /\ content[i][q - 1] = <<l, "start">>
      /\ q > 2 => content[i][q - 2][2] = "end"
  BY DEF StandsAt
<1>2. l \in Touched(i, p)
  BY <1>0, <1>1 DEF Touched
<1>3. \A k \in (p + 1)..(LineEnd(i, p) - 1) : content[i][k][2] # "end"
  BY LineEndIs
<1>4. ASSUME Boundary(i, p) PROVE l \in Parsed(i, p)
  <2>1. q = LineEnd(i, p)
    <3>1. content[i][q][2] = "end"
      BY <1>1
    <3> QED BY <1>0, <1>1, <1>3, <3>1
  <2>2. p # q - 1
    <3>1. content[i][q - 1][2] # "end"
      BY <1>1
    <3> QED BY <1>0, <1>1, <1>4, <3>1 DEF Boundary
  <2>3. p = q - 2
    BY <1>0, <1>1, <1>3, <2>1, <2>2
  <2> DEFINE read == SubSeq(content[i], q - 1, q)
  <2>4. /\ read \in Seq(Chunks) /\ Len(read) = 2
        /\ read[1] = content[i][q - 1] /\ read[2] = content[i][q]
    <3>1. q - 1 \in Int /\ q \in Int /\ \A k \in (q - 1)..q : content[i][k] \in Chunks
      BY <1>0, <1>1
    <3>2. /\ read \in Seq(Chunks)
          /\ Len(read) = IF q - 1 <= q THEN q - (q - 1) + 1 ELSE 0
          /\ \A k \in 1..(q - (q - 1) + 1) : read[k] = content[i][(q - 1) + k - 1]
      BY <3>1, SubSeqProperties
    <3>3. /\ q - (q - 1) + 1 = 2 /\ q - 1 <= q
          /\ (q - 1) + 1 - 1 = q - 1 /\ (q - 1) + 2 - 1 = q
      BY <3>1
    <3> HIDE DEF read
    <3>4. Len(read) = 2 /\ read[1] = content[i][(q - 1) + 1 - 1]
          /\ read[2] = content[i][(q - 1) + 2 - 1]
      BY <3>2, <3>3
    <3> QED BY <3>2, <3>3, <3>4
  <2> HIDE DEF read
  <2>5. read = <<<<l, "start">>, <<l, "end">>>>
    <3> DEFINE line == <<<<l, "start">>, <<l, "end">>>>
    <3>1. <<l, "start">> \in Chunks /\ <<l, "end">> \in Chunks
      BY DEF Chunks
    <3>2. line \in Seq(Chunks) /\ Len(line) = 2
      BY <3>1
    <3>3. line[1] = read[1] /\ line[2] = read[2]
      BY <1>1, <2>4
    <3> HIDE DEF line
    <3>4. \A k \in 1..Len(read) : read[k] = line[k]
      BY <2>4, <3>3
    <3>5. read = line
      BY <2>4, <3>2, <3>4, SeqEqual
    <3> QED BY <3>5 DEF line
  <2>6. SubSeq(content[i], p + 1, LineEnd(i, p)) = read
    <3>1. p + 1 = q - 1
      BY <1>0, <1>1, <2>3
    <3> QED BY <2>1, <3>1 DEF read
  <2> QED BY <2>5, <2>6 DEF Parsed
<1> QED BY <1>2, <1>4

-----------------------------------------------------------------------------
(* Every step lets files, rows and passed lines only grow *)

Grows ==
    \A i \in Inodes : /\ Len(content[i]) <= Len(content'[i])
                      /\ \A q \in 1..Len(content[i]) : content'[i][q] = content[i][q]

LEMMA StandsStable ==
    ASSUME TypeOK, Grows, NEW i \in Inodes, NEW l, NEW q \in 1..Len(content[i])
    PROVE  StandsAt(l, i, q)' <=> StandsAt(l, i, q)
<1>1. /\ Len(content[i]) \in Nat /\ Len(content[i]) <= Len(content'[i])
      /\ \A k \in 1..Len(content[i]) : content'[i][k] = content[i][k]
  BY DEF TypeOK, Grows
<1>2. q \in 2..Len(content'[i]) <=> q \in 2..Len(content[i])
  <2>1. q \in Nat /\ q <= Len(content[i]) /\ Len(content'[i]) \in Nat
    BY <1>1 DEF Grows
  <2> QED BY <1>1, <2>1
<1>3. content'[i][q] = content[i][q]
  BY <1>1
<1>4. q \in 2..Len(content[i]) => content'[i][q - 1] = content[i][q - 1]
  <2>1. q \in 2..Len(content[i]) => q - 1 \in 1..Len(content[i])
    BY <1>1
  <2> QED BY <1>1, <2>1
<1>5. q \in 2..Len(content[i]) /\ q > 2 => content'[i][q - 2] = content[i][q - 2]
  <2>1. q \in 2..Len(content[i]) /\ q > 2 => q - 2 \in 1..Len(content[i])
    BY <1>1
  <2> QED BY <1>1, <2>1
<1> QED BY <1>2, <1>3, <1>4, <1>5 DEF StandsAt

\* What a file holds stays stored while the file and the set of lines grow.
LEMMA HoldsGrows ==
    ASSUME NEW f \in Seq(Chunks), NEW g \in Seq(Chunks), Len(f) <= Len(g),
           \A q \in 1..Len(f) : g[q] = f[q],
           NEW p \in 0..Len(f), NEW S, NEW T, S \subseteq T, Holds(f, p, S)
    PROVE  Holds(g, p, T)
BY DEF Holds

LEMMA FileGrows ==
    ASSUME TypeOK, TypeOK', Grows, NEW i \in Inodes, NEW p \in 0..Len(content[i]),
           NEW S, NEW T, S \subseteq T, Holds(content[i], p, S)
    PROVE  p \in 0..Len(content'[i]) /\ Holds(content'[i], p, T)
<1> DEFINE f == content[i]
           g == content'[i]
<1>1. f \in Seq(Chunks) /\ g \in Seq(Chunks) /\ Len(f) \in Nat /\ Len(g) \in Nat
  BY DEF TypeOK
<1>2. Len(f) <= Len(g) /\ \A q \in 1..Len(f) : g[q] = f[q]
  BY DEF Grows
<1> HIDE DEF f, g
<1>3. p \in 0..Len(f) /\ Holds(f, p, S)
  BY DEF f
<1>4. Holds(g, p, T)
  BY <1>1, <1>2, <1>3, HoldsGrows
<1> QED BY <1>1, <1>2, <1>3, <1>4 DEF g

LEMMA HoldsNothing == \A f, S : Holds(f, 0, S)
BY DEF Holds

\* Reading on to the end of a line.
LEMMA ReadHolds ==
    ASSUME TypeOK, NEW i \in Inodes, NEW p \in 0..Len(content[i]), NEW S, NEW T,
           S \subseteq T, Holds(content[i], p, S),
           Touched(i, p) \subseteq T \/ (Boundary(i, p) /\ Parsed(i, p) \subseteq T)
    PROVE  Holds(content[i], LineEnd(i, p), T)
<1>0. p \in Nat /\ LineEnd(i, p) \in p..Len(content[i]) /\ Len(content[i]) \in Nat
  BY LineEndIs DEF TypeOK
<1> SUFFICES ASSUME NEW l \in Lines, NEW q \in 1..LineEnd(i, p), StandsAt(l, i, q)
             PROVE  l \in T
  BY DEF Holds, StandsAt
<1>1. CASE q <= p
  <2>1. q \in 1..p
    BY <1>0, <1>1
  <2> QED BY <2>1 DEF Holds, StandsAt
<1>2. CASE ~(q <= p)
  <2>1. q \in (p + 1)..LineEnd(i, p)
    BY <1>0, <1>2
  <2> QED BY <2>1, ReadsLine
<1> QED BY <1>1, <1>2

-----------------------------------------------------------------------------
(* What single operations do to the files *)

LEMMA CreatesLive ==
    ASSUME TypeOK, FilesInv, CreateLive
    PROVE  /\ live' # None /\ live' \in created' /\ created \subseteq created'
           /\ created' \subseteq Inodes
           /\ live # None => UNCHANGED <<live, created>>
           /\ live = None => live' \notin created
           /\ live' \notin segs \cup failed
<1>1. CASE live # None
  BY <1>1 DEF CreateLive, TypeOK, FilesInv
<1>2. CASE live = None
  <2>1. Unused # {} /\ Unused \subseteq Nat
    BY <1>2, IngestAssumption DEF FilesInv, Unused
  <2>2. Min(Unused) \in Unused
    BY <2>1, MinIs
  <2>3. live' = Min(Unused) /\ created' = created \cup {Min(Unused)}
    BY <1>2 DEF CreateLive
  <2> QED BY <1>2, <2>2, <2>3, IngestAssumption DEF Unused, TypeOK
<1> QED BY <1>1, <1>2

\* A write appends one chunk to a file that is in place.
LEMMA Writes ==
    ASSUME TypeOK, WritersInv, NEW l \in Lines, Writer(l), NEW part \in {"start", "end"},
           Write(l, part)
    PROVE  /\ fd[l] \in Files /\ fd[l] \in Inodes
           /\ content' \in [Inodes -> Seq(Chunks)]
           /\ \A i \in Inodes : i # fd[l] => content'[i] = content[i]
           /\ content'[fd[l]] = Append(content[fd[l]], <<l, part>>)
           /\ Len(content'[fd[l]]) = Len(content[fd[l]]) + 1
           /\ content'[fd[l]][Len(content[fd[l]]) + 1] = <<l, part>>
           /\ Grows
<1>1. fd[l] \in Files /\ fd[l] \in Inodes
  BY DEF WritersInv, Files, TypeOK
<1>2. <<l, part>> \in Chunks
  BY DEF Chunks
<1>3. content[fd[l]] \in Seq(Chunks)
  BY <1>1 DEF TypeOK
<1> DEFINE longer == Append(content[fd[l]], <<l, part>>)
<1>4. /\ longer \in Seq(Chunks) /\ Len(longer) = Len(content[fd[l]]) + 1
      /\ longer[Len(content[fd[l]]) + 1] = <<l, part>>
      /\ \A q \in 1..Len(content[fd[l]]) : longer[q] = content[fd[l]][q]
      /\ Len(content[fd[l]]) \in Nat
  BY <1>2, <1>3
<1>5. content' = [content EXCEPT ![fd[l]] = longer]
  BY DEF Write
<1> HIDE DEF longer
<1>6. /\ content' \in [Inodes -> Seq(Chunks)] /\ content'[fd[l]] = longer
      /\ \A i \in Inodes : i # fd[l] => content'[i] = content[i]
  BY <1>1, <1>4, <1>5 DEF TypeOK
<1>7. \A i \in Inodes : Len(content[i]) \in Nat
  BY DEF TypeOK
<1>8. Grows
  BY <1>4, <1>6, <1>7 DEF Grows
<1> QED BY <1>1, <1>4, <1>6, <1>8 DEF longer

LEMMA FileSteps ==
    ASSUME IngestInv, [Next]_vars
    PROVE  Grows /\ decision_log \subseteq decision_log' /\ missed \subseteq missed'
<1>0. TypeOK /\ WritersInv
  BY DEF IngestInv
<1>1. CASE \E l \in Lines : HookWriteStart(l) \/ HookWriteEnd(l)
  <2>1. PICK l \in Lines : HookWriteStart(l) \/ HookWriteEnd(l)
    BY <1>1
  <2>2. Writer(l) /\ \E part \in {"start", "end"} : Write(l, part)
    BY <2>1 DEF HookWriteStart, HookWriteEnd, Writer
  <2>3. Grows
    BY <1>0, <2>2, Writes
  <2>4. UNCHANGED <<decision_log, missed>>
    BY <2>2 DEF Write
  <2> QED BY <2>3, <2>4
<1>2. CASE ~\E l \in Lines : HookWriteStart(l) \/ HookWriteEnd(l)
  <2>1. UNCHANGED content
    BY <1>2 DEF Next, HookNext, HookOpen, HookFails, ImportLine, StartupNext, DaemonStart,
       RecoverNext, RecoverImported, RecoverBroken, RecoverAborts, Recovered, Prune,
       IngestStart, Measure, BacklogDone, OpenTail, LoopNext, Wake, CheckReplaced,
       ReadLine, Rest, Rotate, SegmentDone, Recreate, Reopen, ManualNext, ManualStart,
       ManualLine, ManualEnd, SpuriousNotify, Age, Crash, vars, fsVars
  <2>2. Grows
    BY <1>0, <2>1 DEF Grows, TypeOK
  <2>3. decision_log \subseteq decision_log' /\ missed \subseteq missed'
    BY <1>2 DEF Next, HookNext, HookOpen, HookFails, ImportLine, Ingest, StartupNext,
       DaemonStart, RecoverNext, RecoverImported, RecoverBroken, RecoverAborts, Recovered,
       Prune, IngestStart, Measure, BacklogDone, OpenTail, LoopNext, Wake, CheckReplaced,
       ReadLine, Rest, Rotate, SegmentDone, Recreate, Reopen, ManualNext, ManualStart,
       ManualLine, ManualEnd, SpuriousNotify, Age, Crash, vars
  <2> QED BY <2>2, <2>3
<1> QED BY <1>1, <1>2

-----------------------------------------------------------------------------
(* Types *)

LEMMA TypeHooks ==
    ASSUME IngestInv, HookNext
    PROVE  TypeOK'
<1>0. TypeOK /\ FilesInv /\ WritersInv
  BY DEF IngestInv
<1>1. PICK l \in Lines : \/ HookOpen(l) \/ HookWriteStart(l) \/ HookWriteEnd(l)
                         \/ HookFails(l)
  BY DEF HookNext
<1>2. CASE HookOpen(l)
  <2>1. CreateLive
    BY <1>2 DEF HookOpen
  <2>2. /\ live' \in created' /\ created \subseteq created' /\ created' \subseteq Inodes
    BY <1>0, <2>1, CreatesLive
  <2>3. hook' \in [Lines -> HookStates] /\ fd' \in [Lines -> created' \cup {None}]
    BY <1>0, <1>2, <2>2 DEF HookOpen, TypeOK, HookStates
  <2>4. wake' \in BOOLEAN
    BY <1>0, <1>2 DEF HookOpen, Notify, TypeOK
  <2> QED BY <1>0, <1>2, <2>2, <2>3, <2>4 DEF HookOpen, TypeOK, tailVars
<1>3. CASE HookWriteStart(l) \/ HookWriteEnd(l)
  <2>1. PICK part \in {"start", "end"} : Writer(l) /\ Write(l, part)
    BY <1>3 DEF HookWriteStart, HookWriteEnd, Writer
  <2>2. content' \in [Inodes -> Seq(Chunks)]
    BY <1>0, <2>1, Writes
  <2>3. hook' \in [Lines -> HookStates]
    BY <1>0, <1>3 DEF HookWriteStart, HookWriteEnd, TypeOK, HookStates
  <2>4. wake' \in BOOLEAN
    BY <1>0, <2>1 DEF Write, Notify, TypeOK
  <2> QED BY <1>0, <2>1, <2>2, <2>3, <2>4 DEF Write, TypeOK, tailVars
<1>4. CASE HookFails(l)
  BY <1>0, <1>4 DEF HookFails, TypeOK, HookStates, fsVars, tailVars
<1> QED BY <1>1, <1>2, <1>3, <1>4

LEMMA ParsedTyped ==
    /\ \A i, p : Parsed(i, p) \subseteq Lines
    /\ TypeOK => \A i \in Inodes, p \in Nat : Touched(i, p) \subseteq Lines
    /\ TypeOK => \A i \in Inodes : \A p \in 0..Len(content[i]) : LineEnd(i, p) \in Nat
<1>1. \A i, p : Parsed(i, p) \subseteq Lines
  BY DEF Parsed
<1>2. ASSUME TypeOK, NEW i \in Inodes, NEW p \in Nat PROVE Touched(i, p) \subseteq Lines
  <2>1. content[i] \in Seq(Chunks) /\ Len(content[i]) \in Nat
    BY <1>2 DEF TypeOK
  <2>2. CASE p <= Len(content[i])
    <3>1. LineEnd(i, p) \in p..Len(content[i])
      BY <1>2, <2>1, <2>2, LineEndIs
    <3> QED BY <1>2, <2>1, <3>1 DEF Touched, Chunks
  <2>3. CASE ~(p <= Len(content[i]))
    <3>1. LineEnd(i, p) = Len(content[i])
      <4>1. {k \in (p + 1)..Len(content[i]) : content[i][k][2] = "end"} = {}
        BY <1>2, <2>1, <2>3
      <4> QED BY <4>1 DEF LineEnd
    <3> QED BY <1>2, <2>1, <2>3, <3>1 DEF Touched
  <2> QED BY <2>1, <2>2, <2>3
<1>3. ASSUME TypeOK, NEW i \in Inodes, NEW p \in 0..Len(content[i])
      PROVE  LineEnd(i, p) \in Nat
  <2>1. LineEnd(i, p) \in p..Len(content[i]) /\ Len(content[i]) \in Nat
    BY <1>3, LineEndIs DEF TypeOK
  <2> QED BY <1>3, <2>1
<1> QED BY <1>1, <1>2, <1>3

\* The daemon's steps.  What an import or the tail reads is below the end.
LEMMA TypeReads ==
    ASSUME IngestInv, ImportLine \/ ReadLine \/ ManualLine
    PROVE  TypeOK'
<1>0. TypeOK /\ TailInv
  BY DEF IngestInv
<1>1. CASE ImportLine
  <2>1. /\ imp \in Imports /\ imp.ino \in Inodes /\ imp.pos \in Nat
        /\ ~AtEnd(imp.ino, imp.pos)
    BY <1>0, <1>1 DEF ImportLine, TypeOK, Imports
  <2>2. imp.pos \in 0..Len(content[imp.ino])
    BY <1>0, <2>1 DEF AtEnd, TypeOK
  <2>3. /\ Parsed(imp.ino, imp.pos) \subseteq Lines /\ Touched(imp.ino, imp.pos) \subseteq Lines
        /\ LineEnd(imp.ino, imp.pos) \in Nat
    BY <1>0, <2>1, <2>2, ParsedTyped
  <2>4. imp' \in Imports
    BY <1>1, <2>1, <2>3 DEF ImportLine, Imports
  <2> QED BY <1>0, <1>1, <2>3, <2>4
          DEF ImportLine, Ingest, TypeOK, fsVars, hookVars, tailVars
<1>2. CASE ReadLine
  <2>1. reader \in Inodes /\ offset \in Nat /\ offset \in 0..Len(content[reader])
    BY <1>0, <1>2 DEF ReadLine, TailInv, Tailing, TypeOK
  <2>2. /\ Parsed(reader, offset) \subseteq Lines /\ Touched(reader, offset) \subseteq Lines
        /\ LineEnd(reader, offset) \in Nat
    BY <1>0, <2>1, ParsedTyped
  <2> QED BY <1>0, <1>2, <2>2 DEF ReadLine, Ingest, TypeOK, fsVars, hookVars
<1>3. CASE ManualLine
  <2>1. /\ manual \in Imports /\ manual.ino \in Inodes /\ manual.pos \in Nat
        /\ ~AtEnd(manual.ino, manual.pos)
    BY <1>0, <1>3 DEF ManualLine, TypeOK, Imports
  <2>2. manual.pos \in 0..Len(content[manual.ino])
    BY <1>0, <2>1 DEF AtEnd, TypeOK
  <2>3. /\ Parsed(manual.ino, manual.pos) \subseteq Lines
        /\ LineEnd(manual.ino, manual.pos) \in Nat
    BY <1>0, <2>1, <2>2, ParsedTyped
  <2>4. manual' \in Imports
    BY <1>3, <2>1, <2>3 DEF ManualLine, Imports
  <2> QED BY <1>0, <1>3, <2>3, <2>4 DEF ManualLine, TypeOK, fsVars, hookVars, tailVars
<1> QED BY <1>1, <1>2, <1>3

\* The startup: what is recovered is in place, and the live file is not.
LEMMA TypeStartup ==
    ASSUME IngestInv, StartupNext
    PROVE  TypeOK'
<1>0. TypeOK /\ FilesInv /\ ImportInv /\ BacklogInv
  BY DEF IngestInv
<1>1. CASE DaemonStart \/ Recovered \/ RecoverAborts
  BY <1>0, <1>1 DEF DaemonStart, Recovered, RecoverAborts, TypeOK, Startup, fsVars,
                    hookVars, tailVars
<1>2. CASE RecoverNext
  <2>1. todo \subseteq Nat /\ todo # {} /\ todo \subseteq Inodes
    BY <1>0, <1>2, IngestAssumption DEF RecoverNext, TypeOK
  <2>2. Min(todo) \in Inodes
    BY <2>1, MinIs
  <2>3. imp' \in Imports
    BY <1>2, <2>2 DEF RecoverNext, Imports
  <2> QED BY <1>0, <1>2, <2>3 DEF RecoverNext, TypeOK, fsVars, hookVars, tailVars
<1>3. CASE RecoverImported
  BY <1>0, <1>3 DEF RecoverImported, TypeOK, hookVars, tailVars
<1>4. CASE RecoverBroken
  <2>1. imp.ino \in todo /\ imp.ino \in segs \cup failed
    BY <1>0, <1>4 DEF RecoverBroken, ImportBreaks, ImportInv, TypeOK
  <2> QED BY <1>0, <1>4, <2>1 DEF RecoverBroken, TypeOK, hookVars, tailVars
<1>5. CASE Prune
  <2>1. todo = {}
    BY <1>0, <1>5 DEF Prune, ImportInv
  <2> QED BY <1>0, <1>5, <2>1 DEF Prune, TypeOK, Startup, hookVars, tailVars
<1>6. CASE IngestStart
  <2>1. /\ live' \in created' \cup {None} /\ created \subseteq created'
        /\ created' \subseteq Inodes
    BY <1>0, <1>6, CreatesLive DEF IngestStart, TypeOK
  <2> QED BY <1>0, <1>6, <2>1 DEF IngestStart, TypeOK, Startup, hookVars, tailVars
<1>7. CASE Measure
  <2>1. CASE live = None
    BY <1>0, <1>7, <2>1 DEF Measure, TypeOK, Startup, fsVars, hookVars
  <2>2. CASE live # None
    <3>1. live \in Inodes /\ Len(content[live]) \in Nat
      BY <1>0, <2>2 DEF TypeOK
    <3>2. imp' \in Imports /\ offset' \in Nat /\ phase' = "backlog"
      BY <1>7, <2>2, <3>1 DEF Measure, Imports
    <3> QED BY <1>0, <1>7, <3>2 DEF Measure, TypeOK, Startup, fsVars, hookVars
  <2> QED BY <2>1, <2>2
<1>8. CASE BacklogDone
  <2>1. missed' \subseteq Lines
    <3>1. imp.ino \in Inodes /\ imp.pos \in Nat
      BY <1>0, <1>8 DEF BacklogDone, ImportEnds, ImportBreaks, TypeOK, Imports
    <3>2. content[imp.ino] \in Seq(Chunks)
      BY <1>0, <3>1 DEF TypeOK
    <3>3. Unreached \subseteq Lines
      BY <3>1, <3>2 DEF Unreached, Chunks
    <3> QED BY <1>0, <1>8, <3>3 DEF BacklogDone, TypeOK
  <2> QED BY <1>0, <1>8, <2>1 DEF BacklogDone, TypeOK, Startup, fsVars, hookVars, tailVars
<1>9. CASE OpenTail
  <2>1. CASE live # None /\ offset' = Min({offset, Len(content[live])})
    <3>1. Len(content[live]) \in Nat /\ offset \in Nat
      BY <1>0, <2>1 DEF TypeOK
    <3>2. offset' \in {offset, Len(content[live])}
      BY <2>1, <3>1, MinIs
    <3>3. offset' \in Nat
      BY <3>1, <3>2
    <3>4. phase' \in Tailing \cup {"ended"}
      BY <1>9 DEF OpenTail, Tailing
    <3> QED BY <1>0, <1>9, <3>3, <3>4 DEF OpenTail, TypeOK, fsVars, hookVars, tailVars
  <2>2. CASE phase' = "ended" /\ UNCHANGED tailVars
    BY <1>0, <1>9, <2>2 DEF OpenTail, TypeOK, fsVars, hookVars, tailVars
  <2> QED BY <1>9, <2>1, <2>2 DEF OpenTail
<1> QED BY <1>1, <1>2, <1>3, <1>4, <1>5, <1>6, <1>7, <1>8, <1>9 DEF StartupNext

LEMMA TypeLoop ==
    ASSUME IngestInv, LoopNext
    PROVE  TypeOK'
<1>0. TypeOK /\ FilesInv /\ ImportInv
  BY DEF IngestInv
<1>1. CASE ReadLine
  BY <1>1, TypeReads
<1>2. CASE Wake \/ CheckReplaced \/ Rest \/ Reopen
  <2>1. phase' \in Tailing
    BY <1>2 DEF Wake, CheckReplaced, Rest, Reopen, Tailing
  <2>2. reader' \in created' \cup {None} /\ file_id' \in created' \cup {None} /\ offset' \in Nat
    BY <1>0, <1>2 DEF Wake, CheckReplaced, Rest, Reopen, TypeOK, tailVars, fsVars
  <2>3. wake' \in BOOLEAN /\ stalled' \in BOOLEAN
    BY <1>0, <1>2 DEF Wake, CheckReplaced, Rest, Reopen, TypeOK
  <2> QED BY <1>0, <1>2, <2>1, <2>2, <2>3
          DEF Wake, CheckReplaced, Rest, Reopen, TypeOK, fsVars, hookVars
<1>3. CASE Rotate
  <2>1. live \in Inodes /\ live \in created
    BY <1>0, <1>3 DEF Rotate, TypeOK
  <2>2. imp' \in Imports
    BY <1>3, <2>1 DEF Rotate, Imports
  <2>3. wake' \in BOOLEAN
    BY <1>0, <1>3 DEF Rotate, Notify, TypeOK
  <2> QED BY <1>0, <1>3, <2>1, <2>2, <2>3 DEF Rotate, TypeOK, Tailing, hookVars, tailVars
<1>4. CASE SegmentDone
  <2>1. imp.ino \in segs /\ imp.ino \in Inodes /\ imp.pos \in Nat
    BY <1>0, <1>4 DEF SegmentDone, ImportInv, TypeOK, Imports
  <2>2. content[imp.ino] \in Seq(Chunks)
    BY <1>0, <2>1 DEF TypeOK
  <2>3. Unreached \subseteq Lines
    BY <2>1, <2>2 DEF Unreached, Chunks
  <2> QED BY <1>0, <1>4, <2>1, <2>3 DEF SegmentDone, TypeOK, Tailing, hookVars, tailVars
<1>5. CASE Recreate
  <2>1. /\ live' \in created' \cup {None} /\ created \subseteq created'
        /\ created' \subseteq Inodes
    BY <1>0, <1>5, CreatesLive DEF Recreate, TypeOK
  <2>2. wake' \in BOOLEAN
    BY <1>0, <1>5 DEF Recreate, Notify, TypeOK
  <2> QED BY <1>0, <1>5, <2>1, <2>2 DEF Recreate, TypeOK, Tailing, hookVars, tailVars
<1> QED BY <1>1, <1>2, <1>3, <1>4, <1>5 DEF LoopNext

LEMMA TypeOthers ==
    ASSUME IngestInv,
           ManualNext \/ SpuriousNotify \/ (\E i \in Inodes : Age(i)) \/ Crash
           \/ UNCHANGED vars
    PROVE  TypeOK'
<1>0. TypeOK
  BY DEF IngestInv
<1>1. CASE ManualNext
  <2>1. CASE ManualStart
    <3>1. manual' \in Imports
      BY <1>0, <2>1 DEF ManualStart, TypeOK, Imports
    <3> QED BY <1>0, <2>1, <3>1 DEF ManualStart, TypeOK, fsVars, hookVars, tailVars
  <2>2. CASE ManualEnd
    BY <1>0, <2>2 DEF ManualEnd, TypeOK, fsVars, hookVars, tailVars
  <2> QED BY <1>1, <2>1, <2>2, TypeReads DEF ManualNext
<1>2. CASE SpuriousNotify
  BY <1>0, <1>2 DEF SpuriousNotify, TypeOK, fsVars, hookVars, tailVars
<1>3. CASE \E i \in Inodes : Age(i)
  BY <1>0, <1>3 DEF Age, TypeOK, hookVars, tailVars
<1>4. CASE Crash
  <2>1. crashes' \in 0..MaxCrashes
    BY <1>0, <1>4, IngestAssumption DEF Crash, TypeOK
  <2> QED BY <1>0, <1>4, <2>1 DEF Crash, TypeOK, fsVars, hookVars
<1>5. CASE UNCHANGED vars
  BY <1>0, <1>5 DEF TypeOK, vars, fsVars, hookVars, tailVars
<1> QED BY <1>1, <1>2, <1>3, <1>4, <1>5

LEMMA TypeStep == IngestInv /\ [Next]_vars => TypeOK'
BY TypeHooks, TypeReads, TypeStartup, TypeLoop, TypeOthers DEF Next

-----------------------------------------------------------------------------
(* Files: the live one is created at need, and rotated while another can be *)

LEMMA FilesStep == IngestInv /\ [Next]_vars => FilesInv'
<1> SUFFICES ASSUME IngestInv, [Next]_vars PROVE FilesInv'
  OBVIOUS
<1>0. TypeOK /\ FilesInv /\ ImportInv
  BY DEF IngestInv
<1>1. CASE UNCHANGED <<live, created, segs, failed>>
  BY <1>0, <1>1 DEF FilesInv, Unused
<1>2. CASE CreateLive /\ UNCHANGED <<segs, failed>>
  BY <1>0, <1>2, CreatesLive DEF FilesInv
<1>3. CASE RecoverImported \/ RecoverBroken \/ Prune
  BY <1>0, <1>3 DEF RecoverImported, RecoverBroken, ImportBreaks, Prune, FilesInv,
                    ImportInv, Unused, TypeOK
<1>4. CASE Rotate
  BY <1>0, <1>4, IngestAssumption DEF Rotate, FilesInv, TypeOK, Unused
<1>5. CASE SegmentDone
  BY <1>0, <1>5 DEF SegmentDone, ImportInv, FilesInv, Unused
<1> QED
  BY <1>1, <1>2, <1>3, <1>4, <1>5
     DEF Next, HookNext, HookOpen, HookWriteStart, HookWriteEnd, Write, HookFails,
         ImportLine, StartupNext, DaemonStart, RecoverNext, RecoverAborts, Recovered,
         IngestStart, Measure, BacklogDone, OpenTail, LoopNext, Wake, CheckReplaced,
         ReadLine, Rest, Recreate, Reopen, ManualNext, ManualStart, ManualLine, ManualEnd,
         SpuriousNotify, Age, Crash, vars, fsVars

-----------------------------------------------------------------------------
(* Which phases import *)

LEMMA ImportStep == IngestInv /\ [Next]_vars => ImportInv'
<1> SUFFICES ASSUME IngestInv, [Next]_vars PROVE ImportInv'
  OBVIOUS
<1>0. TypeOK /\ FilesInv /\ ImportInv
  BY DEF IngestInv
<1>1. CASE HookNext
  <2>1. UNCHANGED <<phase, imp, todo, segs>>
    BY <1>1 DEF HookNext, HookOpen, HookWriteStart, HookWriteEnd, Write, HookFails, fsVars
  <2>2. live # None => live' = live
    BY <1>0, <1>1, CreatesLive
       DEF HookNext, HookOpen, HookWriteStart, HookWriteEnd, Write, HookFails, fsVars
  <2> QED BY <1>0, <2>1, <2>2 DEF ImportInv
<1>2. CASE ImportLine
  <2>1. imp' # None /\ imp'.ino = imp.ino
    <3>1. imp \in Imports /\ TypeOK'
      BY <1>0, <1>2, TypeStep DEF ImportLine, TypeOK
    <3> DEFINE p == LineEnd(imp.ino, imp.pos)
    <3>3. imp' = [imp EXCEPT !.pos = p] /\ imp' \in Imports \cup {None}
      BY <1>2, <3>1 DEF ImportLine, TypeOK
    <3> HIDE DEF p
    <3>4. imp.pos \in 0..Len(content[imp.ino]) /\ imp.ino \in Inodes
      BY <1>0, <1>2, <3>1 DEF ImportLine, AtEnd, TypeOK, Imports
    <3>5. p \in Nat
      BY <1>0, <3>4, ParsedTyped DEF p
    <3>6. imp' \in Imports
      BY <3>1, <3>3, <3>5 DEF Imports
    <3> QED BY <3>1, <3>3, <3>6, ImportAssumption DEF Imports
  <2> QED BY <1>0, <1>2, <2>1 DEF ImportLine, ImportInv, fsVars
<1>3. CASE StartupNext
  <2>1. CASE RecoverNext
    <3>1. todo \subseteq Nat /\ todo # {}
      BY <1>0, <2>1, IngestAssumption DEF RecoverNext, TypeOK
    <3>2. Min(todo) \in todo
      BY <3>1, MinIs
    <3> QED BY <1>0, <2>1, <3>2 DEF RecoverNext, ImportInv
  <2>2. CASE DaemonStart \/ RecoverImported \/ RecoverBroken \/ RecoverAborts \/ Recovered
             \/ Prune
    BY <1>0, <2>2 DEF DaemonStart, RecoverImported, RecoverBroken, RecoverAborts, Recovered,
                      Prune, ImportInv
  <2>3. CASE IngestStart
    BY <1>0, <2>3 DEF IngestStart, ImportInv
  <2>4. CASE Measure
    <3>1. live # None => [ino |-> live, pos |-> 0] # None
      BY <1>0, ImportAssumption DEF TypeOK, Imports
    <3> QED BY <1>0, <2>4, <3>1 DEF Measure, ImportInv, fsVars
  <2>5. CASE BacklogDone \/ OpenTail
    BY <1>0, <2>5 DEF BacklogDone, OpenTail, ImportInv
  <2> QED BY <1>3, <2>1, <2>2, <2>3, <2>4, <2>5 DEF StartupNext
<1>4. CASE LoopNext
  <2>1. CASE Rotate
    <3>1. [ino |-> live, pos |-> 0] # None
      BY <1>0, <2>1, ImportAssumption DEF Rotate, TypeOK, Imports
    <3> QED BY <1>0, <2>1, <3>1 DEF Rotate, ImportInv
  <2>2. CASE ~Rotate
    BY <1>0, <1>4, <2>2 DEF LoopNext, Wake, CheckReplaced, ReadLine, Rest, SegmentDone,
                            Recreate, Reopen, ImportInv
  <2> QED BY <2>1, <2>2
<1>5. CASE ManualNext \/ SpuriousNotify \/ (\E i \in Inodes : Age(i)) \/ UNCHANGED vars
  BY <1>0, <1>5 DEF ManualNext, ManualStart, ManualLine, ManualEnd, SpuriousNotify, Age,
                    ImportInv, fsVars, vars
<1>6. CASE Crash
  BY <1>6 DEF Crash, ImportInv
<1> QED BY <1>1, <1>2, <1>3, <1>4, <1>5, <1>6 DEF Next

-----------------------------------------------------------------------------
(* The writers *)

LEMMA WritersStep == IngestInv /\ [Next]_vars => WritersInv'
<1> SUFFICES ASSUME IngestInv, [Next]_vars PROVE WritersInv'
  OBVIOUS
<1>0. TypeOK /\ FilesInv /\ ImportInv /\ WritersInv
  BY DEF IngestInv
<1>1. CASE HookNext
  <2>1. PICK l \in Lines : \/ HookOpen(l) \/ HookWriteStart(l) \/ HookWriteEnd(l)
                           \/ HookFails(l)
    BY <1>1 DEF HookNext
  <2>2. CASE HookOpen(l)
    <3>1. /\ live' # None /\ (live # None => live' = live)
          /\ UNCHANGED <<content, segs, failed, phase>>
          /\ hook' = [hook EXCEPT ![l] = "opened"] /\ fd' = [fd EXCEPT ![l] = live']
      BY <1>0, <2>2, CreatesLive DEF HookOpen
    <3>2. \A k \in Lines : k # l => hook'[k] = hook[k] /\ fd'[k] = fd[k]
      BY <1>0, <3>1 DEF TypeOK
    <3>3. hook'[l] = "opened" /\ fd'[l] = live'
      BY <1>0, <3>1 DEF TypeOK
    <3>4. Files \subseteq Files' /\ live' \in Files'
      BY <3>1 DEF Files
    <3>5. phase' \in {"recover", "prune"} => WritersGone'
      BY <1>0, <3>1, <3>2, <3>3 DEF WritersInv, WritersGone, Writer, Files
    <3> QED BY <1>0, <3>1, <3>2, <3>3, <3>4, <3>5 DEF WritersInv, Writer
  <2>3. CASE HookWriteStart(l)
    <3>1. Writer(l) /\ Write(l, "start") /\ hook' = [hook EXCEPT ![l] = "writing"]
      BY <2>3 DEF HookWriteStart, Writer
    <3>2. UNCHANGED <<fd, live, segs, failed, phase>> /\ hook'[l] = "writing"
      BY <1>0, <3>1 DEF Write, TypeOK
    <3>3. \A k \in Lines : k # l => hook'[k] = hook[k]
      BY <1>0, <3>1 DEF TypeOK
    <3>4. \A k \in Lines : hook[k] = "writing" => fd[k] # fd[l]
      BY <2>3 DEF HookWriteStart
    <3>5. /\ fd[l] \in Inodes
          /\ \A i \in Inodes : i # fd[l] => content'[i] = content[i]
          /\ Len(content'[fd[l]]) = Len(content[fd[l]]) + 1
          /\ content'[fd[l]][Len(content[fd[l]]) + 1] = <<l, "start">>
          /\ content' \in [Inodes -> Seq(Chunks)]
      BY <1>0, <3>1, Writes
    <3>6. content'[fd[l]] # <<>>
      BY <1>0, <3>5 DEF TypeOK
    <3>7. \A k \in Lines : Writer(k) => fd[k] \in Inodes
      BY <1>0 DEF WritersInv, Files, TypeOK
    <3>8. \A k \in Lines : hook'[k] = "writing" =>
            /\ content'[fd[k]] # <<>>
            /\ content'[fd[k]][Len(content'[fd[k]])] = <<k, "start">>
      BY <1>0, <3>2, <3>3, <3>4, <3>5, <3>6, <3>7 DEF WritersInv, Writer
    <3>9. phase' \in {"recover", "prune"} => WritersGone'
      BY <1>0, <3>1, <3>2, <3>3 DEF WritersInv, WritersGone, Writer
    <3>10. \A k \in Lines : Writer(k)' => fd'[k] \in Files'
      BY <1>0, <3>1, <3>2, <3>3 DEF WritersInv, Writer, Files
    <3>11. \A j, k \in Lines :
             hook'[j] = "writing" /\ hook'[k] = "writing" /\ fd'[j] = fd'[k] => j = k
      BY <1>0, <3>2, <3>3, <3>4 DEF WritersInv
    <3> QED BY <3>2, <3>8, <3>9, <3>10, <3>11 DEF WritersInv
  <2>4. CASE HookWriteEnd(l) \/ HookFails(l)
    <3>1. /\ UNCHANGED <<fd, live, segs, failed, phase>> /\ ~Writer(l)'
          /\ \A k \in Lines : k # l => hook'[k] = hook[k]
      BY <1>0, <2>4 DEF HookWriteEnd, HookFails, Write, TypeOK, Writer, fsVars
    <3>2. \A k \in Lines : hook'[k] = "writing" => content'[fd[k]] = content[fd[k]]
      <4>1. CASE HookFails(l)
        BY <4>1 DEF HookFails, fsVars
      <4>2. CASE HookWriteEnd(l)
        <5>1. Writer(l) /\ Write(l, "end") /\ hook[l] = "writing"
          BY <4>2 DEF HookWriteEnd, Writer
        <5>2. \A i \in Inodes : i # fd[l] => content'[i] = content[i]
          BY <1>0, <5>1, Writes
        <5>3. \A k \in Lines : hook[k] = "writing" => fd[k] \in Inodes
          BY <1>0 DEF WritersInv, Writer, Files, TypeOK
        <5> QED BY <1>0, <3>1, <5>1, <5>2, <5>3 DEF WritersInv, Writer
      <4> QED BY <2>4, <4>1, <4>2
    <3>3. phase' \in {"recover", "prune"} => WritersGone'
      BY <1>0, <3>1 DEF WritersInv, WritersGone, Writer
    <3> QED BY <1>0, <3>1, <3>2, <3>3 DEF WritersInv, Writer, Files
  <2> QED BY <2>1, <2>2, <2>3, <2>4
<1>2. CASE ~HookNext
  <2>1. UNCHANGED <<content, hook, fd>>
    BY <1>2 DEF Next, ImportLine, StartupNext, DaemonStart,
       RecoverNext, RecoverImported, RecoverBroken, RecoverAborts, Recovered, Prune,
       IngestStart, Measure, BacklogDone, OpenTail, LoopNext, Wake, CheckReplaced,
       ReadLine, Rest, Rotate, SegmentDone, Recreate, Reopen, ManualNext, ManualStart,
       ManualLine, ManualEnd, SpuriousNotify, Age, Crash, vars, fsVars, hookVars
  <2>2. phase' \in {"recover", "prune"} =>
          /\ live' = live
          /\ phase \in {"recover", "prune"} \/ WritersGone
    BY <1>2 DEF Next, ImportLine, StartupNext, DaemonStart,
       RecoverNext, RecoverImported, RecoverBroken, RecoverAborts, Recovered, Prune,
       IngestStart, Measure, BacklogDone, OpenTail, LoopNext, Wake, CheckReplaced,
       ReadLine, Rest, Rotate, SegmentDone, Recreate, Reopen, ManualNext, ManualStart,
       ManualLine, ManualEnd, SpuriousNotify, Age, Crash, vars, fsVars
  <2>3. phase' \in {"recover", "prune"} => WritersGone'
    BY <1>0, <2>1, <2>2 DEF WritersInv, WritersGone
  <2>4. \A l \in Lines : Writer(l) => fd[l] \in Files'
    <3>1. CASE RecoverImported \/ Prune
      <4>1. live' = live /\ phase \in {"recover", "prune"}
        BY <3>1 DEF RecoverImported, Prune
      <4> QED BY <1>0, <4>1 DEF WritersInv, WritersGone, Writer, Files
    <3>2. CASE CreateLive /\ UNCHANGED <<segs, failed>>
      BY <1>0, <3>2, CreatesLive DEF WritersInv, Files
    <3>3. CASE Rotate \/ SegmentDone \/ RecoverBroken \/ UNCHANGED <<live, segs, failed>>
      BY <1>0, <3>3 DEF Rotate, SegmentDone, RecoverBroken, WritersInv, Files
    <3> QED
      BY <1>2, <3>1, <3>2, <3>3 DEF Next, ImportLine, StartupNext, DaemonStart,
       RecoverNext, RecoverAborts, Recovered, IngestStart, Measure, BacklogDone, OpenTail,
       LoopNext, Wake, CheckReplaced, ReadLine, Rest, Recreate, Reopen, ManualNext,
       ManualStart, ManualLine, ManualEnd, SpuriousNotify, Age, Crash, vars, fsVars
  <2> QED BY <1>0, <2>1, <2>3, <2>4 DEF WritersInv, Writer
<1> QED BY <1>1, <1>2

-----------------------------------------------------------------------------
(* The recovery of segments *)

\* Nobody writes to a segment while segments are recovered or pruned.
LEMMA SegmentsRest ==
    ASSUME IngestInv, [Next]_vars, phase \in {"recover", "prune"},
           NEW i \in segs \cup failed
    PROVE  content'[i] = content[i]
<1>0. TypeOK /\ WritersInv /\ FilesInv
  BY DEF IngestInv
<1>1. CASE \E l \in Lines : HookWriteStart(l) \/ HookWriteEnd(l)
  <2>1. PICK l \in Lines : HookWriteStart(l) \/ HookWriteEnd(l)
    BY <1>1
  <2>2. Writer(l) /\ \E part \in {"start", "end"} : Write(l, part)
    BY <2>1 DEF HookWriteStart, HookWriteEnd, Writer
  <2>3. \A j \in Inodes : j # fd[l] => content'[j] = content[j]
    BY <1>0, <2>2, Writes
  <2>4. fd[l] = live
    BY <1>0, <2>2 DEF WritersInv, WritersGone, Writer
  <2> QED BY <1>0, <2>3, <2>4 DEF FilesInv, TypeOK
<1>2. CASE ~\E l \in Lines : HookWriteStart(l) \/ HookWriteEnd(l)
  <2>1. UNCHANGED content
    BY <1>2 DEF Next, HookNext, HookOpen, HookFails, ImportLine, StartupNext, DaemonStart,
       RecoverNext, RecoverImported, RecoverBroken, RecoverAborts, Recovered, Prune,
       IngestStart, Measure, BacklogDone, OpenTail, LoopNext, Wake, CheckReplaced,
       ReadLine, Rest, Rotate, SegmentDone, Recreate, Reopen, ManualNext, ManualStart,
       ManualLine, ManualEnd, SpuriousNotify, Age, Crash, vars, fsVars
  <2> QED BY <2>1
<1> QED BY <1>1, <1>2

\* The import of a segment at position imp.pos.
LEMMA RecoverReads ==
    ASSUME IngestInv, ImportLine, phase = "recover"
    PROVE  Boundary(imp.ino, imp.pos)' /\ Holds(content[imp.ino], imp.pos, decision_log)'
<1>0. TypeOK /\ RecoverInv
  BY DEF IngestInv
<1>1. PICK i \in Inodes, p \in Nat : imp.ino = i /\ imp.pos = p
  BY <1>0 DEF ImportLine, TypeOK, Imports
<1>2. Boundary(i, p) /\ Holds(content[i], p, decision_log)
  BY <1>0, <1>1 DEF RecoverInv, ImportLine
<1>3. p \in 0..Len(content[i])
  BY <1>2 DEF Boundary
<1>4. /\ content' = content
      /\ decision_log' = decision_log \cup Parsed(i, p)
  BY <1>1 DEF ImportLine, Ingest, fsVars
<1>5. imp'.ino = i /\ imp'.pos = LineEnd(i, p)
  <2>1. imp' = [imp EXCEPT !.pos = LineEnd(i, p)] /\ imp \in Imports
    BY <1>0, <1>1 DEF ImportLine, TypeOK
  <2> QED BY <1>1, <2>1 DEF Imports
<1>6. /\ LineEnd(i, p) \in p..Len(content[i])
      /\ LineEnd(i, p) = Len(content[i]) \/ content[i][LineEnd(i, p)][2] = "end"
  BY <1>0, <1>3, LineEndIs
<1>7. Boundary(imp.ino, imp.pos)'
  BY <1>3, <1>4, <1>5, <1>6 DEF Boundary
<1>8. Holds(content[i], LineEnd(i, p), decision_log')
  BY <1>0, <1>2, <1>3, <1>4, ReadHolds
<1>9. Holds(content'[imp'.ino], imp'.pos, decision_log')
  BY <1>4, <1>5, <1>8
<1> QED BY <1>7, <1>9

LEMMA RecoverStep == IngestInv /\ [Next]_vars => RecoverInv'
<1> SUFFICES ASSUME IngestInv, [Next]_vars PROVE RecoverInv'
  OBVIOUS
<1>0. TypeOK /\ ImportInv /\ RecoverInv
  BY DEF IngestInv
<1>1. CASE phase' \notin {"recover", "prune"}
  BY <1>1 DEF RecoverInv
<1>2. CASE DaemonStart
  BY <1>0, <1>2 DEF DaemonStart, ImportInv, RecoverInv, fsVars
<1>3. ASSUME phase \in {"recover", "prune"}
      PROVE  \A i \in segs \cup failed :
               /\ content'[i] = content[i]
               /\ \A p : Holds(content[i], p, decision_log)
                           => Holds(content'[i], p, decision_log')
  BY <1>3, SegmentsRest, FileSteps DEF Holds
<1>4. CASE ImportLine /\ phase = "recover"
  <2>1. UNCHANGED <<segs, failed, todo, phase>>
    BY <1>4 DEF ImportLine, fsVars
  <2> QED BY <1>0, <1>3, <1>4, <2>1, RecoverReads DEF RecoverInv
<1>5. CASE /\ phase \in {"recover", "prune"}
           /\ UNCHANGED <<segs, failed, todo, phase, imp>>
  <2>1. phase = "recover" /\ imp # None => imp.ino \in segs \cup failed
    BY <1>0 DEF ImportInv, TypeOK
  <2>2. phase' = "recover" /\ imp' # None =>
          Boundary(imp.ino, imp.pos)' /\ Holds(content'[imp'.ino], imp'.pos, decision_log')
    BY <1>0, <1>3, <1>5, <2>1 DEF RecoverInv, Boundary
  <2>3. "scan" \notin Faults => \A i \in segs' \ todo' :
          Holds(content'[i], Len(content'[i]), decision_log')
    BY <1>0, <1>3, <1>5 DEF RecoverInv
  <2> QED BY <2>2, <2>3 DEF RecoverInv
<1>6. CASE RecoverNext
  <2>1. /\ phase' = "recover" /\ phase = "recover" /\ UNCHANGED <<segs, todo, content, decision_log>>
        /\ todo # {} /\ imp' = [ino |-> Min(todo), pos |-> 0]
    BY <1>6 DEF RecoverNext, fsVars
  <2>2. Min(todo) \in todo /\ todo \subseteq Inodes
    BY <1>0, <2>1, MinIs, IngestAssumption DEF TypeOK
  <2>3. Boundary(imp.ino, imp.pos)'
    BY <1>0, <2>1, <2>2 DEF Boundary, TypeOK
  <2>4. Holds(content'[imp'.ino], imp'.pos, decision_log')
    BY <2>1, HoldsNothing
  <2> QED BY <1>0, <2>1, <2>3, <2>4 DEF RecoverInv
<1>7. CASE RecoverImported
  <2>1. /\ phase = "recover" /\ phase' = "recover" /\ imp' = None /\ imp # None
        /\ UNCHANGED <<segs, content, decision_log>> /\ todo' = todo \ {imp.ino}
        /\ AtEnd(imp.ino, imp.pos)
    BY <1>7 DEF RecoverImported, ImportEnds
  <2>2. imp.ino \in Inodes /\ imp.pos \in Nat
    BY <1>0, <2>1 DEF TypeOK, Imports
  <2>3. Holds(content[imp.ino], Len(content[imp.ino]), decision_log)
    <3>1. Boundary(imp.ino, imp.pos) /\ Holds(content[imp.ino], imp.pos, decision_log)
      BY <1>0, <2>1 DEF RecoverInv
    <3>2. imp.pos = Len(content[imp.ino])
      BY <1>0, <2>1, <2>2, <3>1 DEF Boundary, AtEnd, TypeOK
    <3> QED BY <3>1, <3>2
  <2> QED BY <1>0, <2>1, <2>3 DEF RecoverInv
<1>8. CASE RecoverBroken
  BY <1>0, <1>8 DEF RecoverBroken, RecoverInv
<1>9. CASE Recovered
  BY <1>0, <1>9 DEF Recovered, RecoverInv, fsVars
<1>10. CASE phase' \in {"recover", "prune"}
  <2>1. phase \in {"recover", "prune"} \/ DaemonStart
    BY <1>10 DEF Next, HookNext, HookOpen, HookWriteStart, HookWriteEnd, Write, HookFails,
       ImportLine, StartupNext, DaemonStart, RecoverNext, RecoverImported, RecoverBroken,
       RecoverAborts, Recovered, Prune, IngestStart, Measure, BacklogDone, OpenTail,
       LoopNext, Wake, CheckReplaced, ReadLine, Rest, Rotate, SegmentDone, Recreate,
       Reopen, ManualNext, ManualStart, ManualLine, ManualEnd, SpuriousNotify, Age,
       Crash, vars
  <2>2. CASE phase \in {"recover", "prune"} /\ ~ImportLine /\ ~RecoverNext
             /\ ~RecoverImported /\ ~RecoverBroken /\ ~Recovered
    <3>1. UNCHANGED <<segs, failed, todo, phase, imp>>
      BY <1>10, <2>2 DEF Next, HookNext, HookOpen, HookWriteStart, HookWriteEnd, Write, HookFails,
       StartupNext, DaemonStart, RecoverAborts, Prune, IngestStart, Measure, BacklogDone,
       OpenTail, LoopNext, Wake, CheckReplaced, ReadLine, Rest, Rotate, SegmentDone,
       Recreate, Reopen, ManualNext, ManualStart, ManualLine, ManualEnd, SpuriousNotify,
       Age, Crash, vars, fsVars
    <3> QED BY <1>5, <2>2, <3>1
  <2>3. CASE ImportLine /\ phase \in {"recover", "prune"}
    <3>1. phase = "recover"
      BY <1>0, <2>3 DEF ImportLine, ImportInv
    <3> QED BY <1>4, <2>3, <3>1
  <2> QED BY <1>2, <1>6, <1>7, <1>8, <1>9, <2>1, <2>2, <2>3
<1> QED BY <1>1, <1>10

-----------------------------------------------------------------------------
(* The backlog *)

\* What was passed in a file before a step is passed after it.
LEMMA PassedGrows ==
    ASSUME IngestInv, [Next]_vars, NEW i \in Inodes, NEW p \in 0..Len(content[i]),
           Holds(content[i], p, Passed)
    PROVE  /\ p \in 0..Len(content'[i])
           /\ Holds(content'[i], p, Passed')
<1>1. TypeOK /\ TypeOK' /\ Grows /\ Passed \subseteq Passed'
  BY TypeStep, FileSteps DEF IngestInv, Passed
<1> QED BY <1>1, FileGrows

\* A line that the task reads is touched: stored or passed.
LEMMA IngestPasses ==
    ASSUME IngestInv, [Next]_vars, NEW i \in Inodes, NEW p \in 0..Len(content[i]),
           Holds(content[i], p, Passed), content' = content, Touched(i, p) \subseteq Passed'
    PROVE  /\ LineEnd(i, p) \in 0..Len(content'[i])
           /\ Holds(content'[i], LineEnd(i, p), Passed')
<1>1. TypeOK /\ Passed \subseteq Passed'
  BY FileSteps DEF IngestInv, Passed
<1>2. Holds(content[i], LineEnd(i, p), Passed')
  BY <1>1, ReadHolds
<1>3. LineEnd(i, p) \in p..Len(content[i]) /\ Len(content[i]) \in Nat /\ p \in Nat
  BY <1>1, LineEndIs DEF TypeOK
<1> QED BY <1>2, <1>3

LEMMA BacklogStep == IngestInv /\ [Next]_vars => BacklogInv'
<1> SUFFICES ASSUME IngestInv, [Next]_vars PROVE BacklogInv'
  OBVIOUS
<1>0. TypeOK /\ TypeOK' /\ FilesInv /\ ImportInv /\ BacklogInv
  BY TypeStep DEF IngestInv
<1>1. CASE phase' \notin {"backlog", "open"}
  BY <1>1 DEF BacklogInv
<1>2. CASE Measure
  <2>1. CASE live = None
    BY <2>1, <1>2 DEF Measure, BacklogInv, fsVars
  <2>2. CASE live # None
    <3>1. live \in Inodes /\ Len(content[live]) \in Nat
      BY <1>0, <2>2 DEF TypeOK
    <3>2. /\ phase' = "backlog" /\ offset' = Len(content[live])
          /\ imp' = [ino |-> live, pos |-> 0] /\ UNCHANGED <<content, live>>
      BY <1>2, <2>2 DEF Measure, fsVars
    <3>3. Holds(content'[live'], imp'.pos, Passed')
      BY <3>2, HoldsNothing
    <3> QED BY <3>1, <3>2, <3>3 DEF BacklogInv
  <2> QED BY <2>1, <2>2
<1>3. CASE phase = "backlog" /\ ImportLine
  <2>1. PICK i \in Inodes, p \in Nat : imp.ino = i /\ imp.pos = p /\ live = i
    BY <1>0, <1>3 DEF TypeOK, Imports, ImportInv
  <2>2. p \in 0..Len(content[i]) /\ Holds(content[i], p, Passed)
    BY <1>0, <1>3, <2>1 DEF BacklogInv
  <2>3. content' = content /\ Touched(i, p) \subseteq Passed'
    BY <1>3, <2>1 DEF ImportLine, Ingest, Passed, fsVars
  <2>4. /\ LineEnd(i, p) \in 0..Len(content'[i])
        /\ Holds(content'[i], LineEnd(i, p), Passed')
    BY <2>2, <2>3, IngestPasses
  <2>5. imp'.pos = LineEnd(i, p)
    <3>1. imp' = [imp EXCEPT !.pos = LineEnd(i, p)] /\ imp \in Imports
      BY <1>0, <1>3, <2>1 DEF ImportLine, TypeOK
    <3> QED BY <3>1 DEF Imports
  <2>6. phase' = "backlog" /\ live' = i /\ offset' \in 0..Len(content'[live'])
    BY <1>0, <1>3, <2>1, <2>3 DEF ImportLine, BacklogInv, fsVars, tailVars
  <2> QED BY <2>4, <2>5, <2>6 DEF BacklogInv
<1>4. CASE BacklogDone
  <2>1. PICK i \in Inodes, p \in Nat : imp.ino = i /\ imp.pos = p /\ live = i
    BY <1>0, <1>4 DEF BacklogDone, TypeOK, Imports, ImportInv
  <2>2. /\ p \in 0..Len(content[i]) /\ Holds(content[i], p, Passed)
        /\ offset \in 0..Len(content[i])
    BY <1>0, <1>4, <2>1 DEF BacklogDone, BacklogInv
  <2>3. /\ phase' = "open" /\ UNCHANGED <<content, live, offset, decision_log>>
        /\ AtEnd(i, p) \/ missed' = missed \cup Unreached
        /\ Passed \subseteq Passed'
    BY <1>4, <2>1, FileSteps DEF BacklogDone, ImportEnds, fsVars, tailVars, Passed
  <2>4. Holds(content[i], offset, Passed')
    <3>0. Len(content[i]) \in Nat
      BY <1>0 DEF TypeOK
    <3>1. CASE AtEnd(i, p)
      <4>1. offset \in 0..p
        BY <2>2, <3>0, <3>1 DEF AtEnd
      <4> QED BY <2>2, <2>3, <4>1 DEF Holds
    <3>2. CASE missed' = missed \cup Unreached
      <4>1. \A q \in (p + 1)..Len(content[i]) : content[i][q][1] \in Passed'
        BY <2>1, <3>2 DEF Unreached, Passed
      <4>2. \A l \in Lines, q \in 1..offset :
              content[i][q] = <<l, "end">> => q \in 1..p \/ l \in Passed'
        BY <2>2, <3>0, <4>1
      <4> QED BY <2>2, <2>3, <4>2 DEF Holds
    <3> QED BY <2>3, <3>1, <3>2
  <2> QED BY <1>0, <2>1, <2>2, <2>3, <2>4, IngestAssumption DEF BacklogInv, TypeOK
<1>5. CASE /\ phase \in {"backlog", "open"} /\ UNCHANGED <<phase, imp, offset>>
           /\ live # None => live' = live
  <2>1. CASE live = None
    <3>1. phase' = "open" /\ offset' = 0
      BY <1>0, <1>5, <2>1 DEF BacklogInv, ImportInv
    <3>2. live' # None => Len(content'[live']) \in Nat
      BY <1>0 DEF TypeOK
    <3>3. Holds(content'[live'], offset', Passed')
      BY <3>1, HoldsNothing
    <3> QED BY <3>1, <3>2, <3>3 DEF BacklogInv
  <2>2. CASE live # None
    <3>1. PICK i \in Inodes : live = i /\ live' = i
      BY <1>0, <1>5, <2>2 DEF TypeOK
    <3>2. \A p \in 0..Len(content[i]) :
            /\ p \in 0..Len(content'[i])
            /\ Holds(content[i], p, Passed) => Holds(content'[i], p, Passed')
      <4>1. TypeOK /\ TypeOK' /\ Grows /\ Passed \subseteq Passed'
        BY <1>0, FileSteps DEF Passed
      <4>2. \A p \in 0..Len(content[i]) : p \in 0..Len(content'[i])
        BY <4>1 DEF TypeOK, Grows
      <4> QED BY <4>2, PassedGrows
    <3> QED BY <1>0, <1>5, <2>2, <3>1, <3>2, IngestAssumption DEF BacklogInv
  <2> QED BY <2>1, <2>2
<1>6. CASE phase' \in {"backlog", "open"} /\ ~Measure /\ ~BacklogDone
           /\ ~(phase = "backlog" /\ ImportLine)
  <2>1. phase \in {"backlog", "open"} /\ UNCHANGED <<phase, imp, offset>>
    BY <1>0, <1>6 DEF Next, HookNext, HookOpen, HookWriteStart, HookWriteEnd, Write, HookFails,
       ImportLine, ImportInv, StartupNext, DaemonStart, RecoverNext, RecoverImported, RecoverBroken,
       RecoverAborts, Recovered, Prune, IngestStart, OpenTail,
       LoopNext, Wake, CheckReplaced, ReadLine, Rest, Rotate, SegmentDone, Recreate,
       Reopen, ManualNext, ManualStart, ManualLine, ManualEnd, SpuriousNotify, Age,
       Crash, vars, tailVars
  <2>2. live # None => live' = live
    <3>1. CASE CreateLive
      BY <1>0, <3>1, CreatesLive
    <3>2. CASE UNCHANGED live
      BY <3>2
    <3> QED
      BY <1>6, <2>1, <3>1, <3>2 DEF Next, HookNext, HookOpen, HookWriteStart, HookWriteEnd, Write,
       HookFails, ImportLine, StartupNext, DaemonStart, RecoverNext, RecoverImported,
       RecoverBroken, RecoverAborts, Recovered, Prune, IngestStart, OpenTail, LoopNext,
       Wake, CheckReplaced, ReadLine, Rest, Rotate, SegmentDone, Recreate, Reopen,
       ManualNext, ManualStart, ManualLine, ManualEnd, SpuriousNotify, Age, Crash, vars,
       fsVars
  <2> QED BY <1>5, <2>1, <2>2
<1> QED BY <1>1, <1>2, <1>3, <1>4, <1>6

-----------------------------------------------------------------------------
(* The tail *)

LEMMA TailStep == IngestInv /\ [Next]_vars => TailInv'
<1> SUFFICES ASSUME IngestInv, [Next]_vars PROVE TailInv'
  OBVIOUS
<1>0. TypeOK /\ TypeOK' /\ FilesInv /\ BacklogInv /\ TailInv
  BY TypeStep DEF IngestInv
<1>1. CASE phase' \notin Tailing
  BY <1>1 DEF TailInv
<1>2. created \subseteq created'
  <2>1. CASE CreateLive
    BY <1>0, <2>1, CreatesLive
  <2> QED
    BY <2>1 DEF Next, HookNext, HookOpen, HookWriteStart, HookWriteEnd, Write,
       HookFails, ImportLine, StartupNext, DaemonStart, RecoverNext, RecoverImported,
       RecoverBroken, RecoverAborts, Recovered, Prune, IngestStart, Measure, BacklogDone,
       OpenTail, LoopNext, Wake, CheckReplaced, ReadLine, Rest, Rotate, SegmentDone,
       Recreate, Reopen, ManualNext, ManualStart, ManualLine, ManualEnd, SpuriousNotify,
       Age, Crash, vars, fsVars
<1>3. CASE phase \in Tailing /\ UNCHANGED <<reader, offset>>
  <2>1. PICK i \in Inodes, p \in Nat : reader = i /\ offset = p
    BY <1>0, <1>3 DEF TailInv, TypeOK
  <2>2. p \in 0..Len(content'[i]) /\ Holds(content'[i], p, Passed')
    BY <1>0, <1>3, <2>1, PassedGrows DEF TailInv
  <2> QED BY <1>0, <1>2, <1>3, <2>1, <2>2 DEF TailInv
<1>4. CASE live # None /\ reader' = live /\ offset' = 0
  <2>1. reader' \in created' /\ reader' \in Inodes
    BY <1>0, <1>2, <1>4 DEF TypeOK
  <2>2. Len(content'[reader']) \in Nat
    BY <1>0, <2>1 DEF TypeOK
  <2>3. Holds(content'[reader'], offset', Passed')
    BY <1>4, HoldsNothing
  <2> QED BY <1>4, <2>1, <2>2, <2>3 DEF TailInv
<1>5. CASE OpenTail
  <2>1. CASE live # None /\ reader' = live /\ offset' = Min({offset, Len(content[live])})
    <3>1. PICK i \in Inodes, p \in Nat : live = i /\ offset = p
      BY <1>0, <2>1 DEF TypeOK
    <3>2. p \in 0..Len(content[i]) /\ Holds(content[i], p, Passed)
      BY <1>0, <1>5, <2>1, <3>1 DEF OpenTail, BacklogInv
    <3>3. offset' = p
      <4>1. Len(content[i]) \in Nat
        BY <1>0 DEF TypeOK
      <4>2. offset' \in {p, Len(content[i])} /\ offset' <= p
        BY <2>1, <3>1, <4>1, MinIs
      <4> QED BY <3>1, <3>2, <4>1, <4>2
    <3>4. p \in 0..Len(content'[i]) /\ Holds(content'[i], p, Passed')
      BY <3>2, PassedGrows
    <3> QED BY <1>0, <1>2, <2>1, <3>1, <3>3, <3>4 DEF TailInv, TypeOK
  <2>2. CASE phase' = "ended"
    BY <2>2 DEF TailInv, Tailing
  <2> QED BY <1>5, <2>1, <2>2 DEF OpenTail
<1>6. CASE ReadLine
  <2>1. PICK i \in Inodes, p \in Nat : reader = i /\ offset = p
    BY <1>0, <1>6 DEF ReadLine, Tailing, TailInv, TypeOK
  <2>2. p \in 0..Len(content[i]) /\ Holds(content[i], p, Passed)
    BY <1>0, <1>6, <2>1 DEF ReadLine, Tailing, TailInv
  <2>3. content' = content /\ Touched(i, p) \subseteq Passed'
    BY <1>6, <2>1 DEF ReadLine, Ingest, Passed, fsVars
  <2>4. /\ LineEnd(i, p) \in 0..Len(content'[i])
        /\ Holds(content'[i], LineEnd(i, p), Passed')
    BY <2>2, <2>3, IngestPasses
  <2>5. reader' = i /\ offset' = LineEnd(i, p) /\ reader' \in created'
    BY <1>0, <1>2, <1>6, <2>1 DEF ReadLine, Tailing, TailInv
  <2> QED BY <2>4, <2>5 DEF TailInv
<1>7. CASE phase' \in Tailing /\ ~OpenTail /\ ~ReadLine
  <2>1. \/ phase \in Tailing /\ UNCHANGED <<reader, offset>>
        \/ live # None /\ reader' = live /\ offset' = 0
    BY <1>7 DEF Next, HookNext, HookOpen, HookWriteStart, HookWriteEnd, Write,
       HookFails, ImportLine, StartupNext, DaemonStart, RecoverNext, RecoverImported,
       RecoverBroken, RecoverAborts, Recovered, Prune, IngestStart, Measure, BacklogDone,
       LoopNext, Wake, CheckReplaced, Rest, Rotate, SegmentDone,
       Recreate, Reopen, ManualNext, ManualStart, ManualLine, ManualEnd, SpuriousNotify,
       Age, Crash, vars, tailVars, Tailing
  <2> QED BY <1>3, <1>4, <2>1
<1> QED BY <1>1, <1>5, <1>6, <1>7

-----------------------------------------------------------------------------
(* No line is lost *)

LEMMA StandsStays ==
    ASSUME TypeOK, TypeOK', Grows, NEW l \in Lines, NEW i \in Inodes, Stands(l, i)
    PROVE  Stands(l, i)'
<1>1. PICK q \in 1..Len(content[i]) : StandsAt(l, i, q)
  BY DEF Stands
<1>2. StandsAt(l, i, q)'
  BY <1>1, StandsStable
<1>3. q \in 1..Len(content'[i])
  BY <1>1 DEF TypeOK, Grows
<1> QED BY <1>2, <1>3 DEF Stands

\* A file is deleted when every line in it has its row.
LEMMA DeletedIsStored ==
    ASSUME IngestInv, [Next]_vars, "scan" \notin Faults,
           NEW i \in Files, i \notin Files', NEW l \in Lines, Stands(l, i)
    PROVE  l \in decision_log
<1>0. TypeOK /\ FilesInv /\ ImportInv /\ RecoverInv
  BY DEF IngestInv
<1>1. RecoverImported \/ Prune
  <2>1. CASE CreateLive /\ UNCHANGED <<segs, failed>>
    BY <1>0, <2>1, CreatesLive DEF Files
  <2>2. CASE Rotate \/ SegmentDone \/ RecoverBroken \/ UNCHANGED <<live, segs, failed>>
    BY <2>2 DEF Rotate, SegmentDone, RecoverBroken, Files
  <2> QED
    BY <2>1, <2>2 DEF Next, HookNext, HookOpen, HookWriteStart, HookWriteEnd, Write, HookFails,
       ImportLine, StartupNext, DaemonStart, RecoverNext, RecoverAborts, Recovered,
       IngestStart, Measure, BacklogDone, OpenTail, LoopNext, Wake, CheckReplaced,
       ReadLine, Rest, Recreate, Reopen, ManualNext, ManualStart, ManualLine, ManualEnd,
       SpuriousNotify, Age, Crash, vars, fsVars
<1>2. i \in Inodes /\ Len(content[i]) \in Nat
  BY <1>0 DEF Files, TypeOK
<1>3. Holds(content[i], Len(content[i]), decision_log)
  <2>1. CASE RecoverImported
    <3>1. /\ phase = "recover" /\ imp # None /\ i = imp.ino /\ AtEnd(imp.ino, imp.pos)
      BY <2>1 DEF RecoverImported, ImportEnds, Files
    <3>2. Boundary(i, imp.pos) /\ Holds(content[i], imp.pos, decision_log)
      BY <1>0, <3>1 DEF RecoverInv
    <3>3. imp.pos = Len(content[i])
      BY <1>2, <3>1, <3>2 DEF AtEnd, Boundary
    <3> QED BY <3>2, <3>3
  <2>2. CASE Prune
    <3>1. phase = "prune" /\ i \in segs /\ todo = {}
      BY <1>0, <2>2 DEF Prune, Files, ImportInv
    <3> QED BY <1>0, <3>1 DEF RecoverInv
  <2> QED BY <1>1, <2>1, <2>2
<1>4. PICK q \in 1..Len(content[i]) : StandsAt(l, i, q)
  BY DEF Stands
<1> QED BY <1>3, <1>4 DEF Holds, StandsAt

\* A write that ends behind a whole line, or at the start, leaves its own whole.
LEMMA WrittenStands ==
    ASSUME IngestInv, TypeOK', NEW l \in Lines, HookWriteEnd(l), hook'[l] = "done"
    PROVE  fd[l] \in Files' /\ \E i \in Files' : Stands(l, i)'
<1>0. TypeOK /\ WritersInv
  BY DEF IngestInv
<1>1. Writer(l) /\ hook[l] = "writing" /\ Write(l, "end")
  BY DEF HookWriteEnd, Writer
<1>2. PICK i \in Inodes : fd[l] = i /\ i \in Files
  BY <1>0, <1>1 DEF WritersInv, Files, TypeOK
<1>3. PICK n \in Nat : n = Len(content[i])
  BY <1>0 DEF TypeOK
<1>4. content[i][n] = <<l, "start">> /\ n >= 1
  <2>1. content[i] # <<>> /\ content[i][Len(content[i])] = <<l, "start">>
    BY <1>0, <1>1, <1>2 DEF WritersInv
  <2>2. content[i] \in Seq(Chunks)
    BY <1>0 DEF TypeOK
  <2> QED BY <1>3, <2>1, <2>2
<1>5. n > 1 => content[i][n - 1][2] = "end"
  <2>1. hook'[l] = IF n > 1 => content[i][n - 1][2] = "end" THEN "done" ELSE "mangled"
    BY <1>0, <1>2, <1>3 DEF HookWriteEnd, TypeOK
  <2> QED BY <2>1
<1>6. /\ Len(content'[i]) = n + 1 /\ content'[i][n + 1] = <<l, "end">>
      /\ \A q \in 1..n : content'[i][q] = content[i][q]
  BY <1>0, <1>1, <1>2, <1>3, Writes DEF Grows
<1>7. StandsAt(l, i, n + 1)'
  <2>1. content'[i][n] = <<l, "start">> /\ (n > 1 => content'[i][n - 1][2] = "end")
    BY <1>3, <1>4, <1>5, <1>6
  <2>2. n + 1 \in 2..Len(content'[i]) /\ (n + 1) - 1 = n /\ (n + 1) - 2 = n - 1
    BY <1>3, <1>4, <1>6
  <2> QED BY <1>4, <1>6, <2>1, <2>2 DEF StandsAt
<1>8. Stands(l, i)'
  <2>1. n + 1 \in 1..Len(content'[i])
    BY <1>6
  <2> QED BY <1>7, <2>1 DEF Stands
<1>9. i \in Files' /\ fd[l] = i
  BY <1>1, <1>2 DEF Write, Files
<1> QED BY <1>8, <1>9

LEMMA KeptStep == IngestInv /\ [Next]_vars => Kept'
<1> SUFFICES ASSUME IngestInv, [Next]_vars, "scan" \notin Faults,
                    NEW l \in Lines, hook'[l] = "done"
             PROVE  l \in decision_log' \/ \E i \in Files' : Stands(l, i)'
  BY DEF Kept, NoLineLost, Files
<1>0. TypeOK /\ TypeOK' /\ Grows /\ decision_log \subseteq decision_log' /\ Kept
  BY TypeStep, FileSteps DEF IngestInv
<1>1. CASE hook[l] = "done"
  <2>1. CASE l \in decision_log
    BY <1>0, <2>1
  <2>2. CASE \E i \in Files : Stands(l, i)
    <3>1. PICK i \in Files : Stands(l, i)
      BY <2>2
    <3>2. i \in Inodes
      BY <1>0 DEF Files, TypeOK
    <3>3. Stands(l, i)'
      BY <1>0, <3>1, <3>2, StandsStays
    <3> QED BY <1>0, <3>1, <3>3, DeletedIsStored
  <2> QED BY <1>0, <1>1, <2>1, <2>2 DEF Kept, NoLineLost, Files
<1>2. CASE hook[l] # "done"
  <2>1. HookWriteEnd(l)
    BY <1>0, <1>2 DEF Next, HookNext, HookOpen, HookWriteStart, HookWriteEnd, Write, HookFails,
       ImportLine, StartupNext, DaemonStart, RecoverNext, RecoverImported, RecoverBroken,
       RecoverAborts, Recovered, Prune, IngestStart, Measure, BacklogDone, OpenTail,
       LoopNext, Wake, CheckReplaced, ReadLine, Rest, Rotate, SegmentDone, Recreate,
       Reopen, ManualNext, ManualStart, ManualLine, ManualEnd, SpuriousNotify, Age,
       Crash, vars, hookVars, TypeOK
  <2> QED BY <1>0, <2>1, WrittenStands
<1> QED BY <1>1, <1>2

-----------------------------------------------------------------------------
LEMMA IngestInit == Init => IngestInv
<1> SUFFICES ASSUME Init PROVE IngestInv
  OBVIOUS
<1>1. <<>> \in Seq(Chunks)
  OBVIOUS
<1>2. TypeOK
  <2>1. content \in [Inodes -> Seq(Chunks)] /\ hook \in [Lines -> HookStates]
        /\ fd \in [Lines -> created \cup {None}]
    BY <1>1 DEF Init, HookStates
  <2>2. crashes \in 0..MaxCrashes
    BY IngestAssumption DEF Init
  <2> QED BY <2>1, <2>2 DEF Init, TypeOK
<1>3. FilesInv /\ WritersInv /\ ImportInv
  BY IngestAssumption DEF Init, FilesInv, WritersInv, ImportInv, Unused, Writer
<1>4. RecoverInv /\ BacklogInv /\ TailInv /\ Kept
  BY DEF Init, RecoverInv, BacklogInv, TailInv, Tailing, Kept, NoLineLost
<1> QED BY <1>2, <1>3, <1>4 DEF IngestInv

\* The invariant is inductive: whatever hooks write, wherever a write, an
\* import, a rotation or the daemon stops.
THEOREM IngestCoherent == Spec => []IngestInv
<1>1. IngestInv /\ [Next]_vars => IngestInv'
  BY TypeStep, FilesStep, WritersStep, ImportStep, RecoverStep, BacklogStep, TailStep,
     KeptStep DEF IngestInv
<1> QED BY <1>1, IngestInit, PTL DEF Spec

\* rotate_events_log's "Non-lossy", for any number of hooks, files and
\* crashes: a line written whole has its row or stands in a file that a later
\* import reads.  The one exception is a directory entry that the startup scan
\* cannot read: that segment may be pruned unread.
THEOREM LinesKept == ASSUME "scan" \notin Faults PROVE Spec => []NoLineLost
<1>1. IngestInv => NoLineLost
  BY DEF IngestInv, Kept
<1> QED BY <1>1, IngestCoherent, PTL

\* run_ingest: no line falls between the import of the backlog and the start
\* of the tail, or between two files, whatever fails.
THEOREM NoGapBehindTail == Spec => []TailLeavesNoGap
<1>1. IngestInv => TailLeavesNoGap
  BY DEF IngestInv, TailInv, TailLeavesNoGap, Passed, Holds, StandsAt
<1> QED BY <1>1, IngestCoherent, PTL

-----------------------------------------------------------------------------
(***************************************************************************)
(* The console's connection.  At most one socket is not closed, the one    *)
(* the hook talks to; the reconnect timer runs only when there is none.    *)
(***************************************************************************)
AllClosed == \A s \in Socks : sock[s].rs = "closed"

DialInv ==
    /\ DOMAIN sock = Socks /\ \A s \in Socks : "rs" \in DOMAIN sock[s]
    /\ issued \in Nat
    /\ \A s \in Socks : sock[s].rs # "closed" => s = wsRef
    /\ timer => AllClosed
    /\ token = 0 => AllClosed /\ ~timer /\ probe = 0

LEMMA ClosedIs ==
    /\ DOMAIN ClosedSock = {"rs", "hook", "tok", "srv", "sub", "wire", "lag"} /\ ClosedSock.rs = "closed"
    /\ \A r, t : "rs" \in DOMAIN NewSock(r, t) /\ NewSock(r, t).rs = r
BY DEF ClosedSock, NewSock

\* A frame moves: subscription, ring, wire, view.
LEMMA DialQuiet ==
    ASSUME DialInv, UNCHANGED <<wsRef, timer, probe, token, issued>>, DOMAIN sock' = Socks,
           \A s \in Socks : "rs" \in DOMAIN sock'[s] /\ sock'[s].rs = sock[s].rs
    PROVE  DialInv'
BY DEF DialInv, AllClosed

LEMMA DialBroadcast ==
    ASSUME DialInv, UNCHANGED <<wsRef, timer, probe, token, issued>>, NEW m, Broadcast(m)
    PROVE  DialInv'
<1>1. DOMAIN sock' = Socks
    BY DEF Broadcast
<1>2. ASSUME NEW s \in Socks PROVE "rs" \in DOMAIN sock'[s] /\ sock'[s].rs = sock[s].rs
    <2>1. "rs" \in DOMAIN sock[s]
        BY DEF DialInv
    <2>2. \/ sock'[s] = sock[s]
          \/ sock'[s] = [sock[s] EXCEPT !.sub = Append(sock[s].sub, m)]
          \/ sock'[s] = [sock[s] EXCEPT !.sub = Append(Tail(sock[s].sub), m), !.lag = TRUE]
        BY DEF Broadcast
    <2> QED
        BY <2>1, <2>2
<1> QED
    BY <1>1, <1>2, DialQuiet

LEMMA DialDaemon ==
    ASSUME DialInv, DaemonStep \/ \E m \in out : Publish(m)
    PROVE  DialInv'
<1>1. UNCHANGED <<wsRef, timer, probe, token, issued>>
    BY DEF DaemonStep, Enqueue, Resolve, Register, Reap, Defer, Answer, Launch, Exit, Alert, Publish,
           AnnounceLater, AnnounceNow, dialVars, authVars
<1>2. sock' = sock \/ \E m : Broadcast(m)
    BY DEF DaemonStep, Enqueue, Resolve, Register, Reap, Defer, Answer, Launch, Exit, Alert, Publish,
           AnnounceLater, AnnounceNow
<1>3. CASE sock' = sock
    BY <1>1, <1>3, DialQuiet DEF DialInv
<1> QED
    BY <1>1, <1>2, <1>3, DialBroadcast

LEMMA DialFrame ==
    ASSUME DialInv, NEW s \in Socks, NEW from, NEW to, NEW m, SendFrame(s, from, to, m)
    PROVE  DialInv'
<1>1. sock' = [sock EXCEPT ![s].srv = to, ![s].wire = Append(@, m)]
      /\ UNCHANGED <<wsRef, timer, probe, token, issued>>
    BY DEF SendFrame, dialVars, authVars
<1> QED
    BY <1>1, DialQuiet DEF DialInv

LEMMA DialFeed ==
    ASSUME DialInv, NEW s \in Socks,
           \/ SendWelcome(s) \/ Subscribe(s) \/ SendAgents(s) \/ SendQueue(s) \/ SendAudit(s)
           \/ Forward(s) \/ Receive(s) \/ PollAgents(s)
    PROVE  DialInv'
<1>1. CASE Subscribe(s) \/ Forward(s) \/ Receive(s)
    <2>1. UNCHANGED <<wsRef, timer, probe, token, issued>>
        BY <1>1 DEF Subscribe, Forward, Receive, dialVars, authVars
    <2>2. \/ sock' = [sock EXCEPT ![s].srv = "agents"]
          \/ sock' = [sock EXCEPT ![s].sub = Tail(@), ![s].wire = Append(@, Head(sock[s].sub))]
          \/ sock' = [sock EXCEPT ![s].wire = Tail(@)]
        BY <1>1 DEF Subscribe, Forward, Receive
    <2>3. DOMAIN sock' = Socks
        BY <2>2 DEF DialInv
    <2>4. \A r \in Socks : "rs" \in DOMAIN sock'[r] /\ sock'[r].rs = sock[r].rs
        BY <2>2 DEF DialInv
    <2> QED
        BY <2>1, <2>3, <2>4, DialQuiet
<1> QED
    BY <1>1, DialFrame DEF SendWelcome, SendAgents, SendQueue, SendAudit, PollAgents

\* The upgrade is accepted: the dialled socket is the hook's.
LEMMA DialAccept ==
    ASSUME DialInv, NEW s \in Socks, Accept(s)
    PROVE  DialInv'
<1>1. /\ sock[s].rs = "connecting" /\ UNCHANGED <<wsRef, timer, probe, token, issued>>
      /\ sock' = [sock EXCEPT ![s].rs = "open", ![s].srv = "hello"]
    BY DEF Accept, authVars
<1>2. DOMAIN sock' = Socks /\ \A r \in Socks : "rs" \in DOMAIN sock'[r] /\ (r # s => sock'[r].rs = sock[r].rs)
    BY <1>1 DEF DialInv
<1>3. s = wsRef /\ ~timer /\ token # 0
    BY <1>1 DEF DialInv, AllClosed
<1> QED
    BY <1>1, <1>2, <1>3 DEF DialInv, AllClosed

\* The socket closes: none is left, and a timer starts.
LEMMA DialClose ==
    ASSUME DialInv, NEW s \in Socks, sock[s].rs # "closed", OnClose(s)
    PROVE  DialInv'
<1>1. /\ sock' = [sock EXCEPT ![s] = ClosedSock] /\ UNCHANGED <<wsRef, token, issued>>
    BY DEF OnClose, authVars
<1>2. DOMAIN sock' = Socks /\ \A r \in Socks : "rs" \in DOMAIN sock'[r] /\ sock'[r].rs = "closed"
    BY <1>1, ClosedIs DEF DialInv
<1>3. token # 0
    BY DEF DialInv, AllClosed
<1> QED
    BY <1>1, <1>2, <1>3 DEF DialInv, AllClosed

LEMMA DialTearDown ==
    ASSUME DialInv, NEW socks, DOMAIN socks = Socks,
           \A r \in Socks : "rs" \in DOMAIN socks[r] /\ socks[r].rs \in {sock[r].rs, "closed"},
           TearDown(socks)
    PROVE  DialInv'
<1>1. sock' = IF wsRef = NoSock THEN socks ELSE [socks EXCEPT ![wsRef] = ClosedSock]
    BY DEF TearDown
<1>2. DOMAIN sock' = Socks /\ \A r \in Socks : "rs" \in DOMAIN sock'[r] /\ sock'[r].rs = "closed"
    BY <1>1, ClosedIs, FeedAssumption DEF DialInv
<1> QED
    BY <1>2 DEF TearDown, DialInv, AllClosed

\* connect() from a state without a socket.
LEMMA DialConnect ==
    ASSUME DialInv, AllClosed, NEW t, Connect(sock, t), timer' = FALSE, probe' = probe,
           token' = t, t # 0, issued' \in Nat
    PROVE  DialInv'
<1>1. \/ sock' = sock
      \/ \E s \in Socks : sock' = [sock EXCEPT ![s] = NewSock("connecting", t)] /\ wsRef' = s
    BY DEF Connect
<1>2. CASE sock' = sock
    BY <1>2 DEF DialInv, AllClosed
<1>3. ASSUME NEW s \in Socks, sock' = [sock EXCEPT ![s] = NewSock("connecting", t)], wsRef' = s
      PROVE  DialInv'
    <2>1. DOMAIN sock' = Socks /\ \A r \in Socks : "rs" \in DOMAIN sock'[r] /\ (r # s => sock'[r].rs = "closed")
        BY <1>3, ClosedIs DEF DialInv, AllClosed
    <2> QED
        BY <1>3, <2>1 DEF DialInv, AllClosed
<1> QED
    BY <1>1, <1>2, <1>3

LEMMA DialStep ==
    ASSUME ~Relogin, DialInv, [FeedNext]_feedVars
    PROVE  DialInv'
<1>1. CASE UNCHANGED feedVars
    BY <1>1, DialQuiet DEF DialInv, feedVars, dialVars, authVars
<1>2. CASE DaemonStep \/ \E m \in out : Publish(m)
    BY <1>2, DialDaemon
<1>3. ASSUME NEW s \in Socks, FeedStep(s) \/ PollAgents(s) \/ Drop(s) \/ PolicyClose(s)
      PROVE  DialInv'
    <2>1. CASE Refuse(s) \/ Drop(s)
        <3>1. sock[s].rs # "closed" /\ OnClose(s)
            BY <2>1 DEF Refuse, Drop
        <3> QED
            BY <3>1, DialClose
    <2>2. CASE PolicyClose(s)
        <3>1. PICK socks : socks = [sock EXCEPT ![s] = ClosedSock]
            OBVIOUS
        <3>2. DOMAIN socks = Socks /\ \A r \in Socks : "rs" \in DOMAIN socks[r] /\ socks[r].rs \in {sock[r].rs, "closed"}
            BY <3>1, ClosedIs DEF DialInv
        <3>3. TearDown(socks)
            BY <2>2, <3>1 DEF PolicyClose
        <3> QED
            BY <3>2, <3>3, DialTearDown
    <2> QED
        BY <1>3, <2>1, <2>2, DialFeed, DialAccept DEF FeedStep
<1>4. CASE Logout \/ ProbeRejected
    <2>1. TearDown(sock)
        BY <1>4 DEF Logout, ProbeRejected
    <2> QED
        BY <2>1, DialTearDown DEF DialInv
<1>5. CASE Revoke \/ ProbeAccepted \/ ProbeLost
    <2>1. UNCHANGED <<sock, wsRef, timer, token, issued>> /\ probe' \in {probe, 0}
        BY <1>5 DEF Revoke, ProbeAccepted, ProbeLost, dialVars, authVars
    <2> QED
        BY <2>1 DEF DialInv, AllClosed
<1>6. CASE StoreToken
    <2>1. token = 0 /\ token' = issued + 1 /\ issued' = issued + 1 /\ issued \in Nat
        BY <1>6 DEF StoreToken, DialInv
    <2>2. AllClosed /\ ~timer /\ probe = 0
        BY <2>1 DEF DialInv
    <2>3. CASE IsOpen(wsRef)
        <3>1. UNCHANGED <<sock, wsRef, timer, probe>>
            BY <1>6, <2>3 DEF StoreToken, dialVars
        <3> QED
            BY <2>1, <2>2, <3>1 DEF DialInv, AllClosed
    <2>4. CASE ~IsOpen(wsRef)
        <3>1. Connect(sock, issued') /\ timer' = FALSE /\ probe' = probe
            BY <1>6, <2>4 DEF StoreToken
        <3>2. PICK t : t = issued'
            OBVIOUS
        <3>3. Connect(sock, t) /\ token' = t /\ t # 0 /\ issued' \in Nat
            BY <2>1, <3>1, <3>2
        <3> QED
            BY <2>2, <3>1, <3>3, DialConnect
    <2> QED
        BY <2>3, <2>4
<1>7. CASE ReconnectTimer
    <2>1. timer /\ timer' = FALSE /\ Connect(sock, token) /\ UNCHANGED <<probe, token, issued>>
        BY <1>7 DEF ReconnectTimer, authVars
    <2>2. AllClosed /\ token # 0 /\ issued \in Nat
        BY <2>1 DEF DialInv
    <2>3. PICK t : t = token
        OBVIOUS
    <2> QED
        BY <2>1, <2>2, <2>3, DialConnect
<1> QED
    BY <1>1, <1>2, <1>3, <1>4, <1>5, <1>6, <1>7 DEF FeedNext, UserStep, FaultStep

\* Without a stored token the page is down (useWisphive.ts: the auth-change
\* effect and onclose): no socket, no reconnect timer, no probe; unless a login
\* finishes while a token is stored, which dials a second socket.
THEOREM LoggedOutIsDownHolds == ASSUME ~Relogin PROVE FeedSpec => []LoggedOutIsDown
<1>1. FeedInit => DialInv
    BY ClosedIs DEF FeedInit, DialInv, AllClosed
<1>2. DialInv /\ [FeedNext]_feedVars => DialInv'
    BY DialStep
<1>3. DialInv => LoggedOutIsDown
    BY DEF DialInv, LoggedOutIsDown, AllClosed
<1> QED
    BY <1>1, <1>2, <1>3, PTL DEF FeedSpec

-----------------------------------------------------------------------------
(***************************************************************************)
(* What the console shows.  The reducer's queue after some frames holds a  *)
(* decision when a frame put it there and no later frame took it away, or  *)
(* it was there before and no frame took it.                               *)
(***************************************************************************)
Puts(m, d) ==
    \/ m.type = "new_decision" /\ m.id = d
    \/ m.type = "queue_snapshot" /\ d \in ToSet(m.items)

Takes(m, d) ==
    \/ m.type = "decision_resolved" /\ m.id = d
    \/ m.type = "queue_snapshot" /\ d \notin ToSet(m.items)

\* After the first n frames of f, starting from the decisions D.
ShownAt(D, f, n) ==
    {d \in Ids :
        \/ \E i \in 1..n : Puts(f[i], d) /\ \A j \in (i + 1)..n : ~Takes(f[j], d)
        \/ d \in D /\ \A j \in 1..n : ~Takes(f[j], d)}

Shown(D, f) == ShownAt(D, f, Len(f))

NewsFrames ==
    [type : {"new_decision", "decision_resolved"}, id : Ids]
OtherFrames ==
    [type : {"agent_connected", "agent_disconnected"}, agent : Agents]
      \cup [type : {"agent_spawned", "agent_exited"}, agent : Procs]
      \cup [type : {"audit_decision", "deferred_resolved"}, row : Rows]
      \cup [type : {"alert"}, kind : Kinds, active : BOOLEAN]
SnapshotFrames ==
    [type : {"welcome"}]
      \cup [type : {"agents_snapshot"}, agents : {SetToSeq(A) : A \in SUBSET Agents}]
      \cup [type : {"queue_snapshot"}, items : Seq(Ids)]
      \cup [type : {"audit_snapshot"}, rows : SUBSET Rows]
      \cup [type : {"agent_list"}, agents : SUBSET Procs]
SubFrames == NewsFrames \cup OtherFrames
WireFrames == SubFrames \cup SnapshotFrames

Step(D, m) ==
    IF m.type = "queue_snapshot" THEN ToSet(m.items)
    ELSE IF m.type = "new_decision" THEN D \cup {m.id}
    ELSE IF m.type = "decision_resolved" THEN D \ {m.id}
    ELSE D

\* Induction over the naturals, for sets.
LEMMA NatAll ==
    ASSUME NEW S, 0 \in S, \A n \in Nat : n \in S => n + 1 \in S
    PROVE  \A n \in Nat : n \in S
<1> SUFFICES ASSUME Nat \ S # {} PROVE FALSE
    OBVIOUS
<1> DEFINE B == Nat \ S
<1>1. B \subseteq Nat /\ B # {}
    OBVIOUS
<1> HIDE DEF B
<1>2. PICK m \in B : \A y \in B : m <= y
    BY <1>1, MinIs
<1>3. m \in Nat /\ m # 0 /\ m \notin S
    BY <1>2 DEF B
<1>4. m - 1 \in Nat /\ m - 1 \notin B
    BY <1>2, <1>3, <1>1
<1>5. m - 1 \in S
    BY <1>4 DEF B
<1>6. (m - 1) + 1 = m
    BY <1>3
<1> QED
    BY <1>3, <1>4, <1>5, <1>6

\* The tables that the filter and the replay are read from exist: h holds the
\* result for each of the first n rows.
Filtered(q, d, n, h) ==
    h = [i \in 0..n |-> IF i = 0 THEN <<>>
                        ELSE IF q[i] # d THEN Append(h[i - 1], q[i]) ELSE h[i - 1]]

LEMMA FilteredExists ==
    ASSUME NEW q, NEW d
    PROVE  \A n \in Nat : \E h : Filtered(q, d, n, h)
<1> DEFINE S == {n \in Nat : \E h : Filtered(q, d, n, h)}
<1>1. 0 \in S
    <2>1. Filtered(q, d, 0, [i \in 0..0 |-> <<>>])
        BY DEF Filtered
    <2> QED
        BY <2>1
<1>2. ASSUME NEW n \in Nat, n \in S PROVE n + 1 \in S
    <2>1. PICK h : Filtered(q, d, n, h)
        BY <1>2
    <2> DEFINE g == [i \in 0..(n + 1) |->
                       IF i <= n THEN h[i]
                       ELSE IF q[n + 1] # d THEN Append(h[n], q[n + 1]) ELSE h[n]]
    <2>2. \A i \in 0..(n + 1) : i = n + 1 \/ i \in 0..n
        OBVIOUS
    <2>3. \A i \in 0..n : g[i] = h[i]
        OBVIOUS
    <2>4. \A i \in 0..n : i # 0 => i - 1 \in 0..n
        OBVIOUS
    <2>5. \A i \in 0..n : h[i] = IF i = 0 THEN <<>>
                                 ELSE IF q[i] # d THEN Append(h[i - 1], q[i])
                                 ELSE h[i - 1]
        BY <2>1 DEF Filtered
    <2>6. g[n + 1] = IF q[n + 1] # d THEN Append(g[n], q[n + 1]) ELSE g[n]
        BY <2>3
    <2>7. (n + 1) - 1 = n /\ n + 1 # 0
        OBVIOUS
    <2> HIDE DEF g
    <2>8. \A i \in 0..(n + 1) : g[i] = IF i = 0 THEN <<>>
                                 ELSE IF q[i] # d THEN Append(g[i - 1], q[i])
                                 ELSE g[i - 1]
        BY <2>2, <2>3, <2>4, <2>5, <2>6, <2>7
    <2>9. Filtered(q, d, n + 1, g)
        BY <2>8 DEF Filtered, g
    <2> QED
        BY <2>9
<1> HIDE DEF S
<1>3. \A n \in Nat : n \in S
    BY <1>1, <1>2, NatAll
<1> QED
    BY <1>3 DEF S

LEMMA AppendToSet ==
    \A S : \A r \in Seq(S) : \A x \in S :
        Append(r, x) \in Seq(S) /\ ToSet(Append(r, x)) = ToSet(r) \cup {x}
<1> SUFFICES ASSUME NEW S, NEW r \in Seq(S), NEW x \in S
             PROVE  Append(r, x) \in Seq(S) /\ ToSet(Append(r, x)) = ToSet(r) \cup {x}
    OBVIOUS
<1>1. /\ Append(r, x) \in Seq(S) /\ Len(Append(r, x)) = Len(r) + 1 /\ Len(r) \in Nat
      /\ \A i \in 1..Len(r) : Append(r, x)[i] = r[i]
      /\ Append(r, x)[Len(r) + 1] = x
      /\ DOMAIN r = 1..Len(r) /\ DOMAIN Append(r, x) = 1..(Len(r) + 1)
    OBVIOUS
<1> DEFINE a == Append(r, x)
<1> HIDE DEF a
<1>2. 1..(Len(r) + 1) = 1..Len(r) \cup {Len(r) + 1}
    BY <1>1
<1>3. {a[i] : i \in 1..(Len(r) + 1)} = {a[i] : i \in 1..Len(r)} \cup {a[Len(r) + 1]}
    BY <1>2
<1>4. {a[i] : i \in 1..Len(r)} = {r[i] : i \in 1..Len(r)}
    BY <1>1 DEF a
<1> QED
    BY <1>1, <1>3, <1>4 DEF ToSet, a

LEMMA WithoutIs ==
    ASSUME NEW S, NEW q \in Seq(S), NEW d
    PROVE  Without(q, d) \in Seq(S) /\ ToSet(Without(q, d)) = ToSet(q) \ {d}
<1> DEFINE f == CHOOSE h : Filtered(q, d, Len(q), h)
           Good == {n \in Nat : n <= Len(q) =>
                       /\ f[n] \in Seq(S)
                       /\ ToSet(f[n]) = {q[j] : j \in 1..n} \ {d}}
<1>1. Without(q, d) = f[Len(q)]
    BY DEF Without, Filtered
<1>2. Len(q) \in Nat
    OBVIOUS
<1>3. Filtered(q, d, Len(q), f)
    BY <1>2, FilteredExists
<1> HIDE DEF f
<1>4. f[0] = <<>>
    BY <1>2, <1>3 DEF Filtered
<1>5. ToSet(f[0]) = {} /\ f[0] \in Seq(S)
    BY <1>4 DEF ToSet
<1>6. {q[j] : j \in 1..0} = {}
    OBVIOUS
<1>7. 0 \in Good
    BY <1>5, <1>6
<1>8. ASSUME NEW n \in Nat, n \in Good PROVE n + 1 \in Good
    <2> SUFFICES ASSUME n + 1 <= Len(q)
                 PROVE  /\ f[n + 1] \in Seq(S)
                        /\ ToSet(f[n + 1]) = {q[j] : j \in 1..(n + 1)} \ {d}
        OBVIOUS
    <2>1. f[n] \in Seq(S) /\ ToSet(f[n]) = {q[j] : j \in 1..n} \ {d}
        BY <1>2, <1>8
    <2>2. n + 1 \in 0..Len(q) /\ n + 1 # 0 /\ (n + 1) - 1 = n /\ n + 1 \in 1..Len(q)
        BY <1>2
    <2>3. f[n + 1] = IF q[n + 1] # d THEN Append(f[n], q[n + 1]) ELSE f[n]
        BY ONLY <1>3, <2>2 DEF Filtered
    <2>4. q[n + 1] \in S
        BY <2>2
    <2>5. {q[j] : j \in 1..(n + 1)} = {q[j] : j \in 1..n} \cup {q[n + 1]}
        <3>1. 1..(n + 1) = 1..n \cup {n + 1}
            OBVIOUS
        <3> QED
            BY <3>1
    <2>6. \A r \in Seq(S), x \in S : Append(r, x) \in Seq(S) /\ ToSet(Append(r, x)) = ToSet(r) \cup {x}
        BY AppendToSet
    <2>7. CASE q[n + 1] # d
        BY <2>1, <2>3, <2>4, <2>5, <2>6, <2>7
    <2>8. CASE q[n + 1] = d
        BY <2>1, <2>3, <2>5, <2>8
    <2> QED
        BY <2>7, <2>8
<1> HIDE DEF Good
<1>9. \A n \in Nat : n \in Good
    BY <1>7, <1>8, NatAll
<1>10. f[Len(q)] \in Seq(S) /\ ToSet(f[Len(q)]) = {q[j] : j \in 1..Len(q)} \ {d}
    <2>1. Len(q) \in Good /\ Len(q) <= Len(q)
        BY <1>2, <1>9
    <2> QED
        BY <2>1 DEF Good
<1>11. ToSet(q) = {q[j] : j \in 1..Len(q)}
    BY DEF ToSet
<1> QED
    BY <1>1, <1>10, <1>11

LEMMA FrameIds ==
    ASSUME NEW m \in WireFrames
    PROVE  /\ m.type \in {"new_decision", "decision_resolved"} => m.id \in Ids
           /\ m.type = "queue_snapshot" => m.items \in Seq(Ids) /\ ToSet(m.items) \subseteq Ids
           /\ m.type \in {"new_decision", "decision_resolved", "agent_connected",
                         "agent_disconnected", "agent_spawned", "agent_exited",
                         "audit_decision", "deferred_resolved", "alert", "welcome",
                         "agents_snapshot", "queue_snapshot", "audit_snapshot",
                         "agent_list"}
<1>1. \A q \in Seq(Ids) : ToSet(q) \subseteq Ids
    BY DEF ToSet
<1>2. /\ m.type \in {"new_decision", "decision_resolved"} => m.id \in Ids
      /\ m.type = "queue_snapshot" => m.items \in Seq(Ids)
      /\ m.type \in {"new_decision", "decision_resolved", "agent_connected",
                         "agent_disconnected", "agent_spawned", "agent_exited",
                         "audit_decision", "deferred_resolved", "alert", "welcome",
                         "agents_snapshot", "queue_snapshot", "audit_snapshot",
                         "agent_list"}
    <2>1. CASE m \in NewsFrames
        BY <2>1 DEF NewsFrames
    <2>2. CASE m \in OtherFrames
        BY <2>2 DEF OtherFrames
    <2>3. CASE m \in SnapshotFrames
        BY <2>3 DEF SnapshotFrames
    <2> QED
        BY <2>1, <2>2, <2>3 DEF WireFrames, SubFrames
<1> QED
    BY <1>1, <1>2

\* One frame changes the queue on show as Step says.
LEMMA ReduceQueue ==
    ASSUME NEW v, "queue" \in DOMAIN v, v.queue \in Seq(Ids), NEW m \in WireFrames
    PROVE  /\ "queue" \in DOMAIN Reduce(v, m)
           /\ Reduce(v, m).queue \in Seq(Ids)
           /\ ToSet(Reduce(v, m).queue) = Step(ToSet(v.queue), m)
<1>1. CASE m.type = "new_decision"
    <2>1. Reduce(v, m) = [v EXCEPT !.queue = Append(v.queue, m.id)]
        BY <1>1 DEF Reduce, NewDecision
    <2>2. "queue" \in DOMAIN Reduce(v, m) /\ Reduce(v, m).queue = Append(v.queue, m.id)
        BY <2>1
    <2>3. m.id \in Ids
        BY <1>1, FrameIds
    <2> QED
        BY <1>1, <2>2, <2>3, AppendToSet DEF Step
<1>2. CASE m.type = "decision_resolved"
    <2>1. Reduce(v, m) = [v EXCEPT !.queue = Without(v.queue, m.id)]
        BY <1>2 DEF Reduce, DecisionResolved
    <2>2. "queue" \in DOMAIN Reduce(v, m) /\ Reduce(v, m).queue = Without(v.queue, m.id)
        BY <2>1
    <2> QED
        BY <1>2, <2>2, WithoutIs DEF Step
<1>3. CASE m.type = "queue_snapshot"
    <2>1. Reduce(v, m) = [v EXCEPT !.queue = m.items]
        BY <1>3 DEF Reduce, QueueSnapshot
    <2>2. "queue" \in DOMAIN Reduce(v, m) /\ Reduce(v, m).queue = m.items
        BY <2>1
    <2> QED
        BY <1>3, <2>2, FrameIds DEF Step
<1>4. CASE m.type \notin {"new_decision", "decision_resolved", "queue_snapshot"}
    <2>1. "queue" \in DOMAIN Reduce(v, m) /\ Reduce(v, m).queue = v.queue
        <3>1. CASE m.type = "welcome"
            BY <3>1 DEF Reduce, Welcome
        <3>2. CASE m.type = "audit_snapshot"
            <4>1. Reduce(v, m) = AuditSnapshot(v, m)
                BY <3>2 DEF Reduce
            <4> QED
                BY <4>1 DEF AuditSnapshot
        <3>3. CASE m.type = "audit_decision"
            <4>1. Reduce(v, m) = AuditDecision(v, m)
                BY <3>3 DEF Reduce
            <4> QED
                BY <4>1 DEF AuditDecision
        <3>4. CASE m.type = "deferred_resolved"
            <4>1. Reduce(v, m) = DeferredResolved(v, m)
                BY <3>4 DEF Reduce
            <4> QED
                BY <4>1 DEF DeferredResolved
        <3>5. CASE m.type = "agents_snapshot"
            <4>1. Reduce(v, m) = AgentsSnapshot(v, m)
                BY <3>5 DEF Reduce
            <4> QED
                BY <4>1 DEF AgentsSnapshot
        <3>6. CASE m.type = "agent_connected"
            <4>1. Reduce(v, m) = AgentConnected(v, m)
                BY <3>6 DEF Reduce
            <4> QED
                BY <4>1 DEF AgentConnected
        <3>7. CASE m.type = "agent_disconnected"
            <4>1. Reduce(v, m) = AgentDisconnected(v, m)
                BY <3>7 DEF Reduce
            <4> QED
                BY <4>1 DEF AgentDisconnected
        <3>8. CASE m.type = "agent_spawned"
            <4>1. Reduce(v, m) = AgentSpawned(v, m)
                BY <3>8 DEF Reduce
            <4> QED
                BY <4>1 DEF AgentSpawned
        <3>9. CASE m.type = "agent_exited"
            <4>1. Reduce(v, m) = AgentExited(v, m)
                BY <3>9 DEF Reduce
            <4> QED
                BY <4>1 DEF AgentExited
        <3>10. CASE m.type = "agent_list"
            <4>1. Reduce(v, m) = AgentList(v, m)
                BY <3>10 DEF Reduce
            <4> QED
                BY <4>1 DEF AgentList
        <3>11. CASE m.type = "alert"
            <4>1. Reduce(v, m) = AlertFrame(v, m)
                BY <3>11 DEF Reduce
            <4> QED
                BY <4>1 DEF AlertFrame
        <3> QED
            BY <1>4, <3>1, <3>2, <3>3, <3>4, <3>5, <3>6, <3>7, <3>8, <3>9, <3>10, <3>11, FrameIds
    <2> QED
        BY <1>4, <2>1 DEF Step
<1> QED
    BY <1>1, <1>2, <1>3, <1>4

\* One frame more: the decisions shown change as Step says.
LEMMA ShownStep ==
    ASSUME NEW D, NEW f, NEW n \in Nat, f[n + 1] \in WireFrames
    PROVE  ShownAt(D, f, n + 1) = Step(ShownAt(D, f, n), f[n + 1])
<1> DEFINE m == f[n + 1]
<1>1. 1..(n + 1) = 1..n \cup {n + 1}
    OBVIOUS
<1>2. \A i \in 1..n : (i + 1)..(n + 1) = (i + 1)..n \cup {n + 1}
    OBVIOUS
<1>3. ((n + 1) + 1)..(n + 1) = {}
    OBVIOUS
<1>4. \A d \in Ids :
        d \in ShownAt(D, f, n + 1) <=> Puts(m, d) \/ (d \in ShownAt(D, f, n) /\ ~Takes(m, d))
    <2> SUFFICES ASSUME NEW d \in Ids
                 PROVE  d \in ShownAt(D, f, n + 1)
                          <=> Puts(m, d) \/ (d \in ShownAt(D, f, n) /\ ~Takes(m, d))
        OBVIOUS
    <2> DEFINE P(i) == Puts(f[i], d)
               T(i) == Takes(f[i], d)
    <2>1. d \in ShownAt(D, f, n)
            <=> \/ \E i \in 1..n : P(i) /\ \A j \in (i + 1)..n : ~T(j)
                \/ d \in D /\ \A j \in 1..n : ~T(j)
        BY DEF ShownAt
    <2>2. d \in ShownAt(D, f, n + 1)
            <=> \/ \E i \in 1..(n + 1) : P(i) /\ \A j \in (i + 1)..(n + 1) : ~T(j)
                \/ d \in D /\ \A j \in 1..(n + 1) : ~T(j)
        BY DEF ShownAt
    <2> HIDE DEF P, T
    <2>3. (\A j \in 1..(n + 1) : ~T(j)) <=> (\A j \in 1..n : ~T(j)) /\ ~T(n + 1)
        BY <1>1
    <2>4. (\E i \in 1..(n + 1) : P(i) /\ \A j \in (i + 1)..(n + 1) : ~T(j))
            <=> \/ P(n + 1)
                \/ (\E i \in 1..n : P(i) /\ \A j \in (i + 1)..n : ~T(j)) /\ ~T(n + 1)
        BY <1>1, <1>2, <1>3
    <2> QED
        BY <2>1, <2>2, <2>3, <2>4 DEF P, T
<1>5. \A d \in Ids :
        d \in Step(ShownAt(D, f, n), m)
          <=> Puts(m, d) \/ (d \in ShownAt(D, f, n) /\ ~Takes(m, d))
    BY FrameIds DEF Step, Puts, Takes
<1>6. ShownAt(D, f, n + 1) \subseteq Ids /\ ShownAt(D, f, n) \subseteq Ids
    BY DEF ShownAt
<1>7. Step(ShownAt(D, f, n), m) \subseteq Ids
    BY <1>6, FrameIds DEF Step
<1> QED
    BY <1>4, <1>5, <1>6, <1>7

LEMMA ShownZero ==
    ASSUME NEW D, D \subseteq Ids, NEW f
    PROVE  ShownAt(D, f, 0) = D
BY DEF ShownAt

LEMMA ShownSame ==
    ASSUME NEW D, NEW f, NEW g, NEW n \in Nat, \A i \in 1..n : g[i] = f[i]
    PROVE  ShownAt(D, g, n) = ShownAt(D, f, n)
<1>1. \A i \in 1..n : \A j \in (i + 1)..n : j \in 1..n
    OBVIOUS
<1> QED
    BY <1>1 DEF ShownAt

LEMMA ShownAppend ==
    ASSUME NEW D, NEW f \in Seq(WireFrames), NEW m \in WireFrames
    PROVE  Shown(D, Append(f, m)) = Step(Shown(D, f), m)
<1> DEFINE a == Append(f, m)
           n == Len(f)
<1>1. n \in Nat /\ Len(a) = n + 1 /\ a[n + 1] = m /\ \A i \in 1..n : a[i] = f[i]
    OBVIOUS
<1> HIDE DEF a, n
<1>2. ShownAt(D, a, n) = ShownAt(D, f, n)
    BY <1>1, ShownSame
<1>3. ShownAt(D, a, n + 1) = Step(ShownAt(D, a, n), m)
    BY <1>1, ShownStep
<1> QED
    BY <1>1, <1>2, <1>3 DEF Shown, a, n

LEMMA ShownEmpty ==
    ASSUME NEW D, D \subseteq Ids
    PROVE  Shown(D, <<>>) = D
BY ShownZero DEF Shown

LEMMA StepIds ==
    ASSUME NEW D, D \subseteq Ids, NEW m \in WireFrames
    PROVE  Step(D, m) \subseteq Ids
BY FrameIds DEF Step

LEMMA ShownTail ==
    ASSUME NEW D, D \subseteq Ids, NEW f \in Seq(WireFrames), f # <<>>
    PROVE  Shown(D, f) = Shown(Step(D, Head(f)), Tail(f))
<1> DEFINE g == Tail(f)
           m == Head(f)
           E == Step(D, m)
           S == {n \in Nat : n + 1 <= Len(f) => ShownAt(D, f, n + 1) = ShownAt(E, g, n)}
<1>1. /\ Len(f) \in Nat /\ Len(f) >= 1 /\ m = f[1] /\ m \in WireFrames
      /\ Len(g) \in Nat /\ Len(g) + 1 = Len(f)
      /\ \A i \in 1..Len(g) : g[i] = f[i + 1]
      /\ \A i \in 1..Len(f) : f[i] \in WireFrames
    OBVIOUS
<1> HIDE DEF g, m
<1>2. E \subseteq Ids
    BY <1>1, StepIds
<1>3. 0 \in S
    <2>1. ShownAt(D, f, 0 + 1) = Step(ShownAt(D, f, 0), f[0 + 1])
        <3>1. f[0 + 1] \in WireFrames
            BY <1>1
        <3> QED
            BY <3>1, ShownStep
    <2>2. ShownAt(D, f, 0) = D /\ ShownAt(E, g, 0) = E
        BY <1>2, ShownZero
    <2>3. f[0 + 1] = m
        BY <1>1
    <2> QED
        BY <2>1, <2>2, <2>3
<1>4. ASSUME NEW n \in Nat, n \in S PROVE n + 1 \in S
    <2> SUFFICES ASSUME (n + 1) + 1 <= Len(f)
                 PROVE  ShownAt(D, f, (n + 1) + 1) = ShownAt(E, g, n + 1)
        OBVIOUS
    <2>1. ShownAt(D, f, n + 1) = ShownAt(E, g, n)
        BY <1>1, <1>4
    <2>2. n + 1 \in 1..Len(g) /\ (n + 1) + 1 \in 1..Len(f) /\ n + 1 \in Nat
        BY <1>1
    <2>3. g[n + 1] = f[(n + 1) + 1] /\ f[(n + 1) + 1] \in WireFrames
        BY <1>1, <2>2
    <2> HIDE DEF E
    <2>4. ShownAt(D, f, (n + 1) + 1) = Step(ShownAt(D, f, n + 1), f[(n + 1) + 1])
        BY <2>2, <2>3, ShownStep
    <2>5. ShownAt(E, g, n + 1) = Step(ShownAt(E, g, n), g[n + 1])
        BY <2>3, ShownStep
    <2> QED
        BY <2>1, <2>3, <2>4, <2>5
<1> HIDE DEF S
<1>5. \A n \in Nat : n \in S
    BY <1>3, <1>4, NatAll
<1>6. ShownAt(D, f, Len(g) + 1) = ShownAt(E, g, Len(g))
    <2>1. Len(g) \in S /\ Len(g) + 1 <= Len(f)
        BY <1>1, <1>5
    <2> QED
        BY <2>1 DEF S
<1> QED
    BY <1>1, <1>6 DEF Shown, g, m

\* Whether one decision is shown does not depend on the others.
LEMMA ShownLocal ==
    ASSUME NEW D, NEW E, NEW f, NEW d, d \in D <=> d \in E
    PROVE  d \in Shown(D, f) <=> d \in Shown(E, f)
BY DEF Shown, ShownAt

LEMMA ShownIds ==
    ASSUME NEW D, NEW f
    PROVE  Shown(D, f) \subseteq Ids
BY DEF Shown, ShownAt

-----------------------------------------------------------------------------
(* Replaying frames *)

Replayed(v, f, n, h) ==
    h = [i \in 0..n |-> IF i = 0 THEN v ELSE Reduce(h[i - 1], f[i])]

LEMMA ReplayedExists ==
    ASSUME NEW v, NEW f
    PROVE  \A n \in Nat : \E h : Replayed(v, f, n, h)
<1> DEFINE S == {n \in Nat : \E h : Replayed(v, f, n, h)}
<1>1. 0 \in S
    <2>1. Replayed(v, f, 0, [i \in 0..0 |-> v])
        BY DEF Replayed
    <2> QED
        BY <2>1
<1>2. ASSUME NEW n \in Nat, n \in S PROVE n + 1 \in S
    <2>1. PICK h : Replayed(v, f, n, h)
        BY <1>2
    <2> DEFINE g == [i \in 0..(n + 1) |-> IF i <= n THEN h[i] ELSE Reduce(h[n], f[n + 1])]
    <2>2. \A i \in 0..(n + 1) : i = n + 1 \/ i \in 0..n
        OBVIOUS
    <2>3. \A i \in 0..n : g[i] = h[i]
        OBVIOUS
    <2>4. \A i \in 0..n : i # 0 => i - 1 \in 0..n
        OBVIOUS
    <2>5. \A i \in 0..n : h[i] = IF i = 0 THEN v ELSE Reduce(h[i - 1], f[i])
        BY <2>1 DEF Replayed
    <2>6. g[n + 1] = Reduce(g[n], f[n + 1])
        BY <2>3
    <2>7. (n + 1) - 1 = n /\ n + 1 # 0
        OBVIOUS
    <2> HIDE DEF g
    <2>8. \A i \in 0..(n + 1) : g[i] = IF i = 0 THEN v ELSE Reduce(g[i - 1], f[i])
        BY <2>2, <2>3, <2>4, <2>5, <2>6, <2>7
    <2>9. Replayed(v, f, n + 1, g)
        BY <2>8 DEF Replayed, g
    <2> QED
        BY <2>9
<1> HIDE DEF S
<1>3. \A n \in Nat : n \in S
    BY <1>1, <1>2, NatAll
<1> QED
    BY <1>3 DEF S

\* After some frames the console shows the decisions Shown says.
LEMMA ReplayShown ==
    ASSUME NEW v, "queue" \in DOMAIN v, v.queue \in Seq(Ids), NEW f \in Seq(WireFrames)
    PROVE  /\ "queue" \in DOMAIN Replay(v, f)
           /\ Replay(v, f).queue \in Seq(Ids)
           /\ ToSet(Replay(v, f).queue) = Shown(ToSet(v.queue), f)
<1> DEFINE h == CHOOSE g : Replayed(v, f, Len(f), g)
           D == ToSet(v.queue)
           Good(n) == /\ "queue" \in DOMAIN h[n]
                      /\ h[n].queue \in Seq(Ids)
                      /\ ToSet(h[n].queue) = ShownAt(D, f, n)
           S == {n \in Nat : n <= Len(f) => Good(n)}
<1>1. Replay(v, f) = h[Len(f)]
    BY DEF Replay, Replayed
<1>2. Len(f) \in Nat /\ \A i \in 1..Len(f) : f[i] \in WireFrames
    OBVIOUS
<1>3. Replayed(v, f, Len(f), h)
    BY <1>2, ReplayedExists
<1> HIDE DEF h
<1>4. D \subseteq Ids
    BY DEF ToSet
<1>5. h[0] = v
    BY <1>2, <1>3 DEF Replayed
<1> HIDE DEF D
<1>6. 0 \in S
    BY <1>4, <1>5, ShownZero DEF D
<1>7. ASSUME NEW n \in Nat, n \in S PROVE n + 1 \in S
    <2> SUFFICES ASSUME n + 1 <= Len(f) PROVE Good(n + 1)
        OBVIOUS
    <2>1. Good(n)
        BY <1>2, <1>7
    <2>2. n + 1 \in 0..Len(f) /\ n + 1 # 0 /\ (n + 1) - 1 = n /\ n + 1 \in 1..Len(f)
        BY <1>2
    <2>3. h[n + 1] = Reduce(h[n], f[n + 1])
        BY ONLY <1>3, <2>2 DEF Replayed
    <2>4. f[n + 1] \in WireFrames
        BY <1>2, <2>2
    <2>5. ShownAt(D, f, n + 1) = Step(ShownAt(D, f, n), f[n + 1])
        BY <2>4, ShownStep
    <2> QED
        BY <2>1, <2>3, <2>4, <2>5, ReduceQueue
<1> HIDE DEF S, Good
<1>8. \A n \in Nat : n \in S
    BY <1>6, <1>7, NatAll
<1>9. Good(Len(f))
    <2>1. Len(f) \in S /\ Len(f) <= Len(f)
        BY <1>2, <1>8
    <2> QED
        BY <2>1 DEF S
<1> QED
    BY <1>1, <1>9 DEF Good, Shown, D

-----------------------------------------------------------------------------
(***************************************************************************)
(* The queue on show.  Between the subscription and the queue snapshot,    *)
(* what waits in the ring leaves the daemon's queue as it is: it tells     *)
(* what already happened.  From the snapshot on, the view, the wire and    *)
(* the ring together lead to the daemon's queue.                           *)
(***************************************************************************)
SockStates ==
    [rs : {"connecting", "open", "closed"}, hook : BOOLEAN, tok : Nat, srv : Phases,
     sub : Seq(SubFrames), wire : Seq(WireFrames), lag : BOOLEAN]

FeedTypes ==
    /\ pend \in Seq(Ids)
    /\ out \subseteq OtherFrames
    /\ reg \subseteq Agents /\ rows \subseteq Rows /\ procs \subseteq Procs
    /\ token \in Nat
    /\ "queue" \in DOMAIN view /\ view.queue \in Seq(Ids)
    /\ sock \in [Socks -> SockStates]

Ahead(s) == Shown(Shown(ToSet(view.queue), sock[s].wire), sock[s].sub)

CaughtUp(s) ==
    /\ sock[s].rs # "open" => sock[s].srv = "none"
    /\ ~Subscribed(s) => sock[s].sub = <<>>
    /\ ~sock[s].lag =>
          /\ sock[s].srv \in {"agents", "queue"}
                => Shown(ToSet(pend), sock[s].sub) = ToSet(pend)
          /\ sock[s].srv \in {"audit", "live"} => Ahead(s) = ToSet(pend)

FeedInv == FeedTypes /\ \A s \in Socks : CaughtUp(s)

\* A broadcast that leaves the queue as it is, or announces its change.
LEMMA CaughtBroadcast ==
    ASSUME FeedInv, NEW m \in SubFrames, Broadcast(m), view' = view, token' \in Nat,
           pend' \in Seq(Ids), ToSet(pend') = Step(ToSet(pend), m),
           out' \subseteq OtherFrames, reg' \subseteq Agents, rows' \subseteq Rows,
           procs' \subseteq Procs
    PROVE  FeedInv'
<1>1. ASSUME NEW s \in Socks
      PROVE  /\ sock'[s] \in SockStates /\ CaughtUp(s)'
    <2>1. sock[s] \in SockStates
        BY DEF FeedInv, FeedTypes
    <2>2. CaughtUp(s)
        BY DEF FeedInv
    <2>3. m \in WireFrames /\ m.type # "queue_snapshot"
        BY DEF WireFrames, SubFrames, NewsFrames, OtherFrames
    <2>4. CASE ~Subscribed(s)
        <3>1. sock'[s] = sock[s]
            BY <2>4 DEF Broadcast
        <3>2. sock[s].srv \notin {"agents", "queue", "audit", "live"}
            BY <2>4 DEF Subscribed
        <3> QED
            BY <2>1, <2>2, <3>1, <3>2 DEF CaughtUp, Subscribed
    <2>5. CASE Subscribed(s) /\ Len(sock[s].sub) < RingCap
        <3>1. sock'[s] = [sock[s] EXCEPT !.sub = Append(sock[s].sub, m)]
            BY <2>5 DEF Broadcast
        <3>2. /\ sock'[s] \in SockStates
              /\ sock'[s].sub = Append(sock[s].sub, m)
              /\ sock'[s].rs = sock[s].rs /\ sock'[s].srv = sock[s].srv
              /\ sock'[s].wire = sock[s].wire /\ sock'[s].lag = sock[s].lag
            <4>1. Append(sock[s].sub, m) \in Seq(SubFrames)
                BY <2>1 DEF SockStates
            <4> QED
                BY <2>1, <3>1, <4>1 DEF SockStates
        <3>3. sock[s].sub \in Seq(WireFrames)
            BY <2>1 DEF SockStates, WireFrames
        <3>4. \A D : Shown(D, sock'[s].sub) = Step(Shown(D, sock[s].sub), m)
            BY <2>3, <3>2, <3>3, ShownAppend
        <3>5. ASSUME Shown(ToSet(pend), sock[s].sub) = ToSet(pend)
              PROVE  Shown(ToSet(pend'), sock'[s].sub) = ToSet(pend')
            <4> DEFINE D == ToSet(pend)
                       E == ToSet(pend')
            <4>1. D \subseteq Ids /\ E \subseteq Ids
                BY DEF FeedInv, FeedTypes, ToSet
            <4>2. E = Step(D, m) /\ Shown(D, sock[s].sub) = D
                BY <3>5
            <4> HIDE DEF D, E
            <4>3. Shown(E, sock'[s].sub) = Step(Shown(E, sock[s].sub), m)
                BY <3>4
            <4>4. \A d : (d \in D <=> d \in E)
                       => (d \in Shown(D, sock[s].sub) <=> d \in Shown(E, sock[s].sub))
                BY ShownLocal
            <4>5. Shown(E, sock[s].sub) \subseteq Ids
                BY ShownIds
            <4>6. Step(Shown(E, sock[s].sub), m) = E
                BY <2>3, <4>1, <4>2, <4>4, <4>5 DEF Step
            <4> QED
                BY <4>3, <4>6 DEF D, E
        <3>6. ASSUME Ahead(s) = ToSet(pend)
              PROVE  Ahead(s)' = ToSet(pend')
            BY <3>2, <3>4, <3>6 DEF Ahead
        <3>7. Subscribed(s)'
            BY <2>5, <3>2 DEF Subscribed
        <3> QED
            BY <2>2, <3>2, <3>5, <3>6, <3>7 DEF CaughtUp
    <2>6. CASE Subscribed(s) /\ ~(Len(sock[s].sub) < RingCap)
        <3>1. sock'[s] = [sock[s] EXCEPT !.sub = Append(Tail(sock[s].sub), m), !.lag = TRUE]
            BY <2>6 DEF Broadcast
        <3>2. sock[s].sub # <<>>
            <4>1. RingCap \in Nat /\ RingCap # 0
                BY FeedAssumption
            <4> QED
                BY <2>6, <4>1
        <3>3. Append(Tail(sock[s].sub), m) \in Seq(SubFrames)
            BY <2>1, <3>2 DEF SockStates
        <3>4. /\ sock'[s] \in SockStates /\ sock'[s].lag
              /\ sock'[s].rs = sock[s].rs /\ sock'[s].srv = sock[s].srv
            BY <2>1, <3>1, <3>3 DEF SockStates
        <3>5. Subscribed(s)'
            BY <2>6, <3>4 DEF Subscribed
        <3> QED
            BY <2>2, <3>4, <3>5 DEF CaughtUp
    <2> QED
        BY <2>4, <2>5, <2>6
<1>2. sock' \in [Socks -> SockStates]
    <2>1. sock' = [s \in Socks |-> sock'[s]]
        BY DEF Broadcast
    <2> QED
        BY <1>1, <2>1
<1> QED
    BY <1>1, <1>2 DEF FeedInv, FeedTypes

\* Sockets are closed or dialled; the queue on show stays.
LEMMA CaughtReset ==
    ASSUME FeedInv, UNCHANGED <<pend, out, reg, rows, procs>>, token' \in Nat,
           "queue" \in DOMAIN view', view'.queue = view.queue,
           sock' \in [Socks -> SockStates],
           \A s \in Socks : sock'[s] = sock[s]
               \/ (sock'[s].rs # "open" /\ sock'[s].srv = "none" /\ sock'[s].sub = <<>>)
    PROVE  FeedInv'
<1>1. ASSUME NEW s \in Socks PROVE CaughtUp(s)'
    <2>1. CaughtUp(s)
        BY DEF FeedInv
    <2>2. CASE sock'[s] = sock[s]
        <3>1. Ahead(s)' = Ahead(s) /\ (Subscribed(s)' <=> Subscribed(s))
            BY <2>2 DEF Ahead, Subscribed
        <3> QED
            BY <2>1, <2>2, <3>1 DEF CaughtUp
    <2>3. CASE sock'[s].rs # "open" /\ sock'[s].srv = "none" /\ sock'[s].sub = <<>>
        BY <2>3 DEF CaughtUp, Subscribed
    <2> QED
        BY <2>2, <2>3
<1> QED
    BY <1>1 DEF FeedInv, FeedTypes

\* One socket takes a step; the daemon's queue stays.
LEMMA CaughtOne ==
    ASSUME FeedInv, UNCHANGED <<pend, out, reg, rows, procs>>, token' \in Nat,
           "queue" \in DOMAIN view', view'.queue \in Seq(Ids),
           NEW s \in Socks, NEW r \in SockStates, sock' = [sock EXCEPT ![s] = r],
           CaughtUp(s)',
           \/ view'.queue = view.queue
           \/ \A t \in Socks \ {s} : sock[t].rs # "open"
    PROVE  FeedInv'
<1>1. sock' \in [Socks -> SockStates] /\ \A t \in Socks \ {s} : sock'[t] = sock[t]
    BY DEF FeedInv, FeedTypes
<1>2. ASSUME NEW t \in Socks \ {s} PROVE CaughtUp(t)'
    <2>1. CaughtUp(t) /\ sock'[t] = sock[t]
        BY <1>1 DEF FeedInv
    <2>2. CASE sock[t].rs # "open"
        BY <2>1, <2>2 DEF CaughtUp, Subscribed
    <2>3. CASE view'.queue = view.queue
        <3>1. Ahead(t)' = Ahead(t) /\ (Subscribed(t)' <=> Subscribed(t))
            BY <2>1, <2>3 DEF Ahead, Subscribed
        <3> QED
            BY <2>1, <3>1 DEF CaughtUp
    <2> QED
        BY <2>2, <2>3
<1> QED
    BY <1>1, <1>2 DEF FeedInv, FeedTypes

\* A frame written by the connection itself: before the snapshots, the queue
\* snapshot, or one that leaves the queue alone.
LEMMA CaughtSend ==
    ASSUME FeedInv, NEW s \in Socks, NEW from, NEW to, NEW m \in WireFrames,
           SendFrame(s, from, to, m),
           \/ from = "hello" /\ to = "subscribe"
           \/ from = "agents" /\ to = "queue"
           \/ from = "queue" /\ to = "audit" /\ m = [type |-> "queue_snapshot", items |-> pend]
           \/ /\ from \in {"audit", "live"} /\ to = "live"
              /\ m.type \notin {"new_decision", "decision_resolved", "queue_snapshot"}
    PROVE  FeedInv'
<1> DEFINE r == [sock[s] EXCEPT !.srv = to, !.wire = Append(sock[s].wire, m)]
<1>1. /\ sock' = [sock EXCEPT ![s] = r]
      /\ sock[s].rs = "open" /\ sock[s].srv = from
      /\ UNCHANGED <<pend, out, reg, rows, procs, token, view>>
    <2>1. sock' = [sock EXCEPT ![s].srv = to, ![s].wire = Append(@, m)]
        BY DEF SendFrame
    <2>2. sock' = [sock EXCEPT ![s] = r]
        BY <2>1 DEF FeedInv, FeedTypes
    <2> QED
        BY <2>2 DEF SendFrame, daemonVars, factVars, authVars
<1>2. sock[s] \in SockStates /\ to \in Phases /\ CaughtUp(s) /\ sock \in [Socks -> SockStates]
    BY DEF FeedInv, FeedTypes, Phases
<1>3. Append(sock[s].wire, m) \in Seq(WireFrames) /\ sock[s].wire \in Seq(WireFrames)
    BY <1>2 DEF SockStates
<1>4. /\ r \in SockStates /\ r.rs = "open" /\ r.srv = to /\ r.sub = sock[s].sub
      /\ r.lag = sock[s].lag /\ r.wire = Append(sock[s].wire, m)
    BY <1>1, <1>2, <1>3 DEF SockStates
<1> HIDE DEF r
<1>5. sock'[s] = r
    BY <1>1, <1>2
<1>6. \A D : Shown(D, r.wire) = Step(Shown(D, sock[s].wire), m)
    BY <1>3, <1>4, ShownAppend
<1>7. CaughtUp(s)'
    <2>1. CASE from = "hello" /\ to = "subscribe"
        BY <1>1, <1>2, <1>4, <1>5, <2>1 DEF CaughtUp, Subscribed
    <2>2. CASE from = "agents" /\ to = "queue"
        BY <1>1, <1>2, <1>4, <1>5, <2>2 DEF CaughtUp, Subscribed
    <2>3. CASE from = "queue" /\ to = "audit" /\ m = [type |-> "queue_snapshot", items |-> pend]
        <3>1. \A D : Shown(D, r.wire) = ToSet(pend)
            BY <1>6, <2>3 DEF Step
        <3>2. Ahead(s)' = Shown(ToSet(pend), sock[s].sub)
            BY <1>4, <1>5, <3>1 DEF Ahead
        <3> QED
            BY <1>1, <1>2, <1>4, <1>5, <2>3, <3>2 DEF CaughtUp, Subscribed
    <2>4. CASE /\ from \in {"audit", "live"} /\ to = "live"
               /\ m.type \notin {"new_decision", "decision_resolved", "queue_snapshot"}
        <3>1. \A D : Shown(D, r.wire) = Shown(D, sock[s].wire)
            BY <1>6, <2>4 DEF Step
        <3>2. Ahead(s)' = Ahead(s)
            BY <1>1, <1>4, <1>5, <3>1 DEF Ahead
        <3> QED
            BY <1>1, <1>2, <1>4, <1>5, <2>4, <3>2 DEF CaughtUp, Subscribed
    <2> QED
        BY <2>1, <2>2, <2>3, <2>4
<1> QED
    BY <1>1, <1>4, <1>7, CaughtOne DEF FeedInv, FeedTypes

LEMMA CaughtSubscribe ==
    ASSUME FeedInv, NEW s \in Socks, Subscribe(s)
    PROVE  FeedInv'
<1> DEFINE r == [sock[s] EXCEPT !.srv = "agents"]
<1>1. /\ sock' = [sock EXCEPT ![s] = r]
      /\ sock[s].rs = "open" /\ sock[s].srv = "subscribe"
      /\ UNCHANGED <<pend, out, reg, rows, procs, token, view>>
    BY DEF Subscribe, daemonVars, factVars, authVars, FeedInv, FeedTypes
<1>2. sock[s] \in SockStates /\ CaughtUp(s) /\ sock \in [Socks -> SockStates] /\ pend \in Seq(Ids)
    BY DEF FeedInv, FeedTypes
<1>3. /\ r \in SockStates /\ r.rs = "open" /\ r.srv = "agents" /\ r.sub = <<>>
    BY <1>1, <1>2 DEF SockStates, Phases, CaughtUp, Subscribed
<1> HIDE DEF r
<1>4. ToSet(pend) \subseteq Ids
    BY <1>2 DEF ToSet
<1>5. CaughtUp(s)'
    BY <1>1, <1>2, <1>3, <1>4, ShownEmpty DEF CaughtUp, Subscribed
<1> QED
    BY <1>1, <1>3, <1>5, CaughtOne DEF FeedInv, FeedTypes

LEMMA CaughtForward ==
    ASSUME FeedInv, NEW s \in Socks, Forward(s)
    PROVE  FeedInv'
<1> DEFINE r == [sock[s] EXCEPT !.sub = Tail(sock[s].sub),
                                !.wire = Append(sock[s].wire, Head(sock[s].sub))]
           m == Head(sock[s].sub)
<1>1. /\ sock' = [sock EXCEPT ![s] = r]
      /\ sock[s].rs = "open" /\ sock[s].srv = "live" /\ sock[s].sub # <<>>
      /\ UNCHANGED <<pend, out, reg, rows, procs, token, view>>
    <2>1. sock' = [sock EXCEPT ![s].sub = Tail(@), ![s].wire = Append(@, Head(sock[s].sub))]
        BY DEF Forward
    <2>2. sock' = [sock EXCEPT ![s] = r]
        BY <2>1 DEF FeedInv, FeedTypes
    <2> QED
        BY <2>2 DEF Forward, daemonVars, factVars, authVars
<1>2. sock[s] \in SockStates /\ CaughtUp(s) /\ sock \in [Socks -> SockStates]
    BY DEF FeedInv, FeedTypes
<1>3. /\ sock[s].sub \in Seq(SubFrames) /\ sock[s].wire \in Seq(WireFrames)
      /\ m \in SubFrames /\ Tail(sock[s].sub) \in Seq(SubFrames)
    BY <1>1, <1>2 DEF SockStates
<1>4. m \in WireFrames /\ sock[s].sub \in Seq(WireFrames)
    BY <1>3 DEF WireFrames
<1>5. Append(sock[s].wire, m) \in Seq(WireFrames)
    BY <1>3, <1>4
<1>6. /\ r \in SockStates /\ r.rs = "open" /\ r.srv = "live" /\ r.lag = sock[s].lag
      /\ r.sub = Tail(sock[s].sub) /\ r.wire = Append(sock[s].wire, m)
    BY <1>1, <1>2, <1>3, <1>5 DEF SockStates
<1>7. sock'[s] = r
    BY <1>1, <1>2
<1> HIDE DEF r
<1>8. Ahead(s)' = Ahead(s)
    <2> DEFINE D == Shown(ToSet(view.queue), sock[s].wire)
    <2>1. D \subseteq Ids
        BY ShownIds
    <2>2. Shown(ToSet(view.queue), r.wire) = Step(D, m)
        BY <1>3, <1>4, <1>6, ShownAppend
    <2> HIDE DEF D
    <2>3. Shown(D, sock[s].sub) = Shown(Step(D, m), Tail(sock[s].sub))
        BY <1>1, <1>4, <2>1, ShownTail
    <2> QED
        BY <1>1, <1>6, <1>7, <2>2, <2>3 DEF Ahead, D
<1>9. CaughtUp(s)'
    BY <1>1, <1>2, <1>6, <1>7, <1>8 DEF CaughtUp, Subscribed
<1> QED
    BY <1>1, <1>6, <1>9, CaughtOne DEF FeedInv, FeedTypes

LEMMA CaughtReceive ==
    ASSUME FeedInv, DialInv, NEW s \in Socks, Receive(s)
    PROVE  FeedInv'
<1> DEFINE m == Head(sock[s].wire)
           r == [sock[s] EXCEPT !.wire = Tail(sock[s].wire)]
<1>1. /\ sock' = [sock EXCEPT ![s] = r] /\ view' = Reduce(view, m)
      /\ sock[s].rs = "open" /\ sock[s].wire # <<>>
      /\ UNCHANGED <<pend, out, reg, rows, procs, token>>
    BY DEF Receive, daemonVars, factVars, authVars, FeedInv, FeedTypes
<1>2. /\ sock[s] \in SockStates /\ CaughtUp(s) /\ sock \in [Socks -> SockStates]
      /\ "queue" \in DOMAIN view /\ view.queue \in Seq(Ids) /\ token \in Nat
    BY DEF FeedInv, FeedTypes
<1>3. /\ sock[s].wire \in Seq(WireFrames) /\ m \in WireFrames
      /\ Tail(sock[s].wire) \in Seq(WireFrames)
    BY <1>1, <1>2 DEF SockStates
<1>4. /\ r \in SockStates /\ r.rs = "open" /\ r.srv = sock[s].srv /\ r.lag = sock[s].lag
      /\ r.sub = sock[s].sub /\ r.wire = Tail(sock[s].wire)
    BY <1>1, <1>2, <1>3 DEF SockStates
<1>5. sock'[s] = r
    BY <1>1, <1>2
<1> HIDE DEF r
<1>6. /\ "queue" \in DOMAIN view' /\ view'.queue \in Seq(Ids)
      /\ ToSet(view'.queue) = Step(ToSet(view.queue), m)
    BY <1>1, <1>2, <1>3, ReduceQueue
<1>7. Ahead(s)' = Ahead(s)
    <2>1. ToSet(view.queue) \subseteq Ids
        BY <1>2 DEF ToSet
    <2>2. Shown(ToSet(view.queue), sock[s].wire) = Shown(Step(ToSet(view.queue), m), Tail(sock[s].wire))
        BY <1>1, <1>3, <2>1, ShownTail
    <2> QED
        BY <1>4, <1>5, <1>6, <2>2 DEF Ahead
<1>8. CaughtUp(s)'
    BY <1>1, <1>2, <1>4, <1>5, <1>7 DEF CaughtUp, Subscribed
<1>9. \A t \in Socks \ {s} : sock[t].rs # "open"
    BY <1>1 DEF DialInv
<1> QED
    BY <1>1, <1>2, <1>4, <1>6, <1>8, <1>9, CaughtOne

LEMMA CaughtAccept ==
    ASSUME FeedInv, NEW s \in Socks, Accept(s)
    PROVE  FeedInv'
<1> DEFINE r == [sock[s] EXCEPT !.rs = "open", !.srv = "hello"]
<1>1. /\ sock' = [sock EXCEPT ![s] = r] /\ sock[s].rs = "connecting"
      /\ UNCHANGED <<pend, out, reg, rows, procs, token, view>>
    <2>1. sock' = [sock EXCEPT ![s].rs = "open", ![s].srv = "hello"]
        BY DEF Accept
    <2>2. sock' = [sock EXCEPT ![s] = r]
        BY <2>1 DEF FeedInv, FeedTypes
    <2> QED
        BY <2>2 DEF Accept, daemonVars, factVars, authVars
<1>2. sock[s] \in SockStates /\ CaughtUp(s) /\ sock \in [Socks -> SockStates]
    BY DEF FeedInv, FeedTypes
<1>3. r \in SockStates /\ r.rs = "open" /\ r.srv = "hello" /\ r.sub = <<>>
    BY <1>1, <1>2 DEF SockStates, Phases, CaughtUp, Subscribed
<1> HIDE DEF r
<1>4. CaughtUp(s)'
    BY <1>1, <1>2, <1>3 DEF CaughtUp, Subscribed
<1> QED
    BY <1>1, <1>3, <1>4, CaughtOne DEF FeedInv, FeedTypes

\* The daemon: its queue, what it announces at once and what it announces later.
LEMMA CaughtDaemon ==
    ASSUME FeedInv, DaemonStep
    PROVE  FeedInv'
<1>0. /\ pend \in Seq(Ids) /\ out \subseteq OtherFrames /\ token \in Nat
      /\ reg \subseteq Agents /\ rows \subseteq Rows /\ procs \subseteq Procs
    BY DEF FeedInv, FeedTypes
<1>1. ASSUME NEW d \in Ids, Enqueue(d) PROVE FeedInv'
    <2> DEFINE m == [type |-> "new_decision", id |-> d]
    <2>1. m \in SubFrames /\ m.type = "new_decision" /\ m.id = d
        BY DEF SubFrames, NewsFrames
    <2>2. /\ pend' = Append(pend, d) /\ Broadcast(m)
          /\ UNCHANGED <<out, reg, rows, procs, token, view>>
        BY <1>1 DEF Enqueue, factVars, authVars
    <2> HIDE DEF m
    <2>3. pend' \in Seq(Ids) /\ ToSet(pend') = Step(ToSet(pend), m)
        BY <1>0, <2>1, <2>2, AppendToSet DEF Step
    <2> QED
        BY <1>0, <2>1, <2>2, <2>3, CaughtBroadcast
<1>2. ASSUME NEW d \in Ids, Resolve(d) PROVE FeedInv'
    <2> DEFINE m == [type |-> "decision_resolved", id |-> d]
    <2>1. m \in SubFrames /\ m.type = "decision_resolved" /\ m.id = d
        BY DEF SubFrames, NewsFrames
    <2>2. /\ pend' = Without(pend, d) /\ Broadcast(m)
          /\ UNCHANGED <<out, reg, rows, procs, token, view>>
        BY <1>2 DEF Resolve, factVars, authVars
    <2> HIDE DEF m
    <2>3. pend' \in Seq(Ids) /\ ToSet(pend') = Step(ToSet(pend), m)
        BY <1>0, <2>1, <2>2, WithoutIs DEF Step
    <2> QED
        BY <1>0, <2>1, <2>2, <2>3, CaughtBroadcast
<1>3. ASSUME NEW m \in OtherFrames, AnnounceLater(m), reg' \subseteq Agents,
             rows' \subseteq Rows, procs' \subseteq Procs
      PROVE  FeedInv'
    <2>1. out' \subseteq OtherFrames /\ UNCHANGED <<pend, sock, token, view>>
        BY <1>0, <1>3 DEF AnnounceLater, authVars
    <2>2. ASSUME NEW s \in Socks PROVE CaughtUp(s)'
        <3>1. CaughtUp(s)
            BY DEF FeedInv
        <3>2. Ahead(s)' = Ahead(s) /\ (Subscribed(s)' <=> Subscribed(s))
            BY <2>1 DEF Ahead, Subscribed
        <3> QED
            BY <2>1, <3>1, <3>2 DEF CaughtUp
    <2> QED
        BY <1>3, <2>1, <2>2 DEF FeedInv, FeedTypes
<1>4. ASSUME NEW m \in OtherFrames, Broadcast(m), UNCHANGED <<pend, token, view>>,
             out' \subseteq OtherFrames, reg' \subseteq Agents,
             rows' \subseteq Rows, procs' \subseteq Procs
      PROVE  FeedInv'
    <2>1. m \in SubFrames /\ m.type \notin {"new_decision", "decision_resolved", "queue_snapshot"}
        BY DEF SubFrames, OtherFrames
    <2>2. ToSet(pend') = Step(ToSet(pend), m)
        BY <1>4, <2>1 DEF Step
    <2> QED
        BY <1>0, <1>4, <2>1, <2>2, CaughtBroadcast
<1>5. ASSUME NEW m \in OtherFrames, AnnounceNow(m), reg' \subseteq Agents,
             rows' \subseteq Rows, procs' \subseteq Procs
      PROVE  FeedInv'
    BY <1>0, <1>4, <1>5 DEF AnnounceNow, authVars
<1>6. ASSUME NEW a \in Agents, Register(a) \/ Reap(a) PROVE FeedInv'
    <2>1. \A ty \in {"agent_connected", "agent_disconnected"} :
            [type |-> ty, agent |-> a] \in OtherFrames
        BY DEF OtherFrames
    <2>2. reg' \subseteq Agents /\ rows' \subseteq Rows /\ procs' \subseteq Procs
        BY <1>0, <1>6 DEF Register, Reap
    <2>3. \/ AnnounceLater([type |-> "agent_connected", agent |-> a])
          \/ AnnounceLater([type |-> "agent_disconnected", agent |-> a])
        BY <1>6 DEF Register, Reap
    <2> QED
        BY <1>3, <2>1, <2>2, <2>3
<1>7. ASSUME NEW q \in Rows, Defer(q) \/ Answer(q) PROVE FeedInv'
    <2>1. \A ty \in {"audit_decision", "deferred_resolved"} :
            [type |-> ty, row |-> q] \in OtherFrames
        BY DEF OtherFrames
    <2>2. reg' \subseteq Agents /\ rows' \subseteq Rows /\ procs' \subseteq Procs
        BY <1>0, <1>7 DEF Defer, Answer
    <2>3. \/ AnnounceLater([type |-> "audit_decision", row |-> q])
          \/ AnnounceLater([type |-> "deferred_resolved", row |-> q])
        BY <1>7 DEF Defer, Answer
    <2> QED
        BY <1>3, <2>1, <2>2, <2>3
<1>8. ASSUME NEW p \in Procs, Launch(p) \/ Exit(p) PROVE FeedInv'
    <2>1. \A ty \in {"agent_spawned", "agent_exited"} :
            [type |-> ty, agent |-> p] \in OtherFrames
        BY DEF OtherFrames
    <2>2. reg' \subseteq Agents /\ rows' \subseteq Rows /\ procs' \subseteq Procs
        BY <1>0, <1>8 DEF Launch, Exit
    <2>3. \/ AnnounceLater([type |-> "agent_spawned", agent |-> p])
          \/ AnnounceNow([type |-> "agent_exited", agent |-> p])
        BY <1>8 DEF Launch, Exit
    <2> QED
        BY <1>3, <1>5, <2>1, <2>2, <2>3
<1>9. ASSUME NEW k \in Kinds, Alert(k) PROVE FeedInv'
    <2> DEFINE m == [type |-> "alert", kind |-> k, active |-> k \notin raised]
    <2>1. m \in OtherFrames
        BY DEF OtherFrames
    <2>2. AnnounceNow(m) /\ reg' \subseteq Agents /\ rows' \subseteq Rows /\ procs' \subseteq Procs
        BY <1>0, <1>9 DEF Alert
    <2> HIDE DEF m
    <2> QED
        BY <1>5, <2>1, <2>2
<1> QED
    BY <1>1, <1>2, <1>6, <1>7, <1>8, <1>9 DEF DaemonStep

LEMMA CaughtPublish ==
    ASSUME FeedInv, NEW m \in out, Publish(m)
    PROVE  FeedInv'
<1>1. /\ pend \in Seq(Ids) /\ out \subseteq OtherFrames /\ token \in Nat
      /\ reg \subseteq Agents /\ rows \subseteq Rows /\ procs \subseteq Procs
    BY DEF FeedInv, FeedTypes
<1>2. m \in SubFrames /\ m.type \notin {"new_decision", "decision_resolved", "queue_snapshot"}
    BY <1>1 DEF SubFrames, OtherFrames
<1>3. Broadcast(m) /\ out' \subseteq OtherFrames /\ UNCHANGED <<pend, token, view, reg, rows, procs>>
    BY <1>1 DEF Publish, factVars, authVars
<1>4. ToSet(pend') = Step(ToSet(pend), m)
    BY <1>2, <1>3 DEF Step
<1> QED
    BY <1>1, <1>2, <1>3, <1>4, CaughtBroadcast

\* The connection's own steps.
LEMMA CaughtFeed ==
    ASSUME FeedInv, NEW s \in Socks,
           \/ SendWelcome(s) \/ SendAgents(s) \/ SendQueue(s) \/ SendAudit(s) \/ PollAgents(s)
    PROVE  FeedInv'
<1>1. CASE SendWelcome(s)
    <2>1. [type |-> "welcome"] \in WireFrames
        BY DEF WireFrames, SnapshotFrames
    <2> QED
        BY <1>1, <2>1, CaughtSend DEF SendWelcome
<1>2. CASE SendAgents(s)
    <2> DEFINE m == [type |-> "agents_snapshot", agents |-> SetToSeq(reg)]
    <2>1. m \in WireFrames
        BY DEF WireFrames, SnapshotFrames, FeedInv, FeedTypes
    <2>2. SendFrame(s, "agents", "queue", m)
        BY <1>2 DEF SendAgents
    <2> HIDE DEF m
    <2> QED
        BY <2>1, <2>2, CaughtSend
<1>3. CASE SendQueue(s)
    <2> DEFINE m == [type |-> "queue_snapshot", items |-> pend]
    <2>1. m \in WireFrames
        BY DEF WireFrames, SnapshotFrames, FeedInv, FeedTypes
    <2>2. SendFrame(s, "queue", "audit", m)
        BY <1>3 DEF SendQueue
    <2> QED
        BY <2>1, <2>2, CaughtSend
<1>4. CASE SendAudit(s)
    <2> DEFINE m == [type |-> "audit_snapshot", rows |-> rows]
    <2>1. m \in WireFrames /\ m.type \notin {"new_decision", "decision_resolved", "queue_snapshot"}
        BY DEF WireFrames, SnapshotFrames, FeedInv, FeedTypes
    <2>2. SendFrame(s, "audit", "live", m)
        BY <1>4 DEF SendAudit
    <2> HIDE DEF m
    <2> QED
        BY <2>1, <2>2, CaughtSend
<1>5. CASE PollAgents(s)
    <2> DEFINE m == [type |-> "agent_list", agents |-> procs]
    <2>1. m \in WireFrames /\ m.type \notin {"new_decision", "decision_resolved", "queue_snapshot"}
        BY DEF WireFrames, SnapshotFrames, FeedInv, FeedTypes
    <2>2. SendFrame(s, "live", "live", m)
        BY <1>5 DEF PollAgents
    <2> HIDE DEF m
    <2> QED
        BY <2>1, <2>2, CaughtSend
<1> QED
    BY <1>1, <1>2, <1>3, <1>4, <1>5

-----------------------------------------------------------------------------
(* Dialling and closing *)

LEMMA SockIs ==
    /\ ClosedSock \in SockStates
    /\ ClosedSock.rs # "open" /\ ClosedSock.srv = "none" /\ ClosedSock.sub = <<>>
    /\ \A k \in Nat : /\ NewSock("connecting", k) \in SockStates
                      /\ NewSock("connecting", k).rs # "open"
                      /\ NewSock("connecting", k).srv = "none"
                      /\ NewSock("connecting", k).sub = <<>>
BY DEF ClosedSock, NewSock, SockStates, Phases

\* Every socket is as it was or new.
Fresh(socks) ==
    /\ socks \in [Socks -> SockStates]
    /\ \A s \in Socks :
          \/ socks[s] = sock[s]
          \/ socks[s].rs # "open" /\ socks[s].srv = "none" /\ socks[s].sub = <<>>

LEMMA FreshSet ==
    ASSUME NEW socks, Fresh(socks), NEW s, NEW r \in SockStates,
           r.rs # "open", r.srv = "none", r.sub = <<>>
    PROVE  Fresh([socks EXCEPT ![s] = r])
BY DEF Fresh

LEMMA ConnectFresh ==
    ASSUME FeedInv, NEW tok \in Nat, Connect(sock, tok)
    PROVE  Fresh(sock') /\ "queue" \in DOMAIN view' /\ view'.queue = view.queue
<1>1. Fresh(sock) /\ "queue" \in DOMAIN view
    BY DEF Fresh, FeedInv, FeedTypes
<1>2. Fresh(sock')
    <2>1. CASE sock' = sock
        BY <1>1, <2>1
    <2>2. CASE \E s \in Socks : sock' = [sock EXCEPT ![s] = NewSock("connecting", tok)]
        <3>1. PICK s \in Socks : sock' = [sock EXCEPT ![s] = NewSock("connecting", tok)]
            BY <2>2
        <3>2. Fresh([sock EXCEPT ![s] = NewSock("connecting", tok)])
            BY <1>1, SockIs, FreshSet
        <3> QED
            BY <3>1, <3>2
    <2> QED
        BY <2>1, <2>2 DEF Connect
<1>3. view' = view \/ view' = [view EXCEPT !.connected = FALSE]
    BY DEF Connect
<1> QED
    BY <1>1, <1>2, <1>3

LEMMA TearDownFresh ==
    ASSUME FeedInv, NEW socks, Fresh(socks), TearDown(socks)
    PROVE  Fresh(sock') /\ token' = 0 /\ UNCHANGED daemonVars
<1>1. sock' = socks \/ sock' = [socks EXCEPT ![wsRef] = ClosedSock]
    BY DEF TearDown
<1>2. Fresh([socks EXCEPT ![wsRef] = ClosedSock])
    BY SockIs, FreshSet
<1> QED
    BY <1>1, <1>2 DEF TearDown

LEMMA CaughtFresh ==
    ASSUME FeedInv, Fresh(sock'), UNCHANGED daemonVars, token' \in Nat,
           "queue" \in DOMAIN view', view'.queue = view.queue
    PROVE  FeedInv'
BY CaughtReset DEF Fresh, daemonVars, factVars

LEMMA CaughtDial ==
    ASSUME FeedInv, DialInv,
           \/ UserStep \/ FaultStep \/ ReconnectTimer \/ ProbeRejected \/ ProbeAccepted
           \/ \E s \in Socks : Refuse(s)
    PROVE  FeedInv'
<1>0. /\ token \in Nat /\ issued \in Nat /\ "queue" \in DOMAIN view /\ Fresh(sock)
      /\ \A v : v = [view EXCEPT !.connected = FALSE]
                => "queue" \in DOMAIN v /\ v.queue = view.queue
    BY DEF FeedInv, FeedTypes, Fresh, DialInv
<1>1. CASE StoreToken
    <2>1. token' = issued + 1 /\ token' \in Nat /\ UNCHANGED daemonVars
        BY <1>0, <1>1 DEF StoreToken
    <2>2. CASE IsOpen(wsRef)
        <3>1. UNCHANGED <<sock, view>>
            BY <1>1, <2>2 DEF StoreToken
        <3> QED
            BY <1>0, <2>1, <3>1, CaughtFresh
    <2>3. CASE ~IsOpen(wsRef)
        <3>1. PICK k \in Nat : k = token'
            BY <2>1
        <3>2. Connect(sock, k)
            BY <1>1, <2>3, <3>1 DEF StoreToken
        <3>3. Fresh(sock') /\ "queue" \in DOMAIN view' /\ view'.queue = view.queue
            BY <3>2, ConnectFresh
        <3> QED
            BY <2>1, <3>3, CaughtFresh
    <2> QED
        BY <2>2, <2>3
<1>2. CASE Logout \/ ProbeRejected
    <2>1. TearDown(sock) /\ UNCHANGED view
        BY <1>2 DEF Logout, ProbeRejected
    <2> QED
        BY <1>0, <2>1, TearDownFresh, CaughtFresh
<1>3. CASE Revoke \/ ProbeAccepted \/ ProbeLost
    <2>1. UNCHANGED <<daemonVars, sock, token, view>>
        BY <1>3 DEF Revoke, ProbeAccepted, ProbeLost, authVars
    <2> QED
        BY <1>0, <2>1, CaughtFresh
<1>4. ASSUME NEW s \in Socks, Drop(s) \/ Refuse(s) PROVE FeedInv'
    <2>1. OnClose(s)
        BY <1>4 DEF Drop, Refuse
    <2>2. /\ sock' = [sock EXCEPT ![s] = ClosedSock]
          /\ view' = [view EXCEPT !.connected = FALSE]
          /\ UNCHANGED <<daemonVars, token>>
        BY <2>1 DEF OnClose, authVars
    <2>3. Fresh(sock')
        BY <1>0, <2>2, SockIs, FreshSet
    <2> QED
        BY <1>0, <2>2, <2>3, CaughtFresh
<1>5. ASSUME NEW s \in Socks, PolicyClose(s) PROVE FeedInv'
    <2>1. /\ TearDown([sock EXCEPT ![s] = ClosedSock])
          /\ view' = [view EXCEPT !.connected = FALSE]
        BY <1>5 DEF PolicyClose
    <2>2. Fresh([sock EXCEPT ![s] = ClosedSock])
        BY <1>0, SockIs, FreshSet
    <2>3. Fresh(sock') /\ token' = 0 /\ UNCHANGED daemonVars
        BY <2>1, <2>2, TearDownFresh
    <2> QED
        BY <1>0, <2>1, <2>3, CaughtFresh
<1>6. CASE ReconnectTimer
    <2>1. Connect(sock, token) /\ UNCHANGED <<daemonVars, token>>
        BY <1>6 DEF ReconnectTimer, authVars
    <2>2. Fresh(sock') /\ "queue" \in DOMAIN view' /\ view'.queue = view.queue
        <3>1. PICK k \in Nat : k = token
            BY <1>0
        <3> QED
            BY <2>1, <3>1, ConnectFresh
    <2> QED
        BY <1>0, <2>1, <2>2, CaughtFresh
<1> QED
    BY <1>1, <1>2, <1>3, <1>4, <1>5, <1>6 DEF UserStep, FaultStep

LEMMA CaughtStep ==
    ASSUME FeedInv, DialInv, [FeedNext]_feedVars
    PROVE  FeedInv'
<1>1. CASE UNCHANGED feedVars
    <2>1. Fresh(sock') /\ UNCHANGED daemonVars /\ token' \in Nat /\ UNCHANGED view
        BY <1>1 DEF feedVars, authVars, Fresh, FeedInv, FeedTypes
    <2>2. "queue" \in DOMAIN view
        BY DEF FeedInv, FeedTypes
    <2> QED
        BY <2>1, <2>2, CaughtFresh
<1>2. CASE DaemonStep
    BY <1>2, CaughtDaemon
<1>3. CASE \E m \in out : Publish(m)
    BY <1>3, CaughtPublish
<1>4. ASSUME NEW s \in Socks, FeedStep(s) \/ PollAgents(s) PROVE FeedInv'
    BY <1>4, CaughtFeed, CaughtSubscribe, CaughtForward, CaughtReceive, CaughtAccept,
       CaughtDial DEF FeedStep
<1>5. CASE UserStep \/ FaultStep \/ ReconnectTimer \/ ProbeRejected \/ ProbeAccepted
    BY <1>5, CaughtDial
<1> QED
    BY <1>1, <1>2, <1>3, <1>4, <1>5 DEF FeedNext

\* Once the queue snapshot of a connection is written, what the console shows
\* plus what is in flight is the daemon's queue (handle_tui subscribes before
\* it takes the snapshots; useWisphive.ts folds the frames in their order),
\* unless a login finishes while a token is stored or the subscription lagged.
THEOREM QueueCatchesUpHolds == ASSUME ~Relogin PROVE FeedSpec => []QueueCatchesUp
<1>1. FeedInit => DialInv /\ FeedInv
    <2> SUFFICES ASSUME FeedInit PROVE DialInv /\ FeedInv
        OBVIOUS
    <2>1. DialInv
        BY ClosedIs DEF FeedInit, DialInv, AllClosed
    <2>2. sock \in [Socks -> SockStates] /\ \A s \in Socks : sock[s] = ClosedSock
        BY SockIs DEF FeedInit
    <2>3. \A s \in Socks : CaughtUp(s)
        BY <2>2, SockIs DEF CaughtUp, Subscribed
    <2>4. "queue" \in DOMAIN view /\ view.queue = <<>>
        BY DEF FeedInit, EmptyView
    <2>5. FeedTypes
        BY <2>2, <2>4 DEF FeedInit, FeedTypes
    <2> QED
        BY <2>1, <2>3, <2>5 DEF FeedInv
<1>2. (DialInv /\ FeedInv) /\ [FeedNext]_feedVars => (DialInv /\ FeedInv)'
    BY DialStep, CaughtStep
<1>3. DialInv /\ FeedInv => QueueCatchesUp
    <2> SUFFICES ASSUME FeedInv, NEW s \in Socks, ~sock[s].lag,
                        sock[s].srv \in {"audit", "live"}
                 PROVE  ToSet(Pending(s).queue) = ToSet(pend)
        BY DEF QueueCatchesUp
    <2>1. /\ "queue" \in DOMAIN view /\ view.queue \in Seq(Ids)
          /\ sock[s].wire \in Seq(WireFrames) /\ sock[s].sub \in Seq(WireFrames)
        BY DEF FeedInv, FeedTypes, SockStates, WireFrames
    <2>2. Ahead(s) = ToSet(pend)
        BY DEF FeedInv, CaughtUp
    <2> DEFINE v == Replay(view, sock[s].wire)
    <2>3. /\ "queue" \in DOMAIN v /\ v.queue \in Seq(Ids)
          /\ ToSet(v.queue) = Shown(ToSet(view.queue), sock[s].wire)
        BY <2>1, ReplayShown
    <2> HIDE DEF v
    <2>4. ToSet(Replay(v, sock[s].sub).queue) = Shown(ToSet(v.queue), sock[s].sub)
        BY <2>1, <2>3, ReplayShown
    <2> QED
        BY <2>2, <2>3, <2>4 DEF Pending, Ahead, v
<1> QED
    BY <1>1, <1>2, <1>3, PTL DEF FeedSpec

=============================================================================
