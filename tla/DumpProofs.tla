----------------------------- MODULE DumpProofs -----------------------------
(***************************************************************************)
(* Theorems about Dump, for every wire, every length and every number of   *)
(* failing writes.  A dumped connection is a connection of Framing, so     *)
(* what FramingProofs proves holds with the dump, too.  Then what the      *)
(* files lack, and what the log says: a record of a packet either adds a   *)
(* line to the log or one to what is missing (RecordLogs), and the packets *)
(* without a line are counted against that.                                *)
(***************************************************************************)
EXTENDS Dump, FramingProofs, FiniteSetTheorems

\* A step of the dumped connection is a step of Framing, or it leaves the
\* state of the connection alone.
LEMMA StepRefines == ASSUME DumpNext PROVE [Next]_vars
<1>1. CASE DumpRead
  BY <1>1 DEF DumpRead, Next
<1>2. CASE Undumped
  BY <1>2 DEF Undumped, Next, FrameStep
<1>3. CASE Cut
  BY <1>3 DEF Cut, Next, FrameStep
<1>4. CASE PacketStep
  <2>1. CASE ParseError
    BY <2>1 DEF ParseError, Next
  <2>2. CASE Parsed
    BY <2>2 DEF Parsed
  <2>3. CASE NoResponse
    BY <2>3 DEF NoResponse, Next
  <2>4. CASE Response
    BY <2>4 DEF Response
  <2>5. CASE Written
    BY <2>5 DEF Written, Next
  <2>6. QED
    BY <1>4, <2>1, <2>2, <2>3, <2>4, <2>5 DEF PacketStep
<1>5. CASE NotWritten
  BY <1>5 DEF NotWritten, Next
<1>6. QED
  BY <1>1, <1>2, <1>3, <1>4, <1>5 DEF DumpNext

\* Whatever the files do, the connection behaves as it does without a dump:
\* no error of StreamDumper reaches handle_connection (server.rs:343-395).
THEOREM ConnectionRefined == DumpSpec => ImplementsConnection
<1>1. DumpInit => Init
  BY DEF DumpInit
<1>2. [DumpNext]_allVars => [Next]_vars
  BY StepRefines DEF allVars
<1>3. QED
  BY <1>1, <1>2, PTL DEF DumpSpec, ImplementsConnection, Spec

\* What is proved of a connection is true of a dumped one.
THEOREM ConnectionHolds == DumpSpec => []FramingInv
BY ConnectionRefined, Invariant, PTL DEF ImplementsConnection

\* Dump or not, the packets are handed over once each, in order, and an orderly
\* close comes after the last of them, if no header is too long (server.rs:
\* 56-147).
THEOREM DumpImplementsSafeChannel ==
  ASSUME \A w \in Wires : ~Oversized(w)
  PROVE  DumpSpec => Channel!SafeSpec
<1>1. Spec => Channel!SafeSpec
  BY ImplementsSafeChannel
<1>2. QED
  BY <1>1, ConnectionRefined, PTL DEF ImplementsConnection

-----------------------------------------------------------------------------
(***************************************************************************)
(* Types and losses.                                                       *)
(***************************************************************************)

\* One chunk or line is lost for each failed write, and one more for the next
\* write, which only reports it.
LossInv ==
  \A f \in Files :
    missing[f] + (IF f \in broken THEN 1 ELSE 0) <= 2 * failures[f]

FileTypeOK ==
  /\ broken \subseteq Files
  /\ missing \in [Files -> Nat]
  /\ failures \in [Files -> Nat]

\* Writes to any of the files keep types and losses.
LEMMA WriteKeeps ==
  ASSUME FileTypeOK, LossInv, NEW fs \in SUBSET Files, NEW bad, WriteFiles(fs, bad)
  PROVE  FileTypeOK' /\ LossInv'
<1>1. /\ bad \subseteq fs \ broken
      /\ broken' = (broken \ fs) \cup bad
      /\ missing' = [f \in Files |->
           missing[f] + IF f \in fs /\ f \in broken \cup bad THEN 1 ELSE 0]
      /\ failures' = [f \in Files |-> failures[f] + IF f \in bad THEN 1 ELSE 0]
  BY DEF WriteFiles
<1>2. FileTypeOK'
  BY <1>1 DEF FileTypeOK
<1>3. ASSUME NEW f \in Files
      PROVE  missing'[f] + (IF f \in broken' THEN 1 ELSE 0) <= 2 * failures'[f]
  <2>1. /\ missing[f] \in Nat /\ failures[f] \in Nat
        /\ missing[f] + (IF f \in broken THEN 1 ELSE 0) <= 2 * failures[f]
    BY DEF FileTypeOK, LossInv
  <2>2. CASE f \in bad
    <3>1. f \notin broken /\ f \in fs /\ f \in broken'
      BY <1>1, <2>2
    <3>2. missing'[f] = missing[f] + 1 /\ failures'[f] = failures[f] + 1
      BY <1>1, <2>1, <2>2, <3>1
    <3>3. QED
      BY <2>1, <3>1, <3>2
  <2>3. CASE f \notin bad /\ f \in fs /\ f \in broken
    <3>1. f \notin broken'
      BY <1>1, <2>3
    <3>2. missing'[f] = missing[f] + 1 /\ failures'[f] = failures[f]
      BY <1>1, <2>1, <2>3
    <3>3. QED
      BY <2>1, <2>3, <3>1, <3>2
  <2>4. CASE f \notin bad /\ ~(f \in fs /\ f \in broken)
    <3>1. f \in broken' => f \in broken
      BY <1>1, <2>4
    <3>2. missing'[f] = missing[f] /\ failures'[f] = failures[f]
      BY <1>1, <2>1, <2>4
    <3>3. QED
      BY <2>1, <3>1, <3>2
  <2>5. QED
    BY <2>2, <2>3, <2>4
<1>4. QED
  BY <1>2, <1>3 DEF LossInv

\* The same if nothing is written.
LEMMA NoWriteKeeps ==
  ASSUME FileTypeOK, LossInv, NothingWritten
  PROVE  FileTypeOK' /\ LossInv'
BY DEF FileTypeOK, LossInv, NothingWritten

LineType ==
  [kind : {"packet", "parse_error", "response"}, packet : Seq(Byte), nr : Nat]

\* A record of a packet keeps the type of the log, and types and losses.
LEMMA RecordKeeps ==
  ASSUME FileTypeOK, LossInv, lines \in Seq(LineType), packet \in Seq(Byte),
         drained \in Seq(Seq(Byte)),
         NEW kind \in {"packet", "parse_error", "response"}, Record(kind)
  PROVE  FileTypeOK' /\ LossInv' /\ lines' \in Seq(LineType)
<1>1. CASE dumper
  <2>1. PICK bad : /\ WriteFiles({"log"}, bad)
                   /\ lines' = IF "log" \in broken \cup bad THEN lines
                               ELSE Append(lines, Line(kind))
    BY <1>1 DEF Record
  <2>2. FileTypeOK' /\ LossInv'
    BY <2>1, WriteKeeps DEF Files
  <2>3. Line(kind) \in LineType
    BY DEF Line, LineType
  <2>4. QED
    BY <2>1, <2>2, <2>3
<1>2. CASE ~dumper
  BY <1>2, NoWriteKeeps DEF Record
<1>3. QED
  BY <1>1, <1>2

\* A chunk, too.
LEMMA RecordChunkKeeps ==
  ASSUME FileTypeOK, LossInv, RecordChunk
  PROVE  FileTypeOK' /\ LossInv' /\ lines' = lines
<1>1. CASE dumper
  <2>1. PICK bad : WriteFiles(Files, bad)
    BY <1>1 DEF RecordChunk
  <2>2. QED
    BY <2>1, WriteKeeps DEF RecordChunk
<1>2. CASE ~dumper
  BY <1>2, NoWriteKeeps DEF RecordChunk
<1>3. QED
  BY <1>1, <1>2

DumpInv == DumpTypeOK /\ LossInv

\* What a step leaves alone, as far as the invariant is about it.
LEMMA UnchangedKeeps ==
  ASSUME DumpInv, UNCHANGED <<broken, missing, failures>>
  PROVE  FileTypeOK' /\ LossInv'
BY DEF DumpInv, DumpTypeOK, FileTypeOK, LossInv

\* Every step keeps types and losses.
LEMMA StepKeeps ==
  ASSUME DumpInv, TypeOK', DumpNext
  PROVE  DumpInv'
<1> USE DEF Stages
<1>0. /\ FileTypeOK /\ LossInv /\ lines \in Seq(LineType) /\ dumper \in BOOLEAN
      /\ stage \in Stages /\ answered \subseteq 1..Len(drained)
      /\ (pc = "packet" <=> stage # "none") /\ packet \in Seq(Byte)
      /\ (stage # "none" => drained # <<>>) /\ drained \in Seq(Seq(Byte))
  BY DEF DumpInv, DumpTypeOK, TypeOK, FileTypeOK, LineType
<1>1. SUFFICES /\ FileTypeOK' /\ LossInv' /\ lines' \in Seq(LineType)
               /\ dumper' \in BOOLEAN /\ stage' \in Stages
               /\ answered' \subseteq 1..Len(drained')
               /\ (pc' = "packet" <=> stage' # "none")
               /\ (stage' # "none" => drained' # <<>>)
  BY DEF DumpInv, DumpTypeOK, FileTypeOK, LineType
<1>2. CASE DumpRead
  <2>1. pc = "read" /\ pc' = "frame" /\ drained' = drained
    BY <1>2 DEF DumpRead, ReadSome, Read
  <2>2. FileTypeOK' /\ LossInv' /\ lines' = lines
    BY <1>0, <1>2, RecordChunkKeeps DEF DumpRead
  <2>3. QED
    BY <1>0, <1>2, <2>1, <2>2 DEF DumpRead
<1>3. CASE Undumped
  <2>1. FileTypeOK' /\ LossInv'
    BY <1>3, UnchangedKeeps DEF Undumped, dumpVars
  <2>2. pc # "packet" /\ pc' # "packet" /\ drained' = drained
    BY <1>3 DEF Undumped, ReadEOF, ReadError, NeedHeader, Resync,
                DiscardOversized, NeedPayload
  <2>3. QED
    BY <1>0, <1>3, <2>1, <2>2 DEF Undumped, dumpVars
<1>4. CASE Cut
  <2>1. FileTypeOK' /\ LossInv'
    BY <1>4, UnchangedKeeps DEF Cut
  <2>2. /\ drained' = Append(drained, packet') /\ pc' = "packet"
        /\ stage' = "parse" /\ lines' = lines /\ dumper' = dumper
        /\ answered' = answered
    BY <1>4 DEF Cut, Drain
  <2>3. drained' # <<>> /\ Len(drained') = Len(drained) + 1
    <3>1. drained \in Seq(Seq(Byte)) /\ drained' = Append(drained, packet')
      BY <1>0, <2>2
    <3>2. Len(drained') = Len(drained) + 1 /\ Len(drained) \in Nat
      BY <3>1
    <3>3. QED
      BY <3>2
  <2>4. answered' \subseteq 1..Len(drained')
    BY <1>0, <2>2, <2>3
  <2>5. QED
    BY <1>0, <2>1, <2>2, <2>3, <2>4
<1>5. CASE ParseError
  <2>1. FileTypeOK' /\ LossInv' /\ lines' \in Seq(LineType)
    BY <1>0, <1>5, RecordKeeps DEF ParseError
  <2>2. QED
    BY <1>0, <1>5, <2>1 DEF ParseError, PacketDone
<1>6. CASE Parsed
  <2>1. FileTypeOK' /\ LossInv' /\ lines' \in Seq(LineType)
    BY <1>0, <1>6, RecordKeeps DEF Parsed
  <2>2. QED
    BY <1>0, <1>6, <2>1 DEF Parsed, vars
<1>7. CASE NoResponse
  <2>1. FileTypeOK' /\ LossInv'
    BY <1>7, UnchangedKeeps DEF NoResponse
  <2>2. QED
    BY <1>0, <1>7, <2>1 DEF NoResponse, PacketDone
<1>8. CASE Response
  <2>1. FileTypeOK' /\ LossInv' /\ lines' \in Seq(LineType)
    BY <1>0, <1>8, RecordKeeps DEF Response
  <2>2. QED
    BY <1>0, <1>8, <2>1 DEF Response, vars
<1>9. CASE Written
  <2>1. FileTypeOK' /\ LossInv'
    BY <1>9, UnchangedKeeps DEF Written
  <2>2. answered' \subseteq 1..Len(drained')
    <3>1. Len(drained) \in 1..Len(drained)
      BY <1>0, <1>9 DEF Written
    <3>2. QED
      BY <1>0, <1>9, <3>1 DEF Written, PacketDone
  <2>3. QED
    BY <1>0, <1>9, <2>1, <2>2 DEF Written, PacketDone
<1>10. CASE NotWritten
  <2>1. FileTypeOK' /\ LossInv'
    BY <1>10, UnchangedKeeps DEF NotWritten
  <2>2. QED
    BY <1>0, <1>10, <2>1 DEF NotWritten, WriteError
<1>11. QED
  BY <1>2, <1>3, <1>4, <1>5, <1>6, <1>7, <1>8, <1>9, <1>10
  DEF DumpNext, PacketStep

\* The invariant of the dump: types, and a debt of at most one lost write for
\* each file whose failure has not been reported.
THEOREM DumpInvariant == DumpSpec => []DumpInv
<1>1. DumpInit /\ TypeOK => DumpInv
  <2>1. SUFFICES ASSUME DumpInit, TypeOK PROVE DumpInv
    OBVIOUS
  <2>2. /\ broken \subseteq Files
        /\ missing = [f \in Files |-> IF f \in broken THEN 1 ELSE 0]
        /\ failures = missing
    BY <2>1 DEF DumpInit, Files
  <2>3. missing \in [Files -> Nat]
    BY <2>2
  <2>4. LossInv
    BY <2>2 DEF LossInv
  <2>5. QED
    BY <2>1, <2>2, <2>3, <2>4 DEF DumpInit, Init, DumpInv, DumpTypeOK, Stages
<1>2. DumpInv /\ TypeOK' /\ [DumpNext]_allVars => DumpInv'
  <2>1. CASE DumpNext
    BY <2>1, StepKeeps
  <2>2. CASE UNCHANGED allVars
    BY <2>2 DEF allVars, vars, dumpVars, DumpInv, DumpTypeOK, LossInv
  <2>3. QED
    BY <2>1, <2>2
<1>3. DumpSpec => []TypeOK
  BY ConnectionHolds, PTL DEF FramingInv
<1>4. QED
  BY <1>1, <1>2, <1>3, PTL DEF DumpSpec

\* Type correctness of the dumped connection.
THEOREM DumpTypeCorrect == DumpSpec => []DumpTypeOK
BY DumpInvariant, PTL DEF DumpInv

\* A failed write costs its file two chunks or lines at most (server.rs:
\* 343-395), whatever the other file does.
THEOREM LossCorrect == DumpSpec => []LossBounded
<1>1. DumpInv => LossBounded
  <2>1. SUFFICES ASSUME DumpInv, NEW f \in Files PROVE missing[f] <= 2 * failures[f]
    BY DEF LossBounded
  <2>2. missing[f] \in Nat /\ failures[f] \in Nat
    BY <2>1 DEF DumpInv, DumpTypeOK
  <2>3. missing[f] + (IF f \in broken THEN 1 ELSE 0) <= 2 * failures[f]
    BY <2>1 DEF DumpInv, LossInv
  <2>4. QED
    BY <2>2, <2>3
<1>2. QED
  BY <1>1, DumpInvariant, PTL
-----------------------------------------------------------------------------
(***************************************************************************)
(* The log.                                                                *)
(***************************************************************************)

\* What is counted: sets that lose members, or get one more.
LEMMA CountGrows ==
  ASSUME NEW n \in Nat, NEW A \in SUBSET (1..n), NEW C
  PROVE  /\ Cardinality(A) \in Nat
         /\ C \subseteq A =>
              Cardinality(C) \in Nat /\ Cardinality(C) <= Cardinality(A)
         /\ \A x : C \subseteq A \cup {x} =>
              Cardinality(C) \in Nat /\ Cardinality(C) <= Cardinality(A) + 1
<1>1. IsFiniteSet(A) /\ Cardinality(A) \in Nat
  <2>1. IsFiniteSet(1..n)
    BY FS_Interval
  <2>2. QED
    BY <2>1, FS_Subset, FS_CardinalityType
<1>2. ASSUME C \subseteq A
      PROVE  Cardinality(C) \in Nat /\ Cardinality(C) <= Cardinality(A)
  BY <1>1, <1>2, FS_Subset, FS_CardinalityType
<1>3. ASSUME NEW x, C \subseteq A \cup {x}
      PROVE  Cardinality(C) \in Nat /\ Cardinality(C) <= Cardinality(A) + 1
  <2>1. /\ IsFiniteSet(A \cup {x})
        /\ Cardinality(A \cup {x}) \in Nat
        /\ Cardinality(A \cup {x}) <= Cardinality(A) + 1
    <3>1. CASE x \in A
      <4>1. A \cup {x} = A
        BY <3>1
      <4>2. Cardinality(A) <= Cardinality(A) + 1
        BY <1>1
      <4>3. QED
        BY <1>1, <4>1, <4>2, Zenon
    <3>2. CASE x \notin A
      BY <1>1, <3>2, FS_AddElement
    <3>3. QED
      BY <3>1, <3>2
  <2>2. /\ Cardinality(C) \in Nat
        /\ Cardinality(C) <= Cardinality(A \cup {x})
    BY <1>3, <2>1, FS_Subset, FS_CardinalityType
  <2>3. QED
    BY <1>1, <2>1, <2>2
<1>4. QED
  BY <1>1, <1>2, <1>3

\* A record is a line more, or one more that is missing.
LEMMA RecordLogs ==
  ASSUME DumpTypeOK, dumper, NEW kind, Record(kind)
  PROVE  \/ /\ lines' = lines
            /\ missing'["log"] = missing["log"] + 1
         \/ /\ lines' = Append(lines, Line(kind))
            /\ missing'["log"] = missing["log"]
<1>1. PICK bad : /\ WriteFiles({"log"}, bad)
                 /\ lines' = IF "log" \in broken \cup bad THEN lines
                             ELSE Append(lines, Line(kind))
  BY DEF Record
<1>2. missing["log"] \in Nat
  BY DEF DumpTypeOK, Files
<1>3. missing'["log"] =
        missing["log"] + IF "log" \in broken \cup bad THEN 1 ELSE 0
  BY <1>1 DEF WriteFiles, Files
<1>4. QED
  BY <1>1, <1>2, <1>3

\* What the log is about when it has a line more.
LEMMA LogGrows ==
  ASSUME lines \in Seq(LineType), NEW l, lines' = Append(lines, l), NEW K
  PROVE  LET n == Len(lines)
         IN  /\ n \in Nat /\ lines'[n + 1] = l
             /\ DOMAIN lines = 1..n /\ DOMAIN lines' = 1..(n + 1)
             /\ \A k \in 1..n : lines'[k] = lines[k]
             /\ l.kind \in K => About(K)' = About(K) \cup {l.nr}
             /\ l.kind \notin K => About(K)' = About(K)
<1> DEFINE n == Len(lines)
<1>1. /\ n \in Nat /\ lines'[n + 1] = l
      /\ DOMAIN lines = 1..n /\ DOMAIN lines' = 1..(n + 1)
      /\ \A k \in 1..n : lines'[k] = lines[k]
  OBVIOUS
<1> HIDE DEF n
<1>2. /\ l.kind \in K => Logged(K)' = Logged(K) \cup {n + 1}
      /\ l.kind \notin K => Logged(K)' = Logged(K)
  <2>1. 1..(n + 1) = (1..n) \cup {n + 1}
    BY <1>1
  <2>2. QED
    BY <1>1, <2>1 DEF Logged
<1>3. \A k \in Logged(K) : lines'[k] = lines[k]
  BY <1>1 DEF Logged
<1>4. /\ l.kind \in K => About(K)' = About(K) \cup {l.nr}
      /\ l.kind \notin K => About(K)' = About(K)
  BY <1>1, <1>2, <1>3 DEF About
<1>5. QED
  BY <1>1, <1>4 DEF n

\* What the log is about does not change with the state of the connection.
LEMMA LogStays ==
  ASSUME lines' = lines, NEW K
  PROVE  About(K)' = About(K)
BY DEF About, Logged

\* The two sets of packets that lack a line are among the packets cut.
LEMMA Lacking ==
  ASSUME DumpTypeOK
  PROVE  /\ Len(drained) \in Nat
         /\ (Done \ About(PacketKinds)) \in SUBSET (1..Len(drained))
         /\ (Answering \ About(AnswerKinds)) \in SUBSET (1..Len(drained))
<1>1. /\ Len(drained) \in Nat /\ answered \subseteq 1..Len(drained)
      /\ stage # "none" => Len(drained) \in 1..Len(drained)
  BY DEF DumpTypeOK, TypeOK
<1>2. Done \subseteq 1..Len(drained)
  BY <1>1 DEF Done
<1>3. Answering \subseteq 1..Len(drained)
  BY <1>1 DEF Answering
<1>4. QED
  BY <1>1, <1>2, <1>3

\* The packet in process_packet is the last one cut.
LEMMA PacketFollows ==
  ASSUME DumpTypeOK, OnlyFooterRejects, LogFollowsStage, DumpNext
  PROVE  LogFollowsStage'
<1>1. CASE Cut
  <2>1. /\ drained' = Append(drained, packet') /\ drained \in Seq(Seq(Byte))
        /\ stage' = "parse"
    BY <1>1 DEF Cut, Drain, DumpTypeOK, TypeOK
  <2>2. drained'[Len(drained')] = packet'
    BY <2>1
  <2>3. QED
    BY <2>1, <2>2 DEF LogFollowsStage, Last
<1>2. CASE Parsed
  <2>1. /\ stage = "parse" /\ stage' = "handle" /\ packet' = packet
        /\ drained' = drained /\ pc = "packet" /\ ParsePacket(packet)
    BY <1>2 DEF Parsed, vars, DumpTypeOK
  <2>2. FooterParses(packet)
    BY <2>1 DEF OnlyFooterRejects
  <2>3. QED
    BY <2>1, <2>2 DEF LogFollowsStage, FooterParses
<1>3. CASE Response
  BY <1>3 DEF Response, vars, LogFollowsStage, FooterParses
<1>4. CASE DumpRead \/ Undumped
  <2>1. stage = "none"
    BY <1>4 DEF DumpRead, ReadSome, Read, Undumped, ReadEOF, ReadError,
       NeedHeader, Resync, DiscardOversized, NeedPayload, DumpTypeOK
  <2>2. QED
    BY <1>4, <2>1 DEF DumpRead, Undumped, dumpVars, LogFollowsStage
<1>5. CASE ParseError \/ NoResponse \/ Written \/ NotWritten
  BY <1>5 DEF ParseError, NoResponse, Written, NotWritten, LogFollowsStage
<1>6. QED
  BY <1>1, <1>2, <1>3, <1>4, <1>5 DEF DumpNext, PacketStep

\* Lines stay true and in order when nothing is known less of the stream and
\* the next line, if there is one, is true and behind the others.
LEMMA LogExtends ==
  ASSUME lines \in Seq(LineType), LinesTrue, LinesInOrder, NEW l,
         lines' = lines \/ lines' = Append(lines, l),
         Done \subseteq Done', \A n \in Done : drained'[n] = drained[n],
         l.nr \in Done', l.packet = drained'[l.nr],
         l.kind = "parse_error" <=> ~FooterParses(l.packet),
         \A k \in DOMAIN lines : Precedes(lines[k], l)
  PROVE  LinesTrue' /\ LinesInOrder'
<1> DEFINE n == Len(lines)
<1>1. CASE lines' = lines
  BY <1>1 DEF LinesTrue, LinesInOrder, IsTrue, Precedes, FooterParses
<1>2. CASE lines' = Append(lines, l)
  <2>1. /\ n \in Nat /\ lines'[n + 1] = l
        /\ DOMAIN lines = 1..n /\ DOMAIN lines' = 1..(n + 1)
        /\ \A k \in 1..n : lines'[k] = lines[k]
    BY <1>2, LogGrows
  <2> HIDE DEF n
  <2>2. ASSUME NEW k \in DOMAIN lines'
        PROVE  /\ lines'[k].nr \in Done' /\ lines'[k].packet = drained'[lines'[k].nr]
               /\ lines'[k].kind = "parse_error" <=> ~FooterParses(lines'[k].packet)
    <3>1. CASE k = n + 1
      BY <2>1, <3>1
    <3>2. CASE k \in 1..n
      <4>1. lines'[k] = lines[k] /\ k \in DOMAIN lines
        BY <2>1, <3>2
      <4>2. QED
        BY <4>1 DEF LinesTrue, IsTrue
    <3>3. QED
      BY <2>1, <2>2, <3>1, <3>2
  <2>3. ASSUME NEW j \in DOMAIN lines', NEW k \in DOMAIN lines', j < k
        PROVE  Precedes(lines'[j], lines'[k])
    <3>1. j \in 1..n /\ lines'[j] = lines[j]
      BY <2>1, <2>3
    <3>2. CASE k = n + 1
      BY <2>1, <3>1, <3>2
    <3>3. CASE k \in 1..n
      BY <2>1, <2>3, <3>1, <3>3 DEF LinesInOrder
    <3>4. QED
      BY <2>1, <2>3, <3>2, <3>3
  <2>4. QED
    BY <2>2, <2>3 DEF LinesTrue, LinesInOrder, IsTrue, Precedes, FooterParses
<1>3. QED
  BY <1>1, <1>2

\* A line about the packet that was just cut.
LEMMA VerdictLogged ==
  ASSUME DumpTypeOK, LogInv, OnlyFooterRejects, dumper, stage = "parse",
         stage' \in {"none", "handle"}, answered' = answered,
         drained' = drained, NEW kind \in PacketKinds, Record(kind),
         kind = "parse_error" <=> ~ParsePacket(packet)
  PROVE  LogKept'
<1> DEFINE l == Line(kind)
           m == Len(drained)
           untold == Done \ About(PacketKinds)
<1>1. /\ lines \in Seq(LineType) /\ drained \in Seq(Seq(Byte)) /\ drained # <<>>
      /\ pc = "packet" /\ missing["log"] \in Nat
  BY DEF DumpTypeOK, TypeOK, LineType, Files
<1>2. m \in Nat \ {0} /\ packet = drained[m]
  <2>1. m \in Nat \ {0}
    BY <1>1
  <2>2. packet = Last(drained)
    BY DEF LogInv, LogFollowsStage
  <2>3. QED
    BY <2>1, <2>2 DEF Last
<1>3. Done = 1..(m - 1) /\ Done' = 1..m
  BY DEF Done
<1>4. LinesTrue /\ LinesInOrder /\ OnlyLastUnsent /\ LinesLost
  BY DEF LogInv, LogKept
<1>5. kind = "parse_error" <=> ~FooterParses(packet)
  BY <1>1 DEF OnlyFooterRejects
<1>6. l.nr = m /\ l.packet = packet /\ l.kind = kind
  BY DEF Line
<1>7. \A k \in DOMAIN lines : lines[k].nr \in 1..(m - 1)
  BY <1>3, <1>4 DEF LinesTrue, IsTrue
<1>8. \/ lines' = lines /\ missing'["log"] = missing["log"] + 1
      \/ lines' = Append(lines, l) /\ missing'["log"] = missing["log"]
  BY RecordLogs
<1>9. Answering = answered /\ Answering' = answered
  BY DEF Answering
<1>10. /\ m \in Nat /\ untold \in SUBSET (1..m)
       /\ (Answering \ About(AnswerKinds)) \in SUBSET (1..m)
  BY Lacking
<1> HIDE DEF l, m, untold
<1>11. LinesTrue' /\ LinesInOrder'
  <2>1. Done \subseteq Done' /\ m \in Done'
    BY <1>2, <1>3
  <2>2. \A k \in DOMAIN lines : Precedes(lines[k], l)
    BY <1>2, <1>6, <1>7 DEF Precedes
  <2>3. QED
    BY <1>1, <1>2, <1>4, <1>5, <1>6, <1>8, <2>1, <2>2, LogExtends
<1>12. About(AnswerKinds)' = About(AnswerKinds)
  <2>1. l.kind \notin AnswerKinds
    BY <1>6 DEF PacketKinds, AnswerKinds
  <2>2. CASE lines' = lines
    BY <2>2, LogStays
  <2>3. CASE lines' = Append(lines, l)
    BY <1>1, <2>1, <2>3, LogGrows
  <2>4. QED
    BY <1>8, <2>2, <2>3
<1>13. OnlyLastUnsent'
  BY <1>1, <1>4, <1>12 DEF OnlyLastUnsent
<1>14. NoAnswerAhead'
  <2>1. m \notin About(AnswerKinds)
    BY <1>2, <1>7 DEF About, Logged
  <2>2. QED
    BY <1>12, <2>1 DEF NoAnswerAhead, m
<1>15. LinesLost'
  <2> DEFINE later == Done' \ About(PacketKinds)'
             unlogged == Cardinality(Answering \ About(AnswerKinds))
  <2>1. Cardinality(untold) + unlogged <= missing["log"] /\ unlogged \in Nat
    BY <1>4, <1>10, CountGrows DEF LinesLost, untold
  <2> HIDE DEF later, unlogged
  <2>2. Cardinality(later) + unlogged <= missing'["log"]
    <3>1. CASE lines' = lines /\ missing'["log"] = missing["log"] + 1
      <4>1. About(PacketKinds)' = About(PacketKinds)
        BY <3>1, LogStays
      <4>2. later \subseteq untold \cup {m}
        BY <1>2, <1>3, <4>1 DEF later, untold
      <4>3. /\ Cardinality(untold) \in Nat /\ Cardinality(later) \in Nat
            /\ Cardinality(later) <= Cardinality(untold) + 1
        BY <1>10, <4>2, CountGrows
      <4>4. QED
        BY <1>1, <2>1, <3>1, <4>3
    <3>2. CASE lines' = Append(lines, l) /\ missing'["log"] = missing["log"]
      <4>1. About(PacketKinds)' = About(PacketKinds) \cup {m}
        BY <1>1, <1>6, <3>2, LogGrows
      <4>2. later \subseteq untold
        BY <1>2, <1>3, <4>1 DEF later, untold
      <4>3. /\ Cardinality(untold) \in Nat /\ Cardinality(later) \in Nat
            /\ Cardinality(later) <= Cardinality(untold)
        BY <1>10, <4>2, CountGrows
      <4>4. QED
        BY <1>1, <2>1, <3>2, <4>3
    <3>3. QED
      BY <1>8, <3>1, <3>2
  <2>3. QED
    BY <1>9, <1>12, <2>2 DEF LinesLost, later, unlogged
<1>16. QED
  BY <1>11, <1>13, <1>14, <1>15 DEF LogKept

\* The line of a response.
LEMMA ResponseLogged ==
  ASSUME DumpTypeOK, LogInv, dumper, Response
  PROVE  LogKept'
<1> DEFINE l == Line("response")
           m == Len(drained)
           unlogged == Answering \ About(AnswerKinds)
<1>1. /\ lines \in Seq(LineType) /\ drained \in Seq(Seq(Byte)) /\ drained # <<>>
      /\ stage = "handle" /\ pc = "packet" /\ missing["log"] \in Nat
  BY DEF DumpTypeOK, TypeOK, LineType, Files, Response
<1>2. m \in Nat \ {0} /\ packet = drained[m] /\ FooterParses(packet)
  <2>1. m \in Nat \ {0}
    BY <1>1
  <2>2. packet = Last(drained) /\ FooterParses(packet)
    BY <1>1 DEF LogInv, LogFollowsStage
  <2>3. QED
    BY <2>1, <2>2 DEF Last
<1>3. /\ drained' = drained /\ stage' = "write" /\ answered' = answered
      /\ Record("response")
  BY DEF Response, vars
<1>4. Done = 1..m /\ Done' = 1..m
  BY <1>1, <1>3 DEF Done
<1>5. LinesTrue /\ LinesInOrder /\ OnlyLastUnsent /\ NoAnswerAhead /\ LinesLost
  BY DEF LogInv, LogKept
<1>6. l.nr = m /\ l.packet = packet /\ l.kind = "response"
  BY DEF Line
<1>7. \/ lines' = lines /\ missing'["log"] = missing["log"] + 1
      \/ lines' = Append(lines, l) /\ missing'["log"] = missing["log"]
  BY <1>3, RecordLogs
<1>8. m \notin About(AnswerKinds)
  BY <1>1, <1>5 DEF NoAnswerAhead
<1>9. Answering = answered /\ Answering' = answered \cup {m}
  BY <1>1, <1>3 DEF Answering
<1>10. /\ (Done \ About(PacketKinds)) \in SUBSET (1..m)
       /\ unlogged \in SUBSET (1..m)
  BY Lacking
<1> HIDE DEF l, m, unlogged
<1>11. LinesTrue' /\ LinesInOrder'
  <2>1. ASSUME NEW k \in DOMAIN lines PROVE Precedes(lines[k], l)
    <3>1. /\ lines[k].nr \in 1..m /\ lines[k].packet = drained[lines[k].nr]
          /\ lines[k].kind = "parse_error" <=> ~FooterParses(lines[k].packet)
      BY <1>4, <1>5 DEF LinesTrue, IsTrue
    <3>2. CASE lines[k].nr = m
      <4>1. lines[k].kind # "parse_error"
        BY <1>2, <3>1, <3>2
      <4>2. lines[k].kind # "response"
        BY <1>8, <3>2 DEF About, Logged, AnswerKinds
      <4>3. lines[k].kind \in {"packet", "parse_error", "response"}
        <5>1. lines[k] \in LineType
          BY <1>1
        <5>2. QED
          BY <5>1 DEF LineType
      <4>4. QED
        BY <1>6, <3>2, <4>1, <4>2, <4>3 DEF Precedes
    <3>3. CASE lines[k].nr # m
      <4>1. lines[k].nr < m
        BY <1>2, <3>1, <3>3
      <4>2. QED
        BY <1>6, <4>1 DEF Precedes
    <3>4. QED
      BY <3>2, <3>3
  <2>2. m \in Done'
    BY <1>2, <1>4
  <2>3. QED
    BY <1>1, <1>2, <1>3, <1>4, <1>5, <1>6, <1>7, <2>1, <2>2, LogExtends
<1>12. /\ About(PacketKinds)' = About(PacketKinds)
       /\ About(AnswerKinds)' = About(AnswerKinds) \/ About(AnswerKinds)' = About(AnswerKinds) \cup {m}
       /\ lines' # lines => About(AnswerKinds)' = About(AnswerKinds) \cup {m}
  <2>1. l.kind \notin PacketKinds /\ l.kind \in AnswerKinds
    BY <1>6 DEF PacketKinds, AnswerKinds
  <2>2. CASE lines' = lines
    BY <2>2, LogStays
  <2>3. CASE lines' = Append(lines, l)
    BY <1>1, <1>6, <2>1, <2>3, LogGrows
  <2>4. QED
    BY <1>7, <2>2, <2>3
<1>13. OnlyLastUnsent'
  <2>1. About(AnswerKinds) \ answered = {}
    BY <1>1, <1>5 DEF OnlyLastUnsent
  <2>2. QED
    BY <1>3, <1>12, <2>1 DEF OnlyLastUnsent, m
<1>14. NoAnswerAhead'
  BY <1>3 DEF NoAnswerAhead
<1>15. LinesLost'
  <2> DEFINE later == Answering' \ About(AnswerKinds)'
             untold == Cardinality(Done \ About(PacketKinds))
  <2>1. untold + Cardinality(unlogged) <= missing["log"] /\ untold \in Nat
    BY <1>2, <1>5, <1>10, CountGrows DEF LinesLost, unlogged
  <2> HIDE DEF later, untold
  <2>2. untold + Cardinality(later) <= missing'["log"]
    <3>1. CASE lines' = lines /\ missing'["log"] = missing["log"] + 1
      <4>1. later \subseteq unlogged \cup {m}
        BY <1>9, <1>12 DEF later, unlogged
      <4>2. /\ Cardinality(unlogged) \in Nat /\ Cardinality(later) \in Nat
            /\ Cardinality(later) <= Cardinality(unlogged) + 1
        BY <1>2, <1>10, <4>1, CountGrows
      <4>3. QED
        BY <1>1, <2>1, <3>1, <4>2
    <3>2. CASE lines' = Append(lines, l) /\ missing'["log"] = missing["log"]
      <4>1. lines' # lines
        <5>1. Len(lines') = Len(lines) + 1 /\ Len(lines) \in Nat
          BY <1>1, <3>2
        <5>2. QED
          BY <5>1
      <4>2. later \subseteq unlogged
        BY <1>9, <1>12, <4>1 DEF later, unlogged
      <4>3. /\ Cardinality(unlogged) \in Nat /\ Cardinality(later) \in Nat
            /\ Cardinality(later) <= Cardinality(unlogged)
        BY <1>2, <1>10, <4>2, CountGrows
      <4>4. QED
        BY <1>1, <2>1, <3>2, <4>3
    <3>3. QED
      BY <1>7, <3>1, <3>2
  <2>3. QED
    BY <1>4, <1>12, <2>2 DEF LinesLost, later, untold
<1>16. QED
  BY <1>11, <1>13, <1>14, <1>15 DEF LogKept

\* A step that writes nothing about a packet.  Either another packet is cut,
\* or the connection is at rest, or process_packet is left with the packet
\* answered or not.
LEMMA LogSame ==
  ASSUME DumpTypeOK, LogInv, dumper, lines' = lines, missing' = missing,
         \/ Cut \/ NoResponse \/ Written \/ NotWritten
  PROVE  LogKept'
<1> DEFINE m == Len(drained)
<1>1. /\ drained \in Seq(Seq(Byte)) /\ m \in Nat /\ answered \subseteq 1..m
      /\ pc = "packet" <=> stage # "none"
      /\ stage # "none" => drained # <<>>
  BY DEF DumpTypeOK, TypeOK
<1>2. LinesTrue /\ LinesInOrder /\ OnlyLastUnsent /\ LinesLost
  BY DEF LogInv, LogKept
<1>3. About(AnswerKinds)' = About(AnswerKinds) /\ About(PacketKinds)' = About(PacketKinds)
  BY LogStays
<1>4. Done' = Done /\ \A n \in Done : drained'[n] = drained[n]
  <2>1. CASE Cut
    <3>1. /\ stage = "none" /\ stage' = "parse"
          /\ \E p : drained' = Append(drained, p)
      BY <1>1, <2>1 DEF Cut, Drain
    <3>2. Len(drained') = m + 1 /\ \A n \in 1..m : drained'[n] = drained[n]
      BY <1>1, <3>1
    <3>3. QED
      BY <1>1, <3>1, <3>2 DEF Done
  <2>2. CASE NoResponse \/ Written \/ NotWritten
    BY <2>2 DEF NoResponse, Written, NotWritten, PacketDone, WriteError, Done
  <2>3. QED
    BY <2>1, <2>2
<1>5. LinesTrue' /\ LinesInOrder'
  BY <1>2, <1>4 DEF LinesTrue, LinesInOrder, IsTrue, Precedes, FooterParses
<1>6. NoAnswerAhead'
  BY DEF NoAnswerAhead, Cut, NoResponse, Written, NotWritten
<1>7. OnlyLastUnsent' /\ Answering' \subseteq Answering
  <2>1. CASE Cut
    <3>1. /\ stage = "none" /\ stage' = "parse" /\ pc = "frame"
          /\ answered' = answered
      BY <1>1, <2>1 DEF Cut, Drain
    <3>2. QED
      BY <1>2, <1>3, <3>1 DEF OnlyLastUnsent, Answering
  <2>2. CASE NoResponse
    <3>1. /\ stage = "handle" /\ stage' = "none" /\ pc = "packet"
          /\ answered' = answered
      BY <1>1, <2>2 DEF NoResponse
    <3>2. QED
      BY <1>2, <1>3, <3>1 DEF OnlyLastUnsent, Answering
  <2>3. CASE Written
    <3>1. /\ stage = "write" /\ stage' = "none"
          /\ answered' = answered \cup {m}
      BY <2>3 DEF Written
    <3>2. QED
      BY <1>2, <1>3, <3>1 DEF OnlyLastUnsent, Answering
  <2>4. CASE NotWritten
    <3>1. /\ stage = "write" /\ stage' = "none" /\ pc' = "failed"
          /\ answered' = answered /\ drained' = drained
      BY <2>4 DEF NotWritten, WriteError
    <3>2. QED
      BY <1>2, <1>3, <3>1 DEF OnlyLastUnsent, Answering
  <2>5. QED
    BY <2>1, <2>2, <2>3, <2>4
<1>8. LinesLost'
  <2> DEFINE unlogged == Answering \ About(AnswerKinds)
             later == Answering' \ About(AnswerKinds)
             untold == Cardinality(Done \ About(PacketKinds))
  <2>1. /\ unlogged \in SUBSET (1..m)
        /\ (Done \ About(PacketKinds)) \in SUBSET (1..m)
    BY Lacking
  <2>2. later \subseteq unlogged
    BY <1>7
  <2>3. untold \in Nat
    BY <1>1, <2>1, CountGrows
  <2>4. missing["log"] \in Nat
    BY DEF DumpTypeOK, Files
  <2>5. untold + Cardinality(unlogged) <= missing["log"]
    BY <1>2 DEF LinesLost
  <2> HIDE DEF unlogged, later, untold, m
  <2>6. /\ Cardinality(unlogged) \in Nat /\ Cardinality(later) \in Nat
        /\ Cardinality(later) <= Cardinality(unlogged)
    BY <1>1, <2>1, <2>2, CountGrows
  <2>7. untold + Cardinality(later) <= missing["log"]
    BY <2>3, <2>4, <2>5, <2>6
  <2>8. QED
    BY <1>3, <1>4, <2>7 DEF LinesLost, later, untold
<1>9. QED
  BY <1>5, <1>6, <1>7, <1>8 DEF LogKept

\* Every step keeps the invariant of the log.
LEMMA LogStep ==
  ASSUME DumpTypeOK, OnlyFooterRejects, LogInv, DumpNext
  PROVE  LogInv'
<1>0. /\ pc = "packet" <=> stage # "none"
      /\ missing["log"] \in Nat
  BY DEF DumpTypeOK, Files
<1>1. LogFollowsStage'
  BY PacketFollows DEF LogInv
<1>2. dumper' = dumper
  BY DEF DumpNext, DumpRead, Undumped, Cut, PacketStep, ParseError, Parsed,
     NoResponse, Response, Written, NotWritten, dumpVars
<1>3. SUFFICES ASSUME dumper PROVE LogKept'
  BY <1>1, <1>2 DEF LogInv
<1>4. CASE DumpRead \/ Undumped
  <2>1. /\ lines' = lines /\ stage' = stage /\ drained' = drained
        /\ answered' = answered /\ stage = "none" /\ pc # "failed"
    BY <1>0, <1>4 DEF DumpRead, RecordChunk, ReadSome, Read, Undumped, dumpVars,
       ReadEOF, ReadError, NeedHeader, Resync, DiscardOversized, NeedPayload
  <2>2. missing'["log"] \in Nat /\ missing["log"] <= missing'["log"]
    <3>1. CASE Undumped
      BY <1>0, <3>1 DEF Undumped, dumpVars
    <3>2. CASE DumpRead
      <4>1. PICK bad : WriteFiles(Files, bad)
        BY <1>3, <3>2 DEF DumpRead, RecordChunk
      <4>2. missing'["log"] = missing["log"]
              + IF "log" \in Files /\ "log" \in broken \cup bad THEN 1 ELSE 0
        BY <4>1 DEF WriteFiles, Files
      <4>3. QED
        BY <1>0, <4>2
    <3>3. QED
      BY <1>4, <3>1, <3>2
  <2>3. LinesTrue /\ LinesInOrder /\ OnlyLastUnsent /\ LinesLost
    BY <1>3 DEF LogInv, LogKept
  <2>4. /\ About(AnswerKinds)' = About(AnswerKinds)
        /\ About(PacketKinds)' = About(PacketKinds)
    BY <2>1, LogStays
  <2>5. Done' = Done /\ Answering' = Answering
    BY <2>1 DEF Done, Answering
  <2>6. LinesTrue' /\ LinesInOrder'
    BY <2>1, <2>3, <2>5 DEF LinesTrue, LinesInOrder, IsTrue, Precedes,
       FooterParses
  <2>7. OnlyLastUnsent' /\ NoAnswerAhead'
    BY <2>1, <2>3, <2>4 DEF OnlyLastUnsent, NoAnswerAhead
  <2>8. LinesLost'
    <3> DEFINE untold == Cardinality(Done \ About(PacketKinds))
               unlogged == Cardinality(Answering \ About(AnswerKinds))
    <3>1. untold \in Nat /\ unlogged \in Nat
      BY Lacking, CountGrows
    <3>2. untold + unlogged <= missing["log"]
      BY <2>3 DEF LinesLost
    <3> HIDE DEF untold, unlogged
    <3>3. untold + unlogged <= missing'["log"]
      BY <1>0, <2>2, <3>1, <3>2
    <3>4. QED
      BY <2>4, <2>5, <3>3 DEF LinesLost, untold, unlogged
  <2>9. QED
    BY <2>6, <2>7, <2>8 DEF LogKept
<1>5. CASE ParseError
  <2>1. /\ stage = "parse" /\ stage' = "none" /\ answered' = answered
        /\ drained' = drained /\ Record("parse_error") /\ ~ParsePacket(packet)
    BY <1>5 DEF ParseError, PacketDone
  <2>2. QED
    BY <1>3, <2>1, VerdictLogged DEF PacketKinds
<1>6. CASE Parsed
  <2>1. /\ stage = "parse" /\ stage' = "handle" /\ answered' = answered
        /\ drained' = drained /\ Record("packet") /\ ParsePacket(packet)
    BY <1>6 DEF Parsed, vars
  <2>2. QED
    BY <1>3, <2>1, VerdictLogged DEF PacketKinds
<1>7. CASE Response
  BY <1>3, <1>7, ResponseLogged
<1>8. CASE Cut \/ NoResponse \/ Written \/ NotWritten
  BY <1>3, <1>8, LogSame DEF Cut, NoResponse, Written, NotWritten
<1>9. QED
  BY <1>4, <1>5, <1>6, <1>7, <1>8 DEF DumpNext, PacketStep

\* The invariant of the log: its lines are true and in order, and those it
\* lacks are among the ones its failed writes have cost.
THEOREM LogInvariant == DumpSpec => []LogInv
<1>1. DumpInit => LogInv
  <2>1. SUFFICES ASSUME DumpInit PROVE LogInv
    OBVIOUS
  <2>2. /\ lines = <<>> /\ drained = <<>> /\ answered = {} /\ stage = "none"
        /\ missing["log"] = 0 \/ missing["log"] = 1
    BY <2>1 DEF DumpInit, Init, Files
  <2>3. /\ About(PacketKinds) = {} /\ About(AnswerKinds) = {}
        /\ Done = {} /\ Answering = {}
    BY <2>2 DEF About, Logged, Done, Answering
  <2>4. LinesLost
    <3>1. Cardinality({}) = 0 /\ {} \ {} = {}
      BY FS_EmptySet
    <3>2. QED
      BY <2>2, <2>3, <3>1 DEF LinesLost
  <2>5. QED
    BY <2>2, <2>3, <2>4 DEF LogInv, LogKept, LogFollowsStage, LinesTrue,
       LinesInOrder, OnlyLastUnsent, NoAnswerAhead
<1>2. DumpTypeOK /\ FramingInv /\ LogInv /\ [DumpNext]_allVars => LogInv'
  <2>1. SUFFICES ASSUME DumpTypeOK, FramingInv, LogInv, [DumpNext]_allVars
                 PROVE  LogInv'
    OBVIOUS
  <2>2. OnlyFooterRejects
    BY <2>1 DEF FramingInv, PacketIsWhole, OnlyFooterRejects, ParsePacket
  <2>3. CASE DumpNext
    BY <2>1, <2>2, <2>3, LogStep
  <2>4. CASE UNCHANGED allVars
    BY <2>1, <2>4 DEF allVars, vars, dumpVars, LogInv, LogKept, LogFollowsStage,
       LinesTrue, LinesInOrder, IsTrue, Precedes, OnlyLastUnsent, NoAnswerAhead,
       LinesLost, Answering, About, Logged, Done, FooterParses
  <2>5. QED
    BY <2>1, <2>3, <2>4
<1>3. QED
  BY <1>1, <1>2, DumpTypeCorrect, ConnectionHolds, PTL DEF DumpSpec

\* What is missing is paid for by failed writes.
LEMMA LossPaid ==
  ASSUME DumpTypeOK, LogInv, LossBounded, dumper
  PROVE  /\ Cardinality(Done \ About(PacketKinds)) <= 2 * failures["log"]
         /\ Cardinality(answered \ About(AnswerKinds)) <= 2 * failures["log"]
<1> DEFINE untold == Cardinality(Done \ About(PacketKinds))
           unlogged == Cardinality(Answering \ About(AnswerKinds))
           unsent == Cardinality(answered \ About(AnswerKinds))
<1>1. /\ missing["log"] \in Nat /\ failures["log"] \in Nat
      /\ missing["log"] <= 2 * failures["log"]
  BY DEF DumpTypeOK, LossBounded, Files
<1>2. untold + unlogged <= missing["log"]
  BY DEF LogInv, LogKept, LinesLost
<1>3. untold \in Nat /\ unlogged \in Nat
  BY Lacking, CountGrows
<1>4. unsent \in Nat /\ unsent <= unlogged
  <2>1. (answered \ About(AnswerKinds)) \subseteq (Answering \ About(AnswerKinds))
    BY DEF Answering
  <2>2. QED
    BY <2>1, Lacking, CountGrows
<1> HIDE DEF untold, unlogged, unsent
<1>5. untold <= 2 * failures["log"] /\ unsent <= 2 * failures["log"]
  BY <1>1, <1>2, <1>3, <1>4
<1>6. QED
  BY <1>5 DEF untold, unsent

\* What the log file says of the packets is true, in order and complete but
\* for two packets for every write that failed (server.rs:157-175, 343-395).
THEOREM PacketsTold == DumpSpec => []LogTellsPackets
<1>1. DumpTypeOK /\ LogInv /\ LossBounded => LogTellsPackets
  BY LossPaid DEF LogTellsPackets, LogInv, LogKept
<1>2. QED
  BY <1>1, LogInvariant, DumpTypeCorrect, LossCorrect, PTL

\* Every response the logger was sent is in the log file but for two for every
\* write that failed, and at most one that was not (server.rs:275-282,
\* 343-395).
THEOREM AnswersTold == DumpSpec => []AnswersLogged
<1>1. DumpTypeOK /\ LogInv /\ LossBounded => AnswersLogged
  BY LossPaid DEF AnswersLogged, LogInv, LogKept
<1>2. QED
  BY <1>1, LogInvariant, DumpTypeCorrect, LossCorrect, PTL
=============================================================================
