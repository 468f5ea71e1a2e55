-------------------------------- MODULE Dump --------------------------------
(***************************************************************************)
(* The stream dump of a connection: StreamDumper (src/dummycloud2/src/     *)
(* server.rs) and its calls in handle_connection and process_packet,       *)
(* composed with module Framing.  A connection that could open its two     *)
(* files writes what it receives to the raw one, and a line for each       *)
(* chunk, packet and response to the log.  Errors of a write are warned    *)
(* about and never returned.                                               *)
(*                                                                         *)
(* The files belong to tokio: write_all hands the bytes to a thread and    *)
(* returns, and an error of that thread is the result of the next write    *)
(* to the file, which does nothing else.  What a thread has failed to      *)
(* write counts as missing, whatever part of it reached the disk.          *)
(***************************************************************************)
EXTENDS Framing, FiniteSets, SequencesExt

CONSTANT MaxFailures   \* how many writes fail at most, of both files

ASSUME DumpAssumption == MaxFailures \in Nat

VARIABLES
  dumper,    \* the dump is configured and both files could be created
  lines,     \* the lines about packets that are in the log file
  broken,    \* the files whose last write failed and did not report it yet
  missing,   \* how many chunks the raw file and lines the log file lack
  failures,  \* how many writes of each file have failed
  stage,     \* where process_packet is, see Stages
  answered   \* history: the packets whose response was written, by number

dumpVars == <<dumper, lines, broken, missing, failures, stage, answered>>
allVars  == <<vars, dumpVars>>

Files == {"raw", "log"}

\* "none": not in process_packet; "parse": before its first record call;
\* "handle": in the match over the request type; "write": at write_all.
Stages == {"none", "parse", "handle", "write"}

\* A line about the packet in process_packet: its bytes, and which of the
\* packets it is, which the text of the line does not say.
Line(kind) == [kind |-> kind, packet |-> packet, nr |-> Len(drained)]

DumpTypeOK ==
  /\ TypeOK
  /\ dumper \in BOOLEAN
  /\ lines \in Seq([kind : {"packet", "parse_error", "response"},
                    packet : Seq(Byte), nr : Nat])
  /\ broken \subseteq Files
  /\ missing \in [Files -> Nat]
  /\ failures \in [Files -> Nat]
  /\ stage \in Stages
  /\ pc = "packet" <=> stage # "none"
  /\ stage # "none" => drained # <<>>
  /\ answered \subseteq 1..Len(drained)

\* StreamDumper::open returns None when a directory or file cannot be made.
\* It writes the first line of the log, which may fail like any other.
DumpInit ==
  /\ Init
  /\ dumper \in BOOLEAN
  /\ lines = <<>>
  /\ broken \in SUBSET (IF dumper THEN {"log"} ELSE {})
  /\ Cardinality(broken) <= MaxFailures
  /\ missing = [f \in Files |-> IF f \in broken THEN 1 ELSE 0]
  /\ failures = missing
  /\ stage = "none"
  /\ answered = {}

-----------------------------------------------------------------------------
Failed == failures["raw"] + failures["log"]

\* One write to each file of fs, of which those of bad fail in the thread.
WriteFiles(fs, bad) ==
  /\ bad \subseteq fs \ broken
  /\ Failed + Cardinality(bad) <= MaxFailures
  /\ broken' = (broken \ fs) \cup bad
  /\ missing' = [f \in Files |->
       missing[f] + IF f \in fs /\ f \in broken \cup bad THEN 1 ELSE 0]
  /\ failures' = [f \in Files |-> failures[f] + IF f \in bad THEN 1 ELSE 0]

NothingWritten == UNCHANGED <<broken, missing, failures>>

\* Faulty: an error of the raw file is returned before the line is written.
RecordChunkStops ==
  /\ IF ~dumper THEN NothingWritten
     ELSE IF "raw" \in broken
     THEN /\ broken' = broken \ {"raw"}
          /\ missing' = [f \in Files |-> missing[f] + 1]
          /\ UNCHANGED failures
     ELSE \E bad \in SUBSET Files : WriteFiles(Files, bad)
  /\ UNCHANGED lines

\* record_client_chunk: the bytes to the raw file, a line to the log.
RecordChunk ==
  /\ IF dumper THEN \E bad \in SUBSET Files : WriteFiles(Files, bad)
     ELSE NothingWritten
  /\ UNCHANGED lines

\* record_packet, record_parse_error and record_response: a line each, lost
\* if its write fails or reports that the one before it failed.
Record(kind) ==
  IF dumper
  THEN \E bad \in SUBSET {"log"} :
         /\ WriteFiles({"log"}, bad)
         /\ lines' = IF "log" \in broken \cup bad THEN lines
                     ELSE Append(lines, Line(kind))
  ELSE UNCHANGED lines /\ NothingWritten

-----------------------------------------------------------------------------
\* A read, recorded before pending is extended.
DumpRead ==
  /\ ReadSome
  /\ RecordChunk
  /\ UNCHANGED <<dumper, stage, answered>>

\* Steps of the connection with no call of the dumper.
Undumped ==
  /\ ReadEOF \/ ReadError \/ NeedHeader \/ Resync \/ DiscardOversized \/ NeedPayload
  /\ UNCHANGED dumpVars

\* A packet is cut off and process_packet is called with it.
Cut ==
  /\ Drain
  /\ stage' = "parse"
  /\ UNCHANGED <<dumper, lines, broken, missing, failures, answered>>

\* Faulty: the error of parse_packet is returned to the connection.
ParseErrorEscapes ==
  /\ stage = "parse"
  /\ ~ParsePacket(packet)
  /\ Record("parse_error")
  /\ pc' = "failed"
  /\ packet' = <<>>
  /\ stage' = "none"
  /\ UNCHANGED <<wire, received, pending, drained, dumper, answered>>

\* parse_packet fails: recorded, and process_packet returns Ok.
ParseError ==
  /\ stage = "parse"
  /\ ~ParsePacket(packet)
  /\ Record("parse_error")
  /\ PacketDone
  /\ stage' = "none"
  /\ UNCHANGED <<dumper, answered>>

\* Faulty: the packet is recorded whether it parses or not.
ParsedUnchecked ==
  /\ stage = "parse"
  /\ Record("packet")
  /\ stage' = "handle"
  /\ UNCHANGED <<vars, dumper, answered>>

\* The packet is recorded before it is handled.
Parsed ==
  /\ stage = "parse"
  /\ ParsePacket(packet)
  /\ Record("packet")
  /\ stage' = "handle"
  /\ UNCHANGED <<vars, dumper, answered>>

\* The payload of a DATA packet does not parse: process_packet returns Ok
\* with no response.  Which packets these are is left open here.
NoResponse ==
  /\ stage = "handle"
  /\ PacketDone
  /\ stage' = "none"
  /\ UNCHANGED <<dumper, lines, broken, missing, failures, answered>>

\* Faulty: the response is written first and recorded afterwards.
ResponseUnrecorded ==
  /\ stage = "handle"
  /\ answered' = answered \cup {Len(drained)}
  /\ stage' = "write"
  /\ UNCHANGED <<vars, dumper, lines, broken, missing, failures>>

\* The response is built and recorded, then written.
Response ==
  /\ stage = "handle"
  /\ Record("response")
  /\ stage' = "write"
  /\ UNCHANGED <<vars, dumper, answered>>

Written ==
  /\ stage = "write"
  /\ PacketDone
  /\ answered' = answered \cup {Len(drained)}
  /\ stage' = "none"
  /\ UNCHANGED <<dumper, lines, broken, missing, failures>>

\* write_all fails, and with it the connection.
NotWritten ==
  /\ stage = "write"
  /\ WriteError
  /\ stage' = "none"
  /\ UNCHANGED <<dumper, lines, broken, missing, failures, answered>>

PacketStep == ParseError \/ Parsed \/ NoResponse \/ Response \/ Written

DumpNext == DumpRead \/ Undumped \/ Cut \/ PacketStep \/ NotWritten

DumpSpec == DumpInit /\ [][DumpNext]_allVars

\* The fairness of Framing, for the same steps with their records.
FairDumpSpec ==
  /\ DumpSpec
  /\ WF_allVars(DumpRead)
  /\ WF_allVars(FrameStep /\ (Undumped \/ Cut))
  /\ WF_allVars(PacketStep)

-----------------------------------------------------------------------------
(***************************************************************************)
(* Properties                                                              *)
(***************************************************************************)

\* Whatever happens to its files, the dump leaves the connection as it is
\* without one: every step is a step of Framing (server.rs:83-85, 159-175,
\* 277-279, 343-395).
ImplementsConnection == Spec

\* The lines of some kinds, and the packets they are about.
Logged(kinds) == {k \in DOMAIN lines : lines[k].kind \in kinds}

About(kinds) == {lines[k].nr : k \in Logged(kinds)}

PacketKinds == {"packet", "parse_error"}
AnswerKinds == {"response"}

\* The packets that were recorded: all but one that was just cut.
Done == 1..(IF stage = "parse" THEN Len(drained) - 1 ELSE Len(drained))

\* What a line says is true: the packet was cut with these bytes, and it
\* parsed or not as the line has it; only a packet that parsed is answered.
IsTrue(line) ==
  /\ line.nr \in Done /\ line.packet = drained[line.nr]
  /\ (line.kind = "parse_error") <=> ~FooterParses(line.packet)

\* A line is followed by lines of later packets, or by the response to the
\* same one.
Precedes(a, b) ==
  \/ a.nr < b.nr
  \/ a.nr = b.nr /\ a.kind = "packet" /\ b.kind = "response"

LinesTrue == \A k \in DOMAIN lines : IsTrue(lines[k])

LinesInOrder == \A j, k \in DOMAIN lines : j < k => Precedes(lines[j], lines[k])

\* The log tells what the connection made of the stream: its lines are true
\* and in the order of the stream, no packet has two of a kind, and each has
\* the line that says whether it parsed but for two packets at most for every
\* write that failed - all of them if none did (server.rs:157-175, 343-395).
LogTellsPackets ==
  dumper =>
    /\ LinesTrue
    /\ LinesInOrder
    /\ Cardinality(Done \ About(PacketKinds)) <= 2 * failures["log"]

OnlyLastUnsent ==
  \A n \in About(AnswerKinds) \ answered :
    n = Len(drained) /\ (stage = "write" \/ pc = "failed")

\* Every response the logger was sent is in the log but for two at most for
\* every write that failed; and the log shows at most one that was not sent,
\* the last one, when its write is pending or has ended the connection
\* (server.rs:275-282, 343-395).
AnswersLogged ==
  dumper =>
    /\ Cardinality(answered \ About(AnswerKinds)) <= 2 * failures["log"]
    /\ OnlyLastUnsent

\* A file that fails is written again: one failed write costs that file two
\* chunks or lines at most, and the other file none (server.rs:343-395).
LossBounded == \A f \in Files : missing[f] <= 2 * failures[f]

-----------------------------------------------------------------------------
(***************************************************************************)
(* The inductive invariant behind the two properties of the log.           *)
(***************************************************************************)

\* The packets that are answered once the write that is pending succeeds.
Answering == IF stage = "write" THEN answered \cup {Len(drained)} ELSE answered

\* The lines about packets and responses that are not in the log are among
\* those that were lost.
LinesLost ==
  Cardinality(Done \ About(PacketKinds))
    + Cardinality(Answering \ About(AnswerKinds)) <= missing["log"]

\* The packet in process_packet is the last one cut, and it parsed if it is
\* past that.
LogFollowsStage ==
  /\ stage # "none" => packet = Last(drained)
  /\ stage \in {"handle", "write"} => FooterParses(packet)

\* No response is recorded before the handler of its packet is through.
NoAnswerAhead == stage = "handle" => Len(drained) \notin About(AnswerKinds)

LogKept ==
  LinesTrue /\ LinesInOrder /\ OnlyLastUnsent /\ NoAnswerAhead /\ LinesLost

LogInv == LogFollowsStage /\ (dumper => LogKept)
=============================================================================
