------------------------------- MODULE Framing -------------------------------
(***************************************************************************)
(* One connection of the dummy cloud, at the level of bytes: how           *)
(* handle_connection, process_pending_packets and next_packet_len          *)
(* (src/dummycloud2/src/server.rs) cut the TCP byte stream of a logger     *)
(* into packets.  TCP may segment and coalesce the stream as it likes:     *)
(* one read returns any number of the next bytes.  What process_packet     *)
(* does with an accepted packet is the business of module Session; here    *)
(* it either returns or fails on the write of its response.                *)
(***************************************************************************)
EXTENDS Integers, Sequences

CONSTANTS
  HEADER_LEN,      \* protocol.rs: 11
  FOOTER_LEN,      \* protocol.rs: 2
  MAX_PACKET_LEN,  \* server.rs: 4096
  READ_BUF_LEN,    \* the size of read_buf: 2048
  Wires            \* the byte streams a logger may send, each with its cut

MAGIC        == 165   \* 0xa5, the first byte of every packet
FOOTER_MAGIC == 21    \* 0x15, the last byte of every packet
Byte         == 0..255

-----------------------------------------------------------------------------
(***************************************************************************)
(* A wire is a record: bytes is everything the logger sends on this        *)
(* connection, and cut is the reference for what the server must make of   *)
(* it: the intervals [first, last] of the packets in it.  The bytes        *)
(* between two packets hold no magic byte.  After the last packet the      *)
(* first magic byte, if any, starts a packet that is cut off by the end    *)
(* of the stream or one whose header announces too many bytes.             *)
(***************************************************************************)

\* The length a header at position p of s announces (packet_total_len).
LenAt(s, p) == HEADER_LEN + s[p + 1] + 256 * s[p + 2] + FOOTER_LEN

NoMagic(s, i, j) == \A p \in i..j : s[p] # MAGIC

\* The first position after the k-th packet of the cut.
After(w, k) == IF k = 0 THEN 1 ELSE w.cut[k].last + 1

\* p is the first magic byte at or after i, and the header at p is complete.
HeaderAt(s, i, p) ==
  /\ s[p] = MAGIC
  /\ NoMagic(s, i, p - 1)
  /\ p + HEADER_LEN - 1 <= Len(s)

IsPacketOf(w, k) ==
  LET f == w.cut[k]
  IN  /\ After(w, k - 1) <= f.first
      /\ f.last <= Len(w.bytes)
      /\ HeaderAt(w.bytes, After(w, k - 1), f.first)
      /\ f.last = f.first + LenAt(w.bytes, f.first) - 1
      /\ LenAt(w.bytes, f.first) <= MAX_PACKET_LEN

\* Where the last packet ends, a header that is too long stands next.
Oversized(w) ==
  \E p \in After(w, Len(w.cut))..Len(w.bytes) :
    /\ HeaderAt(w.bytes, After(w, Len(w.cut)), p)
    /\ LenAt(w.bytes, p) > MAX_PACKET_LEN

IsWire(w) ==
  /\ w \in [bytes : Seq(Byte), cut : Seq([first : Nat \ {0}, last : Nat])]
  /\ \A k \in 1..Len(w.cut) : IsPacketOf(w, k)
  /\ \A p \in After(w, Len(w.cut))..Len(w.bytes) :
       HeaderAt(w.bytes, After(w, Len(w.cut)), p) =>
         \/ LenAt(w.bytes, p) > MAX_PACKET_LEN
         \/ p + LenAt(w.bytes, p) - 1 > Len(w.bytes)

\* The packets of a wire, as byte strings.
Packets(w) ==
  [k \in 1..Len(w.cut) |-> SubSeq(w.bytes, w.cut[k].first, w.cut[k].last)]

\* packet_total_len and parse_header read bytes 1 and 2 of a header, and the
\* footer holds at least the magic byte that parse_footer looks at.
ASSUME FramingAssumption ==
  /\ HEADER_LEN \in Nat /\ HEADER_LEN >= 3
  /\ FOOTER_LEN \in Nat \ {0}
  /\ MAX_PACKET_LEN \in Nat /\ MAX_PACKET_LEN >= HEADER_LEN + FOOTER_LEN
  /\ READ_BUF_LEN \in Nat \ {0}

ASSUME WiresAssumption == \A w \in Wires : IsWire(w)

-----------------------------------------------------------------------------
VARIABLES
  wire,      \* the stream of this connection, fixed when it opens
  received,  \* how many of its bytes socket.read has returned
  pending,   \* the bytes received and not yet consumed
  pc,        \* where handle_connection is, see Locations
  packet,    \* packet_bytes while process_packet runs, else empty
  drained    \* history: every byte string handed to process_packet

vars == <<wire, received, pending, pc, packet, drained>>

\* "read": in socket.read; "frame": in the loop of process_pending_packets;
\* "packet": in process_packet; "closed": returned Ok; "failed": returned Err.
Locations == {"read", "frame", "packet", "closed", "failed"}

TypeOK ==
  /\ IsWire(wire)
  /\ received \in 0..Len(wire.bytes)
  /\ pending \in Seq(Byte)
  /\ pc \in Locations
  /\ packet \in Seq(Byte)
  /\ drained \in Seq(Seq(Byte))

Init ==
  /\ wire \in Wires
  /\ received = 0
  /\ pending = <<>>
  /\ pc = "read"
  /\ packet = <<>>
  /\ drained = <<>>

-----------------------------------------------------------------------------
\* Faulty: the whole read buffer is taken for received, not its first n bytes.
ReadWholeBuffer(n) ==
  /\ pc = "read"
  /\ received + n <= Len(wire.bytes)
  /\ pending' = pending \o SubSeq(wire.bytes, received + 1, received + n)
                        \o [i \in 1..(READ_BUF_LEN - n) |-> 0]
  /\ received' = received + READ_BUF_LEN
  /\ pc' = "frame"
  /\ UNCHANGED <<wire, packet, drained>>

\* socket.read returns the next n bytes, and the loop over pending starts.
Read(n) ==
  /\ pc = "read"
  /\ received + n <= Len(wire.bytes)
  /\ pending' = pending \o SubSeq(wire.bytes, received + 1, received + n)
  /\ received' = received + n
  /\ pc' = "frame"
  /\ UNCHANGED <<wire, packet, drained>>

ReadSome == \E n \in 1..READ_BUF_LEN : Read(n)

\* The logger has sent everything and closed its side: zero bytes read.
ReadEOF ==
  /\ pc = "read"
  /\ received = Len(wire.bytes)
  /\ pc' = "closed"
  /\ UNCHANGED <<wire, received, pending, packet, drained>>

\* The connection is reset while the server waits for bytes.
ReadError ==
  /\ pc = "read"
  /\ pc' = "failed"
  /\ UNCHANGED <<wire, received, pending, packet, drained>>

-----------------------------------------------------------------------------
\* packet_total_len returns None.
HeaderMissing == Len(pending) < HEADER_LEN

HeaderBad == ~HeaderMissing /\ pending[1] # MAGIC

\* packet_total_len returns Some(Ok(TotalLen)).
HeaderGood == ~HeaderMissing /\ pending[1] = MAGIC

\* Faulty: the length is read in the wrong byte order.
TotalLenBigEndian == HEADER_LEN + 256 * pending[2] + pending[3] + FOOTER_LEN

\* Faulty: the footer is forgotten.
TotalLenNoFooter == HEADER_LEN + pending[2] + 256 * pending[3]

TotalLen == HEADER_LEN + pending[2] + 256 * pending[3] + FOOTER_LEN

\* Too few bytes for a header: back to the read loop.
NeedHeader ==
  /\ pc = "frame"
  /\ HeaderMissing
  /\ pc' = "read"
  /\ UNCHANGED <<wire, received, pending, packet, drained>>

\* Faulty: everything is dropped, not one byte.
ResyncClears ==
  /\ pc = "frame"
  /\ HeaderBad
  /\ pending' = <<>>
  /\ UNCHANGED <<wire, received, pc, packet, drained>>

\* pending.remove(0): the first byte cannot start a packet.
Resync ==
  /\ pc = "frame"
  /\ HeaderBad
  /\ pending' = Tail(pending)
  /\ UNCHANGED <<wire, received, pc, packet, drained>>

\* The header announces too much: everything received so far is dropped,
\* whatever follows the header in it.
DiscardOversized ==
  /\ pc = "frame"
  /\ HeaderGood
  /\ TotalLen > MAX_PACKET_LEN
  /\ pending' = <<>>
  /\ pc' = "read"
  /\ UNCHANGED <<wire, received, packet, drained>>

\* Faulty: it waits for a payload of any length.
NeedPayloadUnbounded ==
  /\ pc = "frame"
  /\ HeaderGood
  /\ Len(pending) < TotalLen
  /\ pc' = "read"
  /\ UNCHANGED <<wire, received, pending, packet, drained>>

\* The packet is not complete yet: back to the read loop.
NeedPayload ==
  /\ pc = "frame"
  /\ HeaderGood
  /\ TotalLen <= MAX_PACKET_LEN
  /\ Len(pending) < TotalLen
  /\ pc' = "read"
  /\ UNCHANGED <<wire, received, pending, packet, drained>>

\* Faulty: the wrong end of the buffer is kept.
DrainKeepsFront ==
  /\ pc = "frame"
  /\ HeaderGood
  /\ TotalLen <= MAX_PACKET_LEN
  /\ Len(pending) >= TotalLen
  /\ packet' = SubSeq(pending, 1, TotalLen)
  /\ pending' = SubSeq(pending, 1, Len(pending) - TotalLen)
  /\ drained' = Append(drained, packet')
  /\ pc' = "packet"
  /\ UNCHANGED <<wire, received>>

\* pending.drain(..total_len), and process_packet is called with the bytes.
Drain ==
  /\ pc = "frame"
  /\ HeaderGood
  /\ TotalLen <= MAX_PACKET_LEN
  /\ Len(pending) >= TotalLen
  /\ packet' = SubSeq(pending, 1, TotalLen)
  /\ pending' = SubSeq(pending, TotalLen + 1, Len(pending))
  /\ drained' = Append(drained, packet')
  /\ pc' = "packet"
  /\ UNCHANGED <<wire, received>>

-----------------------------------------------------------------------------
\* parse_header: the magic byte and the length the header announces.
HeaderParses(p) ==
  /\ p[1] = MAGIC
  /\ HEADER_LEN + p[2] + 256 * p[3] + FOOTER_LEN = Len(p)

FooterParses(p) == p[Len(p)] = FOOTER_MAGIC

ParsePacket(p) ==
  /\ Len(p) >= HEADER_LEN + FOOTER_LEN
  /\ HeaderParses(p)
  /\ FooterParses(p)

\* Faulty: one packet per read, an if where the code has a while.
PacketDoneOnce ==
  /\ pc = "packet"
  /\ pc' = "read"
  /\ packet' = <<>>
  /\ UNCHANGED <<wire, received, pending, drained>>

\* process_packet returns Ok: the packet did not parse and was dropped, or
\* it was handled (and answered, or not: see Session).
PacketDone ==
  /\ pc = "packet"
  /\ pc' = "frame"
  /\ packet' = <<>>
  /\ UNCHANGED <<wire, received, pending, drained>>

\* The response of a packet that parsed cannot be written.
WriteError ==
  /\ pc = "packet"
  /\ ParsePacket(packet)
  /\ pc' = "failed"
  /\ packet' = <<>>
  /\ UNCHANGED <<wire, received, pending, drained>>

-----------------------------------------------------------------------------
FrameStep == NeedHeader \/ Resync \/ DiscardOversized \/ NeedPayload \/ Drain

Next ==
  \/ ReadSome
  \/ ReadEOF
  \/ ReadError
  \/ FrameStep
  \/ PacketDone
  \/ WriteError

Spec == Init /\ [][Next]_vars

(***************************************************************************)
(* The task of the connection keeps running, process_packet returns, and   *)
(* TCP delivers the bytes that were sent unless the connection breaks.     *)
(* Nothing makes the logger close the connection.                          *)
(***************************************************************************)
FairSpec ==
  /\ Spec
  /\ WF_vars(ReadSome)
  /\ WF_vars(FrameStep)
  /\ WF_vars(PacketDone)

-----------------------------------------------------------------------------
\* How many bytes of the wire have left pending again.
Consumed == received - Len(pending)

\* The buffer is always the window of the stream between what was consumed
\* and what was received: no byte is lost, repeated or reordered by the
\* drain, the remove and the extend of pending (server.rs:87, 117, 138, 143).
PendingIsWindow ==
  /\ Consumed >= 0
  /\ pending = SubSeq(wire.bytes, Consumed + 1, received)

\* The oversize check is what bounds the buffer (server.rs:135-139): less
\* than one packet waits while the task reads, and at most one more read.
PendingBounded ==
  /\ Len(pending) < MAX_PACKET_LEN + READ_BUF_LEN
  /\ pc = "read" => Len(pending) < MAX_PACKET_LEN

\* The server never goes back to wait for bytes while it holds a complete
\* packet, which a logger that waits for the answer would never complete
\* (server.rs:108-127: the loop runs until nothing complete is left).
NothingWaiting ==
  pc \in {"read", "closed"} =>
    \/ HeaderMissing
    \/ HeaderGood /\ TotalLen <= MAX_PACKET_LEN /\ Len(pending) < TotalLen

\* Two definitions of the length of a packet agree: what packet_total_len
\* cut is never refused by parse_header, so that parse_packet drops a packet
\* for its footer only (protocol.rs:139-150 against 152-158 and 260-270).
OnlyFooterRejects ==
  pc = "packet" => (ParsePacket(packet) <=> FooterParses(packet))

\* However the stream was segmented, the byte strings handed to
\* process_packet are the packets of the reference cut, in order, up to a
\* header that is too long; without one there is never anything else.
CutRespected ==
  /\ \A k \in 1..Len(drained) :
       k <= Len(wire.cut) => drained[k] = Packets(wire)[k]
  /\ ~Oversized(wire) => Len(drained) <= Len(wire.cut)

\* After an orderly close every packet of the reference cut was handed over.
NothingLost ==
  pc = "closed" => Len(drained) >= Len(wire.cut)

-----------------------------------------------------------------------------
(***************************************************************************)
(* The inductive invariant behind the properties above: while no header    *)
(* that is too long was met, what was consumed ends exactly at the last    *)
(* drained packet or in the noise that follows it.                         *)
(***************************************************************************)
OnCut ==
  LET k == Len(drained)
  IN  /\ k <= Len(wire.cut)
      /\ After(wire, k) <= Consumed + 1
      /\ k < Len(wire.cut) => Consumed < wire.cut[k + 1].first
      /\ NoMagic(wire.bytes, After(wire, k), Consumed)

PastCut == Oversized(wire) /\ Len(drained) >= Len(wire.cut)

DrainedIsCut ==
  \A k \in 1..Len(drained) :
    k <= Len(wire.cut) => drained[k] = Packets(wire)[k]

PacketIsWhole ==
  pc = "packet" =>
    Len(packet) >= HEADER_LEN + FOOTER_LEN /\ HeaderParses(packet)

FramingInv ==
  /\ TypeOK
  /\ PendingIsWindow
  /\ PendingBounded
  /\ NothingWaiting
  /\ pc = "closed" => received = Len(wire.bytes)
  /\ PacketIsWhole
  /\ DrainedIsCut
  /\ OnCut \/ PastCut

-----------------------------------------------------------------------------
\* The connection as the abstract channel (for wires with no header that is
\* too long): the packets of the wire are sent, the drained ones delivered.
Channel == INSTANCE PacketChannel WITH
  sent      <- Packets(wire),
  delivered <- drained,
  status    <- CASE pc = "closed" -> "done"
                 [] pc = "failed" -> "broken"
                 [] OTHER         -> "open"

\* The connection implements the channel: in order, once each, everything
\* before an orderly close, and every packet sent is eventually handed over
\* unless the connection breaks.
ImplementsChannel == Channel!Spec
=============================================================================
