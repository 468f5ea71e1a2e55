------------------------------ MODULE MCFraming ------------------------------
(***************************************************************************)
(* Wires for TLC to run Framing on: every short string over a few bytes,   *)
(* and longer streams put together from whole packets and noise.  The cut  *)
(* of a stream is computed here by a reference parser that sees all of it  *)
(* at once; WiresAssumption checks it against the definition of a wire.    *)
(***************************************************************************)
EXTENDS Framing, SequencesExt

CONSTANTS
  SoupBytes,   \* the bytes of the short strings
  SoupLen,     \* their largest length
  MaxPieces    \* how many pieces a composed stream has at most

\* The packets of s from position i on.
CutOf(s) ==
  LET from[i \in 1..(Len(s) + 1)] ==
        IF i + HEADER_LEN - 1 > Len(s) THEN <<>>
        ELSE IF s[i] # MAGIC THEN from[i + 1]
        ELSE LET last == i + LenAt(s, i) - 1
             IN  IF LenAt(s, i) > MAX_PACKET_LEN \/ last > Len(s) THEN <<>>
                 ELSE <<[first |-> i, last |-> last]>> \o from[last + 1]
  IN  from[1]

WireOf(s) == [bytes |-> s, cut |-> CutOf(s)]

SoupWires == {WireOf(s) : s \in BoundedSeq(SoupBytes, SoupLen)}

\* A packet with n payload bytes c, and a last footer byte f.
PacketOf(n, c, f) ==
  <<MAGIC, n, 0>> \o [i \in 1..(HEADER_LEN - 3) |-> c]
    \o [i \in 1..n |-> c] \o [i \in 1..(FOOTER_LEN - 1) |-> 0] \o <<f>>

\* The longest payload of a packet that is not too long.
MaxPayload == MAX_PACKET_LEN - HEADER_LEN - FOOTER_LEN

\* Packets of every legal length, one full of magic bytes (each would start
\* a packet if the server looked inside), one with a bad footer, and noise.
Pieces ==
  {PacketOf(n, 7, FOOTER_MAGIC) : n \in 0..MaxPayload}
    \cup {PacketOf(MaxPayload, MAGIC, FOOTER_MAGIC), PacketOf(1, 7, 9)}
    \cup {<<3>>, <<0, 255>>}

\* Streams of a few pieces, the last of which may be cut off by the end of
\* the stream.
PieceWires ==
  {WireOf(FlattenSeq(ps)) : ps \in BoundedSeq(Pieces, MaxPieces)}
    \cup {WireOf(FlattenSeq(Append(ps, SubSeq(q, 1, n)))) :
            ps \in BoundedSeq(Pieces, MaxPieces - 1),
            q \in {PacketOf(MaxPayload, MAGIC, FOOTER_MAGIC)},
            n \in 1..(MAX_PACKET_LEN - 1)}
=============================================================================
