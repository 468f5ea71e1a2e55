---------------------------- MODULE FramingProofs ----------------------------
(***************************************************************************)
(* Proofs about Framing, for every header, footer, buffer and packet size  *)
(* that FramingAssumption allows and every set of wires.                   *)
(***************************************************************************)
EXTENDS Framing, SequenceTheorems, TLAPS

-----------------------------------------------------------------------------
(***************************************************************************)
(* Windows of a sequence: the elements after position a up to position b.  *)
(***************************************************************************)

\* A window has the length and the elements one expects.
LEMMA WindowProperties ==
  ASSUME NEW S, NEW s \in Seq(S), NEW a \in Nat, NEW b \in Nat,
         a <= b, b <= Len(s)
  PROVE  /\ SubSeq(s, a + 1, b) \in Seq(S)
         /\ Len(SubSeq(s, a + 1, b)) = b - a
         /\ \A i \in 1..(b - a) : SubSeq(s, a + 1, b)[i] = s[a + i]
<1>1. \A i \in (a + 1)..b : s[i] \in S
  BY ElementOfSeq, LenProperties
<1>2. QED
  BY <1>1, SubSeqProperties, LenProperties

\* What extend_from_slice does to a window: it grows at its end.
LEMMA WindowExtend ==
  ASSUME NEW S, NEW s \in Seq(S), NEW a \in Nat, NEW b \in Nat, NEW c \in Nat,
         a <= b, b <= c, c <= Len(s)
  PROVE  SubSeq(s, a + 1, b) \o SubSeq(s, b + 1, c) = SubSeq(s, a + 1, c)
<1>1. /\ a + 1 \in 1..(Len(s) + 1)
      /\ b \in (a + 1 - 1)..Len(s)
      /\ c \in b..Len(s)
  BY LenProperties
<1>2. QED
  BY <1>1, ConcatAdjacentSubSeq

\* What drain(..n) does to a window: it is split in two.
LEMMA WindowSplit ==
  ASSUME NEW S, NEW s \in Seq(S), NEW a \in Nat, NEW b \in Nat, NEW n \in Nat,
         a + n <= b, b <= Len(s)
  PROVE  /\ SubSeq(SubSeq(s, a + 1, b), 1, n) = SubSeq(s, a + 1, a + n)
         /\ SubSeq(SubSeq(s, a + 1, b), n + 1, b - a) = SubSeq(s, a + n + 1, b)
<1> DEFINE w == SubSeq(s, a + 1, b)
<1>1. /\ w \in Seq(S)
      /\ Len(w) = b - a
      /\ \A i \in 1..(b - a) : w[i] = s[a + i]
  BY WindowProperties
<1> HIDE DEF w
<1>2. SubSeq(w, 1, n) = SubSeq(s, a + 1, a + n)
  <2>1. /\ SubSeq(w, 0 + 1, n) \in Seq(S)
        /\ Len(SubSeq(w, 0 + 1, n)) = n
        /\ \A i \in 1..n : SubSeq(w, 0 + 1, n)[i] = w[i]
    BY <1>1, WindowProperties
  <2>2. /\ SubSeq(s, a + 1, a + n) \in Seq(S)
        /\ Len(SubSeq(s, a + 1, a + n)) = n
        /\ \A i \in 1..n : SubSeq(s, a + 1, a + n)[i] = s[a + i]
    <3>1. a + n \in Nat /\ a + n <= Len(s) /\ (a + n) - a = n
      BY LenProperties
    <3>2. QED BY <3>1, WindowProperties
  <2>3. \A i \in 1..n : w[i] = s[a + i]
    BY <1>1
  <2>4. QED BY <2>1, <2>2, <2>3, SeqEqual
<1>3. SubSeq(w, n + 1, b - a) = SubSeq(s, a + n + 1, b)
  <2>1. /\ SubSeq(w, n + 1, b - a) \in Seq(S)
        /\ Len(SubSeq(w, n + 1, b - a)) = (b - a) - n
        /\ \A i \in 1..((b - a) - n) : SubSeq(w, n + 1, b - a)[i] = w[n + i]
    <3> DEFINE m == b - a
    <3>1. m \in Nat /\ n <= m /\ m <= Len(w)
      BY <1>1
    <3> HIDE DEF m
    <3>2. /\ SubSeq(w, n + 1, m) \in Seq(S)
          /\ Len(SubSeq(w, n + 1, m)) = m - n
          /\ \A i \in 1..(m - n) : SubSeq(w, n + 1, m)[i] = w[n + i]
      BY <1>1, <3>1, WindowProperties
    <3>3. QED BY <3>2 DEF m
  <2>2. /\ SubSeq(s, (a + n) + 1, b) \in Seq(S)
        /\ Len(SubSeq(s, (a + n) + 1, b)) = b - (a + n)
        /\ \A i \in 1..(b - (a + n)) : SubSeq(s, (a + n) + 1, b)[i] = s[(a + n) + i]
    BY WindowProperties
  <2>3. \A i \in 1..((b - a) - n) : w[n + i] = s[(a + n) + i]
    BY <1>1
  <2>4. (b - a) - n = b - (a + n)
    OBVIOUS
  <2>5. QED BY <2>1, <2>2, <2>3, <2>4, SeqEqual, ZenonT(40)
<1>4. QED
  BY <1>2, <1>3 DEF w

\* What remove(0) does to a window: it shrinks at its front.
LEMMA WindowTail ==
  ASSUME NEW S, NEW s \in Seq(S), NEW a \in Nat, NEW b \in Nat,
         a < b, b <= Len(s)
  PROVE  Tail(SubSeq(s, a + 1, b)) = SubSeq(s, (a + 1) + 1, b)
<1>1. a + 1 \in 1..Len(s) /\ b \in (a + 1)..Len(s)
  BY LenProperties
<1>2. QED
  BY <1>1, HeadTailOfSubSeq

-----------------------------------------------------------------------------
(***************************************************************************)
(* What the state tells about the wire.                                    *)
(***************************************************************************)

\* The arithmetic of the constants and of the state, in one place.
LEMMA Numbers ==
  ASSUME TypeOK, PendingIsWindow
  PROVE  /\ wire.bytes \in Seq(Byte) /\ Len(wire.bytes) \in Nat
         /\ Len(wire.cut) \in Nat
         /\ received \in Nat /\ received <= Len(wire.bytes)
         /\ Len(pending) \in Nat /\ Len(drained) \in Nat
         /\ Consumed \in Nat /\ Consumed <= received
         /\ Len(pending) = received - Consumed
         /\ \A i \in 1..Len(pending) : /\ pending[i] \in Byte
                                       /\ pending[i] = wire.bytes[Consumed + i]
<1>1. /\ wire.bytes \in Seq(Byte)
      /\ wire.cut \in Seq([first : Nat \ {0}, last : Nat])
  BY DEF TypeOK, IsWire
<1>2. /\ Len(wire.bytes) \in Nat /\ Len(wire.cut) \in Nat
      /\ Len(pending) \in Nat /\ Len(drained) \in Nat
  BY <1>1, LenProperties DEF TypeOK
<1>3. received \in Nat /\ received <= Len(wire.bytes)
  BY <1>2 DEF TypeOK
<1>4. /\ Consumed \in Nat /\ Consumed <= received
      /\ Len(pending) = received - Consumed
  BY <1>2, <1>3 DEF PendingIsWindow, Consumed
<1>5. \A i \in 1..(received - Consumed) :
        SubSeq(wire.bytes, Consumed + 1, received)[i] = wire.bytes[Consumed + i]
  BY <1>1, <1>3, <1>4, WindowProperties
<1>6. pending = SubSeq(wire.bytes, Consumed + 1, received)
  BY DEF PendingIsWindow
<1>7. \A i \in 1..Len(pending) : pending[i] = wire.bytes[Consumed + i]
  BY <1>4, <1>5, <1>6
<1>8. \A i \in 1..Len(pending) : pending[i] \in Byte
  BY ElementOfSeq DEF TypeOK
<1>9. QED
  BY <1>1, <1>2, <1>3, <1>4, <1>7, <1>8

\* A complete header in pending is a header of the wire, of the same length.
LEMMA HeaderOfWire ==
  ASSUME TypeOK, PendingIsWindow, HeaderGood
  PROVE  /\ Len(pending) >= HEADER_LEN
         /\ wire.bytes[Consumed + 1] = MAGIC
         /\ TotalLen = LenAt(wire.bytes, Consumed + 1)
         /\ TotalLen \in Nat /\ TotalLen >= HEADER_LEN + FOOTER_LEN
<1>1. Len(pending) \in Nat /\ Len(pending) >= HEADER_LEN
  BY Numbers, FramingAssumption DEF HeaderGood, HeaderMissing
<1>2. 1 \in 1..Len(pending) /\ 2 \in 1..Len(pending) /\ 3 \in 1..Len(pending)
  BY <1>1, FramingAssumption
<1>3. /\ pending[1] = wire.bytes[Consumed + 1]
      /\ pending[2] = wire.bytes[Consumed + 2]
      /\ pending[3] = wire.bytes[Consumed + 3]
      /\ pending[2] \in Byte /\ pending[3] \in Byte
  BY <1>2, Numbers
<1>4. Consumed + 1 + 1 = Consumed + 2 /\ Consumed + 1 + 2 = Consumed + 3
  BY Numbers
<1>5. TotalLen = LenAt(wire.bytes, Consumed + 1)
  BY <1>3, <1>4 DEF TotalLen, LenAt
<1>6. TotalLen \in Nat /\ TotalLen >= HEADER_LEN + FOOTER_LEN
  <2>1. pending[2] \in Nat /\ pending[3] \in Nat
    BY <1>3, SMTT(30) DEF Byte
  <2>2. 256 * pending[3] \in Nat
    BY <2>1
  <2>3. QED BY <2>1, <2>2, FramingAssumption DEF TotalLen
<1>7. QED
  BY <1>1, <1>3, <1>5, <1>6 DEF HeaderGood

\* A packet of the cut, with its arithmetic.
LEMMA PacketOfCut ==
  ASSUME TypeOK, NEW k \in 1..Len(wire.cut)
  PROVE  /\ wire.cut[k].first \in Nat \ {0} /\ wire.cut[k].last \in Nat
         /\ IsPacketOf(wire, k)
<1>1. wire.cut \in Seq([first : Nat \ {0}, last : Nat])
  BY DEF TypeOK, IsWire
<1>2. wire.cut[k] \in [first : Nat \ {0}, last : Nat]
  BY <1>1, ElementOfSeq
<1>3. QED
  BY <1>2 DEF TypeOK, IsWire

\* On the cut, a header in pending is the next packet of the cut or, when
\* there is none, the header in which the rest of the wire ends.
LEMMA HeaderOnCut ==
  ASSUME TypeOK, PendingIsWindow, OnCut, HeaderGood
  PROVE  /\ After(wire, Len(drained)) \in Nat
         /\ HeaderAt(wire.bytes, After(wire, Len(drained)), Consumed + 1)
         /\ Len(drained) < Len(wire.cut) =>
              Consumed + 1 = wire.cut[Len(drained) + 1].first
<1> DEFINE k == Len(drained)
<1>1. /\ k \in Nat /\ k <= Len(wire.cut)
      /\ After(wire, k) <= Consumed + 1
      /\ k < Len(wire.cut) => Consumed < wire.cut[k + 1].first
      /\ NoMagic(wire.bytes, After(wire, k), Consumed)
  BY Numbers DEF OnCut
<1>2. Len(pending) >= HEADER_LEN /\ wire.bytes[Consumed + 1] = MAGIC
  BY HeaderOfWire
<1>3. After(wire, k) \in Nat
  <2>1. CASE k = 0
    BY <2>1 DEF After
  <2>2. CASE k # 0
    <3>1. k \in 1..Len(wire.cut)
      BY <1>1, <2>2, Numbers
    <3>2. QED BY <3>1, <2>2, PacketOfCut DEF After
  <2>3. QED BY <2>1, <2>2
<1>4. HeaderAt(wire.bytes, After(wire, k), Consumed + 1)
  <2>1. Consumed + 1 + HEADER_LEN - 1 <= Len(wire.bytes)
    BY <1>2, Numbers, FramingAssumption
  <2>2. NoMagic(wire.bytes, After(wire, k), Consumed + 1 - 1)
    BY <1>1, Numbers DEF NoMagic
  <2>3. QED BY <1>2, <2>1, <2>2, Numbers DEF HeaderAt, NoMagic, MAGIC
<1>5. ASSUME k < Len(wire.cut)
      PROVE  Consumed + 1 = wire.cut[k + 1].first
  <2>1. k + 1 \in 1..Len(wire.cut) /\ k + 1 - 1 = k
    BY <1>1, <1>5, Numbers
  <2>2. /\ wire.cut[k + 1].first \in Nat
        /\ NoMagic(wire.bytes, After(wire, k), wire.cut[k + 1].first - 1)
    BY <2>1, PacketOfCut DEF IsPacketOf, HeaderAt
  <2>3. Consumed + 1 \notin After(wire, k)..(wire.cut[k + 1].first - 1)
    BY <1>2, <2>2 DEF NoMagic
  <2>4. QED
    BY <1>1, <1>3, <1>5, <2>2, <2>3, Numbers, SMTT(30)
<1>6. QED
  BY <1>3, <1>4, <1>5

-----------------------------------------------------------------------------
(***************************************************************************)
(* Type correctness and the window.                                        *)
(***************************************************************************)

\* Every step keeps the types.
LEMMA TypeStep ==
  ASSUME TypeOK, [Next]_vars
  PROVE  TypeOK'
<1>0. Len(wire.bytes) \in Nat /\ wire.bytes \in Seq(Byte) /\ Len(pending) \in Nat
  BY LenProperties DEF TypeOK, IsWire
<1>1. ASSUME NEW n \in 1..READ_BUF_LEN, Read(n)
      PROVE  TypeOK'
  <2>1. n \in Nat \ {0} /\ received \in Nat /\ received + n <= Len(wire.bytes)
    BY <1>0, <1>1, FramingAssumption DEF Read, TypeOK
  <2>2. SubSeq(wire.bytes, received + 1, received + n) \in Seq(Byte)
    BY <1>0, <2>1, WindowProperties
  <2>3. pending' \in Seq(Byte)
    BY <1>1, <2>2, ConcatProperties DEF Read, TypeOK
  <2>4. QED BY <1>0, <1>1, <2>1, <2>3 DEF Read, TypeOK, Locations
<1>2. CASE ReadEOF \/ ReadError
  BY <1>2 DEF ReadEOF, ReadError, TypeOK, Locations
<1>3. CASE NeedHeader \/ NeedPayload
  BY <1>3 DEF NeedHeader, NeedPayload, TypeOK, Locations
<1>4. CASE Resync
  <2>1. pending # <<>>
    BY <1>0, <1>4, EmptySeq, FramingAssumption DEF TypeOK, Resync, HeaderBad, HeaderMissing
  <2>2. pending' \in Seq(Byte)
    BY <1>4, <2>1, HeadTailProperties DEF TypeOK, Resync
  <2>3. QED BY <1>4, <2>2 DEF Resync, TypeOK, Locations
<1>5. CASE DiscardOversized
  <2>1. pending' \in Seq(Byte)
    BY <1>5, EmptySeq DEF DiscardOversized
  <2>2. QED BY <1>5, <2>1 DEF DiscardOversized, TypeOK, Locations
<1>6. CASE Drain
  <2>1. Len(pending) >= 3
    BY <1>0, <1>6, FramingAssumption DEF Drain, HeaderGood, HeaderMissing
  <2>2. pending[2] \in Nat /\ pending[3] \in Nat
    <3>1. 2 \in 1..Len(pending) /\ 3 \in 1..Len(pending)
      BY <1>0, <2>1
    <3>2. pending[2] \in Byte /\ pending[3] \in Byte
      BY <3>1, ElementOfSeq DEF TypeOK
    <3>3. QED BY <3>2 DEF Byte
  <2>3. TotalLen \in Nat /\ TotalLen <= Len(pending)
    <3>1. 256 * pending[3] \in Nat
      BY <2>2
    <3>2. TotalLen \in Nat
      BY <2>2, <3>1, FramingAssumption DEF TotalLen
    <3>3. QED BY <1>0, <1>6, <3>2 DEF Drain
  <2>4. /\ SubSeq(pending, 0 + 1, TotalLen) \in Seq(Byte)
        /\ SubSeq(pending, TotalLen + 1, Len(pending)) \in Seq(Byte)
    BY <1>0, <2>3, WindowProperties DEF TypeOK
  <2>5. packet' \in Seq(Byte) /\ pending' \in Seq(Byte)
    BY <1>6, <2>4 DEF Drain
  <2>6. drained' \in Seq(Seq(Byte))
    BY <1>6, <2>5, AppendProperties DEF TypeOK, Drain
  <2>7. QED BY <1>6, <2>5, <2>6 DEF Drain, TypeOK, Locations
<1>7. CASE PacketDone \/ WriteError
  BY <1>7, EmptySeq DEF PacketDone, WriteError, TypeOK, Locations
<1>8. CASE UNCHANGED vars
  BY <1>8 DEF TypeOK, vars
<1>9. QED
  BY <1>1, <1>2, <1>3, <1>4, <1>5, <1>6, <1>7, <1>8 DEF Next, ReadSome, FrameStep

\* The first state has the types.
LEMMA TypeInit == Init => TypeOK
<1> SUFFICES ASSUME Init PROVE TypeOK
  OBVIOUS
<1>1. IsWire(wire)
  BY WiresAssumption DEF Init
<1>2. Len(wire.bytes) \in Nat
  BY <1>1, LenProperties DEF IsWire
<1>3. <<>> \in Seq(Byte) /\ <<>> \in Seq(Seq(Byte))
  BY EmptySeq
<1>4. QED BY <1>1, <1>2, <1>3 DEF Init, TypeOK, Locations

\* Type correctness of the framing of a connection.
THEOREM TypeCorrect == Spec => []TypeOK
BY TypeInit, TypeStep, PTL DEF Spec

\* Every step keeps pending a window of the wire.
LEMMA WindowStep ==
  ASSUME TypeOK, PendingIsWindow, [Next]_vars
  PROVE  PendingIsWindow'
<1>0. /\ wire.bytes \in Seq(Byte) /\ Len(wire.bytes) \in Nat
      /\ received \in Nat /\ received <= Len(wire.bytes)
      /\ Len(pending) \in Nat
      /\ Consumed \in Nat /\ Consumed <= received
      /\ Len(pending) = received - Consumed
      /\ pending = SubSeq(wire.bytes, Consumed + 1, received)
  BY Numbers DEF PendingIsWindow
<1>t. TypeOK'
  BY TypeStep
<1>1. ASSUME NEW n \in 1..READ_BUF_LEN, Read(n)
      PROVE  PendingIsWindow'
  <2>1. n \in Nat /\ received + n <= Len(wire.bytes)
    BY <1>1, FramingAssumption DEF Read
  <2>2. pending' = SubSeq(wire.bytes, Consumed + 1, received + n)
    BY <1>0, <1>1, <2>1, WindowExtend, SMTT(30) DEF Read
  <2>3. Len(pending') = (received + n) - Consumed
    BY <1>0, <2>1, <2>2, WindowProperties
  <2>4. Consumed' = Consumed
    BY <1>0, <1>1, <2>1, <2>3 DEF Consumed, Read
  <2>5. QED BY <1>0, <1>1, <2>2, <2>4 DEF PendingIsWindow, Read
<1>2. CASE Resync
  <2>1. Len(pending) >= 1
    BY <1>0, <1>2, FramingAssumption DEF Resync, HeaderBad, HeaderMissing
  <2>2. pending' = SubSeq(wire.bytes, (Consumed + 1) + 1, received)
    BY <1>0, <1>2, <2>1, WindowTail DEF Resync
  <2>3. Len(pending') = received - (Consumed + 1)
    BY <1>0, <2>1, <2>2, WindowProperties
  <2>4. Consumed' = Consumed + 1
    <3>1. Len(pending') = Len(pending) - 1
      BY <1>0, <2>3
    <3>2. Consumed' = received' - Len(pending') /\ received' = received
      BY <1>2 DEF Consumed, Resync
    <3>3. QED BY <1>0, <3>1, <3>2
  <2>5. QED BY <1>0, <1>2, <2>2, <2>4 DEF PendingIsWindow, Resync
<1>3. CASE DiscardOversized
  <2>1. Len(pending') = 0
    BY <1>3, EmptySeq DEF DiscardOversized
  <2>2. Consumed' = received
    BY <1>0, <1>3, <2>1 DEF Consumed, DiscardOversized
  <2>3. SubSeq(wire.bytes, received + 1, received) = <<>>
    BY <1>0, SubSeqEmpty
  <2>4. QED BY <1>0, <1>3, <2>2, <2>3 DEF PendingIsWindow, DiscardOversized
<1>4. CASE Drain
  <2>1. TotalLen \in Nat /\ TotalLen <= Len(pending)
    BY <1>0, <1>4, HeaderOfWire DEF Drain
  <2>2. pending' = SubSeq(wire.bytes, (Consumed + TotalLen) + 1, received)
    BY <1>0, <1>4, <2>1, WindowSplit DEF Drain
  <2>3. Len(pending') = received - (Consumed + TotalLen)
    BY <1>0, <2>1, <2>2, WindowProperties
  <2>4. Consumed' = Consumed + TotalLen
    <3>1. Len(pending') = Len(pending) - TotalLen
      BY <1>0, <2>1, <2>3
    <3>2. Consumed' = received' - Len(pending') /\ received' = received
      BY <1>4 DEF Consumed, Drain
    <3>3. QED BY <1>0, <2>1, <3>1, <3>2
  <2>5. QED BY <1>0, <1>4, <2>1, <2>2, <2>4 DEF PendingIsWindow, Drain
<1>5. CASE UNCHANGED <<wire, received, pending>>
  BY <1>5 DEF PendingIsWindow, Consumed
<1>6. QED
  BY <1>1, <1>2, <1>3, <1>4, <1>5
  DEF Next, vars, ReadSome, ReadEOF, ReadError, FrameStep, NeedHeader,
      NeedPayload, PacketDone, WriteError

\* The buffer starts as the empty window.
LEMMA WindowInit == Init => PendingIsWindow
<1> SUFFICES ASSUME Init PROVE PendingIsWindow
  OBVIOUS
<1>1. Len(pending) = 0 /\ received = 0
  BY EmptySeq DEF Init
<1>2. SubSeq(wire.bytes, 1, 0) = <<>>
  BY SubSeqEmpty
<1>3. QED BY <1>1, <1>2 DEF Init, PendingIsWindow, Consumed

\* No byte is lost, repeated or reordered in the buffer.
THEOREM Window == Spec => []PendingIsWindow
BY TypeInit, TypeStep, WindowInit, WindowStep, PTL DEF Spec

-----------------------------------------------------------------------------
(***************************************************************************)
(* The buffer: bounded, and never holding a complete packet while the task *)
(* waits for bytes.  What is drained always passes parse_header.           *)
(***************************************************************************)

\* What a read appends.
LEMMA ReadLength ==
  ASSUME TypeOK, PendingIsWindow, NEW n \in 1..READ_BUF_LEN, Read(n)
  PROVE  Len(pending') = Len(pending) + n
<1> DEFINE m == received + n
<1>0. n \in Nat /\ received + n <= Len(wire.bytes)
  BY FramingAssumption DEF Read
<1>1. /\ m \in Nat /\ received \in Nat /\ received <= m /\ m <= Len(wire.bytes)
      /\ m - received = n /\ wire.bytes \in Seq(Byte)
  BY <1>0, Numbers
<1> HIDE DEF m
<1>2. /\ SubSeq(wire.bytes, received + 1, m) \in Seq(Byte)
      /\ Len(SubSeq(wire.bytes, received + 1, m)) = m - received
  BY <1>1, WindowProperties
<1>3. pending' = pending \o SubSeq(wire.bytes, received + 1, m)
  BY DEF Read, m
<1> QED
  BY <1>1, <1>2, <1>3, ConcatProperties DEF TypeOK

\* What remove(0) leaves.
LEMMA ResyncLength ==
  ASSUME TypeOK, PendingIsWindow, Resync
  PROVE  Len(pending') = Len(pending) - 1
<1>1. pending # <<>>
  BY Numbers, EmptySeq, FramingAssumption DEF Resync, HeaderBad, HeaderMissing
<1> QED
  BY <1>1, HeadTailProperties DEF Resync, TypeOK

\* What drain(..total_len) takes and leaves.
LEMMA DrainLength ==
  ASSUME TypeOK, PendingIsWindow, Drain
  PROVE  /\ TotalLen \in Nat /\ TotalLen <= Len(pending)
         /\ TotalLen >= HEADER_LEN + FOOTER_LEN
         /\ Len(packet') = TotalLen
         /\ \A i \in 1..TotalLen : packet'[i] = pending[i]
         /\ Len(pending') = Len(pending) - TotalLen
<1>1. /\ TotalLen \in Nat /\ TotalLen <= Len(pending) /\ Len(pending) \in Nat
      /\ TotalLen >= HEADER_LEN + FOOTER_LEN
  BY HeaderOfWire, Numbers DEF Drain
<1>2. /\ Len(SubSeq(pending, 0 + 1, TotalLen)) = TotalLen - 0
      /\ \A i \in 1..(TotalLen - 0) :
           SubSeq(pending, 0 + 1, TotalLen)[i] = pending[0 + i]
      /\ Len(SubSeq(pending, TotalLen + 1, Len(pending))) = Len(pending) - TotalLen
  BY <1>1, WindowProperties DEF TypeOK
<1>3. packet' = SubSeq(pending, 0 + 1, TotalLen)
  BY DEF Drain
<1>4. pending' = SubSeq(pending, TotalLen + 1, Len(pending))
  BY DEF Drain
<1>5. Len(packet') = TotalLen /\ Len(pending') = Len(pending) - TotalLen
  BY <1>1, <1>2, <1>3, <1>4
<1>6. \A i \in 1..TotalLen : packet'[i] = pending[i]
  BY <1>1, <1>2, <1>3
<1> QED
  BY <1>1, <1>5, <1>6

BufferInv ==
  /\ PendingBounded
  /\ NothingWaiting
  /\ pc = "closed" => received = Len(wire.bytes)
  /\ PacketIsWhole

\* The buffer starts empty, with nothing to wait for.
LEMMA BufferInit == Init => BufferInv
<1> SUFFICES ASSUME Init PROVE BufferInv
  OBVIOUS
<1>1. Len(pending) = 0 /\ pc = "read"
  BY EmptySeq DEF Init
<1>2. HeaderMissing
  BY <1>1, FramingAssumption DEF HeaderMissing
<1>3. PendingBounded
  BY <1>1, FramingAssumption DEF PendingBounded
<1>4. NothingWaiting
  BY <1>2 DEF NothingWaiting
<1>5. QED
  BY <1>1, <1>3, <1>4 DEF BufferInv, PacketIsWhole

\* Every step keeps the bound of the buffer and what the task may wait for.
LEMMA BufferStep ==
  ASSUME TypeOK, PendingIsWindow, BufferInv, [Next]_vars
  PROVE  BufferInv'
<1>0. /\ Len(pending) \in Nat
      /\ Len(pending) < MAX_PACKET_LEN + READ_BUF_LEN
      /\ pc = "read" => Len(pending) < MAX_PACKET_LEN
  BY Numbers DEF BufferInv, PendingBounded
<1>1. ASSUME NEW n \in 1..READ_BUF_LEN, Read(n)
      PROVE  BufferInv'
  <2>1. /\ n \in Nat /\ n <= READ_BUF_LEN /\ pc = "read" /\ pc' = "frame"
        /\ received + n <= Len(wire.bytes)
    BY <1>1, FramingAssumption DEF Read
  <2>3. Len(pending') = Len(pending) + n
    BY <1>1, ReadLength
  <2>4. PendingBounded'
    BY <1>0, <2>1, <2>3, FramingAssumption DEF PendingBounded
  <2>5. QED
    BY <2>1, <2>4 DEF BufferInv, NothingWaiting, PacketIsWhole
<1>2. CASE ReadEOF
  <2>1. PendingBounded'
    BY <1>2 DEF ReadEOF, BufferInv, PendingBounded
  <2>2. NothingWaiting'
    BY <1>2 DEF ReadEOF, BufferInv, NothingWaiting, HeaderMissing, HeaderGood,
                TotalLen
  <2>3. QED BY <1>2, <2>1, <2>2 DEF ReadEOF, BufferInv, PacketIsWhole
<1>3. CASE ReadError \/ WriteError
  BY <1>3 DEF ReadError, WriteError, BufferInv, PendingBounded, NothingWaiting,
              PacketIsWhole
<1>4. CASE NeedHeader
  <2>1. PendingBounded'
    BY <1>0, <1>4, FramingAssumption DEF NeedHeader, HeaderMissing, PendingBounded
  <2>2. NothingWaiting'
    BY <1>4 DEF NeedHeader, NothingWaiting, HeaderMissing
  <2>3. QED BY <1>4, <2>1, <2>2 DEF NeedHeader, BufferInv, PacketIsWhole
<1>5. CASE Resync
  <2>1. Len(pending') = Len(pending) - 1 /\ pc' = "frame"
    BY <1>5, ResyncLength DEF Resync
  <2>2. PendingBounded'
    BY <1>0, <2>1, FramingAssumption DEF PendingBounded
  <2>3. QED BY <2>1, <2>2 DEF BufferInv, NothingWaiting, PacketIsWhole
<1>6. CASE DiscardOversized
  <2>1. Len(pending') = 0
    BY <1>6, EmptySeq DEF DiscardOversized
  <2>2. PendingBounded'
    BY <2>1, FramingAssumption DEF PendingBounded
  <2>3. HeaderMissing'
    BY <2>1, FramingAssumption DEF HeaderMissing
  <2>4. QED
    BY <1>6, <2>2, <2>3 DEF DiscardOversized, BufferInv, NothingWaiting,
                            PacketIsWhole
<1>7. CASE NeedPayload
  <2>1. Len(pending) < MAX_PACKET_LEN
    BY <1>0, <1>7, HeaderOfWire, FramingAssumption DEF NeedPayload
  <2>2. PendingBounded'
    BY <1>0, <1>7, <2>1 DEF NeedPayload, PendingBounded
  <2>3. NothingWaiting'
    BY <1>7 DEF NeedPayload, NothingWaiting, HeaderGood, HeaderMissing, TotalLen
  <2>4. QED BY <1>7, <2>2, <2>3 DEF NeedPayload, BufferInv, PacketIsWhole
<1>8. CASE Drain
  <2>1. /\ HeaderGood /\ TotalLen \in Nat /\ TotalLen <= Len(pending)
        /\ TotalLen >= HEADER_LEN + FOOTER_LEN
    BY <1>8, HeaderOfWire DEF Drain
  <2>2. /\ Len(packet') = TotalLen
        /\ \A i \in 1..TotalLen : packet'[i] = pending[i]
        /\ Len(pending') = Len(pending) - TotalLen
    BY <1>8, DrainLength
  <2>3. 1 \in 1..TotalLen /\ 2 \in 1..TotalLen /\ 3 \in 1..TotalLen
    BY <2>1, FramingAssumption
  <2>4. HeaderParses(packet')
    BY <2>1, <2>2, <2>3 DEF HeaderParses, HeaderGood, TotalLen
  <2>5. PacketIsWhole'
    BY <2>1, <2>2, <2>4 DEF PacketIsWhole, HeaderParses
  <2>6. PendingBounded'
    BY <1>0, <1>8, <2>1, <2>2, FramingAssumption DEF Drain, PendingBounded
  <2>7. QED
    BY <1>8, <2>5, <2>6 DEF Drain, BufferInv, NothingWaiting
<1>9. CASE PacketDone
  BY <1>0, <1>9 DEF PacketDone, BufferInv, PendingBounded, NothingWaiting,
                    PacketIsWhole
<1>10. CASE UNCHANGED vars
  BY <1>10 DEF vars, BufferInv, PendingBounded, NothingWaiting, HeaderMissing,
               HeaderGood, TotalLen, PacketIsWhole, HeaderParses
<1>11. QED
  BY <1>1, <1>2, <1>3, <1>4, <1>5, <1>6, <1>7, <1>8, <1>9, <1>10
  DEF Next, ReadSome, FrameStep

-----------------------------------------------------------------------------
(***************************************************************************)
(* The cut: what is drained is the reference cut of the wire.              *)
(***************************************************************************)

CutInv == DrainedIsCut /\ (OnCut \/ PastCut)

\* Before the first packet the connection is on the cut.
LEMMA CutInit == Init => CutInv
<1> SUFFICES ASSUME Init PROVE CutInv
  OBVIOUS
<1>1. Len(drained) = 0 /\ Consumed = 0
  <2>1. Len(drained) = 0 /\ Len(pending) = 0 /\ received = 0
    BY EmptySeq DEF Init
  <2>2. QED BY <2>1 DEF Consumed
<1>2. TypeOK
  BY TypeInit
<1>3. Len(wire.cut) \in Nat
  BY <1>2, LenProperties DEF TypeOK, IsWire
<1>4. After(wire, 0) = 1
  BY DEF After
<1>5. ASSUME 0 < Len(wire.cut)
      PROVE  Consumed < wire.cut[1].first
  BY <1>1, <1>2, <1>3, <1>5, PacketOfCut
<1>6. NoMagic(wire.bytes, 1, 0)
  BY DEF NoMagic
<1>7. OnCut
  BY <1>1, <1>3, <1>4, <1>5, <1>6 DEF OnCut
<1>8. DrainedIsCut
  BY <1>1 DEF DrainedIsCut
<1>9. QED
  BY <1>7, <1>8 DEF CutInv

\* A byte that is not a magic byte is skipped: still on the cut.
LEMMA ResyncOnCut ==
  ASSUME TypeOK, PendingIsWindow, OnCut, Resync
  PROVE  OnCut'
<1> DEFINE k == Len(drained)
<1>0. /\ k \in Nat /\ k <= Len(wire.cut) /\ Len(wire.cut) \in Nat
      /\ After(wire, k) <= Consumed + 1
      /\ k < Len(wire.cut) => Consumed < wire.cut[k + 1].first
      /\ NoMagic(wire.bytes, After(wire, k), Consumed)
      /\ Consumed \in Nat
  BY Numbers DEF OnCut
<1>1. Len(pending) >= 1 /\ pending[1] # MAGIC
  BY Numbers, FramingAssumption DEF Resync, HeaderBad, HeaderMissing
<1>2. wire.bytes[Consumed + 1] # MAGIC
  BY <1>1, Numbers
<1>3. /\ Len(pending') = Len(pending) - 1 /\ received' = received
      /\ wire' = wire /\ drained' = drained
  <2>1. pending # <<>>
    BY <1>1, EmptySeq
  <2>2. QED BY <2>1, HeadTailProperties DEF Resync, TypeOK
<1>4. Consumed' = Consumed + 1
  <2>1. Consumed' = received' - Len(pending')
    BY DEF Consumed
  <2>2. QED BY <1>3, <2>1, Numbers
<1>5. ASSUME k < Len(wire.cut)
      PROVE  Consumed + 1 < wire.cut[k + 1].first
  <2>1. k + 1 \in 1..Len(wire.cut)
    BY <1>0, <1>5
  <2>2. wire.cut[k + 1].first \in Nat /\ wire.bytes[wire.cut[k + 1].first] = MAGIC
    BY <2>1, PacketOfCut DEF IsPacketOf, HeaderAt
  <2>3. QED BY <1>0, <1>2, <1>5, <2>2
<1>6. After(wire, k) \in Nat
  <2>1. CASE k = 0
    BY <2>1 DEF After
  <2>2. CASE k # 0
    BY <1>0, <2>2, PacketOfCut DEF After
  <2>3. QED BY <2>1, <2>2
<1>7. NoMagic(wire.bytes, After(wire, k), Consumed + 1)
  BY <1>0, <1>2, <1>6 DEF NoMagic
<1>8. After(wire, k) <= (Consumed + 1) + 1
  BY <1>0, <1>6
<1>9. QED
  BY <1>0, <1>3, <1>4, <1>5, <1>7, <1>8 DEF OnCut

\* A packet that is drained on the cut is the next packet of the cut.
LEMMA DrainOnCut ==
  ASSUME TypeOK, PendingIsWindow, OnCut, Drain
  PROVE  /\ Len(drained) < Len(wire.cut)
         /\ packet' = Packets(wire)[Len(drained) + 1]
         /\ OnCut'
<1> DEFINE k == Len(drained)
           f == wire.cut[k + 1]
<1>0. /\ k \in Nat /\ k <= Len(wire.cut) /\ Len(wire.cut) \in Nat
      /\ After(wire, k) <= Consumed + 1
      /\ Consumed \in Nat /\ received \in Nat /\ received <= Len(wire.bytes)
      /\ wire.bytes \in Seq(Byte) /\ Len(wire.bytes) \in Nat
      /\ Len(pending) = received - Consumed
  BY Numbers DEF OnCut
<1>1. /\ HeaderGood
      /\ TotalLen \in Nat /\ TotalLen <= MAX_PACKET_LEN
      /\ TotalLen >= HEADER_LEN + FOOTER_LEN
      /\ Consumed + TotalLen <= received
      /\ TotalLen = LenAt(wire.bytes, Consumed + 1)
  BY <1>0, HeaderOfWire DEF Drain
<1>2. /\ After(wire, k) \in Nat
      /\ HeaderAt(wire.bytes, After(wire, k), Consumed + 1)
      /\ k < Len(wire.cut) => Consumed + 1 = f.first
  BY <1>1, HeaderOnCut
<1>3. k < Len(wire.cut)
  <2>1. SUFFICES ASSUME k = Len(wire.cut) PROVE FALSE
    BY <1>0
  <2>2. Consumed + 1 \in After(wire, Len(wire.cut))..Len(wire.bytes)
    BY <1>0, <1>1, <1>2, <2>1, FramingAssumption
  <2>3. \/ LenAt(wire.bytes, Consumed + 1) > MAX_PACKET_LEN
        \/ Consumed + 1 + LenAt(wire.bytes, Consumed + 1) - 1 > Len(wire.bytes)
    BY <1>2, <2>1, <2>2 DEF TypeOK, IsWire
  <2>4. QED BY <1>0, <1>1, <2>3, FramingAssumption
<1>4. /\ k + 1 \in 1..Len(wire.cut)
      /\ f.first \in Nat \ {0} /\ f.last \in Nat
      /\ Consumed + 1 = f.first
      /\ f.last = Consumed + TotalLen
  <2>1. k + 1 \in 1..Len(wire.cut)
    BY <1>0, <1>3
  <2>2. f.last = f.first + LenAt(wire.bytes, f.first) - 1
    BY <2>1, PacketOfCut DEF IsPacketOf
  <2>3. f.first \in Nat \ {0} /\ f.last \in Nat /\ Consumed + 1 = f.first
    BY <1>2, <1>3, <2>1, PacketOfCut
  <2>4. QED BY <1>0, <1>1, <2>1, <2>2, <2>3
<1>5. packet' = SubSeq(wire.bytes, Consumed + 1, Consumed + TotalLen)
  <2>1. pending = SubSeq(wire.bytes, Consumed + 1, received)
    BY DEF PendingIsWindow
  <2>2. packet' = SubSeq(pending, 1, TotalLen)
    BY DEF Drain
  <2>3. SubSeq(SubSeq(wire.bytes, Consumed + 1, received), 1, TotalLen)
          = SubSeq(wire.bytes, Consumed + 1, Consumed + TotalLen)
    BY <1>0, <1>1, WindowSplit, SMTT(30)
  <2>4. QED BY <2>1, <2>2, <2>3
<1>6. packet' = Packets(wire)[k + 1]
  BY <1>4, <1>5 DEF Packets
<1>7. /\ wire' = wire /\ received' = received
      /\ Len(drained') = k + 1
      /\ Len(pending') = Len(pending) - TotalLen
  <2>1. packet' \in Seq(Byte)
    BY TypeStep DEF TypeOK, Next, FrameStep
  <2>2. Len(drained') = k + 1
    BY <2>1, AppendProperties DEF Drain, TypeOK
  <2>3. Len(SubSeq(pending, TotalLen + 1, Len(pending))) = Len(pending) - TotalLen
    BY <1>0, <1>1, WindowProperties, SMTT(30) DEF TypeOK
  <2>4. QED BY <2>2, <2>3 DEF Drain
<1>8. Consumed' = Consumed + TotalLen
  <2>1. Consumed' = received' - Len(pending')
    BY DEF Consumed
  <2>2. QED BY <1>0, <1>1, <1>7, <2>1
<1>9. After(wire, k + 1) = Consumed + TotalLen + 1
  BY <1>0, <1>4 DEF After
<1>10. ASSUME k + 1 < Len(wire.cut)
       PROVE  Consumed + TotalLen < wire.cut[(k + 1) + 1].first
  <2>1. (k + 1) + 1 \in 1..Len(wire.cut) /\ (k + 1) + 1 - 1 = k + 1
    BY <1>0, <1>10
  <2>2. /\ After(wire, k + 1) <= wire.cut[(k + 1) + 1].first
        /\ wire.cut[(k + 1) + 1].first \in Nat
    BY <2>1, PacketOfCut DEF IsPacketOf
  <2>3. QED BY <1>0, <1>1, <1>9, <2>2, SMTT(30)
<1>11. NoMagic(wire.bytes, After(wire, k + 1), Consumed + TotalLen)
  BY <1>0, <1>1, <1>9 DEF NoMagic
<1>12. OnCut'
  BY <1>0, <1>1, <1>4, <1>7, <1>8, <1>9, <1>10, <1>11 DEF OnCut
<1>13. QED
  BY <1>3, <1>6, <1>12

\* Only where the cut ends can a header be too long.
LEMMA DiscardOnCut ==
  ASSUME TypeOK, PendingIsWindow, OnCut, DiscardOversized
  PROVE  PastCut'
<1> DEFINE k == Len(drained)
<1>0. /\ k \in Nat /\ k <= Len(wire.cut) /\ Len(wire.cut) \in Nat
      /\ After(wire, k) <= Consumed + 1
      /\ Consumed \in Nat /\ Consumed < Len(wire.bytes)
      /\ Len(wire.bytes) \in Nat
  <2>1. Len(pending) >= 1
    BY HeaderOfWire, Numbers, FramingAssumption DEF DiscardOversized
  <2>2. QED BY <2>1, Numbers DEF OnCut
<1>1. /\ HeaderGood
      /\ LenAt(wire.bytes, Consumed + 1) > MAX_PACKET_LEN
  BY HeaderOfWire DEF DiscardOversized
<1>2. /\ After(wire, k) \in Nat
      /\ HeaderAt(wire.bytes, After(wire, k), Consumed + 1)
      /\ k < Len(wire.cut) => Consumed + 1 = wire.cut[k + 1].first
  BY <1>1, HeaderOnCut
<1>3. k = Len(wire.cut)
  <2>1. SUFFICES ASSUME k < Len(wire.cut) PROVE FALSE
    BY <1>0
  <2>2. k + 1 \in 1..Len(wire.cut)
    BY <1>0, <2>1
  <2>3. LenAt(wire.bytes, wire.cut[k + 1].first) <= MAX_PACKET_LEN
    BY <2>2, PacketOfCut DEF IsPacketOf
  <2>4. LenAt(wire.bytes, Consumed + 1) <= MAX_PACKET_LEN
    BY <1>2, <2>1, <2>3
  <2>5. LenAt(wire.bytes, Consumed + 1) \in Nat
    BY <1>1, HeaderOfWire
  <2>6. QED BY <1>1, <2>4, <2>5, FramingAssumption
<1>4. Consumed + 1 \in After(wire, Len(wire.cut))..Len(wire.bytes)
  BY <1>0, <1>2, <1>3
<1>5. Oversized(wire)
  BY <1>1, <1>2, <1>3, <1>4 DEF Oversized
<1>6. wire' = wire /\ drained' = drained
  BY DEF DiscardOversized
<1>7. QED
  BY <1>0, <1>3, <1>5, <1>6 DEF PastCut

\* Every step stays on the cut, or leaves it at a header that is too long.
LEMMA CutStep ==
  ASSUME TypeOK, PendingIsWindow, CutInv, [Next]_vars
  PROVE  CutInv'
<1>0. Len(drained) \in Nat /\ Len(wire.cut) \in Nat
  BY Numbers
<1>1. ASSUME NEW n \in 1..READ_BUF_LEN, Read(n)
      PROVE  CutInv'
  <2>1. Consumed' = Consumed
    <3>1. n \in Nat /\ received + n <= Len(wire.bytes)
      BY <1>1, FramingAssumption DEF Read
    <3> DEFINE m == received + n
    <3>2. /\ m \in Nat /\ received \in Nat /\ received <= m /\ m <= Len(wire.bytes)
          /\ m - received = n /\ wire.bytes \in Seq(Byte)
      BY <3>1, Numbers
    <3> HIDE DEF m
    <3>3. /\ SubSeq(wire.bytes, received + 1, m) \in Seq(Byte)
          /\ Len(SubSeq(wire.bytes, received + 1, m)) = n
      BY <3>2, WindowProperties
    <3>4. pending' = pending \o SubSeq(wire.bytes, received + 1, m)
      BY <1>1 DEF Read, m
    <3>5. Len(pending') = Len(pending) + n
      BY <3>3, <3>4, ConcatProperties DEF TypeOK
    <3>6. Consumed' = received' - Len(pending') /\ Consumed = received - Len(pending)
      BY DEF Consumed
    <3>7. received' = received + n
      BY <1>1 DEF Read
    <3>8. QED BY <3>1, <3>5, <3>6, <3>7, Numbers, SMTT(30)
  <2>2. QED
    BY <1>1, <2>1 DEF Read, CutInv, DrainedIsCut, OnCut, PastCut
<1>2. CASE Resync
  <2>1. wire' = wire /\ drained' = drained
    BY <1>2 DEF Resync
  <2>2. OnCut' \/ PastCut'
    BY <1>2, <2>1, ResyncOnCut DEF CutInv, PastCut
  <2>3. QED BY <2>1, <2>2 DEF CutInv, DrainedIsCut
<1>3. CASE DiscardOversized
  <2>1. wire' = wire /\ drained' = drained
    BY <1>3 DEF DiscardOversized
  <2>2. PastCut'
    BY <1>3, <2>1, DiscardOnCut DEF CutInv, PastCut
  <2>3. QED BY <2>1, <2>2 DEF CutInv, DrainedIsCut
<1>4. CASE Drain
  <2>1. packet' \in Seq(Byte)
    BY TypeStep DEF TypeOK
  <2>2. /\ wire' = wire /\ Len(drained') = Len(drained) + 1
        /\ \A k \in 1..Len(drained) : drained'[k] = drained[k]
        /\ drained'[Len(drained) + 1] = packet'
    BY <1>4, <2>1, AppendProperties DEF Drain, TypeOK
  <2>3. CASE OnCut
    <3>1. /\ packet' = Packets(wire)[Len(drained) + 1]
          /\ OnCut'
      BY <1>4, <2>3, DrainOnCut
    <3>2. ASSUME NEW k \in 1..Len(drained'), k <= Len(wire.cut)
          PROVE  drained'[k] = Packets(wire)[k]
      <4>1. CASE k = Len(drained) + 1
        BY <2>2, <3>1, <4>1
      <4>2. CASE k \in 1..Len(drained)
        BY <2>2, <3>2, <4>2 DEF CutInv, DrainedIsCut
      <4>3. QED BY <1>0, <2>2, <4>1, <4>2
    <3>3. DrainedIsCut'
      BY <2>2, <3>2 DEF DrainedIsCut
    <3>4. QED BY <3>1, <3>3 DEF CutInv
  <2>4. CASE PastCut
    <3>1. PastCut'
      BY <1>0, <2>2, <2>4 DEF PastCut
    <3>2. ASSUME NEW k \in 1..Len(drained'), k <= Len(wire.cut)
          PROVE  drained'[k] = Packets(wire)[k]
      <4>1. k \in 1..Len(drained)
        BY <1>0, <2>2, <2>4, <3>2 DEF PastCut
      <4>2. QED BY <2>2, <3>2, <4>1 DEF CutInv, DrainedIsCut
    <3>3. DrainedIsCut'
      BY <2>2, <3>2 DEF DrainedIsCut
    <3>4. QED BY <3>1, <3>3 DEF CutInv
  <2>5. QED BY <2>3, <2>4 DEF CutInv
<1>5. CASE UNCHANGED <<wire, received, pending, drained>>
  BY <1>5 DEF CutInv, DrainedIsCut, OnCut, PastCut, Consumed
<1>6. QED
  BY <1>1, <1>2, <1>3, <1>4, <1>5
  DEF Next, vars, ReadSome, ReadEOF, ReadError, FrameStep, NeedHeader,
      NeedPayload, PacketDone, WriteError

-----------------------------------------------------------------------------
(***************************************************************************)
(* The results.                                                            *)
(***************************************************************************)

\* The inductive invariant of the framing, for every wire and segmentation.
THEOREM Invariant == Spec => []FramingInv
<1>1. Init => TypeOK /\ PendingIsWindow /\ BufferInv /\ CutInv
  BY TypeInit, WindowInit, BufferInit, CutInit
<1>2. TypeOK /\ PendingIsWindow /\ BufferInv /\ CutInv /\ [Next]_vars
        => (TypeOK /\ PendingIsWindow /\ BufferInv /\ CutInv)'
  BY TypeStep, WindowStep, BufferStep, CutStep
<1>3. TypeOK /\ PendingIsWindow /\ BufferInv /\ CutInv => FramingInv
  BY DEF BufferInv, CutInv, FramingInv
<1>4. QED
  BY <1>1, <1>2, <1>3, PTL DEF Spec

\* The buffer of a connection stays below one packet and one read
\* (server.rs:135-139).
THEOREM BufferBounded == Spec => []PendingBounded
BY Invariant, PTL DEF FramingInv

\* The server never waits for bytes with a complete packet in its hands.
THEOREM NeverWaits == Spec => []NothingWaiting
BY Invariant, PTL DEF FramingInv

\* parse_packet drops what was cut for its footer only.
THEOREM FooterOnly == Spec => []OnlyFooterRejects
<1>1. FramingInv => OnlyFooterRejects
  BY DEF FramingInv, PacketIsWhole, OnlyFooterRejects, ParsePacket
<1>2. QED BY <1>1, Invariant, PTL

\* Whatever the segmentation, the packets handed over are those of the
\* reference cut, in order.
THEOREM SegmentationIndependent == Spec => []CutRespected
<1>1. FramingInv => CutRespected
  BY DEF FramingInv, DrainedIsCut, OnCut, PastCut, CutRespected
<1>2. QED BY <1>1, Invariant, PTL

\* At an orderly close nothing of the cut is left behind.
LEMMA ClosedIsComplete ==
  ASSUME FramingInv, pc \in {"read", "closed"}, received = Len(wire.bytes)
  PROVE  Len(drained) >= Len(wire.cut)
<1> DEFINE k == Len(drained)
<1>i. TypeOK /\ PendingIsWindow /\ NothingWaiting /\ (OnCut \/ PastCut)
  BY DEF FramingInv
<1>0. /\ k \in Nat /\ Len(wire.cut) \in Nat
      /\ received = Len(wire.bytes) /\ Len(wire.bytes) \in Nat
      /\ Consumed \in Nat /\ Consumed <= received /\ received \in Nat
      /\ Len(pending) = received - Consumed
  BY <1>i, Numbers
<1>1. CASE PastCut
  BY <1>1 DEF PastCut
<1>2. CASE OnCut
  <2>1. SUFFICES ASSUME k < Len(wire.cut) PROVE FALSE
    BY <1>0
  <2> DEFINE f == wire.cut[k + 1]
  <2>2. k + 1 \in 1..Len(wire.cut)
    BY <1>0, <2>1
  <2>3. f.first \in Nat /\ f.last \in Nat /\ IsPacketOf(wire, k + 1)
    BY <1>i, <2>2, PacketOfCut
  <2>4. /\ Consumed < f.first
        /\ f.first + HEADER_LEN - 1 <= Len(wire.bytes)
        /\ f.last <= Len(wire.bytes)
        /\ f.last = f.first + LenAt(wire.bytes, f.first) - 1
    BY <1>2, <2>1, <2>3 DEF OnCut, IsPacketOf, HeaderAt
  <2>5. ~HeaderMissing
    <3>1. Len(pending) >= HEADER_LEN
      BY <1>0, <2>3, <2>4, FramingAssumption, SMTT(30)
    <3>2. QED BY <1>0, <3>1, FramingAssumption DEF HeaderMissing
  <2>6. HeaderGood /\ TotalLen <= MAX_PACKET_LEN /\ Len(pending) < TotalLen
    BY <1>i, <2>5 DEF NothingWaiting
  <2>7. Consumed + 1 = f.first
    BY <1>2, <2>1, <1>i, <2>6, HeaderOnCut
  <2>8. TotalLen = LenAt(wire.bytes, f.first) /\ TotalLen \in Nat
    BY <2>6, <2>7, <1>i, HeaderOfWire
  <2>9. QED BY <1>0, <2>3, <2>4, <2>6, <2>7, <2>8, SMTT(30)
<1>3. QED BY <1>i, <1>1, <1>2

\* An orderly close comes after the last packet of the cut.
THEOREM CompleteAtClose == Spec => []NothingLost
<1>1. FramingInv => NothingLost
  BY ClosedIsComplete DEF FramingInv, NothingLost
<1>2. QED BY <1>1, Invariant, PTL

-----------------------------------------------------------------------------
(***************************************************************************)
(* A connection comes to its end.                                          *)
(***************************************************************************)

Unread == Len(wire.bytes) - received

\* The steps between the task and its next read, were nothing in the buffer.
Pause(l) ==
  CASE l = "read"   -> 1
    [] l = "frame"  -> 2
    [] l = "packet" -> 3
    [] OTHER        -> 0

\* What the task of the connection has still to do: at most four steps for a
\* byte that is not received yet, and two for one in the buffer.
Work == 4 * Unread + 2 * Len(pending) + Pause(pc)

WorkShrinks == [][Work' < Work]_vars

\* The work is made of three numbers.
LEMMA WorkParts ==
  TypeOK /\ PendingIsWindow =>
    /\ Unread \in Nat /\ Len(pending) \in Nat /\ Pause(pc) \in Nat
<1> SUFFICES ASSUME TypeOK, PendingIsWindow
             PROVE  /\ Unread \in Nat /\ Len(pending) \in Nat
                    /\ Pause(pc) \in Nat
  OBVIOUS
<1>1. Unread \in Nat /\ Len(pending) \in Nat
  BY Numbers DEF Unread
<1>2. Pause(pc) \in Nat
  BY DEF Pause
<1> QED
  BY <1>1, <1>2

\* Every step leaves less of it.
LEMMA WorkStep ==
  ASSUME TypeOK, PendingIsWindow, TypeOK', PendingIsWindow', Next
  PROVE  Work' < Work
<1>1. Unread \in Nat /\ Len(pending) \in Nat
  BY WorkParts
<1>2. Unread' \in Nat /\ Len(pending)' \in Nat
  <2>1. (TypeOK /\ PendingIsWindow =>
           /\ Unread \in Nat /\ Len(pending) \in Nat /\ Pause(pc) \in Nat)'
    BY WorkParts, PTL
  <2> QED
    BY <2>1
<1>3. Len(wire.bytes) \in Nat /\ received \in Nat
  BY Numbers
<1>4. CASE ReadSome
  <2>1. PICK n \in 1..READ_BUF_LEN : Read(n)
    BY <1>4 DEF ReadSome
  <2>2. /\ n \in Nat /\ n >= 1 /\ pc = "read" /\ pc' = "frame"
        /\ wire' = wire /\ received' = received + n
    BY <2>1, FramingAssumption DEF Read
  <2>3. Len(pending)' = Len(pending) + n
    BY <2>1, ReadLength
  <2>4. Unread' = Unread - n
    BY <1>3, <2>2 DEF Unread
  <2>5. Pause(pc) = 1 /\ Pause(pc)' = 2
    BY <2>2 DEF Pause
  <2> QED
    BY <1>1, <1>2, <2>2, <2>3, <2>4, <2>5 DEF Work
<1>5. CASE ReadEOF \/ ReadError \/ WriteError
  <2>1. /\ Unread' = Unread /\ Len(pending)' = Len(pending)
        /\ pc \in {"read", "packet"} /\ pc' \in {"closed", "failed"}
    BY <1>5 DEF ReadEOF, ReadError, WriteError, Unread
  <2>2. Pause(pc) \in {1, 3} /\ Pause(pc)' = 0
    BY <2>1 DEF Pause
  <2> QED
    BY <1>1, <1>2, <2>1, <2>2 DEF Work
<1>6. CASE NeedHeader \/ NeedPayload
  <2>1. /\ Unread' = Unread /\ Len(pending)' = Len(pending)
        /\ pc = "frame" /\ pc' = "read"
    BY <1>6 DEF NeedHeader, NeedPayload, Unread
  <2>2. Pause(pc) = 2 /\ Pause(pc)' = 1
    BY <2>1 DEF Pause
  <2> QED
    BY <1>1, <1>2, <2>1, <2>2 DEF Work
<1>7. CASE Resync
  <2>1. Unread' = Unread /\ pc' = pc
    BY <1>7 DEF Resync, Unread
  <2>2. Len(pending)' = Len(pending) - 1
    BY <1>7, ResyncLength
  <2>3. Pause(pc)' = Pause(pc) /\ Pause(pc) \in Nat
    BY <2>1, WorkParts
  <2> QED
    BY <1>1, <1>2, <2>1, <2>2, <2>3 DEF Work
<1>8. CASE DiscardOversized
  <2>1. Unread' = Unread /\ pc = "frame" /\ pc' = "read"
    BY <1>8 DEF DiscardOversized, Unread
  <2>2. Len(pending)' = 0
    BY <1>8, EmptySeq DEF DiscardOversized
  <2>3. Pause(pc) = 2 /\ Pause(pc)' = 1
    BY <2>1 DEF Pause
  <2> QED
    BY <1>1, <1>2, <2>1, <2>2, <2>3 DEF Work
<1>9. CASE Drain
  <2>1. Unread' = Unread /\ pc = "frame" /\ pc' = "packet"
    BY <1>9 DEF Drain, Unread
  <2>2. HEADER_LEN \in Nat /\ FOOTER_LEN \in Nat /\ HEADER_LEN + FOOTER_LEN >= 1
    BY FramingAssumption
  <2>3. /\ TotalLen \in Nat /\ TotalLen >= HEADER_LEN + FOOTER_LEN
        /\ Len(pending)' = Len(pending) - TotalLen
    BY <1>9, DrainLength
  <2>4. PICK n \in Nat : n >= 1 /\ Len(pending)' = Len(pending) - n
    BY <2>2, <2>3
  <2>5. Pause(pc) = 2 /\ Pause(pc)' = 3
    BY <2>1 DEF Pause
  <2> QED
    BY <1>1, <1>2, <2>1, <2>4, <2>5 DEF Work
<1>10. CASE PacketDone
  <2>1. /\ Unread' = Unread /\ Len(pending)' = Len(pending)
        /\ pc = "packet" /\ pc' = "frame"
    BY <1>10 DEF PacketDone, Unread
  <2>2. Pause(pc) = 3 /\ Pause(pc)' = 2
    BY <2>1 DEF Pause
  <2> QED
    BY <1>1, <1>2, <2>1, <2>2 DEF Work
<1> QED
  BY <1>4, <1>5, <1>6, <1>7, <1>8, <1>9, <1>10 DEF Next, FrameStep

\* The loop over pending ends and the connection with it, whatever the logger
\* sends and however it is segmented: every turn takes bytes out of the buffer
\* or goes back to read, and every read brings some, so that a connection
\* takes no more than four steps for each byte that was sent, and one
\* (server.rs:71-147).
THEOREM LoopsEnd ==
  Spec => /\ Work = 4 * Len(wire.bytes) + 1
          /\ [](Work \in Nat)
          /\ WorkShrinks
<1>1. Init => Work = 4 * Len(wire.bytes) + 1
  <2> SUFFICES ASSUME Init PROVE Work = 4 * Len(wire.bytes) + 1
    OBVIOUS
  <2>1. TypeOK /\ PendingIsWindow
    BY TypeInit, WindowInit
  <2>2. /\ Len(wire.bytes) \in Nat /\ received = 0 /\ Len(pending) = 0
        /\ pc = "read"
    BY <2>1, Numbers, EmptySeq DEF Init
  <2>3. Unread = Len(wire.bytes) /\ Pause(pc) = 1
    BY <2>2 DEF Unread, Pause
  <2> QED
    BY <2>2, <2>3 DEF Work
<1>2. TypeOK /\ PendingIsWindow => Work \in Nat
  BY WorkParts DEF Work
<1>3. TypeOK /\ PendingIsWindow /\ TypeOK' /\ PendingIsWindow' /\ [Next]_vars
        => [Work' < Work]_vars
  BY WorkStep
<1> QED
  BY <1>1, <1>2, <1>3, TypeCorrect, Window, PTL DEF Spec, WorkShrinks

-----------------------------------------------------------------------------
(***************************************************************************)
(* The connection implements the abstract channel.                         *)
(***************************************************************************)

\* The invariant for wires without a header that is too long.
CleanInv == FramingInv /\ ~Oversized(wire)

\* A wire without a header that is too long stays one.
LEMMA CleanStep == CleanInv /\ [Next]_vars /\ FramingInv' => CleanInv'
<1> SUFFICES ASSUME CleanInv, [Next]_vars, FramingInv' PROVE CleanInv'
  OBVIOUS
<1>1. wire' = wire
  BY DEF Next, vars, ReadSome, Read, ReadEOF, ReadError, FrameStep, NeedHeader,
         Resync, DiscardOversized, NeedPayload, Drain, PacketDone, WriteError
<1>2. QED BY <1>1 DEF CleanInv

\* A wire has as many packets as its cut has intervals.
LEMMA PacketsLen ==
  ASSUME TypeOK
  PROVE  Len(Packets(wire)) = Len(wire.cut)
<1>1. Len(wire.cut) \in Nat
  BY LenProperties DEF TypeOK, IsWire
<1>2. QED BY <1>1 DEF Packets

\* Every step of the connection is a step of the channel, or none.
LEMMA ChannelStep ==
  ASSUME CleanInv, [Next]_vars
  PROVE  [Channel!Next]_(Channel!channelVars)
<1> DEFINE status == CASE pc = "closed" -> "done"
                       [] pc = "failed" -> "broken"
                       [] OTHER         -> "open"
<1>0. /\ TypeOK /\ PendingIsWindow /\ FramingInv /\ OnCut
      /\ Len(Packets(wire)) = Len(wire.cut)
      /\ Len(drained) \in Nat /\ Len(wire.cut) \in Nat
  BY PacketsLen, Numbers DEF CleanInv, FramingInv, PastCut
<1>1. ASSUME wire' = wire, drained' = drained, status' = status
      PROVE  UNCHANGED Channel!channelVars
  BY <1>1 DEF Channel!channelVars
<1>2. CASE ReadSome
  BY <1>1, <1>2 DEF ReadSome, Read
<1>3. CASE ReadEOF
  <2>1. Len(drained) = Len(wire.cut)
    BY <1>0, <1>3, ClosedIsComplete DEF ReadEOF, OnCut
  <2>2. Channel!Finish
    BY <1>0, <1>3, <2>1 DEF ReadEOF, Channel!Finish
  <2>3. QED BY <2>2 DEF Channel!Next
<1>4. CASE ReadError \/ WriteError
  <2>1. Channel!Break
    BY <1>4 DEF ReadError, WriteError, Channel!Break
  <2>2. QED BY <2>1 DEF Channel!Next
<1>5. CASE NeedHeader \/ Resync \/ DiscardOversized \/ NeedPayload
  BY <1>1, <1>5 DEF NeedHeader, Resync, DiscardOversized, NeedPayload
<1>6. CASE Drain
  <2>1. /\ Len(drained) < Len(wire.cut)
        /\ packet' = Packets(wire)[Len(drained) + 1]
    BY <1>0, <1>6, DrainOnCut
  <2>2. Channel!Deliver
    BY <1>0, <1>6, <2>1 DEF Drain, Channel!Deliver
  <2>3. QED BY <2>2 DEF Channel!Next
<1>7. CASE PacketDone
  BY <1>1, <1>7 DEF PacketDone
<1>8. CASE UNCHANGED vars
  BY <1>1, <1>8 DEF vars
<1>9. QED
  BY <1>2, <1>3, <1>4, <1>5, <1>6, <1>7, <1>8 DEF Next, FrameStep

\* For wires without a header that is too long, the connection implements
\* the safety of the channel: packets once each, in order, and an orderly
\* end only after the last of them (its fairness is TLC's to check).
THEOREM ImplementsSafeChannel ==
  ASSUME \A w \in Wires : ~Oversized(w)
  PROVE  Spec => Channel!SafeSpec
<1>1. Init => Channel!Init
  BY DEF Init, Channel!Init
<1>2. Init => ~Oversized(wire)
  BY DEF Init
<1>3. Spec => []CleanInv
  <2>1. FramingInv /\ ~Oversized(wire) => CleanInv
    BY DEF CleanInv
  <2>2. QED BY <1>2, <2>1, CleanStep, Invariant, PTL DEF Spec
<1>4. CleanInv /\ [Next]_vars => [Channel!Next]_(Channel!channelVars)
  BY ChannelStep
<1>5. QED
  BY <1>1, <1>3, <1>4, PTL DEF Spec, Channel!SafeSpec
=============================================================================
