---------------------------- MODULE PacketChannel ----------------------------
(***************************************************************************)
(* What a logger may rely on when it sends packets over one TCP            *)
(* connection, whatever the segmentation of the byte stream: the packets   *)
(* are handed to the server's packet handler once each and in the order    *)
(* they were sent, an orderly close comes only after the last of them, and *)
(* a packet that was sent is handed over unless the connection breaks.     *)
(***************************************************************************)
EXTENDS Naturals, Sequences

VARIABLES
  sent,        \* the packets of the connection, in order: fixed from the start
  delivered,   \* the packets handed to process_packet so far
  status       \* "open", "done" (orderly end) or "broken" (an error ended it)

channelVars == <<sent, delivered, status>>

Init ==
  /\ delivered = <<>>
  /\ status = "open"

\* The next packet in order is handed over.
Deliver ==
  /\ status = "open"
  /\ Len(delivered) < Len(sent)
  /\ delivered' = Append(delivered, sent[Len(delivered) + 1])
  /\ UNCHANGED <<sent, status>>

\* An orderly end leaves nothing behind.
Finish ==
  /\ status = "open"
  /\ Len(delivered) = Len(sent)
  /\ status' = "done"
  /\ UNCHANGED <<sent, delivered>>

\* A read or write error ends the connection at any point.
Break ==
  /\ status = "open"
  /\ status' = "broken"
  /\ UNCHANGED <<sent, delivered>>

Next == Deliver \/ Finish \/ Break

SafeSpec == Init /\ [][Next]_channelVars

Spec == SafeSpec /\ WF_channelVars(Deliver)
=============================================================================
