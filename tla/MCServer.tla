------------------------------ MODULE MCServer ------------------------------
(***************************************************************************)
(* Server for TLC: a packet of every kind that a handler publishes.        *)
(***************************************************************************)
EXTENDS Server, TLC

CONSTANTS home, empty

MCTexts == {home, empty}

MCTrimmed == [t \in MCTexts |-> t]

\* Before a handshake the WIFI record is not published; the first report is
\* of a clock that is not set.
MCPackets ==
  {[type |-> "handshake", parses |-> TRUE, ssid |-> home],
   [type |-> "data", parses |-> TRUE, live |-> TRUE],
   [type |-> "wifi", parses |-> TRUE, base |-> 8, offset |-> 1,
    text |-> home, signal |-> 70]}
    \cup [type : {"report"}, parses : {TRUE}, base : {0, 8}, offset : {1},
          uptime : {3}]

\* Either a fault happens or time passes, and time passes only for three
\* packets of the open connections.
OneEvent ==
  clock > 0 => /\ faults = 0
               /\ \A c, d \in Conns :
                    c # d => Len(served[c]) + Len(served[d]) <= 3

ConnSymmetry == Permutations(Conns)
=============================================================================
