------------------------------ MODULE MCSession ------------------------------
(***************************************************************************)
(* Packets for TLC to run Session on.  Records of one boot of the logger   *)
(* share their base timestamp, so that offsets order them; after a reboot  *)
(* the base is later and the offsets start again.                          *)
(***************************************************************************)
EXTENDS Session

CONSTANTS home, homePadded, guest, empty

MCTexts == {home, homePadded, guest, empty}

MCTrimmed == [t \in MCTexts |-> IF t = homePadded THEN home ELSE t]

HandshakeOf(t) == [type |-> "handshake", parses |-> TRUE, ssid |-> t]

WifiOf(b, o, t, s) ==
  [type |-> "wifi", parses |-> TRUE, base |-> b, offset |-> o, text |-> t,
   signal |-> s]

ReportOf(b, o, u) ==
  [type |-> "report", parses |-> TRUE, base |-> b, offset |-> o, uptime |-> u]

BadPackets ==
  {[type |-> "data", parses |-> FALSE, live |-> FALSE],
   [type |-> "report", parses |-> FALSE, base |-> 0, offset |-> 0, uptime |-> 0],
   [type |-> "wifi", parses |-> FALSE, base |-> 0, offset |-> 0,
    text |-> empty, signal |-> 0]}

DataOf(l) == [type |-> "data", parses |-> TRUE, live |-> l]

\* Every kind of packet: reports of a clock that is set and of one that is
\* not, status records of one boot.  MCServer has live DATA.
MixedPackets ==
  BadPackets \cup {DataOf(FALSE), [type |-> "unknown"]}
    \cup {HandshakeOf(t) : t \in {homePadded, guest, empty}}
    \cup {ReportOf(0, 1, 3), ReportOf(8, 1, 3)}
    \cup {WifiOf(8, 1, home, 60), WifiOf(8, 2, home, 70),
          WifiOf(8, 3, home, 255)}

\* Status records of two boots, some of them cached over the reboot.
RebootPackets ==
  {HandshakeOf(home), WifiOf(2, 5, home, 50), WifiOf(8, 1, home, 70)}

\* DATA packets only.
DataOnly ==
  {DataOf(l) : l \in BOOLEAN}
    \cup {[type |-> "data", parses |-> FALSE, live |-> FALSE]}
=============================================================================
