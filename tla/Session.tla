------------------------------- MODULE Session -------------------------------
(***************************************************************************)
(* The sessions of one logger with the dummy cloud, at the level of        *)
(* packets: process_packet and ConnectionState                             *)
(* (src/dummycloud2/src/server.rs) and the handlers handle_logger,         *)
(* handle_report and handle_wifi that it calls (mqtt.rs).  Each connection *)
(* is a task of its own; a task may be overtaken at every await, that is   *)
(* at every message it hands to the MQTT client and before it writes the   *)
(* response.  A logger may hold two connections, since it is set up with   *)
(* two servers that are both this program.                                 *)
(*                                                                         *)
(* Packets are those that parse_packet accepted (module Framing).  The     *)
(* messages of a live DATA packet are one message here; module Publisher   *)
(* has them in detail, with the queue of the MQTT client.                  *)
(***************************************************************************)
EXTENDS Integers, Sequences, FiniteSets

CONSTANTS
  Conns,       \* the tasks, one per connection
  Packets,     \* the packets the logger may send
  Texts,       \* the texts of SSID fields, with their blanks
  Trimmed,     \* str::trim on Texts
  Blank,       \* the empty text
  None,        \* Option::None, and a topic nothing was published to
  MaxPackets,  \* bound: packets per connection
  MaxOpens     \* bound: connections accepted in total

\* What the parse functions of protocol.rs tell apart, by request type.  A
\* payload of the wrong length does not parse.  live is a DATA packet of a
\* microinverter with an MPPT count above zero: neither historic nor of a
\* type that is not supported.
AllPackets ==
  [type : {"handshake"}, parses : BOOLEAN, ssid : Texts]
    \cup [type : {"data"}, parses : BOOLEAN, live : BOOLEAN]
    \cup [type : {"report"}, parses : BOOLEAN,
          base : Nat, offset : Nat, uptime : Nat]
    \cup [type : {"wifi"}, parses : BOOLEAN,
          base : Nat, offset : Nat, text : Texts, signal : 0..255]
    \cup [type : {"heartbeat", "unknown"}]

ASSUME SessionAssumption ==
  /\ Packets \subseteq AllPackets
  /\ Blank \in Texts
  /\ Trimmed \in [Texts -> Texts]
  /\ \A t \in Texts : Trimmed[Trimmed[t]] = Trimmed[t]
  /\ Trimmed[Blank] = Blank
  /\ None \notin Texts /\ None \notin Nat
  /\ MaxPackets \in Nat /\ MaxOpens \in Nat

\* reconstructed_timestamp_seconds of a REPORT packet.
Time(p) == p.base + p.offset

\* The same of a WIFI packet, which has none without a base timestamp.
WifiTime(p) == IF p.base = 0 THEN None ELSE p.base + p.offset

-----------------------------------------------------------------------------
VARIABLES
  open,      \* [Conns -> BOOLEAN]: the connection exists
  ssid,      \* ConnectionState.ssid
  last,      \* ConnectionState.last_wifi_timestamp_offset
  busy,      \* [Conns -> BOOLEAN]: in process_packet, past the parsing
  todo,      \* the messages the running handler has still to publish
  metadata,  \* logger_metadata: the handshake it was made from
  alive,     \* the event loop of the MQTT client runs
  topics,    \* the last value published to each topic; a WIFI record stands
             \* for its signal, and TRUE for values nothing depends on
  opens,     \* how many connections were accepted
  served,    \* history: the packets of the connection, in order
  answered   \* history: the positions in served that were answered

state == <<ssid, last>>
vars == <<open, ssid, last, busy, todo, metadata, alive, topics, opens,
          served, answered>>

Topics == {"wifi_ssid", "wifi_signal", "uptime", "report_time", "last_reboot",
           "identity", "telemetry"}

Message(topic, value) == [topic |-> topic, value |-> value]

\* What handlers publish: uptime and times are numbers, a signal stands for
\* its record.
Messages ==
  [topic : {"identity", "telemetry"}, value : {TRUE}]
    \cup [topic : {"wifi_ssid"}, value : Texts]
    \cup [topic : {"wifi_signal"}, value : Packets]
    \cup [topic : {"uptime", "report_time", "last_reboot"}, value : Int]

\* One packet at a time: a task that publishes is busy with the last packet
\* it took, and a busy task has a connection.
OneAtATime ==
  \A c \in Conns : /\ busy[c] => open[c] /\ served[c] # <<>>
                   /\ todo[c] # <<>> => busy[c]

TypeOK ==
  /\ open \in [Conns -> BOOLEAN]
  /\ ssid \in [Conns -> (Texts \ {Blank}) \cup {None}]
  /\ last \in [Conns -> Nat \cup {None}]
  /\ busy \in [Conns -> BOOLEAN]
  /\ todo \in [Conns -> Seq(Messages)]
  /\ metadata \in Packets \cup {None}
  /\ alive \in BOOLEAN
  /\ DOMAIN topics = Topics
  /\ \A t \in Topics : topics[t] # None => Message(t, topics[t]) \in Messages
  /\ opens \in 0..MaxOpens
  /\ served \in [Conns -> Seq(Packets)]
  /\ \A c \in Conns : Len(served[c]) <= MaxPackets
  /\ answered \in [Conns -> Seq(1..MaxPackets)]
  /\ OneAtATime

Init ==
  /\ open = [c \in Conns |-> FALSE]
  /\ ssid = [c \in Conns |-> None]
  /\ last = [c \in Conns |-> None]
  /\ busy = [c \in Conns |-> FALSE]
  /\ todo = [c \in Conns |-> <<>>]
  /\ metadata = None
  /\ alive = TRUE
  /\ topics = [t \in Topics |-> None]
  /\ opens = 0
  /\ served = [c \in Conns |-> <<>>]
  /\ answered = [c \in Conns |-> <<>>]

-----------------------------------------------------------------------------
\* A connection is accepted: a task with a ConnectionState of its own.
Connect(c) ==
  /\ ~open[c]
  /\ opens < MaxOpens
  /\ opens' = opens + 1
  /\ open' = [open EXCEPT ![c] = TRUE]
  /\ ssid' = [ssid EXCEPT ![c] = None]
  /\ last' = [last EXCEPT ![c] = None]
  /\ served' = [served EXCEPT ![c] = <<>>]
  /\ answered' = [answered EXCEPT ![c] = <<>>]
  /\ UNCHANGED <<busy, todo, metadata, alive, topics>>

\* The logger closes the connection, or a read fails.
Disconnect(c) ==
  /\ open[c] /\ ~busy[c]
  /\ open' = [open EXCEPT ![c] = FALSE]
  /\ UNCHANGED <<ssid, last, busy, todo, metadata, alive, topics, opens,
                 served, answered>>

\* The task takes packet p and will publish messages for it.
Take(c, p, messages) ==
  /\ open[c] /\ ~busy[c]
  /\ Len(served[c]) < MaxPackets
  /\ served' = [served EXCEPT ![c] = Append(@, p)]
  /\ busy' = [busy EXCEPT ![c] = TRUE]
  /\ todo' = [todo EXCEPT ![c] = messages]
  /\ UNCHANGED <<open, alive, topics, opens, answered>>

\* Faulty: a blank SSID is kept like any other.
HandshakeKeepsBlank(c, p) ==
  /\ p.type = "handshake"
  /\ Take(c, p, IF p.parses THEN <<Message("identity", TRUE)>> ELSE <<>>)
  /\ ssid' = IF p.parses THEN [ssid EXCEPT ![c] = Trimmed[p.ssid]] ELSE ssid
  /\ metadata' = IF p.parses THEN p ELSE metadata
  /\ UNCHANGED last

\* A handshake: its SSID, unless blank, is the one WIFI records must show
\* from now on; handle_logger stores the metadata and publishes it, the SSID
\* last and only when it is not blank.
Handshake(c, p) ==
  LET name == Trimmed[p.ssid]
      named == p.parses /\ name # Blank
  IN  /\ p.type = "handshake"
      /\ Take(c, p,
           IF ~p.parses THEN <<>>
           ELSE <<Message("identity", TRUE)>> \o
                IF named THEN <<Message("wifi_ssid", name)>> ELSE <<>>)
      /\ ssid' = IF named THEN [ssid EXCEPT ![c] = name] ELSE ssid
      /\ metadata' = IF p.parses THEN p ELSE metadata
      /\ UNCHANGED last

\* DATA that parses.  handle_data returns at once when it is not live.
Data(c, p) ==
  /\ p.type = "data" /\ p.parses
  /\ Take(c, p, IF p.live THEN <<Message("telemetry", TRUE)>> ELSE <<>>)
  /\ UNCHANGED <<state, metadata>>

\* DATA that does not parse: process_packet returns without an answer.
DataUnparsable(c, p) ==
  /\ open[c] /\ ~busy[c]
  /\ Len(served[c]) < MaxPackets
  /\ p.type = "data" /\ ~p.parses
  /\ served' = [served EXCEPT ![c] = Append(@, p)]
  /\ UNCHANGED <<open, state, busy, todo, metadata, alive, topics, opens,
                 answered>>

\* Faulty: the reboot time is published without comparing the two.
ReportUnchecked(c, p) ==
  /\ p.type = "report"
  /\ Take(c, p,
       IF ~p.parses THEN <<>>
       ELSE <<Message("uptime", p.uptime), Message("report_time", Time(p)),
              Message("last_reboot", Time(p) - p.uptime)>>)
  /\ UNCHANGED <<state, metadata>>

\* A report: uptime, time of the report and, unless the uptime is longer
\* than the clock of the logger tells, the time of the last reboot.
Report(c, p) ==
  /\ p.type = "report"
  /\ Take(c, p,
       IF ~p.parses THEN <<>>
       ELSE <<Message("uptime", p.uptime), Message("report_time", Time(p))>> \o
            IF Time(p) >= p.uptime
            THEN <<Message("last_reboot", Time(p) - p.uptime)>> ELSE <<>>)
  /\ UNCHANGED <<state, metadata>>

\* handle_wifi publishes the signal of a record that shows the SSID the
\* connection expects, if it is a percentage.
ShowsSignal(p, expected) ==
  /\ expected # None
  /\ p.text = expected
  /\ p.signal <= 100

\* Faulty: off by one.
OlderOffByOne(c, p) == last[c] # None /\ p.offset + 1 < last[c]

\* By its offset the record is older than one this connection has seen.
Older(c, p) == last[c] # None /\ p.offset < last[c]

\* Faulty: the offset is remembered only of records that are published.
WifiRemembersShown(c, p) ==
  /\ p.type = "wifi" /\ p.parses
  /\ ~Older(c, p)
  /\ last' = IF ShowsSignal(p, ssid[c]) THEN [last EXCEPT ![c] = p.offset]
                                        ELSE last
  /\ Take(c, p, IF ShowsSignal(p, ssid[c])
                THEN <<Message("wifi_signal", p)>> ELSE <<>>)
  /\ UNCHANGED <<ssid, metadata>>

\* A WIFI record that is not older than the last one of this connection, by
\* its offset.  The offset is remembered whether or not the record is
\* published.
Wifi(c, p) ==
  /\ p.type = "wifi" /\ p.parses
  /\ ~Older(c, p)
  /\ last' = [last EXCEPT ![c] = p.offset]
  /\ Take(c, p, IF ShowsSignal(p, ssid[c])
                THEN <<Message("wifi_signal", p)>> ELSE <<>>)
  /\ UNCHANGED <<ssid, metadata>>

\* A WIFI record that is older, or does not parse: only answered.
WifiSkipped(c, p) ==
  /\ p.type = "wifi"
  /\ p.parses => Older(c, p)
  /\ Take(c, p, <<>>)
  /\ UNCHANGED <<state, metadata>>

\* A heartbeat or a packet of unknown type: only answered.
Other(c, p) ==
  /\ p.type \in {"heartbeat", "unknown"}
  /\ Take(c, p, <<>>)
  /\ UNCHANGED <<state, metadata>>

HandlePacket(c) ==
  \E p \in Packets :
    \/ Handshake(c, p)
    \/ Data(c, p)
    \/ DataUnparsable(c, p)
    \/ Report(c, p)
    \/ Wifi(c, p)
    \/ WifiSkipped(c, p)
    \/ Other(c, p)

-----------------------------------------------------------------------------
\* The next message of the handler reaches the MQTT client.
PublishNext(c) ==
  /\ todo[c] # <<>>
  /\ alive
  /\ topics' = [topics EXCEPT ![Head(todo[c]).topic] = Head(todo[c]).value]
  /\ todo' = [todo EXCEPT ![c] = Tail(@)]
  /\ UNCHANGED <<open, state, busy, metadata, alive, opens, served, answered>>

\* Faulty: the error of the handler leaves process_packet.
PublishErrorEscapes(c) ==
  /\ todo[c] # <<>>
  /\ ~alive
  /\ todo' = [todo EXCEPT ![c] = <<>>]
  /\ busy' = [busy EXCEPT ![c] = FALSE]
  /\ UNCHANGED <<open, state, metadata, alive, topics, opens, served, answered>>

\* The event loop is gone: the handler returns the error, which is logged.
PublishError(c) ==
  /\ todo[c] # <<>>
  /\ ~alive
  /\ todo' = [todo EXCEPT ![c] = <<>>]
  /\ UNCHANGED <<open, state, busy, metadata, alive, topics, opens, served,
                 answered>>

\* The handler has returned: the time response is written.
Respond(c) ==
  /\ busy[c] /\ todo[c] = <<>>
  /\ busy' = [busy EXCEPT ![c] = FALSE]
  /\ answered' = [answered EXCEPT ![c] = Append(@, Len(served[c]))]
  /\ UNCHANGED <<open, state, todo, metadata, alive, topics, opens, served>>

\* The response cannot be written: the connection ends.
WriteError(c) ==
  /\ busy[c] /\ todo[c] = <<>>
  /\ busy' = [busy EXCEPT ![c] = FALSE]
  /\ open' = [open EXCEPT ![c] = FALSE]
  /\ UNCHANGED <<state, todo, metadata, alive, topics, opens, served, answered>>

-----------------------------------------------------------------------------
\* The task of the event loop panics: nothing starts it again.
LoopDies ==
  /\ alive
  /\ alive' = FALSE
  /\ UNCHANGED <<open, state, busy, todo, metadata, topics, opens, served,
                 answered>>

\* The program stops at any point and is started again.  Its memory is
\* gone; the broker keeps the retained topics.
Restart ==
  /\ opens > 0
  /\ open' = [c \in Conns |-> FALSE]
  /\ busy' = [c \in Conns |-> FALSE]
  /\ todo' = [c \in Conns |-> <<>>]
  /\ metadata' = None
  /\ alive' = TRUE
  /\ UNCHANGED <<state, topics, opens, served, answered>>

Next ==
  \/ \E c \in Conns :
       \/ Connect(c)
       \/ Disconnect(c)
       \/ HandlePacket(c)
       \/ PublishNext(c)
       \/ PublishError(c)
       \/ Respond(c)
       \/ WriteError(c)
  \/ LoopDies
  \/ Restart

Spec == Init /\ [][Next]_vars

-----------------------------------------------------------------------------
Answerable(p) == p.type = "data" => p.parses

\* The packets of c that process_packet is through with.
Finished(c) == 1..(IF busy[c] THEN Len(served[c]) - 1 ELSE Len(served[c]))

AnsweredInOrder(c) ==
  /\ \A i, j \in DOMAIN answered[c] : i < j => answered[c][i] < answered[c][j]
  /\ {answered[c][i] : i \in DOMAIN answered[c]}
       = {i \in Finished(c) : Answerable(served[c][i])}

\* Every packet is answered once, in the order of arrival, whatever its
\* handler published, skipped, failed to parse or failed to publish; only
\* DATA that does not parse is left without an answer (server.rs:182-280).
AnswersInOrder == \A c \in Conns : open[c] => AnsweredInOrder(c)

\* The handshakes of c that named a network, its WIFI records and reports.
Naming(c) == {i \in DOMAIN served[c] : /\ served[c][i].type = "handshake"
                                       /\ served[c][i].parses
                                       /\ Trimmed[served[c][i].ssid] # Blank}
Records(c) == {i \in DOMAIN served[c] : /\ served[c][i].type = "wifi"
                                        /\ served[c][i].parses}
Reports(c) == {i \in DOMAIN served[c] : /\ served[c][i].type = "report"
                                        /\ served[c][i].parses}

IsLast(i, positions) == i \in positions /\ \A k \in positions : k <= i

\* A signal on its way to the broker is a percentage, was measured on the
\* network that the last naming handshake of the same connection named, and
\* no WIFI record this connection sent before has a larger offset: nothing
\* of an earlier connection of the task leaks in (server.rs:66, 190-193,
\* 251-268, mqtt.rs:307-323).
SignalFromNewestRecord ==
  \A c \in Conns : \A i \in DOMAIN todo[c] :
    todo[c][i].topic = "wifi_signal" =>
      LET p == todo[c][i].value
      IN  /\ \E h \in Naming(c) : /\ IsLast(h, Naming(c))
                                  /\ p.text = Trimmed[served[c][h].ssid]
          /\ p.signal \in 0..100
          /\ \A k \in Records(c) : served[c][k].offset <= p.offset

\* What report p tells, and which topics it is published to: a report of a
\* clock that is not set tells no reboot time.
Told(p, topic) ==
  IF topic = "uptime" THEN p.uptime
  ELSE IF topic = "report_time" THEN Time(p) ELSE Time(p) - p.uptime

ReportTopics == {"uptime", "report_time", "last_reboot"}

TopicsOf(p) ==
  IF Time(p) >= p.uptime THEN ReportTopics ELSE {"uptime", "report_time"}

\* The reports of c that tell topic t.
Telling(c, t) == {i \in Reports(c) : t \in TopicsOf(served[c][i])}

\* No task has had a second connection: the packets in served are all that
\* the logger has sent.
Used == {c \in Conns : open[c] \/ served[c] # <<>>}

NoneReplaced == opens = Cardinality(Used)

RebootShownAfterEpoch == topics["last_reboot"] # None => topics["last_reboot"] >= 0

\* When the only connection of the logger is at rest, Home Assistant shows
\* for each of the three topics of a report what the last report that tells
\* it told: uptime and report time of the last report, the reboot time of
\* the last one whose clock was set, which may be older; it is never before
\* the epoch (mqtt.rs:271-299: three messages, each of which may be the
\* last).
LastReportShown ==
  /\ \A c \in Conns : open[c] /\ ~busy[c] /\ alive =>
       \A t \in ReportTopics : \A i \in Telling(c, t) :
         IsLast(i, Telling(c, t)) => topics[t] = Told(served[c][i], t)
  /\ RebootShownAfterEpoch

\* The inductive invariants behind the properties.  The state of a
\* connection is that of the packets it sent: the name is that of the last
\* naming handshake, the offset the largest of its WIFI records ...
StateOfPackets(c) ==
  /\ ssid[c] # None => \E h \in Naming(c) :
       IsLast(h, Naming(c)) /\ ssid[c] = Trimmed[served[c][h].ssid]
  /\ \A k \in Records(c) : last[c] # None /\ served[c][k].offset <= last[c]

\* ... a signal under way is that of the last record, which shows the name ...
SignalUnderWay(c) ==
  \A i \in DOMAIN todo[c] : todo[c][i].topic = "wifi_signal" =>
    LET p == todo[c][i].value
    IN  ShowsSignal(p, ssid[c]) /\ p.signal \in 0..100 /\ p.offset = last[c]

\* ... the packet under way will be answered ...
AnswerUnderWay(c) == busy[c] => Answerable(served[c][Len(served[c])])

\* ... a message of a report under way is of the last one that tells its
\* topic ...
ReportUnderWay(c) ==
  \A k \in DOMAIN todo[c] :
    LET t == todo[c][k].topic
    IN  t \in ReportTopics =>
          \E i \in Telling(c, t) : /\ IsLast(i, Telling(c, t))
                                   /\ todo[c][k].value = Told(served[c][i], t)

\* ... and what that one told is shown or under way.
ReportShownOrUnderWay(c) ==
  open[c] /\ alive =>
    \A t \in ReportTopics : \A i \in Telling(c, t) :
      IsLast(i, Telling(c, t)) =>
        \/ topics[t] = Told(served[c][i], t)
        \/ \E k \in DOMAIN todo[c] : todo[c][k].topic = t

SessionInv ==
  /\ TypeOK
  /\ \A c \in Conns :
       /\ SignalUnderWay(c) /\ AnswerUnderWay(c)
       /\ open[c] => AnsweredInOrder(c) /\ StateOfPackets(c)

\* While one connection lasts, a cached status record never replaces the
\* signal of a later one: the offset shown does not decrease.
SignalForwardInConnection ==
  [][opens' = opens /\ topics["wifi_signal"] # None
       /\ (\E c \in Conns : \E i \in DOMAIN served[c] :
             served[c][i] = topics["wifi_signal"])
       => topics'["wifi_signal"].offset >= topics["wifi_signal"].offset]_vars

-----------------------------------------------------------------------------
(***************************************************************************)
(* What the documentation says and the code does not do.                   *)
(***************************************************************************)

\* Readme.md:241: these packet types are answered, DATA among them.
EveryPacketAnswered ==
  \A c \in Conns :
    open[c] /\ ~busy[c] => Len(answered[c]) = Len(served[c])

\* Readme.md:251-252: older cached status records do not overwrite the live
\* value.  The time of a record is the one it is reconstructed to, if it has
\* one.
SignalNeverOlder ==
  [][topics["wifi_signal"] # None =>
       LET shown == WifiTime(topics["wifi_signal"])
           next == WifiTime(topics'["wifi_signal"])
       IN  shown # None /\ next # None => next >= shown]_vars
=============================================================================
