# A formal model of the Deye dummy cloud

The repository holds a replacement for the cloud a Deye solar inverter reports
to: the *logger* of the inverter opens TCP connections to port 10000, sends
Solarman V5 packets and waits for time responses; the program publishes what it
reads to an MQTT broker, with Home Assistant discovery. There are two versions,
`src/dummycloud2` (Rust, the current one) and `src/dummycloud` (Node.js). This
directory models the Rust version in TLA+, checks it with TLC and proves the
core of it with TLAPS.

Line numbers are those of `src/dummycloud2/src/*.rs` unless a path is given.

## Inventory

| Component | Code | State | Operations | Hard behaviour | What makes it correct |
|---|---|---|---|---|---|
| Accept loop | `server.rs` `run` | none | accept, spawn a task | an accept error ends the program | every connection has its own task and state |
| Framing | `handle_connection`, `process_pending_packets`, `next_packet_len` | `pending` | read, drain, resynchronise, discard | any segmentation of the stream, noise, oversized headers, connections that break | the packets handed over do not depend on the segmentation; none is lost, none waits, the buffer is bounded |
| Parsing | `protocol.rs` | none | `parse_*`, `build_time_response`, `checksum` | required lengths written by hand beside the offsets, two byte orders, wrap-around of one byte | the two length computations agree; no parser reads behind a payload; fields are where the format has them; the response is a frame that names its request |
| Packet session | `process_packet`, `ConnectionState` | SSID, newest WIFI offset | one branch per packet type, the answer | failed publishes, packets that do not parse, records out of order, reconnects | one answer per packet, in order; the signal comes from the newest record of the right network |
| Program | all of `server.rs` with `mqtt.rs` | the sum of the others | a packet from the socket to the broker | every await of a handler lets other tasks, the queue and the broker run | a packet is answered when its handler is through and only then; the newest value of a topic is the one that arrives; reports of two connections leave no older value behind |
| Publisher | `mqtt.rs` `handle_*`, `ensure_autoconf` | discovery timestamps, logger metadata, the queue of the client | publish, discover, record | tasks race at every await; partial failure; full queue; lost broker; restart | data follow discovery, the timestamp tells the truth, handlers return |
| Event loop | `mqtt.rs` 87-102, `rumqttc` | session with the broker, queue | poll, reconnect | connection loss at QoS 0 | what is queued after a loss arrives |
| Stream dumper | `StreamDumper` and its calls | two files | open, append a chunk, append a line | files that cannot be created, writes that fail later than they are made | the connection does not notice; the log tells in order what was parsed and answered, up to what a failed write costs |
| Calendar | `unix_epoch_to_utc_iso8601`, `civil_from_unix_days` | none | seconds to date and time | leap years, centuries, ends of months | agrees with the Gregorian calendar |
| Configuration, start-up, logging, TLS | `config.rs`, `main.rs`, `connect` | none | once at start | none | not modelled |
| Legacy cloud | `src/dummycloud/src/*.js` | timestamps | one packet per data event | no reassembly | not modelled, superseded |

The components interact as follows. `run` spawns one task per connection. The
task reads bytes into `pending` (Framing) and calls `process_packet` for each
complete packet (Session), which awaits a handler of the one `MqttPublisher`
that all tasks share (Publisher). A handler takes two mutexes, each for the
length of one map access, and awaits `client.publish` once per message; that
call waits while the queue of 32 requests is full. The event loop, a task of
its own, empties the queue towards the broker. Only after the handler has
returned is the response written to the logger.

## Modules

| Module | Models | Lines of code it stands for |
|---|---|---|
| `PacketChannel` | what a logger may rely on (abstract) | - |
| `Framing` | one connection as a byte stream | server.rs 56-147, 157-168; protocol.rs 139-164, 260-289 |
| `Dump` | Framing composed with the stream dump | server.rs 56-175, 275-283, 291-395 |
| `Wire` | the bytes of one packet and its response | protocol.rs 102-137, 166-258, 291-416 |
| `Session` | packets of one logger's connections | server.rs 34-66, 149-289; mqtt.rs 205-332; protocol.rs 77-81, 96-103, 166-223 |
| `Publisher` | discovery, data and the queue | mqtt.rs 85-332, 334-770 |
| `Server` | Session composed with Publisher: the program | server.rs 27-74, 149-283; mqtt.rs 87-102, 188-202, 334-770 |
| `Calendar` | dates and times from seconds | mqtt.rs 907-932 |
| `FramingProofs`, `DumpProofs`, `WireProofs`, `SessionProofs`, `PublisherProofs`, `ServerProofs`, `CalendarProofs` | theorems about each | - |
| `DataTheorems` | induction over the numbers of a set, for `WireProofs` | - |
| `MCFraming`, `MCDump`, `MCWire`, `MCSession`, `MCPublisher`, `MCServer` | finite instances for TLC | - |

How they fit together:

    PacketChannel <- Framing <- Dump        a stream, cut into packets
                       |
                      Wire                  a packet, taken apart and answered
                       |
    Session + Publisher = Server            packets, handlers, queue, broker
                       |
                    Calendar                the times they carry

`<-` is a refinement that a run checks and a theorem states (for PacketChannel,
of its safety). `=` is a composition: each action of Server joins an action of
Session with one of Publisher or leaves one of them alone, so that it has their
behaviours by construction; what is checked of it is what neither has alone. The
others share no variable: Framing drains the bytes Wire parses, and the packets
of Session are records of what the parsers of Wire return.

Definitions whose comment begins with *Faulty* are variants of the definition
below them with a plausible mistake. Nothing uses them; each shows that some
property notices the mistake when it takes the place of the original
(`PROJECT.json`, `mutants`).

### Framing

A *wire* is everything the logger sends on one connection, together with its
*cut*, the intervals of the packets in it. `IsWire` defines the cut without
reference to reads: a packet begins at the first magic byte after the packet
before it, and has the length its header announces. The state is `received`
(how much of the wire `socket.read` has returned), `pending`, the control
location `pc`, `packet` (the `packet_bytes` that `process_packet` works on) and
the history `drained`. Each exit of the loops in `process_pending_packets` and
`next_packet_len` is an action: `NeedHeader`, `Resync`, `DiscardOversized`,
`NeedPayload`, `Drain`. A read returns any number of bytes up to the size of the
read buffer. Any read or write may fail.

After a header that announces too much, `pending.clear()` drops what has been
received so far; how much that is depends on the segmentation, so the reference
cut ends there, and the properties say what holds up to that point.

### Dump

`Dump` extends Framing with the files of `StreamDumper` and splits
`process_packet` at its calls of the dumper: `Parsed` or `ParseError`, then
`Response`, then `Written` or `NotWritten` (`stage`). A file of tokio hands what is
written to a thread and returns; an error of that thread comes back from the next
write, which writes nothing. `broken` is that debt and `missing` what a file lacks.
`lines` are the lines about packets that reached the log: a line whose write fails, or
reports the failure before it, is not among them. The header of the log, which `open`
writes, may fail too and cost the first line (`DumpInit`). A line knows the number of
its packet (`nr`), which its text does not have, so that the properties can say which
packets the log tells of, in which order and which it lacks. A connection whose files
could not be opened, or that was not asked for a dump, runs with `dumper` false.

### Wire

Each parser is a table of fields with the offsets of the source and the length it
requires. A field behind the end is `Outside`; in the code that is a panic, or an
error of `read_*`, that no length check announced. Numbers are their bytes in order of
significance. The sender's side is described apart from those tables, from the widths in
`src/assets/deye_sun600.ksy`: `LoggerPlaces`, `DataPlaces` and `WifiPlaces` say where the
format has a field, `SentOK` that a payload holds there what was sent. `MCWire` does not
use those numbers either: it puts its payloads together part by part, and TLC evaluates
`SentOK` on each of them, so that an offset that was added up wrongly fails the
assumption of the run.

### Session

Packets are records of what the handlers tell apart. `Take` is the common part
of all branches of `process_packet`; the branch computes the list of messages
its handler will publish, and `PublishNext` hands them over one at a time, which
is where other tasks may run. `Respond` writes the answer. `Restart` ends the
program anywhere; the broker keeps the retained topics. Timestamps are kept as
the pair of base and offset that the packets carry, because the code orders by
the offset alone; a WIFI record without a base has no time (`WifiTime`), a report
without one has a time that is shorter than its uptime and so no reboot time
(`TopicsOf`). `Telling` are the reports of a connection that tell a topic.

### Publisher

Each task walks through `ensure_autoconf` at the granularity of its awaits:
taking `now` (`StartData`), the check under the first mutex (`Suppress`,
`Expire`), the read of the metadata under the second (`ReadMetadata`), one
`Publish` per message, and `Record`. `next` is the position within a phase.
Messages are grouped, one for each run of messages that are published in a row
and do not differ for the properties: the five configurations of a PV input, the
seven of grid and inverter, the ten of the logger, and likewise the data. Each
DATA packet brings an `mppt_count` of its own. `StartLogger` and `StartStatus` are
the handlers that publish without discovery.

The client library is not part of the repository. `Send`, `ConnectionLost` and
`Fault` model what `mqtt.rs` relies on: `publish` waits while the bounded queue
is full and fails only when the event loop is gone; at QoS 0 nothing is
acknowledged, so that requests the event loop holds when the session breaks are
lost (any number of the oldest).

### Calendar

`Shown` is `unix_epoch_to_utc_iso8601` up to the layout of its text, `Civil` is
`civil_from_unix_days`; the reference is a calendar turned over one day at a time and
a clock moved on one second at a time.

### Server

`Server` instantiates Session and Publisher on shared variables and joins their
actions: a packet that Session takes starts a handler of Publisher, the publish that
completes a message of Session is the last one of its values in Publisher, and Session
answers when the handler of Publisher is through. `cargo` carries the value of each
queued request, `broker` the value each topic has at the broker. The metadata of the
logger are the handshake in Session and its number in Publisher (`generation`).

A logger may be set up with two servers that are both this program
(`src/dummycloud2/Readme.md:83`), and then its reports come in on two connections whose
messages interleave. `BrokerShowsReports` says what is left at the broker when all
connections are at rest: in each topic what the last report of one of them told, so that
no message is lost, replaced by an older one of its own connection, or shown for a report
that does not tell it. The three topics may be of different reports. It is stated as long as
no task has had a second connection (`NoneReplaced`), because `served` holds what the
present connection of a task sent.

## Runs

| Run | Specification, bounds | Shows |
|---|---|---|
| `framing_soup` | all strings up to 8 of the bytes 0, 1, 21, 165; header 3, footer 1, packet limit 5, reads up to 5 | the seven invariants of Framing |
| `dump` | up to 3 pieces (packets of every legal length, with magic bytes inside, with a bad footer, noise, a truncated one); header 4, footer 2, limit 8, reads up to 7; 1 failed write | a dumped connection is one of Framing and implements PacketChannel, with liveness; the log is true, in order and, up to two lines for a failed write, complete; losses are bounded |
| `session_mixed` | 13 packets of every kind, 3 per connection, 2 connections in turn | answers in order, each report topic shows the last report that tells it, the signal is from the newest matching record |
| `session_reboot` | records of two boots, one connection | finding: an older record replaces the signal |
| `session_answer` | DATA packets, one connection | finding: a DATA packet is not answered |
| `publisher_two` | 2 tasks, 1 or 2 PV inputs per packet, queue of 1, interval 0, clock to 1, one fault of any kind | the timestamp tells the truth, data follow discovery into the queue and to the broker |
| `publisher_one` | 1 task, 1 or 2 PV inputs with room for 1, queue of 2, interval 1, clock to 2, 2 handshakes, 1 loss or death of the event loop | discovery is not repeated early |
| `publisher_live` | 2 tasks, queue of 1, 1 fault of any kind, fair broker | handlers return, discovery arrives |
| `publisher_down` | 1 task, queue of 3, broker may stay away | finding: a handler never returns |
| `calendar` | days 0 to 99420, every second of two of them | date and time are right on each of them |
| `wire` | payloads of the documented format with texts from empty to as long as their fields allow, every length of payload up to 255, every header byte at its ends | parsers stay inside, fields are read back, the response is a frame whose checksum shows damage |
| `server` | 2 connections, 2 packets each of 5 (a report of a clock that is set and one of a clock that is not), queue of 1, one fault of any kind, or one tick with 3 packets | tasks agree, newest values arrive, two connections that report leave values of their last reports, discovery knows the logger |

Why the bounds are enough. The lengths of Framing are parameters; small ones make
strings of eight bytes hold two whole packets, or noise, a packet, an oversized
header and the start of a second packet, and each read smaller than, equal to and
larger than a packet. The proofs below cover every other value. In Session two
connections and three packets each let a handshake, two WIFI records and a reconnect
meet in every order; connections that are open at once meet in `server`. In
Publisher an interval of one tick (`publisher_one`) with a clock that reaches two
lets a timestamp be fresh, exactly at the limit and expired (the interval of the
code is four hours); two tasks let one overtake the other at every await; a queue
shorter than one discovery blocks a task in the middle of it. 99420 is the last day
two 32 bit counters of seconds can add up to, so `calendar` is exhaustive for the
program. In `dump` one failed write is enough for each of the two files to be the
one that fails, at every call; `LossBounded` is proved for any number. In `wire` a
payload of 255 bytes is longer than any parser requires, and the shortest and the
longest text of each field are among the lengths. In `server` a queue of one makes
every publish wait for the broker; `OneEvent` lets time pass only where no fault
happened and three packets are taken, because a tick matters to nothing but the age
of the timestamp, which the runs of Publisher explore.

Deadlock is checked in Publisher. In the other runs behaviours really end (a
connection closes, the logger stops sending, a packet is answered, the last day is
reached), and their configurations say so.

## Fairness

`Framing!FairSpec`: the task of a connection is run by the tokio scheduler while
it can run (weak fairness of `FrameStep` and `PacketDone`), and TCP delivers what
was sent unless the connection breaks (weak fairness of `ReadSome`). Nothing makes
the logger close the connection. `Dump!FairDumpSpec` is the same fairness for the
same steps with their records: writes to the dump take a thread of the runtime and
return.

`Publisher!TaskFairness`: weak fairness of the steps that need no room in the
queue; strong fairness of `Publish`, because the channel of the client serves
waiting senders in turn. `BrokerFairness` adds that the broker can be reached
again and takes what is sent; `publisher_down` drops it. Logger and clock are not
fair.

## Proofs

`FramingProofs` proves, for every value of the constants that satisfies
`FramingAssumption` and `WiresAssumption`:

- `TypeCorrect`, `Window`: types; `pending` is the window of the wire between what
  was consumed and what was received.
- `Invariant`: `FramingInv` is an invariant. The properties are not inductive by
  themselves: that the next drained bytes are the next packet of the cut needs to
  know where in the wire the buffer stands. `OnCut` says so: what was consumed ends
  at the last drained packet or in the noise behind it, where there is no magic
  byte. `PastCut` is the state after an oversized header.
- `BufferBounded`, `NeverWaits`, `FooterOnly`, `SegmentationIndependent`,
  `CompleteAtClose`: the safety properties of the runs, from that invariant.
- `ImplementsSafeChannel`: with wires that have no oversized header, every step
  maps to a step of `PacketChannel` or to none.
- `LoopsEnd`: the loop over the buffer ends, and the connection with it. `Work` counts
  four for each byte still to be received and two for each in the buffer, and every step
  makes it smaller: a step that consumes nothing goes back to a read, and a read takes
  twice as much from the one as it adds to the other.

The argument goes bottom up: lemmas on windows of a sequence (grow, split, drop the
first), the arithmetic of the state (`Numbers`), a header in `pending` is a header
of the wire (`HeaderOfWire`), and on the cut it is that of the next packet
(`HeaderOnCut`); then one lemma per invariant with a step per action. `FramingInv`
was checked by TLC on the instances of both runs before it was proved.

`PublisherProofs` proves, for every set of tasks and every value of the constants
that satisfies `PublisherAssumption`:

- `TypeCorrect`: types; a task is never past the message behind the last one of
  its phase.
- `Invariant`: `PublisherInv` is an invariant. That the recorded time stands for a
  whole discovery is not inductive: `Record` takes it from the task, so one has to
  know what the task has queued since it took the time (`DiscoveryProgress`), and
  that no time lies in the future (`TimesPassed`). One lemma each for the steps
  that queue (`PublishStep`), record (`RecordStep`) and restart (`RestartStep`);
  all others are `Quiet` and share one.
- `StampCorrect`, `DataCorrect`, `AnnouncementCorrect`: the invariants of
  `publisher_two`. The last one needs that without faults everything that was queued
  is at the broker or on its way (`QueuedArrives`).

- `QuietCorrect`: with one task (`OneConnection`) discovery is not repeated early. With
  two it is, which no document excludes: both check the time before either records it.
  The invariant is `DiscoveryDue`: when a task is past the check the recorded time is
  missing or expired, still.
- `HandlersCome`: the half of `HandlerReturns` that does not depend on fairness. `ToTake`
  is how many steps a handler takes at most until it has returned, a number bounded by
  the contents of its packet (`StepsBounded`). Every step of its own lowers that number, a
  publish that fails included, and no step of another task, of the clock, the queue or
  the broker raises it (`HandlersAdvance`). What is left to fairness is that the
  next step comes, which is where `publisher_down` shows it may not.

`SessionProofs` proves, for every set of packets and texts and any number of
connections under `SessionAssumption`:

- `TypeCorrect`: types.
- `Invariant`: `SessionInv`. That a published signal is the newest is not inductive:
  `StateOfPackets` says that SSID and offset of a connection are those of the
  packets it has served, `SignalUnderWay` and `AnswerUnderWay` what the messages and the
  answer still to come look like. One lemma says what taking a packet does
  (`HandleStep`), one what the other steps of its connection do (`ConnStep`), one that
  a step leaves other connections alone (`OthersSame`).
- `AnswersCorrect`, `SignalCorrect`; and `ReportCorrect`, with one connection, from two
  invariants of its own: a message of a report under way is of the last report that tells
  its topic (`ReportUnderWay`), and what that report told is shown or under way
  (`ReportShownOrUnderWay`). The reboot time may stay that of an older report than uptime
  and report time, when the clock of the logger was lost since; the property says so
  topic by topic.
- For any number of connections, as long as none was replaced (`NoneReplaced`) and the
  event loop runs, `Settling`: a topic of a report has never been told, or shows what the
  last report of some connection told, or that connection still has a message for it. It
  is kept by every step (`SettleStep`) and used by `ReportsArrive` below.
- `SignalForward`, with one connection: the signal shown is that of a record
  (`SignalIsRecord`), and one that would be replaced by an older record cannot be, because
  the record under way carries the largest offset of the connection.

`ServerProofs` proves about the program, under the assumptions of both parts:

- `SessionsHold`, `PublisherHolds`: the theorems above are true of the program, each step
  of which is a step of Session or leaves it alone, and the same for Publisher (the lemmas
  `SessionRefined` and `PublisherRefined`, which hold by the shape of `Server`).
  The theorems are about the modules, the program uses instances of them;
  `SameSessions` and `SamePublisher` connect the two.
- `HandlersHold`: handlers come to their end in the program, too.
- `OneLoggerSessions`, `OneLoggerQuiet`: the same for what holds with one connection only.
- `Invariant` and from it `AgreementCorrect`, `ArrivalCorrect`, `KnowledgeCorrect`. The
  types of the two parts come from `SessionsHold` and `PublisherHolds`, so that the
  induction is only about what neither part sees alone: `cargo`, the phases of a handler
  against the messages that are left, and the metadata (`MetadataThere`).
- `OneLoggerBroker`: from the logger to the broker. With one connection and no faults,
  whenever the connection is at rest each topic of a report is left with what the last
  report that tells it told (`BrokerShowsLastReport`): the broker has it, or it is behind
  all others of its topic in the queue. It puts together what Session says of the values
  handed to the client and what `ArrivalCorrect` says of their way.
- `ReportsArrive`: `BrokerShowsReports`, for any number of connections. Without faults the
  event loop runs and tasks only end by closing, so that `Settling` of SessionProofs is
  kept; when all connections are at rest no message is under way, and `ArrivalCorrect`
  brings to the broker what was handed over.

`DumpProofs` proves `ConnectionRefined` and with it `ConnectionHolds` (the invariant of
Framing is true of a dumped connection), `DumpTypeCorrect`, and `LossCorrect`, whose
induction needs that a file that has not reported its failure has lost one write less
(`LossInv`). `DumpImplementsSafeChannel` carries the refinement of PacketChannel over to
a dumped connection. `LogInvariant` is about the log: the lines that reached it are true
and in order (`LinesTrue`, `LinesInOrder`), and the packets and answers it does not tell of
are at most as many as the lines that were lost (`LinesLost`). That needs
`LogFollowsStage`, what each stage of `process_packet` knows of its packet, and
`NoAnswerAhead`. `LossBounded` then bounds what was lost by the writes that failed
(`LossPaid`), and `PacketsTold` and `AnswersTold` follow.

`WireProofs` proves

- `AlwaysInside` for payloads of every length and content, one lemma per parser;
- `ResponsesFramed`: every response passes the checks of header, footer and checksum and
  names its request, whatever the request, the payload and the time of day;
- `FieldsCorrect`: whatever a sender wrote at the places of the format is what the parsers
  return, under `WireAssumption`: texts up to their zero byte, the MAC address, numbers
  of each width in their own byte order. The argument has a lemma for each kind of field
  (`TextRead` and `ReverseRead` are the ones that are not immediate) and, for each format,
  one that its table of offsets reads what is at the places (`LoggerReads`,
  `DataReads`, `WifiReads`);
- `DamageSeen`: whichever byte of a response is replaced by whichever other byte, those
  checks refuse it. The run tries three changes per byte.

The checksum is a recursive function, `SumTo`. That it exists and what it does when one
byte changes takes induction; that of the library takes an operator, so `DataTheorems`
proves one for sets of numbers from the least element of a set, and `SumExists`,
`SumSteps` and `SumDamaged` use it.

`CalendarProofs` proves `TypeCorrect` and `TimestampsCorrect` for every day and every second
from the epoch on: `MaxDay` and `Watched`, which bound the run, are parameters. Turning a
calendar over is counting, the code divides, and nothing relates the two step by step; so
the proof goes through a third description. `YearOfEraIs` shows that the year of an era
that is computed is the one that contains the day (the corrections by 1460, 36524 and
146096 days are never one too many or too few), `CivilIs` that a day is therefore day
`doy` of year `y` of an era, `DayUnique` that it is so in one way. The successor in that
description is easy: the next day of the year, the next year, or the next era
(`CivilTomorrow`). The inductive invariant is `Turning`: calendar and clock are at the day
and second the arithmetic is asked for; TLC checked it on the run before it was proved.

Only model-checked is liveness (`HandlerReturns`, `DiscoveryReachesBroker`, the liveness of
`ImplementsChannel`): fairness and ENABLED are beyond the prover. `LoopsEnd` and
`HandlersCome` are what can be proved of it: there is no way to go on for ever without
getting to the end.

All other properties of the passing runs are theorems. Those that hold for one connection
only (`LastReportShown`, `SignalForwardInConnection`, `QuietBetweenDiscoveries`) are proved under that assumption, and their runs have one connection at a
time.

## What the runs found

- `session_answer`: a DATA packet whose payload does not parse is not answered
  (server.rs:217), other packets that do not parse are; `src/Readme.md:241` speaks of
  all types.
- `session_reboot`: WIFI records are ordered by their offset alone (server.rs:253).
  After a reboot of the logger the offsets start again, and a cached record of the
  previous boot overwrites the live signal, against `src/Readme.md:251-253`. The same
  happens across a reconnect, because the offset lives in `ConnectionState`.
- `publisher_down`: while the broker is away the queue fills up and loggers are no
  longer answered (mqtt.rs:768, server.rs:280), against `src/dummycloud2/Readme.md:9`.

## Not modelled

- Configuration (`config.rs`), start-up and logging (`main.rs`) and the broker set-up at
  the beginning of `MqttPublisher::connect`: environment variables, URL, credentials and
  TLS options are read once and passed to libraries. They keep no state and meet no
  other component again.
- The fields of discovery payloads, number formats and the text of the dump are layout;
  no property could tell two layouts apart but one that repeats them.
- The accept loop is only the `Connect` of Session and Server. An error of `accept` ends the program
  and is one of the ways to `Restart`.
- The division of numbers by powers of ten and the decoding of texts as UTF-8: they keep
  no state and do not choose between branches. Uptimes are compared where the code
  compares them (`Session!Time`).
- The integer width of timestamps: sums of two `u32` in a `u64` do not overflow.
- The first version of the service in Node.js (`src/dummycloud`), which the Rust one
  replaces, and the packaging of both.

What the code does without promising otherwise has no property: a header that announces
too much clears what has been received (server.rs:138), a magic byte in noise starts a
phantom packet (server.rs:113), a read has no timeout (server.rs:69), the checksum of a
received packet is not looked at (protocol.rs:152-164), and two connections of one logger
may mix the three topics of a report (mqtt.rs:275; `BrokerShowsReports` says what holds
of each topic). Metadata are cloned when a discovery begins (mqtt.rs:353): with two
connections a discovery that began before a handshake may publish its older ones last;
and metadata that arrive behind a discovery wait for the next one (mqtt.rs:344).
Configurations are published for every input `mppt_count` announces, data for the four a
payload has (mqtt.rs:357). The two mutexes of the publisher are no state of the model: each
is held for one access to its map and across no await.
