------------------------------ MODULE Publisher ------------------------------
(***************************************************************************)
(* MqttPublisher (src/dummycloud2/src/mqtt.rs) for one logger: the tasks   *)
(* of its connections share the discovery timestamp and the metadata of    *)
(* the logger, each behind a mutex of its own, and the bounded queue of    *)
(* the MQTT client, which one event loop empties towards the broker.       *)
(* A task may be overtaken wherever handle_data, ensure_autoconf,          *)
(* handle_logger, handle_report and handle_wifi await: at both mutexes and *)
(* at every publish.                                                       *)
(*                                                                         *)
(* Messages are grouped: one configuration message stands for the five of  *)
(* a PV input, one for the seven of grid and inverter, one for the ten of  *)
(* the logger; one data message for the values of a PV input, and one for  *)
(* those of grid and inverter.                                             *)
(***************************************************************************)
EXTENDS Integers, Sequences

CONSTANTS
  Conns,          \* the tasks, one per connection of the logger
  PvCounts,       \* the values of mppt_count in live DATA packets
  MaxPvCount,     \* no value is larger: 255 at most, mppt_count is a byte
  PvSlots,        \* protocol.rs: how many PV inputs a payload has room for, 4
  LoggerCounts,   \* how many messages handle_logger publishes, up to 6
  StatusCounts,   \* how many handle_report and handle_wifi do, up to 3
  Capacity,       \* of the queue of AsyncClient: 32
  Interval,       \* AUTOCONF_INTERVAL, in ticks of the clock
  Faults,         \* the faults that may happen: "lost", "dies", "restart"
  MaxTime,        \* bound: the clock stops there
  MaxHandshakes,  \* bound: handshakes of the logger
  MaxFaults       \* bound: faults in total

ASSUME PublisherAssumption ==
  /\ MaxPvCount \in Nat /\ PvCounts \subseteq 1..MaxPvCount /\ PvCounts # {}
  /\ PvSlots \in Nat \ {0}
  /\ LoggerCounts \subseteq Nat \ {0} /\ StatusCounts \subseteq Nat \ {0}
  /\ Capacity \in Nat \ {0}
  /\ Interval \in Nat
  /\ MaxTime \in Nat /\ MaxHandshakes \in Nat /\ MaxFaults \in Nat

\* The configurations: of each PV input, of grid and inverter, of the logger.
PlantConfig  == MaxPvCount + 1
LoggerConfig == MaxPvCount + 2
Configs      == 1..LoggerConfig

\* The k-th that ensure_autoconf publishes when mppt_count is n, and those
\* that it publishes whatever the count.
Config(n, k) ==
  IF k <= n THEN k ELSE IF k = n + 1 THEN PlantConfig ELSE LoggerConfig

Announced ==
  {i \in 1..MaxPvCount : \A n \in PvCounts : i <= n}
    \cup {PlantConfig, LoggerConfig}

\* No time, and no configuration at the broker.
Never == -1

-----------------------------------------------------------------------------
VARIABLES
  clock,        \* Instant::now(), in ticks
  stamp,        \* autoconf_timestamps of the logger, or Never
  metadata,     \* logger_metadata: the number of the handshake, 0 for none
  handshakes,   \* how many handshakes were handled
  pc,           \* [Conns -> Locations]: where the task is
  size,         \* [Conns -> Nat]: mppt_count of the DATA packet it handles,
                \* of another packet the number of its messages
  next,         \* [Conns -> Nat]: the next message of the phase it is in
  now,          \* [Conns -> Nat]: now of ensure_autoconf
  device,       \* [Conns -> Nat]: the metadata in the device payload
  queue,        \* the requests the client holds, oldest first
  connected,    \* the event loop has a session with the broker
  alive,        \* the event loop runs
  shown,        \* [Configs -> Int]: the metadata in the retained configuration
  faults,       \* how many faults happened
  enqueuedAt    \* history: when each configuration was last queued

shared == <<stamp, metadata, handshakes>>
client == <<queue, connected, alive>>
task == <<pc, size, next, now, device>>
vars == <<clock, shared, task, client, shown, faults, enqueuedAt>>

\* "check", "meta", "config": in ensure_autoconf before the timestamp check,
\* before the metadata is read, publishing and then recording; "data",
\* "logger" and "status": handle_data, handle_logger, and handle_report or
\* handle_wifi publishing; "respond": the handler has returned an error.
Publishing == {"config", "data", "logger", "status"}
OfData     == {"check", "meta", "config", "data"}
Locations  == Publishing \cup OfData \cup {"idle", "respond"}

\* How many messages the phase of a task has.  handle_data takes as many PV
\* inputs as the payload has room for, ensure_autoconf does not look.
Length(c) ==
  CASE pc[c] = "config" -> size[c] + 2
    [] pc[c] = "data"   -> (IF size[c] <= PvSlots THEN size[c] ELSE PvSlots) + 1
    [] pc[c] \in {"logger", "status"} -> size[c]
    [] OTHER            -> 0

Messages ==
  [kind : {"config"}, topic : Configs, device : Nat]
    \cup [kind : Publishing \ {"config"}, topic : Nat, device : Nat]

TypeOK ==
  /\ clock \in Nat
  /\ stamp \in Nat \cup {Never}
  /\ metadata \in Nat /\ handshakes \in Nat
  /\ pc \in [Conns -> Locations]
  /\ size \in [Conns -> Nat]
  /\ \A c \in Conns : pc[c] \in OfData => size[c] \in PvCounts
  /\ next \in [Conns -> Nat \ {0}]
  /\ \A c \in Conns : next[c] <= Length(c) + 1
  /\ now \in [Conns -> Nat]
  /\ device \in [Conns -> Nat]
  /\ queue \in Seq(Messages)
  /\ connected \in BOOLEAN /\ alive \in BOOLEAN
  /\ shown \in [Configs -> Nat \cup {Never}]
  /\ faults \in Nat
  /\ enqueuedAt \in [Configs -> Nat \cup {Never}]

Init ==
  /\ clock = 0
  /\ stamp = Never
  /\ metadata = 0 /\ handshakes = 0
  /\ pc = [c \in Conns |-> "idle"]
  /\ size = [c \in Conns |-> 0]
  /\ next = [c \in Conns |-> 1]
  /\ now = [c \in Conns |-> 0]
  /\ device = [c \in Conns |-> 0]
  /\ queue = <<>>
  /\ connected = FALSE /\ alive = TRUE
  /\ shown = [t \in Configs |-> Never]
  /\ faults = 0
  /\ enqueuedAt = [t \in Configs |-> Never]

-----------------------------------------------------------------------------
\* The task goes to a location and to the first message of its phase.
Goto(c, location) ==
  /\ pc' = [pc EXCEPT ![c] = location]
  /\ next' = [next EXCEPT ![c] = 1]

\* Faulty: off by one.
PhaseDoneLate(c) == next[c] > Length(c) + 1

\* All messages of the phase are in the queue.
PhaseDone(c) == next[c] > Length(c)

Unshared == UNCHANGED <<clock, client, shown, faults, enqueuedAt>>

\* A live DATA packet with mppt_count n: handle_data calls ensure_autoconf,
\* which takes now.
StartData(c, n) ==
  /\ pc[c] = "idle"
  /\ n \in PvCounts
  /\ size' = [size EXCEPT ![c] = n]
  /\ now' = [now EXCEPT ![c] = clock]
  /\ Goto(c, "check")
  /\ UNCHANGED <<shared, device>> /\ Unshared

\* Faulty: off by one.
IsFreshStrict(c) ==
  /\ stamp # Never
  /\ now[c] <= stamp \/ now[c] - stamp < Interval

\* now.duration_since(last) <= AUTOCONF_INTERVAL, with now and last as
\* Instants: the difference saturates at zero.
IsFresh(c) ==
  /\ stamp # Never
  /\ now[c] <= stamp \/ now[c] - stamp <= Interval

\* The timestamp is recent: on to the data.
Suppress(c) ==
  /\ pc[c] = "check"
  /\ IsFresh(c)
  /\ Goto(c, "data")
  /\ UNCHANGED <<shared, size, now, device>> /\ Unshared

\* Faulty: discovery is recorded when it begins.
ExpireRecords(c) ==
  /\ pc[c] = "check"
  /\ ~IsFresh(c)
  /\ stamp' = now[c]
  /\ Goto(c, "meta")
  /\ UNCHANGED <<metadata, handshakes, size, now, device>> /\ Unshared

\* There is none or it is old: the mutex is released, discovery begins.
Expire(c) ==
  /\ pc[c] = "check"
  /\ ~IsFresh(c)
  /\ Goto(c, "meta")
  /\ UNCHANGED <<shared, size, now, device>> /\ Unshared

\* The device payload of all configurations is made from the metadata as it
\* is now.
ReadMetadata(c) ==
  /\ pc[c] = "meta"
  /\ device' = [device EXCEPT ![c] = metadata]
  /\ Goto(c, "config")
  /\ UNCHANGED <<shared, size, now>> /\ Unshared

\* Faulty: the time discovery ended is recorded.
RecordEnd(c) ==
  /\ pc[c] = "config"
  /\ PhaseDone(c)
  /\ stamp' = clock
  /\ Goto(c, "data")
  /\ UNCHANGED <<metadata, handshakes, size, now, device>> /\ Unshared

\* Discovery is in the queue: the time it began is recorded, and the data
\* follow.
Record(c) ==
  /\ pc[c] = "config"
  /\ PhaseDone(c)
  /\ stamp' = now[c]
  /\ Goto(c, "data")
  /\ UNCHANGED <<metadata, handshakes, size, now, device>> /\ Unshared

\* A handshake: handle_logger replaces the metadata, then publishes it in n
\* messages, never none: the serial number at least.
StartLogger(c, n) ==
  /\ pc[c] = "idle"
  /\ n \in LoggerCounts
  /\ handshakes < MaxHandshakes
  /\ handshakes' = handshakes + 1
  /\ metadata' = handshakes + 1
  /\ size' = [size EXCEPT ![c] = n]
  /\ Goto(c, "logger")
  /\ UNCHANGED <<stamp, now, device>> /\ Unshared

\* A report, or a WIFI record whose signal is shown: n messages.
StartStatus(c, n) ==
  /\ pc[c] = "idle"
  /\ n \in StatusCounts
  /\ size' = [size EXCEPT ![c] = n]
  /\ Goto(c, "status")
  /\ UNCHANGED <<shared, now, device>> /\ Unshared

\* client.publish has room for the next message of the phase.
Publish(c) ==
  LET topic == IF pc[c] = "config" THEN Config(size[c], next[c]) ELSE next[c]
  IN  /\ pc[c] \in Publishing
      /\ ~PhaseDone(c)
      /\ alive
      /\ Len(queue) < Capacity
      /\ queue' = Append(queue, [kind |-> pc[c], topic |-> topic,
                                 device |-> device[c]])
      /\ enqueuedAt' = IF pc[c] = "config"
                       THEN [enqueuedAt EXCEPT ![topic] = clock]
                       ELSE enqueuedAt
      /\ next' = [next EXCEPT ![c] = @ + 1]
      /\ UNCHANGED <<clock, shared, pc, size, now, device, connected, alive,
                     shown, faults>>

\* Faulty: a failed publish is tried again.
PublishErrorRetries(c) ==
  /\ pc[c] \in Publishing
  /\ ~PhaseDone(c)
  /\ ~alive
  /\ UNCHANGED vars

\* The event loop is gone: publish fails and the handler returns the error.
PublishError(c) ==
  /\ pc[c] \in Publishing
  /\ ~PhaseDone(c)
  /\ ~alive
  /\ Goto(c, "respond")
  /\ UNCHANGED <<shared, size, now, device>> /\ Unshared

\* The handler has returned, its locals are gone, and the packet is answered.
Respond(c) ==
  /\ \/ pc[c] \in Publishing \ {"config"} /\ PhaseDone(c)
     \/ pc[c] = "respond"
  /\ Goto(c, "idle")
  /\ size' = [size EXCEPT ![c] = 0]
  /\ now' = [now EXCEPT ![c] = 0]
  /\ device' = [device EXCEPT ![c] = 0]
  /\ UNCHANGED shared /\ Unshared

-----------------------------------------------------------------------------
\* The oldest request reaches the broker, which retains configurations.
Send ==
  /\ alive /\ connected
  /\ queue # <<>>
  /\ queue' = Tail(queue)
  /\ shown' = IF Head(queue).kind = "config"
              THEN [shown EXCEPT ![Head(queue).topic] = Head(queue).device]
              ELSE shown
  /\ UNCHANGED <<clock, shared, task, connected, alive, faults, enqueuedAt>>

\* Faulty: requests that wait are dropped when the session is new.
ReconnectClears ==
  /\ alive /\ ~connected
  /\ connected' = TRUE
  /\ queue' = <<>>
  /\ UNCHANGED <<clock, shared, task, alive, shown, faults, enqueuedAt>>

\* The event loop polls again five seconds after an error, and connects.
Reconnect ==
  /\ alive /\ ~connected
  /\ connected' = TRUE
  /\ UNCHANGED <<clock, shared, task, queue, alive, shown, faults, enqueuedAt>>

Fault(kind) ==
  /\ kind \in Faults
  /\ faults < MaxFaults
  /\ faults' = faults + 1

\* The session with the broker breaks.  Nothing is acknowledged at QoS 0:
\* the requests the event loop has taken are forgotten with the session.
ConnectionLost ==
  /\ Fault("lost")
  /\ connected
  /\ connected' = FALSE
  /\ \E n \in 0..Len(queue) : queue' = SubSeq(queue, n + 1, Len(queue))
  /\ UNCHANGED <<clock, shared, task, alive, shown, enqueuedAt>>

\* The task of the event loop panics: nothing starts it again.
LoopDies ==
  /\ Fault("dies")
  /\ alive
  /\ alive' = FALSE
  /\ connected' = FALSE
  /\ UNCHANGED <<clock, shared, task, queue, shown, enqueuedAt>>

\* The program stops and is started again: timestamps, metadata and queue
\* are gone, the broker keeps what it retained.
Restart ==
  /\ Fault("restart")
  /\ stamp' = Never
  /\ metadata' = 0
  /\ pc' = [c \in Conns |-> "idle"]
  /\ size' = [c \in Conns |-> 0]
  /\ next' = [c \in Conns |-> 1]
  /\ now' = [c \in Conns |-> 0]
  /\ device' = [c \in Conns |-> 0]
  /\ queue' = <<>>
  /\ connected' = FALSE
  /\ alive' = TRUE
  /\ UNCHANGED <<clock, handshakes, shown, enqueuedAt>>

Tick ==
  /\ clock < MaxTime
  /\ clock' = clock + 1
  /\ UNCHANGED <<shared, task, client, shown, faults, enqueuedAt>>

-----------------------------------------------------------------------------
\* The steps of a handler that need no room in the queue.
TaskStep(c) ==
  \/ Suppress(c)
  \/ Expire(c)
  \/ ReadMetadata(c)
  \/ Record(c)
  \/ PublishError(c)
  \/ Respond(c)

Next ==
  \/ \E c \in Conns :
       \/ \E n \in PvCounts : StartData(c, n)
       \/ \E n \in LoggerCounts : StartLogger(c, n)
       \/ \E n \in StatusCounts : StartStatus(c, n)
       \/ TaskStep(c)
       \/ Publish(c)
  \/ Send
  \/ Reconnect
  \/ ConnectionLost
  \/ LoopDies
  \/ Restart
  \/ Tick

Spec == Init /\ [][Next]_vars

(***************************************************************************)
(* The runtime keeps running every task that can run.  The queue of the    *)
(* client lets waiting senders in by turns (strong fairness of Publish).   *)
(* Nothing makes the logger send, or the broker reachable.                 *)
(***************************************************************************)
TaskFairness ==
  \A c \in Conns : WF_vars(TaskStep(c)) /\ SF_vars(Publish(c))

TaskFairSpec == Spec /\ TaskFairness

\* In addition the broker can be reached again and takes what is sent.
BrokerFairness == WF_vars(Send) /\ WF_vars(Reconnect)

FairSpec == Spec /\ TaskFairness /\ BrokerFairness

-----------------------------------------------------------------------------
\* The timestamp that suppresses discovery for the next hours is there only
\* if the whole discovery of some DATA packet was queued, and not before that
\* time, whatever other tasks did, which publishes failed, and in which order
\* the tasks recorded their times (mqtt.rs:340-348, 754-755).
StampMeansDiscovered ==
  stamp # Never =>
    \E n \in PvCounts : \A k \in 1..(n + 2) : enqueuedAt[Config(n, k)] >= stamp

\* No data are published before the entities they belong to were announced
\* recently: not more than the interval before the DATA packet arrived.  The
\* timestamp does not tell for how many PV inputs, so this is about those
\* that every packet has (mqtt.rs:123-129, 340-348).
DataAfterDiscovery ==
  \A c \in Conns : pc[c] = "data" =>
    \A t \in Announced : /\ enqueuedAt[t] # Never
                         /\ now[c] - enqueuedAt[t] <= Interval

\* The broker shows a configuration or is sent it by the first n requests.
Arrives(t, n) ==
  \/ shown[t] # Never
  \/ \E i \in 1..n : queue[i].kind = "config" /\ queue[i].topic = t

\* As long as nothing fails, values reach the broker after the entities they
\* belong to, also when another task than the one that publishes them brought
\* discovery about (mqtt.rs:123-203, 336-757).
AnnouncedBeforeData ==
  faults = 0 =>
    \A i \in DOMAIN queue : queue[i].kind = "data" =>
      \A t \in Announced : Arrives(t, i - 1)

\* The inductive invariant behind it: without a fault nothing queued is lost.
QueuedArrives ==
  faults = 0 =>
    \A t \in Announced : enqueuedAt[t] # Never => Arrives(t, Len(queue))

\* The inductive invariant behind the first two: a task in discovery has queued the
\* configurations before its next one since it took the time, and no time is
\* in the future.
DiscoveryProgress ==
  \A c \in Conns : pc[c] = "config" =>
    \A k \in 1..(next[c] - 1) : enqueuedAt[Config(size[c], k)] >= now[c]

TimesPassed == stamp <= clock /\ \A c \in Conns : now[c] <= clock

PublisherInv ==
  /\ TypeOK
  /\ DiscoveryProgress
  /\ TimesPassed
  /\ StampMeansDiscovered
  /\ DataAfterDiscovery
  /\ QueuedArrives
  /\ AnnouncedBeforeData

\* With one connection and a client that works, discovery is not repeated
\* before the interval is over, although one that failed is tried again
\* with the next DATA packet (mqtt.rs:344-346).
QuietBetweenDiscoveries ==
  [][\A c \in Conns : pc[c] = "meta" /\ pc'[c] = "config" /\ stamp # Never =>
       clock - stamp > Interval]_vars

\* Every handler returns, and so every packet is answered, as long as the
\* broker comes back.
HandlerReturns ==
  \A c \in Conns : pc[c] # "idle" ~> pc[c] = "idle"

\* When no fault can happen any more, a discovery that begins reaches the
\* broker, with the metadata of that moment or later ones.
DiscoveryReachesBroker ==
  \A c \in Conns : \A t \in Announced : \A m \in 0..MaxHandshakes :
    (pc[c] = "meta" /\ metadata = m /\ faults = MaxFaults /\ alive)
      ~> shown[t] >= m

=============================================================================
