-------------------------------- MODULE Server --------------------------------
(***************************************************************************)
(* The program as a whole: the sessions of a logger (module Session) run   *)
(* in the tasks whose steps module Publisher has in detail.  process_packet *)
(* (src/dummycloud2/src/server.rs) awaits the handler it calls, so a       *)
(* message that Session hands over in one step passes the discovery, the   *)
(* queue of the MQTT client and the session with the broker here, and each *)
(* of them may keep the packet from being answered.                        *)
(*                                                                         *)
(* Each action joins an action of Session with one of Publisher, or leaves *)
(* one of the two alone; beside them there are only the values of queued   *)
(* messages and what the broker was told.                                  *)
(***************************************************************************)
EXTENDS Integers, Sequences

CONSTANTS
  Conns, Packets, Texts, Trimmed, Blank, None, MaxPackets, MaxOpens,
  PvCounts, MaxPvCount, PvSlots, LoggerCounts, StatusCounts, Capacity,
  Interval, Faults, MaxTime, MaxHandshakes, MaxFaults

VARIABLES
  open, ssid, last, busy, todo, metadata, topics, opens, served, answered,
  clock, stamp, generation, handshakes, pc, size, next, now, device, queue,
  connected, shown, faults, enqueuedAt,
  alive,     \* the event loop runs, in Session and in Publisher
  cargo,     \* for each request in queue the message of Session it completes
  broker     \* what the broker was told last, for each topic of Session

\* The metadata of a logger are the handshake they were made from in Session
\* and its number in Publisher.
S == INSTANCE Session
P == INSTANCE Publisher WITH metadata <- generation

ASSUME ServerAssumption ==
  /\ S!SessionAssumption
  /\ P!PublisherAssumption
  /\ {1, 2} \subseteq LoggerCounts
  /\ {1, 2, 3} \subseteq StatusCounts

sessionOnly == <<open, ssid, last, busy, todo, metadata, topics, opens, served,
                 answered>>
publisherOnly == <<clock, stamp, generation, handshakes, pc, size, next, now,
                   device, queue, connected, shown, faults, enqueuedAt>>
outside == <<cargo, broker>>
vars == <<sessionOnly, publisherOnly, alive, outside>>

\* A request that completes no message.
Part == [topic |-> "part", value |-> None]

TypeOK ==
  /\ cargo \in Seq(S!Messages \cup {Part}) /\ Len(cargo) = Len(queue)
  /\ DOMAIN broker = S!Topics

Init ==
  /\ S!Init
  /\ P!Init
  /\ cargo = <<>>
  /\ broker = [t \in S!Topics |-> None]

-----------------------------------------------------------------------------
Connect(c) ==
  /\ S!Connect(c)
  /\ UNCHANGED <<publisherOnly, outside>>

\* Faulty: the metadata of the logger go with any of its connections.
DisconnectForgets(c) ==
  /\ S!Disconnect(c)
  /\ generation' = 0
  /\ UNCHANGED <<clock, stamp, handshakes, pc, size, next, now, device, queue,
                 connected, shown, faults, enqueuedAt, outside>>

Disconnect(c) ==
  /\ S!Disconnect(c)
  /\ UNCHANGED <<publisherOnly, outside>>

\* A packet is taken.  The handler of its type runs if there is something to
\* publish; mppt_count is a value of the DATA packet.
HandlePacket(c) ==
  /\ S!HandlePacket(c)
  /\ LET type == served'[c][Len(served'[c])].type
         n == Len(todo'[c])
     IN  \/ n = 0 /\ UNCHANGED publisherOnly
         \/ n > 0 /\ type = "handshake" /\ P!StartLogger(c, n)
         \/ n > 0 /\ type = "data" /\ \E k \in PvCounts : P!StartData(c, k)
         \/ n > 0 /\ type \in {"report", "wifi"} /\ P!StartStatus(c, n)
  /\ UNCHANGED outside

\* Steps of the handlers that no message leaves.
Discover(c) ==
  /\ P!Suppress(c) \/ P!Expire(c) \/ P!ReadMetadata(c) \/ P!Record(c)
  /\ UNCHANGED <<sessionOnly, outside>>

\* The publish that completes a message of Session: the values of a DATA
\* packet are one message there.
Completes(c) ==
  /\ pc[c] \in {"data", "logger", "status"}
  /\ pc[c] = "data" => next[c] = P!Length(c)

\* The publish of anything else.
PublishAhead(c) ==
  /\ ~Completes(c)
  /\ P!Publish(c)
  /\ cargo' = Append(cargo, Part)
  /\ UNCHANGED <<sessionOnly, broker>>

\* Faulty: a message that finds the queue full is left out.
PublishNextTries(c) ==
  /\ Completes(c)
  /\ todo[c] # <<>> /\ alive
  /\ todo' = [todo EXCEPT ![c] = Tail(@)]
  /\ next' = [next EXCEPT ![c] = @ + 1]
  /\ IF Len(queue) < Capacity
     THEN P!Publish(c) /\ S!PublishNext(c) /\ cargo' = Append(cargo, Head(todo[c]))
     ELSE UNCHANGED <<open, ssid, last, busy, metadata, topics, opens, served,
                      answered, clock, stamp, generation, handshakes, pc, size,
                      now, device, queue, connected, shown, faults, enqueuedAt,
                      alive, cargo>>
  /\ UNCHANGED broker

PublishNext(c) ==
  /\ Completes(c)
  /\ P!Publish(c)
  /\ S!PublishNext(c)
  /\ cargo' = Append(cargo, Head(todo[c]))
  /\ UNCHANGED broker

PublishError(c) ==
  /\ P!PublishError(c)
  /\ S!PublishError(c)
  /\ UNCHANGED outside

\* The handler, if one ran, returns.
Return(c) ==
  \/ P!Respond(c)
  \/ pc[c] = "idle" /\ UNCHANGED publisherOnly

\* Faulty: the answer does not wait for the handler.
RespondEarly(c) ==
  /\ busy[c]
  /\ busy' = [busy EXCEPT ![c] = FALSE]
  /\ answered' = [answered EXCEPT ![c] = Append(@, Len(served[c]))]
  /\ UNCHANGED <<open, ssid, last, todo, metadata, topics, opens, served,
                 publisherOnly, alive, outside>>

Respond(c) ==
  /\ S!Respond(c)
  /\ Return(c)
  /\ UNCHANGED outside

WriteError(c) ==
  /\ S!WriteError(c)
  /\ Return(c)
  /\ UNCHANGED outside

-----------------------------------------------------------------------------
\* The oldest request reaches the broker, with its value.
Send ==
  /\ P!Send
  /\ cargo' = Tail(cargo)
  /\ broker' = IF Head(cargo) = Part THEN broker
               ELSE [broker EXCEPT ![Head(cargo).topic] = Head(cargo).value]
  /\ UNCHANGED sessionOnly

\* Faulty: requests that wait are dropped when the session is new.
ReconnectDrops ==
  /\ alive /\ ~connected
  /\ connected' = TRUE
  /\ queue' = <<>> /\ cargo' = <<>>
  /\ UNCHANGED <<sessionOnly, clock, stamp, generation, handshakes, pc, size, next,
                 now, device, shown, faults, enqueuedAt, alive, broker>>

Reconnect == P!Reconnect /\ UNCHANGED <<sessionOnly, outside>>

Tick == P!Tick /\ UNCHANGED <<sessionOnly, outside>>

ConnectionLost ==
  /\ P!ConnectionLost
  /\ cargo' = SubSeq(cargo, Len(queue) - Len(queue') + 1, Len(cargo))
  /\ UNCHANGED <<sessionOnly, broker>>

LoopDies ==
  /\ P!LoopDies
  /\ S!LoopDies
  /\ UNCHANGED outside

Restart ==
  /\ P!Restart
  /\ S!Restart
  /\ cargo' = <<>>
  /\ UNCHANGED broker

Next ==
  \/ \E c \in Conns :
       \/ Connect(c)
       \/ Disconnect(c)
       \/ HandlePacket(c)
       \/ Discover(c)
       \/ PublishAhead(c)
       \/ PublishNext(c)
       \/ PublishError(c)
       \/ Respond(c)
       \/ WriteError(c)
  \/ Send
  \/ Reconnect
  \/ Tick
  \/ ConnectionLost
  \/ LoopDies
  \/ Restart

Spec == Init /\ [][Next]_vars

-----------------------------------------------------------------------------
\* How many messages of Session the handler has still to publish.
Left(c) ==
  CASE pc[c] \in {"check", "meta", "config"} -> 1
    [] pc[c] = "data" -> IF next[c] <= P!Length(c) THEN 1 ELSE 0
    [] pc[c] \in {"logger", "status"} -> size[c] - next[c] + 1
    [] OTHER -> 0

Agree(c) ==
  /\ pc[c] # "idle" => busy[c]
  /\ Len(todo[c]) = Left(c)

\* What is left to publish is the same for process_packet and for the handler
\* it awaits, in every phase and after every failure: a packet is answered
\* when its handler is through and only then (server.rs:193-276).
TasksAgree == \A c \in Conns : Agree(c)

\* The requests on their way that complete a message to topic t.
Waiting(t) == {i \in DOMAIN cargo : cargo[i].topic = t}

\* As long as nothing fails, the last value of each topic is the one the
\* broker has or it is on its way, behind all others of its topic: two
\* connections and the queue between them and the broker never turn an older
\* value into the one that stays (mqtt.rs:760-770, server.rs:151-262).
NewestArrives ==
  faults = 0 =>
    \A t \in S!Topics :
      /\ Waiting(t) = {} => broker[t] = topics[t]
      /\ \A i \in Waiting(t) : (\A j \in Waiting(t) : j <= i)
                                => cargo[i].value = topics[t]

\* The broker is left with value v of topic t: it has v and no other is on its
\* way, or v is the last one that is.
LeftWith(t, v) ==
  /\ Waiting(t) = {} => broker[t] = v
  /\ \A i \in Waiting(t) : (\A j \in Waiting(t) : j <= i) => cargo[i].value = v

\* When all connections of the logger are at rest and nothing has failed, the
\* broker is left in each topic of a report with what the last report of some
\* connection told, of those that tell it, and with nothing if there is none:
\* two connections may interleave the messages of their reports, which mixes
\* the topics, but none is lost, outlived by an older one of its connection
\* or put where the report has nothing to tell (mqtt.rs:271-299, 760-770).
BrokerShowsReports ==
  faults = 0 /\ S!NoneReplaced /\ (\A c \in Conns : ~busy[c]) =>
    \A t \in S!ReportTopics :
      \/ LeftWith(t, None) /\ \A c \in Conns : S!Telling(c, t) = {}
      \/ \E c \in Conns : \E i \in S!Telling(c, t) :
           /\ S!IsLast(i, S!Telling(c, t))
           /\ LeftWith(t, S!Told(served[c][i], t))

\* The connection has shown who the logger is.
Known(c) ==
  \E i \in DOMAIN served[c] :
    served[c][i].type = "handshake" /\ served[c][i].parses

\* Once a connection has shown who the logger is, every discovery it brings
\* about carries metadata of that logger: neither the end of another
\* connection nor a restart takes them away from it (Readme.md:255-258,
\* mqtt.rs:221, 350-354).
DiscoveryKnowsLogger ==
  \A c \in Conns : pc[c] = "config" /\ Known(c) => device[c] > 0

\* The inductive invariant behind it: the metadata are there.
MetadataThere == \A c \in Conns : open[c] /\ Known(c) => generation > 0

ServerInv ==
  TypeOK /\ TasksAgree /\ NewestArrives /\ MetadataThere /\ DiscoveryKnowsLogger
=============================================================================
