----------------------------- MODULE ServerProofs -----------------------------
(***************************************************************************)
(* Theorems about Server, for every number of connections, whatever        *)
(* packets the logger sends, every capacity of the queue and every         *)
(* combination of faults: the program implements Session and Publisher, so *)
(* that what is proved of them (SessionProofs, PublisherProofs) holds of   *)
(* it, with one connection also what holds for one only, and the           *)
(* properties that need both; at the end, what a report becomes at the     *)
(* broker.                                                                 *)
(***************************************************************************)
EXTENDS Server, TLAPS

SP == INSTANCE SessionProofs
PP == INSTANCE PublisherProofs WITH metadata <- generation

-----------------------------------------------------------------------------
(***************************************************************************)
(* The two specifications, as they are here and as they are proved about.  *)
(***************************************************************************)

LEMMA SameSessions ==
  /\ S!Init <=> SP!Init
  /\ [S!Next]_S!vars <=> [SP!Next]_SP!vars
  /\ S!TypeOK <=> SP!TypeOK
  /\ S!AnswersInOrder <=> SP!AnswersInOrder
  /\ S!SignalFromNewestRecord <=> SP!SignalFromNewestRecord
<1>1. S!Init <=> SP!Init
  BY Zenon DEF S!Init, SP!Init, S!Topics, SP!Topics
<1>2. S!TypeOK <=> SP!TypeOK
  BY Zenon DEF S!TypeOK, SP!TypeOK, S!Topics, SP!Topics, S!Messages,
     SP!Messages, S!Message, SP!Message, S!OneAtATime, SP!OneAtATime
<1>3. [S!Next]_S!vars <=> [SP!Next]_SP!vars
  BY Zenon
     DEF S!Next, S!vars, S!state, S!Connect, S!Disconnect, S!HandlePacket,
         S!PublishNext, S!PublishError, S!Respond, S!WriteError, S!LoopDies,
         S!Restart, S!Handshake, S!Data, S!DataUnparsable, S!Report, S!Wifi,
         S!WifiSkipped, S!Other, S!Take, S!Message, S!ShowsSignal, S!Older,
         S!Time,
         SP!Next, SP!vars, SP!state, SP!Connect, SP!Disconnect,
         SP!HandlePacket, SP!PublishNext, SP!PublishError, SP!Respond,
         SP!WriteError, SP!LoopDies, SP!Restart, SP!Handshake, SP!Data,
         SP!DataUnparsable, SP!Report, SP!Wifi, SP!WifiSkipped, SP!Other,
         SP!Take, SP!Message, SP!ShowsSignal, SP!Older, SP!Time
<1>4. S!AnswersInOrder <=> SP!AnswersInOrder
  BY Zenon
     DEF S!AnswersInOrder, S!AnsweredInOrder, S!Finished, S!Answerable,
         SP!AnswersInOrder, SP!AnsweredInOrder, SP!Finished, SP!Answerable
<1>5. S!SignalFromNewestRecord <=> SP!SignalFromNewestRecord
  BY Zenon
     DEF S!SignalFromNewestRecord, S!Naming, S!Records, S!IsLast,
         SP!SignalFromNewestRecord, SP!Naming, SP!Records, SP!IsLast
<1> QED
  BY <1>1, <1>2, <1>3, <1>4, <1>5

LEMMA SamePublisher ==
  /\ P!Init <=> PP!Init
  /\ [P!Next]_P!vars <=> [PP!Next]_PP!vars
  /\ P!TypeOK <=> PP!TypeOK
  /\ P!StampMeansDiscovered <=> PP!StampMeansDiscovered
  /\ P!DataAfterDiscovery <=> PP!DataAfterDiscovery
  /\ P!AnnouncedBeforeData <=> PP!AnnouncedBeforeData
<1>1. P!Init <=> PP!Init
  BY Zenon DEF P!Init, P!Never, P!Configs, P!LoggerConfig,
               PP!Init, PP!Never, PP!Configs, PP!LoggerConfig
<1>2. P!TypeOK <=> PP!TypeOK
  BY Zenon
     DEF P!TypeOK, P!Never, P!Configs, P!LoggerConfig, P!Messages,
         P!Publishing, P!OfData, P!Locations, P!Length,
         PP!TypeOK, PP!Never, PP!Configs, PP!LoggerConfig, PP!Messages,
         PP!Publishing, PP!OfData, PP!Locations, PP!Length
<1>3. [P!Next]_P!vars <=> [PP!Next]_PP!vars
  BY Zenon
     DEF P!Next, P!vars, P!shared, P!client, P!task, P!StartData,
         P!StartLogger, P!StartStatus, P!TaskStep, P!Publish, P!Send,
         P!Reconnect, P!ConnectionLost, P!LoopDies, P!Restart, P!Tick,
         P!Suppress, P!Expire, P!ReadMetadata, P!Record, P!PublishError,
         P!Respond, P!Goto, P!PhaseDone, P!Length, P!Unshared, P!IsFresh,
         P!Config, P!PlantConfig, P!LoggerConfig, P!Never, P!Publishing,
         P!Fault,
         PP!Next, PP!vars, PP!shared, PP!client, PP!task, PP!StartData,
         PP!StartLogger, PP!StartStatus, PP!TaskStep, PP!Publish, PP!Send,
         PP!Reconnect, PP!ConnectionLost, PP!LoopDies, PP!Restart, PP!Tick,
         PP!Suppress, PP!Expire, PP!ReadMetadata, PP!Record, PP!PublishError,
         PP!Respond, PP!Goto, PP!PhaseDone, PP!Length, PP!Unshared,
         PP!IsFresh, PP!Config, PP!PlantConfig, PP!LoggerConfig, PP!Never,
         PP!Publishing, PP!Fault
<1>4. P!DataAfterDiscovery <=> PP!DataAfterDiscovery
  BY Zenon DEF P!DataAfterDiscovery, P!Announced, P!Never, P!PlantConfig,
               P!LoggerConfig, PP!DataAfterDiscovery, PP!Announced, PP!Never,
               PP!PlantConfig, PP!LoggerConfig
<1>5. P!AnnouncedBeforeData <=> PP!AnnouncedBeforeData
  BY Zenon DEF P!AnnouncedBeforeData, P!Announced, P!Arrives, P!Never,
               P!PlantConfig, P!LoggerConfig, PP!AnnouncedBeforeData,
               PP!Announced, PP!Arrives, PP!Never, PP!PlantConfig,
               PP!LoggerConfig
<1>6. P!StampMeansDiscovered <=> PP!StampMeansDiscovered
  BY Zenon DEF P!StampMeansDiscovered, P!Never, P!Config, P!PlantConfig,
               P!LoggerConfig, PP!StampMeansDiscovered, PP!Never, PP!Config,
               PP!PlantConfig, PP!LoggerConfig
<1> QED
  BY <1>1, <1>2, <1>3, <1>4, <1>5, <1>6

\* A step of the sessions keeps their types.
LEMMA SessionType ==
  ASSUME S!TypeOK, [S!Next]_S!vars
  PROVE  S!TypeOK'
<1>1. SP!SessionAssumption
  BY ServerAssumption, Zenon DEF S!SessionAssumption, S!AllPackets,
     SP!SessionAssumption, SP!AllPackets
<1>2. SP!TypeOK /\ [SP!Next]_SP!vars => SP!TypeOK'
  BY <1>1, SP!TypeStep, Zenon DEF SP!TypeStep
<1>3. S!TypeOK' <=> SP!TypeOK'
  BY Zenon DEF S!TypeOK, SP!TypeOK, S!Topics, SP!Topics, S!Messages,
     SP!Messages, S!Message, SP!Message, S!OneAtATime, SP!OneAtATime
<1> QED
  BY <1>2, <1>3, SameSessions

-----------------------------------------------------------------------------
(***************************************************************************)
(* What is proved of the two parts, for use here.                          *)
(***************************************************************************)

\* What each step is for the sessions ...
LEMMA StepSession == [Next]_vars => [S!Next]_S!vars
<1> SUFFICES ASSUME [Next]_vars PROVE [S!Next]_S!vars
  OBVIOUS
<1> USE DEF sessionOnly, publisherOnly, outside
<1>1. CASE UNCHANGED vars
  BY <1>1 DEF vars, S!vars, S!state
<1>2. ASSUME NEW c \in Conns,
             \/ Connect(c) \/ Disconnect(c) \/ HandlePacket(c) \/ PublishNext(c)
             \/ PublishError(c) \/ Respond(c) \/ WriteError(c)
      PROVE  S!Next
  BY <1>2 DEF Connect, Disconnect, HandlePacket, PublishNext, PublishError,
     Respond, WriteError, S!Next
<1>3. CASE LoopDies \/ Restart
  BY <1>3 DEF LoopDies, Restart, S!Next
<1>4. ASSUME NEW c \in Conns, Discover(c) \/ PublishAhead(c)
      PROVE  UNCHANGED S!vars
  BY <1>4 DEF Discover, PublishAhead, S!vars, S!state, P!Suppress, P!Expire,
     P!ReadMetadata, P!Record, P!Unshared, P!client, P!Publish
<1>5. CASE Send \/ Reconnect \/ Tick \/ ConnectionLost
  <2>1. alive' = alive
    BY <1>5 DEF Send, Reconnect, Tick, ConnectionLost, P!Send, P!Reconnect,
       P!Tick, P!ConnectionLost, P!client
  <2>2. UNCHANGED sessionOnly
    BY <1>5 DEF Send, Reconnect, Tick, ConnectionLost
  <2> QED
    BY <2>1, <2>2 DEF S!vars, S!state
<1> QED
  BY <1>1, <1>2, <1>3, <1>4, <1>5 DEF Next

\* ... and for the publisher.
LEMMA StepPublisher == [Next]_vars => [P!Next]_P!vars
<1> SUFFICES ASSUME [Next]_vars PROVE [P!Next]_P!vars
  OBVIOUS
<1> USE DEF sessionOnly, publisherOnly, outside
<1>1. ASSUME UNCHANGED <<publisherOnly, alive>> PROVE UNCHANGED P!vars
  BY <1>1 DEF P!vars, P!shared, P!client, P!task
<1>2. CASE UNCHANGED vars
  BY <1>1, <1>2 DEF vars
<1>3. ASSUME NEW c \in Conns, Connect(c) \/ Disconnect(c)
      PROVE  UNCHANGED P!vars
  BY <1>1, <1>3 DEF Connect, Disconnect, S!Connect, S!Disconnect
<1>4. ASSUME NEW c \in Conns, HandlePacket(c)
      PROVE  [P!Next]_P!vars
  <2>1. alive' = alive
    BY <1>4 DEF HandlePacket, S!HandlePacket, S!Handshake, S!Data,
       S!DataUnparsable, S!Report, S!Wifi, S!WifiSkipped, S!Other, S!Take
  <2>2. \/ UNCHANGED publisherOnly
        \/ P!StartLogger(c, Len(todo'[c]))
        \/ \E k \in PvCounts : P!StartData(c, k)
        \/ P!StartStatus(c, Len(todo'[c]))
    BY <1>4 DEF HandlePacket
  <2>3. P!StartLogger(c, Len(todo'[c])) => Len(todo'[c]) \in LoggerCounts
    BY DEF P!StartLogger
  <2>4. P!StartStatus(c, Len(todo'[c])) => Len(todo'[c]) \in StatusCounts
    BY DEF P!StartStatus
  <2> HIDE DEF publisherOnly
  <2> QED
    BY <1>1, <2>1, <2>2, <2>3, <2>4 DEF P!Next
<1>5. ASSUME NEW c \in Conns,
             Discover(c) \/ PublishAhead(c) \/ PublishNext(c) \/ PublishError(c)
      PROVE  P!Next
  BY <1>5 DEF Discover, PublishAhead, PublishNext, PublishError, P!Next,
     P!TaskStep
<1>6. ASSUME NEW c \in Conns, Respond(c) \/ WriteError(c)
      PROVE  [P!Next]_P!vars
  <2>1. alive' = alive
    BY <1>6 DEF Respond, WriteError, S!Respond, S!WriteError
  <2>2. P!Respond(c) \/ UNCHANGED publisherOnly
    BY <1>6 DEF Respond, WriteError, Return
  <2> HIDE DEF publisherOnly
  <2> QED
    BY <1>1, <2>1, <2>2 DEF P!Next, P!TaskStep
<1>7. CASE Send \/ Reconnect \/ Tick \/ ConnectionLost \/ LoopDies \/ Restart
  BY <1>7 DEF Send, Reconnect, Tick, ConnectionLost, LoopDies, Restart, P!Next
<1> QED
  BY <1>2, <1>3, <1>4, <1>5, <1>6, <1>7 DEF Next

\* Every action of the program joins an action of the sessions or leaves them
\* alone: what is proved of Session can be used here.
LEMMA SessionRefined == Spec => S!Spec
<1>1. Init => S!Init
  BY DEF Init
<1> QED
  BY <1>1, StepSession, PTL DEF Spec, S!Spec

\* The same for the publisher.
LEMMA PublisherRefined == Spec => P!Spec
<1>1. Init => P!Init
  BY DEF Init
<1> QED
  BY <1>1, StepPublisher, PTL DEF Spec, P!Spec

\* So what is proved of Session holds of the program: every packet is
\* answered once and in order, and a signal under way is that of the newest
\* record, whatever the client and the broker do (server.rs:149-282).
THEOREM SessionsHold ==
  Spec => [](S!TypeOK /\ S!AnswersInOrder /\ S!SignalFromNewestRecord)
<1>0. SP!SessionAssumption
  BY ServerAssumption, Zenon DEF S!SessionAssumption, S!AllPackets,
     SP!SessionAssumption, SP!AllPackets
<1>1. S!Spec <=> SP!Spec
  BY SameSessions, PTL DEF S!Spec, SP!Spec
<1>2. SP!Spec => [](SP!TypeOK /\ SP!AnswersInOrder /\ SP!SignalFromNewestRecord)
  <2>1. SP!Spec => []SP!TypeOK
    BY <1>0, SP!TypeCorrect, Zenon DEF SP!TypeCorrect
  <2>2. SP!Spec => []SP!AnswersInOrder
    BY <1>0, SP!AnswersCorrect, Zenon DEF SP!AnswersCorrect
  <2>3. SP!Spec => []SP!SignalFromNewestRecord
    BY <1>0, SP!SignalCorrect, Zenon DEF SP!SignalCorrect
  <2> QED
    BY <2>1, <2>2, <2>3, PTL
<1> QED
  BY <1>1, <1>2, SessionRefined, SameSessions, PTL

\* And what is proved of Publisher: the time of discovery is that of a whole
\* one, and no data come before it, neither into the queue nor, as long as
\* nothing fails, to the broker.
THEOREM PublisherHolds ==
  Spec => [](/\ P!TypeOK /\ P!StampMeansDiscovered
             /\ P!DataAfterDiscovery /\ P!AnnouncedBeforeData)
<1>0. PP!PublisherAssumption
  BY ServerAssumption, Zenon DEF P!PublisherAssumption, PP!PublisherAssumption
<1>1. P!Spec <=> PP!Spec
  BY SamePublisher, PTL DEF P!Spec, PP!Spec
<1>2. PP!Spec => [](/\ PP!TypeOK /\ PP!StampMeansDiscovered
                   /\ PP!DataAfterDiscovery /\ PP!AnnouncedBeforeData)
  <2>1. PP!Spec => []PP!TypeOK
    BY <1>0, PP!TypeCorrect, Zenon DEF PP!TypeCorrect
  <2>2. PP!Spec => []PP!DataAfterDiscovery
    BY <1>0, PP!DataCorrect, Zenon DEF PP!DataCorrect
  <2>3. PP!Spec => []PP!AnnouncedBeforeData
    BY <1>0, PP!AnnouncementCorrect, Zenon DEF PP!AnnouncementCorrect
  <2>4. PP!Spec => []PP!StampMeansDiscovered
    BY <1>0, PP!StampCorrect, Zenon DEF PP!StampCorrect
  <2> QED
    BY <2>1, <2>2, <2>3, <2>4, PTL
<1> QED
  BY <1>1, <1>2, PublisherRefined, SamePublisher, PTL

\* And the handlers that process_packet awaits come to their end in a bounded
\* number of steps, each of which leaves fewer (server.rs:193-276).
THEOREM HandlersHold == Spec => []PP!StepsBounded /\ PP!HandlersAdvance
<1>0. PP!PublisherAssumption
  BY ServerAssumption, Zenon DEF P!PublisherAssumption, PP!PublisherAssumption
<1>1. P!Spec <=> PP!Spec
  BY SamePublisher, PTL DEF P!Spec, PP!Spec
<1>2. PP!Spec => []PP!StepsBounded /\ PP!HandlersAdvance
  BY <1>0, PP!HandlersCome, Zenon DEF PP!HandlersCome
<1> QED
  BY <1>1, <1>2, PublisherRefined, PTL

\* With a logger that has one connection at a time, what the client was
\* handed last for each topic of a report is what the last report that tells
\* it told, and no cached record replaces the signal of a later one
\* (mqtt.rs:230-332).
THEOREM OneLoggerSessions ==
  ASSUME \A c, d \in Conns : c = d
  PROVE  Spec => []S!LastReportShown /\ S!SignalForwardInConnection
<1>0. SP!SessionAssumption
  BY ServerAssumption, Zenon DEF S!SessionAssumption, S!AllPackets,
     SP!SessionAssumption, SP!AllPackets
<1>1. S!Spec <=> SP!Spec
  BY SameSessions, PTL DEF S!Spec, SP!Spec
<1>2. SP!Spec => []SP!LastReportShown
  BY <1>0, SP!ReportCorrect, Zenon DEF SP!ReportCorrect
<1>3. S!LastReportShown <=> SP!LastReportShown
  BY Zenon DEF S!LastReportShown, S!Telling, S!Reports, S!TopicsOf,
               S!ReportTopics, S!Told, S!RebootShownAfterEpoch, S!IsLast, S!Time,
               SP!LastReportShown, SP!Telling, SP!Reports, SP!TopicsOf,
               SP!ReportTopics, SP!Told, SP!RebootShownAfterEpoch, SP!IsLast,
               SP!Time
<1>4. SP!Spec => SP!SignalForwardInConnection
  BY <1>0, SP!SignalForward, Zenon DEF SP!SignalForward
<1>5. SP!SignalForwardInConnection <=> S!SignalForwardInConnection
  <2> DEFINE Forward ==
        opens' = opens /\ topics["wifi_signal"] # None
          /\ (\E c \in Conns : \E i \in DOMAIN served[c] :
                served[c][i] = topics["wifi_signal"])
          => topics'["wifi_signal"].offset >= topics["wifi_signal"].offset
  <2>1. [Forward]_S!vars <=> [Forward]_SP!vars
    BY Zenon DEF S!vars, S!state, SP!vars, SP!state
  <2> QED
    BY <2>1, PTL DEF S!SignalForwardInConnection, SP!SignalForwardInConnection
<1> QED
  BY <1>1, <1>2, <1>3, <1>4, <1>5, SessionRefined, PTL

\* Nor is its discovery repeated before the interval is over (mqtt.rs:
\* 334-348).
THEOREM OneLoggerQuiet ==
  ASSUME \A c, d \in Conns : c = d
  PROVE  Spec => P!QuietBetweenDiscoveries
<1>0. PP!PublisherAssumption
  BY ServerAssumption, Zenon DEF P!PublisherAssumption, PP!PublisherAssumption
<1>1. P!Spec <=> PP!Spec
  BY SamePublisher, PTL DEF P!Spec, PP!Spec
<1>2. PP!Spec => PP!QuietBetweenDiscoveries
  BY <1>0, PP!QuietCorrect, Zenon DEF PP!QuietCorrect, PP!OneConnection
<1>3. PP!QuietBetweenDiscoveries <=> P!QuietBetweenDiscoveries
  <2> DEFINE Quiet(never) ==
        \A c \in Conns : pc[c] = "meta" /\ pc'[c] = "config" /\ stamp # never =>
          clock - stamp > Interval
  <2>1. [Quiet(P!Never)]_P!vars <=> [Quiet(PP!Never)]_PP!vars
    BY Zenon DEF P!vars, P!shared, P!client, P!task, P!Never,
                 PP!vars, PP!shared, PP!client, PP!task, PP!Never
  <2> QED
    BY <2>1, PTL DEF P!QuietBetweenDiscoveries, PP!QuietBetweenDiscoveries
<1> QED
  BY <1>1, <1>2, <1>3, PublisherRefined, PTL

-----------------------------------------------------------------------------
(***************************************************************************)
(* The requests and their messages.                                        *)
(***************************************************************************)

\* The steps that touch neither the queue nor the topics.
Apart(c) ==
  \/ Connect(c) \/ Disconnect(c) \/ HandlePacket(c) \/ Discover(c)
  \/ PublishError(c) \/ Respond(c) \/ WriteError(c)

LEMMA QueueApart ==
  ASSUME NEW c \in Conns, Apart(c)
  PROVE  /\ queue' = queue /\ cargo' = cargo /\ broker' = broker
         /\ topics' = topics /\ faults' = faults
<1> USE DEF outside, publisherOnly
<1>1. cargo' = cargo /\ broker' = broker
  BY DEF Apart, Connect, Disconnect, HandlePacket, Discover, PublishError,
     Respond, WriteError
<1>2. CASE Connect(c) \/ Disconnect(c)
  BY <1>1, <1>2 DEF Connect, Disconnect, S!Connect, S!Disconnect
<1>3. CASE HandlePacket(c)
  <2>1. topics' = topics
    BY <1>3 DEF HandlePacket, S!HandlePacket, S!Handshake, S!Data,
       S!DataUnparsable, S!Report, S!Wifi, S!WifiSkipped, S!Other, S!Take
  <2>2. queue' = queue /\ faults' = faults
    BY <1>3 DEF HandlePacket, P!StartLogger, P!StartData, P!StartStatus,
       P!Unshared, P!client
  <2> QED
    BY <1>1, <2>1, <2>2
<1>4. CASE Discover(c)
  BY <1>1, <1>4 DEF Discover, sessionOnly, P!Suppress, P!Expire,
     P!ReadMetadata, P!Record, P!Unshared, P!client
<1>5. CASE PublishError(c)
  BY <1>1, <1>5 DEF PublishError, P!PublishError, S!PublishError, P!Unshared,
     P!client
<1>6. CASE Respond(c) \/ WriteError(c)
  BY <1>1, <1>6 DEF Respond, WriteError, Return, S!Respond, S!WriteError,
     P!Respond, P!Unshared, P!client
<1> QED
  BY <1>2, <1>3, <1>4, <1>5, <1>6 DEF Apart

\* The next message of a handler.
LEMMA NextMessage ==
  ASSUME S!TypeOK, NEW c \in Conns, PublishNext(c)
  PROVE  /\ Head(todo[c]) \in S!Messages /\ Head(todo[c]).topic \in S!Topics
         /\ todo[c] # <<>> /\ todo[c] \in Seq(S!Messages)
<1>1. todo[c] # <<>> /\ todo[c] \in Seq(S!Messages)
  BY DEF PublishNext, S!PublishNext, S!TypeOK
<1>2. Head(todo[c]) \in S!Messages
  BY <1>1
<1>3. \A m \in S!Messages : m.topic \in S!Topics
  BY DEF S!Messages, S!Topics
<1> QED
  BY <1>1, <1>2, <1>3

\* Every request has its message.
LEMMA CargoStep ==
  ASSUME S!TypeOK, P!TypeOK, TypeOK, [Next]_vars
  PROVE  TypeOK'
<1> USE DEF outside
<1>0. queue \in Seq(P!Messages) /\ Part \in S!Messages \cup {Part}
  BY DEF P!TypeOK
<1>1. ASSUME NEW c \in Conns, Apart(c) PROVE TypeOK'
  BY <1>1, QueueApart DEF TypeOK
<1>2. ASSUME NEW c \in Conns, PublishAhead(c) \/ PublishNext(c) PROVE TypeOK'
  <2>1. \E m \in S!Messages \cup {Part} : cargo' = Append(cargo, m)
    BY <1>0, <1>2, NextMessage DEF PublishAhead, PublishNext
  <2>2. \E m : queue' = Append(queue, m)
    BY <1>2 DEF PublishAhead, PublishNext, P!Publish
  <2>3. broker' = broker
    BY <1>2 DEF PublishAhead, PublishNext
  <2> QED
    BY <1>0, <2>1, <2>2, <2>3 DEF TypeOK
<1>3. CASE Send
  <2>1. queue # <<>> /\ queue' = Tail(queue) /\ cargo' = Tail(cargo)
    BY <1>3 DEF Send, P!Send
  <2>2. DOMAIN broker' = DOMAIN broker
    BY <1>3 DEF Send
  <2>3. cargo \in Seq(S!Messages \cup {Part}) /\ Len(cargo) = Len(queue)
    BY DEF TypeOK
  <2>4. cargo # <<>>
    BY <1>0, <2>1, <2>3
  <2>5. cargo' \in Seq(S!Messages \cup {Part}) /\ Len(cargo') = Len(queue')
    BY <1>0, <2>1, <2>3, <2>4
  <2> QED
    BY <2>2, <2>5 DEF TypeOK
<1>4. CASE ConnectionLost
  <2>1. PICK n \in 0..Len(queue) : queue' = SubSeq(queue, n + 1, Len(queue))
    BY <1>4 DEF ConnectionLost, P!ConnectionLost
  <2>2. Len(queue') = Len(queue) - n
    BY <1>0, <2>1
  <2>3. cargo' = SubSeq(cargo, n + 1, Len(cargo)) /\ broker' = broker
    BY <1>0, <1>4, <2>2 DEF ConnectionLost, sessionOnly
  <2>4. cargo \in Seq(S!Messages \cup {Part}) /\ Len(cargo) = Len(queue)
    BY DEF TypeOK
  <2>5. cargo' \in Seq(S!Messages \cup {Part}) /\ Len(cargo') = Len(cargo) - n
    BY <1>0, <2>3, <2>4
  <2> QED
    BY <2>2, <2>3, <2>4, <2>5 DEF TypeOK
<1>5. CASE Restart
  BY <1>5 DEF Restart, P!Restart, TypeOK
<1>6. CASE Reconnect \/ Tick \/ LoopDies \/ UNCHANGED vars
  <2>1. cargo' = cargo /\ broker' = broker /\ queue' = queue
    BY <1>6 DEF Reconnect, Tick, LoopDies, vars, publisherOnly, P!Reconnect,
       P!Tick, P!LoopDies, P!client
  <2> QED
    BY <2>1 DEF TypeOK
<1> QED
  BY <1>1, <1>2, <1>3, <1>4, <1>5, <1>6 DEF Next, Apart

-----------------------------------------------------------------------------
(***************************************************************************)
(* The newest values.                                                      *)
(***************************************************************************)

\* A message that joins the queue is the newest of its topic.
LEMMA NewestPublish ==
  ASSUME S!TypeOK, TypeOK, NewestArrives, NEW c \in Conns,
         PublishAhead(c) \/ PublishNext(c)
  PROVE  NewestArrives'
<1>1. /\ cargo \in Seq(S!Messages \cup {Part})
      /\ broker' = broker /\ faults' = faults
  BY DEF TypeOK, PublishAhead, PublishNext, P!Publish
<1>2. PICK m : /\ cargo' = Append(cargo, m)
               /\ \A t \in S!Topics :
                    topics'[t] = IF t = m.topic THEN m.value ELSE topics[t]
  <2>1. CASE PublishAhead(c)
    <3>1. \A t \in S!Topics : t # Part.topic
      BY DEF Part, S!Topics
    <3> QED
      BY <2>1, <3>1 DEF PublishAhead, sessionOnly
  <2>2. CASE PublishNext(c)
    BY <2>2 DEF PublishNext, S!PublishNext, S!TypeOK
  <2> QED
    BY <2>1, <2>2
<1>3. /\ Len(cargo) \in Nat /\ DOMAIN cargo = 1..Len(cargo)
      /\ DOMAIN cargo' = 1..(Len(cargo) + 1)
      /\ cargo'[Len(cargo) + 1] = m
      /\ \A i \in DOMAIN cargo : cargo'[i] = cargo[i]
  BY <1>1, <1>2
<1>4. ASSUME NEW t \in S!Topics, t = m.topic, faults = 0
      PROVE  /\ Waiting(t)' # {}
             /\ \A i \in Waiting(t)' : (\A j \in Waiting(t)' : j <= i)
                                          => cargo'[i].value = topics'[t]
  <2>1. Len(cargo) + 1 \in Waiting(t)'
    BY <1>3, <1>4 DEF Waiting
  <2>2. \A i \in Waiting(t)' : i \in 1..(Len(cargo) + 1)
    BY <1>3 DEF Waiting
  <2> QED
    BY <1>2, <1>3, <1>4, <2>1, <2>2
<1>5. ASSUME NEW t \in S!Topics, t # m.topic, faults = 0
      PROVE  /\ Waiting(t)' = {} => broker[t] = topics'[t]
             /\ \A i \in Waiting(t)' : (\A j \in Waiting(t)' : j <= i)
                                          => cargo'[i].value = topics'[t]
  <2>1. Waiting(t)' = Waiting(t)
    BY <1>3, <1>5 DEF Waiting
  <2>2. topics'[t] = topics[t]
    BY <1>2, <1>5
  <2>3. \A i \in Waiting(t) : cargo'[i] = cargo[i]
    BY <1>3 DEF Waiting
  <2> QED
    BY <1>5, <2>1, <2>2, <2>3 DEF NewestArrives
<1> QED
  BY <1>1, <1>4, <1>5 DEF NewestArrives

\* What is sent is older than what waits behind it.
LEMMA NewestSend ==
  ASSUME P!TypeOK, TypeOK, NewestArrives, Send
  PROVE  NewestArrives'
<1>1. /\ cargo \in Seq(S!Messages \cup {Part}) /\ Len(cargo) = Len(queue)
      /\ queue \in Seq(P!Messages) /\ queue # <<>>
      /\ DOMAIN broker = S!Topics
  BY DEF TypeOK, P!TypeOK, Send, P!Send
<1>2. /\ Len(cargo) \in Nat \ {0} /\ Head(cargo) = cargo[1]
      /\ DOMAIN cargo = 1..Len(cargo) /\ DOMAIN cargo' = 1..(Len(cargo) - 1)
      /\ \A i \in DOMAIN cargo' : cargo'[i] = cargo[i + 1]
  BY <1>1 DEF Send
<1>3. topics' = topics /\ faults' = faults
  BY DEF Send, P!Send, sessionOnly
<1>4. ASSUME NEW t \in S!Topics
      PROVE  broker'[t] = IF cargo[1].topic = t THEN cargo[1].value ELSE broker[t]
  <2>1. t # Part.topic
    BY DEF Part, S!Topics
  <2> QED
    BY <1>1, <1>2, <2>1 DEF Send
<1>5. ASSUME NEW t \in S!Topics, faults = 0
      PROVE  /\ Waiting(t)' = {} => broker'[t] = topics[t]
             /\ \A i \in Waiting(t)' : (\A j \in Waiting(t)' : j <= i)
                                          => cargo'[i].value = topics[t]
  <2>1. /\ \A i \in Waiting(t)' : i \in Nat /\ i + 1 \in Waiting(t)
        /\ \A i \in Waiting(t) : i = 1 \/ i - 1 \in Waiting(t)'
        /\ \A i \in Waiting(t) : i \in Nat /\ 1 <= i
    BY <1>2 DEF Waiting
  <2>2. CASE Waiting(t)' = {}
    <3>1. \A i \in Waiting(t) : i = 1
      BY <2>1, <2>2
    <3>2. CASE 1 \in Waiting(t)
      <4>1. cargo[1].value = topics[t] /\ cargo[1].topic = t
        BY <1>5, <3>1, <3>2 DEF NewestArrives, Waiting
      <4> QED
        BY <1>4, <2>2, <4>1
    <3>3. CASE 1 \notin Waiting(t)
      <4>1. Waiting(t) = {} /\ cargo[1].topic # t
        BY <1>2, <3>1, <3>3 DEF Waiting
      <4>2. broker[t] = topics[t]
        BY <1>5, <4>1 DEF NewestArrives
      <4> QED
        BY <1>4, <2>2, <4>1, <4>2
    <3> QED
      BY <3>2, <3>3
  <2>3. ASSUME NEW i \in Waiting(t)', \A j \in Waiting(t)' : j <= i
        PROVE  cargo'[i].value = topics[t]
    <3>1. i + 1 \in Waiting(t) /\ i \in Nat
      BY <2>1
    <3>2. \A j \in Waiting(t) : j <= i + 1
      <4> SUFFICES ASSUME NEW j \in Waiting(t) PROVE j <= i + 1
        OBVIOUS
      <4>1. CASE j = 1
        BY <3>1, <4>1
      <4>2. CASE j # 1
        <5>1. j - 1 <= i /\ j \in Nat
          BY <2>1, <2>3, <4>2
        <5> QED
          BY <3>1, <5>1
      <4> QED
        BY <4>1, <4>2
    <3>3. cargo[i + 1].value = topics[t]
      BY <1>5, <3>1, <3>2 DEF NewestArrives
    <3>4. i \in DOMAIN cargo'
      BY DEF Waiting
    <3> QED
      BY <1>2, <3>3, <3>4
  <2> QED
    BY <2>2, <2>3
<1> QED
  BY <1>3, <1>5 DEF NewestArrives

LEMMA NewestStep ==
  ASSUME S!TypeOK, P!TypeOK, TypeOK, NewestArrives, [Next]_vars
  PROVE  NewestArrives'
<1>1. CASE (\E c \in Conns : Apart(c)) \/ Reconnect \/ Tick \/ UNCHANGED vars
  <2>1. /\ cargo' = cargo /\ broker' = broker /\ topics' = topics
        /\ faults' = faults
    BY <1>1, QueueApart DEF Reconnect, Tick, vars, publisherOnly, sessionOnly,
       outside, P!Reconnect, P!Tick
  <2> QED
    BY <2>1 DEF NewestArrives, Waiting
<1>2. CASE ConnectionLost \/ LoopDies \/ Restart
  <2>1. faults' = faults + 1 /\ faults \in Nat
    BY <1>2 DEF ConnectionLost, LoopDies, Restart, P!ConnectionLost,
       P!LoopDies, P!Restart, P!Fault, P!TypeOK
  <2>2. faults' # 0
    BY <2>1
  <2> QED
    BY <2>2 DEF NewestArrives
<1> QED
  BY <1>1, <1>2, NewestPublish, NewestSend DEF Next, Apart

-----------------------------------------------------------------------------
(***************************************************************************)
(* process_packet and the handlers.                                        *)
(***************************************************************************)

\* A task that a step leaves alone.
Alone(d) ==
  /\ pc'[d] = pc[d] /\ size'[d] = size[d] /\ next'[d] = next[d]
  /\ busy'[d] = busy[d] /\ todo'[d] = todo[d]

LEMMA AloneAgree ==
  ASSUME NEW d \in Conns, Agree(d), Alone(d)
  PROVE  Agree(d)'
BY DEF Agree, Left, Alone, P!Length

\* The steps of a connection leave the others alone.
LEMMA OthersAlone ==
  ASSUME S!TypeOK, P!TypeOK, NEW c \in Conns,
         Apart(c) \/ PublishAhead(c) \/ PublishNext(c), NEW d \in Conns, d # c
  PROVE  Alone(d)
<1> USE DEF P!TypeOK, S!TypeOK
<1>1. busy'[d] = busy[d] /\ todo'[d] = todo[d]
  BY ZenonT(40) DEF Apart, Connect, Disconnect, HandlePacket, Discover, PublishError,
     Respond, WriteError, PublishAhead, PublishNext, sessionOnly, S!Connect,
     S!Disconnect, S!HandlePacket, S!Handshake, S!Data, S!DataUnparsable,
     S!Report, S!Wifi, S!WifiSkipped, S!Other, S!Take, S!PublishNext,
     S!PublishError, S!Respond, S!WriteError
<1>2. pc'[d] = pc[d] /\ size'[d] = size[d] /\ next'[d] = next[d]
  <2>1. CASE Connect(c) \/ Disconnect(c)
    BY <2>1 DEF Connect, Disconnect, publisherOnly
  <2>2. CASE HandlePacket(c)
    BY <2>2 DEF HandlePacket, publisherOnly, P!StartLogger, P!StartData,
       P!StartStatus, P!Goto
  <2>3. CASE Discover(c)
    BY <2>3 DEF Discover, P!Suppress, P!Expire, P!ReadMetadata, P!Record, P!Goto
  <2>4. CASE PublishError(c) \/ PublishAhead(c) \/ PublishNext(c)
    BY <2>4 DEF PublishError, PublishAhead, PublishNext, P!PublishError,
       P!Publish, P!Goto
  <2>5. CASE Respond(c) \/ WriteError(c)
    BY <2>5 DEF Respond, WriteError, Return, publisherOnly, P!Respond, P!Goto
  <2> QED
    BY <2>1, <2>2, <2>3, <2>4, <2>5 DEF Apart
<1> QED
  BY <1>1, <1>2 DEF Alone

\* What the types tell of a task.
LEMMA TaskFacts ==
  ASSUME S!TypeOK, P!TypeOK, NEW c \in Conns
  PROVE  /\ PvSlots \in Nat \ {0}
         /\ LoggerCounts \subseteq Nat \ {0} /\ StatusCounts \subseteq Nat \ {0}
         /\ todo[c] \in Seq(S!Messages) /\ Len(todo[c]) \in Nat
         /\ next[c] \in Nat \ {0} /\ size[c] \in Nat /\ P!Length(c) \in Nat
<1>1. /\ PvSlots \in Nat \ {0}
      /\ LoggerCounts \subseteq Nat \ {0} /\ StatusCounts \subseteq Nat \ {0}
  BY ServerAssumption DEF P!PublisherAssumption
<1>2. todo[c] \in Seq(S!Messages)
  BY DEF S!TypeOK
<1>3. next[c] \in Nat \ {0} /\ size[c] \in Nat
  BY DEF P!TypeOK
<1>4. P!Length(c) \in Nat
  BY <1>1, <1>3 DEF P!Length
<1> QED
  BY <1>1, <1>2, <1>3, <1>4

\* What a packet brings: a handler for it starts with all of its messages
\* before it, or there are none.
LEMMA AgreeHandle ==
  ASSUME S!TypeOK, P!TypeOK, NEW c \in Conns, Agree(c), HandlePacket(c)
  PROVE  Agree(c)'
<1> USE DEF S!TypeOK, P!TypeOK
<1>1. /\ ~busy[c] /\ pc[c] = "idle" /\ todo[c] \in Seq(S!Messages)
  BY DEF HandlePacket, S!HandlePacket, S!Handshake, S!Data, S!DataUnparsable,
     S!Report, S!Wifi, S!WifiSkipped, S!Other, S!Take, Agree
<1>2. CASE UNCHANGED publisherOnly /\ Len(todo'[c]) = 0
  BY <1>1, <1>2 DEF publisherOnly, Agree, Left
<1>3. CASE ~(UNCHANGED publisherOnly /\ Len(todo'[c]) = 0)
  <2>1. Len(todo'[c]) > 0
    BY <1>3 DEF HandlePacket
  <2>2. busy'[c]
    <3>1. CASE \E p \in Packets : S!DataUnparsable(c, p)
      <4>1. todo' = todo /\ Len(todo[c]) = 0
        BY <1>1, <3>1 DEF S!DataUnparsable, Agree, Left
      <4> QED
        BY <2>1, <4>1
    <3>2. CASE ~\E p \in Packets : S!DataUnparsable(c, p)
      BY <3>2 DEF HandlePacket, S!HandlePacket, S!Handshake, S!Data, S!Report,
         S!Wifi, S!WifiSkipped, S!Other, S!Take
    <3> QED
      BY <3>1, <3>2
  <2>3. PICK p \in Packets :
          /\ served'[c][Len(served'[c])] = p
          /\ p.type = "data" => Len(todo'[c]) <= 1
    <3> PICK p \in Packets : \/ S!Handshake(c, p) \/ S!Data(c, p)
                             \/ S!DataUnparsable(c, p) \/ S!Report(c, p)
                             \/ S!Wifi(c, p) \/ S!WifiSkipped(c, p)
                             \/ S!Other(c, p)
      BY DEF HandlePacket, S!HandlePacket
    <3>1. served' = [served EXCEPT ![c] = Append(@, p)]
      BY DEF S!Handshake, S!Data, S!DataUnparsable, S!Report, S!Wifi,
         S!WifiSkipped, S!Other, S!Take
    <3>2. served'[c] = Append(served[c], p) /\ served[c] \in Seq(Packets)
      BY <3>1
    <3>3. served'[c][Len(served'[c])] = p
      BY <3>2
    <3>4. p.type = "data" => Len(todo'[c]) <= 1
      <4> SUFFICES ASSUME p.type = "data" PROVE Len(todo'[c]) <= 1
        OBVIOUS
      <4>1. S!Data(c, p) \/ S!DataUnparsable(c, p)
        BY DEF S!Handshake, S!Report, S!Wifi, S!WifiSkipped, S!Other
      <4>2. CASE S!Data(c, p)
        BY <4>2 DEF S!Data, S!Take
      <4>3. CASE S!DataUnparsable(c, p)
        <5>1. todo' = todo /\ Len(todo[c]) = 0
          BY <1>1, <4>3 DEF S!DataUnparsable, Agree, Left
        <5> QED
          BY <5>1
      <4> QED
        BY <4>1, <4>2, <4>3
    <3> QED
      BY <3>3, <3>4
  <2> DEFINE n == Len(todo'[c])
  <2>4. CASE P!StartLogger(c, n) \/ P!StartStatus(c, n)
    <3>1. n \in Nat
      BY <2>4, TaskFacts DEF P!StartLogger, P!StartStatus
    <3>2. /\ pc'[c] \in {"logger", "status"} /\ size'[c] = n /\ next'[c] = 1
      BY <2>4 DEF P!StartLogger, P!StartStatus, P!Goto
    <3>3. Left(c)' = n
      BY <3>1, <3>2 DEF Left
    <3> QED
      BY <2>2, <3>3 DEF Agree
  <2>5. ASSUME p.type = "data", NEW k \in PvCounts, P!StartData(c, k)
        PROVE  Agree(c)'
    <3>1. pc'[c] = "check"
      BY <2>5 DEF P!StartData, P!Goto
    <3>2. n \in Nat
      <4>1. S!TypeOK'
        BY StepSession, SessionType DEF Next
      <4> QED
        BY <4>1
    <3>3. n > 0 /\ n <= 1
      BY <2>1, <2>3, <2>5
    <3>4. n = 1
      <4> HIDE DEF n
      <4> QED
        BY <3>2, <3>3
    <3> QED
      BY <2>2, <3>1, <3>4 DEF Agree, Left
  <2> QED
    BY <1>3, <2>1, <2>3, <2>4, <2>5 DEF HandlePacket
<1> QED
  BY <1>2, <1>3

\* Steps of a handler.
LEMMA AgreeTask ==
  ASSUME S!TypeOK, P!TypeOK, NEW c \in Conns, Agree(c),
         \/ Discover(c) \/ PublishAhead(c) \/ PublishNext(c)
         \/ PublishError(c) \/ Respond(c) \/ WriteError(c)
  PROVE  Agree(c)'
<1>0. /\ PvSlots \in Nat \ {0}
      /\ todo[c] \in Seq(S!Messages) /\ Len(todo[c]) \in Nat
      /\ next[c] \in Nat \ {0} /\ size[c] \in Nat /\ P!Length(c) \in Nat
  BY TaskFacts
<1>1. CASE Discover(c)
  <2>1. busy' = busy /\ todo' = todo
    BY <1>1 DEF Discover, sessionOnly
  <2>2. /\ pc[c] \in {"check", "meta", "config"} /\ next'[c] = 1
        /\ pc'[c] \in {"meta", "config", "data"} /\ size' = size
    BY <1>1 DEF Discover, P!Suppress, P!Expire, P!ReadMetadata, P!Record,
       P!Goto, P!TypeOK
  <2>3. pc'[c] = "data" => 1 <= P!Length(c)'
    BY <1>0, <2>2 DEF P!Length
  <2>4. Left(c) = 1 /\ Left(c)' = 1
    BY <2>2, <2>3 DEF Left
  <2> QED
    BY <2>1, <2>2, <2>4 DEF Agree
<1>2. CASE PublishAhead(c) \/ PublishNext(c)
  <2>1. /\ pc' = pc /\ size' = size /\ next'[c] = next[c] + 1
        /\ pc[c] \in {"config", "data", "logger", "status"}
        /\ next[c] <= P!Length(c)
    <3>1. P!Publish(c)
      BY <1>2 DEF PublishAhead, PublishNext
    <3>2. pc' = pc /\ size' = size /\ next'[c] = next[c] + 1
      BY <3>1 DEF P!Publish, P!TypeOK
    <3>3. pc[c] \in {"config", "data", "logger", "status"}
      BY <3>1 DEF P!Publish, P!Publishing
    <3>4. next[c] <= P!Length(c)
      BY <1>0, <3>1 DEF P!Publish, P!PhaseDone
    <3> QED
      BY <3>2, <3>3, <3>4
  <2>2. P!Length(c)' = P!Length(c)
    BY <2>1 DEF P!Length
  <2>3. CASE PublishAhead(c)
    <3>1. busy' = busy /\ todo' = todo
      BY <2>3 DEF PublishAhead, sessionOnly
    <3>2. \/ pc[c] = "config"
          \/ pc[c] = "data" /\ next[c] # P!Length(c)
      BY <2>1, <2>3 DEF PublishAhead, Completes
    <3>3. Left(c)' = Left(c)
      BY <1>0, <2>1, <2>2, <3>2 DEF Left
    <3> QED
      BY <2>1, <3>1, <3>3 DEF Agree
  <2>4. CASE PublishNext(c)
    <3>1. busy' = busy /\ todo'[c] = Tail(todo[c]) /\ todo[c] # <<>>
      BY <2>4 DEF PublishNext, S!PublishNext, S!TypeOK
    <3>2. Len(todo'[c]) = Len(todo[c]) - 1
      BY <1>0, <3>1
    <3>3. \/ pc[c] \in {"logger", "status"}
          \/ pc[c] = "data" /\ next[c] = P!Length(c)
      BY <2>4 DEF PublishNext, Completes
    <3>4. CASE pc[c] \in {"logger", "status"}
      <4>1. Left(c) = size[c] - next[c] + 1 /\ Left(c)' = size[c] - next'[c] + 1
        BY <2>1, <3>4 DEF Left
      <4> QED
        BY <1>0, <2>1, <3>1, <3>2, <4>1, SMTT(30) DEF Agree
    <3>5. CASE pc[c] = "data" /\ next[c] = P!Length(c)
      <4>1. Left(c) = 1 /\ Left(c)' = 0
        BY <1>0, <2>1, <2>2, <3>5 DEF Left
      <4> QED
        BY <1>0, <2>1, <3>1, <3>2, <4>1 DEF Agree
    <3> QED
      BY <3>3, <3>4, <3>5
  <2> QED
    BY <1>2, <2>3, <2>4
<1>3. CASE PublishError(c)
  <2>1. busy' = busy /\ todo'[c] = <<>> /\ pc'[c] = "respond" /\ pc[c] # "idle"
    BY <1>3 DEF PublishError, S!PublishError, P!PublishError, P!Goto,
       P!Publishing, S!TypeOK, P!TypeOK
  <2> QED
    BY <2>1 DEF Agree, Left
<1>4. CASE Respond(c) \/ WriteError(c)
  <2>1. todo'[c] = <<>>
    BY <1>4 DEF Respond, WriteError, S!Respond, S!WriteError
  <2>2. pc'[c] = "idle"
    BY <1>4 DEF Respond, WriteError, Return, P!Respond, P!Goto, publisherOnly,
       P!TypeOK
  <2> QED
    BY <2>1, <2>2 DEF Agree, Left
<1> QED
  BY <1>1, <1>2, <1>3, <1>4

LEMMA AgreeStep ==
  ASSUME S!TypeOK, P!TypeOK, TasksAgree, [Next]_vars
  PROVE  TasksAgree'
<1>1. ASSUME NEW c \in Conns, Apart(c) \/ PublishAhead(c) \/ PublishNext(c)
      PROVE  TasksAgree'
  <2>1. Agree(c)
    BY DEF TasksAgree
  <2>2. Agree(c)'
    <3>1. CASE Connect(c) \/ Disconnect(c)
      <4>1. Alone(c)
        BY <3>1 DEF Connect, Disconnect, S!Connect, S!Disconnect,
           publisherOnly, Alone
      <4> QED
        BY <2>1, <4>1, AloneAgree
    <3>2. CASE HandlePacket(c)
      BY <2>1, <3>2, AgreeHandle
    <3> QED
      BY <1>1, <2>1, <3>1, <3>2, AgreeTask DEF Apart
  <2>3. \A d \in Conns : d # c => Agree(d)'
    BY <1>1, OthersAlone, AloneAgree DEF TasksAgree
  <2> QED
    BY <2>2, <2>3 DEF TasksAgree
<1>2. CASE Send \/ Reconnect \/ Tick \/ ConnectionLost \/ LoopDies
             \/ UNCHANGED vars
  <2>1. \A d \in Conns : Alone(d)
    BY <1>2 DEF Send, Reconnect, Tick, ConnectionLost, LoopDies, vars,
       sessionOnly, publisherOnly, P!Send, P!Reconnect, P!Tick,
       P!ConnectionLost, P!LoopDies, S!LoopDies, P!task, Alone
  <2> QED
    BY <2>1, AloneAgree DEF TasksAgree
<1>3. CASE Restart
  BY <1>3 DEF Restart, S!Restart, P!Restart, TasksAgree, Agree, Left
<1> QED
  BY <1>1, <1>2, <1>3 DEF Next, Apart

-----------------------------------------------------------------------------
(***************************************************************************)
(* The metadata of the logger.                                             *)
(***************************************************************************)

LoggerInv == MetadataThere /\ DiscoveryKnowsLogger

\* What a packet adds to what is known: the handler of a handshake that
\* parses stores the metadata before anything else.
LEMMA HandleKnown ==
  ASSUME S!TypeOK, P!TypeOK, LoggerInv, NEW c \in Conns, HandlePacket(c),
         NEW d \in Conns, open[d], Known(d)'
  PROVE  generation' > 0
<1>1. PICK p \in Packets : \/ S!Handshake(c, p) \/ S!Data(c, p)
                           \/ S!DataUnparsable(c, p) \/ S!Report(c, p)
                           \/ S!Wifi(c, p) \/ S!WifiSkipped(c, p)
                           \/ S!Other(c, p)
  BY DEF HandlePacket, S!HandlePacket
<1>2. served' = [served EXCEPT ![c] = Append(@, p)]
  BY <1>1 DEF S!Handshake, S!Data, S!DataUnparsable, S!Report, S!Wifi,
     S!WifiSkipped, S!Other, S!Take
<1>3. served \in [Conns -> Seq(Packets)] /\ handshakes \in Nat /\ generation \in Nat
  BY DEF S!TypeOK, P!TypeOK
<1>4. generation' = generation \/ generation' = handshakes + 1
  BY DEF HandlePacket, publisherOnly, P!StartLogger, P!StartData,
     P!StartStatus, P!shared
<1>5. CASE Known(d)
  BY <1>3, <1>4, <1>5 DEF LoggerInv, MetadataThere
<1>6. CASE ~Known(d)
  <2>1. d = c
    <3>1. CASE d # c
      <4>1. served'[d] = served[d]
        BY <1>2, <1>3, <3>1
      <4> QED
        BY <1>6, <4>1 DEF Known
    <3> QED
      BY <3>1
  <2>2. served'[c] = Append(served[c], p) /\ served[c] \in Seq(Packets)
    BY <1>2, <1>3
  <2>3. p.type = "handshake" /\ p.parses
    BY <1>6, <2>1, <2>2 DEF Known
  <2>4. S!Handshake(c, p)
    BY <1>1, <2>3 DEF S!Data, S!DataUnparsable, S!Report, S!Wifi,
       S!WifiSkipped, S!Other
  <2>5. todo'[c] # <<>> /\ Len(todo'[c]) # 0
    <3>1. PICK rest : /\ rest = <<>> \/ \E m : rest = <<m>>
                      /\ todo'[c] = <<S!Message("identity", TRUE)>> \o rest
      <4> DEFINE name == Trimmed[p.ssid]
                 named == p.parses /\ name # Blank
      <4>1. todo'[c] = <<S!Message("identity", TRUE)>> \o
                         IF named THEN <<S!Message("wifi_ssid", name)>> ELSE <<>>
        BY <2>3, <2>4 DEF S!Handshake, S!Take, S!TypeOK
      <4> QED
        BY <4>1
    <3> QED
      BY <3>1
  <2>6. served'[c][Len(served'[c])] = p
    BY <2>2
  <2>7. P!StartLogger(c, Len(todo'[c]))
    BY <2>3, <2>5, <2>6 DEF HandlePacket
  <2> QED
    BY <1>3, <2>7 DEF P!StartLogger
<1> QED
  BY <1>5, <1>6

LEMMA LoggerStep ==
  ASSUME S!TypeOK, P!TypeOK, TasksAgree, LoggerInv, [Next]_vars
  PROVE  LoggerInv'
<1> USE DEF LoggerInv, MetadataThere, DiscoveryKnowsLogger
<1>0. /\ open \in [Conns -> BOOLEAN] /\ pc \in [Conns -> P!Locations]
      /\ device \in [Conns -> Nat] /\ served \in [Conns -> Seq(Packets)]
      /\ \A d \in Conns : pc[d] # "idle" => open[d]
  BY DEF S!TypeOK, S!OneAtATime, P!TypeOK, TasksAgree, Agree
<1>1. ASSUME NEW c \in Conns, Connect(c) PROVE LoggerInv'
  <2>1. served'[c] = <<>> /\ \A d \in Conns : d # c => served'[d] = served[d]
    BY <1>0, <1>1 DEF Connect, S!Connect
  <2>2. ~Known(c)' /\ \A d \in Conns : d # c => Known(d)' = Known(d)
    BY <2>1 DEF Known
  <2>3. \A d \in Conns : d # c => open'[d] = open[d]
    BY <1>0, <1>1 DEF Connect, S!Connect
  <2>4. pc' = pc /\ device' = device /\ generation' = generation
    BY <1>1 DEF Connect, publisherOnly
  <2> QED
    BY <2>2, <2>3, <2>4
<1>2. ASSUME NEW c \in Conns, HandlePacket(c) PROVE LoggerInv'
  <2>1. open' = open /\ device' = device
    BY <1>2 DEF HandlePacket, publisherOnly, S!HandlePacket, S!Handshake,
       S!Data, S!DataUnparsable, S!Report, S!Wifi, S!WifiSkipped, S!Other,
       S!Take, P!StartLogger, P!StartData, P!StartStatus
  <2>2. ASSUME NEW d \in Conns, pc'[d] = "config", Known(d)'
        PROVE  pc[d] = "config" /\ Known(d)
    <3>1. pc[d] = "config"
      BY <1>0, <1>2, <2>2 DEF HandlePacket, publisherOnly, P!StartLogger,
         P!StartData, P!StartStatus, P!Goto
    <3>2. busy[d] /\ ~busy[c]
      BY <1>2, <3>1 DEF TasksAgree, Agree, HandlePacket, S!HandlePacket,
         S!Handshake, S!Data, S!DataUnparsable, S!Report, S!Wifi,
         S!WifiSkipped, S!Other, S!Take
    <3>3. served'[d] = served[d]
      BY <1>0, <1>2, <3>2 DEF HandlePacket, S!HandlePacket, S!Handshake,
         S!Data, S!DataUnparsable, S!Report, S!Wifi, S!WifiSkipped, S!Other,
         S!Take
    <3> QED
      BY <2>2, <3>1, <3>3 DEF Known
  <2>3. \A d \in Conns : open'[d] /\ Known(d)' => generation' > 0
    BY <1>2, <2>1, HandleKnown
  <2> QED
    BY <2>1, <2>2, <2>3
<1>3. ASSUME NEW c \in Conns,
             \/ Disconnect(c) \/ Discover(c) \/ PublishAhead(c)
             \/ PublishNext(c) \/ PublishError(c) \/ Respond(c) \/ WriteError(c)
      PROVE  LoggerInv'
  <2>1. served' = served /\ \A d \in Conns : open'[d] => open[d]
    BY <1>0, <1>3 DEF Disconnect, Discover, PublishAhead, PublishNext,
       PublishError, Respond, WriteError, sessionOnly, S!Disconnect,
       S!PublishNext, S!PublishError, S!Respond, S!WriteError
  <2>2. generation' = generation
    BY <1>3 DEF Disconnect, Discover, PublishAhead, PublishNext, PublishError,
       Respond, WriteError, Return, publisherOnly, P!Suppress, P!Expire,
       P!ReadMetadata, P!Record, P!Publish, P!PublishError, P!Respond, P!shared
  <2>3. ASSUME NEW d \in Conns, pc'[d] = "config"
        PROVE  \/ device'[d] = device[d] /\ pc[d] = "config"
               \/ device'[d] = generation /\ open[d]
    <3>1. CASE Disconnect(c) \/ PublishAhead(c) \/ PublishNext(c)
      BY <2>3, <3>1 DEF Disconnect, PublishAhead, PublishNext, publisherOnly,
         P!Publish
    <3>2. CASE Discover(c)
      BY <1>0, <2>3, <3>2 DEF Discover, P!Suppress, P!Expire, P!ReadMetadata,
         P!Record, P!Goto
    <3>3. CASE PublishError(c) \/ Respond(c) \/ WriteError(c)
      BY <1>0, <2>3, <3>3 DEF PublishError, Respond, WriteError, Return,
         publisherOnly, P!PublishError, P!Respond, P!Goto
    <3> QED
      BY <1>3, <3>1, <3>2, <3>3
  <2>4. \A d \in Conns : Known(d)' = Known(d)
    BY <2>1 DEF Known
  <2> QED
    BY <2>1, <2>2, <2>3, <2>4
<1>4. CASE Send \/ Reconnect \/ Tick \/ ConnectionLost \/ LoopDies
             \/ UNCHANGED vars
  <2>1. /\ served' = served /\ open' = open /\ generation' = generation
        /\ pc' = pc /\ device' = device
    BY <1>4 DEF Send, Reconnect, Tick, ConnectionLost, LoopDies, vars,
       sessionOnly, publisherOnly, P!Send, P!Reconnect, P!Tick,
       P!ConnectionLost, P!LoopDies, S!LoopDies, P!task, P!shared
  <2> QED
    BY <2>1 DEF Known
<1>5. CASE Restart
  BY <1>5 DEF Restart, S!Restart, P!Restart
<1> QED
  BY <1>1, <1>2, <1>3, <1>4, <1>5 DEF Next

-----------------------------------------------------------------------------
\* The inductive invariant of the program.
LEMMA ServerInit == Init => ServerInv
<1> SUFFICES ASSUME Init PROVE ServerInv
  OBVIOUS
<1>1. TypeOK
  BY DEF Init, S!Init, P!Init, TypeOK
<1>2. TasksAgree
  BY DEF Init, S!Init, P!Init, TasksAgree, Agree, Left
<1>3. NewestArrives
  BY DEF Init, S!Init, NewestArrives, Waiting
<1>4. MetadataThere /\ DiscoveryKnowsLogger
  BY DEF Init, S!Init, P!Init, MetadataThere, DiscoveryKnowsLogger
<1> QED
  BY <1>1, <1>2, <1>3, <1>4 DEF ServerInv

THEOREM Invariant == Spec => []ServerInv
<1>1. S!TypeOK /\ P!TypeOK /\ ServerInv /\ [Next]_vars => ServerInv'
  BY CargoStep, NewestStep, AgreeStep, LoggerStep DEF ServerInv, LoggerInv
<1> QED
  BY <1>1, ServerInit, SessionsHold, PublisherHolds, PTL DEF Spec

\* A packet is answered when its handler is through and only then
\* (server.rs:193-276).
THEOREM AgreementCorrect == Spec => []TasksAgree
<1>1. ServerInv => TasksAgree
  BY DEF ServerInv
<1> QED
  BY <1>1, Invariant, PTL

\* As long as nothing fails, the broker is left with the last value of each
\* topic (mqtt.rs:760-770).
THEOREM ArrivalCorrect == Spec => []NewestArrives
<1>1. ServerInv => NewestArrives
  BY DEF ServerInv
<1> QED
  BY <1>1, Invariant, PTL

\* A discovery behind a handshake of its connection knows the logger
\* (mqtt.rs:221, 350-354).
THEOREM KnowledgeCorrect == Spec => []DiscoveryKnowsLogger
<1>1. ServerInv => DiscoveryKnowsLogger
  BY DEF ServerInv
<1> QED
  BY <1>1, Invariant, PTL

-----------------------------------------------------------------------------
(***************************************************************************)
(* From the logger to the broker: what process_packet has told the client  *)
(* and what the client tells the broker, together.                         *)
(***************************************************************************)

\* When a connection is at rest, the broker is left in each topic of a report
\* with what the last report of the connection that tells it told.
BrokerShowsLastReport ==
  faults = 0 =>
    \A c \in Conns : open[c] /\ ~busy[c] =>
      \A t \in S!ReportTopics : \A i \in S!Telling(c, t) :
        S!IsLast(i, S!Telling(c, t)) => LeftWith(t, S!Told(served[c][i], t))

\* The event loop runs until a fault ends it.
LEMMA FaultlessAlive == Spec => [](faults = 0 => alive)
<1>1. Init => (faults = 0 => alive)
  BY DEF Init, P!Init
<1>2. P!TypeOK /\ (faults = 0 => alive) /\ [P!Next]_P!vars => (faults = 0 => alive)'
  <2> SUFFICES ASSUME P!TypeOK, faults = 0 => alive, [P!Next]_P!vars, faults' = 0
               PROVE  alive'
    OBVIOUS
  <2>1. faults \in Nat
    BY DEF P!TypeOK
  <2>2. CASE \E k \in Faults : P!Fault(k)
    BY <2>1, <2>2 DEF P!Fault
  <2>3. CASE UNCHANGED <<alive, faults>>
    BY <2>3
  <2>4. CASE ~(\E k \in Faults : P!Fault(k)) /\ ~UNCHANGED <<alive, faults>>
    BY <2>4, Zenon
       DEF P!Next, P!vars, P!shared, P!client, P!task, P!Unshared, P!StartData,
           P!StartLogger, P!StartStatus, P!TaskStep, P!Suppress, P!Expire,
           P!ReadMetadata, P!Record, P!PublishError, P!Respond, P!Publish,
           P!Send, P!Reconnect, P!ConnectionLost, P!LoopDies, P!Restart, P!Tick,
           P!Fault
  <2> QED
    BY <2>2, <2>3, <2>4
<1> QED
  BY <1>1, <1>2, StepPublisher, PublisherHolds, PTL DEF Spec

\* What the client was handed last is what the broker is left with.
LEMMA Arrived ==
  ASSUME NewestArrives, faults = 0, NEW t \in S!Topics, NEW v, topics[t] = v
  PROVE  LeftWith(t, v)
BY Zenon DEF NewestArrives, LeftWith

\* The topics of a report are topics.
LEMMA TopicsOfReports == S!ReportTopics \subseteq S!Topics
BY DEF S!ReportTopics, S!Topics

\* With a logger that has one connection at a time, reconnects included, and
\* as long as nothing fails, the broker ends up with what the last report of
\* the connection told: uptime and report time of the last report, the reboot
\* time of the last one whose clock was set.  The discoveries in between, the
\* room in the queue and the time the broker takes do not matter
\* (server.rs:230-250, mqtt.rs:271-299, 760-770).
THEOREM OneLoggerBroker ==
  ASSUME \A c, d \in Conns : c = d
  PROVE  Spec => []BrokerShowsLastReport
<1>1. Spec => []S!LastReportShown
  BY OneLoggerSessions, PTL
<1>2. S!LastReportShown /\ NewestArrives /\ (faults = 0 => alive)
        => BrokerShowsLastReport
  <2> SUFFICES ASSUME S!LastReportShown, NewestArrives, faults = 0, alive,
                      NEW c \in Conns, open[c], ~busy[c],
                      NEW t \in S!ReportTopics, NEW i \in S!Telling(c, t),
                      S!IsLast(i, S!Telling(c, t))
               PROVE  LeftWith(t, S!Told(served[c][i], t))
    BY Zenon DEF BrokerShowsLastReport
  <2>1. topics[t] = S!Told(served[c][i], t)
    BY Zenon DEF S!LastReportShown
  <2>2. t \in S!Topics
    BY TopicsOfReports
  <2> QED
    BY <2>1, <2>2, Arrived
<1> QED
  BY <1>1, <1>2, ArrivalCorrect, FaultlessAlive, PTL

-----------------------------------------------------------------------------
(***************************************************************************)
(* The same for any number of connections.                                 *)
(***************************************************************************)

\* As long as nothing has failed, a step of the program is one of a task in
\* Session or leaves the sessions alone.
LEMMA FaultlessStep ==
  ASSUME P!TypeOK, [Next]_vars, faults' = 0
  PROVE  \/ \E c \in Conns : SP!TaskStep(c)
         \/ UNCHANGED sessionOnly
<1> USE DEF sessionOnly, publisherOnly, outside
<1>1. ASSUME NEW c \in Conns,
             \/ Connect(c) \/ Disconnect(c) \/ HandlePacket(c) \/ PublishNext(c)
             \/ PublishError(c) \/ Respond(c) \/ WriteError(c)
      PROVE  SP!TaskStep(c)
  <2>1. \/ S!Connect(c) \/ S!Disconnect(c) \/ S!HandlePacket(c)
        \/ S!PublishNext(c) \/ S!PublishError(c) \/ S!Respond(c)
        \/ S!WriteError(c)
    BY <1>1 DEF Connect, Disconnect, HandlePacket, PublishNext, PublishError,
       Respond, WriteError
  <2> QED
    BY <2>1, Zenon
       DEF S!state, S!Connect, S!Disconnect, S!HandlePacket, S!PublishNext,
           S!PublishError, S!Respond, S!WriteError, S!Handshake, S!Data,
           S!DataUnparsable, S!Report, S!Wifi, S!WifiSkipped, S!Other, S!Take,
           S!Message, S!ShowsSignal, S!Older, S!Time,
           SP!TaskStep, SP!state, SP!Connect, SP!Disconnect, SP!HandlePacket,
           SP!PublishNext, SP!PublishError, SP!Respond, SP!WriteError,
           SP!Handshake, SP!Data, SP!DataUnparsable, SP!Report, SP!Wifi,
           SP!WifiSkipped, SP!Other, SP!Take, SP!Message, SP!ShowsSignal,
           SP!Older, SP!Time
<1>2. ASSUME NEW c \in Conns, Discover(c) \/ PublishAhead(c)
      PROVE  UNCHANGED sessionOnly
  BY <1>2 DEF Discover, PublishAhead
<1>3. CASE Send \/ Reconnect \/ Tick \/ ConnectionLost \/ UNCHANGED vars
  BY <1>3 DEF Send, Reconnect, Tick, ConnectionLost, vars
<1>4. ~LoopDies /\ ~Restart
  <2>1. \A k : P!Fault(k) => faults' # 0
    BY DEF P!Fault, P!TypeOK
  <2> QED
    BY <2>1 DEF LoopDies, Restart, P!LoopDies, P!Restart
<1> QED
  BY <1>1, <1>2, <1>3, <1>4 DEF Next

\* Without faults every message of a report is shown or under way.
LEMMA ReportsSettle == Spec => [](faults = 0 => SP!SettleInv)
<1>0. SP!SessionAssumption
  BY ServerAssumption, Zenon DEF S!SessionAssumption, S!AllPackets,
     SP!SessionAssumption, SP!AllPackets
<1>1. Init => SP!SettleInv
  <2>1. SP!Init => SP!SettleInv
    BY <1>0, SP!SettleInit, Zenon DEF SP!SettleInit
  <2> QED
    BY <2>1, SameSessions DEF Init
<1>2. /\ S!TypeOK /\ P!TypeOK /\ (faults = 0 => alive)
      /\ (faults = 0 => SP!SettleInv) /\ [Next]_vars
      => (faults = 0 => SP!SettleInv)'
  <2> SUFFICES ASSUME S!TypeOK, P!TypeOK, faults = 0 => alive,
                      faults = 0 => SP!SettleInv, [Next]_vars, faults' = 0
               PROVE  SP!SettleInv'
    OBVIOUS
  <2>1. faults = 0
    <3>1. [P!Next]_P!vars /\ faults \in Nat
      BY StepPublisher DEF P!TypeOK
    <3>2. CASE \E k \in Faults : P!Fault(k)
      BY <3>1, <3>2 DEF P!Fault
    <3>3. CASE ~\E k \in Faults : P!Fault(k)
      <4>1. faults' = faults
        BY <3>1, <3>3, Zenon
           DEF P!Next, P!vars, P!shared, P!client, P!task, P!Unshared,
               P!StartData, P!StartLogger, P!StartStatus, P!TaskStep,
               P!Suppress, P!Expire, P!ReadMetadata, P!Record, P!PublishError,
               P!Respond, P!Publish, P!Send, P!Reconnect, P!ConnectionLost,
               P!LoopDies, P!Restart, P!Tick, P!Fault
      <4> QED
        BY <4>1
    <3> QED
      BY <3>2, <3>3
  <2>2. SP!TypeOK
    BY SameSessions
  <2>3. ASSUME NEW c \in Conns, SP!TaskStep(c) PROVE SP!SettleInv'
    BY <1>0, <2>1, <2>2, <2>3, SP!SettleStep, Zenon DEF SP!SettleStep
  <2>4. ASSUME UNCHANGED sessionOnly PROVE SP!SettleInv'
    BY <1>0, <2>1, <2>4, SP!SettleSame, Zenon DEF SP!SettleSame, sessionOnly
  <2> QED
    BY <2>3, <2>4, FaultlessStep
<1> QED
  BY <1>1, <1>2, SessionsHold, PublisherHolds, FaultlessAlive, PTL DEF Spec

\* With any number of connections, as long as nothing has failed and no task
\* has had a second connection, the broker is left in each topic of a report
\* with what the last report of one of them told, when all are at rest: the
\* interleaving of their messages, and of the discoveries between them, loses
\* none of them and brings no older one back (mqtt.rs:271-299, 760-770).
THEOREM ReportsArrive == Spec => []BrokerShowsReports
<1>0. SP!SessionAssumption
  BY ServerAssumption, Zenon DEF S!SessionAssumption, S!AllPackets,
     SP!SessionAssumption, SP!AllPackets
<1>1. S!TypeOK /\ NewestArrives /\ (faults = 0 => SP!SettleInv)
        => BrokerShowsReports
  <2> SUFFICES ASSUME S!TypeOK, NewestArrives, SP!SettleInv, faults = 0,
                      S!NoneReplaced, \A c \in Conns : ~busy[c],
                      NEW t \in S!ReportTopics
               PROVE  \/ LeftWith(t, None) /\ \A c \in Conns : S!Telling(c, t) = {}
                      \/ \E c \in Conns : \E i \in S!Telling(c, t) :
                           /\ S!IsLast(i, S!Telling(c, t))
                           /\ LeftWith(t, S!Told(served[c][i], t))
    BY Zenon DEF BrokerShowsReports
  <2>1. /\ \A c \in Conns : S!Telling(c, t) = SP!Telling(c, t)
        /\ \A i, positions : S!IsLast(i, positions) <=> SP!IsLast(i, positions)
        /\ \A p : S!Told(p, t) = SP!Told(p, t)
    BY Zenon DEF S!Telling, S!Reports, S!TopicsOf, S!ReportTopics, S!Told,
                 S!IsLast, S!Time,
                 SP!Telling, SP!Reports, SP!TopicsOf, SP!ReportTopics, SP!Told,
                 SP!IsLast, SP!Time
  <2>2. SP!TypeOK /\ SP!NoneReplaced /\ t \in SP!ReportTopics
    <3>1. SP!TypeOK
      BY SameSessions
    <3>2. S!Used = SP!Used
      BY Zenon DEF S!Used, SP!Used
    <3>3. SP!NoneReplaced
      BY <3>2, Zenon DEF S!NoneReplaced, SP!NoneReplaced, S!Cardinality,
                         SP!Cardinality
    <3>4. t \in SP!ReportTopics
      BY DEF S!ReportTopics, SP!ReportTopics
    <3> QED
      BY <3>1, <3>3, <3>4
  <2>3. \/ topics[t] = None /\ \A c \in Conns : SP!Telling(c, t) = {}
        \/ \E c \in Conns : \E i \in SP!Telling(c, t) :
             SP!IsLast(i, SP!Telling(c, t)) /\ topics[t] = SP!Told(served[c][i], t)
    BY <1>0, <2>2, SP!Settled, Zenon DEF SP!Settled
  <2>4. \A v : topics[t] = v => LeftWith(t, v)
    BY TopicsOfReports, Arrived
  <2>5. CASE topics[t] = None /\ \A c \in Conns : SP!Telling(c, t) = {}
    BY <2>1, <2>4, <2>5
  <2>6. CASE \E c \in Conns : \E i \in SP!Telling(c, t) :
               SP!IsLast(i, SP!Telling(c, t)) /\ topics[t] = SP!Told(served[c][i], t)
    <3> PICK c \in Conns : \E i \in SP!Telling(c, t) :
          SP!IsLast(i, SP!Telling(c, t)) /\ topics[t] = SP!Told(served[c][i], t)
      BY <2>6
    <3> PICK i \in SP!Telling(c, t) :
          SP!IsLast(i, SP!Telling(c, t)) /\ topics[t] = SP!Told(served[c][i], t)
      OBVIOUS
    <3>1. i \in S!Telling(c, t) /\ S!IsLast(i, S!Telling(c, t))
      BY <2>1
    <3>2. LeftWith(t, S!Told(served[c][i], t))
      BY <2>1, <2>4
    <3> QED
      BY <3>1, <3>2
  <2> QED
    BY <2>3, <2>5, <2>6
<1> QED
  BY <1>1, SessionsHold, ArrivalCorrect, ReportsSettle, PTL
=============================================================================
