--------------------------- MODULE PublisherProofs ---------------------------
(***************************************************************************)
(* Theorems about Publisher, for every number of tasks and of places in    *)
(* the queue, whatever numbers of PV inputs the packets have, every        *)
(* interval and every combination of faults; how soon discovery is         *)
(* repeated is proved for one task.                                        *)
(***************************************************************************)
EXTENDS Publisher, SequenceTheorems, TLAPS

USE PublisherAssumption

-----------------------------------------------------------------------------
(***************************************************************************)
(* Types.                                                                  *)
(***************************************************************************)

\* The configurations of a discovery with n PV inputs, whatever it is, cover
\* those that are announced for every packet.
LEMMA ConfigFacts ==
  ASSUME NEW n \in PvCounts
  PROVE  /\ n \in 1..MaxPvCount
         /\ \A k \in 1..(n + 2) : Config(n, k) \in Configs
         /\ \A t \in Announced : \E k \in 1..(n + 2) : t = Config(n, k)
<1>1. n \in 1..MaxPvCount /\ MaxPvCount \in Nat
  OBVIOUS
<1>2. \A k \in 1..(n + 2) : Config(n, k) \in Configs
  BY <1>1 DEF Config, Configs, PlantConfig, LoggerConfig
<1>3. ASSUME NEW t \in Announced PROVE \E k \in 1..(n + 2) : t = Config(n, k)
  <2>1. CASE t = PlantConfig
    <3>1. n + 1 \in 1..(n + 2) /\ Config(n, n + 1) = PlantConfig
      BY <1>1 DEF Config
    <3> QED
      BY <2>1, <3>1
  <2>2. CASE t = LoggerConfig
    <3>1. n + 2 \in 1..(n + 2) /\ Config(n, n + 2) = LoggerConfig
      BY <1>1 DEF Config
    <3> QED
      BY <2>2, <3>1
  <2>3. CASE t \in 1..MaxPvCount /\ \A m \in PvCounts : t <= m
    <3>1. t \in 1..(n + 2) /\ Config(n, t) = t
      BY <1>1, <2>3 DEF Config
    <3> QED
      BY <3>1
  <2> QED
    BY <2>1, <2>2, <2>3 DEF Announced
<1> QED
  BY <1>1, <1>2, <1>3

\* What the types tell of the phase of a task.
LEMMA Phase ==
  ASSUME TypeOK, NEW c \in Conns
  PROVE  /\ Length(c) \in Nat
         /\ pc[c] = "config" => Length(c) = size[c] + 2 /\ size[c] \in PvCounts
<1>1. size[c] \in Nat /\ PvSlots \in Nat
  BY DEF TypeOK
<1>2. pc[c] = "config" => size[c] \in PvCounts
  BY DEF TypeOK, OfData
<1> QED
  BY <1>1, <1>2 DEF Length

\* The part of the type invariant about where the tasks are.
TaskTypes ==
  /\ pc \in [Conns -> Locations]
  /\ size \in [Conns -> Nat]
  /\ \A c \in Conns : pc[c] \in OfData => size[c] \in PvCounts
  /\ next \in [Conns -> Nat \ {0}]
  /\ \A c \in Conns : next[c] <= Length(c) + 1

\* Going to a location keeps the types.
LEMMA GotoType ==
  ASSUME TypeOK, NEW c \in Conns, NEW location \in Locations, Goto(c, location),
         NEW n \in Nat, size' = size \/ size' = [size EXCEPT ![c] = n],
         location \in OfData => size'[c] \in PvCounts
  PROVE  TaskTypes'
<1>1. /\ pc' \in [Conns -> Locations] /\ next' \in [Conns -> Nat \ {0}]
      /\ size' \in [Conns -> Nat]
  BY DEF TypeOK, Goto
<1>2. \A d \in Conns : pc'[d] \in OfData => size'[d] \in PvCounts
  BY DEF TypeOK, Goto
<1>3. ASSUME NEW d \in Conns PROVE next'[d] <= Length(d)' + 1
  <2>1. CASE d = c
    <3>1. next'[d] = 1
      BY <2>1 DEF Goto, TypeOK
    <3>2. Length(d)' \in Nat
      BY <1>1 DEF Length
    <3> QED
      BY <3>1, <3>2
  <2>2. CASE d # c
    <3>1. pc'[d] = pc[d] /\ size'[d] = size[d] /\ next'[d] = next[d]
      BY <2>2 DEF Goto, TypeOK
    <3>2. Length(d)' = Length(d)
      BY <3>1 DEF Length
    <3> QED
      BY <3>1, <3>2 DEF TypeOK
  <2> QED
    BY <2>1, <2>2
<1> QED
  BY <1>1, <1>2, <1>3 DEF TaskTypes

\* The first state has the types.
LEMMA TypeInit == Init => TypeOK
<1> SUFFICES ASSUME Init PROVE TypeOK
  OBVIOUS
<1>1. queue \in Seq(Messages)
  BY DEF Init
<1>2. connected \in BOOLEAN /\ alive \in BOOLEAN
  BY DEF Init
<1>3. pc \in [Conns -> Locations] /\ size \in [Conns -> Nat]
  BY DEF Init, Locations
<1>4. /\ next \in [Conns -> Nat \ {0}]
      /\ \A c \in Conns : pc[c] \in OfData => size[c] \in PvCounts
      /\ \A c \in Conns : next[c] <= Length(c) + 1
  BY DEF Init, OfData, Length
<1>5. /\ clock \in Nat /\ stamp \in Nat \cup {Never} /\ metadata \in Nat
      /\ handshakes \in Nat /\ now \in [Conns -> Nat]
      /\ device \in [Conns -> Nat] /\ faults \in Nat
  BY DEF Init
<1>6. /\ shown \in [Configs -> Nat \cup {Never}]
      /\ enqueuedAt \in [Configs -> Nat \cup {Never}]
  BY DEF Init
<1> QED
  BY <1>1, <1>2, <1>3, <1>4, <1>5, <1>6 DEF TypeOK

\* Steps that take a task to a location.
Going(c) ==
  \/ \E n \in PvCounts : StartData(c, n)
  \/ \E n \in LoggerCounts : StartLogger(c, n)
  \/ \E n \in StatusCounts : StartStatus(c, n)
  \/ TaskStep(c)

\* Every step of a task keeps the types.
LEMMA TypeTask ==
  ASSUME TypeOK, NEW c \in Conns, Going(c)
  PROVE  TypeOK'
<1> USE DEF shared, client, Unshared
<1>1. TaskTypes'
  <2>1. CASE \E n \in PvCounts : StartData(c, n)
    <3> PICK n \in PvCounts : StartData(c, n)
      BY <2>1
    <3>1. n \in Nat /\ "check" \in Locations
      BY ConfigFacts DEF Locations, OfData
    <3>2. size' = [size EXCEPT ![c] = n] /\ Goto(c, "check")
      BY DEF StartData
    <3>3. size'[c] \in PvCounts
      BY <3>2 DEF TypeOK
    <3> QED
      BY <3>1, <3>2, <3>3, GotoType
  <2>2. CASE \E n \in LoggerCounts : StartLogger(c, n)
    <3> PICK n \in LoggerCounts : StartLogger(c, n)
      BY <2>2
    <3>1. n \in Nat /\ "logger" \in Locations /\ "logger" \notin OfData
      BY DEF Locations, OfData, Publishing
    <3> QED
      BY <3>1, GotoType DEF StartLogger
  <2>3. CASE \E n \in StatusCounts : StartStatus(c, n)
    <3> PICK n \in StatusCounts : StartStatus(c, n)
      BY <2>3
    <3>1. n \in Nat /\ "status" \in Locations /\ "status" \notin OfData
      BY DEF Locations, OfData, Publishing
    <3> QED
      BY <3>1, GotoType DEF StartStatus
  <2>4. CASE Respond(c)
    <3>1. "idle" \in Locations /\ "idle" \notin OfData /\ 0 \in Nat
      BY DEF Locations, OfData
    <3> QED
      BY <2>4, <3>1, GotoType DEF Respond
  <2>5. CASE PublishError(c)
    <3>1. "respond" \in Locations /\ "respond" \notin OfData /\ 0 \in Nat
      BY DEF Locations, OfData
    <3> QED
      BY <2>5, <3>1, GotoType DEF PublishError
  <2>6. CASE Suppress(c) \/ Expire(c) \/ ReadMetadata(c) \/ Record(c)
    <3>1. /\ pc[c] \in OfData /\ size' = size
          /\ \E location \in OfData : Goto(c, location)
      BY <2>6 DEF Suppress, Expire, ReadMetadata, Record, OfData
    <3>2. PICK location \in OfData : Goto(c, location)
      BY <3>1
    <3>3. size'[c] \in PvCounts /\ location \in Locations /\ 0 \in Nat
      BY <3>1 DEF TypeOK, Locations
    <3> QED
      BY <3>1, <3>2, <3>3, GotoType
  <2> QED
    BY <2>1, <2>2, <2>3, <2>4, <2>5, <2>6 DEF Going, TaskStep
<1>2. /\ clock' = clock /\ queue' = queue /\ connected' = connected
      /\ alive' = alive /\ shown' = shown /\ faults' = faults
      /\ enqueuedAt' = enqueuedAt
  BY DEF Going, TaskStep, StartData, StartLogger, StartStatus, Suppress, Expire,
         ReadMetadata, Record, PublishError, Respond
<1>3. metadata' \in Nat /\ handshakes' \in Nat
  BY DEF Going, TaskStep, StartData, StartLogger, StartStatus, Suppress, Expire,
         ReadMetadata, Record, PublishError, Respond, TypeOK
<1>4. stamp' \in Nat \cup {Never}
  BY DEF Going, TaskStep, StartData, StartLogger, StartStatus, Suppress, Expire,
         ReadMetadata, Record, PublishError, Respond, TypeOK
<1>5. /\ \E t \in Nat : now' = now \/ now' = [now EXCEPT ![c] = t]
      /\ \E t \in Nat : device' = device \/ device' = [device EXCEPT ![c] = t]
  <2>1. 0 \in Nat /\ clock \in Nat /\ metadata \in Nat
    BY DEF TypeOK
  <2>2. now' = now \/ now' = [now EXCEPT ![c] = 0] \/ now' = [now EXCEPT ![c] = clock]
    BY DEF Going, TaskStep, StartData, StartLogger, StartStatus, Suppress,
           Expire, ReadMetadata, Record, PublishError, Respond
  <2>3. \/ device' = device \/ device' = [device EXCEPT ![c] = 0]
        \/ device' = [device EXCEPT ![c] = metadata]
    BY DEF Going, TaskStep, StartData, StartLogger, StartStatus, Suppress,
           Expire, ReadMetadata, Record, PublishError, Respond
  <2> QED
    BY <2>1, <2>2, <2>3
<1>6. now' \in [Conns -> Nat] /\ device' \in [Conns -> Nat]
  BY <1>5, ZenonT(40) DEF TypeOK
<1> QED
  BY <1>1, <1>2, <1>3, <1>4, <1>6, Zenon DEF TaskTypes, TypeOK

\* The next configuration of a task in discovery.
LEMMA NextConfig ==
  ASSUME TypeOK, NEW c \in Conns, ~PhaseDone(c), pc[c] = "config"
  PROVE  next[c] \in 1..(size[c] + 2) /\ Config(size[c], next[c]) \in Configs
<1>1. next[c] \in 1..(size[c] + 2) /\ size[c] \in PvCounts
  BY Phase, SMTT(30) DEF PhaseDone, TypeOK
<1> QED
  BY <1>1, ConfigFacts

\* What publish appends to the queue is a message.
LEMMA TypePublish ==
  ASSUME TypeOK, NEW c \in Conns, Publish(c)
  PROVE  TypeOK'
<1> DEFINE topic == IF pc[c] = "config" THEN Config(size[c], next[c]) ELSE next[c]
           m == [kind |-> pc[c], topic |-> topic, device |-> device[c]]
<1>1. next[c] \in Nat \ {0} /\ next[c] <= Length(c) /\ Length(c) \in Nat
  BY Phase DEF TypeOK, Publish, PhaseDone
<1>2. pc[c] = "config" => topic \in Configs
  BY NextConfig DEF Publish
<1>3. m \in Messages
  <2>1. pc[c] \in Publishing /\ device[c] \in Nat
    BY DEF Publish, TypeOK
  <2>2. CASE pc[c] = "config"
    BY <1>2, <2>1, <2>2 DEF Messages
  <2>3. CASE pc[c] # "config"
    BY <1>1, <2>1, <2>3 DEF Messages
  <2> QED
    BY <2>2, <2>3
<1>4. queue' = Append(queue, m)
  BY DEF Publish
<1>5. queue' \in Seq(Messages)
  <2> HIDE DEF m
  <2> QED
    BY <1>3, <1>4 DEF TypeOK
<1>6. enqueuedAt' \in [Configs -> Nat \cup {Never}]
  BY <1>2 DEF Publish, TypeOK
<1>7. TaskTypes'
  <2>1. /\ pc' = pc /\ size' = size /\ next' = [next EXCEPT ![c] = @ + 1]
    BY DEF Publish
  <2>2. \A d \in Conns : Length(d)' = Length(d)
    BY <2>1 DEF Length
  <2>3. next' \in [Conns -> Nat \ {0}]
    BY <2>1 DEF TypeOK
  <2>4. \A d \in Conns : next'[d] <= Length(d)' + 1
    BY <1>1, <2>1, <2>2 DEF TypeOK
  <2> QED
    BY <2>1, <2>3, <2>4 DEF TaskTypes, TypeOK
<1> QED
  BY <1>5, <1>6, <1>7, Zenon DEF Publish, TypeOK, TaskTypes, shared

\* A fault is counted.
LEMMA FaultType ==
  ASSUME TypeOK, NEW kind, Fault(kind)
  PROVE  faults' \in Nat
BY DEF TypeOK, Fault

\* What the client and the environment do keeps the types.
LEMMA TypeRest ==
  ASSUME TypeOK,
         \/ Send \/ Reconnect \/ ConnectionLost \/ LoopDies \/ Restart \/ Tick
         \/ UNCHANGED vars
  PROVE  TypeOK'
<1> USE DEF shared, client, task, vars
<1>1. CASE ~Restart
  <2>1. pc' = pc /\ size' = size /\ next' = next
    BY <1>1 DEF Send, Reconnect, ConnectionLost, LoopDies, Tick
  <2>2. \A c \in Conns : Length(c)' = Length(c)
    BY <2>1 DEF Length
  <2>3. TaskTypes'
    BY <2>1, <2>2 DEF TaskTypes, TypeOK
  <2>4. /\ stamp' = stamp /\ metadata' = metadata /\ handshakes' = handshakes
        /\ now' = now /\ device' = device /\ enqueuedAt' = enqueuedAt
    BY <1>1 DEF Send, Reconnect, ConnectionLost, LoopDies, Tick
  <2>5. clock' \in Nat
    BY <1>1 DEF Send, Reconnect, ConnectionLost, LoopDies, Tick, TypeOK
  <2>6. faults' \in Nat
    <3>1. faults' = faults \/ Fault("lost") \/ Fault("dies")
      BY <1>1 DEF Send, Reconnect, ConnectionLost, LoopDies, Tick
    <3> QED
      BY <3>1, FaultType DEF TypeOK
  <2>7. connected' \in BOOLEAN /\ alive' \in BOOLEAN
    BY <1>1 DEF Send, Reconnect, ConnectionLost, LoopDies, Tick, TypeOK
  <2>8. queue' \in Seq(Messages) /\ shown' \in [Configs -> Nat \cup {Never}]
    <3>1. CASE Send
      <4>1. queue # <<>> /\ queue \in Seq(Messages)
        BY <3>1 DEF Send, TypeOK
      <4>2. Head(queue) \in Messages /\ Tail(queue) \in Seq(Messages)
        BY <4>1
      <4>3. shown' \in [Configs -> Nat \cup {Never}]
        BY <3>1, <4>2 DEF Send, TypeOK, Messages, Publishing
      <4> QED
        BY <3>1, <4>2, <4>3 DEF Send
    <3>2. CASE ConnectionLost
      <4>1. PICK n \in 0..Len(queue) : queue' = SubSeq(queue, n + 1, Len(queue))
        BY <3>2 DEF ConnectionLost
      <4>2. queue' \in Seq(Messages)
        BY <4>1, SubSeqProperties DEF TypeOK
      <4> QED
        BY <3>2, <4>2 DEF ConnectionLost, TypeOK
    <3>3. CASE ~Send /\ ~ConnectionLost
      BY <1>1, <3>3 DEF Reconnect, LoopDies, Tick, TypeOK
    <3> QED
      BY <3>1, <3>2, <3>3
  <2> QED
    BY <2>3, <2>4, <2>5, <2>6, <2>7, <2>8, Zenon DEF TaskTypes, TypeOK
<1>2. CASE Restart
  <2>1. queue' \in Seq(Messages)
    BY <1>2 DEF Restart
  <2>2. faults' \in Nat
    BY <1>2, FaultType DEF Restart
  <2>3. /\ next' \in [Conns -> Nat \ {0}] /\ size' \in [Conns -> Nat]
        /\ pc' \in [Conns -> Locations]
        /\ now' \in [Conns -> Nat] /\ device' \in [Conns -> Nat]
    BY <1>2 DEF Restart, Locations
  <2>4. \A c \in Conns : /\ pc'[c] \notin OfData /\ Length(c)' = 0
                          /\ next'[c] = 1
    BY <1>2 DEF Restart, OfData, Length
  <2>5. stamp' \in Nat \cup {Never} /\ metadata' \in Nat
    BY <1>2 DEF Restart
  <2>6. \A c \in Conns : next'[c] <= Length(c)' + 1
    BY <2>4
  <2> QED
    BY <1>2, <2>1, <2>2, <2>3, <2>4, <2>5, <2>6, Zenon DEF Restart, TypeOK
<1> QED
  BY <1>1, <1>2

\* Every step keeps the types.
LEMMA TypeStep == TypeOK /\ [Next]_vars => TypeOK'
<1> SUFFICES ASSUME TypeOK, [Next]_vars PROVE TypeOK'
  OBVIOUS
<1>1. CASE UNCHANGED vars
  BY <1>1, TypeRest
<1>2. CASE Next
  BY <1>2, TypeTask, TypePublish, TypeRest DEF Next, Going
<1> QED
  BY <1>1, <1>2

\* Type correctness of the publisher.
THEOREM TypeCorrect == Spec => []TypeOK
  BY TypeInit, TypeStep, PTL DEF Spec

-----------------------------------------------------------------------------
(***************************************************************************)
(* The timestamp, and data after discovery.                                *)
(***************************************************************************)

\* The invariant without the types.
DiscoveryInv ==
  /\ DiscoveryProgress
  /\ TimesPassed
  /\ StampMeansDiscovered
  /\ DataAfterDiscovery

\* At the start nothing is recorded and no task is under way.
LEMMA DiscoveryInit == Init => DiscoveryInv
BY DEF Init, DiscoveryInv, DiscoveryProgress, TimesPassed,
       StampMeansDiscovered, DataAfterDiscovery, Never

\* A step that queues and records nothing, takes the time at most, begins a
\* discovery at most, and reaches the data only with a recent timestamp.
Quiet ==
  /\ stamp' = stamp /\ enqueuedAt' = enqueuedAt /\ clock' >= clock
  /\ \A c \in Conns : now'[c] = now[c] \/ now'[c] = clock \/ now'[c] = 0
  /\ \A c \in Conns : pc'[c] = "config" =>
       \/ next'[c] = 1
       \/ /\ pc[c] = "config" /\ next'[c] = next[c] /\ now'[c] = now[c]
          /\ size'[c] = size[c]
  /\ \A c \in Conns : pc'[c] = "data" =>
       now'[c] = now[c] /\ (pc[c] = "data" \/ IsFresh(c))

\* What is announced for every packet is among the configurations, and was
\* queued since the timestamp.
LEMMA AnnouncedConfigs == Announced \subseteq Configs
BY ConfigFacts

LEMMA StampCovers ==
  ASSUME StampMeansDiscovered, stamp # Never, NEW t \in Announced
  PROVE  enqueuedAt[t] >= stamp
<1> PICK n \in PvCounts : \A k \in 1..(n + 2) : enqueuedAt[Config(n, k)] >= stamp
  BY DEF StampMeansDiscovered
<1> PICK k \in 1..(n + 2) : t = Config(n, k)
  BY ConfigFacts
<1> QED
  OBVIOUS

\* A quiet step keeps the invariant.
LEMMA QuietStep ==
  ASSUME TypeOK, TypeOK', DiscoveryInv, Quiet
  PROVE  DiscoveryInv'
<1> USE DEF Quiet
<1>1. DiscoveryProgress'
  <2> SUFFICES ASSUME NEW c \in Conns, pc'[c] = "config",
                      NEW k \in 1..(next'[c] - 1)
               PROVE  enqueuedAt[Config(size'[c], k)] >= now'[c]
    BY DEF DiscoveryProgress
  <2>1. next'[c] # 1
    OBVIOUS
  <2>2. /\ pc[c] = "config" /\ next'[c] = next[c] /\ now'[c] = now[c]
        /\ size'[c] = size[c]
    BY <2>1
  <2> QED
    BY <2>2 DEF DiscoveryInv, DiscoveryProgress
<1>2. TimesPassed'
  <2>1. /\ clock \in Nat /\ clock' \in Nat /\ stamp \in Nat \cup {-1}
        /\ now \in [Conns -> Nat] /\ now' \in [Conns -> Nat]
    BY DEF TypeOK, Never
  <2>2. stamp' <= clock'
    BY <2>1 DEF DiscoveryInv, TimesPassed
  <2>3. ASSUME NEW c \in Conns PROVE now'[c] <= clock'
    <3>1. now[c] \in Nat /\ now[c] <= clock
      BY <2>1 DEF DiscoveryInv, TimesPassed
    <3> QED
      BY <2>1, <3>1
  <2> QED
    BY <2>2, <2>3 DEF TimesPassed
<1>3. StampMeansDiscovered'
  BY DEF DiscoveryInv, StampMeansDiscovered
<1>4. DataAfterDiscovery'
  <2> SUFFICES ASSUME NEW c \in Conns, pc'[c] = "data", NEW t \in Announced
               PROVE  enqueuedAt[t] # Never /\ now[c] - enqueuedAt[t] <= Interval
    BY DEF DataAfterDiscovery
  <2>1. CASE pc[c] = "data"
    BY <2>1 DEF DiscoveryInv, DataAfterDiscovery
  <2>2. CASE IsFresh(c)
    <3>1. stamp # Never /\ enqueuedAt[t] >= stamp
      BY <2>2, StampCovers DEF IsFresh, DiscoveryInv
    <3>2. stamp \in Nat /\ enqueuedAt[t] \in Nat \cup {Never} /\ now[c] \in Nat
      BY <3>1, AnnouncedConfigs DEF TypeOK
    <3> QED
      BY <2>2, <3>1, <3>2 DEF IsFresh, Never
  <2> QED
    BY <2>1, <2>2
<1> QED
  BY <1>1, <1>2, <1>3, <1>4 DEF DiscoveryInv

\* A configuration is queued: every time is at most the clock.
LEMMA PublishStep ==
  ASSUME TypeOK, TypeOK', DiscoveryInv, NEW c \in Conns, Publish(c)
  PROVE  DiscoveryInv'
<1> USE DEF shared
<1>1. /\ clock \in Nat /\ stamp \in Nat \cup {-1}
      /\ \A d \in Conns : now[d] \in Nat /\ now[d] <= clock
      /\ stamp <= clock
      /\ \A t \in Configs : enqueuedAt[t] \in Nat \cup {-1}
  BY DEF TypeOK, Never, DiscoveryInv, TimesPassed
<1>2. \A t \in Configs :
        \/ enqueuedAt'[t] = enqueuedAt[t]
        \/ enqueuedAt'[t] = clock
  BY DEF Publish, TypeOK
<1>3. pc[c] = "config" => enqueuedAt'[Config(size[c], next[c])] = clock
  BY NextConfig DEF Publish, TypeOK
<1>4. /\ stamp' = stamp /\ clock' = clock /\ now' = now /\ pc' = pc
      /\ size' = size /\ next' = [next EXCEPT ![c] = @ + 1]
  BY DEF Publish
<1>5. DiscoveryProgress'
  <2> SUFFICES ASSUME NEW d \in Conns, pc[d] = "config",
                      NEW k \in 1..(next'[d] - 1)
               PROVE  enqueuedAt'[Config(size[d], k)] >= now[d]
    BY <1>4 DEF DiscoveryProgress
  <2>1. next[d] \in Nat /\ size[d] \in PvCounts
    BY Phase DEF TypeOK
  <2>2. Config(size[d], k) \in Configs
    <3>1. k \in 1..(size[d] + 2)
      <4>1. next'[d] <= Length(d)' + 1
        BY DEF TypeOK
      <4>2. Length(d)' = size[d] + 2
        BY <1>4 DEF Length
      <4>3. size[d] \in Nat /\ next'[d] \in Nat
        BY DEF TypeOK
      <4> QED
        BY <4>1, <4>2, <4>3
    <3> QED
      BY <2>1, <3>1, ConfigFacts
  <2>3. CASE k \in 1..(next[d] - 1)
    <3>1. enqueuedAt[Config(size[d], k)] >= now[d]
      BY <2>3 DEF DiscoveryInv, DiscoveryProgress
    <3> QED
      BY <1>1, <1>2, <2>2, <3>1
  <2>4. CASE k \notin 1..(next[d] - 1)
    <3>1. d = c /\ k = next[c]
      BY <1>4, <2>1, <2>4, SMTT(30) DEF TypeOK
    <3> QED
      BY <1>1, <1>3, <3>1
  <2> QED
    BY <2>3, <2>4
<1>6. TimesPassed'
  BY <1>4 DEF DiscoveryInv, TimesPassed
<1>7. StampMeansDiscovered'
  <2> SUFFICES ASSUME stamp # Never
               PROVE  \E n \in PvCounts : \A k \in 1..(n + 2) :
                        enqueuedAt'[Config(n, k)] >= stamp
    BY <1>4 DEF StampMeansDiscovered
  <2> PICK n \in PvCounts : \A k \in 1..(n + 2) : enqueuedAt[Config(n, k)] >= stamp
    BY DEF DiscoveryInv, StampMeansDiscovered
  <2>1. ASSUME NEW k \in 1..(n + 2) PROVE enqueuedAt'[Config(n, k)] >= stamp
    <3>1. Config(n, k) \in Configs
      BY ConfigFacts
    <3> QED
      BY <1>1, <1>2, <3>1
  <2> QED
    BY <2>1
<1>8. DataAfterDiscovery'
  <2> SUFFICES ASSUME NEW d \in Conns, pc[d] = "data", NEW t \in Announced
               PROVE  /\ enqueuedAt'[t] # Never
                      /\ now[d] - enqueuedAt'[t] <= Interval
    BY <1>4 DEF DataAfterDiscovery
  <2>1. CASE enqueuedAt'[t] = enqueuedAt[t]
    BY <2>1 DEF DiscoveryInv, DataAfterDiscovery
  <2>2. CASE enqueuedAt'[t] = clock
    BY <1>1, <2>2 DEF Never
  <2> QED
    BY <1>2, <2>1, <2>2, AnnouncedConfigs
<1> QED
  BY <1>5, <1>6, <1>7, <1>8 DEF DiscoveryInv

\* The whole discovery is queued when its time is recorded.
LEMMA RecordStep ==
  ASSUME TypeOK, TypeOK', DiscoveryInv, NEW c \in Conns, Record(c)
  PROVE  DiscoveryInv'
<1> USE DEF Unshared, client
<1>1. /\ pc[c] = "config" /\ pc' = [pc EXCEPT ![c] = "data"]
      /\ next' = [next EXCEPT ![c] = 1] /\ size' = size
      /\ stamp' = now[c] /\ now' = now /\ clock' = clock
      /\ enqueuedAt' = enqueuedAt
  BY DEF Record, Goto
<1>2. /\ now[c] \in Nat /\ now[c] <= clock
      /\ \A t \in Configs : enqueuedAt[t] \in Nat \cup {-1}
  BY DEF TypeOK, Never, DiscoveryInv, TimesPassed
<1>3. /\ size[c] \in PvCounts
      /\ \A k \in 1..(size[c] + 2) : enqueuedAt[Config(size[c], k)] >= now[c]
  <2>1. size[c] \in PvCounts /\ Length(c) = size[c] + 2 /\ size[c] \in Nat
    BY <1>1, Phase DEF TypeOK
  <2>2. \A k \in 1..(size[c] + 2) : k \in 1..(next[c] - 1)
    BY <2>1 DEF Record, PhaseDone, TypeOK
  <2> QED
    BY <1>1, <2>1, <2>2 DEF DiscoveryInv, DiscoveryProgress
<1>4. DiscoveryProgress'
  <2> SUFFICES ASSUME NEW d \in Conns, pc'[d] = "config",
                      NEW k \in 1..(next'[d] - 1)
               PROVE  enqueuedAt[Config(size[d], k)] >= now[d]
    BY <1>1 DEF DiscoveryProgress
  <2>1. d # c /\ pc[d] = "config" /\ next'[d] = next[d]
    BY <1>1 DEF TypeOK
  <2> QED
    BY <2>1 DEF DiscoveryInv, DiscoveryProgress
<1>5. TimesPassed'
  BY <1>1, <1>2 DEF DiscoveryInv, TimesPassed
<1>6. StampMeansDiscovered'
  BY <1>1, <1>3 DEF StampMeansDiscovered
<1>7. DataAfterDiscovery'
  <2> SUFFICES ASSUME NEW d \in Conns, pc'[d] = "data", NEW t \in Announced
               PROVE  enqueuedAt[t] # Never /\ now[d] - enqueuedAt[t] <= Interval
    BY <1>1 DEF DataAfterDiscovery
  <2>1. CASE d = c
    <3>1. enqueuedAt[t] >= now[c]
      BY <1>3, ConfigFacts
    <3>2. enqueuedAt[t] \in Nat \cup {-1}
      BY <1>2, AnnouncedConfigs
    <3> QED
      BY <1>2, <2>1, <3>1, <3>2 DEF Never
  <2>2. CASE d # c
    <3>1. pc[d] = "data"
      BY <1>1, <2>2 DEF TypeOK
    <3> QED
      BY <3>1 DEF DiscoveryInv, DataAfterDiscovery
  <2> QED
    BY <2>1, <2>2
<1> QED
  BY <1>4, <1>5, <1>6, <1>7 DEF DiscoveryInv

\* After a restart nothing is recorded and no task is under way.
LEMMA RestartStep ==
  ASSUME TypeOK, DiscoveryInv, Restart
  PROVE  DiscoveryInv'
<1>1. /\ stamp' = Never /\ pc' = [c \in Conns |-> "idle"]
      /\ now' = [c \in Conns |-> 0] /\ clock' = clock
  BY DEF Restart
<1>2. DiscoveryProgress' /\ StampMeansDiscovered' /\ DataAfterDiscovery'
  BY <1>1 DEF DiscoveryProgress, StampMeansDiscovered, DataAfterDiscovery
<1>3. TimesPassed'
  BY <1>1 DEF TypeOK, Never, DiscoveryInv, TimesPassed
<1> QED
  BY <1>2, <1>3 DEF DiscoveryInv

\* Every other step of a task is quiet.
LEMMA QuietTask ==
  ASSUME TypeOK, TypeOK', DiscoveryInv, NEW c \in Conns, Going(c), ~Record(c)
  PROVE  DiscoveryInv'
<1> USE DEF Unshared, shared
<1>1. stamp' = stamp /\ enqueuedAt' = enqueuedAt /\ clock' = clock /\ clock \in Nat
  BY DEF TypeOK, Going, TaskStep, StartData, StartLogger, StartStatus, Suppress,
         Expire, ReadMetadata, PublishError, Respond
<1>2. \/ now' = now
      \/ /\ pc'[c] \in {"check", "idle"}
         /\ now' = [now EXCEPT ![c] = clock] \/ now' = [now EXCEPT ![c] = 0]
  BY DEF TypeOK, Going, TaskStep, StartData, StartLogger, StartStatus, Suppress,
         Expire, ReadMetadata, PublishError, Respond, Goto
<1>3. \E location \in Locations :
        /\ Goto(c, location)
        /\ location = "data" => IsFresh(c) /\ now' = now
  BY DEF Going, TaskStep, StartData, StartLogger, StartStatus, Suppress, Expire,
         ReadMetadata, PublishError, Respond, Locations, OfData, Publishing
<1>4. PICK location \in Locations :
        /\ pc' = [pc EXCEPT ![c] = location]
        /\ next' = [next EXCEPT ![c] = 1]
        /\ location = "data" => IsFresh(c) /\ now' = now
  BY <1>3 DEF Goto
<1>5. ASSUME NEW d \in Conns
      PROVE  now'[d] = now[d] \/ now'[d] = clock \/ now'[d] = 0
  BY <1>2 DEF TypeOK
<1>6. ASSUME NEW d \in Conns, d # c
      PROVE  size'[d] = size[d] /\ now'[d] = now[d]
  BY <1>2, <1>6 DEF TypeOK, Going, TaskStep, StartData, StartLogger, StartStatus,
         Suppress, Expire, ReadMetadata, PublishError, Respond
<1>7. ASSUME NEW d \in Conns, pc'[d] = "config"
      PROVE  \/ next'[d] = 1
             \/ /\ pc[d] = "config" /\ next'[d] = next[d] /\ now'[d] = now[d]
                /\ size'[d] = size[d]
  BY <1>4, <1>6, <1>7 DEF TypeOK
<1>8. ASSUME NEW d \in Conns, pc'[d] = "data"
      PROVE  now'[d] = now[d] /\ (pc[d] = "data" \/ IsFresh(d))
  <2>1. CASE d = c
    <3>1. location = "data"
      BY <1>4, <1>8, <2>1 DEF TypeOK
    <3> QED
      BY <1>4, <2>1, <3>1, Zenon
  <2>2. CASE d # c
    BY <1>4, <1>6, <1>8, <2>2 DEF TypeOK
  <2> QED
    BY <2>1, <2>2
<1>9. Quiet
  BY <1>1, <1>5, <1>7, <1>8 DEF Quiet
<1> QED
  BY <1>9, QuietStep

\* The client and the passing of time touch neither tasks nor timestamps.
LEMMA QuietRest ==
  ASSUME TypeOK, TypeOK', DiscoveryInv,
         Send \/ Reconnect \/ ConnectionLost \/ LoopDies \/ Tick \/ UNCHANGED vars
  PROVE  DiscoveryInv'
<1>1. /\ stamp' = stamp /\ enqueuedAt' = enqueuedAt /\ pc' = pc
      /\ size' = size /\ next' = next /\ now' = now
  BY DEF Send, Reconnect, ConnectionLost, LoopDies, Tick, vars, shared, task
<1>2. clock' = clock \/ clock' = clock + 1
  BY DEF Send, Reconnect, ConnectionLost, LoopDies, Tick, vars
<1>3. clock' >= clock
  BY <1>2 DEF TypeOK
<1> QED
  <2>1. Quiet
    BY <1>1, <1>3 DEF Quiet
  <2> QED
    BY <2>1, QuietStep

\* Every step keeps the invariant.
LEMMA DiscoveryStep ==
  TypeOK /\ TypeOK' /\ DiscoveryInv /\ [Next]_vars => DiscoveryInv'
<1> SUFFICES ASSUME TypeOK, TypeOK', DiscoveryInv, [Next]_vars
             PROVE  DiscoveryInv'
  OBVIOUS
<1>1. CASE \E c \in Conns : Going(c)
  BY <1>1, QuietTask, RecordStep
<1>2. CASE \E c \in Conns : Publish(c)
  BY <1>2, PublishStep
<1>3. CASE Restart
  BY <1>3, RestartStep
<1>4. CASE Send \/ Reconnect \/ ConnectionLost \/ LoopDies \/ Tick
             \/ UNCHANGED vars
  BY <1>4, QuietRest
<1> QED
  BY <1>1, <1>2, <1>3, <1>4 DEF Next, Going

-----------------------------------------------------------------------------
(***************************************************************************)
(* The queue, as long as nothing fails.                                    *)
(***************************************************************************)

QueueInv == QueuedArrives /\ AnnouncedBeforeData

\* At the start nothing was queued.
LEMMA QueueInit == Init => QueueInv
<1>1. Init => QueuedArrives
  BY AnnouncedConfigs DEF Init, QueuedArrives
<1>2. Init => AnnouncedBeforeData
  BY DEF Init, AnnouncedBeforeData
<1> QED
  BY <1>1, <1>2 DEF QueueInv

\* A configuration that arrives still does with a longer queue.
LEMMA ArrivesAppend ==
  ASSUME TypeOK, NEW c \in Conns, Publish(c), NEW t \in Announced,
         NEW n \in Nat, n <= Len(queue), Arrives(t, n)
  PROVE  Arrives(t, n)' /\ Arrives(t, Len(queue))'
<1>1. /\ Len(queue) \in Nat /\ Len(queue') = Len(queue) + 1
      /\ \A i \in 1..n : queue'[i] = queue[i]
  BY DEF Publish, TypeOK
<1>2. shown' = shown
  BY DEF Publish
<1>3. \A i \in 1..n : i \in 1..Len(queue')
  BY <1>1
<1> QED
  BY <1>1, <1>2, <1>3 DEF Arrives

\* A publish keeps the invariant: data are behind what was queued before.
LEMMA QueuePublish ==
  ASSUME TypeOK, DataAfterDiscovery, QueueInv, NEW c \in Conns, Publish(c)
  PROVE  QueueInv'
<1> SUFFICES ASSUME faults = 0, faults' = 0
             PROVE  /\ \A t \in Announced : enqueuedAt'[t] # Never =>
                                              Arrives(t, Len(queue))'
                    /\ \A i \in DOMAIN queue' : queue'[i].kind = "data" =>
                          \A t \in Announced : Arrives(t, i - 1)'
  BY DEF QueueInv, QueuedArrives, AnnouncedBeforeData, Publish
<1> DEFINE topic == IF pc[c] = "config" THEN Config(size[c], next[c]) ELSE next[c]
           m == [kind |-> pc[c], topic |-> topic, device |-> device[c]]
<1>1. /\ Len(queue) \in Nat /\ Len(queue') = Len(queue) + 1
      /\ \A i \in 1..Len(queue) : queue'[i] = queue[i]
      /\ queue'[Len(queue) + 1] = m
      /\ DOMAIN queue = 1..Len(queue) /\ DOMAIN queue' = 1..(Len(queue) + 1)
  BY DEF Publish, TypeOK
<1>2. ASSUME NEW t \in Announced, enqueuedAt'[t] # Never
      PROVE  Arrives(t, Len(queue))'
  <2>1. CASE enqueuedAt[t] # Never
    <3> PICK n \in Nat : n = Len(queue)
      BY <1>1
    <3>1. Arrives(t, n) /\ n <= Len(queue)
      BY <1>1, <2>1 DEF QueueInv, QueuedArrives
    <3> QED
      BY <3>1, ArrivesAppend
  <2>2. CASE enqueuedAt[t] = Never
    <3>1. pc[c] = "config" /\ t = topic
      BY <1>2, <2>2, AnnouncedConfigs DEF Publish, TypeOK
    <3>2. m.kind = "config" /\ m.topic = t
      BY <3>1
    <3>3. Len(queue) + 1 \in 1..Len(queue')
      BY <1>1
    <3> QED
      BY <1>1, <3>2, <3>3 DEF Arrives
  <2> QED
    BY <2>1, <2>2
<1>3. ASSUME NEW i \in DOMAIN queue', queue'[i].kind = "data", NEW t \in Announced
      PROVE  Arrives(t, i - 1)'
  <2>1. CASE i \in 1..Len(queue)
    <3>1. Arrives(t, i - 1) /\ i - 1 \in Nat /\ i - 1 <= Len(queue)
      BY <1>1, <1>3, <2>1 DEF QueueInv, AnnouncedBeforeData
    <3> QED
      BY <3>1, ArrivesAppend
  <2>2. CASE i = Len(queue) + 1
    <3>1. pc[c] = "data"
      BY <1>1, <1>3, <2>2
    <3>2. enqueuedAt[t] # Never
      BY <3>1 DEF DataAfterDiscovery
    <3>3. i - 1 = Len(queue) /\ i - 1 \in Nat
      BY <1>1, <2>2
    <3>4. Arrives(t, i - 1)
      BY <3>2, <3>3 DEF QueueInv, QueuedArrives
    <3> QED
      BY <3>3, <3>4, ArrivesAppend
  <2> QED
    BY <1>1, <2>1, <2>2
<1> QED
  BY <1>2, <1>3

\* What is sent leaves the front of the queue for the broker.
LEMMA ArrivesSend ==
  ASSUME TypeOK, Send, NEW t \in Announced, NEW n \in 1..Len(queue), Arrives(t, n)
  PROVE  Arrives(t, n - 1)'
<1>1. /\ queue[1] \in Messages /\ Head(queue) = queue[1] /\ Len(queue) \in Nat
      /\ \A i \in 1..(Len(queue) - 1) : queue'[i] = queue[i + 1]
  BY DEF Send, TypeOK
<1>2. queue[1].kind = "config" => queue[1].topic \in Configs /\ queue[1].device \in Nat
  BY <1>1 DEF Messages
<1>3. CASE shown[t] # Never
  <2>1. shown'[t] # Never
    BY <1>1, <1>2, <1>3, AnnouncedConfigs DEF Send, TypeOK, Never
  <2> QED
    BY <2>1 DEF Arrives
<1>4. CASE \E i \in 1..n : queue[i].kind = "config" /\ queue[i].topic = t
  <2> PICK i \in 1..n : queue[i].kind = "config" /\ queue[i].topic = t
    BY <1>4
  <2>1. CASE i = 1
    <3>1. shown'[t] # Never
      BY <1>1, <1>2, <2>1, AnnouncedConfigs DEF Send, TypeOK, Never
    <3> QED
      BY <3>1 DEF Arrives
  <2>2. CASE i # 1
    <3>1. i - 1 \in 1..(n - 1) /\ i - 1 \in 1..(Len(queue) - 1)
      BY <1>1, <2>2
    <3>2. queue'[i - 1] = queue[i]
      BY <1>1, <3>1
    <3> QED
      BY <3>1, <3>2 DEF Arrives
  <2> QED
    BY <2>1, <2>2
<1> QED
  BY <1>3, <1>4 DEF Arrives

\* So sending keeps the invariant.
LEMMA QueueSend ==
  ASSUME TypeOK, QueueInv, Send
  PROVE  QueueInv'
<1>1. /\ Len(queue) \in Nat \ {0} /\ Len(queue') = Len(queue) - 1
      /\ \A i \in DOMAIN queue' : /\ i + 1 \in DOMAIN queue /\ i \in 1..Len(queue)
                                  /\ queue'[i] = queue[i + 1]
  BY DEF Send, TypeOK
<1>2. faults' = faults /\ enqueuedAt' = enqueuedAt
  BY DEF Send
<1>3. ASSUME faults = 0, NEW t \in Announced, enqueuedAt[t] # Never
      PROVE  Arrives(t, Len(queue))'
  <2> PICK n \in Nat : n = Len(queue)
    BY <1>1
  <2>1. Arrives(t, n) /\ n \in 1..Len(queue)
    BY <1>1, <1>3 DEF QueueInv, QueuedArrives
  <2>2. Arrives(t, n - 1)'
    BY <2>1, ArrivesSend
  <2>3. Len(queue') = n - 1
    BY <1>1
  <2> QED
    BY <2>2, <2>3
<1>4. ASSUME faults = 0, NEW i \in DOMAIN queue', queue'[i].kind = "data",
             NEW t \in Announced
      PROVE  Arrives(t, i - 1)'
  <2>1. Arrives(t, i)
    BY <1>1, <1>4 DEF QueueInv, AnnouncedBeforeData
  <2> QED
    BY <1>1, <2>1, ArrivesSend
<1> QED
  BY <1>2, <1>3, <1>4 DEF QueueInv, QueuedArrives, AnnouncedBeforeData

\* Every step keeps the invariant.
LEMMA QueueStep ==
  ASSUME TypeOK, DataAfterDiscovery, QueueInv, [Next]_vars
  PROVE  QueueInv'
<1>1. CASE ConnectionLost \/ LoopDies \/ Restart
  <2>1. faults' = faults + 1 /\ faults \in Nat
    BY <1>1 DEF ConnectionLost, LoopDies, Restart, Fault, TypeOK
  <2>2. faults' # 0
    BY <2>1
  <2> QED
    BY <2>2 DEF QueueInv, QueuedArrives, AnnouncedBeforeData
<1>2. CASE (\E c \in Conns : Going(c)) \/ Reconnect \/ Tick \/ UNCHANGED vars
  <2>1. /\ queue' = queue /\ shown' = shown /\ faults' = faults
        /\ enqueuedAt' = enqueuedAt
    BY <1>2 DEF Going, TaskStep, StartData, StartLogger, StartStatus, Suppress,
       Expire, ReadMetadata, Record, PublishError, Respond, Reconnect, Tick,
       vars, Unshared, client
  <2> QED
    BY <2>1 DEF QueueInv, QueuedArrives, AnnouncedBeforeData, Arrives
<1> QED
  BY <1>1, <1>2, QueuePublish, QueueSend DEF Next, Going

-----------------------------------------------------------------------------
(***************************************************************************)
(* One connection: what its steps never do.                                *)
(***************************************************************************)
OneConnection == \A c, d \in Conns : c = d

\* A task that has found discovery due still finds it so: nobody else records.
DiscoveryDue == \A c \in Conns : pc[c] = "meta" => ~IsFresh(c)

\* At the start the task is idle.
LEMMA DueInit == Init => DiscoveryDue
BY DEF Init, DiscoveryDue

\* Every step keeps it.
LEMMA DueStep ==
  ASSUME OneConnection, TypeOK, DiscoveryDue, [Next]_vars
  PROVE  DiscoveryDue'
<1> SUFFICES ASSUME NEW c \in Conns, pc'[c] = "meta" PROVE ~IsFresh(c)'
  BY DEF DiscoveryDue
<1>1. CASE pc[c] = "meta" /\ stamp' = stamp /\ now'[c] = now[c]
  BY <1>1 DEF DiscoveryDue, IsFresh
<1>2. CASE Going(c)
  <2>1. Expire(c)
    BY <1>2 DEF Going, TaskStep, StartData, StartLogger, StartStatus, Suppress,
       ReadMetadata, Record, PublishError, Respond, Goto, TypeOK
  <2>2. ~IsFresh(c) /\ stamp' = stamp /\ now' = now
    BY <2>1 DEF Expire, shared
  <2> QED
    BY <2>2 DEF IsFresh
<1>3. CASE Restart
  BY <1>3 DEF Restart
<1>4. CASE Publish(c) \/ Send \/ Reconnect \/ ConnectionLost \/ LoopDies \/ Tick
             \/ UNCHANGED vars
  <2>1. pc' = pc /\ stamp' = stamp /\ now' = now
    BY <1>4 DEF Publish, Send, Reconnect, ConnectionLost, LoopDies, Tick, vars,
       shared, task
  <2> QED
    BY <1>1, <2>1
<1>5. \A d \in Conns : d = c
  BY DEF OneConnection
<1> QED
  BY <1>2, <1>3, <1>4, <1>5 DEF Next, Going

-----------------------------------------------------------------------------
\* The inductive invariant of the publisher.
THEOREM Invariant == Spec => []PublisherInv
<1>1. Init => PublisherInv
  BY TypeInit, DiscoveryInit, QueueInit DEF PublisherInv, DiscoveryInv, QueueInv
<1>2. PublisherInv /\ [Next]_vars => PublisherInv'
  BY TypeStep, DiscoveryStep, QueueStep DEF PublisherInv, DiscoveryInv, QueueInv
<1> QED
  BY <1>1, <1>2, PTL DEF Spec

\* However many tasks race, and whichever publishes fail, the timestamp that
\* suppresses discovery stands for a whole discovery since that time
\* (mqtt.rs:340-348, 754-755).
THEOREM StampCorrect == Spec => []StampMeansDiscovered
<1>1. PublisherInv => StampMeansDiscovered
  BY DEF PublisherInv
<1> QED
  BY <1>1, Invariant, PTL

\* Data are published only after a discovery that is recent enough
\* (mqtt.rs:123-129).
THEOREM DataCorrect == Spec => []DataAfterDiscovery
<1>1. PublisherInv => DataAfterDiscovery
  BY DEF PublisherInv
<1> QED
  BY <1>1, Invariant, PTL

\* As long as nothing fails, values reach the broker after the entities they
\* belong to, whichever task announced them (mqtt.rs:123-203).
THEOREM AnnouncementCorrect == Spec => []AnnouncedBeforeData
<1>1. PublisherInv => AnnouncedBeforeData
  BY DEF PublisherInv
<1> QED
  BY <1>1, Invariant, PTL

\* With one connection, whatever fails: once discovery is recorded it is not
\* repeated before the interval is over (mqtt.rs:340-348, 754-755).
THEOREM QuietCorrect ==
  ASSUME OneConnection
  PROVE  Spec => QuietBetweenDiscoveries
<1>1. Init => DiscoveryDue
  BY DueInit
<1>2. TypeOK /\ DiscoveryDue /\ [Next]_vars => DiscoveryDue'
  BY DueStep
<1>3. PublisherInv /\ DiscoveryDue /\ [Next]_vars =>
        [\A c \in Conns : pc[c] = "meta" /\ pc'[c] = "config" /\ stamp # Never =>
           clock - stamp > Interval]_vars
  <2> SUFFICES ASSUME PublisherInv, DiscoveryDue, NEW c \in Conns,
                      pc[c] = "meta", stamp # Never
               PROVE  clock - stamp > Interval
    OBVIOUS
  <2>1. /\ clock \in Nat /\ stamp \in Nat /\ now[c] \in Nat /\ now[c] <= clock
        /\ Interval \in Nat
    BY DEF PublisherInv, TypeOK, TimesPassed
  <2>2. ~(now[c] <= stamp \/ now[c] - stamp <= Interval)
    BY DEF DiscoveryDue, IsFresh
  <2> QED
    BY <2>1, <2>2
<1>4. PublisherInv => TypeOK
  BY DEF PublisherInv
<1> QED
  BY <1>1, <1>2, <1>3, <1>4, Invariant, PTL DEF Spec, QuietBetweenDiscoveries

-----------------------------------------------------------------------------
(***************************************************************************)
(* A handler comes to its end: the half of HandlerReturns that does not    *)
(* depend on fairness.                                                     *)
(***************************************************************************)

\* How many steps the handler of c takes at most until it has returned.
ToTake(c) ==
  LET left == Length(c) - next[c] + 1
      data == (IF size[c] <= PvSlots THEN size[c] ELSE PvSlots) + 1
  IN  CASE pc[c] = "idle"    -> 0
        [] pc[c] = "respond" -> 1
        [] pc[c] \in {"data", "logger", "status"} -> left + 1
        [] pc[c] = "config"  -> left + data + 2
        [] pc[c] = "meta"    -> size[c] + data + 5
        [] pc[c] = "check"   -> size[c] + data + 6

Moved(c) == ~UNCHANGED <<pc[c], size[c], next[c]>>

\* Every step of a handler, also one that fails, leaves it fewer to take, and
\* no other step adds to them.
HandlersAdvance ==
  [][\A c \in Conns : pc[c] # "idle" /\ Moved(c) => ToTake(c)' < ToTake(c)]_vars

\* A packet takes a number of steps that depends on what is in it only.
StepsBounded ==
  \A c \in Conns :
    ToTake(c) \in 0..(IF pc[c] \in {"logger", "status"} THEN size[c] + 1
                      ELSE MaxPvCount + PvSlots + 7)

\* The numbers of a task.
LEMMA Steps ==
  ASSUME TypeOK, NEW c \in Conns
  PROVE  \E left \in Nat, data \in Nat :
           /\ left = Length(c) - next[c] + 1
           /\ data = (IF size[c] <= PvSlots THEN size[c] ELSE PvSlots) + 1
           /\ size[c] \in Nat /\ next[c] \in Nat \ {0}
           /\ PhaseDone(c) <=> left = 0
           /\ data <= PvSlots + 1
           /\ left <= Length(c)
           /\ Length(c) \in Nat
<1>1. /\ Length(c) \in Nat /\ next[c] \in Nat \ {0} /\ next[c] <= Length(c) + 1
      /\ size[c] \in Nat /\ PvSlots \in Nat
  BY Phase DEF TypeOK
<1>2. Length(c) - next[c] + 1 \in Nat
  BY <1>1
<1>3. (IF size[c] <= PvSlots THEN size[c] ELSE PvSlots) + 1 \in Nat
  BY <1>1
<1>4. PhaseDone(c) <=> Length(c) - next[c] + 1 = 0
  BY <1>1 DEF PhaseDone
<1>5. /\ (IF size[c] <= PvSlots THEN size[c] ELSE PvSlots) + 1 <= PvSlots + 1
      /\ Length(c) - next[c] + 1 <= Length(c)
  BY <1>1
<1> QED
  BY <1>1, <1>2, <1>3, <1>4, <1>5

\* There are as many as the phase has messages, and few enough.
LEMMA StepsFew == TypeOK => StepsBounded
<1> SUFFICES ASSUME TypeOK, NEW c \in Conns
             PROVE  ToTake(c) \in 0..(IF pc[c] \in {"logger", "status"}
                                      THEN size[c] + 1
                                      ELSE MaxPvCount + PvSlots + 7)
  BY DEF StepsBounded
<1>1. PICK left \in Nat, data \in Nat :
        /\ left = Length(c) - next[c] + 1
        /\ data = (IF size[c] <= PvSlots THEN size[c] ELSE PvSlots) + 1
        /\ size[c] \in Nat
        /\ data <= PvSlots + 1 /\ left <= Length(c)
  BY Steps
<1>2. pc[c] \in Locations /\ (pc[c] \in OfData => size[c] <= MaxPvCount)
  BY DEF TypeOK
<1>3. MaxPvCount \in Nat /\ PvSlots \in Nat
  OBVIOUS
<1>4. CASE pc[c] \in {"idle", "respond"}
  BY <1>3, <1>4 DEF ToTake
<1>5. CASE pc[c] \in {"logger", "status"}
  <2>1. ToTake(c) = left + 1 /\ Length(c) = size[c]
    BY <1>1, <1>5 DEF ToTake, Length
  <2> QED
    BY <1>1, <1>5, <2>1
<1>6. CASE pc[c] = "data"
  <2>1. ToTake(c) = left + 1 /\ Length(c) = data
    BY <1>1, <1>6 DEF ToTake, Length
  <2> QED
    BY <1>1, <1>3, <1>6, <2>1
<1>7. CASE pc[c] = "config"
  <2>1. ToTake(c) = left + data + 2 /\ Length(c) = size[c] + 2
    BY <1>1, <1>7 DEF ToTake, Length
  <2> QED
    BY <1>1, <1>2, <1>3, <1>7, <2>1 DEF OfData
<1>8. CASE pc[c] \in {"check", "meta"}
  <2>1. ToTake(c) = size[c] + data + 5 \/ ToTake(c) = size[c] + data + 6
    BY <1>1, <1>8 DEF ToTake
  <2> QED
    BY <1>1, <1>2, <1>3, <1>8, <2>1 DEF OfData
<1> QED
  BY <1>2, <1>4, <1>5, <1>6, <1>7, <1>8 DEF Locations, Publishing, OfData

\* A step of c leaves every other task where it is.
LEMMA OthersStay ==
  ASSUME TypeOK, NEW c \in Conns, NEW d \in Conns, d # c,
         Going(c) \/ Publish(c)
  PROVE  ~Moved(d)
BY DEF Going, TaskStep, Publish, StartData, StartLogger, StartStatus, Suppress,
       Expire, ReadMetadata, Record, PublishError, Respond, Goto, Moved, TypeOK

\* Where a task goes, it has the whole phase before it.
LEMMA GotoSteps ==
  ASSUME TypeOK, NEW c \in Conns, NEW location, Goto(c, location)
  PROVE  pc'[c] = location /\ next'[c] = 1
BY DEF Goto, TypeOK

\* A step of the handler leaves fewer.
LEMMA StepsFewer ==
  ASSUME TypeOK, TypeOK', NEW c \in Conns, pc[c] # "idle", TaskStep(c) \/ Publish(c)
  PROVE  ToTake(c)' < ToTake(c)
<1>1. PICK left \in Nat, data \in Nat :
        /\ left = Length(c) - next[c] + 1
        /\ data = (IF size[c] <= PvSlots THEN size[c] ELSE PvSlots) + 1
        /\ size[c] \in Nat /\ next[c] \in Nat \ {0} /\ Length(c) \in Nat
        /\ PhaseDone(c) <=> left = 0
  BY Steps
<1>2. CASE Publish(c)
  <2>1. /\ pc' = pc /\ size' = size /\ next'[c] = next[c] + 1
        /\ pc[c] \in Publishing
    BY <1>2 DEF Publish, TypeOK
  <2>2. Length(c)' = Length(c)
    BY <2>1 DEF Length
  <2>3. Length(c)' - next'[c] + 1 = left - 1
    BY <1>1, <2>1, <2>2
  <2>4. CASE pc[c] = "config"
    <3>1. ToTake(c) = left + data + 2
      BY <1>1, <2>4 DEF ToTake
    <3>2. ToTake(c)' = (left - 1) + data + 2
      BY <1>1, <2>1, <2>3, <2>4 DEF ToTake
    <3> QED
      BY <3>1, <3>2
  <2>5. CASE pc[c] \in {"data", "logger", "status"}
    <3>1. ToTake(c) = left + 1
      BY <1>1, <2>5 DEF ToTake
    <3>2. ToTake(c)' = (left - 1) + 1
      BY <2>1, <2>3, <2>5 DEF ToTake
    <3> QED
      BY <3>1, <3>2
  <2> QED
    BY <2>1, <2>4, <2>5 DEF Publishing
<1>3. CASE Suppress(c)
  <2>1. pc[c] = "check" /\ pc'[c] = "data" /\ next'[c] = 1 /\ size' = size
    BY <1>3, GotoSteps DEF Suppress
  <2>2. Length(c)' = data
    BY <1>1, <2>1 DEF Length
  <2>3. ToTake(c)' = data + 1
    BY <2>1, <2>2 DEF ToTake
  <2>4. ToTake(c) = size[c] + data + 6
    BY <1>1, <2>1 DEF ToTake
  <2> QED
    BY <1>1, <2>3, <2>4
<1>4. CASE Expire(c)
  <2>1. pc[c] = "check" /\ pc'[c] = "meta" /\ size' = size
    BY <1>4, GotoSteps DEF Expire
  <2>2. ToTake(c) = size[c] + data + 6 /\ ToTake(c)' = size[c] + data + 5
    BY <1>1, <2>1 DEF ToTake
  <2> QED
    BY <1>1, <2>2
<1>5. CASE ReadMetadata(c)
  <2>1. pc[c] = "meta" /\ pc'[c] = "config" /\ next'[c] = 1 /\ size' = size
    BY <1>5, GotoSteps DEF ReadMetadata
  <2>2. Length(c)' = size[c] + 2
    BY <2>1 DEF Length
  <2>3. ToTake(c)' = size[c] + 2 + data + 2
    BY <1>1, <2>1, <2>2 DEF ToTake
  <2>4. ToTake(c) = size[c] + data + 5
    BY <1>1, <2>1 DEF ToTake
  <2> QED
    BY <1>1, <2>3, <2>4
<1>6. CASE Record(c)
  <2>1. /\ pc[c] = "config" /\ pc'[c] = "data" /\ next'[c] = 1 /\ size' = size
        /\ left = 0
    BY <1>1, <1>6, GotoSteps DEF Record
  <2>2. Length(c)' = data
    BY <1>1, <2>1 DEF Length
  <2>3. ToTake(c)' = data + 1
    BY <2>1, <2>2 DEF ToTake
  <2>4. ToTake(c) = data + 2
    BY <1>1, <2>1 DEF ToTake
  <2> QED
    BY <1>1, <2>3, <2>4
<1>7. CASE PublishError(c)
  <2>1. pc[c] \in Publishing /\ pc'[c] = "respond" /\ left # 0
    BY <1>1, <1>7, GotoSteps DEF PublishError
  <2>2. ToTake(c)' = 1
    BY <2>1 DEF ToTake
  <2>3. ToTake(c) = left + 1 \/ ToTake(c) = left + data + 2
    BY <1>1, <2>1 DEF ToTake, Publishing
  <2> QED
    BY <1>1, <2>1, <2>2, <2>3
<1>8. CASE Respond(c)
  <2>1. pc'[c] = "idle"
    BY <1>8, GotoSteps DEF Respond
  <2>2. ToTake(c)' = 0
    BY <2>1 DEF ToTake
  <2>3. CASE pc[c] = "respond"
    <3>1. ToTake(c) = 1
      BY <2>3 DEF ToTake
    <3> QED
      BY <2>2, <3>1
  <2>4. CASE pc[c] \in {"data", "logger", "status"}
    <3>1. ToTake(c) = left + 1
      BY <1>1, <2>4 DEF ToTake
    <3> QED
      BY <2>2, <3>1
  <2> QED
    BY <1>8, <2>3, <2>4 DEF Respond, Publishing
<1> QED
  BY <1>2, <1>3, <1>4, <1>5, <1>6, <1>7, <1>8 DEF TaskStep

\* Whatever the other tasks, the client and the broker do, whichever publishes
\* fail: no handler goes back or tries again, and none makes work for another;
\* each returns after a bounded number of steps, if it gets to take them
\* (mqtt.rs:123-203, 336-757, 760-770).
THEOREM HandlersCome == Spec => []StepsBounded /\ HandlersAdvance
<1>1. TypeOK /\ TypeOK' /\ [Next]_vars =>
        [\A c \in Conns : pc[c] # "idle" /\ Moved(c) => ToTake(c)' < ToTake(c)]_vars
  <2> SUFFICES ASSUME TypeOK, TypeOK', Next, NEW c \in Conns, pc[c] # "idle", Moved(c)
               PROVE  ToTake(c)' < ToTake(c)
    BY DEF vars
  <2>1. CASE \E d \in Conns : Going(d) \/ Publish(d)
    <3>1. Going(c) \/ Publish(c)
      BY <2>1, OthersStay
    <3>2. /\ ~ \E n \in PvCounts : StartData(c, n)
          /\ ~ \E n \in LoggerCounts : StartLogger(c, n)
          /\ ~ \E n \in StatusCounts : StartStatus(c, n)
      BY DEF StartData, StartLogger, StartStatus
    <3> QED
      BY <3>1, <3>2, StepsFewer DEF Going
  <2>2. CASE Send \/ Reconnect \/ ConnectionLost \/ LoopDies \/ Tick
    BY <2>2 DEF Send, Reconnect, ConnectionLost, LoopDies, Tick, task, Moved
  <2>3. CASE Restart
    <3>1. ToTake(c)' = 0
      BY <2>3 DEF Restart, ToTake
    <3>2. PICK left \in Nat, data \in Nat :
            /\ left = Length(c) - next[c] + 1
            /\ data = (IF size[c] <= PvSlots THEN size[c] ELSE PvSlots) + 1
            /\ size[c] \in Nat
      BY Steps
    <3>3. ToTake(c) \in {1, left + 1, left + data + 2, size[c] + data + 5,
                         size[c] + data + 6}
      BY <3>2 DEF ToTake, TypeOK, Locations, Publishing, OfData
    <3> QED
      BY <3>1, <3>2, <3>3
  <2> QED
    BY <2>1, <2>2, <2>3 DEF Next, Going
<1> QED
  BY <1>1, StepsFew, TypeCorrect, PTL DEF Spec, HandlersAdvance
=============================================================================
