---------------------------- MODULE SessionProofs ----------------------------
(***************************************************************************)
(* Proofs about Session, for every set of packets, texts and connections   *)
(* and every bound: type correctness, answers in order, the WIFI signal,   *)
(* and that no message of a report is lost.  That the signal goes forward, *)
(* and which report is shown after a reconnect, is proved for one          *)
(* connection.                                                             *)
(***************************************************************************)
EXTENDS Session, FiniteSetTheorems, TLAPS

\* The part of the type invariant about what Take changes, and the rest.
TaskTypes ==
  /\ open \in [Conns -> BOOLEAN]
  /\ busy \in [Conns -> BOOLEAN]
  /\ todo \in [Conns -> Seq(Messages)]
  /\ alive \in BOOLEAN
  /\ DOMAIN topics = Topics
  /\ \A t \in Topics : topics[t] # None => Message(t, topics[t]) \in Messages
  /\ opens \in 0..MaxOpens
  /\ served \in [Conns -> Seq(Packets)]
  /\ \A c \in Conns : Len(served[c]) <= MaxPackets
  /\ answered \in [Conns -> Seq(1..MaxPackets)]
  /\ OneAtATime

StateTypes ==
  /\ ssid \in [Conns -> (Texts \ {Blank}) \cup {None}]
  /\ last \in [Conns -> Nat \cup {None}]
  /\ metadata \in Packets \cup {None}

LEMMA TypeParts == TaskTypes' /\ StateTypes' => TypeOK'
BY DEF TypeOK, TaskTypes, StateTypes

\* The sequences of messages that handlers make.
LEMMA Listed ==
  ASSUME NEW S, NEW a \in S, NEW b \in S, NEW d \in S
  PROVE  /\ <<>> \in Seq(S) /\ <<a>> \in Seq(S)
         /\ <<a>> \o <<>> \in Seq(S) /\ <<a>> \o <<b>> \in Seq(S)
         /\ <<a, b>> \o <<>> \in Seq(S) /\ <<a, b>> \o <<d>> \in Seq(S)
OBVIOUS

\* Appending to a sequence.
LEMMA Appended ==
  ASSUME NEW S, NEW s \in Seq(S), NEW e \in S
  PROVE  /\ Append(s, e) \in Seq(S) /\ Append(s, e) # <<>>
         /\ Len(Append(s, e)) = Len(s) + 1
         /\ \A i \in 1..Len(s) : Append(s, e)[i] = s[i]
         /\ Append(s, e)[Len(s) + 1] = e
OBVIOUS

-----------------------------------------------------------------------------
(***************************************************************************)
(* Types.                                                                  *)
(***************************************************************************)

\* The initial state has the types.
LEMMA TypeInit == Init => TypeOK
<1> SUFFICES ASSUME Init PROVE TypeOK
  OBVIOUS
<1>1. \A c \in Conns : Len(served[c]) <= MaxPackets
  <2> TAKE c \in Conns
  <2>1. Len(<<>>) = 0 /\ MaxPackets \in Nat
    BY SessionAssumption
  <2>2. served[c] = <<>>
    BY DEF Init
  <2>3. Len(served[c]) = 0
    BY <2>1, <2>2, Zenon
  <2> QED
    BY <2>1, <2>3
<1>2. opens \in 0..MaxOpens
  BY SessionAssumption DEF Init
<1>3. /\ todo \in [Conns -> Seq(Messages)]
      /\ served \in [Conns -> Seq(Packets)]
      /\ answered \in [Conns -> Seq(1..MaxPackets)]
  BY DEF Init
<1>4. /\ DOMAIN topics = Topics
      /\ \A t \in Topics : topics[t] = None
  BY DEF Init
<1>5. OneAtATime
  BY DEF Init, OneAtATime
<1> QED
  BY <1>1, <1>2, <1>3, <1>4, <1>5 DEF Init, TypeOK

\* Taking a packet with messages of the right types keeps the types.
LEMMA TypeTake ==
  ASSUME TypeOK, NEW c \in Conns, NEW p \in Packets,
         NEW messages \in Seq(Messages), Take(c, p, messages)
  PROVE  TaskTypes'
<1>1. /\ open' = open /\ alive' = alive /\ topics' = topics /\ opens' = opens
      /\ answered' = answered
      /\ served' = [served EXCEPT ![c] = Append(@, p)]
      /\ busy' = [busy EXCEPT ![c] = TRUE]
      /\ todo' = [todo EXCEPT ![c] = messages]
      /\ open[c] /\ Len(served[c]) < MaxPackets
  BY DEF Take
<1>2. served' \in [Conns -> Seq(Packets)]
  BY <1>1 DEF TypeOK
<1>3. \A d \in Conns : Len(served'[d]) <= MaxPackets
  <2> SUFFICES ASSUME NEW d \in Conns PROVE Len(served'[d]) <= MaxPackets
    OBVIOUS
  <2>1. CASE d = c
    <3>1. Len(Append(served[c], p)) = Len(served[c]) + 1
      BY Appended DEF TypeOK
    <3> QED
      BY <1>1, <2>1, <3>1, SessionAssumption DEF TypeOK
  <2>2. CASE d # c
    BY <1>1, <2>2 DEF TypeOK
  <2> QED
    BY <2>1, <2>2
<1>4. OneAtATime'
  <2> SUFFICES ASSUME NEW d \in Conns
               PROVE  /\ busy'[d] => open'[d] /\ served'[d] # <<>>
                      /\ todo'[d] # <<>> => busy'[d]
    BY DEF OneAtATime
  <2>1. CASE d = c
    <3>1. Append(served[c], p) # <<>>
      BY Appended DEF TypeOK
    <3> QED
      BY <1>1, <2>1, <3>1 DEF TypeOK
  <2>2. CASE d # c
    BY <1>1, <2>2 DEF TypeOK, OneAtATime
  <2> QED
    BY <2>1, <2>2
<1>5. busy' \in [Conns -> BOOLEAN] /\ todo' \in [Conns -> Seq(Messages)]
  BY <1>1 DEF TypeOK
<1> QED
  BY <1>1, <1>2, <1>3, <1>4, <1>5, Zenon DEF TypeOK, TaskTypes

\* What handlers publish has the types, and what they remember too.
LEMMA TypeHandle ==
  ASSUME TypeOK, NEW c \in Conns, HandlePacket(c)
  PROVE  TypeOK'
<1> PICK p \in Packets :
      \/ Handshake(c, p) \/ Data(c, p) \/ DataUnparsable(c, p)
      \/ Report(c, p) \/ Wifi(c, p) \/ WifiSkipped(c, p) \/ Other(c, p)
  BY DEF HandlePacket
<1>1. p \in AllPackets
  BY SessionAssumption
<1> USE DEF state
<1>2. CASE Handshake(c, p)
  <2> DEFINE name == Trimmed[p.ssid]
             named == p.parses /\ name # Blank
             messages ==
               IF ~p.parses THEN <<>>
               ELSE <<Message("identity", TRUE)>> \o
                    IF named THEN <<Message("wifi_ssid", name)>> ELSE <<>>
  <2>1. p.ssid \in Texts /\ name \in Texts
    BY <1>1, <1>2, SessionAssumption DEF Handshake, AllPackets
  <2>2. /\ Message("identity", TRUE) \in Messages
        /\ Message("wifi_ssid", name) \in Messages
    BY <2>1 DEF Message, Messages
  <2>3. messages \in Seq(Messages)
    BY <2>2, Listed, Zenon
  <2>4. Take(c, p, messages)
    BY <1>2 DEF Handshake
  <2>5. StateTypes'
    BY <1>2, <2>1 DEF Handshake, TypeOK, StateTypes
  <2> QED
    BY <2>3, <2>4, <2>5, TypeTake, TypeParts
<1>3. CASE Data(c, p)
  <2>1. Message("telemetry", TRUE) \in Messages
    BY DEF Message, Messages
  <2>2. (IF p.live THEN <<Message("telemetry", TRUE)>> ELSE <<>>) \in Seq(Messages)
    BY <2>1, Listed, Zenon
  <2>3. StateTypes'
    BY <1>3 DEF Data, TypeOK, StateTypes
  <2> QED
    BY <1>3, <2>2, <2>3, TypeTake, TypeParts DEF Data
<1>4. CASE DataUnparsable(c, p)
  <2>1. served' = [served EXCEPT ![c] = Append(@, p)]
    BY <1>4 DEF DataUnparsable
  <2>2. served' \in [Conns -> Seq(Packets)]
    BY <2>1 DEF TypeOK
  <2>3. \A d \in Conns : Len(served'[d]) <= MaxPackets
    <3> SUFFICES ASSUME NEW d \in Conns PROVE Len(served'[d]) <= MaxPackets
      OBVIOUS
    <3>1. CASE d = c
      <4>1. Len(Append(served[c], p)) = Len(served[c]) + 1
        BY Appended DEF TypeOK
      <4> QED
        BY <1>4, <2>1, <3>1, <4>1, SessionAssumption DEF TypeOK, DataUnparsable
    <3>2. CASE d # c
      BY <2>1, <3>2 DEF TypeOK
    <3> QED
      BY <3>1, <3>2
  <2>4. OneAtATime'
    <3> SUFFICES ASSUME NEW d \in Conns
                 PROVE  /\ busy[d] => open[d] /\ served'[d] # <<>>
                        /\ todo[d] # <<>> => busy[d]
      BY <1>4 DEF OneAtATime, DataUnparsable
    <3>1. CASE d = c
      BY <1>4, <3>1 DEF DataUnparsable, TypeOK, OneAtATime
    <3>2. CASE d # c
      BY <2>1, <3>2 DEF TypeOK, OneAtATime
    <3> QED
      BY <3>1, <3>2
  <2> QED
    BY <1>4, <2>2, <2>3, <2>4, Zenon DEF DataUnparsable, TypeOK
<1>5. CASE Report(c, p)
  <2> DEFINE messages ==
        IF ~p.parses THEN <<>>
        ELSE <<Message("uptime", p.uptime), Message("report_time", Time(p))>> \o
             IF Time(p) >= p.uptime
             THEN <<Message("last_reboot", Time(p) - p.uptime)>> ELSE <<>>
  <2>1. p.uptime \in Nat /\ p.base \in Nat /\ p.offset \in Nat
    BY <1>1, <1>5 DEF Report, AllPackets
  <2>2. /\ Message("uptime", p.uptime) \in Messages
        /\ Message("report_time", Time(p)) \in Messages
        /\ Message("last_reboot", Time(p) - p.uptime) \in Messages
    BY <2>1 DEF Message, Messages, Time
  <2>3. messages \in Seq(Messages)
    BY <2>2, Listed, Zenon
  <2>4. StateTypes'
    BY <1>5 DEF Report, TypeOK, StateTypes
  <2>5. Take(c, p, messages)
    BY <1>5 DEF Report
  <2> QED
    BY <2>3, <2>4, <2>5, TypeTake, TypeParts
<1>6. CASE Wifi(c, p)
  <2>1. p.offset \in Nat
    BY <1>1, <1>6 DEF Wifi, AllPackets
  <2>2. Message("wifi_signal", p) \in Messages
    BY DEF Message, Messages
  <2>3. (IF ShowsSignal(p, ssid[c]) THEN <<Message("wifi_signal", p)>> ELSE <<>>)
          \in Seq(Messages)
    BY <2>2
  <2>4. StateTypes'
    BY <1>6, <2>1 DEF Wifi, TypeOK, StateTypes
  <2> QED
    BY <1>6, <2>3, <2>4, TypeTake, TypeParts DEF Wifi
<1>7. CASE WifiSkipped(c, p) \/ Other(c, p)
  <2>1. Take(c, p, <<>>) /\ <<>> \in Seq(Messages)
    BY <1>7 DEF WifiSkipped, Other
  <2>2. StateTypes'
    BY <1>7 DEF WifiSkipped, Other, TypeOK, StateTypes
  <2> QED
    BY <2>1, <2>2, TypeTake, TypeParts
<1> QED
  BY <1>2, <1>3, <1>4, <1>5, <1>6, <1>7

\* Everything else a task or the environment does keeps the types.
LEMMA TypeRest ==
  ASSUME TypeOK,
         \/ \E c \in Conns : \/ Connect(c) \/ Disconnect(c) \/ PublishNext(c)
                            \/ PublishError(c) \/ Respond(c) \/ WriteError(c)
         \/ LoopDies \/ Restart
  PROVE  TypeOK'
<1> USE DEF state
<1>1. ASSUME NEW c \in Conns, Connect(c) PROVE TypeOK'
  <2>1. /\ open' = [open EXCEPT ![c] = TRUE]
        /\ served' = [served EXCEPT ![c] = <<>>]
        /\ answered' = [answered EXCEPT ![c] = <<>>]
        /\ ssid' = [ssid EXCEPT ![c] = None] /\ last' = [last EXCEPT ![c] = None]
        /\ opens' = opens + 1 /\ opens < MaxOpens /\ ~open[c]
        /\ busy' = busy /\ todo' = todo /\ metadata' = metadata
        /\ alive' = alive /\ topics' = topics
    BY <1>1 DEF Connect
  <2>2. OneAtATime'
    BY <2>1 DEF TypeOK, OneAtATime
  <2>3. opens' \in 0..MaxOpens
    BY <2>1, SessionAssumption DEF TypeOK
  <2>4. served' \in [Conns -> Seq(Packets)] /\ \A d \in Conns : Len(served'[d]) <= MaxPackets
    BY <2>1, SessionAssumption DEF TypeOK
  <2>5. answered' \in [Conns -> Seq(1..MaxPackets)]
    BY <2>1 DEF TypeOK
  <2>6. /\ open' \in [Conns -> BOOLEAN]
        /\ ssid' \in [Conns -> (Texts \ {Blank}) \cup {None}]
        /\ last' \in [Conns -> Nat \cup {None}]
    BY <2>1 DEF TypeOK
  <2> QED
    BY <2>1, <2>2, <2>3, <2>4, <2>5, <2>6, Zenon DEF TypeOK
<1>2. ASSUME NEW c \in Conns, Disconnect(c) PROVE TypeOK'
  BY <1>2 DEF Disconnect, TypeOK, OneAtATime
<1>3. ASSUME NEW c \in Conns, PublishNext(c) PROVE TypeOK'
  <2>1. todo[c] \in Seq(Messages) /\ todo[c] # <<>>
    BY <1>3 DEF PublishNext, TypeOK
  <2> DEFINE m == Head(todo[c])
  <2>2. m \in Messages /\ Tail(todo[c]) \in Seq(Messages)
    BY <2>1
  <2>3. m.topic \in Topics /\ Message(m.topic, m.value) \in Messages
    BY <2>2 DEF Messages, Message, Topics
  <2>4. topics' = [topics EXCEPT ![m.topic] = m.value]
    BY <1>3 DEF PublishNext
  <2>5. DOMAIN topics' = Topics
    BY <2>4 DEF TypeOK
  <2>6. \A t \in Topics : topics'[t] # None => Message(t, topics'[t]) \in Messages
    <3> SUFFICES ASSUME NEW t \in Topics, topics'[t] # None
                 PROVE  Message(t, topics'[t]) \in Messages
      OBVIOUS
    <3> HIDE DEF m
    <3>1. CASE t = m.topic
      BY <2>3, <2>4, <3>1 DEF TypeOK
    <3>2. CASE t # m.topic
      BY <2>4, <3>2 DEF TypeOK
    <3> QED
      BY <3>1, <3>2
  <2>7. todo' \in [Conns -> Seq(Messages)]
    BY <1>3, <2>2 DEF PublishNext, TypeOK
  <2>8. OneAtATime'
    BY <1>3 DEF PublishNext, TypeOK, OneAtATime
  <2> QED
    BY <1>3, <2>5, <2>6, <2>7, <2>8, Zenon DEF PublishNext, TypeOK
<1>4. ASSUME NEW c \in Conns, PublishError(c) PROVE TypeOK'
  <2>1. todo' \in [Conns -> Seq(Messages)] /\ OneAtATime'
    BY <1>4 DEF PublishError, TypeOK, OneAtATime
  <2> QED
    BY <1>4, <2>1, Zenon DEF PublishError, TypeOK
<1>5. ASSUME NEW c \in Conns, Respond(c) PROVE TypeOK'
  <2>1. Len(served[c]) \in 1..MaxPackets
    BY <1>5, SessionAssumption DEF Respond, TypeOK, OneAtATime
  <2>2. answered' \in [Conns -> Seq(1..MaxPackets)]
    BY <1>5, <2>1 DEF Respond, TypeOK
  <2>3. busy' \in [Conns -> BOOLEAN] /\ OneAtATime'
    BY <1>5 DEF Respond, TypeOK, OneAtATime
  <2> QED
    BY <1>5, <2>2, <2>3, Zenon DEF Respond, TypeOK
<1>6. ASSUME NEW c \in Conns, WriteError(c) PROVE TypeOK'
  <2>1. /\ busy' \in [Conns -> BOOLEAN] /\ open' \in [Conns -> BOOLEAN]
        /\ OneAtATime'
    BY <1>6 DEF WriteError, TypeOK, OneAtATime
  <2> QED
    BY <1>6, <2>1, Zenon DEF WriteError, TypeOK
<1>7. CASE LoopDies
  <2>1. OneAtATime'
    BY <1>7 DEF LoopDies, TypeOK, OneAtATime
  <2> QED
    BY <1>7, <2>1, Zenon DEF LoopDies, TypeOK
<1>8. CASE Restart
  <2>1. /\ open' \in [Conns -> BOOLEAN] /\ busy' \in [Conns -> BOOLEAN]
        /\ todo' \in [Conns -> Seq(Messages)]
        /\ OneAtATime'
    BY <1>8 DEF Restart, OneAtATime
  <2> QED
    BY <1>8, <2>1, Zenon DEF Restart, TypeOK
<1> QED
  BY <1>1, <1>2, <1>3, <1>4, <1>5, <1>6, <1>7, <1>8

\* Every step keeps the types.
LEMMA TypeStep == TypeOK /\ [Next]_vars => TypeOK'
<1> SUFFICES ASSUME TypeOK, [Next]_vars PROVE TypeOK'
  OBVIOUS
<1>1. CASE UNCHANGED vars
  BY <1>1 DEF vars, state, TypeOK, OneAtATime
<1>2. CASE Next
  BY <1>2, TypeHandle, TypeRest DEF Next
<1> QED
  BY <1>1, <1>2

\* Type correctness of the sessions.
THEOREM TypeCorrect == Spec => []TypeOK
  BY TypeInit, TypeStep, PTL DEF Spec

-----------------------------------------------------------------------------
(***************************************************************************)
(* One connection: its answers, its state and the signal under way.        *)
(***************************************************************************)

\* The inductive invariant of a connection.
ConnInv(c) ==
  /\ SignalUnderWay(c) /\ AnswerUnderWay(c)
  /\ open[c] => AnsweredInOrder(c) /\ StateOfPackets(c)

\* What a step leaves alone of connection d.
Same(d) ==
  /\ open'[d] = open[d] /\ busy'[d] = busy[d] /\ todo'[d] = todo[d]
  /\ ssid'[d] = ssid[d] /\ last'[d] = last[d]
  /\ served'[d] = served[d] /\ answered'[d] = answered[d]

\* A connection that a step leaves alone keeps its invariant.
LEMMA SameStep ==
  ASSUME NEW d \in Conns, ConnInv(d), Same(d)
  PROVE  ConnInv(d)'
<1>1. /\ Finished(d)' = Finished(d) /\ Naming(d)' = Naming(d)
      /\ Records(d)' = Records(d)
  <2>1. Finished(d)' = Finished(d)
    BY Zenon DEF Same, Finished
  <2>2. Naming(d)' = Naming(d)
    BY Zenon DEF Same, Naming
  <2>3. Records(d)' = Records(d)
    BY Zenon DEF Same, Records
  <2>4. QED
    BY <2>1, <2>2, <2>3
<1>2. AnsweredInOrder(d) => AnsweredInOrder(d)'
  <2>1. served'[d] = served[d] /\ answered'[d] = answered[d]
    BY DEF Same
  <2>2. QED
    BY <1>1, <2>1, ZenonT(60) DEF AnsweredInOrder, Answerable
<1>3. StateOfPackets(d) => StateOfPackets(d)'
  BY <1>1, Zenon DEF Same, StateOfPackets, IsLast
<1>4. SignalUnderWay(d)' /\ AnswerUnderWay(d)'
  BY ZenonT(40)
  DEF Same, ConnInv, SignalUnderWay, AnswerUnderWay, ShowsSignal, Answerable
<1> QED
  BY <1>2, <1>3, <1>4 DEF Same, ConnInv

\* A step of one task leaves the other connections alone.
LEMMA OthersSame ==
  ASSUME TypeOK, NEW c \in Conns, NEW d \in Conns, d # c,
         \/ Connect(c) \/ Disconnect(c) \/ HandlePacket(c) \/ PublishNext(c)
         \/ PublishError(c) \/ Respond(c) \/ WriteError(c)
  PROVE  Same(d)
<1> USE DEF state, TypeOK, Same
<1>1. ASSUME HandlePacket(c) PROVE Same(d)
  <2> PICK p \in Packets :
        \/ Handshake(c, p) \/ Data(c, p) \/ DataUnparsable(c, p)
        \/ Report(c, p) \/ Wifi(c, p) \/ WifiSkipped(c, p) \/ Other(c, p)
    BY <1>1 DEF HandlePacket
  <2>1. CASE Handshake(c, p)
    BY <2>1 DEF Handshake, Take
  <2>2. CASE Data(c, p)
    BY <2>2 DEF Data, Take
  <2>3. CASE DataUnparsable(c, p)
    BY <2>3 DEF DataUnparsable
  <2>4. CASE Report(c, p)
    BY <2>4 DEF Report, Take
  <2>5. CASE Wifi(c, p)
    BY <2>5 DEF Wifi, Take
  <2>6. CASE WifiSkipped(c, p) \/ Other(c, p)
    BY <2>6 DEF WifiSkipped, Other, Take
  <2> QED
    BY <2>1, <2>2, <2>3, <2>4, <2>5, <2>6
<1>2. CASE Connect(c)
  BY <1>2 DEF Connect
<1>3. CASE Disconnect(c)
  BY <1>3 DEF Disconnect
<1>4. CASE PublishNext(c)
  BY <1>4 DEF PublishNext
<1>5. CASE PublishError(c)
  BY <1>5 DEF PublishError
<1>6. CASE Respond(c)
  BY <1>6 DEF Respond
<1>7. CASE WriteError(c)
  BY <1>7 DEF WriteError
<1> QED
  BY <1>1, <1>2, <1>3, <1>4, <1>5, <1>6, <1>7

\* What a packet adds to the history of its connection: the last position.
LEMMA Positions ==
  ASSUME TypeOK, NEW c \in Conns, NEW p \in Packets,
         served' = [served EXCEPT ![c] = Append(@, p)]
  PROVE  LET n == Len(served[c]) + 1
         IN  /\ n \in Nat \ {0} /\ Len(served'[c]) = n /\ served'[c][n] = p
             /\ DOMAIN served[c] = 1..(n - 1) /\ DOMAIN served'[c] = 1..n
             /\ \A k \in 1..(n - 1) : served'[c][k] = served[c][k]
<1>1. served[c] \in Seq(Packets) /\ served'[c] = Append(served[c], p)
  BY DEF TypeOK
<1> QED
  BY <1>1

\* Taking a packet leaves the answers as they should be.
LEMMA AnswersTake ==
  ASSUME TypeOK, NEW c \in Conns, ConnInv(c), NEW p \in Packets, Answerable(p),
         NEW messages, Take(c, p, messages)
  PROVE  AnsweredInOrder(c)' /\ AnswerUnderWay(c)'
<1> DEFINE n == Len(served[c]) + 1
<1>1. /\ open[c] /\ ~busy[c] /\ busy'[c] /\ answered' = answered
      /\ served' = [served EXCEPT ![c] = Append(@, p)]
  BY DEF Take, TypeOK
<1>2. /\ n \in Nat /\ Len(served'[c]) = n /\ served'[c][n] = p
      /\ \A k \in 1..(n - 1) : served'[c][k] = served[c][k]
  BY <1>1, Positions
<1>3. Finished(c) = 1..(n - 1) /\ Finished(c)' = 1..(n - 1)
  BY <1>1, <1>2 DEF Finished, TypeOK
<1>4. AnsweredInOrder(c)'
  BY <1>1, <1>2, <1>3 DEF ConnInv, AnsweredInOrder, Answerable
<1>5. AnswerUnderWay(c)'
  BY <1>2 DEF AnswerUnderWay, Answerable
<1> QED
  BY <1>4, <1>5

\* The last of some positions, when a later one is added.
LEMMA LastAdded ==
  ASSUME NEW n \in Nat, NEW S \in SUBSET 1..(n - 1)
  PROVE  IsLast(n, S \cup {n})
BY DEF IsLast

\* A packet that is no handshake with a name adds no naming handshake, and
\* one that is no WIFI record that parses no record.
LEMMA Kinds ==
  ASSUME TypeOK, NEW c \in Conns, NEW p \in Packets,
         served' = [served EXCEPT ![c] = Append(@, p)]
  PROVE  LET n == Len(served[c]) + 1
             Add(S, yes) == IF yes THEN S \cup {n} ELSE S
         IN  /\ Naming(c) \subseteq 1..(n - 1) /\ Reports(c) \subseteq 1..(n - 1)
             /\ Naming(c)' = Add(Naming(c), /\ p.type = "handshake" /\ p.parses
                                            /\ Trimmed[p.ssid] # Blank)
             /\ Records(c)' = Add(Records(c), p.type = "wifi" /\ p.parses)
             /\ Reports(c)' = Add(Reports(c), p.type = "report" /\ p.parses)
<1> DEFINE n == Len(served[c]) + 1
<1>1. /\ n \in Nat \ {0} /\ Len(served'[c]) = n /\ served'[c][n] = p
      /\ DOMAIN served[c] = 1..(n - 1) /\ DOMAIN served'[c] = 1..n
      /\ \A k \in 1..(n - 1) : served'[c][k] = served[c][k]
  BY Positions
<1> HIDE DEF n
<1>2. 1..n = (1..(n - 1)) \cup {n} /\ n \notin 1..(n - 1)
  BY <1>1
<1>3. Naming(c)' = IF /\ p.type = "handshake" /\ p.parses
                      /\ Trimmed[p.ssid] # Blank
                   THEN Naming(c) \cup {n} ELSE Naming(c)
  BY <1>1, <1>2 DEF Naming
<1>4. Records(c)' = IF p.type = "wifi" /\ p.parses
                    THEN Records(c) \cup {n} ELSE Records(c)
  BY <1>1, <1>2 DEF Records
<1>5. Reports(c)' = IF p.type = "report" /\ p.parses
                    THEN Reports(c) \cup {n} ELSE Reports(c)
  BY <1>1, <1>2 DEF Reports
<1>6. Naming(c) \subseteq 1..(n - 1) /\ Reports(c) \subseteq 1..(n - 1)
  BY <1>1 DEF Naming, Reports
<1> QED
  BY <1>3, <1>4, <1>5, <1>6 DEF n

\* The state of a connection after a packet other than a naming handshake
\* or a WIFI record, with nothing about a signal to publish.
LEMMA StatePlain ==
  ASSUME TypeOK, NEW c \in Conns, ConnInv(c), open[c], NEW p \in Packets,
         served' = [served EXCEPT ![c] = Append(@, p)],
         ssid'[c] = ssid[c], last'[c] = last[c],
         ~(p.type = "wifi" /\ p.parses),
         ~(p.type = "handshake" /\ p.parses /\ Trimmed[p.ssid] # Blank)
  PROVE  StateOfPackets(c)'
<1> DEFINE n == Len(served[c]) + 1
<1>1. Naming(c)' = Naming(c) /\ Records(c)' = Records(c)
  BY Kinds
<1>2. /\ Naming(c) \subseteq 1..(n - 1) /\ Records(c) \subseteq 1..(n - 1)
      /\ \A k \in 1..(n - 1) : served'[c][k] = served[c][k]
  BY Positions DEF Naming, Records
<1>3. StateOfPackets(c)
  BY DEF ConnInv
<1> HIDE DEF n
<1> QED
  BY <1>1, <1>2, <1>3 DEF StateOfPackets, IsLast

\* Whatever packet a connection takes, its invariant holds afterwards.
LEMMA HandleStep ==
  ASSUME TypeOK, TypeOK', NEW c \in Conns, ConnInv(c), HandlePacket(c)
  PROVE  ConnInv(c)'
<1> PICK p \in Packets :
      \/ Handshake(c, p) \/ Data(c, p) \/ DataUnparsable(c, p)
      \/ Report(c, p) \/ Wifi(c, p) \/ WifiSkipped(c, p) \/ Other(c, p)
  BY DEF HandlePacket
<1> DEFINE n == Len(served[c]) + 1
<1>0. p \in AllPackets
  BY SessionAssumption
<1>1. /\ open[c] /\ open'[c] /\ ~busy[c]
      /\ served' = [served EXCEPT ![c] = Append(@, p)]
  <2>1. CASE DataUnparsable(c, p)
    BY <2>1 DEF DataUnparsable
  <2>2. CASE ~DataUnparsable(c, p)
    <3>1. \E messages : Take(c, p, messages)
      BY <2>2 DEF Handshake, Data, Report, Wifi, WifiSkipped, Other
    <3> QED
      BY <3>1 DEF Take
  <2> QED
    BY <2>1, <2>2
<1>2. /\ Naming(c) \subseteq 1..(n - 1) /\ Records(c) \subseteq 1..(n - 1)
      /\ \A k \in 1..(n - 1) : served'[c][k] = served[c][k]
      /\ served'[c][n] = p /\ n \in Nat \ {0}
  BY <1>1, Positions DEF Naming, Records
<1>3. StateOfPackets(c)
  BY <1>1 DEF ConnInv
<1> HIDE DEF n
<1>4. CASE Handshake(c, p)
  <2> DEFINE named == p.parses /\ Trimmed[p.ssid] # Blank
             messages ==
               IF ~p.parses THEN <<>>
               ELSE <<Message("identity", TRUE)>> \o
                    IF named THEN <<Message("wifi_ssid", Trimmed[p.ssid])>>
                             ELSE <<>>
  <2>1. /\ p.type = "handshake" /\ Take(c, p, messages) /\ last' = last
        /\ ssid' = IF named THEN [ssid EXCEPT ![c] = Trimmed[p.ssid]] ELSE ssid
    BY <1>4 DEF Handshake
  <2>2. AnsweredInOrder(c)' /\ AnswerUnderWay(c)'
    BY <2>1, AnswersTake DEF Answerable
  <2>3. SignalUnderWay(c)'
    <3>1. todo'[c] = messages
      BY <2>1 DEF Take, TypeOK
    <3>2. \A i \in DOMAIN messages : messages[i].topic # "wifi_signal"
      BY DEF Message
    <3> QED
      BY <3>1, <3>2 DEF SignalUnderWay
  <2>4. StateOfPackets(c)'
    <3>1. CASE named
      <4>1. Naming(c)' = Naming(c) \cup {n} /\ Records(c)' = Records(c)
        BY <1>1, <2>1, <3>1, Kinds DEF n
      <4>2. IsLast(n, Naming(c)')
        BY <1>2, <4>1 DEF IsLast
      <4>3. ssid'[c] = Trimmed[p.ssid] /\ last'[c] = last[c]
        BY <2>1, <3>1 DEF TypeOK
      <4> QED
        BY <1>2, <1>3, <4>1, <4>2, <4>3 DEF StateOfPackets
    <3>2. CASE ~named
      BY <1>1, <2>1, <3>2, StatePlain
    <3> QED
      BY <3>1, <3>2
  <2> QED
    BY <2>2, <2>3, <2>4 DEF ConnInv
<1>5. CASE DataUnparsable(c, p)
  <2>1. /\ answered' = answered /\ busy' = busy /\ todo' = todo
        /\ p.type = "data" /\ ~p.parses /\ ssid' = ssid /\ last' = last
    BY <1>5 DEF DataUnparsable, state
  <2>2. StateOfPackets(c)'
    BY <1>1, <2>1, StatePlain
  <2>3. todo[c] = <<>>
    BY <1>1 DEF TypeOK, OneAtATime
  <2>4. AnsweredInOrder(c)'
    <3>1. Finished(c) = 1..(n - 1) /\ Finished(c)' = 1..n
      <4>1. Len(served[c]) = n - 1 /\ Len(served'[c]) = n
        BY <1>1, Positions DEF n, TypeOK
      <4> QED
        BY <1>1, <2>1, <4>1 DEF Finished
    <3>2. \A i \in 1..n : Answerable(served'[c][i]) <=>
                           i \in 1..(n - 1) /\ Answerable(served[c][i])
      BY <1>2, <2>1 DEF Answerable
    <3>3. {i \in Finished(c) : Answerable(served[c][i])}'
            = {i \in Finished(c) : Answerable(served[c][i])}
      BY <1>2, <3>1, <3>2
    <3> QED
      BY <1>1, <2>1, <3>3, ZenonT(40) DEF ConnInv, AnsweredInOrder
  <2> QED
    BY <1>1, <2>1, <2>2, <2>3, <2>4 DEF ConnInv, SignalUnderWay, AnswerUnderWay
<1>6. CASE Wifi(c, p)
  <2> DEFINE messages == IF ShowsSignal(p, ssid[c])
                         THEN <<Message("wifi_signal", p)>> ELSE <<>>
  <2>1. /\ p.type = "wifi" /\ p.parses /\ ~Older(c, p) /\ ssid' = ssid
        /\ last' = [last EXCEPT ![c] = p.offset] /\ Take(c, p, messages)
    BY <1>6 DEF Wifi
  <2>2. AnsweredInOrder(c)' /\ AnswerUnderWay(c)'
    BY <2>1, AnswersTake DEF Answerable
  <2>3. p.offset \in Nat /\ p.signal \in 0..255 /\ last'[c] = p.offset
    BY <1>0, <2>1 DEF AllPackets, TypeOK
  <2>4. SignalUnderWay(c)'
    <3>1. todo'[c] = messages
      BY <2>1 DEF Take, TypeOK
    <3>2. \A i \in DOMAIN messages :
            messages[i].value = p /\ ShowsSignal(p, ssid[c])
      BY DEF Message
    <3> HIDE DEF messages
    <3>3. ASSUME NEW i \in DOMAIN todo'[c]
          PROVE  LET q == todo'[c][i].value
                 IN  ShowsSignal(q, ssid'[c]) /\ q.signal \in 0..100
                       /\ q.offset = last'[c]
      <4>1. todo'[c][i].value = p /\ ShowsSignal(p, ssid'[c])
        BY <2>1, <3>1, <3>2
      <4> QED
        BY <2>3, <4>1 DEF ShowsSignal
    <3> QED
      BY <3>3, Zenon DEF SignalUnderWay, ShowsSignal
  <2>5. StateOfPackets(c)'
    <3>1. Naming(c)' = Naming(c) /\ Records(c)' = Records(c) \cup {n}
      BY <1>1, <2>1, Kinds DEF n
    <3>2. \A k \in Records(c) : served[c][k].offset <= p.offset
      <4> SUFFICES ASSUME NEW k \in Records(c)
                   PROVE  served[c][k].offset <= p.offset
        OBVIOUS
      <4>1. last[c] # None /\ served[c][k].offset <= last[c]
        BY <1>3 DEF StateOfPackets
      <4>2. last[c] \in Nat /\ last[c] <= p.offset
        BY <2>1, <2>3, <4>1 DEF TypeOK, Older
      <4>3. served[c][k] \in AllPackets /\ served[c][k].type = "wifi"
        BY SessionAssumption DEF Records, TypeOK
      <4>4. served[c][k].offset \in Nat
        BY <4>3 DEF AllPackets
      <4> QED
        BY <2>3, <4>1, <4>2, <4>4
    <3>3. last'[c] # None
      BY <2>3, SessionAssumption
    <3>4. \A k \in Records(c)' : last'[c] # None /\ served'[c][k].offset <= last'[c]
      BY <1>2, <2>3, <3>1, <3>2, <3>3
    <3>5. ssid'[c] # None => \E h \in Naming(c)' :
             IsLast(h, Naming(c)') /\ ssid'[c] = Trimmed[served'[c][h].ssid]
      BY <1>2, <1>3, <2>1, <3>1 DEF StateOfPackets
    <3> QED
      BY <3>4, <3>5 DEF StateOfPackets, IsLast
  <2> QED
    BY <2>2, <2>4, <2>5 DEF ConnInv
<1>7. CASE Data(c, p) \/ Report(c, p) \/ WifiSkipped(c, p) \/ Other(c, p)
  <2>1. \E messages :
          /\ Take(c, p, messages)
          /\ \A i \in DOMAIN messages : messages[i].topic # "wifi_signal"
    <3>1. CASE Data(c, p)
      BY <3>1 DEF Data, Message
    <3>2. CASE Report(c, p)
      <4> DEFINE messages ==
            IF ~p.parses THEN <<>>
            ELSE <<Message("uptime", p.uptime),
                   Message("report_time", Time(p))>> \o
                 IF Time(p) >= p.uptime
                 THEN <<Message("last_reboot", Time(p) - p.uptime)>> ELSE <<>>
      <4>1. Take(c, p, messages)
        BY <3>2 DEF Report
      <4>2. \A i \in DOMAIN messages : messages[i].topic # "wifi_signal"
        BY DEF Message
      <4> QED
        BY <4>1, <4>2
    <3>3. CASE WifiSkipped(c, p) \/ Other(c, p)
      BY <3>3 DEF WifiSkipped, Other
    <3> QED
      BY <1>7, <3>1, <3>2, <3>3
  <2>2. SignalUnderWay(c)'
    BY <2>1 DEF Take, TypeOK, SignalUnderWay
  <2>3. AnsweredInOrder(c)' /\ AnswerUnderWay(c)'
    <3>1. Answerable(p)
      BY <1>7 DEF Data, Report, WifiSkipped, Other, Answerable
    <3> QED
      BY <2>1, <3>1, AnswersTake
  <2>4. ssid' = ssid /\ last' = last
    BY <1>7 DEF Data, Report, WifiSkipped, Other, state
  <2>5. CASE ~(p.type = "wifi" /\ p.parses)
    <3>1. p.type # "handshake"
      BY <1>7 DEF Data, Report, WifiSkipped, Other
    <3>2. StateOfPackets(c)'
      BY <1>1, <2>4, <2>5, <3>1, StatePlain
    <3> QED
      BY <2>2, <2>3, <3>2 DEF ConnInv
  <2>6. CASE p.type = "wifi" /\ p.parses
    <3>1. Older(c, p)
      BY <1>7, <2>6 DEF Data, Report, WifiSkipped, Other
    <3>2. Naming(c)' = Naming(c) /\ Records(c)' = Records(c) \cup {n}
      BY <1>1, <2>6, Kinds DEF n
    <3>3. last[c] # None /\ p.offset <= last[c]
      <4>1. last[c] \in Nat /\ p.offset \in Nat /\ p.offset < last[c]
        BY <1>0, <2>6, <3>1 DEF Older, TypeOK, AllPackets
      <4> QED
        BY <3>1, <4>1 DEF Older
    <3>4. StateOfPackets(c)'
      BY <1>2, <1>3, <2>4, <3>2, <3>3 DEF StateOfPackets, IsLast
    <3> QED
      BY <2>2, <2>3, <3>4 DEF ConnInv
  <2> QED
    BY <2>5, <2>6
<1> QED
  BY <1>4, <1>5, <1>6, <1>7

\* The steps of a connection other than taking a packet.
LEMMA ConnStep ==
  ASSUME TypeOK, TypeOK', NEW c \in Conns, ConnInv(c),
         \/ Connect(c) \/ Disconnect(c) \/ PublishNext(c)
         \/ PublishError(c) \/ Respond(c) \/ WriteError(c)
  PROVE  ConnInv(c)'
<1> USE DEF state
<1>1. CASE Connect(c)
  <2>1. /\ served'[c] = <<>> /\ answered'[c] = <<>> /\ ssid'[c] = None
        /\ busy' = busy /\ todo' = todo /\ ~open[c]
    BY <1>1 DEF Connect, TypeOK
  <2>2. ~busy[c] /\ todo[c] = <<>>
    BY <2>1 DEF TypeOK, OneAtATime
  <2>3. Naming(c)' = {} /\ Records(c)' = {} /\ Finished(c)' = {}
    BY <2>1, <2>2 DEF Naming, Records, Finished
  <2>4. AnsweredInOrder(c)' /\ StateOfPackets(c)'
    BY <2>1, <2>3 DEF AnsweredInOrder, StateOfPackets
  <2> QED
    BY <2>1, <2>2, <2>4 DEF ConnInv, SignalUnderWay, AnswerUnderWay
<1>2. CASE Disconnect(c)
  <2>1. ~open'[c] /\ todo' = todo /\ busy' = busy /\ ssid' = ssid /\ last' = last
          /\ served' = served
    BY <1>2 DEF Disconnect, TypeOK
  <2> QED
    BY <2>1 DEF ConnInv, SignalUnderWay, AnswerUnderWay, ShowsSignal, Answerable
<1>3. CASE PublishNext(c) \/ PublishError(c)
  <2>1. /\ open' = open /\ busy' = busy /\ ssid' = ssid /\ last' = last
        /\ served' = served /\ answered' = answered
    BY <1>3 DEF PublishNext, PublishError
  <2>2. AnsweredInOrder(c)' <=> AnsweredInOrder(c)
    <3>1. Finished(c)' = Finished(c)
      BY <2>1 DEF Finished
    <3> QED
      BY <2>1, <3>1 DEF AnsweredInOrder, Answerable
  <2>3. StateOfPackets(c)' <=> StateOfPackets(c)
    BY <2>1, Zenon DEF StateOfPackets, Naming, Records, IsLast
  <2>4. AnswerUnderWay(c)'
    BY <2>1 DEF ConnInv, AnswerUnderWay, Answerable
  <2>5. \A i \in DOMAIN todo'[c] : \E k \in DOMAIN todo[c] :
          todo'[c][i] = todo[c][k]
    <3>1. CASE PublishNext(c)
      <4>1. todo[c] \in Seq(Messages) /\ todo[c] # <<>> /\ todo'[c] = Tail(todo[c])
        BY <3>1 DEF PublishNext, TypeOK
      <4> QED
        BY <4>1
    <3>2. CASE PublishError(c)
      BY <3>2 DEF PublishError, TypeOK
    <3> QED
      BY <1>3, <3>1, <3>2
  <2>6. SignalUnderWay(c)'
    BY <2>1, <2>5, ZenonT(40) DEF ConnInv, SignalUnderWay, ShowsSignal
  <2> QED
    BY <2>1, <2>2, <2>3, <2>4, <2>6 DEF ConnInv
<1>4. CASE Respond(c)
  <2> DEFINE n == Len(served[c])
  <2>1. /\ open' = open /\ todo' = todo /\ ssid' = ssid /\ last' = last
        /\ served' = served /\ busy[c] /\ ~busy'[c]
        /\ answered'[c] = Append(answered[c], n)
    BY <1>4 DEF Respond, TypeOK
  <2>2. n \in Nat \ {0} /\ open[c]
    BY <2>1 DEF TypeOK, OneAtATime
  <2>3. Finished(c) = 1..(n - 1) /\ Finished(c)' = 1..n
    BY <2>1 DEF Finished
  <2>4. Answerable(served[c][n]) /\ AnsweredInOrder(c)
    BY <2>1, <2>2 DEF ConnInv, AnswerUnderWay
  <2> DEFINE m == Len(answered[c])
  <2>5. /\ m \in Nat /\ DOMAIN answered[c] = 1..m /\ DOMAIN answered'[c] = 1..(m + 1)
        /\ answered'[c][m + 1] = n
        /\ \A i \in 1..m : answered'[c][i] = answered[c][i]
    BY <2>1, <2>2 DEF TypeOK
  <2> HIDE DEF n, m
  <2>6. \A i \in 1..m : answered[c][i] \in 1..(n - 1)
    BY <2>3, <2>4, <2>5 DEF AnsweredInOrder
  <2>7. \A i, j \in DOMAIN answered'[c] : i < j => answered'[c][i] < answered'[c][j]
    <3> SUFFICES ASSUME NEW i \in 1..(m + 1), NEW j \in 1..(m + 1), i < j
                 PROVE  answered'[c][i] < answered'[c][j]
      BY <2>5
    <3>1. CASE j = m + 1
      <4>1. i \in 1..m
        BY <2>5, <3>1
      <4>2. answered'[c][i] \in 1..(n - 1) /\ answered'[c][j] = n
        BY <2>5, <2>6, <3>1, <4>1
      <4> QED
        BY <2>2, <4>2
    <3>2. CASE j # m + 1
      <4>1. i \in 1..m /\ j \in 1..m
        BY <2>5, <3>2
      <4> QED
        BY <2>4, <2>5, <4>1 DEF AnsweredInOrder
    <3> QED
      BY <3>1, <3>2
  <2>8. {answered'[c][i] : i \in DOMAIN answered'[c]}
          = {answered[c][i] : i \in DOMAIN answered[c]} \cup {n}
    <3>1. 1..(m + 1) = (1..m) \cup {m + 1}
      BY <2>5
    <3> QED
      BY <2>5, <3>1
  <2>9. {i \in Finished(c) : Answerable(served[c][i])}'
          = {i \in Finished(c) : Answerable(served[c][i])} \cup {n}
    <3>1. 1..n = (1..(n - 1)) \cup {n}
      BY <2>2
    <3>2. {i \in Finished(c) : Answerable(served[c][i])}'
            = {i \in Finished(c)' : Answerable(served[c][i])}
      BY <2>1 DEF Answerable
    <3> QED
      BY <2>3, <2>4, <3>1, <3>2
  <2>10. AnsweredInOrder(c)'
    BY <2>4, <2>7, <2>8, <2>9 DEF AnsweredInOrder
  <2>11. StateOfPackets(c)' <=> StateOfPackets(c)
    BY <2>1, Zenon DEF StateOfPackets, Naming, Records, IsLast
  <2> QED
    BY <2>1, <2>2, <2>10, <2>11
    DEF ConnInv, SignalUnderWay, AnswerUnderWay, ShowsSignal
<1>5. CASE WriteError(c)
  <2>1. ~open'[c] /\ ~busy'[c] /\ todo' = todo /\ ssid' = ssid /\ last' = last
    BY <1>5 DEF WriteError, TypeOK
  <2> QED
    BY <2>1 DEF ConnInv, SignalUnderWay, AnswerUnderWay, ShowsSignal
<1> QED
  BY <1>1, <1>2, <1>3, <1>4, <1>5

\* Every step keeps the invariant of every connection.
LEMMA InvStep ==
  ASSUME TypeOK, TypeOK', \A c \in Conns : ConnInv(c), [Next]_vars
  PROVE  \A c \in Conns : ConnInv(c)'
<1> TAKE d \in Conns
<1>1. ASSUME NEW c \in Conns,
             \/ Connect(c) \/ Disconnect(c) \/ HandlePacket(c) \/ PublishNext(c)
             \/ PublishError(c) \/ Respond(c) \/ WriteError(c)
      PROVE  ConnInv(d)'
  <2>1. CASE d = c
    BY <1>1, <2>1, HandleStep, ConnStep
  <2>2. CASE d # c
    BY <1>1, <2>2, OthersSame, SameStep
  <2> QED
    BY <2>1, <2>2
<1>2. CASE LoopDies \/ UNCHANGED vars
  <2>1. Same(d)
    BY <1>2 DEF LoopDies, vars, state, Same
  <2> QED
    BY <2>1, SameStep
<1>3. CASE Restart
  <2>1. ~open'[d] /\ ~busy'[d] /\ todo'[d] = <<>>
    BY <1>3 DEF Restart
  <2> QED
    BY <2>1 DEF ConnInv, SignalUnderWay, AnswerUnderWay
<1> QED
  BY <1>1, <1>2, <1>3 DEF Next

\* The inductive invariant of the sessions.
THEOREM Invariant == Spec => []SessionInv
<1>1. Init => SessionInv
  <2> SUFFICES ASSUME Init PROVE \A c \in Conns : ConnInv(c)
    BY TypeInit DEF SessionInv, ConnInv
  <2> QED
    <3> TAKE c \in Conns
    <3>1. ~open[c] /\ ~busy[c] /\ todo[c] = <<>>
      BY DEF Init
    <3> QED
      BY <3>1 DEF ConnInv, SignalUnderWay, AnswerUnderWay
<1>2. SessionInv /\ [Next]_vars => SessionInv'
  BY TypeStep, InvStep DEF SessionInv, ConnInv
<1> QED
  BY <1>1, <1>2, PTL DEF Spec

\* Every packet is answered once and in order, whatever its handler met
\* (server.rs:182-280).
THEOREM AnswersCorrect == Spec => []AnswersInOrder
<1>1. SessionInv => AnswersInOrder
  BY DEF SessionInv, AnswersInOrder
<1> QED
  BY <1>1, Invariant, PTL

\* A signal on its way to the broker is that of the newest record of its
\* connection, measured on the network named last (server.rs:251-268).
THEOREM SignalCorrect == Spec => []SignalFromNewestRecord
<1>1. SessionInv => SignalFromNewestRecord
  <2> SUFFICES ASSUME SessionInv, NEW c \in Conns, NEW i \in DOMAIN todo[c],
                      todo[c][i].topic = "wifi_signal"
               PROVE  LET p == todo[c][i].value
                      IN  /\ \E h \in Naming(c) :
                               /\ IsLast(h, Naming(c))
                               /\ p.text = Trimmed[served[c][h].ssid]
                          /\ p.signal \in 0..100
                          /\ \A k \in Records(c) : served[c][k].offset <= p.offset
    BY Zenon DEF SignalFromNewestRecord
  <2>1. open[c]
    BY DEF SessionInv, TypeOK, OneAtATime
  <2>2. SignalUnderWay(c) /\ StateOfPackets(c)
    BY <2>1 DEF SessionInv
  <2> QED
    BY <2>2 DEF SignalUnderWay, StateOfPackets, ShowsSignal
<1> QED
  BY <1>1, Invariant, PTL

-----------------------------------------------------------------------------
(***************************************************************************)
(* The signal while one connection lasts.                                  *)
(***************************************************************************)
IsRecord(p) == p.type = "wifi" /\ p.parses

\* What is or will be shown as a signal is a WIFI record.
SignalIsRecord ==
  /\ topics["wifi_signal"] # None => IsRecord(topics["wifi_signal"])
  /\ \A c \in Conns : \A i \in DOMAIN todo[c] :
       todo[c][i].topic = "wifi_signal" => IsRecord(todo[c][i].value)

\* The messages of every handler keep it.
LEMMA RecordHandle ==
  ASSUME TypeOK, SignalIsRecord, NEW c \in Conns, HandlePacket(c)
  PROVE  SignalIsRecord'
<1> PICK p \in Packets :
      \/ Handshake(c, p) \/ Data(c, p) \/ DataUnparsable(c, p)
      \/ Report(c, p) \/ Wifi(c, p) \/ WifiSkipped(c, p) \/ Other(c, p)
  BY DEF HandlePacket
<1>1. topics' = topics
  BY DEF Handshake, Data, DataUnparsable, Report, Wifi, WifiSkipped, Other, Take
<1>2. CASE todo' = todo
  BY <1>1, <1>2 DEF SignalIsRecord
<1>3. ASSUME NEW messages, Take(c, p, messages),
             \A i \in DOMAIN messages : messages[i].topic = "wifi_signal" =>
                                          IsRecord(messages[i].value)
      PROVE  SignalIsRecord'
  <2>1. ASSUME NEW d \in Conns
        PROVE  todo'[d] = IF d = c THEN messages ELSE todo[d]
    BY <1>3 DEF Take, TypeOK
  <2> QED
    BY <1>1, <1>3, <2>1 DEF SignalIsRecord
<1>4. CASE Handshake(c, p)
  <2> DEFINE messages ==
        IF ~p.parses THEN <<>>
        ELSE <<Message("identity", TRUE)>> \o
             IF p.parses /\ Trimmed[p.ssid] # Blank
             THEN <<Message("wifi_ssid", Trimmed[p.ssid])>> ELSE <<>>
  <2>1. Take(c, p, messages)
    BY <1>4 DEF Handshake
  <2>2. \A i \in DOMAIN messages : messages[i].topic # "wifi_signal"
    BY DEF Message
  <2> QED
    BY <1>3, <2>1, <2>2
<1>5. CASE Report(c, p)
  <2> DEFINE messages ==
        IF ~p.parses THEN <<>>
        ELSE <<Message("uptime", p.uptime), Message("report_time", Time(p))>> \o
             IF Time(p) >= p.uptime
             THEN <<Message("last_reboot", Time(p) - p.uptime)>> ELSE <<>>
  <2>1. Take(c, p, messages)
    BY <1>5 DEF Report
  <2>2. \A i \in DOMAIN messages : messages[i].topic # "wifi_signal"
    BY DEF Message
  <2> QED
    BY <1>3, <2>1, <2>2
<1>6. CASE Wifi(c, p)
  <2> DEFINE messages == IF ShowsSignal(p, ssid[c])
                         THEN <<Message("wifi_signal", p)>> ELSE <<>>
  <2>1. Take(c, p, messages) /\ IsRecord(p)
    BY <1>6 DEF Wifi, IsRecord
  <2>2. \A i \in DOMAIN messages : messages[i].value = p
    BY DEF Message
  <2> QED
    BY <1>3, <2>1, <2>2
<1>7. CASE Data(c, p) \/ WifiSkipped(c, p) \/ Other(c, p)
  <2>1. CASE Take(c, p, <<>>)
    BY <1>3, <2>1
  <2>2. CASE Take(c, p, <<Message("telemetry", TRUE)>>)
    <3> DEFINE messages == <<Message("telemetry", TRUE)>>
    <3>1. \A i \in DOMAIN messages : messages[i].topic # "wifi_signal"
      BY DEF Message
    <3> HIDE DEF messages
    <3>2. Take(c, p, messages)
      BY <2>2 DEF messages
    <3> QED
      BY <1>3, <3>1, <3>2
  <2> QED
    BY <1>7, <2>1, <2>2 DEF Data, WifiSkipped, Other
<1>8. CASE DataUnparsable(c, p)
  BY <1>2, <1>8 DEF DataUnparsable
<1> QED
  BY <1>4, <1>5, <1>6, <1>7, <1>8

\* The next message of a handler.
LEMMA NextMessage ==
  ASSUME TypeOK, NEW c \in Conns, PublishNext(c)
  PROVE  /\ 1 \in DOMAIN todo[c] /\ Head(todo[c]) = todo[c][1]
         /\ \A t \in Topics : topics'[t] = IF t = todo[c][1].topic
                                           THEN todo[c][1].value ELSE topics[t]
         /\ \A d \in Conns : \A i \in DOMAIN todo'[d] :
              \E k \in DOMAIN todo[d] : todo'[d][i] = todo[d][k]
<1>1. todo[c] \in Seq(Messages) /\ todo[c] # <<>> /\ DOMAIN topics = Topics
  BY DEF PublishNext, TypeOK
<1>2. 1 \in DOMAIN todo[c] /\ Head(todo[c]) = todo[c][1]
  BY <1>1
<1>3. \A t \in Topics : topics'[t] = IF t = todo[c][1].topic
                                     THEN todo[c][1].value ELSE topics[t]
  BY <1>1, <1>2 DEF PublishNext
<1>4. \A d \in Conns : todo'[d] = IF d = c THEN Tail(todo[c]) ELSE todo[d]
  BY DEF PublishNext, TypeOK
<1>5. \A i \in DOMAIN Tail(todo[c]) : i + 1 \in DOMAIN todo[c]
                                        /\ Tail(todo[c])[i] = todo[c][i + 1]
  BY <1>1
<1>6. ASSUME NEW d \in Conns, NEW i \in DOMAIN todo'[d]
      PROVE  \E k \in DOMAIN todo[d] : todo'[d][i] = todo[d][k]
  <2>1. CASE d = c
    <3>1. todo'[d] = Tail(todo[c])
      BY <1>4, <2>1
    <3> QED
      BY <1>5, <1>6, <2>1, <3>1
  <2>2. CASE d # c
    BY <1>4, <1>6, <2>2
  <2> QED
    BY <2>1, <2>2
<1> QED
  BY <1>2, <1>3, <1>6

\* Every step keeps it.
LEMMA RecordNext ==
  ASSUME TypeOK, SignalIsRecord, [Next]_vars
  PROVE  SignalIsRecord'
<1>1. CASE \E c \in Conns : HandlePacket(c)
  BY <1>1, RecordHandle
<1>2. CASE \E c \in Conns : PublishNext(c)
  <2> PICK c \in Conns : PublishNext(c)
    BY <1>2
  <2>1. /\ 1 \in DOMAIN todo[c] /\ "wifi_signal" \in Topics
        /\ topics'["wifi_signal"] = IF "wifi_signal" = todo[c][1].topic
                                    THEN todo[c][1].value
                                    ELSE topics["wifi_signal"]
    BY NextMessage DEF Topics
  <2>2. topics'["wifi_signal"] # None => IsRecord(topics'["wifi_signal"])
    BY <2>1 DEF SignalIsRecord
  <2>3. \A d \in Conns : \A i \in DOMAIN todo'[d] :
              \E k \in DOMAIN todo[d] : todo'[d][i] = todo[d][k]
    BY NextMessage
  <2> QED
    BY <2>2, <2>3 DEF SignalIsRecord, IsRecord
<1>3. CASE \E c \in Conns : PublishError(c)
  <2>1. /\ topics' = topics
        /\ \A d \in Conns : todo'[d] = todo[d] \/ todo'[d] = <<>>
    BY <1>3 DEF PublishError, TypeOK
  <2> QED
    BY <2>1 DEF SignalIsRecord, IsRecord
<1>4. CASE Restart
  BY <1>4 DEF Restart, SignalIsRecord, IsRecord
<1>5. CASE \/ \E c \in Conns : Connect(c) \/ Disconnect(c) \/ Respond(c)
                                 \/ WriteError(c)
           \/ LoopDies \/ UNCHANGED vars
  <2>1. topics' = topics /\ todo' = todo
    BY <1>5 DEF Connect, Disconnect, Respond, WriteError, LoopDies, vars
  <2> QED
    BY <2>1 DEF SignalIsRecord, IsRecord
<1> QED
  BY <1>1, <1>2, <1>3, <1>4, <1>5 DEF Next

\* While the only connection lasts, a cached status record never replaces the
\* signal of a later one (server.rs:251-268).
THEOREM SignalForward ==
  ASSUME \A c, d \in Conns : c = d
  PROVE  Spec => SignalForwardInConnection
<1>1. Init => SignalIsRecord
  BY DEF Init, SignalIsRecord, Topics
<1>2. TypeOK /\ SignalIsRecord /\ [Next]_vars => SignalIsRecord'
  BY RecordNext
<1>3. SessionInv => TypeOK
  BY DEF SessionInv
<1>4. SessionInv /\ SignalIsRecord /\ [Next]_vars =>
        [opens' = opens /\ topics["wifi_signal"] # None
           /\ (\E c \in Conns : \E i \in DOMAIN served[c] :
                 served[c][i] = topics["wifi_signal"])
           => topics'["wifi_signal"].offset >= topics["wifi_signal"].offset]_vars
  <2> SUFFICES ASSUME SessionInv, SignalIsRecord, [Next]_vars,
                      topics["wifi_signal"] # None,
                      NEW c \in Conns, NEW i \in DOMAIN served[c],
                      served[c][i] = topics["wifi_signal"]
               PROVE  topics'["wifi_signal"].offset >= topics["wifi_signal"].offset
    OBVIOUS
  <2> DEFINE shown == topics["wifi_signal"]
  <2>1. /\ i \in Records(c) /\ shown \in AllPackets /\ shown.type = "wifi"
    BY SessionAssumption DEF SignalIsRecord, IsRecord, Records, SessionInv, TypeOK
  <2>2. shown.offset \in Nat
    BY <2>1 DEF AllPackets
  <2>3. CASE topics'["wifi_signal"] = shown
    BY <2>2, <2>3
  <2>4. CASE PublishNext(c) /\ todo[c][1].topic = "wifi_signal"
    <3>1. /\ 1 \in DOMAIN todo[c] /\ "wifi_signal" \in Topics
          /\ topics'["wifi_signal"] = todo[c][1].value
      BY <1>3, <2>4, NextMessage DEF Topics
    <3>2. open[c] /\ SignalUnderWay(c)
      BY <2>4 DEF PublishNext, SessionInv, TypeOK, OneAtATime
    <3>3. todo[c][1].value.offset = last[c] /\ StateOfPackets(c)
      BY <2>4, <3>1, <3>2 DEF SignalUnderWay, SessionInv
    <3>4. last[c] # None /\ shown.offset <= last[c] /\ last[c] \in Nat
      BY <2>1, <3>3 DEF StateOfPackets, SessionInv, TypeOK
    <3> QED
      BY <2>2, <3>1, <3>3, <3>4
  <2>5. CASE PublishNext(c) /\ todo[c][1].topic # "wifi_signal"
    <3>1. topics'["wifi_signal"] = shown
      BY <1>3, <2>5, NextMessage DEF Topics
    <3> QED
      BY <2>3, <3>1
  <2>6. CASE ~PublishNext(c)
    <3>1. topics' = topics
      <4>1. \A d \in Conns : d = c
        OBVIOUS
      <4>2. HandlePacket(c) => topics' = topics
        BY DEF HandlePacket, Handshake, Data, DataUnparsable, Report, Wifi,
               WifiSkipped, Other, Take
      <4>3. Connect(c) \/ Disconnect(c) \/ PublishError(c) \/ Respond(c)
              \/ WriteError(c) \/ LoopDies \/ Restart \/ UNCHANGED vars
              => topics' = topics
        BY DEF Connect, Disconnect, PublishError, Respond, WriteError, LoopDies,
               Restart, vars
      <4> QED
        BY <2>6, <4>1, <4>2, <4>3, Zenon DEF Next
    <3> QED
      BY <2>3, <3>1
  <2> QED
    BY <2>4, <2>5, <2>6
<1> QED
  BY <1>1, <1>2, <1>3, <1>4, Invariant, PTL DEF Spec, SignalForwardInConnection

-----------------------------------------------------------------------------
(***************************************************************************)
(* What the topics of a report show.                                       *)
(***************************************************************************)

\* Packet p tells topic t.
Tells(p, t) == p.type = "report" /\ p.parses /\ t \in TopicsOf(p)

\* Connection c takes packet p: the messages about reports that its handler
\* will publish are those that p tells.
Taken(c, p) ==
  /\ open[c] /\ open' = open /\ alive' = alive /\ topics' = topics
  /\ opens' = opens
  /\ served' = [served EXCEPT ![c] = Append(@, p)]
  /\ todo[c] = <<>>
  /\ \A d \in Conns : d # c => todo'[d] = todo[d]
  /\ \A k \in DOMAIN todo'[c] : todo'[c][k].topic \in ReportTopics =>
       /\ Tells(p, todo'[c][k].topic)
       /\ todo'[c][k].value = Told(p, todo'[c][k].topic)
  /\ \A t \in ReportTopics : Tells(p, t) =>
       \E k \in DOMAIN todo'[c] : todo'[c][k].topic = t

\* What every branch of process_packet is to the topics of a report.
LEMMA HandleReports ==
  ASSUME TypeOK, NEW c \in Conns, HandlePacket(c)
  PROVE  \E p \in Packets : Taken(c, p)
<1> PICK p \in Packets :
      \/ Handshake(c, p) \/ Data(c, p) \/ DataUnparsable(c, p)
      \/ Report(c, p) \/ Wifi(c, p) \/ WifiSkipped(c, p) \/ Other(c, p)
  BY DEF HandlePacket
<1>1. /\ open[c] /\ ~busy[c] /\ open' = open /\ alive' = alive
      /\ topics' = topics /\ opens' = opens
      /\ served' = [served EXCEPT ![c] = Append(@, p)]
      /\ \A d \in Conns : d # c => todo'[d] = todo[d]
  BY DEF Handshake, Data, DataUnparsable, Report, Wifi, WifiSkipped, Other,
         Take, TypeOK
<1>2. todo[c] = <<>>
  BY <1>1 DEF TypeOK, OneAtATime
<1>3. CASE Report(c, p) /\ p.parses
  <2> DEFINE messages ==
        <<Message("uptime", p.uptime), Message("report_time", Time(p))>>
          \o IF Time(p) >= p.uptime
             THEN <<Message("last_reboot", Time(p) - p.uptime)>> ELSE <<>>
  <2>1. todo'[c] = messages /\ p.type = "report"
    BY <1>3 DEF Report, Take, TypeOK
  <2>2. \A k \in DOMAIN messages :
          /\ messages[k].topic \in TopicsOf(p)
          /\ messages[k].value = Told(p, messages[k].topic)
    BY DEF Message, TopicsOf, Told, ReportTopics
  <2>3. \A t \in TopicsOf(p) : \E k \in DOMAIN messages : messages[k].topic = t
    <3>1. /\ 1 \in DOMAIN messages /\ messages[1].topic = "uptime"
          /\ 2 \in DOMAIN messages /\ messages[2].topic = "report_time"
      BY DEF Message
    <3>2. Time(p) >= p.uptime =>
            3 \in DOMAIN messages /\ messages[3].topic = "last_reboot"
      BY DEF Message
    <3> HIDE DEF messages
    <3> QED
      BY <3>1, <3>2 DEF TopicsOf, ReportTopics
  <2> HIDE DEF messages
  <2> QED
    BY <1>1, <1>2, <1>3, <2>1, <2>2, <2>3 DEF Taken, Tells
<1>4. CASE ~(Report(c, p) /\ p.parses)
  <2>1. \A k \in DOMAIN todo'[c] : todo'[c][k].topic \notin ReportTopics
    <3>1. CASE Handshake(c, p)
      <4> DEFINE messages ==
            IF ~p.parses THEN <<>>
            ELSE <<Message("identity", TRUE)>> \o
                 IF p.parses /\ Trimmed[p.ssid] # Blank
                 THEN <<Message("wifi_ssid", Trimmed[p.ssid])>> ELSE <<>>
      <4>1. todo'[c] = messages
        BY <3>1 DEF Handshake, Take, TypeOK
      <4>2. \A k \in DOMAIN messages : messages[k].topic \notin ReportTopics
        BY DEF Message, ReportTopics
      <4> QED
        BY <4>1, <4>2
    <3>2. CASE ~Handshake(c, p)
      <4>1. \/ todo'[c] = <<>>
            \/ todo'[c] = <<Message("telemetry", TRUE)>>
            \/ todo'[c] = <<Message("wifi_signal", p)>>
        BY <1>2, <1>4, <3>2 DEF Data, DataUnparsable, Report, Wifi, WifiSkipped,
           Other, Take, TypeOK
      <4> QED
        BY <4>1 DEF Message, ReportTopics
    <3> QED
      BY <3>1, <3>2
  <2>2. ~(p.type = "report" /\ p.parses)
    BY <1>4 DEF Handshake, Data, DataUnparsable, Report, Wifi, WifiSkipped, Other
  <2> QED
    BY <1>1, <1>2, <2>1, <2>2 DEF Taken, Tells
<1> QED
  BY <1>3, <1>4

\* What a packet adds to the reports that tell topic t.
LEMMA TellingTaken ==
  ASSUME TypeOK, NEW c \in Conns, NEW p \in Packets, Taken(c, p), NEW t
  PROVE  /\ Tells(p, t) =>
              \E n : /\ IsLast(n, Telling(c, t)') /\ served'[c][n] = p
                     /\ \A i : IsLast(i, Telling(c, t)') => i = n
         /\ ~Tells(p, t) => Telling(c, t)' = Telling(c, t)
         /\ \A i \in Telling(c, t) : served'[c][i] = served[c][i]
         /\ \A d \in Conns : d # c => served'[d] = served[d]
<1> DEFINE n == Len(served[c]) + 1
<1>1. served' = [served EXCEPT ![c] = Append(@, p)]
  BY DEF Taken
<1>2. /\ n \in Nat \ {0} /\ served'[c][n] = p
      /\ DOMAIN served[c] = 1..(n - 1) /\ DOMAIN served'[c] = 1..n
      /\ \A k \in 1..(n - 1) : served'[c][k] = served[c][k]
  BY <1>1, Positions
<1> HIDE DEF n
<1>3. 1..n = (1..(n - 1)) \cup {n}
  BY <1>2
<1>4. /\ Telling(c, t) \subseteq 1..(n - 1)
      /\ \A k \in 1..(n - 1) : k \in Telling(c, t)' <=> k \in Telling(c, t)
      /\ n \in Telling(c, t)' <=> Tells(p, t)
      /\ Telling(c, t)' \subseteq 1..n
  BY <1>2, <1>3 DEF Telling, Reports, Tells
<1>5. CASE Tells(p, t)
  <2>1. IsLast(n, Telling(c, t)')
    BY <1>2, <1>4, <1>5 DEF IsLast
  <2>2. \A i : IsLast(i, Telling(c, t)') => i = n
    BY <1>2, <1>4, <1>5 DEF IsLast
  <2> QED
    BY <1>1, <1>2, <1>4, <1>5, <2>1, <2>2 DEF TypeOK
<1>6. CASE ~Tells(p, t)
  <2>1. Telling(c, t)' = Telling(c, t)
    BY <1>2, <1>3, <1>4, <1>6
  <2> QED
    BY <1>1, <1>2, <1>4, <1>6, <2>1 DEF TypeOK
<1> QED
  BY <1>5, <1>6

\* A connection that takes nothing, and whose messages get fewer at most.
LEMMA UnderWayKept ==
  ASSUME NEW d \in Conns, ReportUnderWay(d), served'[d] = served[d],
         \A i \in DOMAIN todo'[d] : \E k \in DOMAIN todo[d] : todo'[d][i] = todo[d][k]
  PROVE  ReportUnderWay(d)'
<1> SUFFICES ASSUME NEW i \in DOMAIN todo'[d], NEW t, t = todo'[d][i].topic,
                    t \in ReportTopics
             PROVE  \E j \in Telling(d, t)' :
                      /\ IsLast(j, Telling(d, t)')
                      /\ todo'[d][i].value = Told(served'[d][j], t)
  BY DEF ReportUnderWay, IsLast
<1>1. Telling(d, t)' = Telling(d, t)
  BY DEF Telling, Reports
<1> PICK k \in DOMAIN todo[d] : todo'[d][i] = todo[d][k]
  OBVIOUS
<1>2. \E j \in Telling(d, t) : /\ IsLast(j, Telling(d, t))
                               /\ todo[d][k].value = Told(served[d][j], t)
  BY Zenon DEF ReportUnderWay
<1> QED
  BY <1>1, <1>2

\* Every step keeps what is known of the messages of reports.
LEMMA UnderWayStep ==
  ASSUME TypeOK, \A d \in Conns : ReportUnderWay(d), [Next]_vars
  PROVE  \A d \in Conns : ReportUnderWay(d)'
<1> USE DEF state
<1> TAKE d \in Conns
<1>1. ASSUME NEW c \in Conns, HandlePacket(c) PROVE ReportUnderWay(d)'
  <2> PICK p \in Packets : Taken(c, p)
    BY <1>1, HandleReports
  <2>1. CASE d # c
    <3>1. served'[d] = served[d] /\ todo'[d] = todo[d]
      BY <2>1, TellingTaken DEF Taken
    <3> QED
      BY <3>1, UnderWayKept
  <2>2. CASE d = c
    <3> SUFFICES ASSUME NEW k \in DOMAIN todo'[c], NEW t, t = todo'[c][k].topic,
                        t \in ReportTopics
                 PROVE  \E i \in Telling(c, t)' :
                          /\ IsLast(i, Telling(c, t)')
                          /\ todo'[c][k].value = Told(served'[c][i], t)
      BY <2>2 DEF ReportUnderWay, IsLast
    <3>1. Tells(p, t) /\ todo'[c][k].value = Told(p, t)
      BY DEF Taken
    <3>2. PICK n : IsLast(n, Telling(c, t)') /\ served'[c][n] = p
      BY <3>1, TellingTaken
    <3> QED
      BY <3>1, <3>2 DEF IsLast
  <2> QED
    BY <2>1, <2>2
<1>2. ASSUME NEW c \in Conns, PublishNext(c) PROVE ReportUnderWay(d)'
  <2>1. \A i \in DOMAIN todo'[d] : \E k \in DOMAIN todo[d] :
          todo'[d][i] = todo[d][k]
    BY <1>2, NextMessage
  <2>2. served'[d] = served[d]
    BY <1>2 DEF PublishNext
  <2> QED
    BY <2>1, <2>2, UnderWayKept
<1>3. CASE Restart \/ \E c \in Conns : PublishError(c)
  <2>1. served'[d] = served[d] /\ (todo'[d] = todo[d] \/ todo'[d] = <<>>)
    BY <1>3 DEF PublishError, Restart, TypeOK
  <2> QED
    BY <2>1, UnderWayKept
<1>4. ASSUME NEW c \in Conns, Connect(c) PROVE ReportUnderWay(d)'
  <2>1. CASE d = c
    <3>1. todo'[c] = <<>>
      BY <1>4 DEF Connect, TypeOK, OneAtATime
    <3> QED
      BY <2>1, <3>1 DEF ReportUnderWay
  <2>2. CASE d # c
    BY <1>4, <2>2, UnderWayKept DEF Connect, TypeOK
  <2> QED
    BY <2>1, <2>2
<1>5. CASE \/ \E c \in Conns : Disconnect(c) \/ Respond(c) \/ WriteError(c)
           \/ LoopDies \/ UNCHANGED vars
  <2>1. todo' = todo /\ served' = served
    BY <1>5 DEF Disconnect, Respond, WriteError, LoopDies, vars
  <2> QED
    BY <2>1, UnderWayKept
<1> QED
  BY <1>1, <1>2, <1>3, <1>4, <1>5 DEF Next

\* What the next message of a handler is to topic t: it leaves it alone, or
\* brings what the last report of the connection that tells it told.
LEMMA PublishTells ==
  ASSUME TypeOK, NEW c \in Conns, ReportUnderWay(c), PublishNext(c),
         NEW t \in ReportTopics
  PROVE  \/ /\ topics'[t] = topics[t]
            /\ \A d \in Conns : (\E k \in DOMAIN todo[d] : todo[d][k].topic = t)
                             => (\E k \in DOMAIN todo'[d] : todo'[d][k].topic = t)
         \/ \E i \in Telling(c, t) : /\ IsLast(i, Telling(c, t))
                                     /\ topics'[t] = Told(served[c][i], t)
<1>1. /\ 1 \in DOMAIN todo[c] /\ t \in Topics
      /\ topics'[t] = IF t = todo[c][1].topic THEN todo[c][1].value ELSE topics[t]
  BY NextMessage DEF ReportTopics, Topics
<1>2. CASE t = todo[c][1].topic
  BY <1>1, <1>2, Zenon DEF ReportUnderWay
<1>3. CASE t # todo[c][1].topic
  <2>1. todo[c] \in Seq(Messages) /\ todo'[c] = Tail(todo[c])
    BY DEF PublishNext, TypeOK
  <2>2. \A k \in DOMAIN todo[c] : k # 1 =>
          k - 1 \in DOMAIN todo'[c] /\ todo'[c][k - 1] = todo[c][k]
    BY <1>1, <2>1
  <2>3. ASSUME NEW d \in Conns, NEW k \in DOMAIN todo[d], todo[d][k].topic = t
        PROVE  \E j \in DOMAIN todo'[d] : todo'[d][j].topic = t
    <3>1. CASE d = c
      BY <1>3, <2>2, <2>3, <3>1
    <3>2. CASE d # c
      BY <2>3, <3>2 DEF PublishNext, TypeOK
    <3> QED
      BY <3>1, <3>2
  <2> QED
    BY <1>1, <1>3, <2>3
<1> QED
  BY <1>2, <1>3

\* No reboot time is before the epoch.
LEMMA RebootStep ==
  ASSUME TypeOK, \A d \in Conns : ReportUnderWay(d), RebootShownAfterEpoch,
         [Next]_vars
  PROVE  RebootShownAfterEpoch'
<1> USE DEF state
<1>1. ASSUME NEW c \in Conns, PublishNext(c) PROVE RebootShownAfterEpoch'
  <2> DEFINE t == "last_reboot"
  <2>1. CASE topics'[t] = topics[t]
    BY <2>1 DEF RebootShownAfterEpoch
  <2>2. CASE \E i \in Telling(c, t) : topics'[t] = Told(served[c][i], t)
    <3> PICK i \in Telling(c, t) : topics'[t] = Told(served[c][i], t)
      BY <2>2
    <3>1. /\ served[c][i] \in AllPackets /\ served[c][i].type = "report"
          /\ t \in TopicsOf(served[c][i])
      BY SessionAssumption DEF Telling, Reports, TypeOK
    <3>2. /\ served[c][i].base \in Nat /\ served[c][i].offset \in Nat
          /\ served[c][i].uptime \in Nat
      BY <3>1 DEF AllPackets
    <3>3. topics'[t] >= 0
      BY <3>1, <3>2 DEF TopicsOf, Told, Time
    <3> QED
      BY <3>3 DEF RebootShownAfterEpoch
  <2>3. t \in ReportTopics
    BY DEF ReportTopics
  <2> QED
    BY <1>1, <2>1, <2>2, <2>3, PublishTells
<1>2. ASSUME NEW c \in Conns, HandlePacket(c) PROVE topics' = topics
  BY <1>2, HandleReports DEF Taken
<1>3. CASE \/ \E c \in Conns : Connect(c) \/ Disconnect(c) \/ PublishError(c)
                                 \/ Respond(c) \/ WriteError(c)
           \/ LoopDies \/ Restart \/ UNCHANGED vars
  BY <1>3 DEF Connect, Disconnect, PublishError, Respond, WriteError, LoopDies,
         Restart, vars, RebootShownAfterEpoch
<1> QED
  BY <1>1, <1>2, <1>3 DEF Next, RebootShownAfterEpoch

\* Every step keeps what is shown, with one connection.
LEMMA ShownStep ==
  ASSUME TypeOK, NEW c \in Conns, \A d \in Conns : d = c,
         ReportUnderWay(c), ReportShownOrUnderWay(c), [Next]_vars
  PROVE  ReportShownOrUnderWay(c)'
<1> USE DEF state
<1> SUFFICES ASSUME open'[c], alive', NEW t \in ReportTopics, NEW i,
                    IsLast(i, Telling(c, t)')
             PROVE  \/ topics'[t] = Told(served'[c][i], t)
                    \/ \E k \in DOMAIN todo'[c] : todo'[c][k].topic = t
  BY DEF ReportShownOrUnderWay, IsLast
<1>1. ASSUME Telling(c, t)' = Telling(c, t), served'[c][i] = served[c][i],
             open[c], alive
      PROVE  \/ topics[t] = Told(served'[c][i], t)
             \/ \E k \in DOMAIN todo[c] : todo[c][k].topic = t
  BY <1>1, Zenon DEF ReportShownOrUnderWay, IsLast
<1>2. ASSUME served' = served
      PROVE  Telling(c, t)' = Telling(c, t) /\ served'[c][i] = served[c][i]
  BY <1>2 DEF Telling, Reports
<1>3. CASE HandlePacket(c)
  <2> PICK p \in Packets : Taken(c, p)
    BY <1>3, HandleReports
  <2>1. CASE Tells(p, t)
    BY <2>1 DEF Taken
  <2>2. CASE ~Tells(p, t)
    <3>1. Telling(c, t)' = Telling(c, t)
      BY <2>2, TellingTaken
    <3>2. served'[c][i] = served[c][i]
      BY <3>1, TellingTaken DEF IsLast
    <3>3. topics' = topics /\ todo[c] = <<>> /\ open[c] /\ alive
      BY DEF Taken
    <3> QED
      BY <1>1, <3>1, <3>2, <3>3
  <2> QED
    BY <2>1, <2>2
<1>4. CASE PublishNext(c)
  <2>1. served' = served /\ open[c] /\ alive
    BY <1>4 DEF PublishNext, TypeOK, OneAtATime
  <2>2. CASE /\ topics'[t] = topics[t]
             /\ (\E k \in DOMAIN todo[c] : todo[c][k].topic = t)
                  => (\E k \in DOMAIN todo'[c] : todo'[c][k].topic = t)
    BY <1>1, <1>2, <2>1, <2>2
  <2>3. CASE \E j \in Telling(c, t) : /\ IsLast(j, Telling(c, t))
                                      /\ topics'[t] = Told(served[c][j], t)
    <3> PICK j \in Telling(c, t) : /\ IsLast(j, Telling(c, t))
                                   /\ topics'[t] = Told(served[c][j], t)
      BY <2>3
    <3>1. IsLast(i, Telling(c, t)) /\ Telling(c, t) \subseteq Int
      BY <1>2, <2>1 DEF Telling, Reports, TypeOK
    <3>2. i = j
      BY <3>1 DEF IsLast
    <3> QED
      BY <2>1, <3>2
  <2> QED
    BY <1>4, <2>2, <2>3, PublishTells
<1>5. CASE Connect(c)
  <2>1. served'[c] = <<>>
    BY <1>5 DEF Connect, TypeOK
  <2>2. Telling(c, t)' = {}
    BY <2>1 DEF Telling, Reports
  <2> QED
    BY <2>2 DEF IsLast
<1>6. CASE PublishError(c) \/ Restart
  BY <1>6 DEF PublishError, Restart
<1>7. CASE Disconnect(c) \/ Respond(c) \/ WriteError(c) \/ LoopDies
             \/ UNCHANGED vars
  <2>1. /\ todo' = todo /\ served' = served /\ topics' = topics
        /\ open[c] /\ alive
    BY <1>7 DEF Disconnect, Respond, WriteError, LoopDies, vars, TypeOK
  <2> QED
    BY <1>1, <1>2, <2>1
<1> QED
  BY <1>3, <1>4, <1>5, <1>6, <1>7 DEF Next

\* With one connection at a time, each topic of a report shows what the last
\* report that tells it told, whenever the connection is at rest, and after
\* reconnects and restarts, too (mqtt.rs:271-299).
THEOREM ReportCorrect ==
  ASSUME \A c, d \in Conns : c = d
  PROVE  Spec => []LastReportShown
<1> DEFINE Shown == /\ \A c \in Conns : ReportUnderWay(c)
                    /\ \A c \in Conns : ReportShownOrUnderWay(c)
                    /\ RebootShownAfterEpoch
<1>1. Init => Shown
  <2> SUFFICES ASSUME Init PROVE Shown
    OBVIOUS
  <2>1. ASSUME NEW c \in Conns PROVE ReportUnderWay(c) /\ ReportShownOrUnderWay(c)
    <3>1. todo[c] = <<>> /\ ~open[c]
      BY DEF Init
    <3> QED
      BY <3>1 DEF ReportUnderWay, ReportShownOrUnderWay
  <2>2. RebootShownAfterEpoch
    BY DEF Init, RebootShownAfterEpoch, Topics
  <2> QED
    BY <2>1, <2>2
<1>2. TypeOK /\ Shown /\ [Next]_vars => Shown'
  <2> SUFFICES ASSUME TypeOK, Shown, [Next]_vars PROVE Shown'
    OBVIOUS
  <2>1. \A c \in Conns : ReportUnderWay(c)'
    BY UnderWayStep
  <2>2. RebootShownAfterEpoch'
    BY RebootStep
  <2>3. ASSUME NEW c \in Conns PROVE ReportShownOrUnderWay(c)'
    <3>1. \A d \in Conns : d = c
      OBVIOUS
    <3> QED
      BY <3>1, ShownStep
  <2> QED
    BY <2>1, <2>2, <2>3
<1>3. TypeOK /\ Shown => LastReportShown
  <2> SUFFICES ASSUME TypeOK, Shown, NEW c \in Conns, open[c], ~busy[c], alive,
                      NEW t \in ReportTopics, NEW i \in Telling(c, t),
                      IsLast(i, Telling(c, t))
               PROVE  topics[t] = Told(served[c][i], t)
    BY DEF LastReportShown
  <2>1. todo[c] = <<>>
    BY DEF TypeOK, OneAtATime
  <2>2. ReportShownOrUnderWay(c)
    OBVIOUS
  <2> QED
    BY <2>1, <2>2 DEF ReportShownOrUnderWay
<1> QED
  BY <1>1, <1>2, <1>3, TypeCorrect, PTL DEF Spec

-----------------------------------------------------------------------------
(***************************************************************************)
(* What they show with any number of connections, as long as nothing ends  *)
(* the event loop or the program.                                          *)
(***************************************************************************)

\* The steps of the task of connection c.
TaskStep(c) ==
  \/ Connect(c) \/ Disconnect(c) \/ HandlePacket(c) \/ PublishNext(c)
  \/ PublishError(c) \/ Respond(c) \/ WriteError(c)

\* Not more tasks have had a connection than were accepted.
UsedCounted == IsFiniteSet(Used) /\ Cardinality(Used) <= opens

\* Topic t is empty, since nobody told it, or it shows what the last report
\* of some connection told, or it has a message under way.
Settling(t) ==
  \/ topics[t] = None /\ \A c \in Conns : Telling(c, t) = {}
  \/ \E c \in Conns : \E i \in Telling(c, t) :
       IsLast(i, Telling(c, t)) /\ topics[t] = Told(served[c][i], t)
  \/ \E c \in Conns : \E k \in DOMAIN todo[c] : todo[c][k].topic = t

ReportsSettle == NoneReplaced => \A t \in ReportTopics : Settling(t)

SettleInv ==
  /\ \A c \in Conns : ReportUnderWay(c)
  /\ UsedCounted
  /\ ReportsSettle

\* At the beginning no topic of a report shows anything.
LEMMA SettleInit == Init => SettleInv
<1> SUFFICES ASSUME Init PROVE SettleInv
  OBVIOUS
<1>1. ASSUME NEW c \in Conns PROVE ReportUnderWay(c)
  <2>1. todo[c] = <<>>
    BY DEF Init
  <2> QED
    BY <2>1 DEF ReportUnderWay
<1>2. UsedCounted
  <2>1. Used = {}
    BY DEF Init, Used
  <2>2. IsFiniteSet(Used) /\ Cardinality(Used) = 0
    BY <2>1, FS_EmptySet
  <2> QED
    BY <2>2 DEF Init, UsedCounted
<1>3. ASSUME NEW t \in ReportTopics PROVE Settling(t)
  <2>1. topics[t] = None
    BY DEF Init, ReportTopics, Topics
  <2>2. ASSUME NEW c \in Conns PROVE Telling(c, t) = {}
    <3>1. served[c] = <<>>
      BY DEF Init
    <3> QED
      BY <3>1 DEF Telling, Reports
  <2> QED
    BY <2>1, <2>2 DEF Settling
<1> QED
  BY <1>1, <1>2, <1>3 DEF SettleInv, ReportsSettle

\* The count goes with the connections; and as long as it is exact, a new
\* connection is the first of its task.
LEMMA CountStep ==
  ASSUME TypeOK, UsedCounted, NEW c \in Conns, TaskStep(c)
  PROVE  /\ UsedCounted'
         /\ NoneReplaced' => NoneReplaced
         /\ NoneReplaced' /\ Connect(c) => served[c] = <<>>
<1> USE DEF state
<1>1. opens \in Nat /\ IsFiniteSet(Used) /\ Cardinality(Used) <= opens
      /\ Cardinality(Used) \in Nat
  BY FS_CardinalityType DEF TypeOK, UsedCounted
<1>2. CASE Connect(c)
  <2>1. opens' = opens + 1 /\ Used' = (IF served[c] = <<>> THEN Used \cup {c} ELSE Used)
        /\ ~open[c]
    BY <1>2 DEF Connect, Used, TypeOK
  <2>2. CASE served[c] = <<>>
    <3>1. c \notin Used
      BY <2>1, <2>2 DEF Used
    <3>2. IsFiniteSet(Used') /\ Cardinality(Used') = Cardinality(Used) + 1
      BY <1>1, <2>1, <2>2, <3>1, FS_AddElement
    <3> QED
      BY <1>1, <2>1, <2>2, <3>2 DEF UsedCounted, NoneReplaced
  <2>3. CASE served[c] # <<>>
    <3>1. Used' = Used
      BY <2>1, <2>3
    <3>2. IsFiniteSet(Used') /\ Cardinality(Used') = Cardinality(Used)
      BY <1>1, <3>1
    <3> QED
      BY <1>1, <2>1, <3>2 DEF UsedCounted, NoneReplaced
  <2> QED
    BY <2>2, <2>3
<1>3. CASE ~Connect(c)
  <2>1. opens' = opens /\ Used' \subseteq Used
    <3>1. CASE HandlePacket(c)
      <4> PICK p \in Packets : Taken(c, p)
        BY <3>1, HandleReports
      <4>1. /\ opens' = opens /\ open' = open /\ c \in Used
            /\ \A d \in Conns : d # c => served'[d] = served[d]
        BY DEF Taken, Used, TypeOK
      <4> QED
        BY <4>1 DEF Used
    <3>2. CASE ~HandlePacket(c)
      <4>1. /\ opens' = opens /\ served' = served
            /\ \A d \in Conns : open'[d] => open[d]
        BY <1>3, <3>2 DEF TaskStep, Disconnect, PublishNext, PublishError,
           Respond, WriteError, TypeOK
      <4> QED
        BY <4>1 DEF Used
    <3> QED
      BY <3>1, <3>2
  <2>2. IsFiniteSet(Used') /\ Cardinality(Used') <= Cardinality(Used)
        /\ Cardinality(Used') \in Nat
    BY <1>1, <2>1, FS_Subset, FS_CardinalityType
  <2> QED
    BY <1>1, <1>3, <2>1, <2>2 DEF UsedCounted, NoneReplaced
<1> QED
  BY <1>2, <1>3

\* Every step of a task keeps it, as long as the event loop runs.
LEMMA SettleStep ==
  ASSUME TypeOK, SettleInv, alive, NEW c \in Conns, TaskStep(c)
  PROVE  SettleInv'
<1> USE DEF state
<1>1. \A d \in Conns : ReportUnderWay(d)'
  BY UnderWayStep DEF SettleInv, Next, TaskStep
<1>2. UsedCounted'
  BY CountStep DEF SettleInv
<1>3. ASSUME NoneReplaced', NEW t \in ReportTopics PROVE Settling(t)'
  <2>1. Settling(t) /\ (Connect(c) => served[c] = <<>>)
    BY <1>3, CountStep DEF SettleInv, ReportsSettle
  <2>2. ASSUME served' = served
        PROVE  \A d \in Conns : Telling(d, t)' = Telling(d, t)
    BY <2>2 DEF Telling, Reports
  <2>3. CASE HandlePacket(c)
    <3> PICK p \in Packets : Taken(c, p)
      BY <2>3, HandleReports
    <3>1. CASE Tells(p, t)
      BY <3>1 DEF Taken, Settling
    <3>2. CASE ~Tells(p, t)
      <4>1. \A d \in Conns : /\ Telling(d, t)' = Telling(d, t)
                             /\ \A i \in Telling(d, t) : served'[d][i] = served[d][i]
        <5> TAKE d \in Conns
        <5>1. CASE d = c
          BY <3>2, <5>1, TellingTaken
        <5>2. CASE d # c
          <6>1. served'[d] = served[d]
            BY <5>2, TellingTaken
          <6> QED
            BY <6>1 DEF Telling, Reports
        <5> QED
          BY <5>1, <5>2
      <4>2. topics' = topics /\ todo[c] = <<>>
            /\ \A d \in Conns : d # c => todo'[d] = todo[d]
        BY DEF Taken
      <4>3. CASE topics[t] = None /\ \A d \in Conns : Telling(d, t) = {}
        BY <4>1, <4>2, <4>3 DEF Settling
      <4>4. CASE \E d \in Conns : \E i \in Telling(d, t) :
                   IsLast(i, Telling(d, t)) /\ topics[t] = Told(served[d][i], t)
        <5> PICK d \in Conns : \E i \in Telling(d, t) :
              IsLast(i, Telling(d, t)) /\ topics[t] = Told(served[d][i], t)
          BY <4>4
        <5> PICK i \in Telling(d, t) :
              IsLast(i, Telling(d, t)) /\ topics[t] = Told(served[d][i], t)
          OBVIOUS
        <5>1. /\ i \in Telling(d, t)' /\ IsLast(i, Telling(d, t)')
              /\ topics'[t] = Told(served'[d][i], t)
          BY <4>1, <4>2
        <5> QED
          BY <5>1 DEF Settling, IsLast
      <4>5. CASE \E d \in Conns : \E k \in DOMAIN todo[d] : todo[d][k].topic = t
        <5> PICK d \in Conns : \E k \in DOMAIN todo[d] : todo[d][k].topic = t
          BY <4>5
        <5>1. d # c
          BY <4>2
        <5> QED
          BY <4>2, <5>1 DEF Settling
      <4> QED
        BY <2>1, <4>3, <4>4, <4>5 DEF Settling
    <3> QED
      BY <3>1, <3>2
  <2>4. CASE PublishNext(c)
    <3>1. served' = served
      BY <2>4 DEF PublishNext
    <3>2. CASE /\ topics'[t] = topics[t]
               /\ \A d \in Conns : (\E k \in DOMAIN todo[d] : todo[d][k].topic = t)
                             => (\E k \in DOMAIN todo'[d] : todo'[d][k].topic = t)
      BY <2>1, <2>2, <3>1, <3>2 DEF Settling, IsLast
    <3>3. CASE \E i \in Telling(c, t) : /\ IsLast(i, Telling(c, t))
                                        /\ topics'[t] = Told(served[c][i], t)
      BY <2>2, <3>1, <3>3 DEF Settling, IsLast
    <3> QED
      BY <2>4, <3>2, <3>3, PublishTells DEF SettleInv
  <2>5. CASE Connect(c)
    <3>1. served' = served /\ topics' = topics /\ todo' = todo
      BY <2>1, <2>5 DEF Connect, TypeOK
    <3> QED
      BY <2>1, <2>2, <3>1 DEF Settling, IsLast
  <2>6. CASE Disconnect(c) \/ Respond(c) \/ WriteError(c)
    <3>1. served' = served /\ topics' = topics /\ todo' = todo
      BY <2>6 DEF Disconnect, Respond, WriteError
    <3> QED
      BY <2>1, <2>2, <3>1 DEF Settling, IsLast
  <2>7. ~PublishError(c)
    BY DEF PublishError
  <2> QED
    BY <2>3, <2>4, <2>5, <2>6, <2>7 DEF TaskStep
<1> QED
  BY <1>1, <1>2, <1>3 DEF SettleInv, ReportsSettle

\* A step that none of this sees.
LEMMA SettleSame ==
  ASSUME SettleInv, UNCHANGED <<open, topics, opens, todo, served>>
  PROVE  SettleInv'
<1>1. \A c \in Conns : \A t : Telling(c, t)' = Telling(c, t)
  BY DEF Telling, Reports
<1>2. \A c \in Conns : ReportUnderWay(c)'
  BY UnderWayKept DEF SettleInv
<1>3. Used' = Used
  BY DEF Used
<1>4. \A t : Settling(t) => Settling(t)'
  BY <1>1 DEF Settling, IsLast
<1> QED
  BY <1>2, <1>3, <1>4 DEF SettleInv, UsedCounted, ReportsSettle, NoneReplaced

\* When the tasks are at rest nothing is under way.
LEMMA Settled ==
  ASSUME TypeOK, SettleInv, NoneReplaced, \A c \in Conns : ~busy[c],
         NEW t \in ReportTopics
  PROVE  \/ topics[t] = None /\ \A c \in Conns : Telling(c, t) = {}
         \/ \E c \in Conns : \E i \in Telling(c, t) :
              IsLast(i, Telling(c, t)) /\ topics[t] = Told(served[c][i], t)
<1>1. \A c \in Conns : todo[c] = <<>>
  BY DEF TypeOK, OneAtATime
<1>2. Settling(t)
  BY DEF SettleInv, ReportsSettle
<1> QED
  BY <1>1, <1>2 DEF Settling
=============================================================================
