------------------------------- MODULE MCWire -------------------------------
(***************************************************************************)
(* Packets for TLC to run Wire on.  Their payloads are put together from   *)
(* the widths of assets/deye_sun600.ksy, the format as it was found out,   *)
(* and not from offsets; the MAC address is in the gap behind fw_ver       *)
(* there, and Readme.md has the last two bytes of a WIFI record.           *)
(***************************************************************************)
EXTENDS Wire

CONSTANTS
  Lengths,   \* the lengths of the payloads that are nothing but long
  Fillers    \* the bytes of the parts of a payload the format does not name

Part(name, width) == [name |-> name, width |-> width]
Gap(width)        == Part("", width)

HandshakeParts ==
  <<Gap(19), Part("fw_ver", 40), Part("mac", 6), Part("ip", 16), Gap(8),
    Part("ver", 18), Gap(65), Part("ssid", 30), Gap(8)>>

WifiParts ==
  <<Gap(15), Part("text_value", 30), Part("signal_quality_percent", 1), Gap(1)>>

DataParts ==
  <<Part("magic", 1), Part("schema", 1), Gap(5), Gap(2), Gap(8), Gap(2), Gap(2),
    Gap(10), Gap(2), Part("kwh_today", 4), Part("kwh_total", 4), Gap(4),
    Part("v", 2), Gap(4), Gap(2), Gap(4), Part("hz", 2),
    Part("active_power_w", 4), Part("radiator_temp_celsius", 2), Gap(20),
    Part("pv1_v", 2), Part("pv1_i", 2), Part("pv2_v", 2), Part("pv2_i", 2),
    Part("pv3_v", 2), Part("pv3_i", 2), Part("pv4_v", 2), Part("pv4_i", 2),
    Gap(24), Gap(4), Gap(2), Part("mppt_count", 1), Gap(1), Gap(3),
    Part("pv1_kwh_today", 2), Part("pv2_kwh_today", 2),
    Part("pv3_kwh_today", 2), Part("pv4_kwh_today", 2), Gap(1),
    Part("pv1_kwh_total", 2), Gap(2), Part("pv2_kwh_total", 2), Gap(2),
    Part("pv3_kwh_total", 2), Gap(2), Part("pv4_kwh_total", 2), Gap(64),
    Gap(4), Gap(8), Gap(10), Gap(6)>>

\* The numbers in network byte order (u2be of the format).
BigEndian == {"pv1_kwh_total", "pv2_kwh_total", "pv3_kwh_total", "pv4_kwh_total"}

\* The bytes of a part that holds value: texts are padded with zeros, numbers
\* have the least significant byte first unless they are big endian.
PartBytes(part, values, filler) ==
  IF part.name \notin DOMAIN values THEN [i \in 1..part.width |-> filler]
  ELSE LET value == values[part.name]
       IN  CASE part.name \in {"fw_ver", "ip", "ver", "ssid", "text_value"} ->
                  value \o [i \in 1..(part.width - Len(value)) |-> 0]
             [] part.name \in BigEndian \cup {"mac"} -> value
             [] OTHER -> Reverse(value)

PayloadOf(parts, values, filler) ==
  FlattenSeq([k \in 1..Len(parts) |-> PartBytes(parts[k], values, filler)])

RequestOf(type, payload, sent) ==
  [unknown1 |-> 0, msg_type |-> type, msg_id_response |-> 2,
   msg_id_request |-> 3, logger_serial |-> <<1, 2, 3, 4>>,
   payload |-> payload, sent |-> sent]

\* A text of n bytes; c tells one from another.
Text(n, c) == [i \in 1..n |-> c + i]

HandshakeRequests ==
  {RequestOf(65, PayloadOf(HandshakeParts, values, filler), values) :
     values \in [fw_ver : {Text(n, 40) : n \in {0, 1, 17, 39}},
                 mac    : {<<170, 0, 204, 0, 238, 255>>, <<0, 0, 0, 0, 0, 1>>},
                 ip     : {Text(n, 48) : n \in {0, 7, 15}},
                 ver    : {Text(n, 60) : n \in {0, 10, 17}},
                 ssid   : {Text(n, 96) : n \in {0, 1, 29}}],
     filler \in Fillers}

WifiRequests ==
  {RequestOf(67, PayloadOf(WifiParts, values, filler), values) :
     values \in [text_value : {Text(n, 96) : n \in 0..30},
                 signal_quality_percent : {<<n>> : n \in {0, 70, 100}}],
     filler \in Fillers}

\* A live record in which no two bytes are the same; shift moves them on.
DataValues(shift) ==
  LET parts == {k \in 1..Len(DataParts) : DataParts[k].name # ""}
      names == {DataParts[k].name : k \in parts} \ {"magic", "schema"}
      PartOf(name) == CHOOSE k \in parts : DataParts[k].name = name
  IN  [name \in names |->
         [i \in 1..DataParts[PartOf(name)].width |->
            (7 * PartOf(name) + 61 * i + shift) % 256]]

DataRequests ==
  {RequestOf(66,
     PayloadOf(DataParts,
               [n \in DOMAIN DataValues(shift) \cup {"magic", "schema"} |->
                  CASE n = "magic" -> <<1>> [] n = "schema" -> <<8>>
                    [] OTHER -> DataValues(shift)[n]], filler),
     DataValues(shift)) : shift \in 0..7, filler \in Fillers}

\* Payloads of every length, of each type, live, historic and of another
\* schema.
LongRequests ==
  {RequestOf(type, [i \in 1..n |-> IF i = 2 THEN schema ELSE first], None) :
     type \in {65, 66, 67, 71, 72}, n \in Lengths, first \in {2, 129},
     schema \in {8, 9}}

\* Every byte of the header at its ends, with a payload and without.
HeaderRequests ==
  [unknown1 : {0, 255}, msg_type : {0, 47, 48, 65, 66, 67, 71, 72, 255},
   msg_id_response : {0, 2, 254, 255}, msg_id_request : {0, 255},
   logger_serial : {<<0, 0, 0, 0>>, <<255, 255, 255, 255>>},
   payload : {<<>>, <<129, 9>>}, sent : {None}]

AllRequests ==
  HandshakeRequests \cup WifiRequests \cup DataRequests \cup LongRequests
    \cup HeaderRequests

MCLengths == 0..255

MCClocks == {<<0, 0, 0, 0>>, <<104, 1, 2, 255>>, <<255, 255, 255, 255>>}
=============================================================================
