-------------------------------- MODULE Wire --------------------------------
(***************************************************************************)
(* The bytes of one packet and of its response: the request types, the     *)
(* payload parsers and build_time_response of src/dummycloud2/src/         *)
(* protocol.rs.  Module Framing has cut the packet out of the stream; what *)
(* the parsers find here is what the packets of module Session are made    *)
(* of.                                                                     *)
(*                                                                         *)
(* A parser first requires a length and then takes fields at fixed offsets *)
(* of the payload: an index or a slice behind the end panics and ends the  *)
(* task of the connection, a read_ function there returns an error.        *)
(* Numbers stand as their bytes, the most significant first; dividing them *)
(* by ten is left out.                                                     *)
(***************************************************************************)
EXTENDS Integers, Sequences, SequencesExt

CONSTANTS
  Requests,  \* the packets to look at, see RequestOK
  Clocks     \* the times of the system clock, as four bytes

HEADER_LEN == 11
FOOTER_LEN == 2
Byte       == 0..255

\* A request as parse_packet returns it; sent are the fields its sender put
\* into the payload, by name, as far as they are known.
RequestOK(r) ==
  /\ {r.unknown1, r.msg_type, r.msg_id_response, r.msg_id_request} \subseteq Byte
  /\ r.logger_serial \in Seq(Byte) /\ Len(r.logger_serial) = 4
  /\ r.payload \in Seq(Byte)

-----------------------------------------------------------------------------
(***************************************************************************)
(* Where the sender puts the fields: what the widths that precede a field  *)
(* in assets/deye_sun600.ksy add up to, and its own width.  The MAC address *)
(* is in the gap behind fw_ver there.                                      *)
(***************************************************************************)
Place(at, width, kind) == [at |-> at, width |-> width, kind |-> kind]

LoggerPlaces ==
  [fw_ver |-> Place(19, 40, "text"), mac  |-> Place(59, 6, "mac"),
   ip     |-> Place(65, 16, "text"), ver  |-> Place(89, 18, "text"),
   ssid   |-> Place(172, 30, "text")]

WifiPlaces ==
  [text_value |-> Place(15, 30, "padded"),
   signal_quality_percent |-> Place(45, 1, "percent")]

PvPlaces(n) ==
  [v |-> Place(81 + 4 * n, 2, "le"), i |-> Place(83 + 4 * n, 2, "le"),
   kwh_today |-> Place(134 + 2 * n, 2, "le"),
   kwh_total |-> Place(141 + 4 * n, 2, "be")]

DataPlaces ==
  [active_power_w |-> Place(59, 4, "le"), v  |-> Place(45, 2, "le"),
   kwh_today      |-> Place(33, 4, "le"), hz |-> Place(57, 2, "le"),
   kwh_total      |-> Place(37, 4, "le"),
   radiator_temp_celsius |-> Place(63, 2, "le"),
   mppt_count     |-> Place(131, 1, "le"),
   pv1_v |-> PvPlaces(1).v, pv1_i |-> PvPlaces(1).i,
   pv1_kwh_today |-> PvPlaces(1).kwh_today, pv1_kwh_total |-> PvPlaces(1).kwh_total,
   pv2_v |-> PvPlaces(2).v, pv2_i |-> PvPlaces(2).i,
   pv2_kwh_today |-> PvPlaces(2).kwh_today, pv2_kwh_total |-> PvPlaces(2).kwh_total,
   pv3_v |-> PvPlaces(3).v, pv3_i |-> PvPlaces(3).i,
   pv3_kwh_today |-> PvPlaces(3).kwh_today, pv3_kwh_total |-> PvPlaces(3).kwh_total,
   pv4_v |-> PvPlaces(4).v, pv4_i |-> PvPlaces(4).i,
   pv4_kwh_today |-> PvPlaces(4).kwh_today, pv4_kwh_total |-> PvPlaces(4).kwh_total]

Places(msg_type) ==
  CASE msg_type = 65 -> LoggerPlaces   \* 0x41
    [] msg_type = 66 -> DataPlaces     \* 0x42
    [] msg_type = 67 -> WifiPlaces     \* 0x43
    [] OTHER         -> <<>>

\* The bytes of value are at its place in buf.  A text has a zero byte behind
\* it, one that is padded also if it does not fill its place.
Written(place, value, buf) ==
  LET At(i) == buf[place.at + i]
      n     == Len(value)
  IN  /\ place.at + place.width <= Len(buf)
      /\ value \in Seq(Byte)
      /\ CASE place.kind \in {"text", "padded"} ->
                /\ \A i \in 1..n : value[i] # 0 /\ At(i) = value[i]
                /\ \/ n < place.width /\ At(n + 1) = 0
                   \/ n = place.width /\ place.kind = "padded"
           [] place.kind = "mac" ->
                /\ n = place.width /\ \A i \in 1..n : At(i) = value[i]
                /\ \A b \in {0, 255} : \E i \in 1..n : value[i] # b
           [] place.kind = "percent" ->
                n = 1 /\ value[1] <= 100 /\ At(1) = value[1]
           [] place.kind = "le" ->
                n = place.width /\ \A i \in 1..n : At(i) = value[n - i + 1]
           [] place.kind = "be" ->
                n = place.width /\ \A i \in 1..n : At(i) = value[i]

\* sent is what the sender put there.
SentOK(r) ==
  \A f \in DOMAIN r.sent :
    /\ f \in DOMAIN Places(r.msg_type)
    /\ Written(Places(r.msg_type)[f], r.sent[f], r.payload)

ASSUME WireAssumption ==
  /\ \A r \in Requests : RequestOK(r) /\ SentOK(r)
  /\ \A t \in Clocks : t \in Seq(Byte) /\ Len(t) = 4

-----------------------------------------------------------------------------
(***************************************************************************)
(* What each parser requires and where it finds its fields.  As in the     *)
(* source, a field is from its first offset up to before the second one.   *)
(***************************************************************************)
Field(from, to, kind) == [from |-> from, to |-> to, kind |-> kind]

LoggerFields ==
  [fw_ver |-> Field(19, 60, "text"), mac  |-> Field(59, 65, "mac"),
   ip     |-> Field(65, 82, "text"), ver  |-> Field(89, 130, "text"),
   ssid   |-> Field(172, 210, "text")]

\* Faulty: the totals are read in the byte order of everything else.
PvFieldsLittleEndian(v, i, today, total) ==
  [v |-> Field(v, v + 2, "le"), i |-> Field(i, i + 2, "le"),
   kwh_today |-> Field(today, today + 2, "le"),
   kwh_total |-> Field(total, total + 2, "le")]

\* parse_pv: the total is the one number in network byte order.
PvFields(v, i, today, total) ==
  [v |-> Field(v, v + 2, "le"), i |-> Field(i, i + 2, "le"),
   kwh_today |-> Field(today, today + 2, "le"),
   kwh_total |-> Field(total, total + 2, "be")]

Pv == <<PvFields(85, 87, 136, 145), PvFields(89, 91, 138, 149),
        PvFields(93, 95, 140, 153), PvFields(97, 99, 142, 157)>>

\* parse_microinverter_payload; the fields of the four PV inputs by number.
DataFields ==
  [active_power_w |-> Field(59, 63, "le"), v  |-> Field(45, 47, "le"),
   kwh_today      |-> Field(33, 37, "le"), hz |-> Field(57, 59, "le"),
   kwh_total      |-> Field(37, 41, "le"),
   radiator_temp_celsius |-> Field(63, 65, "le"),
   mppt_count     |-> Field(131, 132, "le"),
   pv1_v |-> Pv[1].v, pv1_i |-> Pv[1].i,
   pv1_kwh_today |-> Pv[1].kwh_today, pv1_kwh_total |-> Pv[1].kwh_total,
   pv2_v |-> Pv[2].v, pv2_i |-> Pv[2].i,
   pv2_kwh_today |-> Pv[2].kwh_today, pv2_kwh_total |-> Pv[2].kwh_total,
   pv3_v |-> Pv[3].v, pv3_i |-> Pv[3].i,
   pv3_kwh_today |-> Pv[3].kwh_today, pv3_kwh_total |-> Pv[3].kwh_total,
   pv4_v |-> Pv[4].v, pv4_i |-> Pv[4].i,
   pv4_kwh_today |-> Pv[4].kwh_today, pv4_kwh_total |-> Pv[4].kwh_total]

ReportFields ==
  [version |-> Field(0, 1, "le"), timestamp_offset_seconds |-> Field(1, 5, "le"),
   uptime_seconds |-> Field(5, 9, "le"),
   base_timestamp_seconds |-> Field(9, 13, "le"),
   unknown_status |-> Field(13, 16, "be")]

WifiFields ==
  [flags |-> Field(0, 1, "le"), timestamp_offset_seconds |-> Field(1, 5, "le"),
   uptime_seconds |-> Field(5, 9, "le"),
   base_timestamp_seconds |-> Field(9, 13, "le"),
   unknown_status |-> Field(13, 15, "be"), text_value |-> Field(15, 45, "text"),
   signal_quality_percent |-> Field(45, 46, "percent"),
   link_status |-> Field(46, 47, "le")]

Format(required, fields) == [required |-> required, fields |-> fields]

LoggerFormat == Format(210, LoggerFields)
DataFormat   == Format(251, DataFields)
ReportFormat == Format(16, ReportFields)

\* Faulty: the flag behind the signal is forgotten.
WifiFormatShort == Format(46, WifiFields)

WifiFormat == Format(47, WifiFields)

-----------------------------------------------------------------------------
\* buf[a..b] of the source.
Slice(buf, a, b) == SubSeq(buf, a + 1, b)

None == <<>>

\* ascii_until_null, where byte strings stand for texts.
AsciiUntilNull(s) ==
  LET nulls == {i \in 1..Len(s) : s[i] = 0}
  IN  IF nulls = {} THEN s
      ELSE SubSeq(s, 1, (CHOOSE i \in nulls : \A j \in nulls : i <= j) - 1)

\* format_mac_address.
MacAddress(s) ==
  IF \E b \in {0, 255} : \A i \in 1..Len(s) : s[i] = b THEN None ELSE s

Decode(kind, s) ==
  CASE kind = "text"    -> AsciiUntilNull(s)
    [] kind = "mac"     -> MacAddress(s)
    [] kind = "le"      -> Reverse(s)
    [] kind = "be"      -> s
    [] kind = "percent" -> IF s[1] <= 100 THEN s ELSE None

\* What a parser returns: the error of require_len, or its fields.  Outside
\* is a field behind the end, whether that panics or returns an error.
Result(tag, fields) == [tag |-> tag, fields |-> fields]
Error   == Result("error", None)
Outside == Result("outside", None)

Inside(fields, buf) == \A f \in DOMAIN fields : fields[f].to <= Len(buf)

\* require_len, and the fields one by one.
Parse(format, buf) ==
  IF Len(buf) < format.required THEN Error
  ELSE IF ~Inside(format.fields, buf) THEN Outside
  ELSE Result("ok", [f \in DOMAIN format.fields |->
         LET g == format.fields[f]
         IN  Decode(g.kind, Slice(buf, g.from, g.to))])

\* parse_data_payload: a payload of another schema has no data, and that of
\* a historic record has none but an mppt_count of zero.
ParseData(buf) ==
  CASE Len(buf) < 2                                  -> Error
    [] Len(buf) >= 2 /\ buf[2] # 8                   -> Result("unsupported", None)
    [] Len(buf) >= DataFormat.required /\ buf[2] = 8 /\ buf[1] >= 128
                                                     -> Result("historic", None)
    [] OTHER                                         -> Parse(DataFormat, buf)

\* RequestType::from_byte, and the parser that process_packet calls.
ParsePayload(r) ==
  CASE r.msg_type = 65 -> Parse(LoggerFormat, r.payload)   \* 0x41
    [] r.msg_type = 66 -> ParseData(r.payload)             \* 0x42
    [] r.msg_type = 67 -> Parse(WifiFormat, r.payload)     \* 0x43
    [] r.msg_type = 72 -> Parse(ReportFormat, r.payload)   \* 0x48
    [] OTHER           -> Result("none", None)  \* heartbeat 0x47 and unknown

-----------------------------------------------------------------------------
\* The sum of the bytes of msg from offset 1 up to before offset end.
SumTo(msg, end) ==
  LET sum[i \in 1..end] == IF i = 1 THEN 0 ELSE (sum[i - 1] + msg[i]) % 256
  IN  sum[end]

\* Faulty: the sum ends one byte early.
ChecksumShort(msg) == SumTo(msg, Len(msg) - 3)

\* checksum: of everything but the magic bytes and the checksum itself.
Checksum(msg) == SumTo(msg, Len(msg) - 2)

\* Faulty: the number after 255 is 256.
NextIdWide(id) == id + 1

NextId(id) == (id + 1) % 256            \* wrapping_add

ResponseType(t) == (t - 48 + 256) % 256 \* wrapping_sub(0x30)

\* build_time_response at the time clock.
BuildTimeResponse(r, clock) ==
  LET flag == IF r.payload = <<>> THEN 0 ELSE r.payload[1]
      head == <<165, 10, 0, r.unknown1, ResponseType(r.msg_type),
                NextId(r.msg_id_response), r.msg_id_request>> \o r.logger_serial
      body == <<flag, 1>> \o Reverse(clock) \o <<0, 0, 0, 0>>
      msg  == head \o body \o <<0, 0>>
  IN  head \o body \o <<Checksum(msg), 21>>

-----------------------------------------------------------------------------
VARIABLES
  request,   \* the packet
  parsed,    \* what the parser of its type made of the payload
  response,  \* the bytes of the response, empty before
  phase      \* "received", "parsed", "answered" or "dropped"

vars == <<request, parsed, response, phase>>

Init ==
  /\ request \in Requests
  /\ parsed = Result("none", None)
  /\ response = <<>>
  /\ phase = "received"

ParseStep ==
  /\ phase = "received"
  /\ parsed' = ParsePayload(request)
  /\ phase' = "parsed"
  /\ UNCHANGED <<request, response>>

\* The payload of a DATA packet does not parse: no response.
Drop ==
  /\ phase = "parsed"
  /\ request.msg_type = 66 /\ parsed = Error
  /\ phase' = "dropped"
  /\ UNCHANGED <<request, parsed, response>>

Respond ==
  /\ phase = "parsed"
  /\ ~(request.msg_type = 66 /\ parsed = Error)
  /\ parsed # Outside
  /\ \E clock \in Clocks : response' = BuildTimeResponse(request, clock)
  /\ phase' = "answered"
  /\ UNCHANGED <<request, parsed>>

Next == ParseStep \/ Drop \/ Respond

Spec == Init /\ [][Next]_vars

-----------------------------------------------------------------------------
(***************************************************************************)
(* Properties                                                              *)
(***************************************************************************)

\* No payload, of whatever length and content, makes a parser read behind
\* its end: what require_len requires covers every field (protocol.rs:166-223,
\* 291-355), so that no packet ends the task of its connection in a panic.
ReadsInside == parsed # Outside

\* Every field a sender put into the payload is read back, whatever stands in
\* the fields around it: offsets, widths and byte orders are those of the
\* format.  A text must leave room for a zero byte, or fill what is read.
FieldsAsSent ==
  parsed.tag = "ok" =>
    \A f \in DOMAIN request.sent : parsed.fields[f] = request.sent[f]

\* A receiver of the service's own frames, as parse_header and parse_footer
\* are, that checks the sum.
Accepts(msg) ==
  /\ Len(msg) >= HEADER_LEN + FOOTER_LEN
  /\ msg[1] = 165
  /\ HEADER_LEN + msg[2] + 256 * msg[3] + FOOTER_LEN = Len(msg)
  /\ msg[Len(msg)] = 21
  /\ msg[Len(msg) - 1] = Checksum(msg)

\* The response of every request, with every number wrapped around as it may
\* be, is a frame of the protocol, that names the request it answers
\* (protocol.rs:225-252).
ResponseIsFrame ==
  phase = "answered" =>
    /\ response \in Seq(Byte) /\ Accepts(response)
    /\ (response[5] + 48) % 256 = request.msg_type
    /\ response[7] = request.msg_id_request
    /\ Slice(response, 7, 11) = request.logger_serial

\* The checksum shows that a byte of the response was damaged, whichever it
\* is: the sum covers every byte that nothing else fixes (protocol.rs:254-258).
DamageShows ==
  phase = "answered" =>
    \A i \in 1..Len(response), d \in {1, 128, 255} :
      ~Accepts([response EXCEPT ![i] = (@ + d) % 256])
=============================================================================
