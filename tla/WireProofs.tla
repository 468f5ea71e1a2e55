----------------------------- MODULE WireProofs -----------------------------
(***************************************************************************)
(* What holds of Wire for every set of packets and every clock: no parser  *)
(* reads behind the end of its payload, every field is read back as it was *)
(* sent, every response is a frame that names its request, and its         *)
(* checksum shows any one byte that was damaged.  Module MCWire looks at   *)
(* payloads of up to 255 bytes; here they are of any length and content.   *)
(*                                                                         *)
(* The sum of SumTo is a recursive function.  That there is one, and what  *)
(* it does when a byte changes, is proved by induction on its length.      *)
(***************************************************************************)
EXTENDS Wire, DataTheorems, TLAPS

\* A format whose length covers its fields has no field outside.
LEMMA ParseInside ==
  ASSUME NEW format, NEW buf \in Seq(Byte), format.required \in Nat,
         \A f \in DOMAIN format.fields : format.fields[f].to \in 0..format.required
  PROVE  Parse(format, buf) # Outside
<1>1. CASE Len(buf) < format.required
  BY <1>1 DEF Parse, Error, Outside, Result
<1>2. CASE ~(Len(buf) < format.required)
  <2>1. Len(buf) \in Nat
    OBVIOUS
  <2>2. Inside(format.fields, buf)
    BY <1>2, <2>1 DEF Inside
  <2> DEFINE ok == Result("ok", [f \in DOMAIN format.fields |->
                  LET g == format.fields[f]
                  IN  Decode(g.kind, Slice(buf, g.from, g.to))])
  <2>3. Parse(format, buf) = ok
    BY <1>2, <2>2 DEF Parse
  <2>4. ok # Outside
    BY DEF Outside, Result
  <2>5. QED
    BY <2>3, <2>4
<1>3. QED
  BY <1>1, <1>2

\* What parse_logger_payload requires covers its fields (protocol.rs:166-177).
LEMMA LoggerInside ==
  /\ LoggerFormat.required \in Nat
  /\ \A f \in DOMAIN LoggerFormat.fields :
       LoggerFormat.fields[f].to \in 0..LoggerFormat.required
BY DEF LoggerFormat, Format, LoggerFields, Field

\* The fields of a live record by name, and those of a PV input by its number.
LEMMA DataNames ==
  DOMAIN DataFields =
    {"active_power_w", "v", "kwh_today", "hz", "kwh_total",
     "radiator_temp_celsius", "mppt_count",
     "pv1_v", "pv1_i", "pv1_kwh_today", "pv1_kwh_total",
     "pv2_v", "pv2_i", "pv2_kwh_today", "pv2_kwh_total",
     "pv3_v", "pv3_i", "pv3_kwh_today", "pv3_kwh_total",
     "pv4_v", "pv4_i", "pv4_kwh_today", "pv4_kwh_total"}
BY DEF DataFields

LEMMA PvNames ==
  /\ DataFields["pv1_v"] = Pv[1].v /\ DataFields["pv1_i"] = Pv[1].i
  /\ DataFields["pv1_kwh_today"] = Pv[1].kwh_today
  /\ DataFields["pv1_kwh_total"] = Pv[1].kwh_total
  /\ DataFields["pv2_v"] = Pv[2].v /\ DataFields["pv2_i"] = Pv[2].i
  /\ DataFields["pv2_kwh_today"] = Pv[2].kwh_today
  /\ DataFields["pv2_kwh_total"] = Pv[2].kwh_total
  /\ DataFields["pv3_v"] = Pv[3].v /\ DataFields["pv3_i"] = Pv[3].i
  /\ DataFields["pv3_kwh_today"] = Pv[3].kwh_today
  /\ DataFields["pv3_kwh_total"] = Pv[3].kwh_total
  /\ DataFields["pv4_v"] = Pv[4].v /\ DataFields["pv4_i"] = Pv[4].i
  /\ DataFields["pv4_kwh_today"] = Pv[4].kwh_today
  /\ DataFields["pv4_kwh_total"] = Pv[4].kwh_total
BY DEF DataFields

\* What parse_microinverter_payload requires (protocol.rs:291-335).
LEMMA DataInside ==
  /\ DataFormat.required \in Nat
  /\ \A f \in DOMAIN DataFormat.fields :
       DataFormat.fields[f].to \in 0..DataFormat.required
<1> DEFINE Fits(field) == field.to \in 0..251
           Covered(f) == Fits(DataFields[f])
<1>1. /\ Covered("active_power_w") /\ Covered("v") /\ Covered("kwh_today")
      /\ Covered("hz") /\ Covered("kwh_total") /\ Covered("mppt_count")
      /\ Covered("radiator_temp_celsius")
  <2>1. /\ Fits(Field(59, 63, "le")) /\ Fits(Field(45, 47, "le"))
        /\ Fits(Field(33, 37, "le")) /\ Fits(Field(57, 59, "le"))
        /\ Fits(Field(37, 41, "le")) /\ Fits(Field(63, 65, "le"))
        /\ Fits(Field(131, 132, "le"))
    BY DEF Field
  <2> HIDE DEF Fits
  <2> QED
    BY <2>1 DEF DataFields
<1> DEFINE AllFit(fields) == /\ Fits(fields.v) /\ Fits(fields.i)
                             /\ Fits(fields.kwh_today) /\ Fits(fields.kwh_total)
<1>2. AllFit(Pv[1]) /\ AllFit(Pv[2]) /\ AllFit(Pv[3]) /\ AllFit(Pv[4])
  <2>1. AllFit(PvFields(85, 87, 136, 145)) /\ AllFit(PvFields(89, 91, 138, 149))
    BY DEF PvFields, Field
  <2>2. AllFit(PvFields(93, 95, 140, 153)) /\ AllFit(PvFields(97, 99, 142, 157))
    BY DEF PvFields, Field
  <2> HIDE DEF AllFit
  <2> QED
    BY <2>1, <2>2 DEF Pv
<1> HIDE DEF Fits
<1>3. /\ Covered("pv1_v") /\ Covered("pv1_i")
      /\ Covered("pv1_kwh_today") /\ Covered("pv1_kwh_total")
      /\ Covered("pv2_v") /\ Covered("pv2_i")
      /\ Covered("pv2_kwh_today") /\ Covered("pv2_kwh_total")
      /\ Covered("pv3_v") /\ Covered("pv3_i")
      /\ Covered("pv3_kwh_today") /\ Covered("pv3_kwh_total")
      /\ Covered("pv4_v") /\ Covered("pv4_i")
      /\ Covered("pv4_kwh_today") /\ Covered("pv4_kwh_total")
  BY <1>2, PvNames
<1> HIDE DEF Covered
<1>4. \A f \in DOMAIN DataFields : Covered(f)
  BY <1>1, <1>3, DataNames
<1> QED
  BY <1>4 DEF DataFormat, Format, Covered, Fits

\* What parse_report_payload requires (protocol.rs:188-200).
LEMMA ReportInside ==
  /\ ReportFormat.required \in Nat
  /\ \A f \in DOMAIN ReportFormat.fields :
       ReportFormat.fields[f].to \in 0..ReportFormat.required
BY DEF ReportFormat, Format, ReportFields, Field

\* What parse_wifi_payload requires (protocol.rs:202-223).
LEMMA WifiInside ==
  /\ WifiFormat.required \in Nat
  /\ \A f \in DOMAIN WifiFormat.fields :
       WifiFormat.fields[f].to \in 0..WifiFormat.required
BY DEF WifiFormat, Format, WifiFields, Field

\* The parser of no request type reads outside of the payload.
LEMMA PayloadInside ==
  ASSUME NEW r, RequestOK(r)
  PROVE  ParsePayload(r) # Outside
<1>1. r.payload \in Seq(Byte)
  BY DEF RequestOK
<1>2. /\ Parse(LoggerFormat, r.payload) # Outside
      /\ Parse(DataFormat, r.payload) # Outside
      /\ Parse(ReportFormat, r.payload) # Outside
      /\ Parse(WifiFormat, r.payload) # Outside
  BY <1>1, ParseInside, LoggerInside, DataInside, ReportInside, WifiInside
<1>3. \A tag : tag # "outside" => Result(tag, None) # Outside
  BY DEF Result, Outside
<1>4. ParseData(r.payload) # Outside
  BY <1>2, <1>3 DEF ParseData, Error
<1>5. QED
  BY <1>2, <1>3, <1>4 DEF ParsePayload

\* No packet makes a parser read behind the end of its payload, whatever its
\* length and its bytes (protocol.rs:166-223, 291-355).
THEOREM AlwaysInside == Spec => []ReadsInside
<1> DEFINE Inv == request \in Requests /\ ReadsInside
<1>1. Init => Inv
  BY DEF Init, ReadsInside, Outside, Result
<1>2. Inv /\ [Next]_vars => Inv'
  <2>1. SUFFICES ASSUME Inv, [Next]_vars PROVE Inv'
    OBVIOUS
  <2>2. CASE ParseStep
    <3>1. RequestOK(request)
      BY <2>1, WireAssumption
    <3>2. QED
      BY <2>1, <2>2, <3>1, PayloadInside DEF ParseStep, ReadsInside
  <2>3. CASE Drop \/ Respond
    BY <2>1, <2>3 DEF Drop, Respond, ReadsInside, Outside
  <2>4. CASE UNCHANGED vars
    BY <2>1, <2>4 DEF vars, ReadsInside, Outside
  <2>5. QED
    BY <2>1, <2>2, <2>3, <2>4 DEF Next
<1>3. Inv => ReadsInside
  OBVIOUS
<1>4. QED
  BY <1>1, <1>2, <1>3, PTL DEF Spec

-----------------------------------------------------------------------------
(***************************************************************************)
(* What a sender wrote is what is read                                     *)
(***************************************************************************)

\* What g reads is what stands at p.
Reads(g, p) ==
  /\ p.at \in Nat /\ p.width \in Nat /\ g.from = p.at /\ g.to \in Nat
  /\ p.at + p.width <= g.to
  /\ p.kind = "text" => g.kind = "text"
  /\ p.kind = "padded" => g.kind = "text" /\ g.to = p.at + p.width
  /\ p.kind \in {"mac", "le", "be", "percent"} =>
       g.kind = p.kind /\ g.to = p.at + p.width
  /\ p.kind \in {"text", "padded", "mac", "le", "be", "percent"}
  /\ p.kind = "percent" => p.width = 1

\* parse_logger_payload reads what a handshake has (protocol.rs:166-177).
LEMMA LoggerReads ==
  \A f \in DOMAIN LoggerPlaces :
    f \in DOMAIN LoggerFields /\ Reads(LoggerFields[f], LoggerPlaces[f])
BY DEF LoggerFields, LoggerPlaces, Field, Place, Reads

\* parse_wifi_payload reads what a WIFI record has (protocol.rs:202-223).
LEMMA WifiReads ==
  \A f \in DOMAIN WifiPlaces :
    f \in DOMAIN WifiFields /\ Reads(WifiFields[f], WifiPlaces[f])
BY DEF WifiFields, WifiPlaces, Field, Place, Reads

\* So does parse_pv, with the offsets it is called with (protocol.rs:312-317,
\* 337-355).
LEMMA PvReads ==
  \A n \in 1..4 :
    /\ Reads(Pv[n].v, PvPlaces(n).v) /\ Reads(Pv[n].i, PvPlaces(n).i)
    /\ Reads(Pv[n].kwh_today, PvPlaces(n).kwh_today)
    /\ Reads(Pv[n].kwh_total, PvPlaces(n).kwh_total)
<1> DEFINE Fits(fields, n) ==
      /\ Reads(fields.v, PvPlaces(n).v) /\ Reads(fields.i, PvPlaces(n).i)
      /\ Reads(fields.kwh_today, PvPlaces(n).kwh_today)
      /\ Reads(fields.kwh_total, PvPlaces(n).kwh_total)
<1>1. Fits(PvFields(85, 87, 136, 145), 1)
  BY DEF PvFields, PvPlaces, Field, Place, Reads
<1>2. Fits(PvFields(89, 91, 138, 149), 2)
  BY DEF PvFields, PvPlaces, Field, Place, Reads
<1>3. Fits(PvFields(93, 95, 140, 153), 3)
  BY DEF PvFields, PvPlaces, Field, Place, Reads
<1>4. Fits(PvFields(97, 99, 142, 157), 4)
  BY DEF PvFields, PvPlaces, Field, Place, Reads
<1>5. \A n \in 1..4 : Fits(Pv[n], n)
  <2> HIDE DEF Fits
  <2> QED
    BY <1>1, <1>2, <1>3, <1>4 DEF Pv
<1> QED
  BY <1>5

\* And parse_microinverter_payload altogether (protocol.rs:291-335).
LEMMA DataReads ==
  \A f \in DOMAIN DataPlaces :
    f \in DOMAIN DataFields /\ Reads(DataFields[f], DataPlaces[f])
<1>1. DOMAIN DataPlaces = DOMAIN DataFields
  BY DEF DataPlaces, DataFields
<1>2. /\ Reads(Field(59, 63, "le"), Place(59, 4, "le"))
      /\ Reads(Field(45, 47, "le"), Place(45, 2, "le"))
      /\ Reads(Field(33, 37, "le"), Place(33, 4, "le"))
      /\ Reads(Field(57, 59, "le"), Place(57, 2, "le"))
      /\ Reads(Field(37, 41, "le"), Place(37, 4, "le"))
      /\ Reads(Field(63, 65, "le"), Place(63, 2, "le"))
      /\ Reads(Field(131, 132, "le"), Place(131, 1, "le"))
  BY DEF Field, Place, Reads
<1>3. /\ Reads(DataFields["active_power_w"], DataPlaces["active_power_w"])
      /\ Reads(DataFields["v"], DataPlaces["v"])
      /\ Reads(DataFields["kwh_today"], DataPlaces["kwh_today"])
      /\ Reads(DataFields["hz"], DataPlaces["hz"])
      /\ Reads(DataFields["kwh_total"], DataPlaces["kwh_total"])
      /\ Reads(DataFields["radiator_temp_celsius"],
                DataPlaces["radiator_temp_celsius"])
      /\ Reads(DataFields["mppt_count"], DataPlaces["mppt_count"])
  BY <1>2 DEF DataFields, DataPlaces
<1>4. /\ Reads(DataFields["pv1_v"], DataPlaces["pv1_v"])
      /\ Reads(DataFields["pv1_i"], DataPlaces["pv1_i"])
      /\ Reads(DataFields["pv1_kwh_today"], DataPlaces["pv1_kwh_today"])
      /\ Reads(DataFields["pv1_kwh_total"], DataPlaces["pv1_kwh_total"])
  BY PvReads DEF DataFields, DataPlaces
<1>5. /\ Reads(DataFields["pv2_v"], DataPlaces["pv2_v"])
      /\ Reads(DataFields["pv2_i"], DataPlaces["pv2_i"])
      /\ Reads(DataFields["pv2_kwh_today"], DataPlaces["pv2_kwh_today"])
      /\ Reads(DataFields["pv2_kwh_total"], DataPlaces["pv2_kwh_total"])
  BY PvReads DEF DataFields, DataPlaces
<1>6. /\ Reads(DataFields["pv3_v"], DataPlaces["pv3_v"])
      /\ Reads(DataFields["pv3_i"], DataPlaces["pv3_i"])
      /\ Reads(DataFields["pv3_kwh_today"], DataPlaces["pv3_kwh_today"])
      /\ Reads(DataFields["pv3_kwh_total"], DataPlaces["pv3_kwh_total"])
  BY PvReads DEF DataFields, DataPlaces
<1>7. /\ Reads(DataFields["pv4_v"], DataPlaces["pv4_v"])
      /\ Reads(DataFields["pv4_i"], DataPlaces["pv4_i"])
      /\ Reads(DataFields["pv4_kwh_today"], DataPlaces["pv4_kwh_today"])
      /\ Reads(DataFields["pv4_kwh_total"], DataPlaces["pv4_kwh_total"])
  BY PvReads DEF DataFields, DataPlaces
<1>8. QED
  BY <1>1, <1>3, <1>4, <1>5, <1>6, <1>7, DataNames

\* Two byte strings of one length with the same bytes are the same.
LEMMA SameBytes ==
  ASSUME NEW s \in Seq(Byte), NEW t \in Seq(Byte), Len(s) = Len(t),
         \A i \in 1..Len(t) : s[i] = t[i]
  PROVE  s = t
OBVIOUS

\* The slice that a field is read from.
LEMMA SliceRead ==
  ASSUME NEW buf \in Seq(Byte), NEW from \in Nat, NEW to \in Nat, NEW n \in Nat,
         from + n = to, to <= Len(buf)
  PROVE  /\ Slice(buf, from, to) \in Seq(Byte)
         /\ Len(Slice(buf, from, to)) = n
         /\ \A i \in 1..n : Slice(buf, from, to)[i] = buf[from + i]
BY DEF Slice

\* Turned around twice, bytes are in their order again.
LEMMA ReverseRead ==
  ASSUME NEW s \in Seq(Byte), NEW v \in Seq(Byte), Len(s) = Len(v),
         \A i \in 1..Len(v) : s[i] = v[Len(v) - i + 1]
  PROVE  Reverse(s) = v
<1>1. Reverse(s) \in Seq(Byte) /\ Len(Reverse(s)) = Len(s)
  BY DEF Reverse
<1>2. ASSUME NEW i \in 1..Len(v) PROVE Reverse(s)[i] = v[i]
  <2>1. Reverse(s)[i] = s[Len(v) - i + 1]
    BY DEF Reverse
  <2>2. PICK k \in 1..Len(v) : k = Len(v) - i + 1
    OBVIOUS
  <2>3. s[k] = v[Len(v) - k + 1] /\ Len(v) - k + 1 = i
    BY <2>2
  <2> QED
    BY <2>1, <2>2, <2>3
<1> QED
  BY <1>1, <1>2, SameBytes

\* A text ends before the first zero byte.
LEMMA TextRead ==
  ASSUME NEW s \in Seq(Byte), NEW v \in Seq(Byte), Len(v) <= Len(s),
         \A i \in 1..Len(v) : v[i] # 0 /\ s[i] = v[i],
         Len(v) < Len(s) => s[Len(v) + 1] = 0
  PROVE  AsciiUntilNull(s) = v
<1> DEFINE nulls == {i \in 1..Len(s) : s[i] = 0}
           first == CHOOSE i \in nulls : \A j \in nulls : i <= j
<1>1. CASE Len(v) = Len(s)
  <2>1. nulls = {}
    BY <1>1
  <2>2. s = v
    BY <1>1, SameBytes
  <2> QED
    BY <2>1, <2>2 DEF AsciiUntilNull
<1>2. CASE Len(v) < Len(s)
  <2>1. PICK n \in Nat : n = Len(v)
    OBVIOUS
  <2>2. n + 1 \in nulls
    BY <1>2, <2>1
  <2>3. ASSUME NEW j \in nulls PROVE n + 1 <= j
    BY <2>1
  <2>4. \E i \in nulls : \A j \in nulls : i <= j
    BY <2>2, <2>3
  <2>5. PICK z \in nulls : z = first /\ \A j \in nulls : z <= j
    BY <2>4
  <2>6. z = n + 1
    BY <2>2, <2>3, <2>5
  <2>7. AsciiUntilNull(s) = SubSeq(s, 1, z - 1)
    BY <2>2, <2>5 DEF AsciiUntilNull
  <2>8. AsciiUntilNull(s) = SubSeq(s, 1, n)
    <3>1. z - 1 = n
      BY <2>6
    <3> QED
      BY <2>7, <3>1
  <2>9. SubSeq(s, 1, n) \in Seq(Byte) /\ Len(SubSeq(s, 1, n)) = n
        /\ \A i \in 1..n : SubSeq(s, 1, n)[i] = s[i]
    <3>1. n <= Len(s)
      BY <1>2, <2>1
    <3> QED
      BY <3>1
  <2>10. PICK w : w = SubSeq(s, 1, n)
    OBVIOUS
  <2>11. w \in Seq(Byte) /\ Len(w) = Len(v) /\ \A i \in 1..Len(v) : w[i] = v[i]
    BY <2>1, <2>9, <2>10
  <2>12. w = v
    BY <2>11, SameBytes
  <2> QED
    BY <2>8, <2>10, <2>12
<1> QED
  BY <1>1, <1>2

\* A field that reads what stands at its place is decoded to what was written.
LEMMA FieldRead ==
  ASSUME NEW buf \in Seq(Byte), NEW g, NEW p, NEW v, Reads(g, p),
         Written(p, v, buf), g.to <= Len(buf)
  PROVE  Decode(g.kind, Slice(buf, g.from, g.to)) = v
<1>1. PICK at \in Nat, width \in Nat, to \in Nat, m \in Nat :
        /\ at = p.at /\ width = p.width /\ to = g.to /\ at = g.from
        /\ at + m = to /\ width <= m /\ to <= Len(buf)
  <2>1. /\ p.at \in Nat /\ p.width \in Nat /\ g.to \in Nat
        /\ p.at + p.width <= g.to /\ p.at = g.from
    BY DEF Reads
  <2>2. g.to - p.at \in Nat
    BY <2>1
  <2> QED
    BY <2>1, <2>2
<1>2. PICK s : s = Slice(buf, at, to)
  OBVIOUS
<1>3. s \in Seq(Byte) /\ Len(s) = m /\ \A i \in 1..m : s[i] = buf[at + i]
  <2>1. at + m = to /\ to <= Len(buf)
    BY <1>1
  <2>2. /\ Slice(buf, at, to) \in Seq(Byte)
        /\ Len(Slice(buf, at, to)) = m
        /\ \A i \in 1..m : Slice(buf, at, to)[i] = buf[at + i]
    BY <2>1, SliceRead
  <2> QED
    BY <1>2, <2>2
<1>4. PICK n \in Nat : v \in Seq(Byte) /\ n = Len(v)
  BY DEF Written
<1>5. CASE p.kind \in {"text", "padded"}
  <2>1. /\ \A i \in 1..n : v[i] # 0 /\ buf[at + i] = v[i]
        /\ \/ n < width /\ buf[at + (n + 1)] = 0
           \/ n = width /\ p.kind = "padded"
    BY <1>1, <1>4, <1>5 DEF Written
  <2>2. g.kind = "text" /\ (p.kind = "padded" => m = width)
    BY <1>1, <1>5 DEF Reads
  <2>3. /\ Len(v) <= Len(s)
        /\ \A i \in 1..Len(v) : v[i] # 0 /\ s[i] = v[i]
        /\ Len(v) < Len(s) => s[Len(v) + 1] = 0
    <3>1. n <= width
      BY <2>1
    <3>2. n <= m
      BY <1>1, <3>1
    <3>3. \A i \in 1..n : v[i] # 0 /\ s[i] = v[i]
      BY <1>3, <2>1, <3>2
    <3>4. ASSUME n < m PROVE s[n + 1] = 0
      <4>1. buf[at + (n + 1)] = 0
        BY <1>1, <2>1, <2>2, <3>4
      <4>2. PICK k \in 1..m : k = n + 1
        BY <3>4
      <4> QED
        BY <1>3, <4>1, <4>2
    <3> QED
      BY <1>3, <1>4, <3>2, <3>3, <3>4
  <2>4. AsciiUntilNull(s) = v
    BY <1>3, <1>4, <2>3, TextRead
  <2> QED
    BY <1>1, <1>2, <2>2, <2>4 DEF Decode
<1>6. CASE p.kind \in {"mac", "be", "percent"}
  <2>1. n = width /\ \A i \in 1..n : buf[at + i] = v[i]
    <3>1. CASE p.kind = "mac"
      BY <1>1, <1>4, <3>1 DEF Written
    <3>2. CASE p.kind = "be"
      BY <1>1, <1>4, <3>2 DEF Written
    <3>3. CASE p.kind = "percent"
      <4>1. n = 1 /\ buf[at + 1] = v[1]
        BY <1>1, <1>4, <3>3 DEF Written
      <4>2. width = 1
        BY <1>1, <3>3 DEF Reads
      <4> QED
        BY <4>1, <4>2
    <3> QED
      BY <1>6, <3>1, <3>2, <3>3
  <2>2. g.kind = p.kind /\ m = width
    BY <1>1, <1>6 DEF Reads
  <2>3. s = v
    BY <1>1, <1>3, <1>4, <2>1, <2>2, SameBytes
  <2>4. CASE p.kind = "mac"
    <3>1. \A b \in {0, 255} : \E i \in 1..n : v[i] # b
      BY <1>4, <2>4 DEF Written
    <3>2. MacAddress(v) = v
      BY <1>4, <3>1 DEF MacAddress
    <3> QED
      BY <1>1, <1>2, <2>2, <2>3, <2>4, <3>2 DEF Decode
  <2>5. CASE p.kind = "be"
    BY <1>1, <1>2, <2>2, <2>3, <2>5 DEF Decode
  <2>6. CASE p.kind = "percent"
    <3>1. v[1] <= 100
      BY <2>6 DEF Written
    <3> QED
      BY <1>1, <1>2, <2>2, <2>3, <2>6, <3>1 DEF Decode
  <2> QED
    BY <1>6, <2>4, <2>5, <2>6
<1>7. CASE p.kind = "le"
  <2>1. n = width /\ \A i \in 1..n : buf[at + i] = v[n - i + 1]
    BY <1>1, <1>4, <1>7 DEF Written
  <2>2. g.kind = "le" /\ m = width
    BY <1>1, <1>7 DEF Reads
  <2>3. Len(s) = Len(v) /\ \A i \in 1..Len(v) : s[i] = v[Len(v) - i + 1]
    BY <1>1, <1>3, <1>4, <2>1, <2>2
  <2>4. Reverse(s) = v
    BY <1>3, <1>4, <2>3, ReverseRead
  <2> QED
    BY <1>1, <1>2, <2>2, <2>4 DEF Decode
<1> QED
  BY <1>5, <1>6, <1>7 DEF Reads

\* What a format finds in a payload, if its fields read what the sender's
\* places have.
LEMMA FormatRead ==
  ASSUME NEW buf \in Seq(Byte), NEW format, NEW places, NEW sent,
         \A f \in DOMAIN places :
           f \in DOMAIN format.fields /\ Reads(format.fields[f], places[f]),
         \A f \in DOMAIN sent :
           f \in DOMAIN places /\ Written(places[f], sent[f], buf),
         Parse(format, buf).tag = "ok"
  PROVE  \A f \in DOMAIN sent : Parse(format, buf).fields[f] = sent[f]
<1> DEFINE Read(f) == LET g == format.fields[f]
                      IN  Decode(g.kind, Slice(buf, g.from, g.to))
           read == [f \in DOMAIN format.fields |-> Read(f)]
<1>1. Inside(format.fields, buf) /\ Parse(format, buf) = Result("ok", read)
  BY DEF Parse, Error, Outside, Result
<1>2. ASSUME NEW f \in DOMAIN sent PROVE Parse(format, buf).fields[f] = sent[f]
  <2>1. /\ f \in DOMAIN format.fields
        /\ Reads(format.fields[f], places[f])
        /\ Written(places[f], sent[f], buf)
    OBVIOUS
  <2>2. format.fields[f].to <= Len(buf)
    BY <1>1, <2>1 DEF Inside
  <2>3. Read(f) = sent[f]
    BY <2>1, <2>2, FieldRead
  <2>4. Parse(format, buf).fields = read
    BY <1>1 DEF Result
  <2> QED
    BY <2>1, <2>3, <2>4
<1> QED
  BY <1>2

\* A payload that parses is read as it was sent.
LEMMA PayloadRead ==
  ASSUME NEW r, RequestOK(r), SentOK(r), ParsePayload(r).tag = "ok"
  PROVE  \A f \in DOMAIN r.sent : ParsePayload(r).fields[f] = r.sent[f]
<1>1. r.payload \in Seq(Byte)
  BY DEF RequestOK
<1>2. \A f \in DOMAIN r.sent :
        /\ f \in DOMAIN Places(r.msg_type)
        /\ Written(Places(r.msg_type)[f], r.sent[f], r.payload)
  BY DEF SentOK
<1>3. CASE r.msg_type = 65
  <2>1. /\ ParsePayload(r) = Parse(LoggerFormat, r.payload)
        /\ Places(r.msg_type) = LoggerPlaces
    BY <1>3 DEF ParsePayload, Places
  <2>2. LoggerFormat.fields = LoggerFields
    BY DEF LoggerFormat, Format
  <2> QED
    BY <1>1, <1>2, <2>1, <2>2, LoggerReads, FormatRead
<1>4. CASE r.msg_type = 66
  <2>1. ParsePayload(r) = ParseData(r.payload) /\ Places(r.msg_type) = DataPlaces
    BY <1>4 DEF ParsePayload, Places
  <2>2. ParseData(r.payload) = Parse(DataFormat, r.payload)
    BY <2>1 DEF ParseData, Error, Result
  <2>3. DataFormat.fields = DataFields
    BY DEF DataFormat, Format
  <2> QED
    BY <1>1, <1>2, <2>1, <2>2, <2>3, DataReads, FormatRead
<1>5. CASE r.msg_type = 67
  <2>1. /\ ParsePayload(r) = Parse(WifiFormat, r.payload)
        /\ Places(r.msg_type) = WifiPlaces
    BY <1>5 DEF ParsePayload, Places
  <2>2. WifiFormat.fields = WifiFields
    BY DEF WifiFormat, Format
  <2> QED
    BY <1>1, <1>2, <2>1, <2>2, WifiReads, FormatRead
<1>6. CASE r.msg_type \notin {65, 66, 67}
  <2>1. Places(r.msg_type) = <<>>
    BY <1>6 DEF Places
  <2> QED
    BY <1>2, <2>1
<1> QED
  BY <1>3, <1>4, <1>5, <1>6

\* Whatever bytes are around them and whatever their values, the fields that a
\* sender put at the places of the format are those the parser finds: no offset,
\* width or byte order is another (protocol.rs:166-223, 291-355).
THEOREM FieldsCorrect == Spec => []FieldsAsSent
<1> DEFINE Inv == /\ request \in Requests
                  /\ parsed \in {Result("none", None), ParsePayload(request)}
<1>1. Init => Inv
  BY DEF Init
<1>2. Inv /\ [Next]_vars => Inv'
  BY DEF Next, ParseStep, Drop, Respond, vars
<1>3. Inv => FieldsAsSent
  <2>1. SUFFICES ASSUME Inv, parsed.tag = "ok" PROVE FieldsAsSent
    BY DEF FieldsAsSent
  <2>2. parsed = ParsePayload(request)
    BY <2>1 DEF Result
  <2>3. RequestOK(request) /\ SentOK(request)
    BY <2>1, WireAssumption
  <2> QED
    BY <2>1, <2>2, <2>3, PayloadRead DEF FieldsAsSent
<1> QED
  BY <1>1, <1>2, <1>3, PTL DEF Spec

-----------------------------------------------------------------------------
(***************************************************************************)
(* The checksum                                                            *)
(***************************************************************************)

\* s is the function that SumTo chooses.
IsSum(s, msg, end) ==
  s = [i \in 1..end |-> IF i = 1 THEN 0 ELSE (s[i - 1] + msg[i]) % 256]

\* There is a sum of any number of bytes.
LEMMA SumExists == \A msg : \A end \in Nat : \E s : IsSum(s, msg, end)
<1>1. SUFFICES ASSUME NEW msg PROVE \A end \in Nat : \E s : IsSum(s, msg, end)
  OBVIOUS
<1> DEFINE T == {n \in Nat : \E s : IsSum(s, msg, n)}
<1>2. 0 \in T
  <2>1. IsSum([i \in 1..0 |-> 0], msg, 0)
    BY DEF IsSum
  <2>2. QED
    BY <2>1
<1>3. ASSUME NEW n \in Nat, n \in T PROVE n + 1 \in T
  <2>1. PICK s : IsSum(s, msg, n)
    BY <1>3
  <2> DEFINE t == [i \in 1..(n + 1) |-> IF i <= n THEN s[i]
                     ELSE IF i = 1 THEN 0 ELSE (s[i - 1] + msg[i]) % 256]
  <2>2. ASSUME NEW i \in 1..n
        PROVE  s[i] = IF i = 1 THEN 0 ELSE (s[i - 1] + msg[i]) % 256
    BY <2>1 DEF IsSum
  <2>3. ASSUME NEW i \in 1..n PROVE t[i] = s[i]
    OBVIOUS
  <2>4. ASSUME NEW i \in 1..(n + 1)
        PROVE  t[i] = IF i = 1 THEN 0 ELSE (t[i - 1] + msg[i]) % 256
    <3>1. CASE i = 1
      <4>1. CASE n = 0
        BY <3>1, <4>1
      <4>2. CASE n # 0
        BY <3>1, <4>2, <2>2, <2>3
      <4>3. QED
        BY <4>1, <4>2
    <3>2. CASE i # 1
      <4>1. i - 1 \in 1..n
        BY <3>2
      <4>2. t[i - 1] = s[i - 1]
        BY <4>1, <2>3
      <4>3. t[i] = (s[i - 1] + msg[i]) % 256
        <5>1. CASE i <= n
          <6>1. i \in 1..n
            BY <5>1
          <6>2. QED
            BY <3>2, <6>1, <2>2, <2>3
        <5>2. CASE ~ (i <= n)
          BY <3>2, <5>2
        <5>3. QED
          BY <5>1, <5>2
      <4>4. QED
        BY <3>2, <4>2, <4>3
    <3>3. QED
      BY <3>1, <3>2
  <2>5. t = [i \in 1..(n + 1) |-> t[i]]
    OBVIOUS
  <2> HIDE DEF t
  <2> DEFINE e == [i \in 1..(n + 1) |->
                     IF i = 1 THEN 0 ELSE (t[i - 1] + msg[i]) % 256]
  <2>6. t = e
    <3>1. ASSUME NEW i \in 1..(n + 1) PROVE t[i] = e[i]
      BY <2>4
    <3>2. e = [i \in 1..(n + 1) |-> e[i]]
      OBVIOUS
    <3> HIDE DEF e
    <3>3. QED
      BY <2>5, <3>1, <3>2
  <2>7. IsSum(t, msg, n + 1)
    BY <2>6 DEF IsSum
  <2>8. QED
    BY <2>7
<1>4. Nat \subseteq T
  BY <1>2, <1>3, SetInduction
<1>5. QED
  BY <1>4

\* What SumTo returns is the last value of a sum.
LEMMA SumToIsSum ==
  ASSUME NEW msg, NEW end \in Nat
  PROVE  \E s : IsSum(s, msg, end) /\ SumTo(msg, end) = s[end]
<1> DEFINE s == CHOOSE x : IsSum(x, msg, end)
<1>1. IsSum(s, msg, end)
  BY SumExists
<1>2. SumTo(msg, end) = s[end]
  BY Zenon DEF SumTo, IsSum
<1>3. QED
  BY <1>1, <1>2

\* The steps of a sum.
LEMMA SumSteps ==
  ASSUME NEW msg, NEW end \in Nat, NEW s, IsSum(s, msg, end),
         \A i \in 1..end : msg[i] \in Int
  PROVE  /\ \A i \in 1..end : s[i] \in 0..255
         /\ 1 <= end => s[1] = 0
         /\ \A i \in 1..end : i # 1 => s[i] = (s[i - 1] + msg[i]) % 256
<1> DEFINE T == {n \in Nat : n \in 1..end => s[n] \in 0..255}
<1>1. ASSUME NEW i \in 1..end
      PROVE  s[i] = IF i = 1 THEN 0 ELSE (s[i - 1] + msg[i]) % 256
  BY DEF IsSum
<1>2. 0 \in T
  OBVIOUS
<1>3. ASSUME NEW n \in Nat, n \in T PROVE n + 1 \in T
  <2>1. CASE n + 1 \in 1..end /\ n # 0
    <3>1. s[n + 1] = (s[n] + msg[n + 1]) % 256
      BY <1>1, <2>1
    <3>2. s[n] \in Int /\ msg[n + 1] \in Int
      BY <1>3, <2>1
    <3>3. (s[n] + msg[n + 1]) % 256 \in 0..255
      BY <3>2
    <3>4. QED
      BY <3>1, <3>3
  <2>2. CASE n = 0
    BY <1>1, <2>2
  <2>3. QED
    BY <2>1, <2>2
<1>4. Nat \subseteq T
  BY <1>2, <1>3, SetInduction
<1>5. ASSUME NEW i \in 1..end PROVE s[i] \in 0..255
  BY <1>4
<1>6. 1 <= end => s[1] = 0
  BY <1>1
<1>7. ASSUME NEW i \in 1..end, i # 1 PROVE s[i] = (s[i - 1] + msg[i]) % 256
  BY <1>1, <1>7
<1>8. QED
  BY <1>5, <1>6, <1>7

\* Sums of bytes may be cut down to a byte in any order.
LEMMA ModSum ==
  ASSUME NEW a \in Int, NEW b \in Int
  PROVE  ((a % 256) + b) % 256 = (a + b) % 256
<1>1. \E q \in Int : a = 256 * q + (a % 256)
  OBVIOUS
<1>2. PICK q \in Int : a = 256 * q + (a % 256)
  BY <1>1
<1>3. a % 256 \in Int
  OBVIOUS
<1> DEFINE m == a % 256
<1>4. m \in Int /\ a = 256 * q + m
  BY <1>2, <1>3
<1> HIDE DEF m
<1>5. (256 * q + m + b) % 256 = (m + b) % 256
  BY <1>4
<1>6. QED
  BY <1>4, <1>5 DEF m

\* So they may be added in any order.
LEMMA ModSwap ==
  ASSUME NEW a \in Int, NEW b \in Int, NEW c \in Int
  PROVE  (((a + b) % 256) + c) % 256 = (((a + c) % 256) + b) % 256
<1>1. (((a + b) % 256) + c) % 256 = (a + b + c) % 256
  BY ModSum
<1>2. (((a + c) % 256) + b) % 256 = (a + c + b) % 256
  BY ModSum
<1>3. a + b + c = a + c + b
  OBVIOUS
<1>4. QED
  BY <1>1, <1>2, <1>3

\* dam is msg with the byte at place j raised by d, as far as up to end.
IsRaised(dam, msg, end, j, d) ==
  /\ j \in 2..(end + 1) /\ d \in 0..255
  /\ \A i \in 1..end : msg[i] \in Int /\ dam[i] \in Int
  /\ \A i \in 2..end : i # j => dam[i] = msg[i]
  /\ j <= end => dam[j] = (msg[j] + d) % 256

\* It raises every sum that covers it by as much, and no other.
LEMMA SumDamaged ==
  ASSUME NEW msg, NEW dam, NEW end \in Nat \ {0}, NEW j, NEW d,
         IsRaised(dam, msg, end, j, d)
  PROVE  /\ j <= end => SumTo(dam, end) = (SumTo(msg, end) + d) % 256
         /\ j = end + 1 => SumTo(dam, end) = SumTo(msg, end)
<1>0. /\ end \in Nat /\ 1 <= end /\ j \in 2..(end + 1) /\ j \in Int
      /\ d \in 0..255 /\ d \in Int
      /\ \A i \in 1..end : msg[i] \in Int /\ dam[i] \in Int
      /\ \A i \in 2..end : i # j => dam[i] = msg[i]
      /\ j <= end => dam[j] = (msg[j] + d) % 256
  BY DEF IsRaised
<1>1. PICK s : IsSum(s, msg, end) /\ SumTo(msg, end) = s[end]
  BY <1>0, SumToIsSum
<1>2. PICK t : IsSum(t, dam, end) /\ SumTo(dam, end) = t[end]
  BY <1>0, SumToIsSum
<1>3. /\ \A i \in 1..end : s[i] \in 0..255
      /\ s[1] = 0
      /\ \A i \in 1..end : i # 1 => s[i] = (s[i - 1] + msg[i]) % 256
  BY <1>0, <1>1, SumSteps
<1>4. /\ \A i \in 1..end : t[i] \in 0..255
      /\ t[1] = 0
      /\ \A i \in 1..end : i # 1 => t[i] = (t[i - 1] + dam[i]) % 256
  BY <1>0, <1>2, SumSteps
<1> DEFINE Raised(n) == IF j <= n THEN (s[n] + d) % 256 ELSE s[n]
<1> DEFINE T == {n \in Nat : n \in 1..end => t[n] = Raised(n)}
<1>5. 0 \in T
  OBVIOUS
<1>6. ASSUME NEW n \in Nat, n \in T PROVE n + 1 \in T
  <2>1. CASE n + 1 \in 1..end /\ n # 0
    <3>1. /\ n \in 1..end /\ n + 1 \in 2..end
          /\ s[n] \in 0..255 /\ t[n] \in 0..255 /\ s[n] \in Int
          /\ msg[n + 1] \in Int /\ dam[n + 1] \in Int
          /\ s[n + 1] \in 0..255
      BY <1>0, <1>3, <1>4, <2>1, SMTT(30)
    <3>2. /\ s[n + 1] = (s[n] + msg[n + 1]) % 256
          /\ t[n + 1] = (t[n] + dam[n + 1]) % 256
      BY <1>3, <1>4, <2>1
    <3>3. t[n] = Raised(n)
      BY <1>6, <3>1
    <3>4. CASE j <= n
      <4>1. dam[n + 1] = msg[n + 1] /\ t[n] = (s[n] + d) % 256 /\ j <= n + 1
        BY <1>0, <3>1, <3>3, <3>4
      <4>2. t[n + 1] = (((s[n] + d) % 256) + msg[n + 1]) % 256
        BY <3>2, <4>1
      <4>3. @ = (((s[n] + msg[n + 1]) % 256) + d) % 256
        BY <1>0, <3>1, ModSwap
      <4>4. @ = (s[n + 1] + d) % 256
        BY <3>2
      <4>5. QED
        BY <4>1, <4>2, <4>3, <4>4
    <3>5. CASE j = n + 1
      <4>1. dam[n + 1] = (msg[n + 1] + d) % 256 /\ t[n] = s[n] /\ j <= n + 1
        BY <1>0, <3>1, <3>3, <3>5
      <4>2. t[n + 1] = (((msg[n + 1] + d) % 256) + s[n]) % 256
        BY <3>1, <3>2, <4>1
      <4>3. @ = (((msg[n + 1] + s[n]) % 256) + d) % 256
        BY <1>0, <3>1, ModSwap
      <4>4. @ = (s[n + 1] + d) % 256
        BY <3>1, <3>2
      <4>5. QED
        BY <4>1, <4>2, <4>3, <4>4
    <3>6. CASE j > n + 1
      <4>1. dam[n + 1] = msg[n + 1] /\ t[n] = s[n] /\ ~ (j <= n + 1)
        BY <1>0, <3>1, <3>3, <3>6
      <4>2. QED
        BY <3>2, <4>1
    <3>7. QED
      BY <1>0, <3>4, <3>5, <3>6
  <2>2. CASE n = 0
    BY <1>0, <1>3, <1>4, <2>2
  <2>3. QED
    BY <2>1, <2>2
<1>7. Nat \subseteq T
  BY <1>5, <1>6, SetInduction
<1>8. t[end] = Raised(end)
  BY <1>0, <1>7
<1>9. QED
  BY <1>1, <1>2, <1>8

\* Messages with the same bytes up to end have the same sum.
LEMMA SumSame ==
  ASSUME NEW msg, NEW dam, NEW end \in Nat \ {0},
         \A i \in 1..end : msg[i] \in Int /\ dam[i] \in Int,
         \A i \in 1..end : dam[i] = msg[i]
  PROVE  SumTo(dam, end) = SumTo(msg, end)
<1>1. IsRaised(dam, msg, end, end + 1, 0)
  BY DEF IsRaised
<1>2. QED
  BY <1>1, SumDamaged

\* A sum is a byte.
LEMMA SumToByte ==
  ASSUME NEW msg, NEW end \in Nat \ {0}, \A i \in 1..end : msg[i] \in Int
  PROVE  SumTo(msg, end) \in 0..255
<1>1. PICK s : IsSum(s, msg, end) /\ SumTo(msg, end) = s[end]
  BY SumToIsSum
<1>2. \A i \in 1..end : s[i] \in 0..255
  BY <1>1, SumSteps
<1>3. QED
  BY <1>1, <1>2

-----------------------------------------------------------------------------
(***************************************************************************)
(* The response                                                            *)
(***************************************************************************)

\* The parts build_time_response puts together.
FlagOf(r) == IF r.payload = <<>> THEN 0 ELSE r.payload[1]

HeadOf(r) == <<165, 10, 0, r.unknown1, ResponseType(r.msg_type),
               NextId(r.msg_id_response), r.msg_id_request>> \o r.logger_serial

BodyOf(r, clock) == <<FlagOf(r), 1>> \o Reverse(clock) \o <<0, 0, 0, 0>>

\* What a byte is.
LEMMA ByteIs == \A b \in Byte : b \in Int /\ 0 <= b /\ b <= 255
BY DEF Byte

\* What is cut down to a byte is one.
LEMMA ModByte == ASSUME NEW n \in Int PROVE n % 256 \in Byte
BY DEF Byte

\* A message of n bytes.
Message(s, n) == s \in Seq(Byte) /\ Len(s) = n

\* The bytes of a message are numbers.
LEMMA MessageBytes ==
  ASSUME NEW s, NEW n \in Nat, Message(s, n)
  PROVE  \A i \in 1..n : s[i] \in Byte /\ s[i] \in Int
<1>1. ASSUME NEW i \in 1..n PROVE s[i] \in Byte
  BY DEF Message
<1>2. QED
  BY <1>1, ByteIs

\* w is a message of m bytes, and one of n behind it.
IsJoin(w, s, t, m, n) ==
  /\ Message(w, m + n)
  /\ \A i \in 1..m : w[i] = s[i]
  /\ \A i \in (m + 1)..(m + n) : w[i] = t[i - m]

LEMMA MessageJoined ==
  ASSUME NEW s, NEW t, NEW m \in Nat, NEW n \in Nat, Message(s, m), Message(t, n)
  PROVE  IsJoin(s \o t, s, t, m, n)
<1>1. s \in Seq(Byte) /\ t \in Seq(Byte) /\ Len(s) = m /\ Len(t) = n
  BY DEF Message
<1>2. s \o t \in Seq(Byte) /\ Len(s \o t) = Len(s) + Len(t)
  BY <1>1
<1>3. ASSUME NEW i \in 1..Len(s) PROVE (s \o t)[i] = s[i]
  BY <1>1
<1>4. ASSUME NEW i \in (Len(s) + 1)..(Len(s) + Len(t))
      PROVE  (s \o t)[i] = t[i - Len(s)]
  BY <1>1
<1>5. QED
  BY <1>1, <1>2, <1>3, <1>4 DEF IsJoin, Message

\* w is a message of n bytes, another one with the byte b at place i.
IsChange(w, s, n, i, b) ==
  /\ Message(w, n)
  /\ w[i] = b
  /\ \A k \in 1..n : k # i => w[k] = s[k]

LEMMA MessageChanged ==
  ASSUME NEW s, NEW n \in Nat, Message(s, n), NEW i \in 1..n, NEW b \in Byte
  PROVE  IsChange([s EXCEPT ![i] = b], s, n, i, b)
BY DEF IsChange, Message

\* Messages with the same bytes are the same.
LEMMA MessageSame ==
  ASSUME NEW s, NEW t, NEW n \in Nat, Message(s, n), Message(t, n),
         \A i \in 1..n : s[i] = t[i]
  PROVE  s = t
BY DEF Message

\* A part of a message.
LEMMA MessageSlice ==
  ASSUME NEW s, NEW n \in Nat, Message(s, n), NEW a \in Nat, NEW b \in a..n
  PROVE  /\ Message(Slice(s, a, b), b - a)
         /\ \A i \in 1..(b - a) : Slice(s, a, b)[i] = s[i + a]
BY DEF Message, Slice

\* The parts of a request are bytes.
LEMMA RequestBytes ==
  ASSUME NEW r, RequestOK(r)
  PROVE  /\ r.unknown1 \in Byte /\ r.msg_type \in Byte
         /\ r.msg_id_response \in Byte /\ r.msg_id_request \in Byte
         /\ Message(r.logger_serial, 4)
         /\ r.payload \in Seq(Byte)
BY DEF RequestOK, Message

\* The bytes of a response, one by one (protocol.rs:225-252).
LEMMA HeadBytes ==
  ASSUME NEW r, RequestOK(r)
  PROVE  /\ Message(HeadOf(r), 11)
         /\ HeadOf(r)[1] = 165 /\ HeadOf(r)[2] = 10 /\ HeadOf(r)[3] = 0
         /\ HeadOf(r)[5] = ResponseType(r.msg_type)
         /\ HeadOf(r)[7] = r.msg_id_request
         /\ \A i \in 8..11 : HeadOf(r)[i] = r.logger_serial[i - 7]
<1> DEFINE first == <<165, 10, 0, r.unknown1, ResponseType(r.msg_type),
                      NextId(r.msg_id_response), r.msg_id_request>>
           serial == r.logger_serial
<1>1. r.unknown1 \in Byte /\ r.msg_id_request \in Byte /\ {0, 10, 165} \subseteq Byte
  BY RequestBytes DEF Byte
<1>2. ResponseType(r.msg_type) \in Byte /\ NextId(r.msg_id_response) \in Byte
  <2>1. r.msg_type \in Int /\ r.msg_id_response \in Int
    BY RequestBytes, ByteIs
  <2>2. ResponseType(r.msg_type) \in Byte
    BY <2>1, ModByte DEF ResponseType
  <2>3. NextId(r.msg_id_response) \in Byte
    BY <2>1, ModByte DEF NextId
  <2>4. QED
    BY <2>2, <2>3
<1>3. Message(serial, 4)
  BY RequestBytes
<1>4. /\ first[1] = 165 /\ first[2] = 10 /\ first[3] = 0
      /\ first[5] = ResponseType(r.msg_type) /\ first[7] = r.msg_id_request
  OBVIOUS
<1>5. Message(first, 7)
  BY <1>1, <1>2 DEF Message
<1>6. HeadOf(r) = first \o serial
  BY DEF HeadOf
<1> HIDE DEF first, serial
<1>7. IsJoin(HeadOf(r), first, serial, 7, 4)
  BY <1>3, <1>5, <1>6, MessageJoined
<1>8. /\ Message(HeadOf(r), 11)
      /\ \A i \in 1..7 : HeadOf(r)[i] = first[i]
      /\ \A i \in 8..11 : HeadOf(r)[i] = serial[i - 7]
  BY <1>7 DEF IsJoin
<1>9. QED
  BY <1>4, <1>8 DEF serial

\* What stands behind the head: a flag, the time and four zeros.
LEMMA BodyBytes ==
  ASSUME NEW r, RequestOK(r), NEW clock, Message(clock, 4)
  PROVE  Message(BodyOf(r, clock), 10)
<1> DEFINE flags == <<FlagOf(r), 1>>
           time  == Reverse(clock)
           zeros == <<0, 0, 0, 0>>
<1>1. 0 \in Byte /\ 1 \in Byte
  BY DEF Byte
<1>2. FlagOf(r) \in Byte
  <2>1. r.payload \in Seq(Byte)
    BY RequestBytes
  <2>2. r.payload # <<>> => r.payload[1] \in Byte
    BY <2>1
  <2>3. QED
    BY <1>1, <2>2 DEF FlagOf
<1>3. Message(flags, 2)
  <2>1. flags \in Seq(Byte)
    BY <1>1, <1>2
  <2>2. Len(flags) = 2
    OBVIOUS
  <2>3. QED
    BY <2>1, <2>2 DEF Message
<1>4. Message(time, 4)
  <2>1. clock \in Seq(Byte) /\ Len(clock) = 4
    BY DEF Message
  <2>2. time \in Seq(Byte) /\ Len(time) = 4
    BY <2>1 DEF Reverse
  <2>3. QED
    BY <2>2 DEF Message
<1>5. Message(zeros, 4)
  BY <1>1 DEF Message
<1>6. BodyOf(r, clock) = (flags \o time) \o zeros
  BY DEF BodyOf
<1> HIDE DEF flags, time, zeros
<1>7. IsJoin(flags \o time, flags, time, 2, 4)
  BY <1>3, <1>4, MessageJoined
<1>8. Message(flags \o time, 6)
  BY <1>7 DEF IsJoin
<1>9. IsJoin((flags \o time) \o zeros, flags \o time, zeros, 6, 4)
  BY <1>5, <1>8, MessageJoined
<1>10. QED
  BY <1>6, <1>9 DEF IsJoin

\* A frame of the length of a response that ends in its checksum.
IsAnswer(msg) ==
  /\ Message(msg, 23)
  /\ msg[1] = 165 /\ msg[2] = 10 /\ msg[3] = 0
  /\ msg[22] = SumTo(msg, 21) /\ msg[23] = 21

\* What build_time_response returns is one (protocol.rs:225-252).
LEMMA ResponseBytes ==
  ASSUME NEW r, RequestOK(r), NEW clock, Message(clock, 4)
  PROVE  LET msg == BuildTimeResponse(r, clock)
         IN  /\ IsAnswer(msg)
             /\ msg[5] = ResponseType(r.msg_type) /\ msg[7] = r.msg_id_request
             /\ \A i \in 8..11 : msg[i] = r.logger_serial[i - 7]
<1> DEFINE msg   == BuildTimeResponse(r, clock)
           head  == HeadOf(r)
           body  == BodyOf(r, clock)
           front == head \o body
           blank == <<0, 0>>
           plain == front \o blank
           sum   == SumTo(plain, 21)
           end   == <<sum, 21>>
<1>1. Message(head, 11)
  BY HeadBytes
<1>2. /\ head[1] = 165 /\ head[2] = 10 /\ head[3] = 0
      /\ head[5] = ResponseType(r.msg_type) /\ head[7] = r.msg_id_request
      /\ \A i \in 8..11 : head[i] = r.logger_serial[i - 7]
  BY HeadBytes
<1>3. Message(body, 10)
  BY BodyBytes
<1>4. msg = front \o <<Checksum(plain), 21>>
  BY Zenon DEF BuildTimeResponse, HeadOf, BodyOf, FlagOf
<1>5. front = head \o body /\ plain = front \o blank
  OBVIOUS
<1> HIDE DEF msg, head, body, front
<1>6. IsJoin(front, head, body, 11, 10)
  BY <1>1, <1>3, <1>5, MessageJoined
<1>7. Message(front, 21) /\ \A i \in 1..11 : front[i] = head[i]
  BY <1>6 DEF IsJoin
<1> HIDE DEF plain
<1>8. Message(plain, 23) /\ \A i \in 1..21 : plain[i] = front[i]
  <2>1. Message(blank, 2)
    BY DEF Byte, Message
  <2> HIDE DEF blank
  <2>2. IsJoin(plain, front, blank, 21, 2)
    BY <1>5, <1>7, <2>1, MessageJoined
  <2>3. QED
    BY <2>2 DEF IsJoin
<1>9. msg = front \o end
  <2>1. Len(plain) = 23
    BY <1>8 DEF Message
  <2>2. QED
    BY <1>4, <2>1 DEF Checksum
<1> HIDE DEF blank
<1>10. \A i \in 1..21 : plain[i] \in Int
  BY <1>7, <1>8, MessageBytes
<1>11. sum \in Byte
  BY <1>10, SumToByte DEF Byte
<1> HIDE DEF sum
<1>12. Message(end, 2) /\ end[1] = sum /\ end[2] = 21
  BY <1>11 DEF Byte, Message
<1> HIDE DEF end
<1>13. /\ Message(msg, 23)
       /\ \A i \in 1..21 : msg[i] = front[i]
       /\ \A i \in 22..23 : msg[i] = end[i - 21]
  <2>1. IsJoin(msg, front, end, 21, 2)
    BY <1>7, <1>9, <1>12, MessageJoined
  <2>2. QED
    BY <2>1 DEF IsJoin
<1>14. msg[22] = sum /\ msg[23] = 21
  <2>1. 22 \in 22..23 /\ 23 \in 22..23 /\ 22 - 21 = 1 /\ 23 - 21 = 2
    OBVIOUS
  <2>2. QED
    BY <1>12, <1>13, <2>1
<1>15. SumTo(msg, 21) = sum
  <2>1. \A i \in 1..21 : msg[i] = plain[i]
    BY <1>8, <1>13
  <2>2. \A i \in 1..21 : msg[i] \in Int /\ plain[i] \in Int
    BY <1>10, <2>1
  <2>3. QED
    BY <2>1, <2>2, SumSame DEF sum
<1>16. \A i \in 1..11 : msg[i] = head[i]
  BY <1>7, <1>13
<1>17. IsAnswer(msg)
  BY <1>2, <1>13, <1>14, <1>15, <1>16 DEF IsAnswer
<1>18. QED
  BY <1>2, <1>16, <1>17 DEF msg

\* A receiver accepts it.
LEMMA AnswerAccepted ==
  ASSUME NEW msg, IsAnswer(msg) PROVE Accepts(msg)
BY DEF IsAnswer, Message, Accepts, Checksum, HEADER_LEN, FOOTER_LEN

\* A byte that is raised is another byte.
LEMMA RaisedDiffers ==
  ASSUME NEW b \in Byte, NEW d \in 1..255
  PROVE  (b + d) % 256 # b
<1>1. b \in Int /\ 0 <= b /\ b <= 255 /\ d \in Int
  BY ByteIs
<1>2. CASE b + d < 256
  BY <1>1, <1>2
<1>3. CASE b + d >= 256
  <2>1. (b + d) % 256 = b + d - 256
    BY <1>1, <1>3
  <2>2. QED
    BY <1>1, <2>1
<1>4. QED
  BY <1>1, <1>2, <1>3

\* A message one byte of which was changed.
Damaged(msg, i, d) == [msg EXCEPT ![i] = (@ + d) % 256]

\* An answer with one byte changed is refused: by the magic bytes, by the
\* length, or because the sum changes and the checksum does not, or the
\* checksum and not the sum.
LEMMA DamagedRefused ==
  ASSUME NEW msg, IsAnswer(msg), NEW i \in 1..23, NEW d \in 1..255
  PROVE  ~Accepts(Damaged(msg, i, d))
<1> DEFINE byte == (msg[i] + d) % 256
           dam  == [msg EXCEPT ![i] = byte]
<1>1. Message(msg, 23)
  BY DEF IsAnswer
<1>2. /\ msg[1] = 165 /\ msg[2] = 10 /\ msg[3] = 0
      /\ msg[22] = SumTo(msg, 21) /\ msg[23] = 21
  BY DEF IsAnswer
<1>3. \A k \in 1..23 : msg[k] \in Byte /\ msg[k] \in Int
  BY <1>1, MessageBytes
<1>4. byte \in Byte /\ byte # msg[i]
  <2>1. msg[i] + d \in Int
    BY <1>3
  <2>2. QED
    BY <1>3, <2>1, ModByte, RaisedDiffers
<1>5. byte = (msg[i] + d) % 256
  OBVIOUS
<1> HIDE DEF byte
<1>6. IsChange(dam, msg, 23, i, byte)
  BY <1>1, <1>4, MessageChanged
<1>7. /\ Message(dam, 23) /\ dam[i] = byte
      /\ \A k \in 1..23 : k # i => dam[k] = msg[k]
  BY <1>6 DEF IsChange
<1>8. SUFFICES ASSUME Accepts(dam) PROVE FALSE
  BY DEF byte, Damaged
<1> HIDE DEF dam
<1>9. \A k \in 1..23 : dam[k] \in Byte /\ dam[k] \in Int
  BY <1>7, MessageBytes
<1>10. Len(dam) = 23
  BY <1>7 DEF Message
<1>11. dam[1] = 165 /\ dam[23] = 21 /\ dam[22] = SumTo(dam, 21)
  BY <1>8, <1>10 DEF Accepts, Checksum
<1>12. 13 + dam[2] + 256 * dam[3] = 23
  <2>1. dam[2] \in Int /\ dam[3] \in Int
    BY <1>9
  <2>2. QED
    BY <1>8, <1>10, <2>1 DEF Accepts, HEADER_LEN, FOOTER_LEN
<1>13. CASE i = 1 \/ i = 23
  BY <1>2, <1>4, <1>7, <1>11, <1>13
<1>14. CASE i = 2
  BY <1>2, <1>4, <1>7, <1>9, <1>12, <1>14
<1>15. CASE i = 3
  BY <1>2, <1>4, <1>7, <1>9, <1>12, <1>15
<1>16. CASE i \in 4..21
  <2>1. /\ \A k \in 1..21 : msg[k] \in Int /\ dam[k] \in Int
        /\ \A k \in 2..21 : k # i => dam[k] = msg[k]
    BY <1>3, <1>7, <1>9
  <2>2. dam[i] = (msg[i] + d) % 256
    BY <1>5, <1>7
  <2>3. i \in 2..(21 + 1) /\ d \in 0..255 /\ i <= 21
    BY <1>16
  <2>4. IsRaised(dam, msg, 21, i, d)
    BY <2>1, <2>2, <2>3 DEF IsRaised
  <2>5. SumTo(dam, 21) = (SumTo(msg, 21) + d) % 256
    BY <2>3, <2>4, SumDamaged
  <2>6. dam[22] = (msg[22] + d) % 256
    BY <1>2, <1>11, <2>5
  <2>7. dam[22] = msg[22]
    <3>1. 22 \in 1..23 /\ 22 # i
      BY <1>16
    <3>2. QED
      BY <1>7, <3>1
  <2>8. (msg[22] + d) % 256 # msg[22]
    <3>1. msg[22] \in Byte
      BY <1>3
    <3>2. QED
      BY <3>1, RaisedDiffers
  <2>9. QED
    BY <2>6, <2>7, <2>8
<1>17. CASE i = 22
  <2>1. \A k \in 1..21 : msg[k] \in Int /\ dam[k] \in Int
    BY <1>3, <1>9
  <2>2. \A k \in 1..21 : dam[k] = msg[k]
    BY <1>7, <1>17
  <2>3. SumTo(dam, 21) = SumTo(msg, 21)
    BY <2>1, <2>2, SumSame
  <2>4. QED
    BY <1>2, <1>4, <1>7, <1>11, <1>17, <2>3
<1>18. QED
  BY <1>13, <1>14, <1>15, <1>16, <1>17

\* What is sent was built from the request.
Built ==
  /\ request \in Requests
  /\ phase = "answered" =>
       \E clock \in Clocks : response = BuildTimeResponse(request, clock)

\* It always was.
LEMMA AlwaysBuilt == Spec => []Built
<1>1. Init => Built
  BY DEF Init, Built
<1>2. Built /\ [Next]_vars => Built'
  BY DEF Built, Next, ParseStep, Drop, Respond, vars
<1>3. QED
  BY <1>1, <1>2, PTL DEF Spec

\* The response of every request is a frame of the protocol that names the
\* request it answers, whatever request, payload and clock (protocol.rs:225-252).
THEOREM ResponsesFramed == Spec => []ResponseIsFrame
<1>1. Built => ResponseIsFrame
  <2>1. SUFFICES ASSUME Built, phase = "answered"
                 PROVE  /\ response \in Seq(Byte) /\ Accepts(response)
                        /\ (response[5] + 48) % 256 = request.msg_type
                        /\ response[7] = request.msg_id_request
                        /\ Slice(response, 7, 11) = request.logger_serial
    BY DEF ResponseIsFrame
  <2>2. RequestOK(request)
    BY <2>1, WireAssumption DEF Built
  <2>3. PICK clock \in Clocks : response = BuildTimeResponse(request, clock)
    BY <2>1 DEF Built
  <2>4. Message(clock, 4)
    BY WireAssumption DEF Message
  <2>5. /\ IsAnswer(response)
        /\ response[5] = ResponseType(request.msg_type)
        /\ response[7] = request.msg_id_request
        /\ \A i \in 8..11 : response[i] = request.logger_serial[i - 7]
    BY <2>2, <2>3, <2>4, ResponseBytes
  <2>6. Accepts(response)
    BY <2>5, AnswerAccepted
  <2>7. (response[5] + 48) % 256 = request.msg_type
    <3>1. /\ request.msg_type \in Int
          /\ 0 <= request.msg_type /\ request.msg_type <= 255
      BY <2>2, RequestBytes, ByteIs
    <3>2. QED
      BY <2>5, <3>1 DEF ResponseType
  <2>8. Slice(response, 7, 11) = request.logger_serial
    <3> DEFINE named == Slice(response, 7, 11)
               serial == request.logger_serial
    <3>1. Message(serial, 4)
      BY <2>2, RequestBytes
    <3>2. Message(response, 23)
      BY <2>5 DEF IsAnswer
    <3>3. /\ Message(named, 11 - 7)
          /\ \A i \in 1..(11 - 7) : named[i] = response[i + 7]
      BY <3>2, MessageSlice
    <3>4. ASSUME NEW i \in 1..4 PROVE named[i] = serial[i]
      <4>1. i + 7 \in 8..11 /\ i + 7 - 7 = i
        OBVIOUS
      <4>2. QED
        BY <2>5, <3>3, <4>1
    <3> HIDE DEF named, serial
    <3>5. Message(named, 4)
      BY <3>3
    <3>6. named = serial
      BY <3>1, <3>4, <3>5, MessageSame
    <3>7. QED
      BY <3>6 DEF named, serial
  <2>9. response \in Seq(Byte)
    BY <2>5 DEF IsAnswer, Message
  <2>10. QED
    BY <2>5, <2>6, <2>7, <2>8, <2>9
<1>2. QED
  BY <1>1, AlwaysBuilt, PTL

\* Whichever byte of a response is damaged, and however: the receiver sees it
\* (protocol.rs:254-258).
AnyDamageShows ==
  phase = "answered" =>
    \A i \in 1..Len(response), d \in 1..255 : ~Accepts(Damaged(response, i, d))

\* That holds of every response, for every change of a byte; DamageShows tries
\* three of them (protocol.rs:254-258).
THEOREM DamageSeen == Spec => [](AnyDamageShows /\ DamageShows)
<1>1. Built => AnyDamageShows
  <2>1. SUFFICES ASSUME Built, phase = "answered",
                        NEW i \in 1..Len(response), NEW d \in 1..255
                 PROVE  ~Accepts(Damaged(response, i, d))
    BY DEF AnyDamageShows
  <2>2. RequestOK(request)
    BY <2>1, WireAssumption DEF Built
  <2>3. PICK clock \in Clocks : response = BuildTimeResponse(request, clock)
    BY <2>1 DEF Built
  <2>4. Message(clock, 4)
    BY WireAssumption DEF Message
  <2>5. IsAnswer(response)
    BY <2>2, <2>3, <2>4, ResponseBytes
  <2>6. i \in 1..23
    BY <2>1, <2>5 DEF IsAnswer, Message
  <2>7. QED
    BY <2>5, <2>6, DamagedRefused
<1>2. AnyDamageShows => DamageShows
  <2>1. SUFFICES ASSUME AnyDamageShows, phase = "answered",
                        NEW i \in 1..Len(response), NEW d \in {1, 128, 255}
                 PROVE  ~Accepts([response EXCEPT ![i] = (@ + d) % 256])
    BY DEF DamageShows
  <2>2. d \in 1..255
    OBVIOUS
  <2>3. ~Accepts(Damaged(response, i, d))
    BY <2>1, <2>2, Zenon DEF AnyDamageShows
  <2>4. QED
    BY <2>3 DEF Damaged
<1>3. QED
  BY <1>1, <1>2, AlwaysBuilt, PTL
=============================================================================
