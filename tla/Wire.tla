-------------------------------- MODULE Wire --------------------------------
(***************************************************************************)
(* The encoding of what travels between client, server and the monitoring  *)
(* topic: Size, Marshal and Unmarshal of the messages of                   *)
(* proto/packet.pb.go, and skipPacket.                                     *)
(*                                                                         *)
(* Bytes are numbers, strings and packets are sequences of bytes.  A field *)
(* that is a pointer is a sequence of at most one message.  An operator    *)
(* that may fail returns a set, which is empty where the code returns an   *)
(* error; Marshal returns a set because a map has no order.                *)
(***************************************************************************)
EXTENDS Varints, SequencesExt

CONSTANT Int32Bits   \* the bits of an int32

ASSUME WidthsAssumption == Int32Bits \in 7 .. WordBits

Signed(x, bits) ==
  LET u == x % Pow2[bits] IN IF u < Pow2[bits - 1] THEN u ELSE u - Pow2[bits]

NoMap == [k \in {} |-> <<>>]

-----------------------------------------------------------------------------
(* The messages, as a zero value each. *)

Request  == [Sid |-> 0, RpcId |-> 0, Headers |-> NoMap, Packet |-> <<>>,
             XXX_unrecognized |-> <<>>]
Response == [Sid |-> 0, Headers |-> NoMap, Code |-> 0, Packet |-> <<>>,
             XXX_unrecognized |-> <<>>]
Counter  == [Method |-> <<>>, Code |-> <<>>, Extra |-> NoMap,
             XXX_unrecognized |-> <<>>]
Gauge    == [Type |-> <<>>, Value |-> <<>>, Add |-> 0, Inc |-> FALSE,
             Extra |-> NoMap, XXX_unrecognized |-> <<>>]
Summary  == [Method |-> <<>>, Extra |-> NoMap, XXX_unrecognized |-> <<>>]
Metric   == [Type |-> 0, Counter |-> <<>>, Gauge |-> <<>>, Summary |-> <<>>,
             Host |-> <<>>, Micro |-> 0, Svrname |-> <<>>, Extra |-> NoMap,
             XXX_unrecognized |-> <<>>]
Metrics  == [Lists |-> <<>>, XXX_unrecognized |-> <<>>]

-----------------------------------------------------------------------------
(* Size. *)

SizeInt(x)    == IF x = 0 THEN 0 ELSE 1 + sovPacket(Unsigned(x))
SizeBool(b)   == IF b THEN 2 ELSE 0
Delimited(n)  == 1 + n + sovPacket(n)
SizeBytes(s)  == IF s = <<>> THEN 0 ELSE Delimited(Len(s))
SizeMap(h)    == SumFunction([k \in DOMAIN h |->
                          Delimited(Delimited(Len(k)) + Delimited(Len(h[k])))])
SizeOne(ms, Size(_))  == IF ms = <<>> THEN 0 ELSE Delimited(Size(ms[1]))
SizeEach(ms, Size(_)) == SumFunction([i \in DOMAIN ms |-> Delimited(Size(ms[i]))])

SizeRequest(m) ==
  SizeInt(m.Sid) + SizeInt(m.RpcId) + SizeMap(m.Headers) + SizeBytes(m.Packet)
    + Len(m.XXX_unrecognized)

SizeResponse(m) ==
  SizeInt(m.Sid) + SizeMap(m.Headers) + SizeInt(m.Code) + SizeBytes(m.Packet)
    + Len(m.XXX_unrecognized)

SizeCounter(m) ==
  SizeBytes(m.Method) + SizeBytes(m.Code) + SizeMap(m.Extra) + Len(m.XXX_unrecognized)

SizeGauge(m) ==
  SizeBytes(m.Type) + SizeBytes(m.Value) + SizeInt(m.Add) + SizeBool(m.Inc)
    + SizeMap(m.Extra) + Len(m.XXX_unrecognized)

SizeSummary(m) == SizeBytes(m.Method) + SizeMap(m.Extra) + Len(m.XXX_unrecognized)

SizeMetric(m) ==
  SizeInt(m.Type) + SizeOne(m.Counter, SizeCounter) + SizeOne(m.Gauge, SizeGauge)
    + SizeOne(m.Summary, SizeSummary) + SizeBytes(m.Host) + SizeInt(m.Micro)
    + SizeBytes(m.Svrname) + SizeMap(m.Extra) + Len(m.XXX_unrecognized)

SizeMetrics(m) == SizeEach(m.Lists, SizeMetric) + Len(m.XXX_unrecognized)

-----------------------------------------------------------------------------
(* Marshal: what MarshalToSizedBuffer leaves at the end of its buffer. *)

A ++ B == {a \o b : a \in A, b \in B}

Tagged(tag, s)  == <<tag>> \o encodeVarintPacket(Len(s)) \o s

PutInt(tag, x)   == {IF x = 0 THEN <<>> ELSE <<tag>> \o encodeVarintPacket(Unsigned(x))}
PutBool(tag, b)  == {IF b THEN <<tag, 1>> ELSE <<>>}
PutBytes(tag, s) == {IF s = <<>> THEN <<>> ELSE Tagged(tag, s)}
PutMap(tag, h) ==
  {FlattenSeq([i \in DOMAIN ks |-> Tagged(tag, Tagged(10, ks[i]) \o Tagged(18, h[ks[i]]))]) :
     ks \in SetToSeqs(DOMAIN h)}
PutOne(tag, ms, Put(_)) ==
  IF ms = <<>> THEN {<<>>} ELSE {Tagged(tag, s) : s \in Put(ms[1])}
PutEach(tag, ms, Put(_)) ==
  LET I == DOMAIN ms
  IN  {FlattenSeq([i \in I |-> Tagged(tag, c[i])]) :
         c \in {c \in [I -> UNION {Put(ms[i]) : i \in I}] : \A i \in I : c[i] \in Put(ms[i])}}

PutRequest(m) ==
  PutInt(8, m.Sid) ++ PutInt(16, m.RpcId) ++ PutMap(26, m.Headers)
    ++ PutBytes(34, m.Packet) ++ {m.XXX_unrecognized}

PutResponse(m) ==
  PutInt(8, m.Sid) ++ PutMap(18, m.Headers) ++ PutInt(24, m.Code)
    ++ PutBytes(34, m.Packet) ++ {m.XXX_unrecognized}

PutCounter(m) ==
  PutBytes(10, m.Method) ++ PutBytes(18, m.Code) ++ PutMap(26, m.Extra)
    ++ {m.XXX_unrecognized}

PutGauge(m) ==
  PutBytes(10, m.Type) ++ PutBytes(18, m.Value) ++ PutInt(24, m.Add) ++ PutBool(32, m.Inc)
    ++ PutMap(42, m.Extra) ++ {m.XXX_unrecognized}

PutSummary(m) == PutBytes(10, m.Method) ++ PutMap(18, m.Extra) ++ {m.XXX_unrecognized}

PutMetric(m) ==
  PutInt(8, m.Type) ++ PutOne(18, m.Counter, PutCounter) ++ PutOne(26, m.Gauge, PutGauge)
    ++ PutOne(34, m.Summary, PutSummary) ++ PutBytes(42, m.Host) ++ PutInt(48, m.Micro)
    ++ PutBytes(58, m.Svrname) ++ PutMap(66, m.Extra) ++ {m.XXX_unrecognized}

PutMetrics(m) == PutEach(10, m.Lists, PutMetric) ++ {m.XXX_unrecognized}

(* The buffer has Size bytes, is filled from its end, and of it the first n *)
(* are returned, n being what was written; it panics if it is too short.    *)
Sized(size, outs) ==
  {SubSeq([i \in 1 .. size - Len(s) |-> 0] \o s, 1, Len(s)) :
     s \in {s \in outs : Len(s) <= size}}

MarshalRequest(m)  == Sized(SizeRequest(m), PutRequest(m))
MarshalResponse(m) == Sized(SizeResponse(m), PutResponse(m))
MarshalMetrics(m)  == Sized(SizeMetrics(m), PutMetrics(m))

-----------------------------------------------------------------------------
(* Unmarshal. *)

(* Mutation of Past: a length that reaches past the buffer is cut short.    *)
PastClipped(buf, i) ==
  {IF v.value > Len(buf) + 1 - v.next THEN Len(buf) + 1 ELSE v.next + v.value : v \in VarintAt(buf, i)}

(* Where a length-delimited value at i ends.                                *)
Past(buf, i) ==
  {v.next + v.value : v \in {v \in VarintAt(buf, i) : Signed(v.value, WordBits) >= 0}}

(* One round of skipPacket at i, with so many groups open: where it ends    *)
(* and how many are open then.                                              *)
SkipRound(buf, i, depth) ==
  UNION {LET type == k.value % 8
         IN  CASE type = 0 -> {<<v.next, depth>> : v \in VarintAt(buf, k.next)}
               [] type = 1 -> {<<k.next + 8, depth>>}
               [] type = 2 -> {<<n, depth>> : n \in Past(buf, k.next)}
               [] type = 3 -> {<<k.next, depth + 1>>}
               [] type = 4 -> IF depth = 0 THEN {} ELSE {<<k.next, depth - 1>>}
               [] type = 5 -> {<<k.next + 4, depth>>}
               [] OTHER    -> {} :
         k \in VarintAt(buf, i)}

(* The field at i with everything in it, if it is a group: where it ends.   *)
skipPacket(buf, i) ==
  LET ends[x \in (1 .. Len(buf)) \X Nat] ==
        UNION {IF y[2] = 0 THEN {y[1]} ELSE IF y[1] <= Len(buf) THEN ends[y] ELSE {} :
               y \in SkipRound(buf, x[1], x[2])}
  IN  ends[<<i, 0>>]

(* The field at i, in front of limit.  The keys and values of a map         *)
(* (strings) are read as strings whatever their type says, and are held to  *)
(* the end of the buffer only.                                              *)
FieldAt(buf, i, limit, strings) ==
  UNION {LET num  == Signed(k.value \div 8, Int32Bits)
             ends == IF num \in strings THEN {n \in Past(buf, k.next) : n <= Len(buf) + 1}
                     ELSE {n \in skipPacket(buf, i) : n <= limit + 1}
         IN  {[num |-> num, type |-> k.value % 8, first |-> i, at |-> k.next, next |-> n] :
               n \in ends} :
         k \in VarintAt(buf, i)}

(* The fields from i to limit, nothing after an error.                      *)
Fields(buf, i, limit, strings) ==
  LET from[j \in 1 .. Len(buf) + 1] ==
        IF j > limit THEN {<<>>}
        ELSE UNION {{<<f>> \o fs : fs \in from[f.next]} : f \in FieldAt(buf, j, limit, strings)}
  IN  from[i]

(* What a message becomes when they are put in, one after the other.        *)
Filled(m, buf, fs, Field(_, _, _)) ==
  LET after[k \in 0 .. Len(fs)] ==
        IF k = 0 THEN {m} ELSE UNION {Field(x, buf, fs[k]) : x \in after[k - 1]}
  IN  after[Len(fs)]

Decode(m, buf, i, limit, strings, Field(_, _, _)) ==
  UNION {Filled(m, buf, fs, Field) : fs \in Fields(buf, i, limit, strings)}

Unmarshal(m, buf, Field(_, _, _)) == Decode(m, buf, 1, Len(buf), {}, Field)

(* What a field holds, if its wire type is the expected one.                *)
Begun(buf, f)   == CHOOSE v \in VarintAt(buf, f.at) : TRUE
Payload(buf, f) == SubSeq(buf, Begun(buf, f).next, f.next - 1)

Int64s(buf, f)  == IF f.type = 0 THEN {Signed(Begun(buf, f).value, WordBits)}  ELSE {}
Int32s(buf, f)  == IF f.type = 0 THEN {Signed(Begun(buf, f).value, Int32Bits)} ELSE {}
Bools(buf, f)   == IF f.type = 0 THEN {Begun(buf, f).value # 0}                ELSE {}
Strings(buf, f) == IF f.type = 2 THEN {Payload(buf, f)}                        ELSE {}

(* The map with the entry of a field put in: the last key and value of it,  *)
(* empty if there is none; what else an entry has is dropped.               *)
EntryField(e, buf, f) ==
  {CASE f.num = 1 -> [e EXCEPT !.key = Payload(buf, f)]
     [] f.num = 2 -> [e EXCEPT !.value = Payload(buf, f)]
     [] OTHER     -> e}

Entries(h, buf, f) ==
  IF f.type # 2 THEN {}
  ELSE {[k \in DOMAIN h \cup {e.key} |-> IF k = e.key THEN e.value ELSE h[k]] :
          e \in Decode([key |-> <<>>, value |-> <<>>], buf, Begun(buf, f).next, f.next - 1,
                       {1, 2}, EntryField)}

(* A message behind a pointer: the one that is there, or a new one, with    *)
(* the fields put in.                                                       *)
Nested(ms, buf, f, zero, Field(_, _, _)) ==
  {<<m>> : m \in UNION {Unmarshal(IF ms = <<>> THEN zero ELSE ms[1], s, Field) : s \in Strings(buf, f)}}

(* A field the message does not have is kept as it came.                    *)
Unknown(m, buf, f) ==
  IF f.num <= 0 THEN {}
  ELSE {[m EXCEPT !.XXX_unrecognized = @ \o SubSeq(buf, f.first, f.next - 1)]}

RequestField(m, buf, f) ==
  CASE f.num = 1 -> {[m EXCEPT !.Sid = x]     : x \in Int64s(buf, f)}
    [] f.num = 2 -> {[m EXCEPT !.RpcId = x]   : x \in Int64s(buf, f)}
    [] f.num = 3 -> {[m EXCEPT !.Headers = x] : x \in Entries(m.Headers, buf, f)}
    [] f.num = 4 -> {[m EXCEPT !.Packet = x]  : x \in Strings(buf, f)}
    [] OTHER     -> Unknown(m, buf, f)

ResponseField(m, buf, f) ==
  CASE f.num = 1 -> {[m EXCEPT !.Sid = x]     : x \in Int64s(buf, f)}
    [] f.num = 2 -> {[m EXCEPT !.Headers = x] : x \in Entries(m.Headers, buf, f)}
    [] f.num = 3 -> {[m EXCEPT !.Code = x]    : x \in Int32s(buf, f)}
    [] f.num = 4 -> {[m EXCEPT !.Packet = x]  : x \in Strings(buf, f)}
    [] OTHER     -> Unknown(m, buf, f)

CounterField(m, buf, f) ==
  CASE f.num = 1 -> {[m EXCEPT !.Method = x] : x \in Strings(buf, f)}
    [] f.num = 2 -> {[m EXCEPT !.Code = x]   : x \in Strings(buf, f)}
    [] f.num = 3 -> {[m EXCEPT !.Extra = x]  : x \in Entries(m.Extra, buf, f)}
    [] OTHER     -> Unknown(m, buf, f)

GaugeField(m, buf, f) ==
  CASE f.num = 1 -> {[m EXCEPT !.Type = x]  : x \in Strings(buf, f)}
    [] f.num = 2 -> {[m EXCEPT !.Value = x] : x \in Strings(buf, f)}
    [] f.num = 3 -> {[m EXCEPT !.Add = x]   : x \in Int64s(buf, f)}
    [] f.num = 4 -> {[m EXCEPT !.Inc = x]   : x \in Bools(buf, f)}
    [] f.num = 5 -> {[m EXCEPT !.Extra = x] : x \in Entries(m.Extra, buf, f)}
    [] OTHER     -> Unknown(m, buf, f)

SummaryField(m, buf, f) ==
  CASE f.num = 1 -> {[m EXCEPT !.Method = x] : x \in Strings(buf, f)}
    [] f.num = 2 -> {[m EXCEPT !.Extra = x]  : x \in Entries(m.Extra, buf, f)}
    [] OTHER     -> Unknown(m, buf, f)

MetricField(m, buf, f) ==
  CASE f.num = 1 -> {[m EXCEPT !.Type = x]    : x \in Int32s(buf, f)}
    [] f.num = 2 -> {[m EXCEPT !.Counter = x] : x \in Nested(m.Counter, buf, f, Counter, CounterField)}
    [] f.num = 3 -> {[m EXCEPT !.Gauge = x]   : x \in Nested(m.Gauge, buf, f, Gauge, GaugeField)}
    [] f.num = 4 -> {[m EXCEPT !.Summary = x] : x \in Nested(m.Summary, buf, f, Summary, SummaryField)}
    [] f.num = 5 -> {[m EXCEPT !.Host = x]    : x \in Strings(buf, f)}
    [] f.num = 6 -> {[m EXCEPT !.Micro = x]   : x \in Int64s(buf, f)}
    [] f.num = 7 -> {[m EXCEPT !.Svrname = x] : x \in Strings(buf, f)}
    [] f.num = 8 -> {[m EXCEPT !.Extra = x]   : x \in Entries(m.Extra, buf, f)}
    [] OTHER     -> Unknown(m, buf, f)

MetricsField(m, buf, f) ==
  CASE f.num = 1 -> {[m EXCEPT !.Lists = @ \o x] : x \in Nested(<<>>, buf, f, Metric, MetricField)}
    [] OTHER     -> Unknown(m, buf, f)

UnmarshalRequest(m, buf)  == Unmarshal(m, buf, RequestField)
UnmarshalResponse(m, buf) == Unmarshal(m, buf, ResponseField)
UnmarshalMetrics(m, buf)  == Unmarshal(m, buf, MetricsField)
=============================================================================
