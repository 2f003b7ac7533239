------------------------------ MODULE MCValues ------------------------------
(* Values on small instances for TLC. *)
EXTENDS Values, TLC

-----------------------------------------------------------------------------
(* Messages: numbers on both sides of each size of a varint, negative ones  *)
(* and the ends of the range; strings that are empty, short, and so long    *)
(* that their length takes two bytes; maps of up to two entries.            *)

a == <<97>>
b == <<98, 99>>
Long == [i \in 1 .. 130 |-> 97 + (i % 20)]

Words  == {0, 1, 127, 128, 300, 16384, 32767, -1, -32768}
Int32s8 == {0, 1, 127, -1, -128}
Maps   == {NoMap, a :> Long, (a :> <<>>) @@ (<<>> :> b), (a :> a) @@ (b :> a)}

MCRequests  == [Sid : Words, RpcId : {0, 1000, -3}, Headers : Maps,
                Packet : {<<>>, a, Long}, XXX_unrecognized : {<<>>}]
MCResponses == [Sid : {0, 200}, Headers : Maps, Code : Int32s8,
                Packet : {<<>>, Long}, XXX_unrecognized : {<<>>}]

(* Metrics as Counter, CounterByAdd, MethodCode and Summary build them, and *)
(* with the fields they leave out.                                          *)
Base == [Metric EXCEPT !.Host = a, !.Svrname = b]
OneMetric ==
  {[Base EXCEPT !.Counter = <<[Counter EXCEPT !.Method = a, !.Code = c]>>] : c \in {<<>>, Long}}
  \cup {[Base EXCEPT !.Type = 1,
                     !.Gauge = <<[Gauge EXCEPT !.Type = a, !.Value = b, !.Inc = i, !.Add = n]>>] :
          i \in BOOLEAN, n \in {0, -1}}
  \cup {[Base EXCEPT !.Type = 2, !.Micro = n, !.Extra = h,
                     !.Summary = <<[Summary EXCEPT !.Method = a, !.Extra = h]>>] :
          h \in {NoMap, (a :> a) @@ (b :> a)}, n \in {0, 200}}
MCBatches == [Lists : {<<>>} \cup {<<x>> : x \in OneMetric} \cup OneMetric \X OneMetric,
              XXX_unrecognized : {<<>>}]

(* Fields of number 15 of every wire type: a varint, eight bytes, a string, *)
(* a group and four bytes.                                                  *)
MCNewFields == {<<120, 129, 1>>, <<121, 1, 2, 3, 4, 5, 6, 7, 8>>, <<122, 2, 200, 1>>,
                <<123, 8, 1, 124>>, <<125, 1, 2, 3, 4>>}

-----------------------------------------------------------------------------
(* Sizes on both sides of each place where the varint takes another byte,   *)
(* up to the largest that four bytes have room for.                         *)

MCSizes == (1 .. 5) \cup (62 .. 66) \cup (8190 .. 8194)
             \cup (1048575 .. 1048578) \cup (MaxSize - 2 .. MaxSize)

MCDamages == {0, 1, 2, 3, 5, 64, 126, 127, 128, 129, 254, 255}

-----------------------------------------------------------------------------
(* Documents: an empty one, and those whose root, named as it should be or  *)
(* otherwise, has up to two children with at most one child each.           *)

MCNames == {"a", "b"}
MCParseInt == "5" :> 5

Leaves   == [name : MCNames, text : {"", "5"}, children : {<<>>}]
Branches == [name : MCNames, text : {"true"}, children : {<<>>} \cup {<<e>> : e \in Leaves}]
Roots    == [name : {"gffg", "a"}, text : {"root"},
             children : {<<>>} \cup {<<e>> : e \in Branches} \cup Branches \X Branches]

MCElements == Leaves \cup Branches \cup Roots
MCDocs     == {<<>>} \cup {<<r>> : r \in Roots}
MCPaths    == {<<>>} \cup {<<n>> : n \in MCNames} \cup MCNames \X MCNames \X {"a"}
                \cup MCNames \X MCNames
=============================================================================
