------------------------------- MODULE Values -------------------------------
(***************************************************************************)
(* What the system encodes, decodes and looks up: a message that is        *)
(* marshalled, travels, and is unmarshalled by a program that may be older *)
(* than its sender, over a stream that may break and deliver a part of it  *)
(* (Wire); the header of a frame (Header); a setting (Config).             *)
(***************************************************************************)
EXTENDS Wire, Header, Config

CONSTANTS Requests, Responses, Batches,   \* the messages that are sent
          NewFields,                      \* the encodings of fields only a newer program has
          Reach                           \* a message is cut that near to one of its ends

(* A size that an int has room for, and what the fields of a message hold.  *)
Fits(n)       == n < Pow2[WordBits - 1]
Ints(bits)    == -Pow2[bits - 1] .. Pow2[bits - 1] - 1
IsMap(h)      == /\ IsFiniteSet(DOMAIN h)
                 /\ DOMAIN h \subseteq Seq(Bytes)
                 /\ h \in [DOMAIN h -> Seq(Bytes)]
IsOne(ms, Is(_)) == ms = <<>> \/ (ms = <<ms[1]>> /\ Is(ms[1]))

(* What the program makes: no field is unknown to it.                       *)
IsRequest(m) ==
  /\ m \in [Sid : Ints(WordBits), RpcId : Ints(WordBits), Headers : {m.Headers},
            Packet : Seq(Bytes), XXX_unrecognized : {<<>>}]
  /\ IsMap(m.Headers)

IsResponse(m) ==
  /\ m \in [Sid : Ints(WordBits), Headers : {m.Headers}, Code : Ints(Int32Bits),
            Packet : Seq(Bytes), XXX_unrecognized : {<<>>}]
  /\ IsMap(m.Headers)

IsCounter(m) ==
  /\ m \in [Method : Seq(Bytes), Code : Seq(Bytes), Extra : {m.Extra}, XXX_unrecognized : {<<>>}]
  /\ IsMap(m.Extra)

IsGauge(m) ==
  /\ m \in [Type : Seq(Bytes), Value : Seq(Bytes), Add : Ints(WordBits), Inc : BOOLEAN,
            Extra : {m.Extra}, XXX_unrecognized : {<<>>}]
  /\ IsMap(m.Extra)

IsSummary(m) ==
  /\ m \in [Method : Seq(Bytes), Extra : {m.Extra}, XXX_unrecognized : {<<>>}]
  /\ IsMap(m.Extra)

IsMetric(m) ==
  /\ m \in [Type : Ints(Int32Bits), Counter : {m.Counter}, Gauge : {m.Gauge},
            Summary : {m.Summary}, Host : Seq(Bytes), Micro : Ints(WordBits),
            Svrname : Seq(Bytes), Extra : {m.Extra}, XXX_unrecognized : {<<>>}]
  /\ IsOne(m.Counter, IsCounter) /\ IsOne(m.Gauge, IsGauge) /\ IsOne(m.Summary, IsSummary)
  /\ IsMap(m.Extra)

IsMetrics(m) ==
  /\ m \in [Lists : {m.Lists}, XXX_unrecognized : {<<>>}]
  /\ m.Lists \in Seq({m.Lists[i] : i \in DOMAIN m.Lists})
  /\ \A i \in 1 .. Len(m.Lists) : IsMetric(m.Lists[i])

ASSUME MessagesOK ==
  /\ \A m \in Requests  : IsRequest(m)  /\ Fits(SizeRequest(m))
  /\ \A m \in Responses : IsResponse(m) /\ Fits(SizeResponse(m))
  /\ \A m \in Batches   : IsMetrics(m)  /\ Fits(SizeMetrics(m))

(* A new field has a number beyond all that are known, and fills its bytes. *)
ASSUME NewFieldsOK ==
  \A s \in NewFields :
    /\ s \in Seq(Bytes) \ {<<>>}
    /\ \E f \in FieldAt(s, 1, Len(s), {}) : f.num > 8 /\ f.next = Len(s) + 1

ASSUME ReachOK == Reach \in Nat

VARIABLES kind,   \* the type of the message, "header" or "setting"
          sent,   \* the message
          extra,  \* the encoding of a field that only a newer program knows
          wire,   \* the bytes on their way
          stage,  \* "made", "sent", "read", "cut" or "readCut"
          got     \* what the reader makes of them
messageVars == <<kind, sent, extra, wire, stage, got>>
headerVars  == <<size, header, damaged>>
valuesVars  == <<messageVars, headerVars, configVars>>

-----------------------------------------------------------------------------
(* What a program writes of a message, and reads into the zero value of one. *)

Marshal(k, m) == CASE k = "Request"  -> MarshalRequest(m)
                   [] k = "Response" -> MarshalResponse(m)
                   [] k = "Metrics"  -> MarshalMetrics(m)

Unmarshalled(k, s) == CASE k = "Request"  -> UnmarshalRequest(Request, s)
                        [] k = "Response" -> UnmarshalResponse(Response, s)
                        [] k = "Metrics"  -> UnmarshalMetrics(Metrics, s)

-----------------------------------------------------------------------------
(* A message on its way, a header or a setting. *)

ValuesInit ==
  /\ \/ kind = "Request"  /\ sent \in Requests
     \/ kind = "Response" /\ sent \in Responses
     \/ kind = "Metrics"  /\ sent \in Batches
     \/ kind \in {"header", "setting"} /\ sent = {}
  /\ extra = <<>>
  /\ wire = <<>>
  /\ stage = "made"
  /\ got = {}
  /\ IF kind = "header" THEN Init ELSE size = 1 /\ header = Encoder(1) /\ damaged = FALSE
  /\ ConfigInit

Send ==
  /\ kind \notin {"header", "setting"}
  /\ stage = "made"
  /\ stage' = "sent"
  /\ wire' \in Marshal(kind, sent)
  /\ UNCHANGED <<kind, sent, extra, got>>

(* The sender is newer: it has a field before or after the ones of wire.    *)
AddField ==
  /\ stage = "sent"
  /\ extra = <<>>
  /\ extra' \in NewFields
  /\ wire' \in {extra' \o wire, wire \o extra'}
  /\ UNCHANGED <<kind, sent, stage, got>>

(* Only the first bytes arrive; Reach bounds where the message is cut.       *)
Cut ==
  /\ stage = "sent"
  /\ extra = <<>>
  /\ stage' = "cut"
  /\ \E n \in 0 .. Len(wire) - 1 : /\ n < Reach \/ n >= Len(wire) - Reach
                                   /\ wire' = SubSeq(wire, 1, n)
  /\ UNCHANGED <<kind, sent, extra, got>>

Read ==
  /\ stage = "sent"
  /\ stage' = "read"
  /\ got' = Unmarshalled(kind, wire)
  /\ UNCHANGED <<kind, sent, extra, wire>>

ReadCut ==
  /\ stage = "cut"
  /\ stage' = "readCut"
  /\ got' = Unmarshalled(kind, wire)
  /\ UNCHANGED <<kind, sent, extra, wire>>

ValuesNext ==
  \/ (Send \/ AddField \/ Cut \/ Read \/ ReadCut) /\ UNCHANGED <<headerVars, configVars>>
  \/ kind = "header"  /\ Damage         /\ UNCHANGED <<messageVars, configVars>>
  \/ kind = "setting" /\ (Load \/ Ask) /\ UNCHANGED <<messageVars, headerVars>>

ValuesSpec == ValuesInit /\ [][ValuesNext]_valuesVars

-----------------------------------------------------------------------------
(* Properties. *)

(* What Marshal writes Unmarshal reads back, in whatever order a map comes: *)
(* Size is exact, or a message would lose bytes, and the reader keeps what  *)
(* it does not know, wherever it is, for the next one that does.            *)
WireIntact ==
  kind \notin {"header", "setting"} =>
    /\ stage = "made" => Marshal(kind, sent) # {}
    /\ stage = "read" => got = {[sent EXCEPT !.XXX_unrecognized = extra]}

(* A message of which the end is missing is refused, or is read as the      *)
(* message that ends there: no field is made up of half an encoding.        *)
CutIsNoticed ==
  stage = "readCut" => \A m \in got : wire \in Marshal(kind, m)
=============================================================================
