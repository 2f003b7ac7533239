--------------------------- MODULE FramingProofs ---------------------------
(***************************************************************************)
(* Theorems about Framing, for any writers, sizes, pieces and capacities.  *)
(***************************************************************************)
EXTENDS Framing, SequenceTheorems, TLAPS

(* What is taken from the stream follows what is in the buffer.             *)
LEMMA TakeEffect ==
  ASSUME TypeOK, NEW k \in Nat, k <= Len(stream) - read, Take(k)
  PROVE  /\ buf' \in Seq(Unit)
         /\ Len(buf') = Len(buf) + k
         /\ \A i \in 1 .. Len(buf) : buf'[i] = buf[i]
         /\ \A i \in 1 .. k : buf'[Len(buf) + i] = stream[read + i]
         /\ read' = read + k
<1> DEFINE piece == SubSeq(stream, read + 1, read + k)
<1>1. /\ stream \in Seq(Unit) /\ buf \in Seq(Unit) /\ read \in Nat
      /\ Len(stream) \in Nat /\ Len(buf) \in Nat
  BY DEF TypeOK
<1>2. \A i \in read + 1 .. read + k : stream[i] \in Unit
  BY <1>1
<1>3. /\ piece \in Seq(Unit)
      /\ Len(piece) = IF read + 1 <= read + k THEN ((read + k) - (read + 1)) + 1 ELSE 0
      /\ \A i \in 1 .. ((read + k) - (read + 1)) + 1 : piece[i] = stream[(read + 1) + (i - 1)]
  <2>1. read + 1 \in Int /\ read + k \in Int
    BY <1>1
  <2> QED
    BY <1>2, <2>1, SubSeqProperties, SMT
<1> HIDE DEF piece
<1>4. /\ Len(piece) = k
      /\ \A i \in 1 .. k : piece[i] = stream[read + i]
  BY <1>1, <1>3
<1>5. buf' = buf \o piece /\ read' = read + k
  BY DEF Take, piece
<1>6. /\ buf' \in Seq(Unit)
      /\ Len(buf') = Len(buf) + Len(piece)
      /\ \A i \in 1 .. Len(buf) + Len(piece) :
           buf'[i] = IF i <= Len(buf) THEN buf[i] ELSE piece[i - Len(buf)]
  BY <1>1, <1>3, <1>5, ConcatProperties, Zenon
<1>7. \A i \in 1 .. k : buf'[Len(buf) + i] = stream[read + i]
  <2> SUFFICES ASSUME NEW i \in 1 .. k
               PROVE  buf'[Len(buf) + i] = stream[read + i]
    OBVIOUS
  <2>1. Len(buf) + i \in 1 .. Len(buf) + Len(piece) /\ ~ (Len(buf) + i <= Len(buf))
    BY <1>1, <1>4
  <2>2. Len(buf) + i - Len(buf) = i
    BY <1>1
  <2>3. buf'[Len(buf) + i] = piece[i]
    BY <1>6, <2>1, <2>2
  <2> QED
    BY <1>4, <2>3
<1>8. \A i \in 1 .. Len(buf) : buf'[i] = buf[i]
  BY <1>1, <1>4, <1>6
<1> QED
  BY <1>4, <1>5, <1>6, <1>7, <1>8

(* A unit more at the end of the stream.                                    *)
LEMMA PutEffect ==
  ASSUME TypeOK, NEW w \in Writers, Put(w)
  PROVE  /\ stream' \in Seq(Unit)
         /\ Len(stream') = Len(stream) + 1
         /\ \A i \in 1 .. Len(stream) : stream'[i] = stream[i]
         /\ stream'[Len(stream) + 1] = <<frame[w], put[w] + 1>>
         /\ put' \in [Writers -> Nat] /\ put'[w] = put[w] + 1
         /\ \A v \in Writers : v # w => put'[v] = put[v] /\ wpc'[v] = wpc[v]
         /\ IF put[w] + 1 = HeaderUnits + size[w] THEN wpc'[w] = "idle"
                                                  ELSE wpc'[w] = "put"
         /\ wpc' \in [Writers -> {"idle", "lock", "write", "put"}]
<1>1. stream \in Seq(Unit) /\ <<frame[w], put[w] + 1>> \in Unit
  BY DEF TypeOK, Unit
<1>2. stream' = Append(stream, <<frame[w], put[w] + 1>>)
  BY DEF Put
<1>3. /\ stream' \in Seq(Unit)
      /\ Len(stream') = Len(stream) + 1
      /\ \A i \in 1 .. Len(stream) : stream'[i] = stream[i]
      /\ stream'[Len(stream) + 1] = <<frame[w], put[w] + 1>>
  BY <1>1, <1>2, AppendProperties, SMT
<1>4. /\ put' \in [Writers -> Nat] /\ put'[w] = put[w] + 1
      /\ \A v \in Writers : v # w => put'[v] = put[v]
  BY DEF Put, TypeOK
<1>5. /\ wpc' \in [Writers -> {"idle", "lock", "write", "put"}]
      /\ \A v \in Writers : v # w => wpc'[v] = wpc[v]
      /\ IF put[w] + 1 = HeaderUnits + size[w] THEN wpc'[w] = "idle"
                                               ELSE wpc'[w] = "put"
  BY DEF Put, Goto, TypeOK
<1> QED
  BY <1>3, <1>4, <1>5

(* A frame more after those that were sent.                                 *)
LEMMA NetWriteEffect ==
  ASSUME TypeOK, NEW w \in Writers, NetWrite(w), size[w] \in Sizes
  PROVE  /\ sent' \in Seq([size : Sizes, at : Nat])
         /\ Len(sent') = Len(sent) + 1
         /\ \A k \in 1 .. Len(sent) : sent'[k] = sent[k]
         /\ sent'[Len(sent) + 1] = [size |-> size[w], at |-> Len(stream)]
         /\ frame' \in [Writers -> Nat] /\ frame'[w] = Len(sent) + 1
         /\ put' \in [Writers -> Nat] /\ put'[w] = 0
         /\ wpc' \in [Writers -> {"idle", "lock", "write", "put"}]
         /\ wpc'[w] = "put"
         /\ \A v \in Writers : v # w => wpc'[v] = wpc[v]
<1>1. /\ sent \in Seq([size : Sizes, at : Nat])
      /\ Len(stream) \in Nat /\ Len(sent) \in Nat
  BY DEF TypeOK
<1>2. PICK f \in [size : Sizes, at : Nat] : f = [size |-> size[w], at |-> Len(stream)]
  BY <1>1
<1>3. /\ sent' \in Seq([size : Sizes, at : Nat])
      /\ Len(sent') = Len(sent) + 1
      /\ \A k \in 1 .. Len(sent) : sent'[k] = sent[k]
      /\ sent'[Len(sent) + 1] = [size |-> size[w], at |-> Len(stream)]
  <2>1. sent' = Append(sent, f)
    BY <1>2 DEF NetWrite
  <2>2. /\ sent' \in Seq([size : Sizes, at : Nat])
        /\ Len(sent') = Len(sent) + 1
        /\ \A k \in 1 .. Len(sent) : sent'[k] = sent[k]
        /\ sent'[Len(sent) + 1] = f
    BY <1>1, <2>1, AppendProperties, SMT
  <2> QED
    BY <1>2, <2>2
<1>4. /\ frame' \in [Writers -> Nat] /\ frame'[w] = Len(sent) + 1
      /\ put' \in [Writers -> Nat] /\ put'[w] = 0
  BY <1>1 DEF NetWrite, TypeOK
<1>5. /\ wpc' \in [Writers -> {"idle", "lock", "write", "put"}]
      /\ wpc'[w] = "put"
      /\ \A v \in Writers : v # w => wpc'[v] = wpc[v]
  BY DEF NetWrite, Goto, TypeOK
<1> QED
  BY <1>3, <1>4, <1>5

(* A packet more, which is what is in the buffer.                           *)
LEMMA DeliverEffect ==
  ASSUME TypeOK, Deliver
  PROVE  /\ Len(buf) = want
         /\ delivered' \in Seq(Seq(Unit))
         /\ Len(delivered') = Len(delivered) + 1
         /\ \A d \in 1 .. Len(delivered) : delivered'[d] = delivered[d]
         /\ delivered'[Len(delivered) + 1] = [i \in 1 .. want |-> buf[i]]
<1> DEFINE p == SubSeq(buf, 1, want)
<1>1. /\ delivered \in Seq(Seq(Unit)) /\ buf \in Seq(Unit) /\ Len(buf) = want
      /\ want \in Nat \ {0}
  BY DEF TypeOK, Deliver
<1>2. \A i \in 1 .. want : buf[i] \in Unit
  BY <1>1
<1>3. /\ p \in Seq(Unit)
      /\ Len(p) = IF 1 <= want THEN (want - 1) + 1 ELSE 0
      /\ \A i \in 1 .. (want - 1) + 1 : p[i] = buf[1 + (i - 1)]
  <2>1. 1 \in Int /\ want \in Int
    BY <1>1
  <2> QED
    BY <1>2, <2>1, SubSeqProperties, SMT
<1>4. p = [i \in 1 .. want |-> buf[i]]
  <2> HIDE DEF p
  <2>1. Len(p) = want /\ \A i \in 1 .. want : p[i] = buf[i]
    BY <1>1, <1>3
  <2>2. p \in [1 .. Len(p) -> Unit]
    BY <1>3, LenProperties
  <2> QED
    BY <2>1, <2>2
<1>5. delivered' = Append(delivered, p)
  BY DEF Deliver
<1> HIDE DEF p
<1>6. /\ delivered' \in Seq(Seq(Unit))
      /\ Len(delivered') = Len(delivered) + 1
      /\ \A d \in 1 .. Len(delivered) : delivered'[d] = delivered[d]
      /\ delivered'[Len(delivered) + 1] = p
  <2>1. delivered \in Seq(Seq(Unit)) /\ p \in Seq(Unit)
    BY <1>1, <1>3
  <2> QED
    BY <1>5, <2>1, AppendProperties, SMT
<1> QED
  BY <1>1, <1>4, <1>6

-----------------------------------------------------------------------------
Units(k) == HeaderUnits + sent[k].size

(* Where frame k ends in the stream.                                        *)
EndOf(k) == sent[k].at + Units(k)

(* Frames lie in the stream one after the other, and only the last of them  *)
(* may be unfinished.                                                       *)
SentInv ==
  /\ Len(sent) = 0 => Len(stream) = 0
  /\ Len(sent) > 0 => /\ sent[1].at = 0
                      /\ sent[Len(sent)].at <= Len(stream)
                      /\ Len(stream) <= EndOf(Len(sent))
  /\ \A k \in 1 .. Len(sent) :
       k < Len(sent) => EndOf(k) = sent[k + 1].at /\ EndOf(k) <= Len(stream)

(* One writer at most puts units, those of the last frame; while nobody     *)
(* does and no write has failed, the last frame is finished.                *)
WriterInv ==
  /\ \A v, w \in Writers : wpc[v] = "put" /\ wpc[w] = "put" => v = w
  /\ \A w \in Writers : wpc[w] # "idle" => size[w] \in Sizes
  /\ \A w \in Writers : wpc[w] = "put" =>
       /\ Len(sent) > 0
       /\ frame[w] = Len(sent)
       /\ sent[Len(sent)].size = size[w]
       /\ Len(stream) = sent[Len(sent)].at + put[w]
       /\ put[w] < HeaderUnits + size[w]
  /\ (\A w \in Writers : wpc[w] # "put") /\ conn # "broken" /\ Len(sent) > 0 =>
       Len(stream) = EndOf(Len(sent))

StreamInv ==
  \A k \in 1 .. Len(sent) : \A i \in 1 .. Units(k) :
    sent[k].at + i <= Len(stream) => stream[sent[k].at + i] = <<k, i>>

(* What the reader has taken of the frame after those it has delivered.     *)
ReaderInv ==
  /\ Len(delivered) <= Len(sent)
  /\ phase # "ended" =>
       /\ cause = "none"
       /\ read <= Len(stream) /\ Len(buf) <= read
       /\ \A i \in 1 .. Len(buf) : buf[i] = stream[read - Len(buf) + i]
  /\ phase = "header" =>
       /\ want = HeaderUnits
       /\ Len(delivered) < Len(sent) =>
            read = sent[Len(delivered) + 1].at + Len(buf)
       /\ Len(delivered) = Len(sent) =>
            /\ read = Len(stream) /\ Len(buf) = 0
            /\ Len(sent) > 0 => Len(stream) = EndOf(Len(sent))
  /\ phase = "body" =>
       /\ Len(delivered) < Len(sent)
       /\ want = sent[Len(delivered) + 1].size
       /\ read = sent[Len(delivered) + 1].at + HeaderUnits + Len(buf)

Inv == SentInv /\ WriterInv /\ StreamInv /\ ReaderInv
IInv == TypeOK /\ Inv /\ StreamIntact /\ NoFalseAlarm

LEMMA SizesPositive == \A n \in Sizes : n \in Nat /\ n > 0
<1>1. Sizes \subseteq Nat \ {0}
  BY FramingAssumption
<1> QED
  BY <1>1

(* What the types say of the numbers that the invariant adds up.            *)
LEMMA Numbers ==
  ASSUME TypeOK
  PROVE  /\ Len(sent) \in Nat /\ Len(stream) \in Nat /\ Len(buf) \in Nat
         /\ Len(delivered) \in Nat /\ read \in Nat /\ want \in Nat
         /\ HeaderUnits \in Nat /\ HeaderUnits > 0
         /\ \A k \in 1 .. Len(sent) :
              /\ sent[k].size \in Nat /\ sent[k].size > 0 /\ sent[k].at \in Nat
              /\ Units(k) \in Nat /\ Units(k) > HeaderUnits /\ EndOf(k) \in Nat
              /\ EndOf(k) = sent[k].at + Units(k)
<1>1. HeaderUnits \in Nat /\ HeaderUnits > 0 /\ Sizes \subseteq Nat \ {0}
  BY FramingAssumption
<1>2. /\ Len(sent) \in Nat /\ Len(stream) \in Nat /\ Len(buf) \in Nat
      /\ Len(delivered) \in Nat /\ read \in Nat /\ want \in Nat
  BY DEF TypeOK
<1>3. \A k \in 1 .. Len(sent) : sent[k] \in [size : Sizes, at : Nat]
  <2>1. sent \in Seq([size : Sizes, at : Nat])
    BY DEF TypeOK
  <2> QED
    BY <2>1, ElementOfSeq, Zenon
<1>4. \A k \in 1 .. Len(sent) :
        /\ sent[k].size \in Nat /\ sent[k].size > 0 /\ sent[k].at \in Nat
  <2> SUFFICES ASSUME NEW k \in 1 .. Len(sent)
               PROVE  /\ sent[k].size \in Nat /\ sent[k].size > 0
                      /\ sent[k].at \in Nat
    OBVIOUS
  <2>1. sent[k].size \in Sizes /\ sent[k].at \in Nat
    BY <1>3
  <2> QED
    BY <2>1, SizesPositive, Zenon
<1> QED
  BY <1>1, <1>2, <1>4 DEF Units, EndOf

LEMMA InitInv == Init => IInv
<1> SUFFICES ASSUME Init PROVE IInv
  OBVIOUS
<1>1. HeaderUnits \in Nat \ {0}
  BY FramingAssumption
<1>2. /\ Len(sent) = 0 /\ Len(stream) = 0 /\ Len(buf) = 0 /\ Len(delivered) = 0
      /\ read = 0
  BY DEF Init
<1>3. TypeOK
  BY <1>1 DEF Init, TypeOK
<1>4. SentInv
  BY <1>2 DEF SentInv
<1>5. WriterInv
  BY <1>2 DEF WriterInv, Init
<1>6. StreamInv
  BY <1>2 DEF StreamInv
<1>7. ReaderInv
  BY <1>2 DEF ReaderInv, Init
<1>8. StreamIntact /\ NoFalseAlarm
  BY <1>2 DEF StreamIntact, NoFalseAlarm, Init
<1> QED
  BY <1>3, <1>4, <1>5, <1>6, <1>7, <1>8 DEF IInv, Inv

(* A step that changes neither the frames, nor the stream, nor the reader.  *)
LEMMA ReaderKept ==
  ASSUME ReaderInv, StreamIntact, NoFalseAlarm, SentInv, StreamInv,
         UNCHANGED <<sent, stream, rvars>>
  PROVE  /\ ReaderInv' /\ StreamIntact' /\ NoFalseAlarm'
         /\ SentInv' /\ StreamInv'
<1>1. UNCHANGED <<sent, stream, phase, want, buf, read, delivered, cause>>
  BY DEF rvars
<1>2. ReaderInv'
  BY <1>1 DEF ReaderInv, EndOf, Units
<1>3. StreamIntact' /\ NoFalseAlarm'
  BY <1>1 DEF StreamIntact, NoFalseAlarm
<1>4. SentInv'
  BY <1>1 DEF SentInv, EndOf, Units
<1>5. StreamInv'
  BY <1>1 DEF StreamInv, Units
<1> QED
  BY <1>2, <1>3, <1>4, <1>5

LEMMA WaitKeeps ==
  ASSUME IInv, NEW w \in Writers, Encode(w) \/ Lock(w)
  PROVE  IInv'
<1>1. UNCHANGED <<sent, frame, put, stream, conn, rvars>>
  BY DEF Encode, Lock
<1>2. /\ wpc' \in [Writers -> {"idle", "lock", "write", "put"}]
      /\ wpc[w] # "put" /\ wpc'[w] # "put"
      /\ \A v \in Writers : v # w => wpc'[v] = wpc[v]
  BY DEF Encode, Lock, Goto, IInv, TypeOK
<1>3. /\ size' \in [Writers -> Nat]
      /\ size'[w] \in Sizes
      /\ \A v \in Writers : v # w => size'[v] = size[v]
  <2>1. CASE Encode(w)
    BY <2>1, FramingAssumption DEF Encode, IInv, TypeOK
  <2>2. CASE Lock(w)
    BY <2>2 DEF Lock, IInv, TypeOK, Inv, WriterInv
  <2> QED
    BY <2>1, <2>2
<1>4. TypeOK'
  BY <1>1, <1>2, <1>3 DEF IInv, TypeOK, rvars
<1>5. WriterInv'
  BY <1>1, <1>2, <1>3 DEF IInv, Inv, WriterInv, EndOf, Units
<1> QED
  BY <1>1, <1>4, <1>5, ReaderKept DEF IInv, Inv

LEMMA WriteFailsKeeps ==
  ASSUME IInv, NEW w \in Writers, WriteFails(w)
  PROVE  IInv'
<1>1. UNCHANGED <<size, sent, frame, put, stream, rvars>> /\ conn' = "broken"
  BY DEF WriteFails
<1>2. /\ wpc' \in [Writers -> {"idle", "lock", "write", "put"}]
      /\ wpc'[w] = "idle"
      /\ \A v \in Writers : v # w => wpc'[v] = wpc[v]
  BY DEF WriteFails, Goto, IInv, TypeOK
<1>3. TypeOK'
  BY <1>1, <1>2 DEF IInv, TypeOK, rvars
<1>4. WriterInv'
  BY <1>1, <1>2 DEF IInv, Inv, WriterInv
<1> QED
  BY <1>1, <1>3, <1>4, ReaderKept DEF IInv, Inv

LEMMA CloseKeeps == ASSUME IInv, Close PROVE IInv'
<1>1. UNCHANGED <<wpc, size, sent, frame, put, stream, rvars>> /\ conn = "open"
      /\ conn' = "closed"
  BY DEF Close, wvars
<1>2. TypeOK'
  BY <1>1 DEF IInv, TypeOK, rvars
<1>3. WriterInv'
  BY <1>1 DEF IInv, Inv, WriterInv, EndOf, Units
<1> QED
  BY <1>1, <1>2, <1>3, ReaderKept DEF IInv, Inv

(* A writer begins a frame: the one before is finished, so that this one    *)
(* lies right behind it.                                                    *)
LEMMA NetWriteKeeps ==
  ASSUME IInv, NEW w \in Writers, NetWrite(w)
  PROVE  IInv'
<1>1. /\ UNCHANGED <<size, stream, conn, phase, want, buf, read, delivered, cause>>
      /\ wpc[w] = "write" /\ conn # "broken" /\ \A v \in Writers : wpc[v] # "put"
  BY DEF NetWrite, rvars
<1>2. TypeOK /\ SentInv /\ WriterInv /\ StreamInv /\ ReaderInv /\ StreamIntact /\ NoFalseAlarm
  BY DEF IInv, Inv
<1>3. size[w] \in Sizes /\ size[w] \in Nat /\ size[w] > 0
  <2>1. size[w] \in Sizes
    BY <1>1, <1>2 DEF WriterInv
  <2> QED
    BY <2>1, SizesPositive, Zenon
<1>4. /\ sent' \in Seq([size : Sizes, at : Nat])
      /\ Len(sent') = Len(sent) + 1
      /\ \A k \in 1 .. Len(sent) : sent'[k] = sent[k]
      /\ sent'[Len(sent) + 1] = [size |-> size[w], at |-> Len(stream)]
      /\ frame' \in [Writers -> Nat] /\ frame'[w] = Len(sent) + 1
      /\ put' \in [Writers -> Nat] /\ put'[w] = 0
      /\ wpc' \in [Writers -> {"idle", "lock", "write", "put"}]
      /\ wpc'[w] = "put"
      /\ \A v \in Writers : v # w => wpc'[v] = wpc[v]
  BY <1>2, <1>3, NetWriteEffect
<1>n. /\ Len(sent) \in Nat /\ Len(stream) \in Nat /\ Len(buf) \in Nat
      /\ Len(delivered) \in Nat /\ HeaderUnits \in Nat
  BY <1>2, Numbers
<1>f. Len(sent') = Len(sent) + 1 /\ \A k \in 1 .. Len(sent) : sent'[k] = sent[k]
  BY <1>4
<1>r. /\ ReaderInv /\ UNCHANGED <<phase, want, buf, read, delivered, cause, stream>>
  BY <1>1, <1>2
<1>5. TypeOK'
  BY <1>1, <1>2, <1>4 DEF TypeOK
<1>6. Len(sent) > 0 => Len(stream) = EndOf(Len(sent))
  BY <1>1, <1>2 DEF WriterInv
<1>7. PICK l \in Nat : l = Len(sent) + 1
  BY <1>2, Numbers
<1>8. /\ \A k \in 1 .. Len(sent) : Units(k)' = Units(k) /\ EndOf(k)' = EndOf(k)
      /\ Units(l)' = HeaderUnits + size[w]
      /\ EndOf(l)' = Len(stream) + (HeaderUnits + size[w])
  <2>1. sent'[l].size = size[w] /\ sent'[l].at = Len(stream)
    BY <1>7, <1>4
  <2>2. \A k \in 1 .. Len(sent) : sent'[k].size = sent[k].size /\ sent'[k].at = sent[k].at
    BY <1>4
  <2> QED
    BY <2>1, <2>2, Zenon DEF Units, EndOf
<1>9. SentInv'
  <2>1. Len(sent') > 0 /\ sent'[Len(sent')].at = Len(stream)
    BY <1>2, <1>4, Numbers
  <2>2. sent'[1].at = 0
    <3>1. CASE Len(sent) = 0
      BY <3>1, <1>2, <1>4 DEF SentInv
    <3>2. CASE Len(sent) > 0
      <4>1. 1 \in 1 .. Len(sent) /\ sent[1].at = 0
        BY <3>2, <1>2, Numbers DEF SentInv
      <4> QED
        BY <1>4, <4>1
    <3> QED
      BY <1>2, <3>1, <3>2, Numbers
  <2>3. Len(stream') <= EndOf(l)' /\ l = Len(sent')
    BY <1>7, <1>1, <1>2, <1>3, <1>4, <1>8, Numbers
  <2>4. ASSUME NEW k \in 1 .. Len(sent'), k < Len(sent')
        PROVE  EndOf(k)' = sent'[k + 1].at /\ EndOf(k)' <= Len(stream')
    <3>1. k \in 1 .. Len(sent) /\ EndOf(k)' = EndOf(k)
      BY <1>2, <1>4, <1>8, <2>4, Numbers
    <3>2. CASE k < Len(sent)
      <4>1. k + 1 \in 1 .. Len(sent)
        BY <3>1, <3>2, <1>2, Numbers
      <4> QED
        BY <1>1, <1>2, <1>4, <3>1, <3>2, <4>1 DEF SentInv
    <3>3. CASE k = Len(sent)
      BY <1>1, <1>2, <1>4, <1>6, <3>1, <3>3, Numbers
    <3> QED
      BY <1>2, <3>1, <3>2, <3>3, Numbers
  <2> QED
    <3>1. Len(sent') # 0
      BY <1>2, <1>4, Numbers
    <3>2. Len(stream) <= Len(stream')
      BY <1>1, <1>2, Numbers
    <3> QED
      BY <2>1, <2>2, <2>3, <2>4, <3>1, <3>2 DEF SentInv
<1>10. WriterInv'
  <2>1. \A u, v \in Writers : wpc'[u] = "put" /\ wpc'[v] = "put" => u = v
    BY <1>1, <1>4
  <2>2. \A v \in Writers : wpc'[v] # "idle" => size'[v] \in Sizes
    BY <1>1, <1>2, <1>3, <1>4 DEF WriterInv
  <2>3. ASSUME NEW v \in Writers, wpc'[v] = "put"
        PROVE  /\ Len(sent') > 0
               /\ frame'[v] = Len(sent')
               /\ sent'[Len(sent')].size = size'[v]
               /\ Len(stream') = sent'[Len(sent')].at + put'[v]
               /\ put'[v] < HeaderUnits + size'[v]
    <3>1. v = w
      BY <1>1, <1>4, <2>3
    <3> QED
      BY <1>1, <1>2, <1>3, <1>4, <3>1, Numbers
  <2>4. ~ \A v \in Writers : wpc'[v] # "put"
    BY <1>4
  <2> QED
    BY <2>1, <2>2, <2>3, <2>4 DEF WriterInv
<1>11. StreamInv'
  <2> SUFFICES ASSUME NEW k \in 1 .. Len(sent'), NEW i \in 1 .. Units(k)',
                      sent'[k].at + i <= Len(stream')
               PROVE  stream'[sent'[k].at + i] = <<k, i>>
    BY DEF StreamInv
  <2>1. CASE k \in 1 .. Len(sent)
    <3>1. sent'[k].at = sent[k].at /\ i \in 1 .. Units(k)
      BY <1>f, <1>8, <2>1
    <3> QED
      BY <1>1, <1>2, <2>1, <3>1 DEF StreamInv
  <2>2. CASE k = Len(sent) + 1
    <3>1. sent'[k].at = Len(stream) /\ i > 0
      BY <1>4, <2>2
    <3> QED
      BY <1>1, <1>2, <3>1, Numbers
  <2> QED
    <3>1. k \in 1 .. Len(sent) \/ k = Len(sent) + 1
      BY <1>n, <1>f
    <3> QED
      BY <2>1, <2>2, <3>1
<1>12. ReaderInv'
  <2>1. Len(delivered') <= Len(sent')
    BY <1>n, <1>f, <1>r DEF ReaderInv
  <2>2. phase' # "ended" =>
          /\ cause' = "none"
          /\ read' <= Len(stream') /\ Len(buf') <= read'
          /\ \A i \in 1 .. Len(buf') : buf'[i] = stream'[read' - Len(buf') + i]
    BY <1>1, <1>2 DEF ReaderInv
  <2>3. ASSUME phase' = "header"
        PROVE  /\ want' = HeaderUnits
               /\ Len(delivered') < Len(sent') =>
                    read' = sent'[Len(delivered') + 1].at + Len(buf')
               /\ Len(delivered') # Len(sent')
    <3>1. CASE Len(delivered) < Len(sent)
      <4>1. Len(delivered) + 1 \in 1 .. Len(sent)
        BY <1>2, <3>1, Numbers
      <4> QED
        BY <1>n, <1>f, <1>r, <2>3, <3>1, <4>1 DEF ReaderInv
    <3>2. CASE Len(delivered) = Len(sent)
      <4>1. want = HeaderUnits /\ read = Len(stream) /\ Len(buf) = 0
        BY <1>r, <2>3, <3>2 DEF ReaderInv
      <4>2. sent'[Len(delivered) + 1].at = Len(stream)
        BY <1>4, <3>2
      <4> QED
        BY <1>n, <1>f, <1>r, <3>2, <4>1, <4>2
    <3> QED
      BY <1>2, <3>1, <3>2, Numbers DEF ReaderInv
  <2>4. ASSUME phase' = "body"
        PROVE  /\ Len(delivered') < Len(sent')
               /\ want' = sent'[Len(delivered') + 1].size
               /\ read' = sent'[Len(delivered') + 1].at + HeaderUnits + Len(buf')
    <3>1. Len(delivered) < Len(sent) /\ Len(delivered) + 1 \in 1 .. Len(sent)
      BY <1>1, <1>2, <2>4, Numbers DEF ReaderInv
    <3> QED
      <4>1. /\ want = sent[Len(delivered) + 1].size
            /\ read = sent[Len(delivered) + 1].at + HeaderUnits + Len(buf)
        BY <1>1, <1>2, <2>4 DEF ReaderInv
      <4>2. sent'[Len(delivered) + 1] = sent[Len(delivered) + 1]
        BY <1>4, <3>1
      <4> QED
        BY <1>1, <1>2, <1>4, <3>1, <4>1, <4>2, Numbers
  <2> QED
    BY <2>1, <2>2, <2>3, <2>4 DEF ReaderInv
<1>13. StreamIntact'
  <2> SUFFICES ASSUME NEW d \in 1 .. Len(delivered)
               PROVE  d <= Len(sent') /\ delivered[d] = BodyOf(d, sent'[d].size)
    BY <1>r DEF StreamIntact
  <2>1. d <= Len(sent) /\ delivered[d] = BodyOf(d, sent[d].size)
    BY <1>2 DEF StreamIntact
  <2>2. d \in 1 .. Len(sent) /\ d <= Len(sent')
    BY <1>n, <1>f, <2>1
  <2> QED
    BY <1>f, <2>1, <2>2
<1>14. NoFalseAlarm'
  <2>1. Len(delivered) < Len(sent) => Len(delivered) + 1 \in 1 .. Len(sent)
    BY <1>2, Numbers
  <2> QED
    BY <1>2, <1>n, <1>f, <1>r, <2>1 DEF NoFalseAlarm
<1> QED
  BY <1>5, <1>9, <1>10, <1>11, <1>12, <1>13, <1>14 DEF IInv, Inv

(* A unit more of the last frame; the reader is not beyond it.              *)
(* Numbers of units, for leaves that have much else to carry. *)
LEMMA InRange ==
  ASSUME NEW a \in Nat, NEW i \in Nat, NEW n \in Nat, i > 0, a + i <= n
  PROVE  a + i \in 1 .. n
OBVIOUS

LEMMA LastUnit ==
  ASSUME NEW a \in Nat, NEW p \in Nat, NEW m \in Nat, NEW s \in Nat, s = a + p, p + 1 = m
  PROVE  s + 1 = a + m
OBVIOUS

LEMMA NextUnit ==
  ASSUME NEW a \in Nat, NEW p \in Nat, NEW m \in Nat, NEW s \in Nat, s = a + p, p < m
  PROVE  s + 1 <= a + m /\ a <= s + 1
OBVIOUS

LEMMA MovedOn ==
  ASSUME NEW a \in Nat, NEW h \in Nat, NEW b \in Nat, NEW k \in Nat
  PROVE  (a + h + b) + k = a + h + (b + k)
OBVIOUS

LEMMA PutKeeps ==
  ASSUME IInv, NEW w \in Writers, Put(w)
  PROVE  IInv'
<1>1. /\ UNCHANGED <<size, sent, frame, conn, phase, want, buf, read, delivered, cause>>
      /\ wpc[w] = "put" /\ conn # "broken"
  BY DEF Put, rvars
<1>2. TypeOK /\ SentInv /\ WriterInv /\ StreamInv /\ ReaderInv /\ StreamIntact /\ NoFalseAlarm
  BY DEF IInv, Inv
<1>3. /\ stream' \in Seq(Unit)
      /\ Len(stream') = Len(stream) + 1
      /\ \A i \in 1 .. Len(stream) : stream'[i] = stream[i]
      /\ stream'[Len(stream) + 1] = <<frame[w], put[w] + 1>>
      /\ put' \in [Writers -> Nat] /\ put'[w] = put[w] + 1
      /\ \A v \in Writers : v # w => put'[v] = put[v] /\ wpc'[v] = wpc[v]
      /\ IF put[w] + 1 = HeaderUnits + size[w] THEN wpc'[w] = "idle"
                                               ELSE wpc'[w] = "put"
      /\ wpc' \in [Writers -> {"idle", "lock", "write", "put"}]
  BY <1>2, PutEffect
<1>4. PICK l \in Nat : l = Len(sent)
  BY <1>2, Numbers
<1>5. /\ l > 0 /\ l \in 1 .. Len(sent)
      /\ frame[w] = l
      /\ sent[l].size = size[w]
      /\ Len(stream) = sent[l].at + put[w]
      /\ put[w] < HeaderUnits + size[w]
      /\ size[w] \in Nat /\ put[w] \in Nat /\ sent[l].at \in Nat
      /\ HeaderUnits \in Nat /\ Len(stream) \in Nat /\ Len(sent) \in Nat
  <2>1. /\ Len(sent) > 0
        /\ frame[w] = Len(sent)
        /\ sent[Len(sent)].size = size[w]
        /\ Len(stream) = sent[Len(sent)].at + put[w]
        /\ put[w] < HeaderUnits + size[w]
    BY <1>1, <1>2 DEF WriterInv
  <2>2. l > 0 /\ l \in 1 .. Len(sent)
    BY <1>4, <2>1
  <2>3. /\ HeaderUnits \in Nat /\ Len(stream) \in Nat /\ Len(sent) \in Nat
        /\ sent[l].at \in Nat
    BY <1>2, <2>2, Numbers
  <2>4. size[w] \in Nat /\ put[w] \in Nat
    BY <1>2 DEF TypeOK
  <2> QED
    BY <1>4, <2>1, <2>2, <2>3, <2>4
<1>g. Len(stream') = Len(stream) + 1 /\ put'[w] = put[w] + 1
  BY <1>3
<1>6. EndOf(l) = sent[l].at + (HeaderUnits + size[w]) /\ Units(l) = HeaderUnits + size[w]
  BY <1>5 DEF EndOf, Units
<1>7. \A k \in 1 .. Len(sent) : Units(k)' = Units(k) /\ EndOf(k)' = EndOf(k)
  BY <1>1 DEF Units, EndOf
<1>8. TypeOK'
  <2>1. read <= Len(stream')
    BY <1>2, <1>3, Numbers DEF TypeOK
  <2> QED
    BY <1>1, <1>2, <1>3, <2>1 DEF TypeOK
<1>9. SentInv'
  <2>1. Len(stream') <= EndOf(l) /\ sent[l].at <= Len(stream')
    <3>1. HeaderUnits + size[w] \in Nat
      BY <1>5
    <3>2. /\ Len(stream) + 1 <= sent[l].at + (HeaderUnits + size[w])
          /\ sent[l].at <= Len(stream) + 1
      BY <1>5, <3>1, NextUnit
    <3> QED
      BY <1>g, <1>6, <3>2
  <2>2. ASSUME NEW k \in 1 .. Len(sent), k < Len(sent)
        PROVE  EndOf(k) = sent[k + 1].at /\ EndOf(k) <= Len(stream')
    <3>1. EndOf(k) = sent[k + 1].at /\ EndOf(k) <= Len(stream)
      BY <1>2, <2>2 DEF SentInv
    <3>2. EndOf(k) \in Nat
      BY <1>2, Numbers
    <3> QED
      BY <1>5, <1>g, <3>1, <3>2
  <2>3. sent[1].at = 0 /\ Len(sent) # 0
    BY <1>2, <1>4, <1>5 DEF SentInv
  <2>4. EndOf(l)' = EndOf(l) /\ l = Len(sent')
    BY <1>1, <1>4, <1>5, <1>7
  <2> QED
    BY <1>1, <1>4, <1>7, <2>1, <2>2, <2>3, <2>4 DEF SentInv
<1>10. WriterInv'
  <2>1. \A v \in Writers : v # w => wpc'[v] # "put"
    BY <1>1, <1>2, <1>3 DEF WriterInv
  <2>2. \A u, v \in Writers : wpc'[u] = "put" /\ wpc'[v] = "put" => u = v
    BY <2>1
  <2>3. \A v \in Writers : wpc'[v] # "idle" => size'[v] \in Sizes
    BY <1>1, <1>2, <1>3 DEF WriterInv
  <2>4. ASSUME NEW v \in Writers, wpc'[v] = "put"
        PROVE  /\ Len(sent') > 0
               /\ frame'[v] = Len(sent')
               /\ sent'[Len(sent')].size = size'[v]
               /\ Len(stream') = sent'[Len(sent')].at + put'[v]
               /\ put'[v] < HeaderUnits + size'[v]
    <3>1. v = w /\ put[w] + 1 # HeaderUnits + size[w]
      BY <1>3, <2>1, <2>4
    <3>2. put[w] + 1 < HeaderUnits + size[w]
      <4>1. PICK h \in Nat : h = HeaderUnits + size[w]
        BY <1>5
      <4> QED
        BY <1>5, <3>1, <4>1
    <3>3. Len(stream') = sent[l].at + put'[w]
      BY <1>g, <1>5
    <3> QED
      BY <1>1, <1>3, <1>4, <1>5, <3>1, <3>2, <3>3
  <2>5. (\A v \in Writers : wpc'[v] # "put") => Len(stream') = EndOf(l)'
    <3>1. SUFFICES ASSUME wpc'[w] # "put" PROVE Len(stream') = EndOf(l)'
      OBVIOUS
    <3>2. put[w] + 1 = HeaderUnits + size[w]
      BY <1>3, <3>1
    <3> QED
      <4>1. EndOf(l)' = EndOf(l)
        BY <1>5, <1>7
      <4> QED
        <5>1. HeaderUnits + size[w] \in Nat
          BY <1>5
        <5>2. Len(stream) + 1 = sent[l].at + (HeaderUnits + size[w])
          BY <1>5, <3>2, <5>1, LastUnit
        <5> QED
          BY <1>g, <1>6, <4>1, <5>2
  <2>6. l = Len(sent')
    BY <1>1, <1>4
  <2> QED
    BY <2>2, <2>3, <2>4, <2>5, <2>6 DEF WriterInv
<1>11. StreamInv'
  <2> SUFFICES ASSUME NEW k \in 1 .. Len(sent), NEW i \in 1 .. Units(k),
                      sent[k].at + i <= Len(stream')
               PROVE  stream'[sent[k].at + i] = <<k, i>>
    BY <1>1, <1>7 DEF StreamInv
  <2>n. sent[k].at \in Nat /\ i \in Nat /\ i > 0 /\ i <= Units(k) /\ Units(k) \in Nat
    BY <1>2, Numbers
  <2>1. CASE sent[k].at + i <= Len(stream)
    <3>1. sent[k].at + i \in 1 .. Len(stream)
      <4>1. sent[k].at \in Nat /\ i \in Nat /\ i > 0 /\ Len(stream) \in Nat
        BY <1>5, <2>n
      <4> QED
        BY <2>1, <4>1, InRange
    <3> QED
      BY <1>2, <1>3, <2>1, <3>1 DEF StreamInv
  <2>2. CASE sent[k].at + i = Len(stream) + 1
    <3>1. k = l
      <4>1. k < Len(sent) => EndOf(k) <= Len(stream)
        BY <1>2 DEF SentInv
      <4>2. EndOf(k) = sent[k].at + Units(k)
        BY <1>2, Numbers
      <4>3. ~ (EndOf(k) <= Len(stream))
        BY <1>5, <2>n, <2>2, <4>2
      <4>4. ~ (k < Len(sent))
        BY <4>1, <4>3
      <4> QED
        BY <1>4, <1>5, <4>4
    <3>2. i = put[w] + 1
      <4>1. sent[l].at + i = Len(stream) + 1
        BY <2>2, <3>1
      <4>2. PICK a \in Nat, b \in Nat, n \in Nat :
              a = sent[l].at /\ b = put[w] /\ n = Len(stream)
        BY <1>5
      <4>3. a + i = n + 1 /\ n = a + b /\ i \in Nat
        BY <1>5, <2>n, <4>1, <4>2, Zenon
      <4>4. i = b + 1
        BY <4>3, SMT
      <4> QED
        BY <4>2, <4>4
    <3> QED
      BY <1>3, <1>5, <2>2, <3>1, <3>2
  <2> QED
    <3>1. PICK a \in Nat, n \in Nat : a = sent[k].at + i /\ n = Len(stream)
      BY <1>5, <2>n
    <3>2. a <= n + 1
      BY <1>g, <3>1
    <3>3. a <= n \/ a = n + 1
      BY <3>2, SMT
    <3> QED
      BY <2>1, <2>2, <3>1, <3>3
<1>12. ReaderInv'
  <2>1. phase = "header" => Len(delivered) # Len(sent)
    <3>1. Len(stream) # EndOf(l)
      <4>1. PICK a \in Nat, b \in Nat, h \in Nat :
              a = sent[l].at /\ b = put[w] /\ h = HeaderUnits + size[w]
        BY <1>5
      <4>2. b < h /\ Len(stream) = a + b /\ EndOf(l) = a + h
        BY <1>5, <1>6, <4>1
      <4> QED
        BY <4>1, <4>2
    <3> QED
      BY <1>2, <1>4, <1>5, <3>1 DEF ReaderInv
  <2>2. ASSUME phase # "ended"
        PROVE  /\ read <= Len(stream') /\ Len(buf) <= read
               /\ \A i \in 1 .. Len(buf) : buf[i] = stream'[read - Len(buf) + i]
    <3>1. /\ read <= Len(stream) /\ Len(buf) <= read
          /\ \A i \in 1 .. Len(buf) : buf[i] = stream[read - Len(buf) + i]
      BY <1>2, <2>2 DEF ReaderInv
    <3>2. \A i \in 1 .. Len(buf) : read - Len(buf) + i \in 1 .. Len(stream)
      BY <1>2, <3>1, Numbers
    <3> QED
      <4>1. read <= Len(stream')
        BY <1>2, <1>g, <3>1, Numbers
      <4> QED
        BY <1>3, <3>1, <3>2, <4>1
  <2> QED
    BY <1>1, <1>2, <2>1, <2>2 DEF ReaderInv
<1>13. StreamIntact' /\ NoFalseAlarm'
  BY <1>1, <1>2 DEF StreamIntact, NoFalseAlarm
<1> QED
  BY <1>8, <1>9, <1>10, <1>11, <1>12, <1>13 DEF IInv, Inv

(* A step that changes neither the frames, nor the stream, nor the writers. *)
LEMMA WritersKept ==
  ASSUME SentInv, WriterInv, StreamInv, UNCHANGED wvars,
         conn' = conn \/ conn # "broken"
  PROVE  SentInv' /\ WriterInv' /\ StreamInv'
<1>1. UNCHANGED <<wpc, size, sent, frame, put, stream>>
  BY DEF wvars
<1>2. SentInv'
  BY <1>1 DEF SentInv, EndOf, Units
<1>3. WriterInv'
  BY <1>1 DEF WriterInv, EndOf, Units
<1>4. StreamInv'
  BY <1>1 DEF StreamInv, Units
<1> QED
  BY <1>2, <1>3, <1>4

(* The reader takes a piece: what it has is what lies before its place.     *)
LEMMA ReadKeeps == ASSUME IInv, Read PROVE IInv'
<1>1. PICK k \in Nat : /\ k > 0 /\ k <= Len(stream) - read /\ k <= want - Len(buf)
                       /\ Take(k)
  BY FramingAssumption DEF Read
<1>2. TypeOK /\ SentInv /\ WriterInv /\ StreamInv /\ ReaderInv /\ StreamIntact /\ NoFalseAlarm
  BY DEF IInv, Inv
<1>3. /\ buf' \in Seq(Unit)
      /\ Len(buf') = Len(buf) + k
      /\ \A i \in 1 .. Len(buf) : buf'[i] = buf[i]
      /\ \A i \in 1 .. k : buf'[Len(buf) + i] = stream[read + i]
      /\ read' = read + k
  BY <1>1, <1>2, TakeEffect
<1>n. /\ Len(buf') = Len(buf) + k /\ read' = read + k
      /\ Len(buf) \in Nat /\ read \in Nat /\ HeaderUnits \in Nat
  BY <1>2, <1>3, Numbers
<1>4. UNCHANGED <<phase, want, delivered, cause, conn>> /\ UNCHANGED wvars
  BY <1>1 DEF Take
<1>5. UNCHANGED <<wpc, size, sent, frame, put, stream>>
  BY <1>4 DEF wvars
<1>6. phase \in {"header", "body"}
  BY DEF Read, Reading
<1>7. Len(buf') <= want /\ read' <= Len(stream) /\ read' \in Nat
  BY <1>1, <1>2, <1>3, Numbers
<1>8. TypeOK'
  BY <1>2, <1>3, <1>4, <1>5, <1>7 DEF TypeOK
<1>9. ReaderInv'
  <2>1. /\ Len(buf) <= read
        /\ \A i \in 1 .. Len(buf) : buf[i] = stream[read - Len(buf) + i]
    BY <1>2, <1>6 DEF ReaderInv
  <2>2. Len(buf') <= read'
    BY <1>2, <1>3, <2>1, Numbers
  <2>3. ASSUME NEW i \in 1 .. Len(buf')
        PROVE  buf'[i] = stream[read' - Len(buf') + i]
    <3>1. read' - Len(buf') = read - Len(buf)
      BY <1>2, <1>3, Numbers
    <3>2. CASE i \in 1 .. Len(buf)
      BY <1>3, <2>1, <3>1, <3>2
    <3>3. CASE i \notin 1 .. Len(buf)
      <4>1. PICK j \in 1 .. k : i = Len(buf) + j
        <5>1. i - Len(buf) \in 1 .. k /\ i = Len(buf) + (i - Len(buf))
          BY <1>2, <1>3, <3>3, Numbers
        <5> QED
          BY <5>1
      <4>2. read - Len(buf) + i = read + j
        BY <1>2, <4>1, Numbers
      <4> QED
        BY <1>3, <3>1, <4>1, <4>2
    <3> QED
      BY <3>2, <3>3
  <2>4. phase = "header" => Len(delivered) # Len(sent)
    BY <1>1, <1>2, Numbers DEF ReaderInv
  <2>5. ASSUME phase = "header"
        PROVE  /\ want = HeaderUnits
               /\ Len(delivered) < Len(sent)
               /\ read' = sent[Len(delivered) + 1].at + Len(buf')
    <3>1. /\ want = HeaderUnits
          /\ Len(delivered) < Len(sent)
          /\ read = sent[Len(delivered) + 1].at + Len(buf)
      BY <1>2, <2>4, <2>5, Numbers DEF ReaderInv
    <3>2. Len(delivered) + 1 \in 1 .. Len(sent)
      BY <1>2, <3>1, Numbers
    <3>3. sent[Len(delivered) + 1].at \in Nat
      BY <1>2, <3>2, Numbers
    <3> QED
      BY <1>n, <3>1, <3>3
  <2>6. ASSUME phase = "body"
        PROVE  /\ Len(delivered) < Len(sent)
               /\ want = sent[Len(delivered) + 1].size
               /\ read' = sent[Len(delivered) + 1].at + HeaderUnits + Len(buf')
    <3>1. /\ Len(delivered) < Len(sent)
          /\ want = sent[Len(delivered) + 1].size
          /\ read = sent[Len(delivered) + 1].at + HeaderUnits + Len(buf)
      BY <1>2, <2>6 DEF ReaderInv
    <3>2. Len(delivered) + 1 \in 1 .. Len(sent)
      BY <1>2, <3>1, Numbers
    <3>3. sent[Len(delivered) + 1].at \in Nat
      BY <1>2, <3>2, Numbers
    <3> QED
      <4>1. k \in Nat /\ HeaderUnits \in Nat /\ Len(buf) \in Nat
        BY <1>1, <1>n
      <4>2. read + k = sent[Len(delivered) + 1].at + HeaderUnits + (Len(buf) + k)
        BY <3>1, <3>3, <4>1, MovedOn
      <4> QED
        BY <1>n, <3>1, <4>2
  <2>7. Len(delivered) <= Len(sent) /\ cause = "none"
    BY <1>2, <1>6 DEF ReaderInv
  <2> QED
    BY <1>4, <1>5, <1>7, <2>2, <2>3, <2>4, <2>5, <2>6, <2>7 DEF ReaderInv
<1>10. StreamIntact' /\ NoFalseAlarm'
  BY <1>2, <1>4, <1>5 DEF StreamIntact, NoFalseAlarm
<1> QED
  BY <1>2, <1>4, <1>8, <1>9, <1>10, WritersKept DEF IInv, Inv

(* onRecv returns. *)
LEMMA ReturnKeeps ==
  ASSUME IInv, NEW c \in {"closed", "deadline"}, phase # "ended", Return(c)
  PROVE  IInv'
<1>1. /\ UNCHANGED <<want, buf, read, delivered>> /\ UNCHANGED wvars
      /\ phase' = "ended" /\ cause' = c
      /\ conn' = IF conn = "open" THEN "closed" ELSE conn
  BY DEF Return
<1>2. UNCHANGED <<wpc, size, sent, frame, put, stream>>
  BY <1>1 DEF wvars
<1>3. TypeOK /\ SentInv /\ WriterInv /\ StreamInv /\ ReaderInv /\ StreamIntact /\ NoFalseAlarm
  BY DEF IInv, Inv
<1>4. TypeOK'
  BY <1>1, <1>2, <1>3 DEF TypeOK
<1>5. ReaderInv'
  BY <1>1, <1>2, <1>3 DEF ReaderInv
<1>6. StreamIntact' /\ NoFalseAlarm'
  BY <1>1, <1>2, <1>3 DEF StreamIntact, NoFalseAlarm
<1>7. conn' = conn \/ conn # "broken"
  BY <1>1
<1> QED
  BY <1>1, <1>3, <1>4, <1>5, <1>6, <1>7, WritersKept DEF IInv, Inv

(* A buffer that holds a header holds that of the frame that is next.       *)
LEMMA NextHeader ==
  ASSUME IInv, phase = "header", Len(buf) >= want
  PROVE  /\ Len(delivered) < Len(sent)
         /\ Len(delivered) + 1 \in 1 .. Len(sent)
         /\ buf = HeaderOf(Len(delivered) + 1)
         /\ buf[1][1] = Len(delivered) + 1
         /\ read = sent[Len(delivered) + 1].at + HeaderUnits
<1>1. TypeOK /\ StreamInv /\ ReaderInv
  BY DEF IInv, Inv
<1>2. PICK n \in Nat : n = Len(delivered) + 1
  BY <1>1, Numbers
<1>3. /\ want = HeaderUnits /\ Len(buf) = HeaderUnits
      /\ HeaderUnits \in Nat /\ HeaderUnits > 0
      /\ buf \in Seq(Unit)
  BY <1>1, Numbers DEF ReaderInv, TypeOK
<1>4. Len(delivered) < Len(sent) /\ n \in 1 .. Len(sent)
  BY <1>1, <1>2, <1>3, Numbers DEF ReaderInv
<1>5. read = sent[n].at + HeaderUnits /\ sent[n].at \in Nat
  BY <1>1, <1>2, <1>3, <1>4, Numbers DEF ReaderInv
<1>6. ASSUME NEW i \in 1 .. HeaderUnits PROVE buf[i] = <<n, i>>
  <2>1. buf[i] = stream[read - Len(buf) + i]
    BY <1>1, <1>3 DEF ReaderInv
  <2>2. read - Len(buf) + i = sent[n].at + i
    BY <1>3, <1>5
  <2>3. sent[n].at + i <= Len(stream)
    <3>1. read <= Len(stream)
      BY <1>1 DEF TypeOK
    <3> QED
      BY <1>1, <1>3, <1>5, <3>1, Numbers
  <2>4. i \in 1 .. Units(n)
    BY <1>1, <1>3, <1>4, Numbers
  <2> QED
    BY <1>1, <1>4, <2>1, <2>2, <2>3, <2>4 DEF StreamInv
<1>7. buf = HeaderOf(n)
  <2>1. buf \in [1 .. HeaderUnits -> Unit]
    BY <1>3, LenProperties
  <2> QED
    BY <1>6, <2>1 DEF HeaderOf
<1>8. buf[1][1] = n
  BY <1>3, <1>6
<1> QED
  BY <1>2, <1>4, <1>5, <1>7, <1>8

(* What Decode finds is a header, and the size in it that of the next frame.*)
LEMMA DecodeKeeps == ASSUME IInv, Decode PROVE IInv'
<1>1. phase = "header" /\ Len(buf) >= want
  BY DEF Decode
<1>2. TypeOK /\ SentInv /\ WriterInv /\ StreamInv /\ ReaderInv /\ StreamIntact /\ NoFalseAlarm
  BY DEF IInv, Inv
<1>3. PICK n \in Nat : n = Len(delivered) + 1
  BY <1>2, Numbers
<1>4. /\ Len(delivered) < Len(sent) /\ n \in 1 .. Len(sent)
      /\ buf = HeaderOf(n) /\ buf[1][1] = n
      /\ read = sent[n].at + HeaderUnits
  BY <1>1, <1>3, NextHeader
<1>5. Genuine /\ SizeIn = sent[n].size
  BY <1>4 DEF Genuine, SizeIn
<1>6. sent[n].size \in Nat /\ sent[n].size > 0 /\ sent[n].at \in Nat
  BY <1>2, <1>4, Numbers
<1>7. CASE SizeIn > MaxMessage
  <2>1. Return("oversize")
    BY <1>5, <1>7 DEF Decode
  <2>2. /\ UNCHANGED <<want, buf, read, delivered>> /\ UNCHANGED wvars
        /\ phase' = "ended" /\ cause' = "oversize"
        /\ conn' = IF conn = "open" THEN "closed" ELSE conn
    BY <2>1 DEF Return
  <2>3. UNCHANGED <<wpc, size, sent, frame, put, stream>>
    BY <2>2 DEF wvars
  <2>4. TypeOK'
    BY <1>2, <2>2, <2>3 DEF TypeOK
  <2>5. ReaderInv'
    BY <1>2, <2>2, <2>3 DEF ReaderInv
  <2>6. StreamIntact'
    BY <1>2, <2>2, <2>3 DEF StreamIntact
  <2>7. NoFalseAlarm'
    BY <1>3, <1>4, <1>5, <1>7, <2>2, <2>3 DEF NoFalseAlarm
  <2>8. conn' = conn \/ conn # "broken"
    BY <2>2
  <2> QED
    BY <1>2, <2>2, <2>4, <2>5, <2>6, <2>7, <2>8, WritersKept DEF IInv, Inv
<1>8. CASE ~ (SizeIn > MaxMessage)
  <2>1. /\ phase' = "body" /\ want' = sent[n].size /\ buf' = << >>
        /\ UNCHANGED <<read, delivered, cause, conn>> /\ UNCHANGED wvars
    BY <1>5, <1>8 DEF Decode
  <2>2. UNCHANGED <<wpc, size, sent, frame, put, stream>>
    BY <2>1 DEF wvars
  <2>3. buf' \in Seq(Unit) /\ Len(buf') = 0
    BY <2>1
  <2>4. TypeOK'
    <3>1. want' \in Nat \ {0} /\ Len(buf') <= want'
      BY <1>6, <2>1, <2>3
    <3> QED
      BY <1>2, <2>1, <2>2, <2>3, <3>1 DEF TypeOK
  <2>5. ReaderInv'
    <3>1. cause = "none"
      BY <1>1, <1>2 DEF ReaderInv
    <3>2. /\ read <= Len(stream) /\ Len(buf') <= read
          /\ read = sent[n].at + HeaderUnits + Len(buf')
      BY <1>2, <1>4, <1>6, <2>3, Numbers DEF TypeOK
    <3> QED
      BY <1>2, <1>3, <1>4, <2>1, <2>2, <2>3, <3>1, <3>2 DEF ReaderInv
  <2>6. StreamIntact' /\ NoFalseAlarm'
    BY <1>2, <2>1, <2>2 DEF StreamIntact, NoFalseAlarm
  <2> QED
    BY <1>2, <2>1, <2>4, <2>5, <2>6, WritersKept DEF IInv, Inv
<1> QED
  BY <1>7, <1>8

(* A packet is the body of the next frame, and the one after it begins      *)
(* where the reader is.                                                     *)
LEMMA DeliverKeeps == ASSUME IInv, Deliver PROVE IInv'
<1>1. /\ phase = "body" /\ phase' = "header" /\ want' = HeaderUnits /\ buf' = << >>
      /\ UNCHANGED <<read, cause, conn>> /\ UNCHANGED wvars
  BY DEF Deliver
<1>2. UNCHANGED <<wpc, size, sent, frame, put, stream>>
  BY <1>1 DEF wvars
<1>3. TypeOK /\ SentInv /\ WriterInv /\ StreamInv /\ ReaderInv /\ StreamIntact /\ NoFalseAlarm
  BY DEF IInv, Inv
<1>4. /\ Len(buf) = want
      /\ delivered' \in Seq(Seq(Unit))
      /\ Len(delivered') = Len(delivered) + 1
      /\ \A d \in 1 .. Len(delivered) : delivered'[d] = delivered[d]
      /\ delivered'[Len(delivered) + 1] = [i \in 1 .. want |-> buf[i]]
  BY <1>3, DeliverEffect
<1>5. PICK n \in Nat : n = Len(delivered) + 1
  BY <1>3, Numbers
<1>6. Len(delivered) < Len(sent) /\ n \in 1 .. Len(sent)
  BY <1>1, <1>3, <1>5, Numbers DEF ReaderInv
<1>7. /\ sent[n].at \in Nat /\ sent[n].size \in Nat /\ HeaderUnits \in Nat
      /\ HeaderUnits > 0 /\ Units(n) = HeaderUnits + sent[n].size
      /\ EndOf(n) = sent[n].at + Units(n)
  BY <1>3, <1>6, Numbers DEF Units
<1>8. /\ want = sent[n].size /\ Len(buf) = sent[n].size
      /\ read = EndOf(n)
  <2>1. /\ want = sent[n].size
        /\ read = sent[n].at + HeaderUnits + Len(buf)
    BY <1>1, <1>3, <1>5 DEF ReaderInv
  <2> QED
    BY <1>4, <1>7, <2>1
<1>9. ASSUME NEW i \in 1 .. want PROVE buf[i] = <<n, HeaderUnits + i>>
  <2>1. buf[i] = stream[read - Len(buf) + i] /\ read <= Len(stream)
    BY <1>1, <1>3, <1>4 DEF ReaderInv
  <2>2. read - Len(buf) + i = sent[n].at + (HeaderUnits + i)
    BY <1>7, <1>8
  <2>3. sent[n].at + (HeaderUnits + i) <= Len(stream)
    <3>1. i \in Int /\ i <= sent[n].size
      BY <1>7, <1>8
    <3>2. Len(stream) \in Nat /\ sent[n].at + (HeaderUnits + sent[n].size) <= Len(stream)
      BY <1>3, <1>7, <1>8, <2>1, Numbers
    <3> QED
      BY <1>7, <3>1, <3>2
  <2>4. HeaderUnits + i \in 1 .. Units(n)
    BY <1>7, <1>8
  <2> QED
    BY <1>3, <1>6, <2>1, <2>2, <2>3, <2>4 DEF StreamInv
<1>10. delivered'[n] = BodyOf(n, sent[n].size)
  BY <1>4, <1>5, <1>8, <1>9 DEF BodyOf
<1>11. buf' \in Seq(Unit) /\ Len(buf') = 0
  BY <1>1
<1>12. TypeOK'
  <2>1. want' \in Nat \ {0} /\ Len(buf') <= want'
    BY <1>1, <1>7, <1>11
  <2> QED
    BY <1>1, <1>2, <1>3, <1>4, <1>11, <2>1 DEF TypeOK
<1>13. ReaderInv'
  <2>1. Len(delivered') = n /\ n <= Len(sent)
    BY <1>4, <1>5, <1>6
  <2>2. read <= Len(stream) /\ Len(buf') <= read
    BY <1>3, <1>11, Numbers DEF TypeOK
  <2>3. n < Len(sent) => read = sent[n + 1].at + Len(buf')
    <3>1. SUFFICES ASSUME n < Len(sent) PROVE read = sent[n + 1].at + Len(buf')
      OBVIOUS
    <3>2. EndOf(n) = sent[n + 1].at
      BY <1>3, <1>6, <3>1 DEF SentInv
    <3> QED
      BY <1>3, <1>8, <1>11, <3>2, Numbers
  <2>4. n = Len(sent) => read = Len(stream) /\ Len(stream) = EndOf(n)
    <3>1. SUFFICES ASSUME n = Len(sent) PROVE read = Len(stream) /\ Len(stream) = EndOf(n)
      OBVIOUS
    <3>2. Len(stream) <= EndOf(n)
      BY <1>3, <1>6, <3>1 DEF SentInv
    <3> QED
      BY <1>3, <1>7, <1>8, <2>2, <3>2, Numbers
  <2>5. EndOf(n)' = EndOf(n)
    BY <1>2 DEF EndOf, Units
  <2>6. cause = "none"
    BY <1>1, <1>3 DEF ReaderInv
  <2> QED
    BY <1>1, <1>2, <1>11, <2>1, <2>2, <2>3, <2>4, <2>5, <2>6 DEF ReaderInv
<1>14. StreamIntact'
  <2> SUFFICES ASSUME NEW d \in 1 .. n
               PROVE  d <= Len(sent) /\ delivered'[d] = BodyOf(d, sent[d].size)
    BY <1>2, <1>4, <1>5 DEF StreamIntact
  <2>1. CASE d \in 1 .. Len(delivered)
    BY <1>3, <1>4, <2>1 DEF StreamIntact
  <2>2. CASE d = n
    BY <1>6, <1>10, <2>2
  <2> QED
    BY <1>3, <1>5, <2>1, <2>2, Numbers
<1>15. NoFalseAlarm'
  <2>1. cause' # "oversize" /\ cause' # "refused"
    BY <1>1, <1>3 DEF ReaderInv
  <2> QED
    BY <2>1 DEF NoFalseAlarm
<1> QED
  BY <1>1, <1>3, <1>12, <1>13, <1>14, <1>15, WritersKept DEF IInv, Inv

LEMMA Inductive == Spec => []IInv
<1>1. Init => IInv
  BY InitInv
<1>2. IInv /\ [Next]_vars => IInv'
  <2> SUFFICES ASSUME IInv, [Next]_vars PROVE IInv'
    OBVIOUS
  <2>1. ASSUME NEW w \in Writers, Encode(w) \/ Lock(w) PROVE IInv'
    BY <2>1, WaitKeeps
  <2>2. ASSUME NEW w \in Writers, NetWrite(w) PROVE IInv'
    BY <2>2, NetWriteKeeps
  <2>3. ASSUME NEW w \in Writers, Put(w) PROVE IInv'
    BY <2>3, PutKeeps
  <2>4. ASSUME NEW w \in Writers, WriteFails(w) PROVE IInv'
    BY <2>4, WriteFailsKeeps
  <2>5. CASE Read
    BY <2>5, ReadKeeps
  <2>6. CASE ReadFails \/ ReadDeadline
    <3>1. phase # "ended" /\ (Return("closed") \/ Return("deadline"))
      BY <2>6 DEF ReadFails, ReadDeadline, Reading
    <3> QED
      BY <3>1, ReturnKeeps
  <2>7. CASE Decode
    BY <2>7, DecodeKeeps
  <2>8. CASE Deliver
    BY <2>8, DeliverKeeps
  <2>9. CASE Close
    BY <2>9, CloseKeeps
  <2>10. CASE UNCHANGED vars
    <3>1. UNCHANGED wvars /\ UNCHANGED rvars /\ conn' = conn
      BY <2>10 DEF vars
    <3>2. UNCHANGED <<wpc, size, sent, frame, put, stream>>
      BY <3>1 DEF wvars
    <3>3. TypeOK'
      BY <3>1, <3>2 DEF rvars, IInv, TypeOK
    <3>4. SentInv' /\ WriterInv' /\ StreamInv'
      BY <3>1, WritersKept DEF IInv, Inv
    <3> QED
      BY <3>1, <3>2, <3>3, <3>4, ReaderKept DEF IInv, Inv
  <2> QED
    BY <2>1, <2>2, <2>3, <2>4, <2>5, <2>6, <2>7, <2>8, <2>9, <2>10 DEF Next
<1> QED
  BY <1>1, <1>2, PTL DEF Spec

(* The variables of Framing stay in their types; a reader never has more in *)
(* its buffer than it wants, nor has it taken more than was put.            *)
THEOREM TypeCorrect == Spec => []TypeOK
BY Inductive, PTL DEF IInv

(* Packets are the bodies of the frames, whole and in order, for any number *)
(* of writers, any cut of the stream and any end of the connection.         *)
THEOREM PacketsIntact == Spec => []StreamIntact
BY Inductive, PTL DEF IInv

(* A frame of this framework is never refused, and only one that is too     *)
(* long for dataBuffer ends a connection.                                   *)
THEOREM HeadersTrusted == Spec => []NoFalseAlarm
BY Inductive, PTL DEF IInv

(* The packets in the order of their frames: what the refinement maps to.   *)
InOrder == Arrived = [d \in 1 .. Len(delivered) |-> d]

LEMMA PacketsInOrder == IInv => InOrder
<1> SUFFICES ASSUME IInv, NEW d \in 1 .. Len(delivered)
             PROVE  FrameOf(delivered[d]) = d
  BY DEF InOrder, Arrived
<1>1. TypeOK /\ StreamIntact
  BY DEF IInv
<1>2. d \in 1 .. Len(sent) /\ delivered[d] = BodyOf(d, sent[d].size)
  BY <1>1, Numbers DEF StreamIntact
<1>3. 1 \in 1 .. sent[d].size
  BY <1>1, <1>2, Numbers
<1>4. delivered[d][1][1] = d
  BY <1>2, <1>3 DEF BodyOf
<1> QED
  BY <1>2, <1>4 DEF FrameOf

LEMMA SizesAppend ==
  ASSUME NEW s \in Seq([size : Sizes, at : Nat]), NEW t \in Seq([size : Sizes, at : Nat]),
         NEW n \in Sizes,
         Len(t) = Len(s) + 1, \A k \in 1 .. Len(s) : t[k] = s[k],
         t[Len(s) + 1].size = n
  PROVE  [k \in 1 .. Len(t) |-> t[k].size] = Append([k \in 1 .. Len(s) |-> s[k].size], n)
<1> DEFINE a == [k \in 1 .. Len(s) |-> s[k].size]
           b == [k \in 1 .. Len(t) |-> t[k].size]
<1>1. Len(s) \in Nat /\ Len(t) \in Nat
  OBVIOUS
<1>2. \A k \in 1 .. Len(s) : s[k].size \in Sizes
  <2>1. \A k \in 1 .. Len(s) : s[k] \in [size : Sizes, at : Nat]
    BY ElementOfSeq, Zenon
  <2> QED
    BY <2>1
<1>3. \A k \in 1 .. Len(t) : t[k].size \in Sizes
  <2>1. \A k \in 1 .. Len(t) : t[k] \in [size : Sizes, at : Nat]
    BY ElementOfSeq, Zenon
  <2> QED
    BY <2>1
<1>4. a \in Seq(Sizes) /\ Len(a) = Len(s) /\ \A k \in 1 .. Len(s) : a[k] = s[k].size
  BY <1>1, <1>2
<1>5. b \in Seq(Sizes) /\ Len(b) = Len(t) /\ \A k \in 1 .. Len(t) : b[k] = t[k].size
  BY <1>1, <1>3
<1> HIDE DEF a, b
<1>6. /\ Append(a, n) \in Seq(Sizes)
      /\ Len(Append(a, n)) = Len(a) + 1
      /\ \A k \in 1 .. Len(a) : Append(a, n)[k] = a[k]
      /\ Append(a, n)[Len(a) + 1] = n
  BY <1>4, AppendProperties, SMT
<1>7. \A k \in 1 .. Len(b) : b[k] = Append(a, n)[k]
  <2> SUFFICES ASSUME NEW k \in 1 .. Len(b) PROVE b[k] = Append(a, n)[k]
    OBVIOUS
  <2>1. CASE k \in 1 .. Len(s)
    BY <1>4, <1>5, <1>6, <2>1
  <2>2. CASE k = Len(s) + 1
    BY <1>4, <1>5, <1>6, <2>2
  <2>3. k \in 1 .. Len(s) + 1
    BY <1>5
  <2>4. k \in 1 .. Len(s) \/ k = Len(s) + 1
    BY <1>1, <2>3
  <2> QED
    BY <2>1, <2>2, <2>4
<1>8. Len(b) = Len(Append(a, n))
  BY <1>4, <1>5, <1>6
<1>9. b = Append(a, n)
  BY <1>5, <1>6, <1>7, <1>8, SeqEqual
<1> QED
  BY <1>9 DEF a, b

(* A step that leaves the frames and the packets alone, and does not end    *)
(* the reader, is none of the channel.                                      *)
LEMMA Stutter ==
  ASSUME InOrder, InOrder', UNCHANGED <<sent, delivered>>, UNCHANGED Over
  PROVE  UNCHANGED <<Offered, Arrived, Over>>
BY DEF InOrder, Offered

(* Framing implements FrameChannel.                                         *)
THEOREM Refines == Spec => ImplementsChannel
<1>1. Init => Channel!Init
  <2> SUFFICES ASSUME Init PROVE Offered = << >> /\ Arrived = << >> /\ Over = FALSE
    BY DEF Channel!Init
  <2>1. Len(sent) = 0 /\ Len(delivered) = 0 /\ phase # "ended"
    BY DEF Init
  <2> QED
    BY <2>1 DEF Offered, Arrived, Over
<1>2. ASSUME IInv, InOrder, InOrder', [Next]_vars
      PROVE  [Channel!Next]_<<Offered, Arrived, Over>>
  <2>1. ASSUME NEW w \in Writers, NetWrite(w) PROVE Channel!Next
    <3>1. TypeOK /\ size[w] \in Sizes
      BY <1>2, <2>1 DEF IInv, Inv, WriterInv, NetWrite
    <3>2. /\ sent' \in Seq([size : Sizes, at : Nat])
          /\ Len(sent') = Len(sent) + 1
          /\ \A k \in 1 .. Len(sent) : sent'[k] = sent[k]
          /\ sent'[Len(sent) + 1] = [size |-> size[w], at |-> Len(stream)]
      BY <2>1, <3>1, NetWriteEffect
    <3>3. sent \in Seq([size : Sizes, at : Nat]) /\ sent'[Len(sent) + 1].size = size[w]
      BY <3>1, <3>2 DEF TypeOK
    <3>4. Offered' = Append(Offered, size[w])
      BY <3>1, <3>2, <3>3, SizesAppend DEF Offered
    <3>5. delivered' = delivered /\ Over' = Over
      BY <2>1 DEF NetWrite, rvars, Over
    <3>6. Arrived' = Arrived
      BY <1>2, <3>5 DEF InOrder
    <3> QED
      BY <3>1, <3>4, <3>5, <3>6 DEF Channel!Next, Channel!Offer
  <2>2. CASE Deliver
    <3>1. TypeOK /\ ReaderInv
      BY <1>2 DEF IInv, Inv
    <3>2. /\ Len(delivered) < Len(sent) /\ Len(delivered) \in Nat
          /\ Len(delivered') = Len(delivered) + 1
      BY <2>2, <3>1, DeliverEffect, Numbers DEF ReaderInv, Deliver
    <3>3. sent' = sent /\ ~ Over /\ Over' = Over
      BY <2>2 DEF Deliver, wvars, Over
    <3>4. Offered' = Offered /\ Len(Offered) = Len(sent)
      BY <3>1, <3>3, Numbers DEF Offered
    <3>5. /\ Len(Arrived) = Len(delivered)
          /\ Arrived' = Append(Arrived, Len(Arrived) + 1)
      BY <1>2, <3>2 DEF InOrder
    <3> QED
      BY <3>2, <3>3, <3>4, <3>5 DEF Channel!Next, Channel!Arrive
  <2>3. ASSUME NEW c, phase # "ended", Return(c) PROVE Channel!Next
    <3>1. UNCHANGED <<sent, delivered>> /\ ~ Over /\ Over' = TRUE
      BY <2>3 DEF Return, wvars, Over
    <3>2. Offered' = Offered /\ Arrived' = Arrived
      BY <1>2, <3>1 DEF InOrder, Offered
    <3> QED
      BY <3>1, <3>2 DEF Channel!Next, Channel!End
  <2>4. CASE Decode
    <3>1. phase = "header"
      BY <2>4 DEF Decode
    <3>2. CASE ~ Genuine
      BY <2>3, <2>4, <3>1, <3>2 DEF Decode
    <3>3. CASE Genuine /\ SizeIn > MaxMessage
      BY <2>3, <2>4, <3>1, <3>3 DEF Decode
    <3>4. CASE Genuine /\ ~ (SizeIn > MaxMessage)
      <4>1. UNCHANGED <<sent, delivered>> /\ UNCHANGED Over
        BY <2>4, <3>1, <3>4 DEF Decode, wvars, Over
      <4> QED
        BY <1>2, <4>1, Stutter
    <3> QED
      BY <3>2, <3>3, <3>4
  <2>5. CASE ReadFails \/ ReadDeadline
    BY <2>3, <2>5 DEF ReadFails, ReadDeadline, Reading
  <2>6. CASE Read
    <3>1. UNCHANGED <<sent, delivered>> /\ UNCHANGED Over
      BY <2>6 DEF Read, Take, wvars, Over
    <3> QED
      BY <1>2, <3>1, Stutter
  <2>7. ASSUME NEW w \in Writers, Encode(w) \/ Lock(w) \/ Put(w) \/ WriteFails(w)
        PROVE  UNCHANGED <<Offered, Arrived, Over>>
    <3>1. UNCHANGED <<sent, delivered>> /\ UNCHANGED Over
      BY <2>7 DEF Encode, Lock, Put, WriteFails, rvars, Over
    <3> QED
      BY <1>2, <3>1, Stutter
  <2>8. CASE Close \/ UNCHANGED vars
    <3>1. UNCHANGED <<sent, delivered>> /\ UNCHANGED Over
      BY <2>8 DEF Close, vars, wvars, rvars, Over
    <3> QED
      BY <1>2, <3>1, Stutter
  <2> QED
    BY <1>2, <2>1, <2>2, <2>4, <2>5, <2>6, <2>7, <2>8 DEF Next
<1>3. Spec => []InOrder
  BY Inductive, PacketsInOrder, PTL
<1> QED
  BY <1>1, <1>2, <1>3, Inductive, PTL DEF Spec, ImplementsChannel, Channel!Spec, Channel!vars
=============================================================================
