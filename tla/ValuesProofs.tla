---------------------------- MODULE ValuesProofs ----------------------------
(***************************************************************************)
(* Theorems about what the system encodes and looks up, for every value of *)
(* the constants of Values:                                                *)
(*                                                                         *)
(*   the header    every size comes back, one damaged byte is found;       *)
(*   the setting   it is read from the element its path names;             *)
(*   the varints   written, read back, cut, and on any bytes;              *)
(*   the messages  what Marshal writes Unmarshal reads back, with a field  *)
(*                 the reader does not know, and with its end missing.     *)
(*                                                                         *)
(* The last part goes from the bytes up: what stands in a buffer (Begins,  *)
(* Stands), the rounds of skipPacket, the fields that FieldAt finds, what  *)
(* they make of a message (DecodeBy, Reading), one encoding after the      *)
(* other (Whole, Reads), maps in any order, what is left of a cut encoding *)
(* (Cautious), Size (OfSize), each message, a field that is not known      *)
(* (Within), and the behaviours (ValuesInv).                               *)
(***************************************************************************)
EXTENDS Values, FiniteSetTheorems, SequenceTheorems, WellFoundedInduction, TLAPS

-----------------------------------------------------------------------------
(* The header. *)

(* The weights grow. *)
LEMMA Weights ==
  /\ P1 \in Nat /\ P2 \in Nat /\ P3 \in Nat
  /\ 0 < P1 /\ P1 < P2 /\ P2 < P3
BY SMT DEF P1, P2, P3

(* The seven-bit digits of an unsigned number, and the number they make up. *)
LEMMA Digits ==
  ASSUME NEW u \in Nat, u < 128 * P3
  PROVE  /\ u % 128 \in Nat /\ u % 128 < 128
         /\ (u \div P1) % 128 \in Nat /\ (u \div P1) % 128 < 128
         /\ (u \div P2) % 128 \in Nat /\ (u \div P2) % 128 < 128
         /\ u \div P3 \in Nat /\ u \div P3 < 128
         /\ u = (u % 128) + P1 * ((u \div P1) % 128)
                  + P2 * ((u \div P2) % 128) + P3 * (u \div P3)
         /\ u < P1 <=> u \div P1 = 0
         /\ u < P2 <=> u \div P2 = 0
         /\ u < P3 <=> u \div P3 = 0
         /\ u \div P1 \in Nat /\ u \div P2 \in Nat
<1>1. u % 128 \in Nat /\ u % 128 < 128
  BY SMT DEF P1, P2, P3
<1>2. (u \div P1) % 128 \in Nat /\ (u \div P1) % 128 < 128 /\ u \div P1 \in Nat
  BY SMT DEF P1, P2, P3
<1>3. /\ (u \div P2) % 128 \in Nat /\ (u \div P2) % 128 < 128
      /\ u \div P2 \in Nat
  BY SMT DEF P1, P2, P3
<1>4. u \div P3 \in Nat /\ u \div P3 < 128
  BY SMT DEF P1, P2, P3
<1>5. u = (u % 128) + P1 * ((u \div P1) % 128)
            + P2 * ((u \div P2) % 128) + P3 * (u \div P3)
  BY SMT DEF P1, P2, P3
<1>6. u < P1 <=> u \div P1 = 0
  BY SMT DEF P1, P2, P3
<1>7. u < P2 <=> u \div P2 = 0
  BY SMT DEF P1, P2, P3
<1>8. u < P3 <=> u \div P3 = 0
  BY SMT DEF P1, P2, P3
<1> QED
  BY <1>1, <1>2, <1>3, <1>4, <1>5, <1>6, <1>7, <1>8, SMT

(* Folding a size, as a varint does, can be undone. *)
LEMMA FoldUnfold ==
  ASSUME NEW n \in Nat, n <= MaxSize
  PROVE  /\ Fold(n) \in Nat /\ Fold(n) < 128 * P3
         /\ Unfold(Fold(n)) = n
BY SMT DEF Fold, Unfold, MaxSize, P1, P2, P3

(* A byte of a varint gives back its digit, and says whether more follow.   *)
LEMMA DigitOfByte ==
  ASSUME NEW d \in Nat, d < 128, NEW m \in {0, 128}
  PROVE  /\ d + m \in Byte
         /\ (d + m) % 128 = d
         /\ d + m < 128 <=> m = 0
BY SMT DEF Byte

(* The four bytes of a size are bytes, and Varint gives the size back. *)
LEMMA VarintOfPutVarint ==
  ASSUME NEW n \in Nat, n <= MaxSize
  PROVE  /\ PutVarint(n) \in [1 .. 4 -> Byte]
         /\ Varint(PutVarint(n)) = [ok |-> TRUE, value |-> n]
<1>1. PICK u \in Nat : u = Fold(n) /\ u < 128 * P3 /\ Unfold(u) = n
  BY FoldUnfold
<1>2. PICK d1 \in Nat, d2 \in Nat, d3 \in Nat, d4 \in Nat :
        /\ d1 = u % 128 /\ d2 = (u \div P1) % 128
        /\ d3 = (u \div P2) % 128 /\ d4 = u \div P3
        /\ d1 < 128 /\ d2 < 128 /\ d3 < 128 /\ d4 < 128
        /\ u = d1 + P1 * d2 + P2 * d3 + P3 * d4
  BY <1>1, Digits, SMT
<1>3. PICK m1 \in {0, 128}, m2 \in {0, 128}, m3 \in {0, 128} :
        /\ m1 = More(u \div P1) /\ m2 = More(u \div P2)
        /\ m3 = More(u \div P3)
  BY DEF More
<1>4. PutVarint(n) = <<d1 + m1, d2 + m2, d3 + m3, d4>>
  <2>1. PutVarint(n) =
          << (Fold(n) % 128) + More(Fold(n) \div P1),
             ((Fold(n) \div P1) % 128) + More(Fold(n) \div P2),
             ((Fold(n) \div P2) % 128) + More(Fold(n) \div P3),
             Fold(n) \div P3 >>
    BY DEF PutVarint
  <2>2. /\ (Fold(n) % 128) + More(Fold(n) \div P1) = d1 + m1
        /\ ((Fold(n) \div P1) % 128) + More(Fold(n) \div P2) = d2 + m2
        /\ ((Fold(n) \div P2) % 128) + More(Fold(n) \div P3) = d3 + m3
        /\ Fold(n) \div P3 = d4
    BY <1>1, <1>2, <1>3, Zenon
  <2> QED
    BY <2>1, <2>2
<1>5. /\ m1 = 0 => u < P1
      /\ m2 = 0 => u < P2
      /\ m3 = 0 => u < P3
      /\ u < P1 => m1 = 0 /\ m2 = 0 /\ m3 = 0
      /\ u < P2 => m2 = 0 /\ m3 = 0
      /\ u < P3 => m3 = 0
  <2>1. /\ u \div P1 \in Nat /\ u \div P2 \in Nat /\ u \div P3 \in Nat
        /\ u < P1 <=> u \div P1 = 0
        /\ u < P2 <=> u \div P2 = 0
        /\ u < P3 <=> u \div P3 = 0
    BY <1>1, Digits
  <2>2. \A q \in Nat : More(q) = 0 <=> q = 0
    BY DEF More
  <2>3. /\ m1 = 0 <=> u < P1
        /\ m2 = 0 <=> u < P2
        /\ m3 = 0 <=> u < P3
    BY <1>3, <2>1, <2>2
  <2> QED
    BY <2>3, <1>1, Weights, SMT
<1>6. /\ m1 = 0 => d2 = 0 /\ m2 = 0
      /\ m2 = 0 => d3 = 0 /\ m3 = 0
      /\ m3 = 0 => d4 = 0
  <2>1. /\ u < P1 => u \div P1 = 0
        /\ u < P2 => u \div P2 = 0
        /\ u < P3 => u \div P3 = 0
    BY <1>1, Digits
  <2>2. 0 % 128 = 0
    BY SMT
  <2>3. /\ u < P1 => d2 = 0
        /\ u < P2 => d3 = 0
        /\ u < P3 => d4 = 0
    BY <1>2, <2>1, <2>2
  <2>4. u < P1 => u < P2
    BY Weights, SMT
  <2>5. u < P2 => u < P3
    BY Weights, SMT
  <2> QED
    BY <1>5, <2>3, <2>4, <2>5
<1>7. Varint(<<d1 + m1, d2 + m2, d3 + m3, d4>>) =
        [ok |-> TRUE, value |-> Unfold(d1 + P1 * d2 + P2 * d3 + P3 * d4)]
  <2> DEFINE b == <<d1 + m1, d2 + m2, d3 + m3, d4>>
             u2 == d1 + P1 * d2
             u3 == u2 + P2 * d3
             u4 == u3 + P3 * d4
             Value(v) == [ok |-> TRUE, value |-> Unfold(v)]
  <2>1. /\ b[1] = d1 + m1 /\ b[2] = d2 + m2 /\ b[3] = d3 + m3 /\ b[4] = d4
    OBVIOUS
  <2>2. /\ b[1] % 128 = d1 /\ b[2] % 128 = d2 /\ b[3] % 128 = d3
        /\ b[1] < 128 <=> m1 = 0
        /\ b[2] < 128 <=> m2 = 0
        /\ b[3] < 128 <=> m3 = 0
        /\ b[4] < 128
        /\ b[1] \in Int /\ b[2] \in Int /\ b[3] \in Int /\ b[4] \in Int
    <3>1. b[1] % 128 = d1 /\ (b[1] < 128 <=> m1 = 0) /\ b[1] \in Int
      BY <1>2, <2>1, DigitOfByte DEF Byte
    <3>2. b[2] % 128 = d2 /\ (b[2] < 128 <=> m2 = 0) /\ b[2] \in Int
      BY <1>2, <2>1, DigitOfByte DEF Byte
    <3>3. b[3] % 128 = d3 /\ (b[3] < 128 <=> m3 = 0) /\ b[3] \in Int
      BY <1>2, <2>1, DigitOfByte DEF Byte
    <3> QED
      BY <1>2, <2>1, <3>1, <3>2, <3>3
  <2>3. Varint(b) =
          IF b[1] < 128      THEN Value(d1)
          ELSE IF b[2] < 128 THEN Value(u2)
          ELSE IF b[3] < 128 THEN Value(u3)
          ELSE IF b[4] < 128 THEN Value(u4)
          ELSE [ok |-> FALSE, value |-> 0]
    BY <2>1, <2>2 DEF Varint
  <2> HIDE DEF b, Value
  <2>4. CASE m1 = 0
    <3>1. Varint(b) = Value(d1)
      BY <2>2, <2>3, <2>4
    <3>2. d1 = u4
      BY <1>6, <2>4, Weights, SMT
    <3> QED
      BY <3>1, <3>2 DEF b, Value
  <2>5. CASE m1 # 0 /\ m2 = 0
    <3>1. Varint(b) = Value(u2)
      BY <2>2, <2>3, <2>5
    <3>2. u2 = u4
      BY <1>6, <2>5, Weights, SMT
    <3> QED
      BY <3>1, <3>2 DEF b, Value
  <2>6. CASE m1 # 0 /\ m2 # 0 /\ m3 = 0
    <3>1. Varint(b) = Value(u3)
      BY <2>2, <2>3, <2>6
    <3>2. u3 = u4
      BY <1>6, <2>6, Weights, SMT
    <3> QED
      BY <3>1, <3>2 DEF b, Value
  <2>7. CASE m1 # 0 /\ m2 # 0 /\ m3 # 0
    <3>1. Varint(b) = Value(u4)
      BY <2>2, <2>3, <2>7
    <3> QED
      BY <3>1 DEF b, Value
  <2> QED
    BY <2>4, <2>5, <2>6, <2>7
<1>8. Varint(PutVarint(n)) = [ok |-> TRUE, value |-> n]
  <2>1. Unfold(d1 + P1 * d2 + P2 * d3 + P3 * d4) = n
    BY <1>1, <1>2, Zenon
  <2> QED
    BY <1>4, <1>7, <2>1
<1>9. d1 + m1 \in Byte /\ d2 + m2 \in Byte /\ d3 + m3 \in Byte /\ d4 \in Byte
  <2>1. d1 + m1 \in Byte
    BY <1>2, DigitOfByte
  <2>2. d2 + m2 \in Byte
    BY <1>2, DigitOfByte
  <2>3. d3 + m3 \in Byte
    BY <1>2, DigitOfByte
  <2>4. d4 \in Byte
    BY <1>2 DEF Byte
  <2> QED
    BY <2>1, <2>2, <2>3, <2>4
<1> QED
  BY <1>4, <1>8, <1>9

(* The signature of a size, undone, is the size. *)
LEMMA UnsignSign ==
  ASSUME NEW b \in [1 .. 4 -> Byte]
  PROVE  Unsign(Sign(b)) = b
BY DEF Sign, Unsign

(* Four bytes as a sequence. *)
LEMMA FourBytes ==
  ASSUME NEW b \in [1 .. 4 -> Byte]
  PROVE  b \in Seq(Byte) /\ Len(b) = 4
<1>1. b \in Seq(Byte)
  BY SeqDef, 4 \in Nat, Zenon
<1>2. Len(b) \in Nat /\ DOMAIN b = 1 .. Len(b)
  BY <1>1, LenProperties
<1>3. 1 .. Len(b) = 1 .. 4
  BY <1>2
<1> QED
  BY <1>1, <1>2, <1>3

(* The two halves of the header that the encoder writes. *)
LEMMA EncoderHalves ==
  ASSUME NEW n \in Nat, n <= MaxSize
  PROVE  /\ Encoder(n) \in [1 .. 8 -> Byte]
         /\ SignOf(Encoder(n)) = Sign(PutVarint(n))
         /\ SizeOf(Encoder(n)) = PutVarint(n)
<1>1. PICK b \in [1 .. 4 -> Byte] : b = PutVarint(n)
  BY VarintOfPutVarint
<1> DEFINE s == Sign(b)
<1>2. /\ b \in Seq(Byte) /\ Len(b) = 4
      /\ s \in Seq(Byte) /\ Len(s) = 4
  <2>1. b \in Seq(Byte) /\ Len(b) = 4
    BY FourBytes
  <2>2. b[1] \in Byte /\ b[2] \in Byte /\ b[3] \in Byte /\ b[4] \in Byte
    OBVIOUS
  <2>3. s \in [1 .. 4 -> Byte]
    BY <2>2 DEF Sign
  <2> HIDE DEF s
  <2>4. s \in Seq(Byte) /\ Len(s) = 4
    BY <2>3, FourBytes
  <2> QED
    BY <2>1, <2>4
<1>3. Encoder(n) = s \o b
  BY <1>1 DEF Encoder
<1>4. /\ s \o b \in Seq(Byte) /\ Len(s \o b) = 8
      /\ \A i \in 1 .. 8 : (s \o b)[i] = IF i <= 4 THEN s[i] ELSE b[i - 4]
  <2> HIDE DEF s
  <2>1. /\ s \o b \in Seq(Byte)
        /\ Len(s \o b) = Len(s) + Len(b)
        /\ \A i \in 1 .. Len(s) + Len(b) :
             (s \o b)[i] = IF i <= Len(s) THEN s[i] ELSE b[i - Len(s)]
    BY <1>2, ConcatProperties, Zenon
  <2> QED
    BY <1>2, <2>1
<1>5. s \o b \in [1 .. 8 -> Byte]
  BY <1>4, LenProperties
<1>6. /\ (s \o b)[1] = s[1] /\ (s \o b)[2] = s[2]
      /\ (s \o b)[3] = s[3] /\ (s \o b)[4] = s[4]
      /\ (s \o b)[5] = b[1] /\ (s \o b)[6] = b[2]
      /\ (s \o b)[7] = b[3] /\ (s \o b)[8] = b[4]
  <2> HIDE DEF s
  <2>1. PICK c : c = s \o b
    OBVIOUS
  <2>2. \A i \in 1 .. 8 : c[i] = IF i <= 4 THEN s[i] ELSE b[i - 4]
    BY <1>4, <2>1
  <2>3. \A i \in 1 .. 4 : c[i] = s[i]
    <3> TAKE i \in 1 .. 4
    <3>1. i \in 1 .. 8 /\ i <= 4
      OBVIOUS
    <3> QED
      BY <2>2, <3>1
  <2>4. \A i \in 1 .. 4 : c[4 + i] = b[i]
    <3> TAKE i \in 1 .. 4
    <3>1. 4 + i \in 1 .. 8 /\ ~ (4 + i <= 4) /\ (4 + i) - 4 = i
      OBVIOUS
    <3> QED
      BY <2>2, <3>1
  <2>5. c[1] = s[1] /\ c[2] = s[2] /\ c[3] = s[3] /\ c[4] = s[4]
    BY <2>3
  <2>6. c[5] = b[1] /\ c[6] = b[2] /\ c[7] = b[3] /\ c[8] = b[4]
    <3>1. 4 + 1 = 5 /\ 4 + 2 = 6 /\ 4 + 3 = 7 /\ 4 + 4 = 8
      OBVIOUS
    <3> QED
      BY <2>4, <3>1
  <2> QED
    BY <2>1, <2>5, <2>6
<1>7. SignOf(s \o b) = <<s[1], s[2], s[3], s[4]>>
  BY <1>6 DEF SignOf
<1>8. SizeOf(s \o b) = <<b[1], b[2], b[3], b[4]>>
  BY <1>6 DEF SizeOf
<1>9. <<s[1], s[2], s[3], s[4]>> = s
  BY DEF Sign
<1>10. <<b[1], b[2], b[3], b[4]>> = b
  OBVIOUS
<1> QED
  BY <1>1, <1>3, <1>5, <1>7, <1>8, <1>9, <1>10

(* What the encoder writes is accepted, and names its size. *)
LEMMA EncoderAccepted ==
  ASSUME NEW n \in Nat, n <= MaxSize
  PROVE  Accepted(Encoder(n)) /\ Decoder(Encoder(n)).value = n
<1>1. Decoder(Encoder(n)) = [ok |-> TRUE, value |-> n]
  BY EncoderHalves, VarintOfPutVarint DEF Decoder
<1>2. Varint(Unsign(SignOf(Encoder(n)))) = [ok |-> TRUE, value |-> n]
  BY EncoderHalves, VarintOfPutVarint, UnsignSign
<1> QED
  BY <1>1, <1>2 DEF Accepted, Check

(* A damaged byte is in one half of the header: the other names the size    *)
(* still.                                                                   *)
LEMMA OneHalfIntact ==
  ASSUME NEW n \in Nat, n <= MaxSize, NEW i \in 1 .. 8, NEW b \in Byte
  PROVE  \/ SignOf([Encoder(n) EXCEPT ![i] = b]) = SignOf(Encoder(n))
         \/ SizeOf([Encoder(n) EXCEPT ![i] = b]) = SizeOf(Encoder(n))
<1>1. PICK h \in [1 .. 8 -> Byte] : h = Encoder(n)
  BY EncoderHalves
<1>2. CASE i \in 1 .. 4
  <2>1. SizeOf([h EXCEPT ![i] = b]) = SizeOf(h)
    BY <1>2 DEF SizeOf
  <2> QED
    BY <1>1, <2>1
<1>3. CASE i \in 5 .. 8
  <2>1. SignOf([h EXCEPT ![i] = b]) = SignOf(h)
    BY <1>3 DEF SignOf
  <2> QED
    BY <1>1, <2>1
<1> QED
  BY <1>2, <1>3

(* What is left of a header: untouched, or with one half as it was. *)
HeaderInv ==
  /\ size \in Nat /\ size <= MaxSize
  /\ ~ damaged => header = Encoder(size)
  /\ damaged => \/ SignOf(header) = SignOf(Encoder(size))
                \/ SizeOf(header) = SizeOf(Encoder(size))

(* A header is what the encoder wrote, or has one damaged half.            *)
LEMMA HeaderInvariant == Spec => []HeaderInv
<1>1. Init => HeaderInv
  BY SizesAssumption DEF Init, HeaderInv
<1>2. HeaderInv /\ [Damage]_vars => HeaderInv'
  <2> SUFFICES ASSUME HeaderInv, [Damage]_vars PROVE HeaderInv'
    OBVIOUS
  <2>1. CASE Damage
    <3>1. /\ ~ damaged /\ damaged' = TRUE /\ size' = size
          /\ header = Encoder(size) /\ size \in Nat /\ size <= MaxSize
      BY <2>1 DEF Damage, HeaderInv
    <3>2. PICK i \in 1 .. 8, b \in Byte : header' = [header EXCEPT ![i] = b]
      BY <2>1, DamagesAssumption DEF Damage
    <3> QED
      BY <3>1, <3>2, OneHalfIntact DEF HeaderInv
  <2>2. CASE UNCHANGED vars
    BY <2>2 DEF HeaderInv, vars
  <2> QED
    BY <2>1, <2>2
<1> QED
  BY <1>1, <1>2, PTL DEF Spec

(* The reader takes from a header the size that the writer put in, for      *)
(* every size that the varint has room for (Encoder, Decoder, Check).       *)
THEOREM HeaderRoundTrip == Spec => []RoundTrip
<1>1. HeaderInv => RoundTrip
  BY EncoderAccepted, EncoderHalves DEF HeaderInv, RoundTrip
<1> QED
  BY <1>1, HeaderInvariant, PTL

(* Whatever one byte of a header turns into, Check refuses it or the size   *)
(* is the one that was put in.                                              *)
THEOREM OneByteFound == Spec => []DamageFound
<1>1. HeaderInv => DamageFound
  <2> SUFFICES ASSUME HeaderInv, damaged, Accepted(header)
               PROVE  Decoder(header).value = size
    BY DEF DamageFound
  <2>1. CASE SizeOf(header) = SizeOf(Encoder(size))
    BY <2>1, EncoderAccepted DEF HeaderInv, Decoder
  <2>2. CASE SignOf(header) = SignOf(Encoder(size))
    <3>1. Varint(Unsign(SignOf(header))).value = size
      BY <2>2, EncoderHalves, VarintOfPutVarint, UnsignSign DEF HeaderInv
    <3> QED
      BY <3>1 DEF Accepted, Check
  <2> QED
    BY <2>1, <2>2 DEF HeaderInv
<1> QED
  BY <1>1, HeaderInvariant, PTL

-----------------------------------------------------------------------------
(* Induction on the natural numbers: a least element, and a set in the      *)
(* place of a predicate.                                                    *)

NatLess == OpToRel(<, Nat)

LEMMA Less == \A x, y \in Nat : <<x, y>> \in NatLess <=> x < y
BY DEF OpToRel, NatLess

LEMMA NatLessWF == IsWellFoundedOn(NatLess, Nat)
BY NatLessThanWellFounded DEF NatLess

LEMMA Least ==
  ASSUME NEW S \in SUBSET Nat, S # {}
  PROVE  \E n \in S : \A m \in S : n <= m
<1>1. PICK n \in S : \A m \in S : ~ (<<m, n>> \in NatLess)
  BY NatLessWF, WFMin
<1>2. ASSUME NEW m \in S PROVE n <= m
  <2>1. ~ (<<m, n>> \in NatLess)
    BY <1>1
  <2>2. m \in Nat /\ n \in Nat
    OBVIOUS
  <2>3. ~ (m < n)
    BY <2>1, <2>2, Less
  <2> QED BY <2>2, <2>3
<1> QED BY <1>2

(* A set with 0 that goes from n to n + 1 has every natural number.        *)
LEMMA SetInduction ==
  ASSUME NEW S, 0 \in S, \A n \in Nat : n \in S => n + 1 \in S
  PROVE  Nat \subseteq S
<1> SUFFICES ASSUME Nat \ S # {} PROVE FALSE
  OBVIOUS
<1>1. PICK n \in Nat \ S : \A m \in Nat \ S : n <= m
  BY Least
<1>2. n # 0 /\ n - 1 \in Nat
  BY <1>1
<1>3. n - 1 \in S
  BY <1>1, <1>2
<1> QED BY <1>1, <1>2, <1>3

-----------------------------------------------------------------------------
(* The first of the children with a name. *)

Kids == Seq(Elements)

(* A pointer, and what it points to as a set. *)
Same(xml, es) == \/ xml = <<>> /\ es = {}
                 \/ \E e \in Elements : xml = <<e>> /\ es = {e}

(* FirstChildElement finds the first child with the name, or none.         *)
LEMMA FirstChild ==
  ASSUME NEW kids \in Kids, NEW name
  PROVE  Same(FirstChildElement(kids, name), First(kids, name))
<1> DEFINE named == {i \in DOMAIN kids : kids[i].name = name}
<1>1. named \in SUBSET Nat /\ \A i \in named : i \in 1 .. Len(kids) /\ kids[i] \in Elements
  BY DEF Kids
<1>2. CASE named = {}
  <2>1. First(kids, name) = {}
    BY <1>2 DEF First
  <2> QED
    BY <1>2, <2>1 DEF FirstChildElement, Same
<1>3. CASE named # {}
  <2> DEFINE first == CHOOSE i \in named : \A j \in named : i <= j
  <2>1. first \in named /\ \A j \in named : first <= j
    BY <1>1, <1>3, Least
  <2>2. FirstChildElement(kids, name) = <<kids[first]>>
    BY <1>3 DEF FirstChildElement
  <2> HIDE DEF first
  <2>3. \A i \in named : (\A j \in 1 .. i - 1 : kids[j].name # name) <=> i = first
    <3> SUFFICES ASSUME NEW i \in named
                 PROVE  (\A j \in 1 .. i - 1 : kids[j].name # name) <=> i = first
      OBVIOUS
    <3>1. i \in Nat /\ first \in Nat /\ first <= i /\ 1 <= first /\ i <= Len(kids)
      BY <1>1, <2>1
    <3>2. ASSUME i # first PROVE first \in 1 .. i - 1
      BY <3>1, <3>2
    <3>3. ASSUME i = first, NEW j \in 1 .. i - 1 PROVE kids[j].name # name
      <4>1. j \in 1 .. Len(kids) /\ ~ (first <= j)
        BY <3>1, <3>3
      <4>2. j \notin named
        BY <2>1, <4>1
      <4> QED
        BY <4>1, <4>2 DEF Kids
    <3> QED
      BY <2>1, <3>2, <3>3
  <2>4. First(kids, name) = {kids[first]}
    BY <2>1, <2>3 DEF First
  <2>5. kids[first] \in Elements
    BY <1>1, <2>1
  <2> QED
    BY <2>2, <2>4, <2>5 DEF Same
<1> QED
  BY <1>2, <1>3

-----------------------------------------------------------------------------
(* The recursive functions meet their equations. *)

(* A function on the interval from k that starts with b and goes on with G. *)
Iterates(f, k, n, X, b, G) ==
  /\ f \in [k .. n -> X]
  /\ f[k] = b
  /\ \A i \in k .. n - 1 : f[i + 1] = G[<<i + 1, f[i]>>]

(* Iterating G from k to n is a function.                                  *)
LEMMA Recursion ==
  ASSUME NEW k \in Nat, NEW n \in Nat, k <= n, NEW X, NEW b \in X, NEW G \in [Nat \X X -> X]
  PROVE  \E f : Iterates(f, k, n, X, b, G)
<1> DEFINE Is(m, f) == /\ f \in [k .. k + m -> X]
                       /\ f[k] = b
                       /\ \A i \in k .. k + m - 1 : f[i + 1] = G[<<i + 1, f[i]>>]
           S == {m \in Nat : \E f : Is(m, f)}
<1>1. 0 \in S
  <2>1. Is(0, [i \in k .. k |-> b])
    OBVIOUS
  <2> QED
    BY <2>1
<1>2. ASSUME NEW m \in Nat, m \in S
      PROVE  m + 1 \in S
  <2>1. PICK f : Is(m, f)
    BY <1>2
  <2> DEFINE g == [i \in k .. k + m + 1 |-> IF i = k + m + 1 THEN G[<<i, f[k + m]>>] ELSE f[i]]
  <2>2. k \in k .. k + m + 1 /\ k # k + m + 1 /\ k + m \in k .. k + m
    OBVIOUS
  <2>3. /\ g \in [k .. k + m + 1 -> X]
        /\ g[k] = b
    BY <2>1, <2>2
  <2>4. ASSUME NEW i \in k .. k + m
        PROVE  g[i + 1] = G[<<i + 1, g[i]>>]
    <3>1. g[i] = f[i]
      OBVIOUS
    <3>2. CASE i = k + m
      BY <3>1, <3>2
    <3>3. CASE i # k + m
      <4>1. i \in k .. k + m - 1 /\ i + 1 \in k .. k + m
        BY <3>3
      <4>2. g[i + 1] = f[i + 1]
        BY <4>1
      <4> HIDE DEF g
      <4> QED
        BY <2>1, <3>1, <4>1, <4>2
    <3> QED
      BY <3>2, <3>3
  <2> HIDE DEF g
  <2>5. Is(m + 1, g)
    <3>1. k + (m + 1) = k + m + 1 /\ k + (m + 1) - 1 = k + m
      OBVIOUS
    <3> QED
      BY <2>3, <2>4, <3>1
  <2> QED
    BY <2>5
<1>3. n - k \in S
  <2> HIDE DEF S
  <2>1. n - k \in Nat
    OBVIOUS
  <2> QED
    BY <1>1, <1>2, <2>1, SetInduction
<1>4. PICK f : Is(n - k, f)
  BY <1>3
<1>5. k + (n - k) = n
  OBVIOUS
<1>6. Iterates(f, k, n, X, b, G)
  BY <1>4, <1>5 DEF Iterates
<1> QED
  BY <1>6

(* Where a lookup may be: nowhere or at an element.                         *)
Places == {<<>>} \cup {<<e>> : e \in Elements}

LEMMA DocIsKids == \A doc \in Docs : doc \in Kids
<1> SUFFICES ASSUME NEW doc \in Docs
             PROVE  doc \in Seq(Elements)
  BY DEF Kids
<1>1. CASE doc = <<>>
  BY <1>1
<1>2. ASSUME NEW r \in Elements, doc = <<r>>
      PROVE  doc \in Seq(Elements)
  BY <1>2
<1> QED
  BY <1>1, <1>2, DocsOK DEF DocsOK

(* A step of the lookup leads to an element or nowhere.                    *)
LEMMA StepPlace ==
  ASSUME NEW doc \in Docs, NEW xml \in Places, NEW arg
  PROVE  Step(doc, xml, arg) \in Places
<1>1. doc \in Kids
  BY DocIsKids
<1>2. ASSUME xml # <<>> PROVE xml[1].children \in Kids
  BY <1>2, ElementsOK DEF Places, ElementsOK, Kids
<1> QED
  BY <1>1, <1>2, FirstChild DEF Step, Places, Same

(* The lookup goes on by a step with each name.                            *)
LEMMA LookupEquation ==
  ASSUME NEW doc \in Docs, NEW args, Len(args) \in Nat
  PROVE  /\ Lookup(doc, args)[0] = <<>>
         /\ \A i \in 0 .. Len(args) - 1 :
              Lookup(doc, args)[i + 1] = Step(doc, Lookup(doc, args)[i], args[i + 1])
<1> DEFINE n == Len(args)
           Is(f) == f = [i \in 0 .. n |-> IF i = 0 THEN <<>> ELSE Step(doc, f[i - 1], args[i])]
           G == [ix \in Nat \X Places |-> Step(doc, ix[2], args[ix[1]])]
<1>1. G \in [Nat \X Places -> Places] /\ <<>> \in Places
  BY StepPlace DEF Places
<1>2. \A i \in Nat, x \in Places : G[<<i, x>>] = Step(doc, x, args[i])
  OBVIOUS
<1> HIDE DEF G
<1>3. PICK f : Iterates(f, 0, n, Places, <<>>, G)
  <2>1. 0 \in Nat /\ n \in Nat /\ 0 <= n
    OBVIOUS
  <2> HIDE DEF n
  <2> QED
    BY <1>1, <2>1, Recursion
<1>4. ASSUME NEW i \in 0 .. n, i # 0
      PROVE  f[i] = Step(doc, f[i - 1], args[i])
  <2>1. i - 1 \in 0 .. n - 1 /\ i - 1 \in 0 .. n /\ (i - 1) + 1 = i /\ i \in Nat
    BY <1>4
  <2>2. f[i] = G[<<i, f[i - 1]>>] /\ f[i - 1] \in Places
    BY <1>3, <2>1 DEF Iterates
  <2> QED
    BY <1>2, <2>1, <2>2
<1>5. Is(f)
  BY <1>3, <1>4 DEF Iterates
<1>6. Is(Lookup(doc, args))
  BY <1>5 DEF Lookup
<1> DEFINE xml == Lookup(doc, args)
<1> HIDE DEF xml
<1>7. \A i \in 0 .. n : xml[i] = IF i = 0 THEN <<>> ELSE Step(doc, xml[i - 1], args[i])
  BY <1>6 DEF xml
<1>8. xml[0] = <<>>
  BY <1>7
<1>9. ASSUME NEW i \in 0 .. n - 1
      PROVE  xml[i + 1] = Step(doc, xml[i], args[i + 1])
  <2>1. i + 1 \in 0 .. n /\ i + 1 # 0 /\ (i + 1) - 1 = i
    OBVIOUS
  <2> QED
    BY <1>7, <2>1
<1> QED
  BY <1>8, <1>9 DEF xml

(* What a path means is found child by child.                              *)
LEMMA MeaningEquation ==
  ASSUME NEW doc \in Docs, NEW names, Len(names) \in Nat, NEW k \in 1 .. Len(names)
  PROVE  /\ Meaning(doc, names, k)[k] = First(doc, names[k])
         /\ \A i \in k .. Len(names) - 1 :
              Meaning(doc, names, k)[i + 1] =
                UNION {First(e.children, names[i + 1]) : e \in Meaning(doc, names, k)[i]}
<1> DEFINE n == Len(names)
           After(i, es) == UNION {First(e.children, names[i]) : e \in es}
           Is(f) == f = [i \in k .. n |-> IF i = k THEN First(doc, names[k])
                                         ELSE After(i, f[i - 1])]
           G == [ix \in Nat \X SUBSET Elements |-> After(ix[1], ix[2])]
<1>1. \A name : \A kids \in Kids : First(kids, name) \in SUBSET Elements
  BY FirstChild DEF Same
<1>2. \A i \in Nat, es \in SUBSET Elements : After(i, es) \in SUBSET Elements
  BY <1>1, ElementsOK DEF ElementsOK, Kids
<1>3. First(doc, names[k]) \in SUBSET Elements
  BY <1>1, DocIsKids
<1> HIDE DEF After
<1>4. /\ G \in [Nat \X SUBSET Elements -> SUBSET Elements]
      /\ \A i \in Nat, es \in SUBSET Elements : G[<<i, es>>] = After(i, es)
  BY <1>2
<1> HIDE DEF G
<1>5. PICK f : Iterates(f, k, n, SUBSET Elements, First(doc, names[k]), G)
  <2>1. k \in Nat /\ n \in Nat /\ k <= n
    OBVIOUS
  <2>2. PICK b \in SUBSET Elements : b = First(doc, names[k])
    BY <1>3
  <2> HIDE DEF n
  <2>3. \E f : Iterates(f, k, n, SUBSET Elements, b, G)
    BY <1>4, <2>1, Recursion
  <2> QED
    BY <2>2, <2>3
<1>6. ASSUME NEW i \in k .. n, i # k
      PROVE  f[i] = After(i, f[i - 1])
  <2>1. i - 1 \in k .. n - 1 /\ i - 1 \in k .. n /\ (i - 1) + 1 = i /\ i \in Nat
    BY <1>6
  <2> QED
    BY <1>4, <1>5, <2>1 DEF Iterates
<1>7. Is(f)
  BY <1>5, <1>6 DEF Iterates
<1>8. Is(Meaning(doc, names, k))
  BY <1>7 DEF Meaning, After
<1> DEFINE at == Meaning(doc, names, k)
<1> HIDE DEF at
<1>9. \A i \in k .. n : at[i] = IF i = k THEN First(doc, names[k]) ELSE After(i, at[i - 1])
  BY <1>8 DEF at
<1>10. at[k] = First(doc, names[k])
  BY <1>9
<1>11. ASSUME NEW i \in k .. n - 1
       PROVE  at[i + 1] = After(i + 1, at[i])
  <2>1. i + 1 \in k .. n /\ i + 1 # k /\ (i + 1) - 1 = i
    OBVIOUS
  <2> QED
    BY <1>9, <2>1
<1> QED
  BY <1>10, <1>11 DEF at, After

-----------------------------------------------------------------------------
(* The lookup finds what the path means. *)

(* From nowhere a step starts again at the document.                       *)
LEMMA StepHome ==
  ASSUME NEW doc \in Docs, NEW arg
  PROVE  Same(Step(doc, <<>>, arg), First(doc, arg))
BY DocIsKids, FirstChild DEF Step

(* From an element a step goes to its first child with the name.           *)
LEMMA StepOn ==
  ASSUME NEW doc \in Docs, NEW xml, NEW es, NEW arg, Same(xml, es), xml # <<>>
  PROVE  Same(Step(doc, xml, arg), UNION {First(e.children, arg) : e \in es})
<1>1. PICK e \in Elements : xml = <<e>> /\ es = {e}
  BY DEF Same
<1>2. Step(doc, xml, arg) = FirstChildElement(e.children, arg)
  BY <1>1 DEF Step
<1>3. UNION {First(x.children, arg) : x \in es} = First(e.children, arg)
  BY <1>1
<1>4. e.children \in Kids
  BY ElementsOK DEF ElementsOK, Kids
<1> QED
  BY <1>2, <1>3, <1>4, FirstChild

(* What a lookup finds, one of the later parts of the path means, if not    *)
(* the whole of it.                                                         *)
LEMMA FindsAPart ==
  ASSUME NEW doc \in Docs, NEW args, Len(args) \in Nat \ {0}
  PROVE  LET xml == Lookup(doc, args)[Len(args)]
         IN  \/ xml = <<>>
             \/ \E k \in 1 .. Len(args) : Same(xml, Meaning(doc, args, k)[Len(args)])
<1> DEFINE n == Len(args)
           xml == Lookup(doc, args)
           Part(i) == xml[i] = <<>> \/ \E k \in 1 .. i : Same(xml[i], Meaning(doc, args, k)[i])
           S == {i \in Nat : i + 1 \in 1 .. n => Part(i + 1)}
<1>1. /\ xml[0] = <<>>
      /\ \A i \in 0 .. n - 1 : xml[i + 1] = Step(doc, xml[i], args[i + 1])
  BY LookupEquation
<1> HIDE DEF xml
<1>2. ASSUME NEW i \in 0 .. n - 1, xml[i] = <<>>
      PROVE  Part(i + 1)
  <2>1. i + 1 \in 1 .. n /\ i + 1 \in 1 .. i + 1
    OBVIOUS
  <2>2. Meaning(doc, args, i + 1)[i + 1] = First(doc, args[i + 1])
    BY <2>1, MeaningEquation
  <2>3. Same(xml[i + 1], First(doc, args[i + 1]))
    BY <1>1, <1>2, StepHome
  <2> QED
    BY <2>1, <2>2, <2>3
<1>3. ASSUME NEW i \in 1 .. n - 1, Part(i)
      PROVE  Part(i + 1)
  <2>1. CASE xml[i] = <<>>
    BY <1>2, <2>1
  <2>2. CASE xml[i] # <<>>
    <3>1. PICK k \in 1 .. i : Same(xml[i], Meaning(doc, args, k)[i])
      BY <1>3, <2>2
    <3>2. k \in 1 .. n /\ i \in k .. n - 1 /\ k \in 1 .. i + 1 /\ i \in 0 .. n - 1
      OBVIOUS
    <3>3. Meaning(doc, args, k)[i + 1] =
            UNION {First(e.children, args[i + 1]) : e \in Meaning(doc, args, k)[i]}
      BY <3>2, MeaningEquation
    <3>4. Same(Step(doc, xml[i], args[i + 1]), Meaning(doc, args, k)[i + 1])
      BY <2>2, <3>1, <3>3, StepOn
    <3> QED
      BY <1>1, <3>2, <3>4
  <2> QED
    BY <2>1, <2>2
<1>4. 0 \in S
  <2>1. 0 \in 0 .. n - 1
    OBVIOUS
  <2> QED
    BY <1>1, <1>2, <2>1
<1>5. ASSUME NEW i \in Nat, i \in S
      PROVE  i + 1 \in S
  <2> HIDE DEF Part
  <2> QED
    BY <1>3, <1>5
<1>6. n - 1 \in S
  <2> HIDE DEF S
  <2>1. n - 1 \in Nat
    OBVIOUS
  <2> QED
    BY <1>4, <1>5, <2>1, SetInduction
<1> QED
  BY <1>6 DEF xml

(* In a document with the root gffg, or none, it is the whole path.         *)
LEMMA FindsThePath ==
  ASSUME NEW doc \in Docs, doc = <<>> \/ doc[1].name = "gffg",
         NEW args, Len(args) \in Nat \ {0},
         \A i \in 2 .. Len(args) : args[i] # "gffg"
  PROVE  Same(Lookup(doc, args)[Len(args)], Meaning(doc, args, 1)[Len(args)])
<1> DEFINE n == Len(args)
           xml == Lookup(doc, args)
           at == Meaning(doc, args, 1)
           S == {i \in Nat : i + 1 \in 1 .. n => Same(xml[i + 1], at[i + 1])}
<1>1. /\ xml[0] = <<>>
      /\ \A i \in 0 .. n - 1 : xml[i + 1] = Step(doc, xml[i], args[i + 1])
  BY LookupEquation
<1>2. /\ at[1] = First(doc, args[1])
      /\ \A i \in 1 .. n - 1 : at[i + 1] = UNION {First(e.children, args[i + 1]) : e \in at[i]}
  <2>1. 1 \in 1 .. n
    OBVIOUS
  <2> QED
    BY <2>1, MeaningEquation
<1> HIDE DEF xml, at
<1>3. 0 \in S
  <2>1. 0 \in 0 .. n - 1 /\ 0 + 1 = 1
    OBVIOUS
  <2>2. Same(xml[1], at[1])
    BY <1>1, <1>2, <2>1, StepHome
  <2> QED
    BY <2>2
<1>4. ASSUME NEW i \in 1 .. n - 1
      PROVE  First(doc, args[i + 1]) = {}
  <2>1. args[i + 1] # "gffg"
    OBVIOUS
  <2>2. CASE doc = <<>>
    BY <2>2 DEF First
  <2>3. CASE doc # <<>>
    <3>1. DOMAIN doc = {1} /\ doc[1].name = "gffg"
      BY <2>3, DocsOK DEF DocsOK
    <3> QED
      BY <2>1, <3>1 DEF First
  <2> QED
    BY <2>2, <2>3
<1>5. ASSUME NEW i \in 1 .. n - 1, Same(xml[i], at[i])
      PROVE  Same(xml[i + 1], at[i + 1])
  <2>1. xml[i + 1] = Step(doc, xml[i], args[i + 1])
    BY <1>1
  <2>2. at[i + 1] = UNION {First(e.children, args[i + 1]) : e \in at[i]}
    BY <1>2
  <2>3. CASE xml[i] = <<>>
    <3>1. at[i] = {}
      BY <1>5, <2>3 DEF Same
    <3>2. at[i + 1] = {}
      BY <2>2, <3>1
    <3>3. Same(xml[i + 1], {})
      BY <1>4, <2>1, <2>3, StepHome
    <3> QED
      BY <3>2, <3>3
  <2>4. CASE xml[i] # <<>>
    BY <1>5, <2>1, <2>2, <2>4, StepOn
  <2> QED
    BY <2>3, <2>4
<1>6. ASSUME NEW i \in Nat, i \in S
      PROVE  i + 1 \in S
  BY <1>5, <1>6
<1>7. n - 1 \in S
  <2> HIDE DEF S
  <2>1. n - 1 \in Nat
    OBVIOUS
  <2> QED
    BY <1>3, <1>6, <2>1, SetInduction
<1> QED
  BY <1>7 DEF xml, at

(* The path that Get looks up is not empty, and gffg is only its first     *)
(* name.                                                                   *)
LEMMA FullPathOK ==
  ASSUME NEW p \in Seq(Names)
  PROVE  /\ Len(FullPath(p)) \in Nat \ {0}
         /\ \A i \in 2 .. Len(FullPath(p)) : FullPath(p)[i] # "gffg"
<1>1. /\ Len(FullPath(p)) = 1 + Len(p)
      /\ \A i \in 2 .. 1 + Len(p) : FullPath(p)[i] = p[i - 1]
  BY DEF FullPath
<1>2. \A i \in 1 .. Len(p) : p[i] # "gffg"
  BY PathsOK DEF PathsOK
<1> QED
  BY <1>1, <1>2

-----------------------------------------------------------------------------
(* What is read. *)

ConfigInv == /\ iconf = <<>> \/ \E d \in Docs : iconf = <<d>>
             /\ path \in Seq(Names)
             /\ read = {} \/ read = {Readings(Get(iconf, path))}

(* Everything that was read so far is what its path means.                 *)
LEMMA ConfigInvariant == ConfigSpec => []ConfigInv
<1>1. ConfigInit => ConfigInv
  BY DEF ConfigInit, ConfigInv
<1>2. ConfigInv /\ [Load \/ Ask]_configVars => ConfigInv'
  BY PathsOK DEF PathsOK, ConfigInv, Load, Ask, configVars
<1> QED
  BY <1>1, <1>2, PTL DEF ConfigSpec

(* A reader of an element reads its text, one of nothing has the defaults. *)
LEMMA ReadOf ==
  ASSUME NEW xml, NEW es, Same(xml, es)
  PROVE  {Readings(IF xml = <<>> THEN <<>> ELSE <<xml[1].text>>)} =
           IF es = {} THEN {Defaults} ELSE {ReadingsOf(e) : e \in es}
<1>1. Readings(<<>>) = Defaults
  BY DEF Readings, String, Int64, Bool, Defaults
<1>2. \A e \in Elements : Readings(<<e.text>>) = ReadingsOf(e)
  BY DEF Readings, String, Int64, Bool, ReadingsOf
<1>3. CASE xml = <<>> /\ es = {}
  BY <1>1, <1>3
<1>4. ASSUME NEW e \in Elements, xml = <<e>> /\ es = {e}
      PROVE  {Readings(IF xml = <<>> THEN <<>> ELSE <<xml[1].text>>)} =
               IF es = {} THEN {Defaults} ELSE {ReadingsOf(x) : x \in es}
  <2>1. (IF xml = <<>> THEN <<>> ELSE <<xml[1].text>>) = <<e.text>>
    BY <1>4
  <2>2. es # {} /\ {ReadingsOf(x) : x \in es} = {ReadingsOf(e)}
    BY <1>4
  <2> QED
    BY <1>2, <2>1, <2>2
<1> QED
  BY <1>3, <1>4 DEF Same

(* Every setting is read from the element its path names: for documents of  *)
(* any depth and paths of any length.                                       *)
THEOREM SettingsCorrect == ConfigSpec => []SettingOfItsPath
<1>1. ConfigInv => SettingOfItsPath
  <2> SUFFICES ASSUME ConfigInv, read # {}
               PROVE  SettingOfItsPath
    BY DEF SettingOfItsPath
  <2>1. path \in Seq(Names) /\ read = {Readings(Get(iconf, path))}
    BY DEF ConfigInv
  <2>2. CASE iconf = <<>>
    BY <2>1, <2>2 DEF SettingOfItsPath, Get, Readings, String, Int64, Bool,
       Defaults
  <2>3. ASSUME NEW doc \in Docs, iconf = <<doc>>
        PROVE  SettingOfItsPath
    <3> DEFINE full == FullPath(path)
               xml == Lookup(doc, full)[Len(full)]
               Named(k) == Meaning(doc, full, k)[Len(full)]
               found(es) == IF es = {} THEN {Defaults} ELSE {ReadingsOf(e) : e \in es}
    <3>1. iconf # <<>> /\ iconf[1] = doc
      BY <2>3
    <3>2. read = {Readings(IF xml = <<>> THEN <<>> ELSE <<xml[1].text>>)}
      BY <2>1, <3>1 DEF Get, GetXml
    <3>3. Len(full) \in Nat \ {0} /\ \A i \in 2 .. Len(full) : full[i] # "gffg"
      BY <2>1, FullPathOK
    <3> HIDE DEF full
    <3>4. CASE doc = <<>> \/ doc[1].name = "gffg"
      <4>1. Same(xml, Named(1))
        BY <3>3, <3>4, FindsThePath
      <4>2. read = found(Named(1))
        <5> HIDE DEF xml, Named
        <5> QED
          BY <3>2, <4>1, ReadOf
      <4> QED
        BY <3>1, <3>4, <4>2 DEF SettingOfItsPath, full
    <3>5. CASE ~ (doc = <<>> \/ doc[1].name = "gffg")
      <4> SUFFICES read \subseteq {Defaults} \cup
                     {ReadingsOf(e) : e \in UNION {Named(k) : k \in 1 .. Len(full)}}
        BY <3>1, <3>5 DEF SettingOfItsPath, full
      <4>1. CASE xml = <<>>
        <5>1. Same(xml, {})
          BY <4>1 DEF Same
        <5>2. read = {Defaults}
          <6> HIDE DEF xml
          <6> QED
            BY <3>2, <5>1, ReadOf
        <5> QED
          BY <5>2
      <4>2. ASSUME NEW k \in 1 .. Len(full), Same(xml, Named(k))
            PROVE  read \subseteq {Defaults} \cup {ReadingsOf(e) : e \in Named(k)}
        <5> HIDE DEF xml, Named
        <5>1. read = found(Named(k))
          BY <3>2, <4>2, ReadOf
        <5> QED
          BY <5>1
      <4>3. xml = <<>> \/ \E k \in 1 .. Len(full) : Same(xml, Named(k))
        BY <3>3, FindsAPart
      <4> HIDE DEF xml, Named
      <4> QED
        BY <4>1, <4>2, <4>3
    <3> QED
      BY <3>4, <3>5
  <2> QED
    BY <2>2, <2>3 DEF ConfigInv
<1> QED
  BY <1>1, ConfigInvariant, PTL

-----------------------------------------------------------------------------
(* Varints. *)

(* The powers of two meet their equation.                                  *)
LEMMA Pow2Equation ==
  /\ Pow2[0] = 1
  /\ \A b \in 0 .. WordBits + 6 : Pow2[b] \in Nat \ {0} /\ Pow2[b + 1] = 2 * Pow2[b]
<1> DEFINE n == WordBits + 7
           Is(f) == f = [b \in 0 .. n |-> IF b = 0 THEN 1 ELSE 2 * f[b - 1]]
           G == [ix \in Nat \X Nat |-> 2 * ix[2]]
<1>1. n \in Nat /\ 0 \in Nat /\ 0 <= n /\ 1 \in Nat
  BY WordBitsAssumption DEF WordBitsAssumption
<1>2. G \in [Nat \X Nat -> Nat] /\ \A i, x \in Nat : G[<<i, x>>] = 2 * x
  OBVIOUS
<1> HIDE DEF G, n
<1>3. PICK f : Iterates(f, 0, n, Nat, 1, G)
  BY <1>1, <1>2, Recursion
<1>4. ASSUME NEW b \in 0 .. n, b # 0
      PROVE  f[b] = 2 * f[b - 1]
  <2>1. b - 1 \in 0 .. n - 1 /\ b - 1 \in 0 .. n /\ (b - 1) + 1 = b /\ b \in Nat
    BY <1>1, <1>4
  <2> QED
    BY <1>2, <1>3, <2>1 DEF Iterates
<1>5. Is(f)
  BY <1>3, <1>4 DEF Iterates
<1>6. Is(Pow2)
  BY <1>5 DEF Pow2, n
<1>7. \A b \in 0 .. n : Pow2[b] = IF b = 0 THEN 1 ELSE 2 * Pow2[b - 1]
  BY <1>6
<1>8. Pow2[0] = 1
  BY <1>1, <1>7
<1>9. \A b \in 0 .. n - 1 : Pow2[b + 1] = 2 * Pow2[b]
  <2> TAKE b \in 0 .. n - 1
  <2>1. b + 1 \in 0 .. n /\ b + 1 # 0 /\ (b + 1) - 1 = b
    BY <1>1
  <2> QED
    BY <1>7, <2>1
<1> DEFINE S == {b \in Nat : b <= n => Pow2[b] \in Nat \ {0}}
<1>10. 0 \in S
  BY <1>8
<1>11. ASSUME NEW b \in Nat, b \in S PROVE b + 1 \in S
  BY <1>1, <1>9, <1>11
<1>12. Nat \subseteq S
  <2> HIDE DEF S
  <2> QED
    BY <1>10, <1>11, SetInduction
<1>13. \A b \in 0 .. n : Pow2[b] \in Nat \ {0}
  BY <1>1, <1>12
<1>14. n - 1 = WordBits + 6 /\ \A b \in 0 .. WordBits + 6 : b \in 0 .. n - 1 /\ b \in 0 .. n
  BY WordBitsAssumption DEF WordBitsAssumption, n
<1> QED
  BY <1>8, <1>9, <1>13, <1>14

LEMMA Pow2Last == Pow2[WordBits + 7] \in Nat \ {0}
<1>1. WordBits + 6 \in 0 .. WordBits + 6 /\ (WordBits + 6) + 1 = WordBits + 7
  BY WordBitsAssumption DEF WordBitsAssumption
<1>2. Pow2[(WordBits + 6) + 1] = 2 * Pow2[WordBits + 6] /\ Pow2[WordBits + 6] \in Nat \ {0}
  BY <1>1, Pow2Equation
<1> QED
  BY <1>1, <1>2

LEMMA Pow2Nat == \A b \in 0 .. WordBits + 7 : Pow2[b] \in Nat \ {0}
<1> TAKE b \in 0 .. WordBits + 7
<1>1. b \in 0 .. WordBits + 6 \/ b = WordBits + 7
  BY WordBitsAssumption DEF WordBitsAssumption
<1> QED
  BY <1>1, Pow2Equation, Pow2Last

LEMMA Pow2Grows ==
  ASSUME NEW a \in 0 .. WordBits + 7, NEW b \in a .. WordBits + 7
  PROVE  Pow2[a] <= Pow2[b]
<1> DEFINE S == {d \in Nat : a + d <= WordBits + 7 => Pow2[a] <= Pow2[a + d]}
<1>1. 0 \in S
  <2>1. a + 0 = a /\ Pow2[a] \in Nat
    BY Pow2Nat
  <2> QED
    BY <2>1
<1>2. ASSUME NEW d \in Nat, d \in S PROVE d + 1 \in S
  <2> SUFFICES ASSUME a + (d + 1) <= WordBits + 7
               PROVE  Pow2[a] <= Pow2[a + (d + 1)]
    OBVIOUS
  <2>1. /\ a + (d + 1) = (a + d) + 1
        /\ a + d \in 0 .. WordBits + 6
        /\ a + d <= WordBits + 7
    BY WordBitsAssumption DEF WordBitsAssumption
  <2>2. Pow2[(a + d) + 1] = 2 * Pow2[a + d] /\ Pow2[a + d] \in Nat /\ Pow2[a] \in Nat
    BY <2>1, Pow2Equation, Pow2Nat
  <2>3. Pow2[a] <= Pow2[a + d]
    BY <1>2, <2>1
  <2> QED
    BY <2>1, <2>2, <2>3
<1>3. b - a \in S
  <2> HIDE DEF S
  <2>1. b - a \in Nat
    OBVIOUS
  <2> QED
    BY <1>1, <1>2, <2>1, SetInduction
<1>4. a + (b - a) = b /\ b <= WordBits + 7
  OBVIOUS
<1> QED
  BY <1>3, <1>4

(* Seven bits are a factor of 128.                                         *)
LEMMA Pow2Seven ==
  ASSUME NEW b \in 0 .. WordBits
  PROVE  Pow2[b + 7] = 128 * Pow2[b]
<1>1. \A i \in 0 .. 6 : /\ b + i \in 0 .. WordBits + 6
                        /\ (b + i) + 1 = b + (i + 1)
  BY WordBitsAssumption DEF WordBitsAssumption
<1>2. \A i \in 0 .. 6 : /\ Pow2[b + (i + 1)] = 2 * Pow2[b + i]
                        /\ Pow2[b + i] \in Nat
  BY <1>1, Pow2Equation
<1>3. b + 0 = b
  OBVIOUS
<1> DEFINE p(i) == Pow2[b + i]
<1>4. /\ p(1) = 2 * p(0) /\ p(2) = 2 * p(1) /\ p(3) = 2 * p(2) /\ p(4) = 2 * p(3)
      /\ p(5) = 2 * p(4) /\ p(6) = 2 * p(5) /\ p(7) = 2 * p(6)
      /\ p(0) \in Nat /\ p(0) = Pow2[b]
  BY <1>2, <1>3
<1> HIDE DEF p
<1>5. p(7) = 128 * Pow2[b]
  BY <1>4
<1> QED
  BY <1>5 DEF p

Words == {x \in Nat : x < Pow2[WordBits]}

(* A word has as many bits as BitLen says.                                 *)
LEMMA BitLenOK ==
  ASSUME NEW x \in Words
  PROVE  /\ BitLen(x) \in 1 .. WordBits
         /\ x < Pow2[BitLen(x)]
         /\ BitLen(x) = 1 \/ Pow2[BitLen(x) - 1] <= x
<1> DEFINE S == {b \in 1 .. WordBits : x < Pow2[b]}
<1>1. WordBits \in S
  BY WordBitsAssumption DEF WordBitsAssumption, Words
<1>0. S \in SUBSET Nat /\ S # {}
  BY <1>1
<1>2. PICK b \in S : \A c \in S : b <= c
  <2> HIDE DEF S
  <2> QED
    BY <1>0, Least
<1>3. ASSUME b # 1 PROVE Pow2[b - 1] <= x
  <2>1. b \in 1 .. WordBits /\ WordBits \in Nat
    BY <1>2, WordBitsAssumption DEF WordBitsAssumption
  <2>2. b - 1 \in 1 .. WordBits /\ b - 1 \in 0 .. WordBits + 7 /\ ~ (b <= b - 1)
    BY <2>1, <1>3
  <2>3. Pow2[b - 1] \in Nat /\ x \in Nat
    BY <2>2, Pow2Nat DEF Words
  <2>4. b - 1 \notin S
    BY <1>2, <2>2
  <2> QED
    BY <2>2, <2>3, <2>4
<1>4. \E c \in 1 .. WordBits : /\ x < Pow2[c] \/ c = WordBits
                               /\ Pow2[c - 1] <= x \/ c = 1
  BY <1>2, <1>3
<1>5. /\ BitLen(x) \in 1 .. WordBits
      /\ x < Pow2[BitLen(x)] \/ BitLen(x) = WordBits
      /\ Pow2[BitLen(x) - 1] <= x \/ BitLen(x) = 1
  BY <1>4 DEF BitLen
<1>6. x < Pow2[WordBits]
  BY DEF Words
<1> QED
  BY <1>5, <1>6

(* sovPacket counts the sevens that it takes to hold x, and no more.        *)
LEMMA SovBounds ==
  ASSUME NEW x \in Words
  PROVE  /\ sovPacket(x) \in 1 .. WordBits
         /\ 7 * (sovPacket(x) - 1) < WordBits
         /\ x < Pow2[7 * (sovPacket(x) - 1) + 7]
         /\ sovPacket(x) # 1 => Pow2[7 * (sovPacket(x) - 1)] <= x
<1> DEFINE b == BitLen(x)
           n == sovPacket(x)
<1>1. /\ b \in 1 .. WordBits /\ x < Pow2[b] /\ (b = 1 \/ Pow2[b - 1] <= x)
      /\ x \in Nat
  BY BitLenOK DEF Words
<1>2. n = (b + 6) \div 7
  BY DEF sovPacket
<1> HIDE DEF b, n
<1>3. /\ n \in 1 .. WordBits
      /\ b <= 7 * n /\ 7 * n <= b + 6
  BY <1>1, <1>2, WordBitsAssumption DEF WordBitsAssumption
<1>4. /\ 7 * (n - 1) \in 0 .. WordBits /\ 7 * (n - 1) < WordBits
      /\ 7 * (n - 1) + 7 \in b .. WordBits + 7
      /\ b \in 0 .. WordBits + 7
      /\ n # 1 => /\ b # 1
                  /\ b - 1 \in 7 * (n - 1) .. WordBits + 7
                  /\ 7 * (n - 1) \in 0 .. WordBits + 7
  BY <1>1, <1>3, WordBitsAssumption DEF WordBitsAssumption
<1>5. x < Pow2[7 * (n - 1) + 7]
  <2>1. Pow2[b] <= Pow2[7 * (n - 1) + 7]
    BY <1>4, Pow2Grows
  <2>2. Pow2[b] \in Nat /\ Pow2[7 * (n - 1) + 7] \in Nat
    BY <1>1, <1>4, Pow2Nat
  <2> QED
    BY <1>1, <2>1, <2>2
<1>6. ASSUME n # 1 PROVE Pow2[7 * (n - 1)] <= x
  <2>1. Pow2[7 * (n - 1)] <= Pow2[b - 1]
    BY <1>4, <1>6, Pow2Grows
  <2>2. Pow2[b - 1] \in Nat /\ Pow2[7 * (n - 1)] \in Nat
    BY <1>1, <1>4, <1>6, Pow2Nat
  <2> QED
    BY <1>1, <1>4, <1>6, <2>1, <2>2
<1> QED
  BY <1>3, <1>4, <1>5, <1>6 DEF n

(* One turn of v >>= 7 after the other.                                     *)
LEMMA ShiftedEquation ==
  ASSUME NEW x \in Nat
  PROVE  /\ Shifted(x)[0] = x
         /\ \A i \in 0 .. WordBits : Shifted(x)[i] \in Nat
         /\ \A i \in 0 .. WordBits - 1 : Shifted(x)[i + 1] = Shifted(x)[i] \div 128
<1> DEFINE n == WordBits
           Is(f) == f = [i \in 0 .. n |-> IF i = 0 THEN x ELSE f[i - 1] \div 128]
           G == [ix \in Nat \X Nat |-> ix[2] \div 128]
           v == CHOOSE f : Is(f)
<1>1. n \in Nat /\ 0 \in Nat /\ 0 <= n
  BY WordBitsAssumption DEF WordBitsAssumption
<1>2. G \in [Nat \X Nat -> Nat] /\ \A i, y \in Nat : G[<<i, y>>] = y \div 128
  OBVIOUS
<1>v. Shifted(x) = v
  BY DEF Shifted
<1> HIDE DEF G, n
<1>3. PICK f : Iterates(f, 0, n, Nat, x, G)
  BY <1>1, <1>2, Recursion
<1>4. ASSUME NEW i \in 0 .. n, i # 0
      PROVE  f[i] = f[i - 1] \div 128
  <2>1. i - 1 \in 0 .. n - 1 /\ i - 1 \in 0 .. n /\ (i - 1) + 1 = i /\ i \in Nat
    BY <1>1, <1>4
  <2>2. f[i - 1] \in Nat /\ f[(i - 1) + 1] = G[<<(i - 1) + 1, f[i - 1]>>]
    BY <1>3, <2>1 DEF Iterates
  <2> QED
    BY <1>2, <2>1, <2>2
<1>5. Is(f)
  BY <1>3, <1>4 DEF Iterates
<1>6. Is(v)
  BY <1>5
<1> HIDE DEF v
<1>7. \A i \in 0 .. n : v[i] = IF i = 0 THEN x ELSE v[i - 1] \div 128
  BY <1>6
<1>8. v[0] = x
  BY <1>1, <1>7
<1>9. \A i \in 0 .. n - 1 : v[i + 1] = v[i] \div 128
  <2> TAKE i \in 0 .. n - 1
  <2>1. i + 1 \in 0 .. n /\ i + 1 # 0 /\ (i + 1) - 1 = i
    BY <1>1
  <2> QED
    BY <1>7, <2>1
<1> DEFINE S == {i \in Nat : i <= n => v[i] \in Nat}
<1>10. 0 \in S
  BY <1>8
<1>11. ASSUME NEW i \in Nat, i \in S PROVE i + 1 \in S
  BY <1>1, <1>9, <1>11
<1>12. Nat \subseteq S
  <2> HIDE DEF S
  <2> QED
    BY <1>10, <1>11, SetInduction
<1>13. \A i \in 0 .. n : v[i] \in Nat
  BY <1>1, <1>12
<1> QED
  BY <1>8, <1>9, <1>13, <1>v DEF n

(* What is left after k turns is x without its last 7k bits.                *)
LEMMA ShiftedBounds ==
  ASSUME NEW x \in Words, NEW k \in 0 .. sovPacket(x) - 1
  PROVE  /\ 7 * k \in 0 .. WordBits - 1
         /\ Shifted(x)[k] \in Nat
         /\ Shifted(x)[k] * Pow2[7 * k] <= x
         /\ x < (Shifted(x)[k] + 1) * Pow2[7 * k]
<1> DEFINE n == sovPacket(x)
           v(i) == Shifted(x)[i]
           p(i) == Pow2[7 * i]
           S == {i \in Nat : i <= n - 1 => /\ v(i) * p(i) <= x
                                           /\ x < (v(i) + 1) * p(i)}
<1>1. n \in 1 .. WordBits /\ 7 * (n - 1) < WordBits /\ WordBits \in Nat /\ x \in Nat
  BY SovBounds, WordBitsAssumption DEF WordBitsAssumption, Words
<1>2. \A i \in 0 .. n - 1 : /\ i \in 0 .. WordBits - 1
                            /\ i \in 0 .. WordBits
                            /\ 7 * i \in 0 .. WordBits - 1
                            /\ 7 * i \in 0 .. WordBits
                            /\ 7 * i \in 0 .. WordBits + 7
                            /\ 7 * (i + 1) = 7 * i + 7
  <2> HIDE DEF n
  <2> QED
    BY <1>1
<1>3. /\ v(0) = x
      /\ \A i \in 0 .. n - 1 : v(i) \in Nat /\ v(i + 1) = v(i) \div 128
  BY <1>1, <1>2, ShiftedEquation
<1>4. /\ p(0) = 1
      /\ \A i \in 0 .. n - 1 : p(i) \in Nat \ {0} /\ p(i + 1) = 128 * p(i)
  <2>1. 7 * 0 = 0
    OBVIOUS
  <2> QED
    BY <1>2, <2>1, Pow2Equation, Pow2Nat, Pow2Seven
<1> HIDE DEF n, v, p
<1>5. 0 \in S
  BY <1>1, <1>3, <1>4
<1>6. ASSUME NEW i \in Nat, i \in S PROVE i + 1 \in S
  <2> SUFFICES ASSUME i + 1 <= n - 1
               PROVE  /\ v(i + 1) * p(i + 1) <= x
                      /\ x < (v(i + 1) + 1) * p(i + 1)
    OBVIOUS
  <2>1. i \in 0 .. n - 1 /\ i + 1 \in 0 .. n - 1 /\ i <= n - 1
    BY <1>1
  <2>2. v(i) * p(i) <= x /\ x < (v(i) + 1) * p(i)
    BY <1>6, <2>1
  <2>3. PICK a, q, d, r \in Nat : a = v(i) /\ q = p(i) /\ d = v(i + 1) /\ r = v(i) % 128
    BY <1>3, <1>4, <2>1
  <2>4. a = 128 * d + r /\ r < 128 /\ p(i + 1) = 128 * q
    BY <1>3, <1>4, <2>1, <2>3
  <2>5. a * q = d * (128 * q) + r * q
    BY <2>3, <2>4
  <2>6. r * q >= 0 /\ (r + 1) * q <= 128 * q
    BY <2>3, <2>4
  <2>7. /\ (d + 1) * (128 * q) = d * (128 * q) + 128 * q
        /\ (a + 1) * q = a * q + q
        /\ (r + 1) * q = r * q + q
    <3>1. (d + 1) * (128 * q) = d * (128 * q) + 128 * q
      BY <2>3
    <3>2. (a + 1) * q = a * q + q
      BY <2>3
    <3>3. (r + 1) * q = r * q + q
      BY <2>3
    <3> QED
      BY <3>1, <3>2, <3>3
  <2>8. a * q \in Nat /\ d * (128 * q) \in Nat /\ r * q \in Nat
    BY <2>3
  <2>9. a * q <= x /\ x < (a + 1) * q
    BY <2>2, <2>3
  <2>10. d * (128 * q) <= x /\ x < (d + 1) * (128 * q)
    BY <1>1, <2>3, <2>5, <2>6, <2>7, <2>8, <2>9
  <2> QED
    BY <2>3, <2>4, <2>10
<1>7. Nat \subseteq S
  <2> HIDE DEF S
  <2> QED
    BY <1>5, <1>6, SetInduction
<1>8. k \in 0 .. n - 1 /\ k \in Nat
  BY <1>1 DEF n
<1>9. v(k) * p(k) <= x /\ x < (v(k) + 1) * p(k)
  BY <1>1, <1>7, <1>8
<1> QED
  BY <1>2, <1>3, <1>8, <1>9 DEF v, p

LEMMA ByteNat == \A b \in Bytes : b \in Nat /\ b % 128 \in Nat
BY DEF Bytes

LEMMA SmallMod == \A a \in Nat : a < 128 => a % 128 = a
OBVIOUS

(* A word that is not negative is written as it is.                        *)
LEMMA UnsignedWord == \A x \in Words : Unsigned(x) = x
<1>1. Pow2[WordBits] \in Nat \ {0}
  BY Pow2Nat, WordBitsAssumption DEF WordBitsAssumption
<1>2. \A x, m \in Nat : x < m => x % m = x
  OBVIOUS
<1> QED
  BY <1>1, <1>2 DEF Unsigned, Words

(* Seven bits go over, and what they are worth with them.                   *)
LEMMA OneTurn ==
  ASSUME NEW a \in Nat, NEW q \in Nat, NEW c \in Nat, NEW x \in Nat, c + a * q = x
  PROVE  (c + (a % 128) * q) + (a \div 128) * (128 * q) = x
<1>1. PICK d, r \in Nat : d = a \div 128 /\ r = a % 128
  OBVIOUS
<1>2. a = 128 * d + r
  BY <1>1
<1>3. a * q = d * (128 * q) + r * q
  BY <1>2
<1>4. d * (128 * q) \in Nat /\ r * q \in Nat
  OBVIOUS
<1>5. (c + r * q) + d * (128 * q) = x
  BY <1>3, <1>4
<1> QED
  BY <1>1, <1>5

(* The loop of encodeVarintPacket stops where sovPacket says: only the      *)
(* last of its bytes is below 128.                                          *)
THEOREM VarintBytes ==
  ASSUME NEW x \in Words
  PROVE  /\ encodeVarintPacket(x) \in [1 .. sovPacket(x) -> Bytes]
         /\ \A k \in 1 .. sovPacket(x) :
              /\ encodeVarintPacket(x)[k] < 128 <=> k = sovPacket(x)
              /\ Shifted(x)[k - 1] < 128 <=> k = sovPacket(x)
              /\ encodeVarintPacket(x)[k] % 128 = Shifted(x)[k - 1] % 128
<1> DEFINE n == sovPacket(x)
           v(i) == Shifted(x)[i]
           p(i) == Pow2[7 * i]
           e == encodeVarintPacket(x)
<1>1. /\ n \in 1 .. WordBits /\ 7 * (n - 1) < WordBits /\ WordBits \in Nat /\ x \in Nat
      /\ x < Pow2[7 * (n - 1) + 7] /\ (n # 1 => p(n - 1) <= x)
  BY SovBounds, WordBitsAssumption DEF WordBitsAssumption, Words
<1>2. e = [k \in 1 .. n |-> IF v(k - 1) >= 128 THEN (v(k - 1) % 128) + 128 ELSE v(k - 1)]
  BY DEF encodeVarintPacket
<1>3. \A k \in 0 .. n - 1 : /\ v(k) \in Nat
                            /\ v(k) * p(k) <= x
                            /\ x < (v(k) + 1) * p(k)
                            /\ 7 * k \in 0 .. WordBits - 1
                            /\ p(k) \in Nat \ {0}
                            /\ Pow2[7 * k + 7] = 128 * p(k)
  <2> TAKE k \in 0 .. n - 1
  <2>1. /\ v(k) \in Nat
        /\ v(k) * p(k) <= x
        /\ x < (v(k) + 1) * p(k)
        /\ 7 * k \in 0 .. WordBits - 1
    BY ShiftedBounds
  <2>2. 7 * k \in 0 .. WordBits /\ 7 * k \in 0 .. WordBits + 7
    BY <1>1, <2>1
  <2> QED
    BY <2>1, <2>2, Pow2Nat, Pow2Seven
<1>4. \A k \in 0 .. n - 2 : Pow2[7 * k + 7] <= p(n - 1)
  <2> TAKE k \in 0 .. n - 2
  <2>1. /\ 7 * k + 7 \in 0 .. WordBits + 7
        /\ 7 * (n - 1) \in 7 * k + 7 .. WordBits + 7
    BY <1>1
  <2> QED
    BY <2>1, Pow2Grows
<1> HIDE DEF n, v, p, e
<1>5. v(n - 1) < 128
  <2>1. n - 1 \in 0 .. n - 1
    BY <1>1
  <2>2. PICK a, q \in Nat : a = v(n - 1) /\ q = p(n - 1) /\ q # 0
    BY <1>3, <2>1
  <2>3. a * q <= x /\ x < 128 * q
    BY <1>1, <1>3, <2>1, <2>2
  <2>4. a * q < 128 * q
    BY <1>1, <2>2, <2>3
  <2>5. a < 128
    BY <2>2, <2>4
  <2> QED
    BY <2>2, <2>5
<1>6. ASSUME NEW k \in 0 .. n - 2
      PROVE  v(k) >= 128
  <2>1. k \in 0 .. n - 1 /\ n # 1 /\ n - 1 \in 0 .. n - 1
    BY <1>1
  <2>2. PICK a, q \in Nat : a = v(k) /\ q = p(k) /\ q # 0
    BY <1>3, <2>1
  <2>3. x < (a + 1) * q /\ 128 * q <= p(n - 1) /\ p(n - 1) <= x /\ p(n - 1) \in Nat
    BY <1>1, <1>3, <1>4, <2>1, <2>2
  <2>4. 128 * q < (a + 1) * q
    BY <1>1, <2>2, <2>3
  <2>5. 128 < a + 1
    BY <2>2, <2>4
  <2> QED
    BY <2>2, <2>5
<1>7. ASSUME NEW k \in 1 .. n
      PROVE  /\ e[k] \in Bytes
             /\ e[k] < 128 <=> k = n
             /\ v(k - 1) < 128 <=> k = n
             /\ e[k] % 128 = v(k - 1) % 128
  <2>1. k - 1 \in 0 .. n - 1 /\ v(k - 1) \in Nat
    BY <1>1, <1>3
  <2>2. CASE k = n
    <3>1. e[k] = v(k - 1) /\ v(k - 1) < 128
      BY <1>2, <1>5, <2>1, <2>2
    <3> QED
      BY <2>1, <2>2, <3>1 DEF Bytes
  <2>3. CASE k # n
    <3>1. v(k - 1) >= 128
      <4>1. k - 1 \in 0 .. n - 2
        BY <1>1, <2>3
      <4> QED
        BY <1>6, <4>1
    <3>2. e[k] = (v(k - 1) % 128) + 128
      BY <1>2, <2>1, <3>1
    <3> QED
      BY <2>1, <2>3, <3>1, <3>2 DEF Bytes
  <2> QED
    BY <2>2, <2>3
<1>8. e \in [1 .. n -> Bytes]
  <2>1. DOMAIN e = 1 .. n /\ e = [k \in 1 .. n |-> e[k]]
    BY <1>2
  <2> QED
    BY <1>7, <2>1
<1> QED
  BY <1>7, <1>8 DEF n, v, e

-----------------------------------------------------------------------------
(* Reading. *)

LEMMA ShiftLeftNat ==
  ASSUME NEW d \in Nat, NEW s \in Nat
  PROVE  ShiftLeft(d, s) \in Nat
<1>1. CASE s < WordBits
  <2>1. Pow2[s] \in Nat
    BY <1>1, Pow2Nat, WordBitsAssumption DEF WordBitsAssumption
  <2> QED
    BY <1>1, <2>1 DEF ShiftLeft
<1>2. CASE ~ (s < WordBits)
  BY <1>2 DEF ShiftLeft
<1> QED
  BY <1>1, <1>2

(* One turn of the loop of Unmarshal after the other.                       *)
LEMMA GatheredEquation ==
  ASSUME NEW buf \in Seq(Bytes), NEW i \in 1 .. Len(buf)
  PROVE  /\ Gathered(buf, i)[i - 1] = 0
         /\ \A j \in i .. Len(buf) :
              Gathered(buf, i)[j] = Gathered(buf, i)[j - 1] + ShiftLeft(buf[j] % 128, 7 * (j - i))
         /\ \A j \in i - 1 .. Len(buf) : Gathered(buf, i)[j] \in Nat
<1> DEFINE n == Len(buf)
           k == i - 1
           Adds(j) == ShiftLeft(buf[j] % 128, 7 * (j - i))
           Is(f) == f = [j \in k .. n |-> IF j = k THEN 0 ELSE f[j - 1] + Adds(j)]
           G == [jw \in Nat \X Nat |-> IF jw[1] \in i .. n THEN jw[2] + Adds(jw[1]) ELSE 0]
           w == CHOOSE f : Is(f)
<1>1. n \in Nat /\ k \in Nat /\ k <= n /\ 0 \in Nat /\ i \in Nat /\ k + 1 = i
  OBVIOUS
<1>2. \A j \in i .. n : Adds(j) \in Nat
  <2> TAKE j \in i .. n
  <2>1. buf[j] \in Bytes
    BY <1>1
  <2>2. buf[j] % 128 \in Nat
    BY <2>1, ByteNat
  <2>3. 7 * (j - i) \in Nat
    BY <1>1
  <2> QED
    BY <2>2, <2>3, ShiftLeftNat
<1>v. Gathered(buf, i) = w
  BY DEF Gathered
<1> HIDE DEF n, k, Adds
<1>3. G \in [Nat \X Nat -> Nat] /\ \A j \in i .. n, y \in Nat : G[<<j, y>>] = y + Adds(j)
  BY <1>1, <1>2
<1> HIDE DEF G
<1>4. PICK f : Iterates(f, k, n, Nat, 0, G)
  BY <1>1, <1>3, Recursion
<1>5. ASSUME NEW j \in k .. n, j # k
      PROVE  f[j] = f[j - 1] + Adds(j)
  <2>1. j - 1 \in k .. n - 1 /\ j - 1 \in k .. n /\ (j - 1) + 1 = j /\ j \in i .. n
    BY <1>1, <1>5
  <2>2. f[j - 1] \in Nat /\ f[(j - 1) + 1] = G[<<(j - 1) + 1, f[j - 1]>>]
    BY <1>4, <2>1 DEF Iterates
  <2> QED
    BY <1>3, <2>1, <2>2
<1>6. Is(f)
  BY <1>4, <1>5 DEF Iterates
<1>7. Is(w)
  BY <1>6
<1> HIDE DEF w
<1>8. \A j \in k .. n : w[j] = IF j = k THEN 0 ELSE w[j - 1] + Adds(j)
  BY <1>7
<1>9. w[k] = 0
  BY <1>1, <1>8
<1>10. \A j \in i .. n : w[j] = w[j - 1] + Adds(j)
  BY <1>1, <1>8
<1> DEFINE S == {d \in Nat : k + d <= n => w[k + d] \in Nat}
<1>11. 0 \in S
  BY <1>1, <1>9
<1>12. ASSUME NEW d \in Nat, d \in S PROVE d + 1 \in S
  <2> SUFFICES ASSUME k + (d + 1) <= n
               PROVE  w[k + (d + 1)] \in Nat
    OBVIOUS
  <2>1. k + (d + 1) \in i .. n /\ (k + (d + 1)) - 1 = k + d /\ k + d <= n
    BY <1>1
  <2> QED
    BY <1>2, <1>10, <1>12, <2>1
<1>13. Nat \subseteq S
  <2> HIDE DEF S
  <2> QED
    BY <1>11, <1>12, SetInduction
<1>14. ASSUME NEW j \in k .. n PROVE w[j] \in Nat
  <2>1. j - k \in Nat /\ k + (j - k) = j /\ j <= n
    BY <1>1
  <2> QED
    BY <1>13, <2>1
<1> QED
  BY <1>9, <1>10, <1>14, <1>v DEF n, k, Adds

(* Where the loop ends.                                                     *)
EndsAt(buf, i, j) ==
  /\ 7 * (j - i) < WordBits
  /\ buf[j] < 128
  /\ \A h \in i .. j - 1 : buf[h] >= 128

(* A varint ends at the first byte without a continuation bit.             *)
LEMMA VarintAtEnds ==
  ASSUME NEW buf, NEW i
  PROVE  VarintAt(buf, i) =
           {[value |-> Unsigned(Gathered(buf, i)[j]), next |-> j + 1] :
              j \in {j \in i .. Len(buf) : EndsAt(buf, i, j)}}
BY DEF VarintAt, EndsAt

(* Whatever the bytes are, the loop of Unmarshal ends in at most one way,   *)
(* has moved on, stays in the buffer, and leaves a word.                    *)
THEOREM VarintInBounds ==
  ASSUME NEW buf \in Seq(Bytes), NEW i \in Nat \ {0}
  PROVE  /\ \A v \in VarintAt(buf, i) : /\ v.next \in i + 1 .. Len(buf) + 1
                                        /\ 7 * (v.next - i) < WordBits + 7
                                        /\ v.value \in Words
         /\ \A v, w \in VarintAt(buf, i) : v = w
<1> DEFINE R(j) == [value |-> Unsigned(Gathered(buf, i)[j]), next |-> j + 1]
<1>1. \A v \in VarintAt(buf, i) : \E j \in i .. Len(buf) : EndsAt(buf, i, j) /\ v = R(j)
  BY VarintAtEnds
<1>2. WordBits \in Nat \ {0} /\ Pow2[WordBits] \in Nat \ {0} /\ Len(buf) \in Nat
  BY Pow2Nat, WordBitsAssumption DEF WordBitsAssumption
<1>3. ASSUME NEW j \in i .. Len(buf), EndsAt(buf, i, j)
      PROVE  /\ R(j).next \in i + 1 .. Len(buf) + 1
             /\ 7 * (R(j).next - i) < WordBits + 7
             /\ R(j).value \in Words
  <2>1. Gathered(buf, i)[j] \in Nat
    <3>1. i \in 1 .. Len(buf) /\ j \in i - 1 .. Len(buf)
      BY <1>2
    <3> QED
      BY <3>1, GatheredEquation
  <2>2. R(j).value \in Words
    BY <1>2, <2>1 DEF Words, Unsigned
  <2>3. R(j).next = j + 1 /\ 7 * (j - i) < WordBits
    BY <1>3 DEF EndsAt
  <2>4. j + 1 \in i + 1 .. Len(buf) + 1 /\ 7 * ((j + 1) - i) < WordBits + 7
    BY <1>2, <2>3
  <2> QED
    BY <2>2, <2>3, <2>4
<1>4. ASSUME NEW j \in i .. Len(buf), NEW h \in i .. Len(buf),
             EndsAt(buf, i, j), EndsAt(buf, i, h)
      PROVE  j = h
  <2>1. ASSUME NEW a \in i .. Len(buf), NEW b \in i .. Len(buf),
               EndsAt(buf, i, a), EndsAt(buf, i, b)
        PROVE  ~ (a < b)
    <3> SUFFICES ASSUME a < b PROVE FALSE
      OBVIOUS
    <3>1. a \in i .. b - 1 /\ a \in 1 .. Len(buf)
      BY <1>2
    <3>2. buf[a] >= 128 /\ buf[a] < 128 /\ buf[a] \in Bytes
      BY <2>1, <3>1 DEF EndsAt
    <3> QED
      BY <3>2, ByteNat
  <2>2. ~ (j < h) /\ ~ (h < j)
    BY <1>4, <2>1
  <2> QED
    BY <1>2, <2>2
<1> HIDE DEF R
<1>5. \A v, w \in VarintAt(buf, i) : v = w
  BY <1>1, <1>4
<1>6. \A v \in VarintAt(buf, i) : /\ v.next \in i + 1 .. Len(buf) + 1
                                  /\ 7 * (v.next - i) < WordBits + 7
                                  /\ v.value \in Words
  BY <1>1, <1>3
<1> QED
  BY <1>5, <1>6

(* What the loop has gathered after k of the bytes of x, and what is left   *)
(* of x, make up x.                                                         *)
LEMMA GatheredSoFar ==
  ASSUME NEW x \in Words, NEW buf \in Seq(Bytes), NEW i \in Nat \ {0},
         i + sovPacket(x) - 1 <= Len(buf),
         \A k \in 1 .. sovPacket(x) : buf[i + k - 1] = encodeVarintPacket(x)[k]
  PROVE  Gathered(buf, i)[i + sovPacket(x) - 1] = x
<1> DEFINE n == sovPacket(x)
           v(k) == Shifted(x)[k]
           p(k) == Pow2[7 * k]
           g(k) == Gathered(buf, i)[i + k - 1]
           S == {k \in Nat : k <= n - 1 => g(k) + v(k) * p(k) = x}
<1>1. /\ n \in 1 .. WordBits /\ 7 * (n - 1) < WordBits /\ WordBits \in Nat /\ x \in Nat
      /\ i \in 1 .. Len(buf) /\ Len(buf) \in Nat
  <2>1. n \in 1 .. WordBits /\ 7 * (n - 1) < WordBits /\ WordBits \in Nat /\ x \in Nat
    BY SovBounds, WordBitsAssumption DEF WordBitsAssumption, Words
  <2>2. i + n - 1 <= Len(buf) /\ Len(buf) \in Nat
    OBVIOUS
  <2> HIDE DEF n
  <2> QED
    BY <2>1, <2>2
<1>2. i + n - 1 <= Len(buf)
  OBVIOUS
<1>3. \A k \in 1 .. n : /\ buf[i + k - 1] % 128 = v(k - 1) % 128
                        /\ k = n => v(k - 1) < 128
  BY VarintBytes
<1> HIDE DEF n
<1>4. \A k \in 0 .. n - 1 : /\ v(k) \in Nat
                            /\ p(k) \in Nat
                            /\ 7 * k \in 0 .. WordBits - 1
  <2> TAKE k \in 0 .. n - 1
  <2>1. v(k) \in Nat /\ 7 * k \in 0 .. WordBits - 1
    BY ShiftedBounds DEF n
  <2>2. 7 * k \in 0 .. WordBits + 7
    BY <1>1, <2>1
  <2> QED
    BY <2>1, <2>2, Pow2Nat
<1>5. /\ v(0) = x
      /\ p(0) = 1
      /\ \A k \in 0 .. n - 2 : v(k + 1) = v(k) \div 128 /\ p(k + 1) = 128 * p(k)
  <2>1. 7 * 0 = 0
    OBVIOUS
  <2>2. \A k \in 0 .. n - 2 : /\ k \in 0 .. WordBits - 1
                              /\ 7 * k \in 0 .. WordBits
                              /\ 7 * (k + 1) = 7 * k + 7
    BY <1>1
  <2> QED
    BY <1>1, <2>1, <2>2, ShiftedEquation, Pow2Equation, Pow2Seven
<1>6. /\ g(0) = 0
      /\ \A k \in 0 .. n - 1 : g(k) \in Nat /\ g(k + 1) = g(k) + (v(k) % 128) * p(k)
  <2>1. g(0) = 0
    <3>1. i + 0 - 1 = i - 1
      OBVIOUS
    <3> QED
      BY <1>1, <3>1, GatheredEquation
  <2>2. ASSUME NEW k \in 0 .. n - 1
        PROVE  g(k) \in Nat /\ g(k + 1) = g(k) + (v(k) % 128) * p(k)
    <3>1. /\ i + k \in i .. Len(buf)
          /\ i + (k + 1) - 1 = i + k
          /\ (i + k) - 1 = i + k - 1
          /\ i + k - 1 \in i - 1 .. Len(buf)
          /\ (i + k) - i = k
          /\ k + 1 \in 1 .. n /\ (k + 1) - 1 = k
      BY <1>1, <1>2
    <3>2. buf[i + k] % 128 = v(k) % 128
      BY <1>3, <3>1
    <3>3. ShiftLeft(buf[i + k] % 128, 7 * k) = (v(k) % 128) * p(k)
      BY <1>1, <1>4, <3>2 DEF ShiftLeft
    <3>4. Gathered(buf, i)[i + k] =
            Gathered(buf, i)[(i + k) - 1] + ShiftLeft(buf[i + k] % 128, 7 * ((i + k) - i))
      BY <1>1, <3>1, GatheredEquation
    <3>5. g(k) \in Nat
      BY <1>1, <3>1, GatheredEquation
    <3> QED
      BY <3>1, <3>3, <3>4, <3>5
  <2> QED
    BY <2>1, <2>2
<1> HIDE DEF v, p, g
<1>7. 0 \in S
  BY <1>1, <1>5, <1>6
<1>8. ASSUME NEW k \in Nat, k \in S PROVE k + 1 \in S
  <2> SUFFICES ASSUME k + 1 <= n - 1
               PROVE  g(k + 1) + v(k + 1) * p(k + 1) = x
    OBVIOUS
  <2>1. k \in 0 .. n - 1 /\ k + 1 \in 0 .. n - 1 /\ k \in 0 .. n - 2 /\ k <= n - 1
    BY <1>1
  <2>2. g(k) + v(k) * p(k) = x
    BY <1>8, <2>1
  <2>3. v(k) \in Nat /\ p(k) \in Nat /\ g(k) \in Nat
    BY <1>4, <1>6, <2>1
  <2>4. v(k + 1) = v(k) \div 128 /\ p(k + 1) = 128 * p(k) /\ g(k + 1) = g(k) + (v(k) % 128) * p(k)
    BY <1>5, <1>6, <2>1
  <2>5. (g(k) + (v(k) % 128) * p(k)) + (v(k) \div 128) * (128 * p(k)) = x
    <3>1. PICK a, q, c \in Nat : a = v(k) /\ q = p(k) /\ c = g(k)
      BY <2>3
    <3>2. c + a * q = x
      BY <2>2, <3>1
    <3>3. (c + (a % 128) * q) + (a \div 128) * (128 * q) = x
      BY <1>1, <3>2, OneTurn
    <3> QED
      BY <3>1, <3>3
  <2> QED
    BY <2>4, <2>5
<1>9. Nat \subseteq S
  <2> HIDE DEF S
  <2> QED
    BY <1>7, <1>8, SetInduction
<1>10. /\ n - 1 \in Nat /\ n - 1 \in 0 .. n - 1 /\ n - 1 <= n - 1 /\ (n - 1) + 1 = n
       /\ n \in 1 .. n
  BY <1>1
<1>11. g(n - 1) + v(n - 1) * p(n - 1) = x
  BY <1>9, <1>10
<1>12. v(n - 1) % 128 = v(n - 1)
  <2>1. v(n - 1) \in Nat /\ v(n - 1) < 128
    BY <1>3, <1>4, <1>10
  <2> QED
    BY <2>1, SmallMod
<1>13. g(n) = x
  BY <1>6, <1>10, <1>11, <1>12
<1> QED
  BY <1>13 DEF g, n

(* Every word reads back as itself, and the loop ends behind its last byte. *)
THEOREM VarintReadsBack ==
  ASSUME NEW x \in Words, NEW buf \in Seq(Bytes), NEW i \in Nat \ {0},
         i + sovPacket(x) - 1 <= Len(buf),
         \A k \in 1 .. sovPacket(x) : buf[i + k - 1] = encodeVarintPacket(x)[k]
  PROVE  VarintAt(buf, i) = {[value |-> x, next |-> i + sovPacket(x)]}
<1> DEFINE n == sovPacket(x)
           j == i + n - 1
           R(h) == [value |-> Unsigned(Gathered(buf, i)[h]), next |-> h + 1]
<1>1. n \in 1 .. WordBits /\ 7 * (n - 1) < WordBits /\ WordBits \in Nat
  BY SovBounds, WordBitsAssumption DEF WordBitsAssumption
<1>2. \A k \in 1 .. n : buf[i + k - 1] \in Bytes /\ (buf[i + k - 1] < 128 <=> k = n)
  <2> TAKE k \in 1 .. n
  <2>1. buf[i + k - 1] = encodeVarintPacket(x)[k]
    OBVIOUS
  <2>2. encodeVarintPacket(x)[k] \in Bytes
    <3>1. encodeVarintPacket(x) \in [1 .. n -> Bytes]
      BY VarintBytes
    <3> QED
      BY <3>1
  <2>3. encodeVarintPacket(x)[k] < 128 <=> k = n
    BY VarintBytes
  <2> QED
    BY <2>1, <2>2, <2>3
<1>3. Gathered(buf, i)[j] = x
  BY GatheredSoFar
<1>4. j <= Len(buf)
  OBVIOUS
<1> HIDE DEF n
<1>5. j \in i .. Len(buf) /\ j - i = n - 1 /\ j + 1 = i + n
  BY <1>1, <1>4
<1>6. EndsAt(buf, i, j)
  <2>1. n \in 1 .. n
    BY <1>1
  <2>2. buf[j] < 128
    BY <1>2, <2>1
  <2>3. ASSUME NEW h \in i .. j - 1 PROVE buf[h] >= 128
    <3>1. (h - i) + 1 \in 1 .. n /\ (h - i) + 1 # n /\ i + ((h - i) + 1) - 1 = h
      BY <1>1
    <3>2. buf[h] \in Bytes /\ ~ (buf[h] < 128)
      BY <1>2, <3>1
    <3> QED
      BY <3>2, ByteNat
  <2> QED
    BY <1>1, <1>5, <2>2, <2>3 DEF EndsAt
<1>7. R(j) \in VarintAt(buf, i)
  BY <1>5, <1>6, VarintAtEnds
<1>8. Unsigned(x) = x
  BY UnsignedWord
<1>9. R(j) = [value |-> x, next |-> i + n]
  BY <1>3, <1>5, <1>8
<1>10. \A v, w \in VarintAt(buf, i) : v = w
  BY VarintInBounds
<1> QED
  BY <1>7, <1>9, <1>10 DEF n

(* A buffer that ends within the bytes of a word is an error.               *)
THEOREM VarintCutFails ==
  ASSUME NEW x \in Words, NEW buf \in Seq(Bytes), NEW i \in Nat \ {0},
         Len(buf) < i + sovPacket(x) - 1,
         \A k \in 1 .. sovPacket(x) : i + k - 1 <= Len(buf)
                                        => buf[i + k - 1] = encodeVarintPacket(x)[k]
  PROVE  VarintAt(buf, i) = {}
<1> DEFINE n == sovPacket(x)
<1>1. n \in 1 .. WordBits /\ WordBits \in Nat /\ Len(buf) \in Nat
  BY SovBounds, WordBitsAssumption DEF WordBitsAssumption
<1>2. \A k \in 1 .. n : i + k - 1 <= Len(buf) => (buf[i + k - 1] < 128 <=> k = n)
  BY VarintBytes
<1>3. Len(buf) < i + n - 1
  OBVIOUS
<1> HIDE DEF n
<1>4. ASSUME NEW j \in i .. Len(buf) PROVE ~ EndsAt(buf, i, j)
  <2>1. /\ (j - i) + 1 \in 1 .. n /\ (j - i) + 1 # n
        /\ i + ((j - i) + 1) - 1 = j /\ j <= Len(buf)
    BY <1>1, <1>3
  <2>2. ~ (buf[j] < 128)
    BY <1>2, <2>1
  <2> QED
    BY <2>2 DEF EndsAt
<1> QED
  BY <1>4, VarintAtEnds

-----------------------------------------------------------------------------
(* Where an encoding is in a buffer, as far as the buffer goes.             *)

Begins(buf, i, s) == \A k \in 1 .. Len(s) : i + k - 1 <= Len(buf) => buf[i + k - 1] = s[k]

Stands(buf, i, s) == i + Len(s) - 1 <= Len(buf) /\ Begins(buf, i, s)

(* If a buffer begins with two encodings, the second is behind the first.  *)
LEMMA BeginsCat ==
  ASSUME NEW buf \in Seq(Bytes), NEW i \in Nat \ {0}, NEW s \in Seq(Bytes), NEW t \in Seq(Bytes),
         Begins(buf, i, s \o t)
  PROVE  Begins(buf, i, s) /\ Begins(buf, i + Len(s), t)
<1>1. /\ s \o t \in Seq(Bytes)
      /\ Len(s \o t) = Len(s) + Len(t)
      /\ \A k \in 1 .. Len(s) + Len(t) :
           (s \o t)[k] = IF k <= Len(s) THEN s[k] ELSE t[k - Len(s)]
      /\ Len(s) \in Nat /\ Len(t) \in Nat
  BY ConcatProperties, LenProperties
<1>2. Begins(buf, i, s)
  BY <1>1 DEF Begins
<1>3. ASSUME NEW k \in 1 .. Len(t), (i + Len(s)) + k - 1 <= Len(buf)
      PROVE  buf[(i + Len(s)) + k - 1] = t[k]
  <2>1. /\ Len(s) + k \in 1 .. Len(s) + Len(t)
        /\ i + (Len(s) + k) - 1 = (i + Len(s)) + k - 1
        /\ ~ (Len(s) + k <= Len(s)) /\ (Len(s) + k) - Len(s) = k
    BY <1>1
  <2>2. (s \o t)[Len(s) + k] = t[k]
    BY <1>1, <2>1
  <2>3. buf[i + (Len(s) + k) - 1] = (s \o t)[Len(s) + k]
    BY <1>1, <1>3, <2>1 DEF Begins
  <2> QED
    BY <2>1, <2>2, <2>3
<1> QED
  BY <1>2, <1>3 DEF Begins

(* If two encodings stand in a buffer, the second stands behind the first. *)
LEMMA StandsCat ==
  ASSUME NEW buf \in Seq(Bytes), NEW i \in Nat \ {0}, NEW s \in Seq(Bytes), NEW t \in Seq(Bytes),
         Stands(buf, i, s \o t)
  PROVE  Stands(buf, i, s) /\ Stands(buf, i + Len(s), t)
<1>1. Len(s \o t) = Len(s) + Len(t) /\ Len(s) \in Nat /\ Len(t) \in Nat /\ Len(buf) \in Nat
  BY ConcatProperties, LenProperties
<1>2. Begins(buf, i, s) /\ Begins(buf, i + Len(s), t)
  BY BeginsCat DEF Stands
<1> QED
  BY <1>1, <1>2 DEF Stands

(* What stands at i is the part of the buffer from i on.                   *)
LEMMA StandsSub ==
  ASSUME NEW buf \in Seq(Bytes), NEW i \in Nat \ {0}, NEW s \in Seq(Bytes), Stands(buf, i, s)
  PROVE  SubSeq(buf, i, i + Len(s) - 1) = s
<1> DEFINE j == i + Len(s) - 1
           t == SubSeq(buf, i, j)
<1>1. Len(s) \in Nat /\ Len(buf) \in Nat /\ j \in Int /\ j <= Len(buf) /\ j - i + 1 = Len(s)
  BY LenProperties DEF Stands
<1>2. \A k \in i .. j : buf[k] \in Bytes
  BY <1>1
<1>3. /\ t \in Seq(Bytes)
      /\ Len(t) = IF i <= j THEN j - i + 1 ELSE 0
      /\ \A k \in 1 .. j - i + 1 : t[k] = buf[i + k - 1]
  BY <1>1, <1>2, SubSeqProperties
<1>4. Len(t) = Len(s)
  BY <1>1, <1>3
<1>5. \A k \in 1 .. Len(s) : t[k] = s[k]
  BY <1>1, <1>3 DEF Stands, Begins
<1> HIDE DEF t
<1> QED
  BY <1>3, <1>4, <1>5, SeqEqual

(* What a buffer is made of stands in it. *)
LEMMA StandsIn ==
  ASSUME NEW r \in Seq(Bytes), NEW s \in Seq(Bytes), NEW t \in Seq(Bytes)
  PROVE  /\ (r \o s) \o t \in Seq(Bytes)
         /\ Stands((r \o s) \o t, Len(r) + 1, s)
         /\ Len((r \o s) \o t) = Len(r) + Len(s) + Len(t)
<1>1. /\ r \o s \in Seq(Bytes)
      /\ Len(r \o s) = Len(r) + Len(s)
      /\ \A k \in 1 .. Len(r) + Len(s) :
           (r \o s)[k] = IF k <= Len(r) THEN r[k] ELSE s[k - Len(r)]
      /\ Len(s) \in Nat /\ Len(t) \in Nat /\ Len(r) \in Nat
  BY ConcatProperties, LenProperties
<1>2. /\ (r \o s) \o t \in Seq(Bytes)
      /\ Len((r \o s) \o t) = Len(r) + Len(s) + Len(t)
      /\ \A k \in 1 .. Len(r) + Len(s) : ((r \o s) \o t)[k] = (r \o s)[k]
  <2>1. /\ (r \o s) \o t \in Seq(Bytes)
        /\ Len((r \o s) \o t) = Len(r \o s) + Len(t)
        /\ \A k \in 1 .. Len(r \o s) + Len(t) :
             ((r \o s) \o t)[k] = IF k <= Len(r \o s) THEN (r \o s)[k] ELSE t[k - Len(r \o s)]
    BY <1>1, ConcatProperties
  <2> HIDE DEF Bytes
  <2> QED
    BY <1>1, <2>1
<1>3. ASSUME NEW k \in 1 .. Len(s)
      PROVE  ((r \o s) \o t)[(Len(r) + 1) + k - 1] = s[k]
  <2>1. /\ (Len(r) + 1) + k - 1 \in 1 .. Len(r) + Len(s)
        /\ ~ ((Len(r) + 1) + k - 1 <= Len(r)) /\ ((Len(r) + 1) + k - 1) - Len(r) = k
    BY <1>1
  <2> QED
    BY <1>1, <1>2, <2>1
<1> QED
  BY <1>1, <1>2, <1>3 DEF Stands, Begins

-----------------------------------------------------------------------------
(* Words. *)

(* A function on 1 .. k is a sequence of length k.                         *)
LEMMA FunctionIsSeq ==
  ASSUME NEW A, NEW k \in Nat, NEW t \in [1 .. k -> A]
  PROVE  t \in Seq(A) /\ Len(t) = k
<1>1. t \in Seq(A)
  BY SeqDef, Zenon
<1>2. Len(t) = k
  BY <1>1, LenProperties
<1> QED
  BY <1>1, <1>2

(* A word is encoded in as many bytes as sovPacket counts.                 *)
LEMMA EncodeSeq ==
  ASSUME NEW x \in Words
  PROVE  /\ encodeVarintPacket(x) \in Seq(Bytes)
         /\ Len(encodeVarintPacket(x)) = sovPacket(x)
         /\ sovPacket(x) \in Nat \ {0}
<1>1. encodeVarintPacket(x) \in [1 .. sovPacket(x) -> Bytes] /\ sovPacket(x) \in Nat \ {0}
  BY VarintBytes, SovBounds, WordBitsAssumption DEF WordBitsAssumption
<1>2. encodeVarintPacket(x) \in Seq(Bytes)
  BY <1>1, SeqDef, Zenon
<1>3. Len(encodeVarintPacket(x)) \in Nat
      /\ DOMAIN encodeVarintPacket(x) = 1 .. Len(encodeVarintPacket(x))
  BY <1>2, LenProperties
<1>4. 1 .. Len(encodeVarintPacket(x)) = 1 .. sovPacket(x)
  BY <1>1, <1>3
<1> QED
  BY <1>1, <1>2, <1>3, <1>4

(* Also where a number is more than a word. *)
LEMMA EncodeAll ==
  ASSUME NEW x \in Nat
  PROVE  /\ encodeVarintPacket(x) \in Seq(Bytes)
         /\ Len(encodeVarintPacket(x)) = sovPacket(x)
         /\ sovPacket(x) \in Nat \ {0}
<1>1. CASE x < Pow2[WordBits]
  BY <1>1, EncodeSeq DEF Words
<1>2. CASE ~ (x < Pow2[WordBits])
  <2>1. /\ WordBits - 1 \in 0 .. WordBits + 7 /\ WordBits \in WordBits - 1 .. WordBits + 7
        /\ WordBits \in 1 .. WordBits /\ WordBits \in Nat /\ WordBits \in 0 .. WordBits + 7
    BY WordBitsAssumption DEF WordBitsAssumption
  <2>2. Pow2[WordBits - 1] <= Pow2[WordBits] /\ Pow2[WordBits] \in Nat /\ Pow2[WordBits - 1] \in Nat
    BY <2>1, Pow2Grows, Pow2Nat
  <2>3. Pow2[WordBits - 1] <= x
    BY <1>2, <2>2
  <2>4. BitLen(x) \in 1 .. WordBits
    BY <2>1, <2>3 DEF BitLen
  <2>5. sovPacket(x) \in 1 .. WordBits
    <3>1. PICK b \in 1 .. WordBits : b = BitLen(x)
      BY <2>4
    <3>2. (b + 6) \div 7 \in 1 .. WordBits
      BY <2>1
    <3> QED
      BY <3>1, <3>2 DEF sovPacket
  <2> DEFINE n == sovPacket(x)
             v(i) == Shifted(x)[i - 1]
             B(i) == IF v(i) >= 128 THEN (v(i) % 128) + 128 ELSE v(i)
  <2>6. \A i \in 1 .. n : B(i) \in Bytes
    <3> TAKE i \in 1 .. n
    <3>1. i - 1 \in 0 .. WordBits
      BY <2>1, <2>5
    <3>2. PICK y \in Nat : y = v(i)
      BY <3>1, ShiftedEquation
    <3>3. y % 128 \in 0 .. 127
      BY <3>2
    <3>4. (IF y >= 128 THEN (y % 128) + 128 ELSE y) \in 0 .. 255
      BY <3>3
    <3> QED
      BY <3>2, <3>4 DEF Bytes
  <2>7. encodeVarintPacket(x) = [i \in 1 .. n |-> B(i)]
    BY DEF encodeVarintPacket
  <2>8. encodeVarintPacket(x) \in [1 .. n -> Bytes]
    <3> HIDE DEF B
    <3> QED
      BY <2>6, <2>7
  <2>9. PICK e, k : e = encodeVarintPacket(x) /\ k = n /\ k \in Nat \ {0} /\ e \in [1 .. k -> Bytes]
    BY <2>5, <2>8
  <2>10. e \in Seq(Bytes) /\ Len(e) = k
    BY <2>9, FunctionIsSeq
  <2> QED
    BY <2>9, <2>10
<1> QED
  BY <1>1, <1>2

(* A word that stands in a buffer is read as itself.                       *)
LEMMA WordReads ==
  ASSUME NEW x \in Words, NEW buf \in Seq(Bytes), NEW i \in Nat \ {0},
         Stands(buf, i, encodeVarintPacket(x))
  PROVE  VarintAt(buf, i) = {[value |-> x, next |-> i + sovPacket(x)]}
<1>1. Len(encodeVarintPacket(x)) = sovPacket(x) /\ sovPacket(x) \in Nat
  BY EncodeSeq
<1>2. i + sovPacket(x) - 1 <= Len(buf) /\ Len(buf) \in Nat
  BY <1>1 DEF Stands
<1>3. \A k \in 1 .. sovPacket(x) : buf[i + k - 1] = encodeVarintPacket(x)[k]
  BY <1>1, <1>2 DEF Stands, Begins
<1> QED
  BY <1>2, <1>3, VarintReadsBack

(* A word that the buffer cuts short is an error.                          *)
LEMMA WordCut ==
  ASSUME NEW x \in Words, NEW buf \in Seq(Bytes), NEW i \in Nat \ {0},
         Begins(buf, i, encodeVarintPacket(x)), Len(buf) < i + sovPacket(x) - 1
  PROVE  VarintAt(buf, i) = {}
<1>1. Len(encodeVarintPacket(x)) = sovPacket(x)
  BY EncodeSeq
<1> QED
  BY <1>1, VarintCutFails DEF Begins

(* A byte below 128 is a varint. *)
LEMMA ByteReads ==
  ASSUME NEW buf \in Seq(Bytes), NEW i \in 1 .. Len(buf), buf[i] < 128
  PROVE  VarintAt(buf, i) = {[value |-> buf[i], next |-> i + 1]}
<1>1. buf[i] \in Nat /\ buf[i] % 128 = buf[i] /\ i \in Nat \ {0} /\ Len(buf) \in Nat
  <2>1. buf[i] \in Bytes /\ i \in Nat \ {0} /\ Len(buf) \in Nat
    OBVIOUS
  <2> QED
    BY <2>1, ByteNat, SmallMod
<1>2. EndsAt(buf, i, i)
  BY <1>1, WordBitsAssumption DEF EndsAt, WordBitsAssumption
<1>3. Gathered(buf, i)[i] = buf[i]
  <2>1. Gathered(buf, i)[i] = Gathered(buf, i)[i - 1] + ShiftLeft(buf[i] % 128, 7 * (i - i))
        /\ Gathered(buf, i)[i - 1] = 0
    BY <1>1, GatheredEquation
  <2>2. ShiftLeft(buf[i] % 128, 0) = buf[i]
    BY <1>1, Pow2Equation, WordBitsAssumption DEF ShiftLeft, WordBitsAssumption
  <2>3. 7 * (i - i) = 0
    BY <1>1
  <2> QED
    BY <1>1, <2>1, <2>2, <2>3
<1>4. buf[i] \in Words
  <2>1. 7 \in 0 .. WordBits + 7 /\ WordBits \in 7 .. WordBits + 7
    BY WordBitsAssumption, WidthsAssumption DEF WordBitsAssumption,
       WidthsAssumption
  <2>2. Pow2[7] <= Pow2[WordBits] /\ Pow2[WordBits] \in Nat
    BY <2>1, Pow2Grows, Pow2Nat
  <2>3. Pow2[0 + 7] = 128 * Pow2[0] /\ Pow2[0] = 1
    BY Pow2Seven, Pow2Equation, WordBitsAssumption DEF WordBitsAssumption
  <2> QED
    BY <1>1, <2>2, <2>3 DEF Words
<1>5. [value |-> Unsigned(Gathered(buf, i)[i]), next |-> i + 1] \in VarintAt(buf, i)
  BY <1>1, <1>2, VarintAtEnds
<1>6. \A v, w \in VarintAt(buf, i) : v = w
  BY VarintInBounds
<1> QED
  BY <1>3, <1>4, <1>5, <1>6, UnsignedWord

-----------------------------------------------------------------------------
(* Signs. *)

(* Half of a power of two is the power below.                              *)
LEMMA Pow2Half ==
  ASSUME NEW b \in 1 .. WordBits
  PROVE  Pow2[b] \in Nat \ {0} /\ Pow2[b - 1] \in Nat \ {0} /\ Pow2[b] = 2 * Pow2[b - 1]
<1>1. b - 1 \in 0 .. WordBits + 6 /\ (b - 1) + 1 = b /\ b \in 0 .. WordBits + 7
  BY WordBitsAssumption DEF WordBitsAssumption
<1> QED
  BY <1>1, Pow2Equation, Pow2Nat

(* A number below half the range is itself.                                 *)
LEMMA SignedSmall ==
  ASSUME NEW b \in 1 .. WordBits, NEW x \in Nat, x < Pow2[b - 1]
  PROVE  Signed(x, b) = x
<1>1. PICK h \in Nat \ {0} : h = Pow2[b - 1] /\ Pow2[b] = 2 * h
  BY Pow2Half
<1>2. x % (2 * h) = x
  BY <1>1
<1> QED
  BY <1>1, <1>2 DEF Signed

(* Modulo 2h a negative number from -h on is the number plus 2h.           *)
LEMMA Wraps ==
  ASSUME NEW h \in Nat \ {0}, NEW x \in -h .. h - 1
  PROVE  x % (2 * h) = IF x < 0 THEN x + 2 * h ELSE x
<1>1. CASE x < 0
  BY <1>1
<1>2. CASE ~ (x < 0)
  BY <1>2
<1> QED
  BY <1>1, <1>2

(* The width of a word is a multiple of that of an int.                     *)
LEMMA WidthDivides ==
  ASSUME NEW b \in 1 .. WordBits
  PROVE  \E q \in Nat \ {0} : Pow2[WordBits] = q * Pow2[b]
<1> DEFINE S == {d \in Nat : b + d <= WordBits => \E q \in Nat \ {0} : Pow2[b + d] = q * Pow2[b]}
<1>0. b \in Nat /\ WordBits \in Nat /\ Pow2[b] \in Nat \ {0}
  BY WordBitsAssumption, Pow2Half DEF WordBitsAssumption
<1>1. 0 \in S
  <2>1. b + 0 = b /\ Pow2[b] = 1 * Pow2[b]
    BY <1>0
  <2> QED
    BY <2>1
<1>2. ASSUME NEW d \in Nat, d \in S PROVE d + 1 \in S
  <2> SUFFICES ASSUME b + (d + 1) <= WordBits
               PROVE  \E q \in Nat \ {0} : Pow2[b + (d + 1)] = q * Pow2[b]
    OBVIOUS
  <2>1. b + d \in 0 .. WordBits + 6 /\ b + (d + 1) = (b + d) + 1 /\ b + d <= WordBits
    BY <1>0
  <2>2. PICK q \in Nat \ {0} : Pow2[b + d] = q * Pow2[b]
    BY <1>2, <2>1
  <2>3. Pow2[b + (d + 1)] = 2 * (q * Pow2[b])
    BY <2>1, <2>2, Pow2Equation
  <2>4. 2 * (q * Pow2[b]) = (2 * q) * Pow2[b] /\ 2 * q \in Nat \ {0}
    BY <1>0
  <2> QED
    BY <2>3, <2>4
<1>3. WordBits - b \in S
  <2> HIDE DEF S
  <2>1. WordBits - b \in Nat
    BY <1>0
  <2> QED
    BY <1>1, <1>2, <2>1, SetInduction
<1>4. b + (WordBits - b) = WordBits
  BY <1>0
<1> QED
  BY <1>0, <1>3, <1>4

(* Division with a remainder.                                              *)
LEMMA DivMod ==
  ASSUME NEW x \in Int, NEW k \in Nat \ {0}
  PROVE  \E a, r \in Int : r = x % k /\ x = a * k + r /\ 0 <= r /\ r < k
<1>1. x = (x \div k) * k + (x % k)
  OBVIOUS
<1>2. x \div k \in Int /\ x % k \in Int
  OBVIOUS
<1>3. 0 <= x % k /\ x % k < k
  OBVIOUS
<1>4. PICK a, r \in Int : a = x \div k /\ r = x % k
  BY <1>2
<1>5. x = a * k + r /\ 0 <= r /\ r < k
  BY <1>1, <1>3, <1>4
<1> QED
  BY <1>4, <1>5

LEMMA Distributes ==
  ASSUME NEW e \in Int, NEW f \in Int, NEW k \in Int
  PROVE  (e - f) * k = e * k - f * k
OBVIOUS

(* What is left of x modulo a multiple of k is x modulo k.                  *)
LEMMA ModMod ==
  ASSUME NEW x \in Int, NEW k \in Nat \ {0}, NEW q \in Nat \ {0}
  PROVE  (x % (q * k)) % k = x % k
<1>0. q * k \in Nat \ {0}
  OBVIOUS
<1>1. PICK a \in Int, r \in Int : r = x % (q * k) /\ x = a * (q * k) + r
  BY <1>0, DivMod
<1>2. x = a * (q * k) + r
  BY <1>1
<1>3. PICK c \in Int, s \in Int : s = r % k /\ r = c * k + s /\ 0 <= s /\ s < k
  BY <1>1, DivMod
<1>4. r = c * k + s /\ 0 <= s /\ s < k
  BY <1>3
<1>5. x = (a * q + c) * k + s
  <2>1. a * (q * k) = (a * q) * k
    BY <1>1
  <2>2. (a * q + c) * k = (a * q) * k + c * k
    BY <1>1, <1>3
  <2>3. (a * q) * k \in Int /\ c * k \in Int
    BY <1>1, <1>3
  <2> QED
    BY <1>2, <1>4, <2>1, <2>2, <2>3
<1>6. PICK e \in Int : e = a * q + c
  BY <1>1, <1>3
<1>7. x = e * k + s
  BY <1>5, <1>6
<1>8. x % k = s
  <2>1. PICK f \in Int, t \in Int : t = x % k /\ x = f * k + t /\ 0 <= t /\ t < k
    BY DivMod
  <2>2. x = f * k + t /\ 0 <= t /\ t < k
    BY <2>1
  <2>3. (e - f) * k = t - s
    <3>1. PICK u \in Int, v \in Int : u = e * k /\ v = f * k
      BY <1>6, <2>1
    <3>2. (e - f) * k = u - v
      BY <1>6, <2>1, <3>1, Distributes
    <3>3. x = u + s /\ x = v + t
      BY <1>7, <2>2, <3>1
    <3>4. u - v = t - s
      BY <3>3
    <3> QED
      BY <3>2, <3>4
  <2>4. PICK g \in Int : g = e - f
    BY <1>6, <2>1
  <2>5. g * k = t - s /\ t - s < k /\ -k < t - s
    BY <1>3, <1>4, <2>1, <2>2, <2>3, <2>4
  <2>6. g = 0
    <3>1. CASE g >= 1
      <4>1. g * k >= k
        BY <2>4, <3>1
      <4> QED
        BY <1>3, <2>1, <2>5, <4>1
    <3>2. CASE g <= -1
      <4>1. g * k <= -k
        BY <2>4, <3>2
      <4> QED
        BY <1>3, <2>1, <2>5, <4>1
    <3> QED
      BY <2>4, <3>1, <3>2
  <2>7. t - s = 0
    BY <2>5, <2>6
  <2>8. t = s
    BY <1>3, <2>1, <2>7
  <2> QED
    BY <2>1, <2>8
<1> QED
  BY <1>1, <1>3, <1>8

(* An int that is put in a word comes back with its sign.                   *)
LEMMA SignComesBack ==
  ASSUME NEW b \in 1 .. WordBits, NEW x \in Ints(b)
  PROVE  Unsigned(x) \in Words /\ Signed(Unsigned(x), b) = x
<1>1. PICK h \in Nat \ {0} : h = Pow2[b - 1] /\ Pow2[b] = 2 * h
  BY Pow2Half
<1>2. PICK w \in Nat \ {0} : w = Pow2[WordBits]
  BY Pow2Nat, WordBitsAssumption DEF WordBitsAssumption
<1>3. x \in -h .. h - 1
  BY <1>1 DEF Ints
<1>4. x % w \in Nat /\ x % w < w
  BY <1>2, <1>3
<1>5. (x % w) % (2 * h) = x % (2 * h)
  <2>1. PICK q \in Nat \ {0} : w = q * (2 * h)
    BY <1>1, <1>2, WidthDivides
  <2>2. 2 * h \in Nat \ {0} /\ x \in Int
    BY <1>3
  <2> QED
    BY <2>1, <2>2, ModMod
<1>6. Signed(x % w, b) = x
  <2>1. x % (2 * h) = IF x < 0 THEN x + 2 * h ELSE x
    BY <1>3, Wraps
  <2> QED
    BY <1>1, <1>3, <1>5, <2>1 DEF Signed
<1> QED
  BY <1>2, <1>4, <1>6 DEF Unsigned, Words

-----------------------------------------------------------------------------
(* skipPacket. *)

(* A round of it, behind the tag k.                                         *)
RoundAfter(buf, k, depth) ==
  CASE k.value % 8 = 0 -> {<<v.next, depth>> : v \in VarintAt(buf, k.next)}
    [] k.value % 8 = 1 -> {<<k.next + 8, depth>>}
    [] k.value % 8 = 2 -> {<<n, depth>> : n \in Past(buf, k.next)}
    [] k.value % 8 = 3 -> {<<k.next, depth + 1>>}
    [] k.value % 8 = 4 -> IF depth = 0 THEN {} ELSE {<<k.next, depth - 1>>}
    [] k.value % 8 = 5 -> {<<k.next + 4, depth>>}
    [] OTHER           -> {}

(* A round of skipPacket, named by the tag it reads.                       *)
LEMMA SkipRoundIs ==
  ASSUME NEW buf, NEW i, NEW d
  PROVE  SkipRound(buf, i, d) = UNION {RoundAfter(buf, k, d) : k \in VarintAt(buf, i)}
BY DEF SkipRound, RoundAfter

(* A delimited value ends behind its length.                               *)
LEMMA PastInBounds ==
  ASSUME NEW buf \in Seq(Bytes), NEW i \in Nat \ {0}
  PROVE  \A n \in Past(buf, i) : n \in Nat /\ n > i
<1>1. \A v \in VarintAt(buf, i) : v.next \in Nat /\ v.next > i /\ v.value \in Nat
  BY VarintInBounds DEF Words
<1> QED
  BY <1>1 DEF Past

(* Every round moves on.                                                    *)
LEMMA SkipRoundMoves ==
  ASSUME NEW buf \in Seq(Bytes), NEW i \in Nat \ {0}, NEW d \in Nat,
         NEW y \in SkipRound(buf, i, d)
  PROVE  y \in Nat \X Nat /\ y[1] > i
<1>1. PICK k \in VarintAt(buf, i) : y \in RoundAfter(buf, k, d)
  BY SkipRoundIs
<1>2. k.next \in Nat \ {0} /\ k.next > i /\ k.value \in Nat
  BY VarintInBounds DEF Words
<1>3. PICK p, q \in Nat : y = <<p, q>> /\ p > i
  <2>1. CASE k.value % 8 = 0
    <3>1. PICK v \in VarintAt(buf, k.next) : y = <<v.next, d>>
      BY <1>1, <2>1 DEF RoundAfter
    <3>2. v.next \in Nat /\ v.next > k.next
      BY <1>2, VarintInBounds
    <3> QED
      BY <1>2, <3>1, <3>2
  <2>2. CASE k.value % 8 = 1
    <3>1. y = <<k.next + 8, d>>
      BY <1>1, <2>2 DEF RoundAfter
    <3> QED
      BY <1>2, <3>1
  <2>3. CASE k.value % 8 = 2
    <3>1. PICK n \in Past(buf, k.next) : y = <<n, d>>
      BY <1>1, <2>3 DEF RoundAfter
    <3>2. n \in Nat /\ n > k.next
      BY <1>2, PastInBounds
    <3> QED
      BY <1>2, <3>1, <3>2
  <2>4. CASE k.value % 8 = 3
    <3>1. y = <<k.next, d + 1>>
      BY <1>1, <2>4 DEF RoundAfter
    <3> QED
      BY <1>2, <3>1
  <2>5. CASE k.value % 8 = 4
    <3>1. d # 0 /\ y = <<k.next, d - 1>>
      BY <1>1, <2>5 DEF RoundAfter
    <3> QED
      BY <1>2, <3>1
  <2>6. CASE k.value % 8 = 5
    <3>1. y = <<k.next + 4, d>>
      BY <1>1, <2>6 DEF RoundAfter
    <3> QED
      BY <1>2, <3>1
  <2>7. CASE k.value % 8 \notin {0, 1, 2, 3, 4, 5}
    <3>1. RoundAfter(buf, k, d) = {}
      BY <2>7 DEF RoundAfter
    <3> QED
      BY <1>1, <3>1
  <2> QED
    BY <2>1, <2>2, <2>3, <2>4, <2>5, <2>6, <2>7
<1> QED
  BY <1>3

(* Where the rounds lead to, going on as e says.                            *)
GoesOn(buf, e, y) == IF y[2] = 0 THEN {y[1]} ELSE IF y[1] <= Len(buf) THEN e[y] ELSE {}

Ended(buf, e, x) == UNION {GoesOn(buf, e, y) : y \in SkipRound(buf, x[1], x[2])}

IsEnds(buf, e) == e = [x \in (1 .. Len(buf)) \X Nat |-> Ended(buf, e, x)]

SkipEnds(buf) == CHOOSE e : IsEnds(buf, e)

(* skipPacket is where the rounds end that begin with no group open.       *)
LEMMA SkipPacketIs ==
  ASSUME NEW buf, NEW i
  PROVE  skipPacket(buf, i) = SkipEnds(buf)[<<i, 0>>]
BY DEF skipPacket, SkipEnds, IsEnds, Ended, GoesOn

(* Where the rounds end depends only on where the next round is.           *)
LEMMA EndedDependsOn ==
  ASSUME NEW buf, NEW x, NEW e, NEW g,
         \A y \in SkipRound(buf, x[1], x[2]) : y[1] <= Len(buf) /\ y[2] # 0 => e[y] = g[y]
  PROVE  Ended(buf, e, x) = Ended(buf, g, x)
<1>1. \A y \in SkipRound(buf, x[1], x[2]) : GoesOn(buf, e, y) = GoesOn(buf, g, y)
  BY DEF GoesOn
<1> QED
  BY <1>1 DEF Ended

(* There is a function that meets the equation of the rounds: each moves   *)
(* on.                                                                     *)
LEMMA SkipEndsExist ==
  ASSUME NEW buf \in Seq(Bytes)
  PROVE  \E e : IsEnds(buf, e)
<1> DEFINE n == Len(buf)
           D == (1 .. n) \X Nat
           Is(m, e) == /\ e = [x \in D |-> e[x]]
                       /\ \A x \in D : x[1] > n - m => e[x] = Ended(buf, e, x)
           S == {m \in Nat : m <= n => \E e : Is(m, e)}
<1>1. n \in Nat
  OBVIOUS
<1>2. \A x \in D : x[1] \in 1 .. n /\ x[2] \in Nat
  OBVIOUS
<1>3. \A x \in D : \A y \in SkipRound(buf, x[1], x[2]) :
        /\ y[1] > x[1]
        /\ y[1] <= n => y \in D
  <2> TAKE x \in D
  <2> TAKE y \in SkipRound(buf, x[1], x[2])
  <2>1. x[1] \in Nat \ {0} /\ x[2] \in Nat
    BY <1>1, <1>2
  <2>2. y \in Nat \X Nat /\ y[1] > x[1]
    BY <2>1, SkipRoundMoves
  <2> QED
    BY <1>1, <2>1, <2>2
<1> HIDE DEF n, D
<1>4. 0 \in S
  <2>1. Is(0, [x \in D |-> {}])
    BY <1>1, <1>2
  <2> QED
    BY <2>1
<1>5. ASSUME NEW m \in Nat, m \in S PROVE m + 1 \in S
  <2> SUFFICES ASSUME m + 1 <= n PROVE \E g : Is(m + 1, g)
    OBVIOUS
  <2>1. PICK e : Is(m, e)
    BY <1>1, <1>5
  <2> DEFINE g == [x \in D |-> IF x[1] = n - m THEN Ended(buf, e, x) ELSE e[x]]
  <2>2. \A x \in D : x[1] # n - m => g[x] = e[x]
    OBVIOUS
  <2>3. \A x \in D : x[1] = n - m => g[x] = Ended(buf, e, x)
    OBVIOUS
  <2>4. g = [x \in D |-> g[x]]
    OBVIOUS
  <2> HIDE DEF g
  <2>5. ASSUME NEW x \in D, x[1] > n - (m + 1) PROVE g[x] = Ended(buf, g, x)
    <3>1. x[1] >= n - m
      BY <1>1, <1>2, <2>5
    <3>2. \A y \in SkipRound(buf, x[1], x[2]) : y[1] <= Len(buf) /\ y[2] # 0 => e[y] = g[y]
      <4> SUFFICES ASSUME NEW y \in SkipRound(buf, x[1], x[2]), y[1] <= n
                   PROVE  e[y] = g[y]
        BY DEF n
      <4>1. y \in D /\ y[1] > x[1]
        BY <1>3
      <4>2. y[1] # n - m
        BY <1>1, <1>2, <3>1, <4>1
      <4> QED
        BY <2>2, <4>1, <4>2
    <3>3. Ended(buf, e, x) = Ended(buf, g, x)
      BY <3>2, EndedDependsOn
    <3>4. g[x] = Ended(buf, e, x)
      <4>1. CASE x[1] = n - m
        BY <2>3, <4>1
      <4>2. CASE x[1] > n - m
        <5>1. x[1] # n - m
          BY <1>1, <1>2, <4>2
        <5> QED
          BY <2>1, <2>2, <4>2, <5>1
      <4> QED
        BY <1>1, <1>2, <3>1, <4>1, <4>2
    <3> QED
      BY <3>3, <3>4
  <2> QED
    BY <2>4, <2>5
<1>6. n \in S
  <2> HIDE DEF S
  <2> QED
    BY <1>1, <1>4, <1>5, SetInduction
<1>7. PICK e : Is(n, e)
  BY <1>1, <1>6
<1>8. \A x \in D : x[1] > n - n
  BY <1>1, <1>2
<1>9. e = [x \in D |-> Ended(buf, e, x)]
  BY <1>7, <1>8
<1> QED
  BY <1>9 DEF IsEnds, D, n

(* The rounds of skipPacket meet their equation.                           *)
LEMMA SkipEndsEquation ==
  ASSUME NEW buf \in Seq(Bytes), NEW i \in 1 .. Len(buf), NEW d \in Nat
  PROVE  SkipEnds(buf)[<<i, d>>] =
           UNION {GoesOn(buf, SkipEnds(buf), y) : y \in SkipRound(buf, i, d)}
<1>1. IsEnds(buf, SkipEnds(buf))
  BY SkipEndsExist DEF SkipEnds
<1>2. \A x \in (1 .. Len(buf)) \X Nat : SkipEnds(buf)[x] = Ended(buf, SkipEnds(buf), x)
  <2>1. PICK e : e = SkipEnds(buf) /\ IsEnds(buf, e)
    BY <1>1
  <2>2. \A x \in (1 .. Len(buf)) \X Nat : e[x] = Ended(buf, e, x)
    BY <2>1 DEF IsEnds
  <2> QED
    BY <2>1, <2>2
<1>3. <<i, d>> \in (1 .. Len(buf)) \X Nat /\ <<i, d>>[1] = i /\ <<i, d>>[2] = d
  OBVIOUS
<1> QED
  BY <1>2, <1>3 DEF Ended

(* A varint or a delimited value by itself takes one round.                 *)
LEMMA SkipOne ==
  ASSUME NEW buf \in Seq(Bytes), NEW i \in 1 .. Len(buf), buf[i] < 128
  PROVE  /\ buf[i] % 8 = 0 => skipPacket(buf, i) = {v.next : v \in VarintAt(buf, i + 1)}
         /\ buf[i] % 8 = 2 => skipPacket(buf, i) = Past(buf, i + 1)
<1> DEFINE k == [value |-> buf[i], next |-> i + 1]
           e == SkipEnds(buf)
<1>1. VarintAt(buf, i) = {k}
  BY ByteReads
<1>2. SkipRound(buf, i, 0) = RoundAfter(buf, k, 0)
  BY <1>1, SkipRoundIs
<1>3. skipPacket(buf, i) = UNION {GoesOn(buf, e, y) : y \in RoundAfter(buf, k, 0)}
  BY <1>2, SkipPacketIs, SkipEndsEquation
<1>4. k.value = buf[i] /\ k.next = i + 1
  OBVIOUS
<1>5. \A y, x : y[2] = 0 => (x \in GoesOn(buf, e, y) <=> x = y[1])
  BY DEF GoesOn
<1> HIDE DEF k, e
<1>6. ASSUME buf[i] % 8 = 0 PROVE skipPacket(buf, i) = {v.next : v \in VarintAt(buf, i + 1)}
  <2>1. RoundAfter(buf, k, 0) = {<<v.next, 0>> : v \in VarintAt(buf, i + 1)}
    BY <1>4, <1>6 DEF RoundAfter
  <2>2. \A y \in RoundAfter(buf, k, 0) : y[2] = 0
    BY <2>1
  <2>3. \A x : x \in skipPacket(buf, i) <=> \E y \in RoundAfter(buf, k, 0) : x = y[1]
    BY <1>3, <1>5, <2>2
  <2>4. \A y \in RoundAfter(buf, k, 0) : \E v \in VarintAt(buf, i + 1) : y[1] = v.next
    BY <2>1
  <2>5. \A v \in VarintAt(buf, i + 1) : \E y \in RoundAfter(buf, k, 0) : y[1] = v.next
    <3> TAKE v \in VarintAt(buf, i + 1)
    <3>1. <<v.next, 0>> \in RoundAfter(buf, k, 0)
      BY <2>1
    <3> QED
      BY <3>1
  <2> QED
    BY <2>3, <2>4, <2>5
<1>7. ASSUME buf[i] % 8 = 2 PROVE skipPacket(buf, i) = Past(buf, i + 1)
  <2>1. RoundAfter(buf, k, 0) = {<<n, 0>> : n \in Past(buf, i + 1)}
    BY <1>4, <1>7 DEF RoundAfter
  <2>2. \A y \in RoundAfter(buf, k, 0) : y[2] = 0
    BY <2>1
  <2>3. \A x : x \in skipPacket(buf, i) <=> \E y \in RoundAfter(buf, k, 0) : x = y[1]
    BY <1>3, <1>5, <2>2
  <2>4. \A y \in RoundAfter(buf, k, 0) : y[1] \in Past(buf, i + 1)
    BY <2>1
  <2>5. \A n \in Past(buf, i + 1) : \E y \in RoundAfter(buf, k, 0) : y[1] = n
    <3> TAKE n \in Past(buf, i + 1)
    <3>1. <<n, 0>> \in RoundAfter(buf, k, 0)
      BY <2>1
    <3> QED
      BY <3>1
  <2>6. \A n : n \in skipPacket(buf, i) <=> n \in Past(buf, i + 1)
    BY <2>3, <2>4, <2>5
  <2> QED
    BY <2>6
<1> QED
  BY <1>6, <1>7

-----------------------------------------------------------------------------
(* Fields. *)

FieldOf(tag, i, n) ==
  [num |-> tag \div 8, type |-> tag % 8, first |-> i, at |-> i + 1, next |-> n]

Tags == 0 .. 127

(* The number of a field is what its tag says.                             *)
LEMMA TagNumber == \A t \in Tags : Signed(t \div 8, Int32Bits) = t \div 8
<1> TAKE t \in Tags
<1>1. t \div 8 \in Nat /\ t \div 8 < 16
  BY DEF Tags
<1>2. Int32Bits \in 1 .. WordBits /\ 6 \in 0 .. WordBits + 7 /\ Int32Bits - 1 \in 6 .. WordBits + 7
      /\ 6 \in 0 .. WordBits + 6 /\ 0 \in 0 .. WordBits
  BY WidthsAssumption, WordBitsAssumption DEF WidthsAssumption,
     WordBitsAssumption
<1>3. Pow2[6] = 64
  <2>1. Pow2[0 + 7] = 128 * Pow2[0] /\ Pow2[0] = 1
    BY <1>2, Pow2Seven, Pow2Equation
  <2>2. Pow2[6 + 1] = 2 * Pow2[6] /\ Pow2[6] \in Nat
    BY <1>2, Pow2Equation
  <2> QED
    BY <2>1, <2>2
<1>4. Pow2[6] <= Pow2[Int32Bits - 1] /\ Pow2[Int32Bits - 1] \in Nat
  BY <1>2, Pow2Grows, Pow2Half
<1>5. t \div 8 < Pow2[Int32Bits - 1]
  BY <1>1, <1>3, <1>4
<1> QED
  BY <1>1, <1>2, <1>5, SignedSmall

(* Where the field behind the tag at i may end.                             *)
EndsField(buf, i, limit, strings, n) ==
  IF buf[i] \div 8 \in strings THEN n \in Past(buf, i + 1) /\ n <= Len(buf) + 1
  ELSE n \in skipPacket(buf, i) /\ n <= limit + 1

(* The fields at a tag of one byte.                                        *)
LEMMA TagField ==
  ASSUME NEW buf \in Seq(Bytes), NEW i \in 1 .. Len(buf), buf[i] < 128, NEW limit, NEW strings,
         NEW f
  PROVE  f \in FieldAt(buf, i, limit, strings) <=>
           \E n : f = FieldOf(buf[i], i, n) /\ EndsField(buf, i, limit, strings, n)
<1> DEFINE k == [value |-> buf[i], next |-> i + 1]
           num == Signed(k.value \div 8, Int32Bits)
           ends == IF num \in strings THEN {n \in Past(buf, k.next) : n <= Len(buf) + 1}
                   ELSE {n \in skipPacket(buf, i) : n <= limit + 1}
           R(n) == [num |-> num, type |-> k.value % 8, first |-> i, at |-> k.next, next |-> n]
<1>1. VarintAt(buf, i) = {k}
  BY ByteReads
<1>2. FieldAt(buf, i, limit, strings) = {R(n) : n \in ends}
  BY <1>1 DEF FieldAt
<1>3. num = buf[i] \div 8 /\ k.next = i + 1 /\ k.value = buf[i]
  <2>1. buf[i] \in Nat /\ buf[i] < 128
    <3>1. buf[i] \in Bytes
      OBVIOUS
    <3> QED
      BY <3>1, ByteNat
  <2>2. buf[i] \in Tags
    <3>1. \A b \in Nat : b < 128 => b \in Tags
      BY DEF Tags
    <3> QED
      BY <2>1, <3>1
  <2>3. k.next = i + 1 /\ k.value = buf[i]
    OBVIOUS
  <2> HIDE DEF k
  <2> QED
    BY <2>2, <2>3, TagNumber
<1>4. \A n : R(n) = FieldOf(buf[i], i, n)
  BY <1>3 DEF FieldOf
<1>5. \A n : n \in ends <=> EndsField(buf, i, limit, strings, n)
  BY <1>3 DEF EndsField
<1> HIDE DEF R, ends
<1> QED
  BY <1>2, <1>4, <1>5

(* A tag with a varint behind it is one field.                             *)
LEMMA VarintField ==
  ASSUME NEW buf \in Seq(Bytes), NEW i \in 1 .. Len(buf), buf[i] < 128, buf[i] % 8 = 0,
         NEW v, VarintAt(buf, i + 1) = {v}
  PROVE  FieldAt(buf, i, Len(buf), {}) = {FieldOf(buf[i], i, v.next)}
<1>1. \A m : m \in skipPacket(buf, i) <=> m = v.next
  BY SkipOne
<1>2. v.next <= Len(buf) + 1
  <2>1. v \in VarintAt(buf, i + 1) /\ i + 1 \in Nat \ {0} /\ Len(buf) \in Nat
    OBVIOUS
  <2>2. v.next \in i + 2 .. Len(buf) + 1
    BY <2>1, VarintInBounds
  <2> QED
    BY <2>1, <2>2
<1>3. \A f : f \in FieldAt(buf, i, Len(buf), {}) <=>
        \E m : f = FieldOf(buf[i], i, m) /\ EndsField(buf, i, Len(buf), {}, m)
  BY TagField
<1>4. \A f : f \in FieldAt(buf, i, Len(buf), {}) <=> f = FieldOf(buf[i], i, v.next)
  BY <1>1, <1>2, <1>3 DEF EndsField
<1> QED
  BY <1>4

(* A tag without a varint behind it is an error.                           *)
LEMMA VarintFieldCut ==
  ASSUME NEW buf \in Seq(Bytes), NEW i \in 1 .. Len(buf), buf[i] < 128, buf[i] % 8 = 0,
         VarintAt(buf, i + 1) = {}
  PROVE  FieldAt(buf, i, Len(buf), {}) = {}
<1>1. \A m : ~ (m \in skipPacket(buf, i))
  BY SkipOne
<1>2. \A f : f \in FieldAt(buf, i, Len(buf), {}) <=>
        \E m : f = FieldOf(buf[i], i, m) /\ EndsField(buf, i, Len(buf), {}, m)
  BY TagField
<1> QED
  BY <1>1, <1>2 DEF EndsField

(* A delimited field, of a message or of the entry of a map.                *)
Taken(buf, t, limit, strings) == (strings = {} /\ limit = Len(buf)) \/ t \div 8 \in strings

(* A delimited field ends behind its length, within the buffer.            *)
LEMMA LengthField ==
  ASSUME NEW buf \in Seq(Bytes), NEW i \in 1 .. Len(buf), buf[i] < 128, buf[i] % 8 = 2,
         NEW limit, NEW strings,
         Taken(buf, buf[i], limit, strings),
         NEW f
  PROVE  f \in FieldAt(buf, i, limit, strings) <=>
           \E n \in Past(buf, i + 1) : n <= Len(buf) + 1 /\ f = FieldOf(buf[i], i, n)
<1>1. skipPacket(buf, i) = Past(buf, i + 1)
  BY SkipOne
<1>2. f \in FieldAt(buf, i, limit, strings) <=>
        \E m : f = FieldOf(buf[i], i, m) /\ EndsField(buf, i, limit, strings, m)
  BY TagField
<1>3. CASE buf[i] \div 8 \in strings
  BY <1>2, <1>3 DEF EndsField
<1>4. CASE strings = {} /\ limit = Len(buf)
  BY <1>1, <1>2, <1>4 DEF EndsField
<1> QED
  BY <1>3, <1>4 DEF Taken

-----------------------------------------------------------------------------
(* What Marshal puts down, and what FieldAt finds.                          *)

LEMMA ByteSeq ==
  ASSUME NEW t \in Tags
  PROVE  <<t>> \in Seq(Bytes) /\ Len(<<t>>) = 1 /\ <<t>>[1] = t /\ t \in Bytes /\ t < 128 /\ t \in Nat
BY DEF Tags, Bytes

(* A tag is the first byte of its encoding.                                *)
LEMMA TagStands ==
  ASSUME NEW buf \in Seq(Bytes), NEW i \in 1 .. Len(buf), NEW t \in Tags, NEW s \in Seq(Bytes),
         Begins(buf, i, <<t>> \o s)
  PROVE  buf[i] = t /\ buf[i] < 128 /\ Begins(buf, i + 1, s)
<1>1. Begins(buf, i, <<t>>) /\ Begins(buf, i + Len(<<t>>), s)
  <2>1. <<t>> \in Seq(Bytes) /\ i \in Nat \ {0}
    BY ByteSeq
  <2> QED
    BY <2>1, BeginsCat
<1>2. 1 \in 1 .. Len(<<t>>) /\ i + 1 - 1 = i /\ i <= Len(buf)
  BY ByteSeq
<1>3. buf[i] = t
  BY <1>1, <1>2, ByteSeq DEF Begins
<1> QED
  BY <1>1, <1>3, ByteSeq

(* A tag and a word take one byte more than the word.                      *)
LEMMA IntEncoded ==
  ASSUME NEW t \in Tags, NEW x \in Words
  PROVE  /\ <<t>> \o encodeVarintPacket(x) \in Seq(Bytes)
         /\ Len(<<t>> \o encodeVarintPacket(x)) = 1 + sovPacket(x)
         /\ sovPacket(x) \in Nat \ {0}
<1>1. <<t>> \in Seq(Bytes) /\ Len(<<t>>) = 1
  BY ByteSeq
<1> QED
  BY <1>1, EncodeSeq, ConcatProperties

(* A number that Marshal put into a buffer is the one field found there.   *)
LEMMA IntField ==
  ASSUME NEW buf \in Seq(Bytes), NEW i \in Nat \ {0}, NEW t \in Tags, t % 8 = 0, NEW x \in Words,
         Stands(buf, i, <<t>> \o encodeVarintPacket(x))
  PROVE  /\ i <= Len(buf)
         /\ FieldAt(buf, i, Len(buf), {}) = {FieldOf(t, i, i + 1 + sovPacket(x))}
         /\ VarintAt(buf, i + 1) = {[value |-> x, next |-> i + 1 + sovPacket(x)]}
<1>1. i \in 1 .. Len(buf)
  BY IntEncoded DEF Stands
<1>2. buf[i] = t /\ buf[i] < 128
  BY <1>1, EncodeSeq, TagStands DEF Stands
<1>3. Stands(buf, i + 1, encodeVarintPacket(x))
  BY <1>1, EncodeSeq, ByteSeq, StandsCat
<1>4. VarintAt(buf, i + 1) = {[value |-> x, next |-> i + 1 + sovPacket(x)]}
  BY <1>1, <1>3, WordReads
<1>5. FieldAt(buf, i, Len(buf), {}) = {FieldOf(buf[i], i, i + 1 + sovPacket(x))}
  <2> DEFINE v == [value |-> x, next |-> i + 1 + sovPacket(x)]
  <2>1. buf[i] % 8 = 0 /\ VarintAt(buf, i + 1) = {v} /\ v.next = i + 1 + sovPacket(x)
    BY <1>2, <1>4
  <2> HIDE DEF v
  <2> QED
    BY <1>1, <1>2, <2>1, VarintField
<1> QED
  BY <1>1, <1>2, <1>4, <1>5

(* A number that is cut short is an error.                                 *)
LEMMA IntFieldCut ==
  ASSUME NEW buf \in Seq(Bytes), NEW i \in 1 .. Len(buf), NEW t \in Tags, t % 8 = 0,
         NEW x \in Words, Begins(buf, i, <<t>> \o encodeVarintPacket(x)),
         Len(buf) < i + sovPacket(x)
  PROVE  FieldAt(buf, i, Len(buf), {}) = {}
<1>1. /\ buf[i] = t /\ buf[i] < 128
      /\ Begins(buf, i + 1, encodeVarintPacket(x))
  BY EncodeSeq, TagStands
<1>2. VarintAt(buf, i + 1) = {}
  <2>1. Len(buf) < (i + 1) + sovPacket(x) - 1 /\ i + 1 \in Nat \ {0}
    BY EncodeSeq
  <2> QED
    BY <1>1, <2>1, WordCut
<1> QED
  BY <1>1, <1>2, VarintFieldCut

(* A length that an int has room for.                                       *)
LEMMA FitsWord ==
  ASSUME NEW n \in Nat, Fits(n)
  PROVE  n \in Words /\ Signed(n, WordBits) = n
<1>1. WordBits \in 1 .. WordBits
  BY WordBitsAssumption DEF WordBitsAssumption
<1>2. n < Pow2[WordBits]
  BY <1>1, Pow2Half DEF Fits
<1> QED
  BY <1>1, <1>2, SignedSmall DEF Fits, Words

(* A tagged payload is as long as Delimited says.                          *)
LEMMA TaggedSeq ==
  ASSUME NEW t \in Tags, NEW s \in Seq(Bytes)
  PROVE  /\ Tagged(t, s) = <<t>> \o (encodeVarintPacket(Len(s)) \o s)
         /\ Tagged(t, s) \in Seq(Bytes)
         /\ Len(Tagged(t, s)) = Delimited(Len(s))
         /\ encodeVarintPacket(Len(s)) \o s \in Seq(Bytes)
         /\ Len(encodeVarintPacket(Len(s)) \o s) = sovPacket(Len(s)) + Len(s)
         /\ sovPacket(Len(s)) \in Nat \ {0} /\ Len(s) \in Nat
<1> DEFINE e == encodeVarintPacket(Len(s))
<1>1. <<t>> \in Seq(Bytes) /\ Len(<<t>>) = 1
  BY ByteSeq
<1>2. e \in Seq(Bytes) /\ Len(e) = sovPacket(Len(s)) /\ sovPacket(Len(s)) \in Nat \ {0}
  BY EncodeAll
<1>3. Len(s) \in Nat
  OBVIOUS
<1> HIDE DEF e
<1>4. e \o s \in Seq(Bytes) /\ Len(e \o s) = Len(e) + Len(s)
  BY <1>2, ConcatProperties
<1>5. (<<t>> \o e) \o s = <<t>> \o (e \o s)
  BY <1>1, <1>2, ConcatAssociative
<1>6. <<t>> \o (e \o s) \in Seq(Bytes) /\ Len(<<t>> \o (e \o s)) = 1 + Len(e \o s)
  BY <1>1, <1>4, ConcatProperties
<1>7. Tagged(t, s) = (<<t>> \o e) \o s
  BY DEF Tagged, e
<1>8. Len(Tagged(t, s)) = Delimited(Len(s))
  BY <1>2, <1>3, <1>4, <1>5, <1>6, <1>7 DEF Delimited
<1> QED
  BY <1>2, <1>3, <1>4, <1>5, <1>6, <1>7, <1>8 DEF e

(* A payload that Marshal put into a buffer is the one field found there.  *)
LEMMA DelimitedField ==
  ASSUME NEW buf \in Seq(Bytes), NEW i \in Nat \ {0}, NEW t \in Tags, t % 8 = 2,
         NEW s \in Seq(Bytes), Fits(Len(s)), Stands(buf, i, Tagged(t, s)),
         NEW limit, NEW strings,
         Taken(buf, t, limit, strings)
  PROVE  /\ i <= Len(buf)
         /\ FieldAt(buf, i, limit, strings) = {FieldOf(t, i, i + Delimited(Len(s)))}
         /\ VarintAt(buf, i + 1) = {[value |-> Len(s), next |-> i + 1 + sovPacket(Len(s))]}
         /\ Stands(buf, i + 1 + sovPacket(Len(s)), s)
<1> DEFINE n == Len(s)
           e == encodeVarintPacket(n)
           past == i + 1 + sovPacket(n)
<1>1. /\ n \in Nat /\ n \in Words /\ Signed(n, WordBits) = n
      /\ Tagged(t, s) = <<t>> \o (e \o s)
      /\ Len(Tagged(t, s)) = Delimited(n)
      /\ e \o s \in Seq(Bytes) /\ e \in Seq(Bytes)
      /\ Len(e) = sovPacket(n) /\ sovPacket(n) \in Nat \ {0}
      /\ Len(buf) \in Nat
  BY FitsWord, TaggedSeq, EncodeSeq
<1>2. i + Delimited(n) - 1 <= Len(buf) /\ Delimited(n) = 1 + n + sovPacket(n)
  BY <1>1 DEF Stands, Delimited
<1>3. i \in 1 .. Len(buf)
  BY <1>1, <1>2
<1>4. Stands(buf, i, <<t>>) /\ Stands(buf, i + 1, e \o s)
  <2>1. <<t>> \in Seq(Bytes) /\ Len(<<t>>) = 1 /\ Stands(buf, i, <<t>> \o (e \o s))
    BY <1>1, ByteSeq
  <2> HIDE DEF e
  <2> QED
    BY <1>1, <2>1, StandsCat
<1>5. Stands(buf, i + 1, e) /\ Stands(buf, past, s)
  <2>1. i + 1 \in Nat \ {0}
    OBVIOUS
  <2> QED
    BY <1>1, <1>4, <2>1, StandsCat
<1> HIDE DEF n, e
<1>6. buf[i] = t /\ buf[i] < 128
  <2>1. Begins(buf, i, <<t>> \o (e \o s))
    BY <1>1 DEF Stands, n
  <2> QED
    BY <1>1, <1>3, <2>1, TagStands
<1>7. VarintAt(buf, i + 1) = {[value |-> n, next |-> past]}
  BY <1>1, <1>3, <1>5, WordReads DEF e
<1>8. \A m : m \in Past(buf, i + 1) <=> m = i + Delimited(n)
  <2>1. past + n = i + Delimited(n)
    BY <1>1, <1>2
  <2>2. Past(buf, i + 1) = {past + n}
    <3> DEFINE r == [value |-> n, next |-> past]
    <3>1. r.value = n /\ r.next = past /\ Signed(r.value, WordBits) >= 0
      BY <1>1
    <3>2. Past(buf, i + 1) = {v.next + v.value : v \in {v \in {r} : Signed(v.value, WordBits) >= 0}}
      BY <1>7 DEF Past
    <3> HIDE DEF r
    <3> QED
      BY <3>1, <3>2
  <2> QED
    BY <2>1, <2>2
<1>9. i + Delimited(n) <= Len(buf) + 1
  BY <1>1, <1>2
<1>10. \A f : f \in FieldAt(buf, i, limit, strings) <=>
         \E m \in Past(buf, i + 1) : m <= Len(buf) + 1 /\ f = FieldOf(buf[i], i, m)
  <2>1. Taken(buf, buf[i], limit, strings)
    BY <1>6
  <2> QED
    BY <1>3, <1>6, <2>1, LengthField
<1>11. \A f : f \in FieldAt(buf, i, limit, strings) <=> f = FieldOf(t, i, i + Delimited(n))
  BY <1>6, <1>8, <1>9, <1>10
<1> QED
  BY <1>3, <1>5, <1>7, <1>11 DEF n

(* A payload that is cut short is an error.                                *)
LEMMA DelimitedFieldCut ==
  ASSUME NEW buf \in Seq(Bytes), NEW i \in 1 .. Len(buf), NEW t \in Tags, t % 8 = 2,
         NEW s \in Seq(Bytes), Fits(Len(s)), Begins(buf, i, Tagged(t, s)),
         Len(buf) < i + Delimited(Len(s)) - 1
  PROVE  FieldAt(buf, i, Len(buf), {}) = {}
<1> DEFINE n == Len(s)
           e == encodeVarintPacket(n)
           past == i + 1 + sovPacket(n)
<1>1. /\ n \in Nat /\ n \in Words /\ Signed(n, WordBits) = n
      /\ Tagged(t, s) = <<t>> \o (e \o s)
      /\ e \o s \in Seq(Bytes) /\ e \in Seq(Bytes)
      /\ Len(e) = sovPacket(n) /\ sovPacket(n) \in Nat \ {0}
      /\ Len(buf) \in Nat
  <2>1. n \in Nat /\ n \in Words /\ Signed(n, WordBits) = n /\ Len(buf) \in Nat
    BY FitsWord
  <2> QED
    BY <2>1, TaggedSeq, EncodeSeq
<1>2. Len(buf) < i + Delimited(n) - 1 /\ Delimited(n) = 1 + n + sovPacket(n)
  <2>1. Len(buf) < i + Delimited(n) - 1
    OBVIOUS
  <2> QED
    BY <2>1 DEF Delimited
<1> HIDE DEF n, e
<1>3. buf[i] = t /\ buf[i] < 128 /\ Begins(buf, i + 1, e \o s)
  <2>1. Begins(buf, i, <<t>> \o (e \o s))
    BY <1>1 DEF n
  <2> QED
    BY <1>1, <2>1, TagStands
<1>4. Begins(buf, i + 1, e)
  <2>1. i + 1 \in Nat \ {0}
    OBVIOUS
  <2> QED
    BY <1>1, <1>3, <2>1, BeginsCat
<1>5. \A m \in Past(buf, i + 1) : ~ (m <= Len(buf) + 1)
  <2>1. CASE Len(buf) < (i + 1) + sovPacket(n) - 1
    <3>1. VarintAt(buf, i + 1) = {}
      BY <1>1, <1>4, <2>1, WordCut DEF e
    <3> QED
      BY <3>1 DEF Past
  <2>2. CASE ~ (Len(buf) < (i + 1) + sovPacket(n) - 1)
    <3>1. Stands(buf, i + 1, e)
      BY <1>1, <1>4, <2>2 DEF Stands
    <3>2. VarintAt(buf, i + 1) = {[value |-> n, next |-> past]}
      BY <1>1, <3>1, WordReads DEF e
    <3>3. Past(buf, i + 1) = {past + n}
      <4> DEFINE r == [value |-> n, next |-> past]
      <4>1. r.value = n /\ r.next = past /\ Signed(r.value, WordBits) >= 0
        BY <1>1
      <4>2. Past(buf, i + 1) = {v.next + v.value : v \in {v \in {r} : Signed(v.value, WordBits) >= 0}}
        BY <3>2 DEF Past
      <4> HIDE DEF r
      <4> QED
        BY <4>1, <4>2
    <3>4. ~ (past + n <= Len(buf) + 1)
      BY <1>1, <1>2
    <3> QED
      BY <3>3, <3>4
  <2> QED
    BY <2>1, <2>2
<1>6. \A f : f \in FieldAt(buf, i, Len(buf), {}) <=>
         \E m \in Past(buf, i + 1) : m <= Len(buf) + 1 /\ f = FieldOf(buf[i], i, m)
  <2>1. Taken(buf, buf[i], Len(buf), {})
    BY DEF Taken
  <2> QED
    BY <1>3, <2>1, LengthField
<1> QED
  BY <1>5, <1>6

-----------------------------------------------------------------------------
(* From the end of a buffer to its beginning.                               *)

(* Induction from the end of a buffer to its beginning.                    *)
LEMMA Downward ==
  ASSUME NEW n \in Nat, NEW T,
         \A p \in 1 .. n : (\A q \in p + 1 .. n : q \in T) => p \in T
  PROVE  1 .. n \subseteq T
<1> DEFINE S == {m \in Nat : m <= n => \A q \in (n - m) + 1 .. n : q \in T}
<1>1. 0 \in S
  OBVIOUS
<1>2. ASSUME NEW m \in Nat, m \in S PROVE m + 1 \in S
  <2> SUFFICES ASSUME m + 1 <= n
               PROVE  \A q \in (n - (m + 1)) + 1 .. n : q \in T
    OBVIOUS
  <2>1. n - m \in 1 .. n /\ \A q \in (n - m) + 1 .. n : q \in T
    BY <1>2
  <2>2. n - m \in T
    BY <2>1
  <2>3. \A q \in (n - (m + 1)) + 1 .. n : q = n - m \/ q \in (n - m) + 1 .. n
    OBVIOUS
  <2> QED
    BY <2>1, <2>2, <2>3
<1>3. n \in S
  <2> HIDE DEF S
  <2> QED
    BY <1>1, <1>2, SetInduction
<1>4. \A q \in 1 .. n : q \in (n - n) + 1 .. n
  OBVIOUS
<1> QED
  BY <1>3, <1>4

(* skipPacket ends behind where it begins. *)
LEMMA SkipBounds ==
  ASSUME NEW buf \in Seq(Bytes), NEW i \in 1 .. Len(buf)
  PROVE  \A n \in skipPacket(buf, i) : n \in Nat /\ n > i
<1> DEFINE e == SkipEnds(buf)
           T == {p \in 1 .. Len(buf) : \A d \in Nat : \A n \in e[<<p, d>>] : n \in Nat /\ n > p}
<1>1. ASSUME NEW p \in 1 .. Len(buf), \A q \in p + 1 .. Len(buf) : q \in T
      PROVE  p \in T
  <2> SUFFICES ASSUME NEW d \in Nat, NEW n \in e[<<p, d>>]
               PROVE  n \in Nat /\ n > p
    OBVIOUS
  <2>1. PICK y \in SkipRound(buf, p, d) : n \in GoesOn(buf, e, y)
    BY SkipEndsEquation
  <2>2. y \in Nat \X Nat /\ y[1] > p
    BY SkipRoundMoves
  <2>3. PICK q \in Nat, h \in Nat : y = <<q, h>> /\ q > p
    BY <2>2
  <2>4. CASE h = 0
    BY <2>1, <2>3, <2>4 DEF GoesOn
  <2>5. CASE h # 0
    <3>1. q <= Len(buf) /\ n \in e[<<q, h>>]
      BY <2>1, <2>3, <2>5 DEF GoesOn
    <3>2. q \in p + 1 .. Len(buf)
      BY <2>3, <3>1
    <3>3. n \in Nat /\ n > q
      BY <1>1, <3>1, <3>2
    <3> QED
      BY <2>3, <3>3
  <2> QED
    BY <2>4, <2>5
<1>2. Len(buf) \in Nat
  OBVIOUS
<1>3. 1 .. Len(buf) \subseteq T
  <2> HIDE DEF T
  <2> QED
    BY <1>1, <1>2, Downward
<1>4. \A n \in e[<<i, 0>>] : n \in Nat /\ n > i
  BY <1>3
<1> QED
  BY <1>4, SkipPacketIs

(* On any bytes at all, those of a peer that is broken or newer included,  *)
(* a round of Unmarshal that finds a field has moved on and is still       *)
(* within the buffer: the loop ends, and no field reaches past the end.    *)
THEOREM FieldAtMoves ==
  ASSUME NEW buf \in Seq(Bytes), NEW i \in 1 .. Len(buf), NEW limit \in 0 .. Len(buf), NEW strings,
         NEW f \in FieldAt(buf, i, limit, strings)
  PROVE  f.next \in i + 1 .. Len(buf) + 1 /\ f.first = i
<1> DEFINE R(k, n) == [num |-> Signed(k.value \div 8, Int32Bits), type |-> k.value % 8, first |-> i,
                       at |-> k.next, next |-> n]
<1>1. PICK k \in VarintAt(buf, i) :
        \E n : /\ f = R(k, n)
               /\ \/ n \in Past(buf, k.next) /\ n <= Len(buf) + 1
                  \/ n \in skipPacket(buf, i) /\ n <= limit + 1
  BY DEF FieldAt
<1>2. PICK n : /\ f = R(k, n)
               /\ \/ n \in Past(buf, k.next) /\ n <= Len(buf) + 1
                  \/ n \in skipPacket(buf, i) /\ n <= limit + 1
  BY <1>1
<1>3. n \in i + 1 .. Len(buf) + 1
  <2>1. Len(buf) \in Nat /\ i \in Nat /\ i \in Nat \ {0} /\ limit \in Nat /\ limit <= Len(buf)
    OBVIOUS
  <2>2. CASE n \in Past(buf, k.next) /\ n <= Len(buf) + 1
    <3>1. k.next \in Nat \ {0} /\ k.next > i
      BY <2>1, VarintInBounds
    <3>2. n \in Nat /\ n > k.next
      BY <2>2, <3>1, PastInBounds
    <3> QED
      BY <2>1, <2>2, <3>1, <3>2
  <2>3. CASE n \in skipPacket(buf, i) /\ n <= limit + 1
    <3>1. n \in Nat /\ n > i
      BY <2>3, SkipBounds
    <3> QED
      BY <2>1, <2>3, <3>1
  <2> QED
    BY <1>2, <2>2, <2>3
<1>4. f.next = n /\ f.first = i
  BY <1>2
<1> QED
  BY <1>3, <1>4

-----------------------------------------------------------------------------
(* The fields of a message, one after the other.                            *)

FieldsFrom(buf, limit, strings, e, j) ==
  IF j > limit THEN {<<>>}
  ELSE UNION {{<<f>> \o fs : fs \in e[f.next]} : f \in FieldAt(buf, j, limit, strings)}

IsFrom(buf, limit, strings, e) ==
  e = [j \in 1 .. Len(buf) + 1 |-> FieldsFrom(buf, limit, strings, e, j)]

(* Fields is the function that meets the equation of the fields.           *)
LEMMA FieldsIs ==
  ASSUME NEW buf, NEW i, NEW limit, NEW strings
  PROVE  Fields(buf, i, limit, strings) = (CHOOSE e : IsFrom(buf, limit, strings, e))[i]
BY DEF Fields, IsFrom, FieldsFrom

(* The fields from j on depend only on those behind the first.             *)
LEMMA FieldsFromDependsOn ==
  ASSUME NEW buf, NEW limit, NEW strings, NEW j, NEW e, NEW g,
         \A f \in FieldAt(buf, j, limit, strings) : ~ (j > limit) => e[f.next] = g[f.next]
  PROVE  FieldsFrom(buf, limit, strings, e, j) = FieldsFrom(buf, limit, strings, g, j)
<1>1. CASE j > limit
  BY <1>1 DEF FieldsFrom
<1>2. CASE ~ (j > limit)
  <2> DEFINE On(h, f) == {<<f>> \o fs : fs \in h[f.next]}
  <2>1. \A f \in FieldAt(buf, j, limit, strings) : On(e, f) = On(g, f)
    BY <1>2
  <2>2. /\ FieldsFrom(buf, limit, strings, e, j) = UNION {On(e, f) : f \in FieldAt(buf, j, limit, strings)}
        /\ FieldsFrom(buf, limit, strings, g, j) = UNION {On(g, f) : f \in FieldAt(buf, j, limit, strings)}
    BY <1>2 DEF FieldsFrom
  <2> HIDE DEF On
  <2> QED
    BY <2>1, <2>2
<1> QED
  BY <1>1, <1>2

(* There is a function that meets it: each field moves on.                 *)
LEMMA FromExists ==
  ASSUME NEW buf \in Seq(Bytes), NEW limit \in 0 .. Len(buf), NEW strings
  PROVE  \E e : IsFrom(buf, limit, strings, e)
<1> DEFINE n == Len(buf) + 1
           F(e, j) == FieldsFrom(buf, limit, strings, e, j)
           Is(m, e) == /\ e = [j \in 1 .. n |-> e[j]]
                       /\ \A j \in 1 .. n : j > n - m => e[j] = F(e, j)
           S == {m \in Nat : m <= n => \E e : Is(m, e)}
<1>1. n \in Nat /\ n = Len(buf) + 1
  OBVIOUS
<1>2. \A j \in 1 .. n : ~ (j > limit) =>
        \A f \in FieldAt(buf, j, limit, strings) : f.next \in 1 .. n /\ f.next > j
  <2> TAKE j \in 1 .. n
  <2> HAVE ~ (j > limit)
  <2> TAKE f \in FieldAt(buf, j, limit, strings)
  <2>1. j \in 1 .. Len(buf) /\ Len(buf) \in Nat
    OBVIOUS
  <2>2. f.next \in j + 1 .. Len(buf) + 1
    BY <2>1, FieldAtMoves
  <2> QED
    BY <2>1, <2>2
<1>3. \A e, g, j :
        (\A f \in FieldAt(buf, j, limit, strings) : ~ (j > limit) => e[f.next] = g[f.next])
          => F(e, j) = F(g, j)
  BY FieldsFromDependsOn
<1> HIDE DEF n, F
<1>4. 0 \in S
  <2>1. Is(0, [j \in 1 .. n |-> {}])
    BY <1>1
  <2> QED
    BY <2>1
<1>5. ASSUME NEW m \in Nat, m \in S PROVE m + 1 \in S
  <2> SUFFICES ASSUME m + 1 <= n PROVE \E g : Is(m + 1, g)
    OBVIOUS
  <2>1. PICK e : Is(m, e)
    BY <1>1, <1>5
  <2> DEFINE g == [j \in 1 .. n |-> IF j = n - m THEN F(e, j) ELSE e[j]]
  <2>2. \A j \in 1 .. n : j # n - m => g[j] = e[j]
    OBVIOUS
  <2>3. \A j \in 1 .. n : j = n - m => g[j] = F(e, j)
    OBVIOUS
  <2>4. g = [j \in 1 .. n |-> g[j]]
    OBVIOUS
  <2> HIDE DEF g
  <2>5. ASSUME NEW j \in 1 .. n, j > n - (m + 1) PROVE g[j] = F(g, j)
    <3>1. j >= n - m
      BY <1>1, <2>5
    <3>2. ASSUME NEW f \in FieldAt(buf, j, limit, strings), ~ (j > limit)
          PROVE  e[f.next] = g[f.next]
      <4>1. f.next \in 1 .. n /\ f.next > j
        BY <1>2, <3>2
      <4>2. f.next # n - m
        BY <1>1, <3>1, <4>1
      <4> QED
        BY <2>2, <4>1, <4>2
    <3>3. F(e, j) = F(g, j)
      BY <1>3, <3>2
    <3>4. g[j] = F(e, j)
      <4>1. CASE j = n - m
        BY <2>3, <4>1
      <4>2. CASE j > n - m
        <5>1. j # n - m
          BY <1>1, <4>2
        <5> QED
          BY <2>1, <2>2, <4>2, <5>1
      <4> QED
        BY <1>1, <3>1, <4>1, <4>2
    <3> QED
      BY <3>3, <3>4
  <2> QED
    BY <2>4, <2>5
<1>6. n \in S
  <2> HIDE DEF S
  <2> QED
    BY <1>1, <1>4, <1>5, SetInduction
<1>7. PICK e : Is(n, e)
  BY <1>1, <1>6
<1>8. \A j \in 1 .. n : j > n - n
  BY <1>1
<1>9. e = [j \in 1 .. n |-> F(e, j)]
  BY <1>7, <1>8
<1> QED
  BY <1>9 DEF IsFrom, F, n

(* A field, and the fields from its end on.                                *)
LEMMA FieldsEquation ==
  ASSUME NEW buf \in Seq(Bytes), NEW limit \in 0 .. Len(buf), NEW strings, NEW i \in 1 .. Len(buf) + 1
  PROVE  Fields(buf, i, limit, strings) =
           IF i > limit THEN {<<>>}
           ELSE UNION {{<<f>> \o fs : fs \in Fields(buf, f.next, limit, strings)} :
                       f \in FieldAt(buf, i, limit, strings)}
<1>1. PICK e : e = (CHOOSE g : IsFrom(buf, limit, strings, g)) /\ IsFrom(buf, limit, strings, e)
  BY FromExists
<1>2. e[i] = FieldsFrom(buf, limit, strings, e, i)
  BY <1>1 DEF IsFrom
<1>3. \A j : Fields(buf, j, limit, strings) = e[j]
  BY <1>1, FieldsIs
<1>4. CASE i > limit
  BY <1>2, <1>3, <1>4 DEF FieldsFrom
<1>5. CASE ~ (i > limit)
  <2> DEFINE On(fss, f) == {<<f>> \o fs : fs \in fss}
             At == FieldAt(buf, i, limit, strings)
  <2>1. e[i] = UNION {On(e[f.next], f) : f \in At}
    BY <1>2, <1>5 DEF FieldsFrom
  <2>2. \A f \in At : On(e[f.next], f) = On(Fields(buf, f.next, limit, strings), f)
    BY <1>3
  <2> HIDE DEF On, At
  <2>3. e[i] = UNION {On(Fields(buf, f.next, limit, strings), f) : f \in At}
    BY <2>1, <2>2
  <2> QED
    BY <1>3, <1>5, <2>3 DEF On, At
<1> QED
  BY <1>4, <1>5

(* What the fields are taken from. *)
FieldsIn(buf, limit, strings) ==
  UNION {FieldAt(buf, j, limit, strings) : j \in 1 .. Len(buf)}

(* The fields of a buffer are a sequence of fields found in it.            *)
LEMMA FieldsAreSeqs ==
  ASSUME NEW buf \in Seq(Bytes), NEW limit \in 0 .. Len(buf), NEW strings, NEW i \in 1 .. Len(buf) + 1
  PROVE  Fields(buf, i, limit, strings) \subseteq Seq(FieldsIn(buf, limit, strings))
<1> DEFINE n == Len(buf) + 1
           Fs(j) == Fields(buf, j, limit, strings)
           A == FieldsIn(buf, limit, strings)
           T == {p \in 1 .. n : Fs(p) \subseteq Seq(A)}
<1>1. n \in Nat
  OBVIOUS
<1>2. ASSUME NEW p \in 1 .. n, \A q \in p + 1 .. n : q \in T
      PROVE  p \in T
  <2> SUFFICES ASSUME NEW s \in Fs(p) PROVE s \in Seq(A)
    OBVIOUS
  <2>1. CASE p > limit
    <3>1. s = <<>>
      BY <2>1, FieldsEquation
    <3> QED
      BY <3>1
  <2>2. CASE ~ (p > limit)
    <3>0. Fs(p) = UNION {{<<f>> \o fs : fs \in Fs(f.next)} : f \in FieldAt(buf, p, limit, strings)}
      BY <2>2, FieldsEquation
    <3>1. PICK f \in FieldAt(buf, p, limit, strings) : s \in {<<f>> \o fs : fs \in Fs(f.next)}
      BY <3>0
    <3>2. PICK fs \in Fs(f.next) : s = <<f>> \o fs
      BY <3>1
    <3>3. p \in 1 .. Len(buf)
      BY <2>2
    <3>4. f.next \in p + 1 .. n /\ f \in A
      BY <3>3, FieldAtMoves DEF FieldsIn
    <3>5. fs \in Seq(A)
      BY <1>2, <3>2, <3>4
    <3>6. <<f>> \in Seq(A)
      BY <3>4
    <3> QED
      BY <3>2, <3>5, <3>6, ConcatProperties
  <2> QED
    BY <2>1, <2>2
<1>3. 1 .. n \subseteq T
  <2> HIDE DEF T, n
  <2> QED
    BY <1>1, <1>2, Downward
<1> QED
  BY <1>3

-----------------------------------------------------------------------------
(* Decode, for all types of messages at once.                               *)

FieldBy(type, m, buf, f) ==
  CASE type = "Entry"    -> EntryField(m, buf, f)
    [] type = "Request"  -> RequestField(m, buf, f)
    [] type = "Response" -> ResponseField(m, buf, f)
    [] type = "Counter"  -> CounterField(m, buf, f)
    [] type = "Gauge"    -> GaugeField(m, buf, f)
    [] type = "Summary"  -> SummaryField(m, buf, f)
    [] type = "Metric"   -> MetricField(m, buf, f)
    [] type = "Metrics"  -> MetricsField(m, buf, f)

PutIn(type, buf, f, ms) == UNION {FieldBy(type, x, buf, f) : x \in ms}

IsAfter(type, m, buf, fs, a) ==
  a = [k \in 0 .. Len(fs) |-> IF k = 0 THEN {m} ELSE PutIn(type, buf, fs[k], a[k - 1])]

After(type, m, buf, fs) == CHOOSE a : IsAfter(type, m, buf, fs, a)

DecodeBy(type, m, buf, i, limit, strings) ==
  UNION {After(type, m, buf, fs)[Len(fs)] : fs \in Fields(buf, i, limit, strings)}

(* Decode is DecodeBy, for the entry of a map and each type of message.    *)
LEMMA DecodeEntryIs ==
  ASSUME NEW m, NEW buf, NEW i, NEW limit, NEW strings
  PROVE  Decode(m, buf, i, limit, strings, EntryField) = DecodeBy("Entry", m, buf, i, limit, strings)
<1> DEFINE A(fs, a, k) == UNION {EntryField(x, buf, fs[k]) : x \in a[k - 1]}
           B(fs, a, k) == PutIn("Entry", buf, fs[k], a[k - 1])
           Is(fs, a) == a = [k \in 0 .. Len(fs) |-> IF k = 0 THEN {m} ELSE A(fs, a, k)]
<1>1. \A x, f : FieldBy("Entry", x, buf, f) = EntryField(x, buf, f)
  BY DEF FieldBy
<1>2. \A fs, a, k : A(fs, a, k) = B(fs, a, k)
  BY <1>1 DEF PutIn
<1>3. \A fs, a : IsAfter("Entry", m, buf, fs, a) <=>
                  a = [k \in 0 .. Len(fs) |-> IF k = 0 THEN {m} ELSE B(fs, a, k)]
  BY DEF IsAfter
<1>4. \A fs : Filled(m, buf, fs, EntryField) = (CHOOSE a : Is(fs, a))[Len(fs)]
  BY DEF Filled
<1>5. \A fs, a : Is(fs, a) <=> IsAfter("Entry", m, buf, fs, a)
  <2> HIDE DEF A, B
  <2> QED
    BY <1>2, <1>3
<1> HIDE DEF Is
<1>6. \A fs : Filled(m, buf, fs, EntryField) = After("Entry", m, buf, fs)[Len(fs)]
  BY <1>4, <1>5 DEF After
<1>7. Decode(m, buf, i, limit, strings, EntryField) =
        UNION {Filled(m, buf, fs, EntryField) : fs \in Fields(buf, i, limit, strings)}
  BY DEF Decode
<1> QED
  BY <1>6, <1>7 DEF DecodeBy

LEMMA DecodeRequestIs ==
  ASSUME NEW m, NEW buf, NEW i, NEW limit, NEW strings
  PROVE  Decode(m, buf, i, limit, strings, RequestField) = DecodeBy("Request", m, buf, i, limit, strings)
<1> DEFINE A(fs, a, k) == UNION {RequestField(x, buf, fs[k]) : x \in a[k - 1]}
           B(fs, a, k) == PutIn("Request", buf, fs[k], a[k - 1])
           Is(fs, a) == a = [k \in 0 .. Len(fs) |-> IF k = 0 THEN {m} ELSE A(fs, a, k)]
<1>1. \A x, f : FieldBy("Request", x, buf, f) = RequestField(x, buf, f)
  BY DEF FieldBy
<1>2. \A fs, a, k : A(fs, a, k) = B(fs, a, k)
  BY <1>1 DEF PutIn
<1>3. \A fs, a : IsAfter("Request", m, buf, fs, a) <=>
                  a = [k \in 0 .. Len(fs) |-> IF k = 0 THEN {m} ELSE B(fs, a, k)]
  BY DEF IsAfter
<1>4. \A fs : Filled(m, buf, fs, RequestField) = (CHOOSE a : Is(fs, a))[Len(fs)]
  BY DEF Filled
<1>5. \A fs, a : Is(fs, a) <=> IsAfter("Request", m, buf, fs, a)
  <2> HIDE DEF A, B
  <2> QED
    BY <1>2, <1>3
<1> HIDE DEF Is
<1>6. \A fs : Filled(m, buf, fs, RequestField) = After("Request", m, buf, fs)[Len(fs)]
  BY <1>4, <1>5 DEF After
<1>7. Decode(m, buf, i, limit, strings, RequestField) =
        UNION {Filled(m, buf, fs, RequestField) : fs \in Fields(buf, i, limit, strings)}
  BY DEF Decode
<1> QED
  BY <1>6, <1>7 DEF DecodeBy

LEMMA DecodeResponseIs ==
  ASSUME NEW m, NEW buf, NEW i, NEW limit, NEW strings
  PROVE  Decode(m, buf, i, limit, strings, ResponseField) = DecodeBy("Response", m, buf, i, limit, strings)
<1> DEFINE A(fs, a, k) == UNION {ResponseField(x, buf, fs[k]) : x \in a[k - 1]}
           B(fs, a, k) == PutIn("Response", buf, fs[k], a[k - 1])
           Is(fs, a) == a = [k \in 0 .. Len(fs) |-> IF k = 0 THEN {m} ELSE A(fs, a, k)]
<1>1. \A x, f : FieldBy("Response", x, buf, f) = ResponseField(x, buf, f)
  BY DEF FieldBy
<1>2. \A fs, a, k : A(fs, a, k) = B(fs, a, k)
  BY <1>1 DEF PutIn
<1>3. \A fs, a : IsAfter("Response", m, buf, fs, a) <=>
                  a = [k \in 0 .. Len(fs) |-> IF k = 0 THEN {m} ELSE B(fs, a, k)]
  BY DEF IsAfter
<1>4. \A fs : Filled(m, buf, fs, ResponseField) = (CHOOSE a : Is(fs, a))[Len(fs)]
  BY DEF Filled
<1>5. \A fs, a : Is(fs, a) <=> IsAfter("Response", m, buf, fs, a)
  <2> HIDE DEF A, B
  <2> QED
    BY <1>2, <1>3
<1> HIDE DEF Is
<1>6. \A fs : Filled(m, buf, fs, ResponseField) = After("Response", m, buf, fs)[Len(fs)]
  BY <1>4, <1>5 DEF After
<1>7. Decode(m, buf, i, limit, strings, ResponseField) =
        UNION {Filled(m, buf, fs, ResponseField) : fs \in Fields(buf, i, limit, strings)}
  BY DEF Decode
<1> QED
  BY <1>6, <1>7 DEF DecodeBy

LEMMA DecodeCounterIs ==
  ASSUME NEW m, NEW buf, NEW i, NEW limit, NEW strings
  PROVE  Decode(m, buf, i, limit, strings, CounterField) = DecodeBy("Counter", m, buf, i, limit, strings)
<1> DEFINE A(fs, a, k) == UNION {CounterField(x, buf, fs[k]) : x \in a[k - 1]}
           B(fs, a, k) == PutIn("Counter", buf, fs[k], a[k - 1])
           Is(fs, a) == a = [k \in 0 .. Len(fs) |-> IF k = 0 THEN {m} ELSE A(fs, a, k)]
<1>1. \A x, f : FieldBy("Counter", x, buf, f) = CounterField(x, buf, f)
  BY DEF FieldBy
<1>2. \A fs, a, k : A(fs, a, k) = B(fs, a, k)
  BY <1>1 DEF PutIn
<1>3. \A fs, a : IsAfter("Counter", m, buf, fs, a) <=>
                  a = [k \in 0 .. Len(fs) |-> IF k = 0 THEN {m} ELSE B(fs, a, k)]
  BY DEF IsAfter
<1>4. \A fs : Filled(m, buf, fs, CounterField) = (CHOOSE a : Is(fs, a))[Len(fs)]
  BY DEF Filled
<1>5. \A fs, a : Is(fs, a) <=> IsAfter("Counter", m, buf, fs, a)
  <2> HIDE DEF A, B
  <2> QED
    BY <1>2, <1>3
<1> HIDE DEF Is
<1>6. \A fs : Filled(m, buf, fs, CounterField) = After("Counter", m, buf, fs)[Len(fs)]
  BY <1>4, <1>5 DEF After
<1>7. Decode(m, buf, i, limit, strings, CounterField) =
        UNION {Filled(m, buf, fs, CounterField) : fs \in Fields(buf, i, limit, strings)}
  BY DEF Decode
<1> QED
  BY <1>6, <1>7 DEF DecodeBy

LEMMA DecodeGaugeIs ==
  ASSUME NEW m, NEW buf, NEW i, NEW limit, NEW strings
  PROVE  Decode(m, buf, i, limit, strings, GaugeField) = DecodeBy("Gauge", m, buf, i, limit, strings)
<1> DEFINE A(fs, a, k) == UNION {GaugeField(x, buf, fs[k]) : x \in a[k - 1]}
           B(fs, a, k) == PutIn("Gauge", buf, fs[k], a[k - 1])
           Is(fs, a) == a = [k \in 0 .. Len(fs) |-> IF k = 0 THEN {m} ELSE A(fs, a, k)]
<1>1. \A x, f : FieldBy("Gauge", x, buf, f) = GaugeField(x, buf, f)
  BY DEF FieldBy
<1>2. \A fs, a, k : A(fs, a, k) = B(fs, a, k)
  BY <1>1 DEF PutIn
<1>3. \A fs, a : IsAfter("Gauge", m, buf, fs, a) <=>
                  a = [k \in 0 .. Len(fs) |-> IF k = 0 THEN {m} ELSE B(fs, a, k)]
  BY DEF IsAfter
<1>4. \A fs : Filled(m, buf, fs, GaugeField) = (CHOOSE a : Is(fs, a))[Len(fs)]
  BY DEF Filled
<1>5. \A fs, a : Is(fs, a) <=> IsAfter("Gauge", m, buf, fs, a)
  <2> HIDE DEF A, B
  <2> QED
    BY <1>2, <1>3
<1> HIDE DEF Is
<1>6. \A fs : Filled(m, buf, fs, GaugeField) = After("Gauge", m, buf, fs)[Len(fs)]
  BY <1>4, <1>5 DEF After
<1>7. Decode(m, buf, i, limit, strings, GaugeField) =
        UNION {Filled(m, buf, fs, GaugeField) : fs \in Fields(buf, i, limit, strings)}
  BY DEF Decode
<1> QED
  BY <1>6, <1>7 DEF DecodeBy

LEMMA DecodeSummaryIs ==
  ASSUME NEW m, NEW buf, NEW i, NEW limit, NEW strings
  PROVE  Decode(m, buf, i, limit, strings, SummaryField) = DecodeBy("Summary", m, buf, i, limit, strings)
<1> DEFINE A(fs, a, k) == UNION {SummaryField(x, buf, fs[k]) : x \in a[k - 1]}
           B(fs, a, k) == PutIn("Summary", buf, fs[k], a[k - 1])
           Is(fs, a) == a = [k \in 0 .. Len(fs) |-> IF k = 0 THEN {m} ELSE A(fs, a, k)]
<1>1. \A x, f : FieldBy("Summary", x, buf, f) = SummaryField(x, buf, f)
  BY DEF FieldBy
<1>2. \A fs, a, k : A(fs, a, k) = B(fs, a, k)
  BY <1>1 DEF PutIn
<1>3. \A fs, a : IsAfter("Summary", m, buf, fs, a) <=>
                  a = [k \in 0 .. Len(fs) |-> IF k = 0 THEN {m} ELSE B(fs, a, k)]
  BY DEF IsAfter
<1>4. \A fs : Filled(m, buf, fs, SummaryField) = (CHOOSE a : Is(fs, a))[Len(fs)]
  BY DEF Filled
<1>5. \A fs, a : Is(fs, a) <=> IsAfter("Summary", m, buf, fs, a)
  <2> HIDE DEF A, B
  <2> QED
    BY <1>2, <1>3
<1> HIDE DEF Is
<1>6. \A fs : Filled(m, buf, fs, SummaryField) = After("Summary", m, buf, fs)[Len(fs)]
  BY <1>4, <1>5 DEF After
<1>7. Decode(m, buf, i, limit, strings, SummaryField) =
        UNION {Filled(m, buf, fs, SummaryField) : fs \in Fields(buf, i, limit, strings)}
  BY DEF Decode
<1> QED
  BY <1>6, <1>7 DEF DecodeBy

LEMMA DecodeMetricIs ==
  ASSUME NEW m, NEW buf, NEW i, NEW limit, NEW strings
  PROVE  Decode(m, buf, i, limit, strings, MetricField) = DecodeBy("Metric", m, buf, i, limit, strings)
<1> DEFINE A(fs, a, k) == UNION {MetricField(x, buf, fs[k]) : x \in a[k - 1]}
           B(fs, a, k) == PutIn("Metric", buf, fs[k], a[k - 1])
           Is(fs, a) == a = [k \in 0 .. Len(fs) |-> IF k = 0 THEN {m} ELSE A(fs, a, k)]
<1>1. \A x, f : FieldBy("Metric", x, buf, f) = MetricField(x, buf, f)
  BY DEF FieldBy
<1>2. \A fs, a, k : A(fs, a, k) = B(fs, a, k)
  BY <1>1 DEF PutIn
<1>3. \A fs, a : IsAfter("Metric", m, buf, fs, a) <=>
                  a = [k \in 0 .. Len(fs) |-> IF k = 0 THEN {m} ELSE B(fs, a, k)]
  BY DEF IsAfter
<1>4. \A fs : Filled(m, buf, fs, MetricField) = (CHOOSE a : Is(fs, a))[Len(fs)]
  BY DEF Filled
<1>5. \A fs, a : Is(fs, a) <=> IsAfter("Metric", m, buf, fs, a)
  <2> HIDE DEF A, B
  <2> QED
    BY <1>2, <1>3
<1> HIDE DEF Is
<1>6. \A fs : Filled(m, buf, fs, MetricField) = After("Metric", m, buf, fs)[Len(fs)]
  BY <1>4, <1>5 DEF After
<1>7. Decode(m, buf, i, limit, strings, MetricField) =
        UNION {Filled(m, buf, fs, MetricField) : fs \in Fields(buf, i, limit, strings)}
  BY DEF Decode
<1> QED
  BY <1>6, <1>7 DEF DecodeBy

LEMMA DecodeMetricsIs ==
  ASSUME NEW m, NEW buf, NEW i, NEW limit, NEW strings
  PROVE  Decode(m, buf, i, limit, strings, MetricsField) = DecodeBy("Metrics", m, buf, i, limit, strings)
<1> DEFINE A(fs, a, k) == UNION {MetricsField(x, buf, fs[k]) : x \in a[k - 1]}
           B(fs, a, k) == PutIn("Metrics", buf, fs[k], a[k - 1])
           Is(fs, a) == a = [k \in 0 .. Len(fs) |-> IF k = 0 THEN {m} ELSE A(fs, a, k)]
<1>1. \A x, f : FieldBy("Metrics", x, buf, f) = MetricsField(x, buf, f)
  BY DEF FieldBy
<1>2. \A fs, a, k : A(fs, a, k) = B(fs, a, k)
  BY <1>1 DEF PutIn
<1>3. \A fs, a : IsAfter("Metrics", m, buf, fs, a) <=>
                  a = [k \in 0 .. Len(fs) |-> IF k = 0 THEN {m} ELSE B(fs, a, k)]
  BY DEF IsAfter
<1>4. \A fs : Filled(m, buf, fs, MetricsField) = (CHOOSE a : Is(fs, a))[Len(fs)]
  BY DEF Filled
<1>5. \A fs, a : Is(fs, a) <=> IsAfter("Metrics", m, buf, fs, a)
  <2> HIDE DEF A, B
  <2> QED
    BY <1>2, <1>3
<1> HIDE DEF Is
<1>6. \A fs : Filled(m, buf, fs, MetricsField) = After("Metrics", m, buf, fs)[Len(fs)]
  BY <1>4, <1>5 DEF After
<1>7. Decode(m, buf, i, limit, strings, MetricsField) =
        UNION {Filled(m, buf, fs, MetricsField) : fs \in Fields(buf, i, limit, strings)}
  BY DEF Decode
<1> QED
  BY <1>6, <1>7 DEF DecodeBy

(* Each field is put into what the ones before it have made.               *)
LEMMA AfterEquation ==
  ASSUME NEW type, NEW m, NEW buf, NEW fs, Len(fs) \in Nat
  PROVE  /\ After(type, m, buf, fs)[0] = {m}
         /\ \A k \in 1 .. Len(fs) :
              After(type, m, buf, fs)[k] = PutIn(type, buf, fs[k], After(type, m, buf, fs)[k - 1])
<1> DEFINE n == Len(fs)
           F(k, ms) == PutIn(type, buf, fs[k], ms)
           Is(j, a) == a = [k \in 0 .. j |-> IF k = 0 THEN {m} ELSE F(k, a[k - 1])]
           S == {j \in Nat : \E a : Is(j, a)}
<1> HIDE DEF F
<1>1. 0 \in S
  <2>1. Is(0, [k \in 0 .. 0 |-> {m}])
    OBVIOUS
  <2> QED
    BY <2>1
<1>2. ASSUME NEW j \in Nat, j \in S PROVE j + 1 \in S
  <2>1. PICK a : Is(j, a)
    BY <1>2
  <2> DEFINE g == [k \in 0 .. j + 1 |-> IF k = j + 1 THEN F(j + 1, a[j]) ELSE a[k]]
  <2>2. \A k \in 0 .. j : g[k] = a[k]
    OBVIOUS
  <2>3. g[j + 1] = F(j + 1, a[j]) /\ g = [k \in 0 .. j + 1 |-> g[k]]
    OBVIOUS
  <2> HIDE DEF g
  <2>4. \A k \in 0 .. j : a[k] = IF k = 0 THEN {m} ELSE F(k, a[k - 1])
    BY <2>1
  <2>5. ASSUME NEW k \in 0 .. j + 1
        PROVE  g[k] = IF k = 0 THEN {m} ELSE F(k, g[k - 1])
    <3>1. CASE k = j + 1
      <4>1. k - 1 = j /\ j \in 0 .. j /\ k # 0
        BY <3>1
      <4> QED
        BY <2>2, <2>3, <3>1, <4>1
    <3>2. CASE k # j + 1 /\ k # 0
      <4>1. k \in 0 .. j /\ k - 1 \in 0 .. j
        BY <3>2
      <4> QED
        BY <2>2, <2>4, <3>2, <4>1
    <3>3. CASE k = 0
      <4>1. 0 \in 0 .. j
        OBVIOUS
      <4>2. g[0] = {m}
        BY <2>2, <2>4, <4>1
      <4> QED
        BY <3>3, <4>2
    <3> QED
      BY <3>1, <3>2, <3>3
  <2>6. Is(j + 1, g)
    BY <2>3, <2>5
  <2> QED
    BY <2>6
<1>3. PICK a : Is(n, a)
  <2>1. n \in S
    <3> HIDE DEF S
    <3> QED
      BY <1>1, <1>2, SetInduction
  <2> QED
    BY <2>1
<1>4. IsAfter(type, m, buf, fs, a)
  BY <1>3 DEF IsAfter, F
<1>5. IsAfter(type, m, buf, fs, After(type, m, buf, fs))
  BY <1>4 DEF After
<1>6. PICK b : b = After(type, m, buf, fs) /\ IsAfter(type, m, buf, fs, b)
  BY <1>5
<1>7. \A k \in 0 .. n : b[k] = IF k = 0 THEN {m} ELSE PutIn(type, buf, fs[k], b[k - 1])
  BY <1>6 DEF IsAfter
<1>8. 0 \in 0 .. n /\ \A k \in 1 .. n : k \in 0 .. n /\ k # 0
  OBVIOUS
<1> QED
  BY <1>6, <1>7, <1>8

(* Without a field a message is as it was.                                 *)
LEMMA AfterNone ==
  ASSUME NEW type, NEW m, NEW buf
  PROVE  After(type, m, buf, <<>>)[Len(<<>>)] = {m}
<1>1. Len(<<>>) = 0 /\ 0 \in Nat
  OBVIOUS
<1> QED
  BY <1>1, AfterEquation

(* The first field, and then the others. *)
LEMMA AfterFirst ==
  ASSUME NEW type, NEW m, NEW x, NEW buf, NEW A, NEW f \in A, NEW fs \in Seq(A),
         FieldBy(type, m, buf, f) = {x}
  PROVE  After(type, m, buf, <<f>> \o fs)[Len(<<f>> \o fs)] = After(type, x, buf, fs)[Len(fs)]
<1> DEFINE all == <<f>> \o fs
           n == Len(fs)
           a == After(type, m, buf, all)
           b == After(type, x, buf, fs)
           S == {k \in Nat : k <= n => a[k + 1] = b[k]}
<1>1. <<f>> \in Seq(A) /\ Len(<<f>>) = 1 /\ <<f>>[1] = f
  OBVIOUS
<1>2. Len(all) = n + 1 /\ n \in Nat /\ all[1] = f /\ \A k \in 1 .. n : all[k + 1] = fs[k]
  <2>1. /\ Len(all) = Len(<<f>>) + Len(fs)
        /\ \A k \in 1 .. Len(<<f>>) + Len(fs) :
             all[k] = IF k <= Len(<<f>>) THEN <<f>>[k] ELSE fs[k - Len(<<f>>)]
    BY <1>1, ConcatProperties
  <2>2. n \in Nat
    OBVIOUS
  <2> HIDE DEF all
  <2>3. Len(all) = n + 1 /\ \A k \in 1 .. n + 1 : all[k] = IF k <= 1 THEN f ELSE fs[k - 1]
    BY <1>1, <2>1, <2>2
  <2>4. \A k \in 1 .. n : k + 1 \in 1 .. n + 1 /\ ~ (k + 1 <= 1) /\ (k + 1) - 1 = k
    BY <2>2
  <2> QED
    BY <2>2, <2>3, <2>4
<1>3. /\ a[0] = {m}
      /\ \A k \in 1 .. n + 1 : a[k] = PutIn(type, buf, all[k], a[k - 1])
  <2>1. Len(all) \in Nat
    BY <1>2
  <2>2. \A g : Len(g) \in Nat =>
          /\ After(type, m, buf, g)[0] = {m}
          /\ \A k \in 1 .. Len(g) :
               After(type, m, buf, g)[k] = PutIn(type, buf, g[k], After(type, m, buf, g)[k - 1])
    BY AfterEquation
  <2>3. PICK g : g = all
    OBVIOUS
  <2> QED
    BY <1>2, <2>1, <2>2, <2>3
<1>4. /\ b[0] = {x}
      /\ \A k \in 1 .. n : b[k] = PutIn(type, buf, fs[k], b[k - 1])
  BY <1>2, AfterEquation
<1> HIDE DEF all, a, b
<1>5. 0 \in S
  <2>1. 1 \in 1 .. n + 1 /\ 1 - 1 = 0 /\ 0 + 1 = 1
    BY <1>2
  <2>2. a[1] = PutIn(type, buf, f, {m})
    BY <1>2, <1>3, <2>1
  <2>3. PutIn(type, buf, f, {m}) = {x}
    BY DEF PutIn
  <2> QED
    BY <1>4, <2>1, <2>2, <2>3
<1>6. ASSUME NEW k \in Nat, k \in S PROVE k + 1 \in S
  <2> SUFFICES ASSUME k + 1 <= n PROVE a[(k + 1) + 1] = b[k + 1]
    OBVIOUS
  <2>1. /\ k + 1 \in 1 .. n /\ (k + 1) + 1 \in 1 .. n + 1 /\ k <= n
        /\ (k + 1) - 1 = k /\ ((k + 1) + 1) - 1 = k + 1
    BY <1>2
  <2>2. a[k + 1] = b[k]
    BY <1>6, <2>1
  <2> QED
    BY <1>2, <1>3, <1>4, <2>1, <2>2
<1>7. n \in S
  <2> HIDE DEF S, n
  <2> QED
    BY <1>2, <1>5, <1>6, SetInduction
<1>8. a[n + 1] = b[n]
  BY <1>2, <1>7
<1> QED
  BY <1>2, <1>8 DEF a, b, all

(* One field after the other, to the end or to an error.                    *)
LEMMA DecodeEnds ==
  ASSUME NEW type, NEW m, NEW buf \in Seq(Bytes), NEW limit \in 0 .. Len(buf), NEW strings,
         NEW i \in 1 .. Len(buf) + 1, i > limit
  PROVE  DecodeBy(type, m, buf, i, limit, strings) = {m}
<1>1. Fields(buf, i, limit, strings) = {<<>>}
  BY FieldsEquation
<1> QED
  BY <1>1, AfterNone DEF DecodeBy

(* Where no field is found, decoding fails.                                *)
LEMMA DecodeFails ==
  ASSUME NEW type, NEW m, NEW buf \in Seq(Bytes), NEW limit \in 0 .. Len(buf), NEW strings,
         NEW i \in 1 .. limit, FieldAt(buf, i, limit, strings) = {}
  PROVE  DecodeBy(type, m, buf, i, limit, strings) = {}
<1>1. i \in 1 .. Len(buf) + 1 /\ ~ (i > limit)
  OBVIOUS
<1>2. Fields(buf, i, limit, strings) =
        UNION {{<<f>> \o fs : fs \in Fields(buf, f.next, limit, strings)} :
               f \in FieldAt(buf, i, limit, strings)}
  BY <1>1, FieldsEquation
<1>3. Fields(buf, i, limit, strings) = {}
  BY <1>2
<1> QED
  BY <1>3 DEF DecodeBy

Only(S, e) == S = {e}

(* A field that is found is put in, and decoding goes on behind it.        *)
LEMMA DecodeGoesOn ==
  ASSUME NEW type, NEW m, NEW buf \in Seq(Bytes), NEW limit \in 0 .. Len(buf), NEW strings,
         NEW i \in 1 .. limit, NEW f, Only(FieldAt(buf, i, limit, strings), f),
         NEW x, Only(FieldBy(type, m, buf, f), x)
  PROVE  DecodeBy(type, m, buf, i, limit, strings) = DecodeBy(type, x, buf, f.next, limit, strings)
<1>0. FieldAt(buf, i, limit, strings) = {f} /\ FieldBy(type, m, buf, f) = {x}
  BY DEF Only
<1> DEFINE Fs(j) == Fields(buf, j, limit, strings)
           A == FieldsIn(buf, limit, strings)
           V(y, fs) == After(type, y, buf, fs)[Len(fs)]
<1>1. i \in 1 .. Len(buf) + 1 /\ i \in 1 .. Len(buf) /\ ~ (i > limit)
  OBVIOUS
<1>2. Fs(i) = {<<f>> \o fs : fs \in Fs(f.next)}
  <2>1. Fs(i) = UNION {{<<g>> \o fs : fs \in Fs(g.next)} : g \in {f}}
    BY <1>0, <1>1, FieldsEquation
  <2> HIDE DEF Fs
  <2> QED
    BY <2>1
<1>3. f \in A
  BY <1>0, <1>1 DEF FieldsIn
<1>4. Fs(f.next) \subseteq Seq(A)
  <2>1. f \in FieldAt(buf, i, limit, strings)
    BY <1>0
  <2>2. f.next \in i + 1 .. Len(buf) + 1
    BY <1>1, <2>1, FieldAtMoves
  <2>3. f.next \in 1 .. Len(buf) + 1
    BY <1>1, <2>2
  <2> QED
    BY <2>3, FieldsAreSeqs
<1>5. \A fs \in Fs(f.next) : V(m, <<f>> \o fs) = V(x, fs)
  BY <1>0, <1>3, <1>4, AfterFirst
<1>6. /\ DecodeBy(type, m, buf, i, limit, strings) = UNION {V(m, fs) : fs \in Fs(i)}
      /\ DecodeBy(type, x, buf, f.next, limit, strings) = UNION {V(x, fs) : fs \in Fs(f.next)}
  BY DEF DecodeBy
<1> HIDE DEF Fs, V
<1>7. UNION {V(m, fs) : fs \in Fs(i)} = UNION {V(m, <<f>> \o fs) : fs \in Fs(f.next)}
  BY <1>2
<1> QED
  BY <1>5, <1>6, <1>7

-----------------------------------------------------------------------------
(* What a reader makes of one encoding after the other: reading s takes m   *)
(* to x, and half of s is an error.                                         *)

Reading(type, m, buf, i) == DecodeBy(type, m, buf, i, Len(buf), {})

Reads(type, m, x, s) ==
  \A buf \in Seq(Bytes), i \in Nat \ {0} :
    Stands(buf, i, s) => Reading(type, m, buf, i) = Reading(type, x, buf, i + Len(s))

NoHalf(type, m, s) ==
  \A buf \in Seq(Bytes) : \A i \in 1 .. Len(buf) :
    Begins(buf, i, s) /\ Len(buf) < i + Len(s) - 1 => Reading(type, m, buf, i) = {}

Whole(type, m, x, s) == s \in Seq(Bytes) /\ Reads(type, m, x, s) /\ NoHalf(type, m, s)

(* At the end of a buffer a message is as it was.                          *)
LEMMA ReadingEnds ==
  ASSUME NEW type, NEW m, NEW buf \in Seq(Bytes)
  PROVE  Reading(type, m, buf, Len(buf) + 1) = {m}
<1>1. Len(buf) \in 0 .. Len(buf) /\ Len(buf) + 1 \in 1 .. Len(buf) + 1 /\ Len(buf) + 1 > Len(buf)
  <2>1. Len(buf) \in Nat
    OBVIOUS
  <2> QED
    BY <2>1
<1> QED
  BY <1>1, DecodeEnds DEF Reading

(* What takes no bytes changes nothing.                                    *)
LEMMA ReadsNothing ==
  ASSUME NEW type, NEW m
  PROVE  Whole(type, m, m, <<>>)
<1>1. <<>> \in Seq(Bytes) /\ Len(<<>>) = 0
  OBVIOUS
<1>2. Reads(type, m, m, <<>>)
  BY <1>1 DEF Reads
<1>3. NoHalf(type, m, <<>>)
  <2> SUFFICES ASSUME NEW buf \in Seq(Bytes), NEW i \in 1 .. Len(buf), Len(buf) < i + Len(<<>>) - 1
               PROVE  FALSE
    BY DEF NoHalf
  <2>1. Len(buf) \in Nat
    OBVIOUS
  <2> QED
    BY <1>1, <2>1
<1> QED
  BY <1>1, <1>2, <1>3 DEF Whole

(* One encoding behind the other takes the message through both changes.   *)
LEMMA ReadsBoth ==
  ASSUME NEW type, NEW m, NEW x, NEW y, NEW s \in Seq(Bytes), NEW t \in Seq(Bytes),
         Reads(type, m, x, s), Reads(type, x, y, t)
  PROVE  s \o t \in Seq(Bytes) /\ Reads(type, m, y, s \o t)
<1>1. s \o t \in Seq(Bytes) /\ Len(s \o t) = Len(s) + Len(t) /\ Len(s) \in Nat /\ Len(t) \in Nat
  BY ConcatProperties, LenProperties
<1>2. ASSUME NEW buf \in Seq(Bytes), NEW i \in Nat \ {0}, Stands(buf, i, s \o t)
      PROVE  Reading(type, m, buf, i) = Reading(type, y, buf, i + Len(s \o t))
  <2>1. Stands(buf, i, s) /\ Stands(buf, i + Len(s), t)
    BY <1>2, StandsCat
  <2>2. i + Len(s) \in Nat \ {0} /\ (i + Len(s)) + Len(t) = i + Len(s \o t)
    BY <1>1
  <2>3. Reading(type, m, buf, i) = Reading(type, x, buf, i + Len(s))
    BY <2>1 DEF Reads
  <2>4. Reading(type, x, buf, i + Len(s)) = Reading(type, y, buf, (i + Len(s)) + Len(t))
    BY <2>1, <2>2 DEF Reads
  <2> QED
    BY <2>2, <2>3, <2>4
<1> QED
  BY <1>1, <1>2 DEF Reads

(* A buffer that is one encoding is read as what the encoding makes.       *)
LEMMA ReadsAll ==
  ASSUME NEW type, NEW m, NEW x, NEW s \in Seq(Bytes), Reads(type, m, x, s)
  PROVE  Reading(type, m, s, 1) = {x}
<1>1. Len(s) \in Nat /\ 1 + Len(s) - 1 <= Len(s) /\ 1 \in Nat \ {0} /\ 1 + Len(s) = Len(s) + 1
  OBVIOUS
<1>2. Begins(s, 1, s)
  BY <1>1 DEF Begins
<1>3. Stands(s, 1, s)
  BY <1>1, <1>2 DEF Stands
<1>4. Reading(type, m, s, 1) = Reading(type, x, s, 1 + Len(s))
  BY <1>1, <1>3 DEF Reads
<1> QED
  BY <1>1, <1>4, ReadingEnds

-----------------------------------------------------------------------------
(* One field.                                                               *)

(* The field found at i makes x of m, and reading goes on behind it.       *)
LEMMA FieldReads ==
  ASSUME NEW type, NEW m, NEW x, NEW buf \in Seq(Bytes), NEW i \in 1 .. Len(buf), NEW f, NEW n,
         Only(FieldAt(buf, i, Len(buf), {}), f), f.next = n, Only(FieldBy(type, m, buf, f), x)
  PROVE  Reading(type, m, buf, i) = Reading(type, x, buf, n)
<1>1. Len(buf) \in 0 .. Len(buf)
  <2>1. Len(buf) \in Nat
    OBVIOUS
  <2> QED
    BY <2>1
<1>2. PICK limit, strings : limit \in 0 .. Len(buf) /\ limit = Len(buf) /\ strings = {}
  BY <1>1
<1>3. i \in 1 .. limit /\ Only(FieldAt(buf, i, limit, strings), f)
  BY <1>2
<1>4. DecodeBy(type, m, buf, i, limit, strings) = DecodeBy(type, x, buf, f.next, limit, strings)
  BY <1>2, <1>3, DecodeGoesOn
<1> QED
  BY <1>2, <1>4 DEF Reading

(* Where no field is found, reading fails.                                 *)
LEMMA FieldFails ==
  ASSUME NEW type, NEW m, NEW buf \in Seq(Bytes), NEW i \in 1 .. Len(buf),
         FieldAt(buf, i, Len(buf), {}) = {}
  PROVE  Reading(type, m, buf, i) = {}
<1>1. Len(buf) \in 0 .. Len(buf)
  <2>1. Len(buf) \in Nat
    OBVIOUS
  <2> QED
    BY <2>1
<1> QED
  BY <1>1, DecodeFails DEF Reading

(* A field with a number, whatever it is for.                               *)
IsInt(buf, f, t, x) == f.num = t \div 8 /\ f.type = 0 /\ Begun(buf, f).value = Unsigned(x)

(* A tagged number is read as one change of the message.                   *)
LEMMA IntReads ==
  ASSUME NEW type, NEW m, NEW x, NEW t \in Tags, t % 8 = 0, NEW v, Unsigned(v) \in Words,
         \A buf, f : IsInt(buf, f, t, v) => Only(FieldBy(type, m, buf, f), x)
  PROVE  Whole(type, m, x, <<t>> \o encodeVarintPacket(Unsigned(v)))
<1> DEFINE w == Unsigned(v)
           s == <<t>> \o encodeVarintPacket(w)
           n == 1 + sovPacket(w)
<1>1. s \in Seq(Bytes) /\ Len(s) = n /\ sovPacket(w) \in Nat \ {0} /\ w \in Words
  BY IntEncoded
<1> HIDE DEF w
<1>2. ASSUME NEW buf \in Seq(Bytes), NEW i \in Nat \ {0}, Stands(buf, i, s)
      PROVE  Reading(type, m, buf, i) = Reading(type, x, buf, i + Len(s))
  <2> DEFINE f == FieldOf(t, i, i + 1 + sovPacket(w))
             r == [value |-> w, next |-> i + 1 + sovPacket(w)]
  <2>1. /\ i \in 1 .. Len(buf)
        /\ Only(FieldAt(buf, i, Len(buf), {}), f)
        /\ VarintAt(buf, i + 1) = {r}
    <3>1. i <= Len(buf) /\ FieldAt(buf, i, Len(buf), {}) = {f} /\ VarintAt(buf, i + 1) = {r}
      BY <1>1, <1>2, IntField
    <3> QED
      BY <3>1 DEF Only
  <2>2. r.value = w
    OBVIOUS
  <2>3. f.num = t \div 8 /\ f.type = 0 /\ f.at = i + 1 /\ f.next = i + 1 + sovPacket(w)
    BY DEF FieldOf
  <2> HIDE DEF f, r
  <2>4. Begun(buf, f) = r
    BY <2>1, <2>3 DEF Begun
  <2>5. Only(FieldBy(type, m, buf, f), x)
    BY <2>2, <2>3, <2>4 DEF IsInt, w
  <2>6. i + 1 + sovPacket(w) = i + Len(s)
    BY <1>1
  <2>7. PICK n1 : n1 = i + Len(s) /\ f.next = n1
    BY <1>1, <2>3, <2>5, <2>6
  <2>8. Reading(type, m, buf, i) = Reading(type, x, buf, n1)
    BY <2>1, <2>5, <2>7, FieldReads
  <2> QED
    BY <2>7, <2>8
<1>3. ASSUME NEW buf \in Seq(Bytes), NEW i \in 1 .. Len(buf), Begins(buf, i, s),
             Len(buf) < i + Len(s) - 1
      PROVE  Reading(type, m, buf, i) = {}
  <2>1. Len(buf) < i + sovPacket(w)
    BY <1>1, <1>3
  <2>2. FieldAt(buf, i, Len(buf), {}) = {}
    BY <1>1, <1>3, <2>1, IntFieldCut
  <2> QED
    BY <2>2, FieldFails
<1>4. Reads(type, m, x, s)
  BY <1>2 DEF Reads
<1>5. NoHalf(type, m, s)
  BY <1>3 DEF NoHalf
<1> QED
  BY <1>1, <1>4, <1>5 DEF Whole, w

(* A field that is delimited.                                               *)
Holds(buf, f, t, s) ==
  /\ buf \in Seq(Bytes)
  /\ f.num = t \div 8 /\ f.type = 2
  /\ Begun(buf, f).next \in Nat \ {0}
  /\ Stands(buf, Begun(buf, f).next, s)
  /\ f.next = Begun(buf, f).next + Len(s)

(* A tagged payload is read as one change of the message.                  *)
LEMMA TaggedReads ==
  ASSUME NEW type, NEW m, NEW x, NEW t \in Tags, t % 8 = 2, NEW s \in Seq(Bytes), Fits(Len(s)),
         \A buf, f : Holds(buf, f, t, s) => Only(FieldBy(type, m, buf, f), x)
  PROVE  Whole(type, m, x, Tagged(t, s))
<1> DEFINE w == Tagged(t, s)
           n == Len(s)
           at(i) == i + 1 + sovPacket(n)
<1>0. n \in Nat /\ n \in Words
  BY FitsWord
<1>1. w \in Seq(Bytes) /\ Len(w) = Delimited(n) /\ sovPacket(n) \in Nat \ {0}
      /\ Delimited(n) = 1 + n + sovPacket(n)
  BY <1>0, TaggedSeq DEF Delimited
<1>2. ASSUME NEW buf \in Seq(Bytes), NEW i \in Nat \ {0}, Stands(buf, i, w)
      PROVE  Reading(type, m, buf, i) = Reading(type, x, buf, i + Len(w))
  <2> DEFINE f == FieldOf(t, i, i + Delimited(n))
             r == [value |-> n, next |-> at(i)]
  <2>1. /\ i \in 1 .. Len(buf)
        /\ Only(FieldAt(buf, i, Len(buf), {}), f)
        /\ VarintAt(buf, i + 1) = {r}
        /\ Stands(buf, at(i), s)
    <3>1. /\ i <= Len(buf)
          /\ FieldAt(buf, i, Len(buf), {}) = {f}
          /\ VarintAt(buf, i + 1) = {r}
          /\ Stands(buf, at(i), s)
      <4>1. Taken(buf, t, Len(buf), {})
        BY DEF Taken
      <4> QED
        BY <1>2, <4>1, DelimitedField
    <3> QED
      BY <3>1 DEF Only
  <2>2. r.next = at(i)
    OBVIOUS
  <2>3. f.num = t \div 8 /\ f.type = 2 /\ f.at = i + 1 /\ f.next = i + Delimited(n)
    BY DEF FieldOf
  <2> HIDE DEF f, r, w
  <2>4. Begun(buf, f) = r
    BY <2>1, <2>3 DEF Begun
  <2>5. at(i) \in Nat \ {0} /\ i + Delimited(n) = at(i) + n /\ i + Delimited(n) = i + Len(w)
    BY <1>0, <1>1
  <2>9. Holds(buf, f, t, s)
    BY <2>1, <2>2, <2>3, <2>4, <2>5 DEF Holds
  <2>7. PICK n1 : n1 = i + Len(w) /\ f.next = n1
    BY <1>1, <2>3, <2>5
  <2>6. Only(FieldBy(type, m, buf, f), x)
    BY <2>9
  <2>8. Reading(type, m, buf, i) = Reading(type, x, buf, n1)
    BY <2>1, <2>6, <2>7, FieldReads
  <2> QED
    BY <2>7, <2>8
<1>3. ASSUME NEW buf \in Seq(Bytes), NEW i \in 1 .. Len(buf), Begins(buf, i, w),
             Len(buf) < i + Len(w) - 1
      PROVE  Reading(type, m, buf, i) = {}
  <2>1. Len(buf) < i + Delimited(n) - 1
    BY <1>1, <1>3
  <2>2. FieldAt(buf, i, Len(buf), {}) = {}
    BY <1>3, <2>1, DelimitedFieldCut
  <2> QED
    BY <2>2, FieldFails
<1> HIDE DEF w
<1>4. Reads(type, m, x, w)
  BY <1>2 DEF Reads
<1>5. NoHalf(type, m, w)
  BY <1>3 DEF NoHalf
<1> QED
  BY <1>1, <1>4, <1>5 DEF Whole, w

(* The payload of a field is what Marshal tagged.                          *)
LEMMA PayloadIs ==
  ASSUME NEW buf, NEW f, NEW t, NEW s \in Seq(Bytes), Holds(buf, f, t, s)
  PROVE  Payload(buf, f) = s /\ Strings(buf, f) = {s} /\ f.type = 2 /\ f.num = t \div 8
<1>1. PICK i \in Nat \ {0} : i = Begun(buf, f).next
  BY DEF Holds
<1>2. f.next - 1 = i + Len(s) - 1
  BY <1>1 DEF Holds
<1>3. SubSeq(buf, i, i + Len(s) - 1) = s
  BY <1>1, StandsSub DEF Holds
<1>4. Payload(buf, f) = s
  BY <1>1, <1>2, <1>3 DEF Payload
<1> QED
  BY <1>4 DEF Strings, Holds

(* What PutInt, PutBool and PutBytes leave out is what was there.           *)
LEMMA PutIntReads ==
  ASSUME NEW type, NEW m, NEW x, NEW t \in Tags, t % 8 = 0, NEW v, Unsigned(v) \in Words,
         v = 0 => x = m,
         \A buf, f : IsInt(buf, f, t, v) => Only(FieldBy(type, m, buf, f), x),
         NEW s \in PutInt(t, v)
  PROVE  Whole(type, m, x, s)
<1>1. CASE v = 0
  <2>1. s = <<>> /\ x = m
    BY <1>1 DEF PutInt
  <2> QED
    BY <2>1, ReadsNothing
<1>2. CASE v # 0
  <2>1. s = <<t>> \o encodeVarintPacket(Unsigned(v))
    BY <1>2 DEF PutInt
  <2> QED
    BY <2>1, IntReads
<1> QED
  BY <1>1, <1>2

(* The encoding of TRUE is the varint of 1.                                *)
LEMMA OneIsUnsigned ==
  1 \in Words /\ Unsigned(1) = 1 /\ encodeVarintPacket(1) = <<1>>
<1>1. 1 \in Words
  <2>1. 1 \in 0 .. WordBits + 7 /\ WordBits \in 1 .. WordBits + 7 /\ 0 \in 0 .. WordBits + 6
    BY WordBitsAssumption DEF WordBitsAssumption
  <2>2. Pow2[1] <= Pow2[WordBits] /\ Pow2[WordBits] \in Nat
    BY <2>1, Pow2Grows, Pow2Nat
  <2>3. Pow2[0 + 1] = 2 * Pow2[0] /\ Pow2[0] = 1
    BY <2>1, Pow2Equation
  <2> QED
    BY <2>2, <2>3 DEF Words
<1>2. sovPacket(1) = 1
  <2>1. BitLen(1) \in 1 .. WordBits /\ (BitLen(1) = 1 \/ Pow2[BitLen(1) - 1] <= 1)
    BY <1>1, BitLenOK
  <2>2. BitLen(1) = 1
    <3> SUFFICES ASSUME BitLen(1) # 1 PROVE FALSE
      OBVIOUS
    <3>1. 1 \in 0 .. WordBits + 7 /\ BitLen(1) - 1 \in 1 .. WordBits + 7 /\ 0 \in 0 .. WordBits + 6
      BY <2>1, WordBitsAssumption DEF WordBitsAssumption
    <3>2. Pow2[1] <= Pow2[BitLen(1) - 1] /\ Pow2[BitLen(1) - 1] \in Nat
      BY <3>1, Pow2Grows, Pow2Nat
    <3>3. Pow2[0 + 1] = 2 * Pow2[0] /\ Pow2[0] = 1
      BY <3>1, Pow2Equation
    <3> QED
      BY <2>1, <3>2, <3>3
  <2> QED
    BY <2>2 DEF sovPacket
<1>3. encodeVarintPacket(1) = [i \in 1 .. 1 |-> 1]
  <2>1. Shifted(1)[0] = 1
    BY ShiftedEquation
  <2>2. \A i \in 1 .. 1 : Shifted(1)[i - 1] = 1
    BY <2>1
  <2> QED
    BY <1>2, <2>2 DEF encodeVarintPacket
<1>4. Unsigned(1) = 1
  BY <1>1, UnsignedWord
<1> QED
  BY <1>1, <1>3, <1>4

(* A flag is set by what PutBool writes.                                   *)
LEMMA PutBoolReads ==
  ASSUME NEW type, NEW m, NEW x, NEW t \in Tags, t % 8 = 0, NEW b \in BOOLEAN,
         b = FALSE => x = m,
         \A buf, f : b /\ IsInt(buf, f, t, 1) => Only(FieldBy(type, m, buf, f), x),
         NEW s \in PutBool(t, b)
  PROVE  Whole(type, m, x, s)
<1>1. CASE b = FALSE
  <2>1. s = <<>> /\ x = m
    BY <1>1 DEF PutBool
  <2> QED
    BY <2>1, ReadsNothing
<1>2. CASE b
  <2>1. s = <<t, 1>>
    BY <1>2 DEF PutBool
  <2>2. <<t>> \o <<1>> = <<t, 1>>
    <3>1. <<t>> \in Seq(Nat) /\ <<1>> \in Seq(Nat) /\ <<t, 1>> \in Seq(Nat) /\ t \in Nat
      BY ByteSeq
    <3>2. Len(<<t>>) = 1 /\ Len(<<1>>) = 1 /\ Len(<<t, 1>>) = 2
      OBVIOUS
    <3>3. /\ Len(<<t>> \o <<1>>) = 2 /\ <<t>> \o <<1>> \in Seq(Nat)
          /\ \A k \in 1 .. 2 : (<<t>> \o <<1>>)[k] = IF k <= 1 THEN <<t>>[k] ELSE <<1>>[k - 1]
      BY <3>1, <3>2, ConcatProperties
    <3>4. \A k \in 1 .. 2 : (<<t>> \o <<1>>)[k] = <<t, 1>>[k]
      BY <3>3
    <3> QED
      BY <3>1, <3>2, <3>3, <3>4, SeqEqual
  <2>3. s = <<t>> \o encodeVarintPacket(Unsigned(1)) /\ Unsigned(1) \in Words
    BY <2>1, <2>2, OneIsUnsigned
  <2>4. \A buf, f : IsInt(buf, f, t, 1) => Only(FieldBy(type, m, buf, f), x)
    BY <1>2
  <2> QED
    BY <2>3, <2>4, IntReads
<1> QED
  BY <1>1, <1>2

(* A string is set by what PutBytes writes.                                *)
LEMMA PutBytesReads ==
  ASSUME NEW type, NEW m, NEW x, NEW t \in Tags, t % 8 = 2, NEW v \in Seq(Bytes), Fits(Len(v)),
         v = <<>> => x = m,
         \A buf, f : Strings(buf, f) = {v} /\ f.num = t \div 8 => Only(FieldBy(type, m, buf, f), x),
         NEW s \in PutBytes(t, v)
  PROVE  Whole(type, m, x, s)
<1>1. CASE v = <<>>
  <2>1. s = <<>> /\ x = m
    BY <1>1 DEF PutBytes
  <2> QED
    BY <2>1, ReadsNothing
<1>2. CASE v # <<>>
  <2>1. s = Tagged(t, v)
    BY <1>2 DEF PutBytes
  <2>2. \A buf, f : Holds(buf, f, t, v) => Only(FieldBy(type, m, buf, f), x)
    BY PayloadIs
  <2> QED
    BY <2>1, <2>2, TaggedReads
<1> QED
  BY <1>1, <1>2

-----------------------------------------------------------------------------
(* One encoding after the other.                                            *)

First_(S, j) == [k \in 1 .. j |-> S[k]]

(* FlattenSeq puts its parts together one by one.                          *)
LEMMA FlattenIs ==
  ASSUME NEW n \in Nat, NEW S \in [1 .. n -> Seq(Bytes)], NEW F \in [0 .. n -> Seq(Bytes)],
         F[0] = <<>>, \A i \in 1 .. n : F[i] = F[i - 1] \o S[i],
         NEW j \in 0 .. n
  PROVE  FlattenSeq(First_(S, j)) = F[j]
<1> DEFINE T == First_(S, j)
           Is(f) == f = [i \in 1 .. Len(T) |-> IF i = 1 THEN T[i] ELSE f[i - 1] \o T[i]]
           fl == CHOOSE f : Is(f)
<1>1. T \in Seq(Seq(Bytes)) /\ Len(T) = j /\ \A k \in 1 .. j : T[k] = S[k]
  <2>1. \A k \in 1 .. j : S[k] \in Seq(Bytes)
    OBVIOUS
  <2>2. T \in [1 .. j -> Seq(Bytes)] /\ \A k \in 1 .. j : T[k] = S[k]
    BY <2>1 DEF First_
  <2> HIDE DEF T
  <2>3. T \in Seq(Seq(Bytes))
    <3>1. j \in Nat
      OBVIOUS
    <3> QED
      BY <2>2, <3>1, FunctionIsSeq
  <2>4. Len(T) = j
    BY <2>2, <2>3, LenProperties
  <2> QED
    BY <2>2, <2>3, <2>4
<1>2. CASE j = 0
  <2>1. T = <<>>
    <3> HIDE DEF T
    <3> QED
      BY <1>1, <1>2, EmptySeq
  <2> QED
    BY <1>1, <1>2, <2>1 DEF FlattenSeq
<1>3. CASE j # 0
  <2>1. FlattenSeq(T) = fl[j]
    <3>1. Len(T) # 0
      BY <1>1, <1>3
    <3>2. FlattenSeq(T) = (CHOOSE f : f = [i \in 1 .. Len(T) |-> IF i = 1 THEN T[i] ELSE f[i - 1] \o T[i]])[Len(T)]
      <4> HIDE DEF T
      <4> QED
        BY <3>1 DEF FlattenSeq
    <3> HIDE DEF T
    <3> QED
      BY <1>1, <3>2
  <2> DEFINE h == [i \in 1 .. j |-> F[i]]
  <2>2. Is(h)
    <3>1. ASSUME NEW i \in 1 .. j
          PROVE  h[i] = IF i = 1 THEN T[i] ELSE h[i - 1] \o T[i]
      <4>0. i \in 1 .. n /\ h[i] = F[i]
        OBVIOUS
      <4> HIDE DEF h, T
      <4>1. F[i] = F[i - 1] \o S[i] /\ i \in 1 .. n /\ T[i] = S[i] /\ h[i] = F[i]
        BY <1>1, <4>0
      <4>2. CASE i = 1
        <5>1. i - 1 = 0 /\ S[i] \in Seq(Bytes)
          BY <4>1, <4>2
        <5>2. <<>> \o S[i] = S[i]
          BY <5>1, ConcatEmptySeq
        <5> QED
          BY <4>1, <4>2, <5>1, <5>2
      <4>3. CASE i # 1
        <5>1. i - 1 \in 1 .. j
          BY <4>3
        <5>2. h[i - 1] = F[i - 1]
          BY <5>1 DEF h
        <5> QED
          BY <4>1, <4>3, <5>2
      <4> QED
        BY <4>2, <4>3
    <3>2. h = [i \in 1 .. j |-> h[i]]
      OBVIOUS
    <3> HIDE DEF h, T
    <3> QED
      BY <1>1, <3>1, <3>2
  <2>3. Is(fl)
    <3> HIDE DEF h, Is
    <3> QED
      BY <2>2
  <2>4. \A i \in 1 .. j : fl[i] = IF i = 1 THEN T[i] ELSE fl[i - 1] \o T[i]
    <3>1. PICK f : f = fl /\ Is(f)
      BY <2>3
    <3> HIDE DEF fl, T
    <3>2. \A i \in 1 .. j : f[i] = IF i = 1 THEN T[i] ELSE f[i - 1] \o T[i]
      BY <1>1, <3>1
    <3> QED
      BY <3>1, <3>2
  <2> HIDE DEF fl, T, Is
  <2> DEFINE P == {i \in Nat : i + 1 <= j => fl[i + 1] = F[i + 1]}
  <2>5. 0 \in P
    <3>1. 1 \in 1 .. j /\ 0 + 1 = 1 /\ 1 \in 1 .. n /\ 1 - 1 = 0
      BY <1>3
    <3>2. fl[1] = S[1] /\ F[1] = <<>> \o S[1] /\ S[1] \in Seq(Bytes)
      BY <1>1, <2>4, <3>1
    <3>3. <<>> \o S[1] = S[1]
      BY <3>2, ConcatEmptySeq
    <3> QED
      BY <3>1, <3>2, <3>3
  <2>6. ASSUME NEW i \in Nat, i \in P PROVE i + 1 \in P
    <3> SUFFICES ASSUME (i + 1) + 1 <= j PROVE fl[(i + 1) + 1] = F[(i + 1) + 1]
      OBVIOUS
    <3>1. /\ (i + 1) + 1 \in 1 .. j /\ (i + 1) + 1 # 1 /\ ((i + 1) + 1) - 1 = i + 1 /\ i + 1 <= j
          /\ (i + 1) + 1 \in 1 .. n
      OBVIOUS
    <3>2. fl[i + 1] = F[i + 1]
      BY <2>6, <3>1
    <3>3. fl[(i + 1) + 1] = fl[i + 1] \o T[(i + 1) + 1]
      BY <2>4, <3>1
    <3>4. F[(i + 1) + 1] = F[i + 1] \o S[(i + 1) + 1]
      BY <3>1
    <3> QED
      BY <1>1, <3>1, <3>2, <3>3, <3>4
  <2>7. j - 1 \in P
    <3> HIDE DEF P
    <3>1. j - 1 \in Nat
      BY <1>3
    <3> QED
      BY <2>5, <2>6, <3>1, SetInduction
  <2>8. fl[j] = F[j]
    BY <2>7
  <2> QED
    BY <2>1, <2>8 DEF T
<1> QED
  BY <1>2, <1>3

(* The first parts put together, for any number of parts.                  *)
LEMMA FlattenExists ==
  ASSUME NEW n \in Nat, NEW S \in [1 .. n -> Seq(Bytes)]
  PROVE  \E F \in [0 .. n -> Seq(Bytes)] :
           /\ F[0] = <<>>
           /\ \A i \in 1 .. n : F[i] = F[i - 1] \o S[i]
           /\ \A j \in 0 .. n : F[j] = FlattenSeq(First_(S, j))
           /\ F[n] = FlattenSeq(S)
<1> DEFINE X == Seq(Bytes)
           G == [p \in Nat \X X |-> IF p[1] \in 1 .. n THEN p[2] \o S[p[1]] ELSE p[2]]
<1>1. <<>> \in X
  OBVIOUS
<1>2. G \in [Nat \X X -> X]
  <2>1. ASSUME NEW p \in Nat \X X
        PROVE  (IF p[1] \in 1 .. n THEN p[2] \o S[p[1]] ELSE p[2]) \in X
    <3>1. p[2] \in X
      OBVIOUS
    <3>2. CASE p[1] \in 1 .. n
      <4>1. S[p[1]] \in X
        BY <3>2
      <4>2. p[2] \o S[p[1]] \in X
        BY <3>1, <4>1, ConcatProperties
      <4> QED
        BY <3>2, <4>2
    <3> QED
      BY <3>1, <3>2
  <2> QED
    BY <2>1
<1>3. ASSUME NEW i \in 1 .. n, NEW x \in X PROVE G[<<i, x>>] = x \o S[i]
  <2>1. <<i, x>> \in Nat \X X /\ <<i, x>>[1] = i /\ <<i, x>>[2] = x
    <3> HIDE DEF X
    <3> QED
      OBVIOUS
  <2>2. PICK p \in Nat \X X : p = <<i, x>> /\ p[1] = i /\ p[2] = x
    BY <2>1
  <2>3. G[p] = IF p[1] \in 1 .. n THEN p[2] \o S[p[1]] ELSE p[2]
    <3> HIDE DEF X
    <3> QED
      OBVIOUS
  <2> HIDE DEF G
  <2> QED
    BY <2>2, <2>3
<1> HIDE DEF G, X
<1>4. PICK F : Iterates(F, 0, n, X, <<>>, G)
  <2>1. 0 \in Nat /\ 0 <= n
    OBVIOUS
  <2> QED
    BY <1>1, <1>2, <2>1, Recursion
<1>5. F \in [0 .. n -> X] /\ F[0] = <<>>
  BY <1>4 DEF Iterates
<1>6. ASSUME NEW i \in 1 .. n PROVE F[i] = F[i - 1] \o S[i]
  <2>1. i - 1 \in 0 .. n - 1 /\ (i - 1) + 1 = i /\ i - 1 \in 0 .. n
    OBVIOUS
  <2>2. F[(i - 1) + 1] = G[<<(i - 1) + 1, F[i - 1]>>]
    BY <1>4, <2>1 DEF Iterates
  <2>3. F[i - 1] \in X
    BY <1>5, <2>1
  <2> QED
    BY <1>3, <2>1, <2>2, <2>3
<1>7. \A j \in 0 .. n : F[j] = FlattenSeq(First_(S, j))
  BY <1>5, <1>6, FlattenIs DEF X
<1>8. First_(S, n) = S /\ n \in 0 .. n
  BY DEF First_
<1>9. F[n] = FlattenSeq(S)
  BY <1>7, <1>8
<1> QED
  BY <1>5, <1>6, <1>7, <1>9 DEF X

-----------------------------------------------------------------------------
(* Reading them one after the other.                                        *)

(* If each part changes the message, all of them make all the changes.     *)
LEMMA ReadsInTurn ==
  ASSUME NEW type, NEW n \in Nat, NEW S \in [1 .. n -> Seq(Bytes)],
         NEW F \in [0 .. n -> Seq(Bytes)],
         F[0] = <<>>, \A i \in 1 .. n : F[i] = F[i - 1] \o S[i],
         NEW M, \A i \in 1 .. n : Reads(type, M[i - 1], M[i], S[i]),
         NEW j \in 0 .. n
  PROVE  Reads(type, M[0], M[j], F[j])
<1> DEFINE P == {i \in Nat : i <= n => Reads(type, M[0], M[i], F[i])}
<1>1. 0 \in P
  <2>1. Reads(type, M[0], M[0], <<>>)
    BY ReadsNothing DEF Whole
  <2> QED
    BY <2>1
<1>2. ASSUME NEW i \in Nat, i \in P PROVE i + 1 \in P
  <2> SUFFICES ASSUME i + 1 <= n PROVE Reads(type, M[0], M[i + 1], F[i + 1])
    OBVIOUS
  <2>1. i + 1 \in 1 .. n /\ (i + 1) - 1 = i /\ i \in 0 .. n /\ i <= n
    OBVIOUS
  <2>2. Reads(type, M[0], M[i], F[i])
    BY <1>2, <2>1
  <2>3. Reads(type, M[i], M[i + 1], S[i + 1]) /\ F[i + 1] = F[i] \o S[i + 1]
    BY <2>1
  <2>4. F[i] \in Seq(Bytes) /\ S[i + 1] \in Seq(Bytes)
    BY <2>1
  <2> QED
    BY <2>2, <2>3, <2>4, ReadsBoth
<1>3. j \in P
  <2> HIDE DEF P
  <2>1. j \in Nat
    OBVIOUS
  <2> QED
    BY <1>1, <1>2, <2>1, SetInduction
<1> QED
  BY <1>3

-----------------------------------------------------------------------------
(* The entries of a map.                                                    *)

(* A tagged payload is one field, and holds the payload.                   *)
LEMMA TaggedFound ==
  ASSUME NEW buf \in Seq(Bytes), NEW i \in Nat \ {0}, NEW t \in Tags, t % 8 = 2,
         NEW s \in Seq(Bytes), Fits(Len(s)), Stands(buf, i, Tagged(t, s)),
         NEW limit, NEW strings,
         Taken(buf, t, limit, strings)
  PROVE  \E f : /\ Only(FieldAt(buf, i, limit, strings), f)
                /\ f.next = i + Len(Tagged(t, s))
                /\ Holds(buf, f, t, s)
                /\ i <= Len(buf)
<1> DEFINE n == Len(s)
           at == i + 1 + sovPacket(n)
           f == FieldOf(t, i, i + Delimited(n))
           r == [value |-> n, next |-> at]
<1>1. n \in Nat /\ n \in Words
  BY FitsWord
<1>2. /\ Len(Tagged(t, s)) = Delimited(n) /\ sovPacket(n) \in Nat \ {0}
      /\ Delimited(n) = 1 + n + sovPacket(n)
  BY <1>1, TaggedSeq DEF Delimited
<1>3. /\ i <= Len(buf)
      /\ FieldAt(buf, i, limit, strings) = {f}
      /\ VarintAt(buf, i + 1) = {r}
      /\ Stands(buf, at, s)
  BY DelimitedField
<1>4. r.next = at
  OBVIOUS
<1>5. f.num = t \div 8 /\ f.type = 2 /\ f.at = i + 1 /\ f.next = i + Delimited(n)
  BY DEF FieldOf
<1> HIDE DEF f, r
<1>6. Begun(buf, f) = r
  BY <1>3, <1>5 DEF Begun
<1>7. at \in Nat \ {0} /\ i + Delimited(n) = at + n
  BY <1>1, <1>2
<1>8. Holds(buf, f, t, s)
  BY <1>3, <1>4, <1>5, <1>6, <1>7 DEF Holds
<1>9. Only(FieldAt(buf, i, limit, strings), f)
  BY <1>3 DEF Only
<1> QED
  BY <1>2, <1>3, <1>5, <1>8, <1>9

EntryOf(k, v) == Tagged(10, k) \o Tagged(18, v)

Put_(h, k, v) == [j \in DOMAIN h \cup {k} |-> IF j = k THEN v ELSE h[j]]

(* An entry is its key and its value, each of which fits if it does.       *)
LEMMA EntrySeq ==
  ASSUME NEW k \in Seq(Bytes), NEW v \in Seq(Bytes)
  PROVE  /\ Tagged(10, k) \in Seq(Bytes) /\ Tagged(18, v) \in Seq(Bytes)
         /\ EntryOf(k, v) \in Seq(Bytes)
         /\ Len(EntryOf(k, v)) = Len(Tagged(10, k)) + Len(Tagged(18, v))
         /\ Fits(Len(EntryOf(k, v))) => Fits(Len(k)) /\ Fits(Len(v))
         /\ Len(Tagged(10, k)) \in Nat /\ Len(Tagged(18, v)) \in Nat
<1>1. 10 \in Tags /\ 18 \in Tags
  BY DEF Tags
<1>2. /\ Tagged(10, k) \in Seq(Bytes) /\ Len(Tagged(10, k)) = Delimited(Len(k))
      /\ sovPacket(Len(k)) \in Nat /\ Len(k) \in Nat
  BY <1>1, TaggedSeq
<1>3. /\ Tagged(18, v) \in Seq(Bytes) /\ Len(Tagged(18, v)) = Delimited(Len(v))
      /\ sovPacket(Len(v)) \in Nat /\ Len(v) \in Nat
  BY <1>1, TaggedSeq
<1>4. EntryOf(k, v) \in Seq(Bytes)
      /\ Len(EntryOf(k, v)) = Len(Tagged(10, k)) + Len(Tagged(18, v))
  BY <1>2, <1>3, ConcatProperties DEF EntryOf
<1>5. WordBits - 1 \in 0 .. WordBits + 7
  BY WordBitsAssumption DEF WordBitsAssumption
<1>6. Pow2[WordBits - 1] \in Nat
  BY <1>5, Pow2Nat
<1>7. Len(k) <= Len(EntryOf(k, v)) /\ Len(v) <= Len(EntryOf(k, v))
  BY <1>2, <1>3, <1>4 DEF Delimited
<1>8. Len(EntryOf(k, v)) \in Nat
  BY <1>4
<1> QED
  BY <1>2, <1>3, <1>4, <1>6, <1>7, <1>8 DEF Fits

(* An entry is put into the map.                                           *)
LEMMA EntryReads ==
  ASSUME NEW buf, NEW f, NEW t, NEW k \in Seq(Bytes), NEW v \in Seq(Bytes),
         Fits(Len(EntryOf(k, v))),
         Holds(buf, f, t, EntryOf(k, v)), NEW h
  PROVE  Entries(h, buf, f) = {Put_(h, k, v)}
<1> DEFINE a == Tagged(10, k)
           b == Tagged(18, v)
           limit == f.next - 1
           strings == {1, 2}
           e0 == [key |-> <<>>, value |-> <<>>]
           e1 == [key |-> k, value |-> <<>>]
           e2 == [key |-> k, value |-> v]
           D(e, i) == DecodeBy("Entry", e, buf, i, limit, strings)
<1>1. /\ a \in Seq(Bytes) /\ b \in Seq(Bytes) /\ EntryOf(k, v) \in Seq(Bytes)
      /\ Len(EntryOf(k, v)) = Len(a) + Len(b) /\ Fits(Len(k)) /\ Fits(Len(v))
      /\ Len(a) \in Nat /\ Len(b) \in Nat /\ EntryOf(k, v) = a \o b
  BY EntrySeq DEF EntryOf
<1>2. PICK p \in Nat \ {0} : p = Begun(buf, f).next
  BY DEF Holds
<1>3. /\ f.type = 2 /\ buf \in Seq(Bytes) /\ Stands(buf, p, EntryOf(k, v))
      /\ f.next = p + (Len(a) + Len(b))
  BY <1>1, <1>2 DEF Holds
<1> HIDE DEF a, b
<1>4. Stands(buf, p, a) /\ Stands(buf, p + Len(a), b)
  BY <1>1, <1>3, StandsCat
<1>5. /\ limit = p + Len(a) + Len(b) - 1 /\ limit <= Len(buf) /\ Len(buf) \in Nat /\ limit \in Int
      /\ p + Len(a) \in Nat \ {0}
  <2>1. p + Len(EntryOf(k, v)) - 1 <= Len(buf)
    BY <1>3 DEF Stands
  <2>2. Len(buf) \in Nat
    BY <1>3
  <2> QED
    BY <1>1, <1>3, <2>1, <2>2
<1>6. 10 \in Tags /\ 10 % 8 = 2 /\ 10 \div 8 = 1 /\ 18 \in Tags /\ 18 % 8 = 2 /\ 18 \div 8 = 2
      /\ Taken(buf, 10, limit, strings) /\ Taken(buf, 18, limit, strings)
  BY DEF Tags, Taken
<1> HIDE DEF limit, strings
<1>7. PICK f1 : /\ Only(FieldAt(buf, p, limit, strings), f1) /\ f1.next = p + Len(a)
                /\ Holds(buf, f1, 10, k) /\ p <= Len(buf)
  BY <1>1, <1>3, <1>4, <1>6, TaggedFound DEF a
<1>8. PICK f2 : /\ Only(FieldAt(buf, p + Len(a), limit, strings), f2)
                /\ f2.next = (p + Len(a)) + Len(b)
                /\ Holds(buf, f2, 18, v) /\ p + Len(a) <= Len(buf)
  BY <1>1, <1>3, <1>4, <1>5, <1>6, TaggedFound DEF b
<1>9. Len(a) > 0 /\ Len(b) > 0
  <2>1. Len(a) = Delimited(Len(k)) /\ sovPacket(Len(k)) \in Nat \ {0} /\ Len(k) \in Nat
    BY <1>6, TaggedSeq DEF a
  <2>2. Len(b) = Delimited(Len(v)) /\ sovPacket(Len(v)) \in Nat \ {0} /\ Len(v) \in Nat
    BY <1>6, TaggedSeq DEF b
  <2> QED
    BY <2>1, <2>2 DEF Delimited
<1>10. /\ limit \in 0 .. Len(buf) /\ p \in 1 .. limit /\ p + Len(a) \in 1 .. limit
       /\ limit + 1 \in 1 .. Len(buf) + 1 /\ limit + 1 > limit
       /\ (p + Len(a)) + Len(b) = limit + 1
  BY <1>1, <1>5, <1>9
<1>11. Only(FieldBy("Entry", e0, buf, f1), e1)
  <2>1. Payload(buf, f1) = k /\ f1.num = 1
    BY <1>6, <1>7, PayloadIs
  <2>2. FieldBy("Entry", e0, buf, f1) = EntryField(e0, buf, f1)
    BY DEF FieldBy
  <2>3. [e0 EXCEPT !.key = k] = e1
    OBVIOUS
  <2> HIDE DEF e0, e1
  <2> QED
    BY <2>1, <2>2, <2>3 DEF EntryField, Only
<1>12. Only(FieldBy("Entry", e1, buf, f2), e2)
  <2>1. Payload(buf, f2) = v /\ f2.num = 2
    BY <1>6, <1>8, PayloadIs
  <2>2. FieldBy("Entry", e1, buf, f2) = EntryField(e1, buf, f2)
    BY DEF FieldBy
  <2>3. [e1 EXCEPT !.value = v] = e2
    OBVIOUS
  <2> HIDE DEF e1, e2
  <2> QED
    BY <2>1, <2>2, <2>3 DEF EntryField, Only
<1>13. e2.key = k /\ e2.value = v
  OBVIOUS
<1>14. Decode(e0, buf, p, limit, strings, EntryField) = D(e0, p)
  BY DecodeEntryIs
<1> HIDE DEF e0, e1, e2
<1>15. D(e0, p) = D(e1, p + Len(a))
  <2>1. D(e0, p) = D(e1, f1.next)
    BY <1>3, <1>7, <1>10, <1>11, DecodeGoesOn
  <2> QED
    BY <1>7, <2>1
<1>16. D(e1, p + Len(a)) = D(e2, limit + 1)
  <2>1. D(e1, p + Len(a)) = D(e2, f2.next)
    BY <1>3, <1>8, <1>10, <1>12, DecodeGoesOn
  <2> QED
    BY <1>8, <1>10, <2>1
<1>17. D(e2, limit + 1) = {e2}
  BY <1>3, <1>10, DecodeEnds
<1>18. Entries(h, buf, f) =
         {[j \in DOMAIN h \cup {e.key} |-> IF j = e.key THEN e.value ELSE h[j]] :
            e \in Decode(e0, buf, p, limit, strings, EntryField)}
  BY <1>2, <1>3 DEF Entries, e0, limit, strings
<1> HIDE DEF D
<1>19. Decode(e0, buf, p, limit, strings, EntryField) = {e2}
  BY <1>14, <1>15, <1>16, <1>17
<1>20. Entries(h, buf, f) =
         {[j \in DOMAIN h \cup {e2.key} |-> IF j = e2.key THEN e2.value ELSE h[j]]}
  BY <1>18, <1>19
<1> QED
  BY <1>13, <1>20 DEF Put_

-----------------------------------------------------------------------------
(* What is cut.  Where s is cut, what is read ends there.                   *)

IsOf(type, m) ==
  CASE type = "Request"  -> IsRequest(m)
    [] type = "Response" -> IsResponse(m)
    [] type = "Metrics"  -> IsMetrics(m)

PutOf(type, m) ==
  CASE type = "Request"  -> PutRequest(m)
    [] type = "Response" -> PutResponse(m)
    [] type = "Metrics"  -> PutMetrics(m)

Written(type, m, w) == IsOf(type, m) /\ w \in PutOf(type, m)

Cautious(type, m, s, pre) ==
  \A buf \in Seq(Bytes) : \A i \in 1 .. Len(buf) + 1 :
    Begins(buf, i, s) /\ Len(buf) + 1 < i + Len(s) =>
      \A y \in Reading(type, m, buf, i) : Written(type, y, pre \o SubSeq(s, 1, Len(buf) + 1 - i))

(* Of nothing nothing can be cut.                                          *)
LEMMA CautiousNone ==
  ASSUME NEW type, NEW m, NEW pre
  PROVE  Cautious(type, m, <<>>, pre)
<1> SUFFICES ASSUME NEW buf \in Seq(Bytes), NEW i \in 1 .. Len(buf) + 1,
                    Len(buf) + 1 < i + Len(<<>>)
             PROVE  FALSE
  BY DEF Cautious
<1>1. Len(<<>>) = 0 /\ Len(buf) \in Nat
  OBVIOUS
<1> QED
  BY <1>1

(* Of one field that is refused when cut short, only the beginning is      *)
(* read.                                                                   *)
LEMMA CautiousOne ==
  ASSUME NEW type, NEW m, NEW s \in Seq(Bytes), NEW pre \in Seq(Bytes),
         NoHalf(type, m, s), Written(type, m, pre)
  PROVE  Cautious(type, m, s, pre)
<1> SUFFICES ASSUME NEW buf \in Seq(Bytes), NEW i \in 1 .. Len(buf) + 1,
                    Begins(buf, i, s), Len(buf) + 1 < i + Len(s),
                    NEW y \in Reading(type, m, buf, i)
             PROVE  Written(type, y, pre \o SubSeq(s, 1, Len(buf) + 1 - i))
  BY DEF Cautious
<1>1. Len(buf) \in Nat /\ Len(s) \in Nat
  OBVIOUS
<1>2. CASE i = Len(buf) + 1
  <2>1. y = m
    BY <1>2, ReadingEnds
  <2>2. Len(buf) + 1 - i = 0
    BY <1>1, <1>2
  <2>3. SubSeq(s, 1, 0) = <<>>
    OBVIOUS
  <2>4. pre \o <<>> = pre
    BY ConcatEmptySeq
  <2> QED
    BY <2>1, <2>2, <2>3, <2>4
<1>3. CASE i # Len(buf) + 1
  <2>1. i \in 1 .. Len(buf) /\ Len(buf) < i + Len(s) - 1
    BY <1>1, <1>3
  <2>2. Reading(type, m, buf, i) = {}
    BY <2>1 DEF NoHalf
  <2> QED
    BY <2>2
<1> QED
  BY <1>2, <1>3

(* A cut is in the first part or in the second.                            *)
LEMMA SubSeqOfCat ==
  ASSUME NEW s \in Seq(Bytes), NEW t \in Seq(Bytes), NEW k \in 0 .. Len(s) + Len(t)
  PROVE  /\ k <= Len(s) => SubSeq(s \o t, 1, k) = SubSeq(s, 1, k)
         /\ k >= Len(s) => SubSeq(s \o t, 1, k) = s \o SubSeq(t, 1, k - Len(s))
<1> DEFINE w == s \o t
           a == SubSeq(w, 1, k)
<1>1. /\ w \in Seq(Bytes) /\ Len(w) = Len(s) + Len(t)
      /\ \A j \in 1 .. Len(s) + Len(t) : w[j] = IF j <= Len(s) THEN s[j] ELSE t[j - Len(s)]
      /\ Len(s) \in Nat /\ Len(t) \in Nat
  BY ConcatProperties, LenProperties
<1>2. \A v \in Seq(Bytes), n \in Nat : n <= Len(v) =>
        /\ SubSeq(v, 1, n) \in Seq(Bytes) /\ Len(SubSeq(v, 1, n)) = n
        /\ \A j \in 1 .. n : SubSeq(v, 1, n)[j] = v[j]
  OBVIOUS
<1>3. k \in Nat /\ k <= Len(w)
  BY <1>1
<1> HIDE DEF w
<1>4. a \in Seq(Bytes) /\ Len(a) = k /\ \A j \in 1 .. k : a[j] = w[j]
  BY <1>1, <1>2, <1>3
<1> HIDE DEF a
<1>5. ASSUME k <= Len(s) PROVE a = SubSeq(s, 1, k)
  <2> DEFINE b == SubSeq(s, 1, k)
  <2>1. b \in Seq(Bytes) /\ Len(b) = k /\ \A j \in 1 .. k : b[j] = s[j]
    BY <1>2, <1>3, <1>5
  <2> HIDE DEF b
  <2>2. \A j \in 1 .. k : a[j] = b[j]
    <3> TAKE j \in 1 .. k
    <3>1. j \in 1 .. Len(s) + Len(t) /\ j <= Len(s)
      BY <1>1, <1>5
    <3>2. w[j] = s[j]
      BY <1>1, <3>1
    <3> QED
      BY <1>4, <2>1, <3>2
  <2>3. a = b
    BY <1>4, <2>1, <2>2, SeqEqual
  <2> QED
    BY <2>3 DEF b
<1>6. ASSUME k >= Len(s) PROVE a = s \o SubSeq(t, 1, k - Len(s))
  <2> DEFINE n == k - Len(s)
             b == SubSeq(t, 1, n)
             c == s \o b
  <2>0. n \in Nat /\ n <= Len(t) /\ k = Len(s) + n
    BY <1>1, <1>3, <1>6
  <2>1. b \in Seq(Bytes) /\ Len(b) = n /\ \A j \in 1 .. n : b[j] = t[j]
    BY <1>2, <2>0
  <2> HIDE DEF b, n
  <2>2. /\ c \in Seq(Bytes) /\ Len(c) = k
        /\ \A j \in 1 .. k : c[j] = IF j <= Len(s) THEN s[j] ELSE b[j - Len(s)]
    BY <2>0, <2>1, ConcatProperties
  <2> HIDE DEF c
  <2>3. \A j \in 1 .. k : a[j] = c[j]
    <3> TAKE j \in 1 .. k
    <3>1. CASE j <= Len(s)
      <4>1. j \in 1 .. Len(s) + Len(t)
        BY <1>1, <3>1
      <4> QED
        BY <1>1, <1>4, <2>2, <3>1, <4>1
    <3>2. CASE ~ (j <= Len(s))
      <4>1. j \in 1 .. Len(s) + Len(t) /\ j - Len(s) \in 1 .. n
        BY <1>1, <2>0, <3>2
      <4> QED
        BY <1>1, <1>4, <2>1, <2>2, <3>2, <4>1
    <3> QED
      BY <3>1, <3>2
  <2>4. a = c
    BY <1>4, <2>2, <2>3, SeqEqual
  <2> QED
    BY <2>4 DEF b, c, n
<1> QED
  BY <1>5, <1>6 DEF a, w

(* Three sequences are put together from either side.                      *)
LEMMA Together ==
  ASSUME NEW p \in Seq(Bytes), NEW q \in Seq(Bytes), NEW r \in Seq(Bytes)
  PROVE  (p \o q) \o r = p \o (q \o r)
BY ConcatAssociative

(* Where two encodings are cut, the first is cut or the second.            *)
LEMMA CautiousBoth ==
  ASSUME NEW type, NEW m, NEW x, NEW s \in Seq(Bytes), NEW t \in Seq(Bytes), NEW pre \in Seq(Bytes),
         Reads(type, m, x, s), Cautious(type, m, s, pre), Cautious(type, x, t, pre \o s)
  PROVE  Cautious(type, m, s \o t, pre)
<1> SUFFICES ASSUME NEW buf \in Seq(Bytes), NEW i \in 1 .. Len(buf) + 1,
                    Begins(buf, i, s \o t), Len(buf) + 1 < i + Len(s \o t),
                    NEW y \in Reading(type, m, buf, i)
             PROVE  Written(type, y, pre \o SubSeq(s \o t, 1, Len(buf) + 1 - i))
  BY DEF Cautious
<1>1. Len(s \o t) = Len(s) + Len(t) /\ Len(s) \in Nat /\ Len(t) \in Nat /\ Len(buf) \in Nat
  BY ConcatProperties, LenProperties
<1>2. i \in Nat \ {0}
  OBVIOUS
<1>3. Begins(buf, i, s) /\ Begins(buf, i + Len(s), t)
  BY <1>2, BeginsCat
<1> DEFINE k == Len(buf) + 1 - i
<1>4. k \in 0 .. Len(s) + Len(t)
  BY <1>1
<1>5. CASE Len(buf) + 1 < i + Len(s)
  <2>1. Written(type, y, pre \o SubSeq(s, 1, k))
    BY <1>3, <1>5 DEF Cautious
  <2>2. k <= Len(s)
    BY <1>1, <1>5
  <2> QED
    BY <1>4, <2>1, <2>2, SubSeqOfCat
<1>6. CASE ~ (Len(buf) + 1 < i + Len(s))
  <2>1. Stands(buf, i, s) /\ i + Len(s) \in 1 .. Len(buf) + 1 /\ k >= Len(s)
        /\ Len(buf) + 1 < (i + Len(s)) + Len(t) /\ Len(buf) + 1 - (i + Len(s)) = k - Len(s)
    BY <1>1, <1>3, <1>6 DEF Stands
  <2>2. y \in Reading(type, x, buf, i + Len(s))
    BY <1>2, <2>1 DEF Reads
  <2>3. Written(type, y, (pre \o s) \o SubSeq(t, 1, Len(buf) + 1 - (i + Len(s))))
    BY <1>3, <2>1, <2>2 DEF Cautious
  <2>4. SubSeq(t, 1, k - Len(s)) \in Seq(Bytes)
    <3>1. k - Len(s) \in 0 .. Len(t)
      BY <1>1, <1>4, <2>1
    <3> HIDE DEF k
    <3> QED
      BY <3>1
  <2>5. (pre \o s) \o SubSeq(t, 1, k - Len(s)) = pre \o (s \o SubSeq(t, 1, k - Len(s)))
    <3> HIDE DEF k
    <3>1. PICK r \in Seq(Bytes) : r = SubSeq(t, 1, k - Len(s))
      BY <2>4
    <3>2. (pre \o s) \o r = pre \o (s \o r)
      BY Together
    <3> QED
      BY <3>1, <3>2
  <2>6. SubSeq(s \o t, 1, k) = s \o SubSeq(t, 1, k - Len(s))
    BY <1>4, <2>1, SubSeqOfCat
  <2> HIDE DEF k
  <2>7. Written(type, y, (pre \o s) \o SubSeq(t, 1, k - Len(s)))
    BY <2>1, <2>3
  <2>8. Written(type, y, pre \o SubSeq(s \o t, 1, k))
    BY <2>5, <2>6, <2>7
  <2> QED
    BY <2>8 DEF k
<1> QED
  BY <1>5, <1>6

(* What is read of a cut buffer is the message that ends there.            *)
LEMMA CautiousAll ==
  ASSUME NEW type, NEW m, NEW w \in Seq(Bytes), Cautious(type, m, w, <<>>),
         NEW n \in 0 .. Len(w) - 1,
         NEW y \in Reading(type, m, SubSeq(w, 1, n), 1)
  PROVE  Written(type, y, SubSeq(w, 1, n))
<1> DEFINE buf == SubSeq(w, 1, n)
<1>1. Len(w) \in Nat /\ n \in Nat /\ n <= Len(w)
  OBVIOUS
<1>2. buf \in Seq(Bytes) /\ Len(buf) = n /\ \A j \in 1 .. n : buf[j] = w[j]
  BY <1>1
<1>3. y \in Reading(type, m, buf, 1)
  OBVIOUS
<1> HIDE DEF buf
<1>4. Begins(buf, 1, w)
  <2> SUFFICES ASSUME NEW k \in 1 .. Len(w), 1 + k - 1 <= Len(buf)
               PROVE  buf[1 + k - 1] = w[k]
    BY DEF Begins
  <2>1. k \in 1 .. n /\ 1 + k - 1 = k
    BY <1>1, <1>2
  <2> QED
    BY <1>2, <2>1
<1>5. 1 \in 1 .. Len(buf) + 1 /\ Len(buf) + 1 < 1 + Len(w) /\ Len(buf) + 1 - 1 = n
  BY <1>1, <1>2
<1>6. Written(type, y, <<>> \o SubSeq(w, 1, Len(buf) + 1 - 1))
  BY <1>2, <1>3, <1>4, <1>5 DEF Cautious
<1>7. <<>> \o buf = buf /\ buf = SubSeq(w, 1, Len(buf) + 1 - 1)
  BY <1>2, <1>5, ConcatEmptySeq DEF buf
<1> QED
  BY <1>6, <1>7 DEF buf

(* The same, for any number of parts.                                      *)
LEMMA CautiousInTurn ==
  ASSUME NEW type, NEW n \in Nat, NEW S \in [1 .. n -> Seq(Bytes)],
         NEW F \in [0 .. n -> Seq(Bytes)], NEW pre \in Seq(Bytes),
         F[0] = <<>>, \A i \in 1 .. n : F[i] = F[i - 1] \o S[i],
         NEW M, \A i \in 1 .. n : Whole(type, M[i - 1], M[i], S[i]),
         \A i \in 1 .. n : Written(type, M[i - 1], pre \o F[i - 1]),
         NEW j \in 0 .. n
  PROVE  Cautious(type, M[0], F[j], pre)
<1> DEFINE P == {i \in Nat : i <= n => Cautious(type, M[0], F[i], pre)}
<1>1. 0 \in P
  <2>1. Cautious(type, M[0], <<>>, pre)
    BY CautiousNone
  <2> QED
    BY <2>1
<1>2. ASSUME NEW i \in Nat, i \in P PROVE i + 1 \in P
  <2> SUFFICES ASSUME i + 1 <= n PROVE Cautious(type, M[0], F[i + 1], pre)
    OBVIOUS
  <2>1. i + 1 \in 1 .. n /\ (i + 1) - 1 = i /\ i \in 0 .. n /\ i <= n
    OBVIOUS
  <2>2. Cautious(type, M[0], F[i], pre)
    BY <1>2, <2>1
  <2>3. /\ F[i + 1] = F[i] \o S[i + 1] /\ F[i] \in Seq(Bytes) /\ S[i + 1] \in Seq(Bytes)
        /\ NoHalf(type, M[i], S[i + 1]) /\ Written(type, M[i], pre \o F[i])
    BY <2>1 DEF Whole
  <2>4. pre \o F[i] \in Seq(Bytes)
    BY <2>3, ConcatProperties
  <2>5. Cautious(type, M[i], S[i + 1], pre \o F[i])
    BY <2>3, <2>4, CautiousOne
  <2>6. Reads(type, M[0], M[i], F[i])
    <3>1. \A k \in 1 .. n : Reads(type, M[k - 1], M[k], S[k])
      BY DEF Whole
    <3> QED
      BY <2>1, <3>1, ReadsInTurn
  <2> QED
    BY <2>2, <2>3, <2>5, <2>6, CautiousBoth
<1>3. j \in P
  <2> HIDE DEF P
  <2>1. j \in Nat
    OBVIOUS
  <2> QED
    BY <1>1, <1>2, <2>1, SetInduction
<1> QED
  BY <1>3

-----------------------------------------------------------------------------
(* A map, in whatever order.                                                *)

UpTo(ks, j) == {ks[i] : i \in 1 .. j}

(* An order of the keys has each key once.                                 *)
LEMMA OrderOf ==
  ASSUME NEW D, IsFiniteSet(D), NEW ks \in SetToSeqs(D)
  PROVE  /\ Cardinality(D) \in Nat
         /\ ks \in [1 .. Cardinality(D) -> D]
         /\ \A i, j \in 1 .. Cardinality(D) : i # j => ks[i] # ks[j]
         /\ \A j \in 0 .. Cardinality(D) : /\ IsFiniteSet(UpTo(ks, j))
                                           /\ Cardinality(UpTo(ks, j)) = j
                                           /\ UpTo(ks, j) \subseteq D
                                           /\ [i \in 1 .. j |-> ks[i]] \in SetToSeqs(UpTo(ks, j))
         /\ UpTo(ks, Cardinality(D)) = D
         /\ UpTo(ks, 0) = {}
         /\ \A j \in 1 .. Cardinality(D) : UpTo(ks, j) = UpTo(ks, j - 1) \cup {ks[j]}
         /\ \A j \in 1 .. Cardinality(D) : ks[j] \notin UpTo(ks, j - 1)
<1> DEFINE n == Cardinality(D)
           T(j) == UpTo(ks, j)
<1>1. n \in Nat
  BY FS_CardinalityType
<1>2. ks \in [1 .. n -> D] /\ \A i, j \in 1 .. n : i # j => ks[i] # ks[j]
  BY DEF SetToSeqs
<1>3. T(0) = {}
  BY DEF UpTo
<1>4. \A j \in 1 .. n : T(j) = T(j - 1) \cup {ks[j]} /\ ks[j] \notin T(j - 1)
  <2> TAKE j \in 1 .. n
  <2>1. 1 .. j = (1 .. j - 1) \cup {j}
    OBVIOUS
  <2>2. \A i \in 1 .. j - 1 : i \in 1 .. n /\ i # j
    <3> HIDE DEF n
    <3> QED
      BY <1>1
  <2>3. ks[j] \notin T(j - 1)
    BY <1>2, <2>2 DEF UpTo
  <2>4. T(j) = T(j - 1) \cup {ks[j]}
    BY <2>1 DEF UpTo
  <2> QED
    BY <2>3, <2>4
<1> HIDE DEF n
<1>5. \A j \in 0 .. n : T(j) \subseteq D
  <2> TAKE j \in 0 .. n
  <2>1. \A i \in 1 .. j : i \in 1 .. n
    BY <1>1
  <2> QED
    BY <1>2, <2>1 DEF UpTo
<1> HIDE DEF T
<1>6. \A j \in 0 .. n : IsFiniteSet(T(j)) /\ Cardinality(T(j)) = j
  <2> DEFINE P == {j \in Nat : j <= n => IsFiniteSet(T(j)) /\ Cardinality(T(j)) = j}
  <2>1. 0 \in P
    BY <1>3, FS_EmptySet
  <2>2. ASSUME NEW j \in Nat, j \in P PROVE j + 1 \in P
    <3> SUFFICES ASSUME j + 1 <= n PROVE IsFiniteSet(T(j + 1)) /\ Cardinality(T(j + 1)) = j + 1
      OBVIOUS
    <3>1. j + 1 \in 1 .. n /\ (j + 1) - 1 = j /\ j <= n
      BY <1>1
    <3>2. IsFiniteSet(T(j)) /\ Cardinality(T(j)) = j
      BY <2>2, <3>1
    <3>3. T(j + 1) = T(j) \cup {ks[j + 1]} /\ ks[j + 1] \notin T(j)
      BY <1>4, <3>1
    <3> QED
      BY <3>2, <3>3, FS_AddElement
  <2>3. Nat \subseteq P
    <3> HIDE DEF P
    <3> QED
      BY <2>1, <2>2, SetInduction
  <2>4. \A j \in 0 .. n : j \in Nat /\ j <= n
    BY <1>1
  <2> QED
    BY <2>3, <2>4
<1>7. T(n) = D
  <2>1. n \in 0 .. n
    BY <1>1
  <2>2. T(n) \in SUBSET D /\ Cardinality(T(n)) = n
    BY <1>5, <1>6, <2>1
  <2> QED
    BY <2>2, FS_Subset DEF n
<1>8. \A j \in 0 .. n : [i \in 1 .. j |-> ks[i]] \in SetToSeqs(T(j))
  <2> TAKE j \in 0 .. n
  <2> DEFINE g == [i \in 1 .. j |-> ks[i]]
  <2>1. \A i \in 1 .. j : i \in 1 .. n /\ ks[i] \in T(j)
    BY <1>1 DEF T, UpTo
  <2>2. g \in [1 .. j -> T(j)] /\ \A i \in 1 .. j : g[i] = ks[i]
    BY <2>1
  <2> HIDE DEF g
  <2>3. \A i, k \in 1 .. j : i # k => g[i] # g[k]
    BY <1>2, <2>1, <2>2
  <2>4. Cardinality(T(j)) = j
    BY <1>6
  <2>5. g \in SetToSeqs(T(j))
    BY <2>2, <2>3, <2>4 DEF SetToSeqs
  <2> QED
    BY <2>5 DEF g
<1> QED
  BY <1>1, <1>2, <1>3, <1>4, <1>5, <1>6, <1>7, <1>8 DEF T, n

(* Room for the entries of a map.                                           *)
FitEntry(k, v) == Fits(Len(EntryOf(k, v)))
FitMap(h)      == \A k \in DOMAIN h : FitEntry(k, h[k])

Part(h, T) == [k \in T |-> h[k]]
Parts(h)   == {Part(h, T) : T \in SUBSET DOMAIN h}

(* Which field a message has for its map.                                   *)
HasMap(type, t, h, Make) ==
  \A g \in Parts(h), g2 \in Parts(h) : \A buf, f :
    f.num = t \div 8 /\ Only(Entries(g, buf, f), g2) =>
      Only(FieldBy(type, Make[g], buf, f), Make[g2])

(* One entry more is one key more.                                         *)
LEMMA PutPart ==
  ASSUME NEW h, NEW T, NEW k
  PROVE  Put_(Part(h, T), k, h[k]) = Part(h, T \cup {k})
<1>1. DOMAIN Part(h, T) = T /\ \A j \in T : Part(h, T)[j] = h[j]
  BY DEF Part
<1>2. Put_(Part(h, T), k, h[k]) = [j \in T \cup {k} |-> IF j = k THEN h[k] ELSE Part(h, T)[j]]
  BY <1>1 DEF Put_
<1>3. \A j \in T \cup {k} : (IF j = k THEN h[k] ELSE Part(h, T)[j]) = h[j]
  BY <1>1
<1> QED
  BY <1>2, <1>3 DEF Part

(* The map, piece by piece.                                                 *)
PieceOf(t, h, ks, i) == Tagged(t, EntryOf(ks[i], h[ks[i]]))

InPieces(t, h, s, n, ks, S, F) ==
  /\ n \in Nat /\ ks \in [1 .. n -> DOMAIN h]
  /\ S \in [1 .. n -> Seq(Bytes)] /\ F \in [0 .. n -> Seq(Bytes)]
  /\ \A i \in 1 .. n : S[i] = PieceOf(t, h, ks, i)
  /\ F[0] = <<>> /\ \A i \in 1 .. n : F[i] = F[i - 1] \o S[i]
  /\ s = F[n]
  /\ UpTo(ks, 0) = {} /\ UpTo(ks, n) = DOMAIN h
  /\ \A i \in 1 .. n : UpTo(ks, i) = UpTo(ks, i - 1) \cup {ks[i]} /\ ks[i] \notin UpTo(ks, i - 1)
  /\ \A j \in 0 .. n : /\ UpTo(ks, j) \subseteq DOMAIN h
                       /\ F[j] \in PutMap(t, Part(h, UpTo(ks, j)))

(* What PutMap writes is one entry after the other, in some order.         *)
LEMMA MapPieces ==
  ASSUME NEW t \in Tags, NEW h, IsMap(h), NEW s \in PutMap(t, h)
  PROVE  \E n, ks, S, F : InPieces(t, h, s, n, ks, S, F)
<1> DEFINE D == DOMAIN h
           n == Cardinality(D)
<1>1. PICK ks \in SetToSeqs(D) :
        s = FlattenSeq([i \in DOMAIN ks |-> Tagged(t, Tagged(10, ks[i]) \o Tagged(18, h[ks[i]]))])
  BY DEF PutMap
<1>2. /\ n \in Nat /\ ks \in [1 .. n -> D]
      /\ \A j \in 0 .. n : /\ UpTo(ks, j) \subseteq D
                           /\ [i \in 1 .. j |-> ks[i]] \in SetToSeqs(UpTo(ks, j))
      /\ UpTo(ks, n) = D /\ UpTo(ks, 0) = {}
      /\ \A j \in 1 .. n : UpTo(ks, j) = UpTo(ks, j - 1) \cup {ks[j]} /\ ks[j] \notin UpTo(ks, j - 1)
  <2>1. IsFiniteSet(D)
    BY DEF IsMap
  <2> QED
    BY <2>1, OrderOf
<1> DEFINE S == [i \in 1 .. n |-> PieceOf(t, h, ks, i)]
<1> HIDE DEF n
<1>3. S \in [1 .. n -> Seq(Bytes)]
  <2> SUFFICES ASSUME NEW i \in 1 .. n PROVE PieceOf(t, h, ks, i) \in Seq(Bytes)
    OBVIOUS
  <2>1. ks[i] \in D
    BY <1>2
  <2>2. PICK k, v : k = ks[i] /\ v = h[ks[i]]
    OBVIOUS
  <2>3. k \in Seq(Bytes) /\ v \in Seq(Bytes)
    BY <2>1, <2>2 DEF IsMap
  <2>4. EntryOf(k, v) \in Seq(Bytes)
    BY <2>3, EntrySeq
  <2> QED
    BY <2>2, <2>4, TaggedSeq DEF PieceOf
<1>4. \A i \in 1 .. n : S[i] = PieceOf(t, h, ks, i)
  OBVIOUS
<1>5. s = FlattenSeq(S)
  <2>1. DOMAIN ks = 1 .. n
    BY <1>2
  <2> QED
    BY <1>1, <2>1 DEF PieceOf, EntryOf
<1> HIDE DEF S
<1>6. PICK F \in [0 .. n -> Seq(Bytes)] :
        /\ F[0] = <<>>
        /\ \A i \in 1 .. n : F[i] = F[i - 1] \o S[i]
        /\ \A j \in 0 .. n : F[j] = FlattenSeq(First_(S, j))
        /\ F[n] = FlattenSeq(S)
  BY <1>2, <1>3, FlattenExists
<1>7. \A j \in 0 .. n : F[j] \in PutMap(t, Part(h, UpTo(ks, j)))
  <2> TAKE j \in 0 .. n
  <2> DEFINE g == Part(h, UpTo(ks, j))
             kj == [i \in 1 .. j |-> ks[i]]
             E(i) == Tagged(t, Tagged(10, kj[i]) \o Tagged(18, g[kj[i]]))
  <2>1. kj \in SetToSeqs(UpTo(ks, j)) /\ DOMAIN g = UpTo(ks, j) /\ DOMAIN kj = 1 .. j
    BY <1>2 DEF Part
  <2>2. ASSUME NEW i \in 1 .. j PROVE E(i) = S[i]
    <3>0. n \in Nat /\ i \in 1 .. n
      BY <1>2
    <3>4. ks[i] \in UpTo(ks, j)
      BY DEF UpTo
    <3>1. kj[i] = ks[i] /\ ks[i] \in UpTo(ks, j) /\ i \in 1 .. n
      BY <3>0, <3>4
    <3>2. g[ks[i]] = h[ks[i]]
      BY <3>1 DEF Part
    <3> HIDE DEF g, kj
    <3>3. E(i) = PieceOf(t, h, ks, i)
      BY <3>1, <3>2 DEF PieceOf, EntryOf
    <3> QED
      BY <1>4, <3>1, <3>3
  <2> HIDE DEF E
  <2>3. [i \in DOMAIN kj |-> E(i)] = First_(S, j)
    BY <2>1, <2>2 DEF First_
  <2> HIDE DEF kj, g
  <2>4. FlattenSeq([i \in DOMAIN kj |-> E(i)]) \in PutMap(t, g)
    BY <2>1 DEF PutMap, E
  <2>5. F[j] = FlattenSeq([i \in DOMAIN kj |-> E(i)])
    BY <1>6, <2>3
  <2> QED
    BY <2>4, <2>5 DEF g
<1>8. s = F[n]
  BY <1>5, <1>6
<1> HIDE DEF D
<1>9. InPieces(t, h, s, n, ks, S, F)
  BY <1>2, <1>3, <1>4, <1>6, <1>7, <1>8 DEF D, InPieces
<1> QED
  BY <1>9

(* A map is read back in whatever order it was written, and read of a cut  *)
(* one is the part in front of the cut.                                    *)
LEMMA MapReads ==
  ASSUME NEW type, NEW t \in Tags, t % 8 = 2, NEW h, IsMap(h), FitMap(h),
         NEW Make, HasMap(type, t, h, Make), NEW s \in PutMap(t, h)
  PROVE  /\ s \in Seq(Bytes)
         /\ Reads(type, Make[NoMap], Make[h], s)
         /\ \A pre \in Seq(Bytes) :
              (\A g \in Parts(h) : \A w \in PutMap(t, g) : Written(type, Make[g], pre \o w))
                => Cautious(type, Make[NoMap], s, pre)
<1>0. PICK n, ks, S, F : InPieces(t, h, s, n, ks, S, F)
  BY MapPieces
<1>1. /\ n \in Nat /\ ks \in [1 .. n -> DOMAIN h]
      /\ S \in [1 .. n -> Seq(Bytes)] /\ F \in [0 .. n -> Seq(Bytes)]
      /\ \A i \in 1 .. n : S[i] = PieceOf(t, h, ks, i)
      /\ F[0] = <<>> /\ \A i \in 1 .. n : F[i] = F[i - 1] \o S[i]
      /\ s = F[n]
      /\ UpTo(ks, 0) = {} /\ UpTo(ks, n) = DOMAIN h
      /\ \A i \in 1 .. n : UpTo(ks, i) = UpTo(ks, i - 1) \cup {ks[i]} /\ ks[i] \notin UpTo(ks, i - 1)
      /\ \A j \in 0 .. n : /\ UpTo(ks, j) \subseteq DOMAIN h
                           /\ F[j] \in PutMap(t, Part(h, UpTo(ks, j)))
  BY <1>0 DEF InPieces
<1> DEFINE P(j) == Part(h, UpTo(ks, j))
           M == [j \in 0 .. n |-> Make[P(j)]]
<1>2. \A j \in 0 .. n : M[j] = Make[P(j)] /\ P(j) \in Parts(h)
  BY <1>1 DEF Parts
<1>3. 0 \in 0 .. n /\ n \in 0 .. n /\ \A i \in 1 .. n : i \in 0 .. n /\ i - 1 \in 0 .. n
  BY <1>1
<1> HIDE DEF M
<1>4. M[0] = Make[NoMap] /\ M[n] = Make[h]
  <2>1. P(0) = NoMap
    BY <1>1 DEF Part, NoMap
  <2>2. P(n) = h
    BY <1>1 DEF Part, IsMap
  <2> QED
    BY <1>2, <1>3, <2>1, <2>2
<1>5. ASSUME NEW i \in 1 .. n PROVE Whole(type, M[i - 1], M[i], S[i])
  <2>1. PICK k, v : k = ks[i] /\ v = h[ks[i]]
    OBVIOUS
  <2>2. k \in DOMAIN h
    BY <1>1, <2>1
  <2>3. k \in Seq(Bytes) /\ v \in Seq(Bytes) /\ FitEntry(k, v)
    BY <2>1, <2>2 DEF IsMap, FitMap
  <2>4. EntryOf(k, v) \in Seq(Bytes) /\ Fits(Len(EntryOf(k, v)))
    BY <2>3, EntrySeq DEF FitEntry
  <2>5. Put_(P(i - 1), k, v) = P(i)
    <3>1. UpTo(ks, i) = UpTo(ks, i - 1) \cup {k}
      BY <1>1, <2>1
    <3>2. PICK T : T = UpTo(ks, i - 1)
      OBVIOUS
    <3>3. Put_(Part(h, T), k, h[k]) = Part(h, T \cup {k})
      BY PutPart
    <3> QED
      BY <2>1, <3>1, <3>2, <3>3
  <2> HIDE DEF P
  <2>6. ASSUME NEW buf, NEW f, Holds(buf, f, t, EntryOf(k, v))
        PROVE  Only(FieldBy(type, M[i - 1], buf, f), M[i])
    <3>1. Entries(P(i - 1), buf, f) = {P(i)}
      BY <2>3, <2>5, <2>6, EntryReads DEF FitEntry
    <3>2. Only(Entries(P(i - 1), buf, f), P(i)) /\ f.num = t \div 8
      BY <2>6, <3>1 DEF Only, Holds
    <3>3. P(i - 1) \in Parts(h) /\ P(i) \in Parts(h) /\ M[i - 1] = Make[P(i - 1)] /\ M[i] = Make[P(i)]
      BY <1>2, <1>3
    <3> QED
      BY <3>2, <3>3 DEF HasMap
  <2>7. S[i] = Tagged(t, EntryOf(k, v))
    BY <1>1, <2>1 DEF PieceOf
  <2> QED
    BY <2>4, <2>6, <2>7, TaggedReads
<1>6. Reads(type, M[0], M[n], F[n])
  <2>1. \A i \in 1 .. n : Reads(type, M[i - 1], M[i], S[i])
    BY <1>5 DEF Whole
  <2> QED
    BY <1>1, <1>3, <2>1, ReadsInTurn
<1>7. ASSUME NEW pre \in Seq(Bytes),
             \A g \in Parts(h) : \A w \in PutMap(t, g) : Written(type, Make[g], pre \o w)
      PROVE  Cautious(type, Make[NoMap], s, pre)
  <2>1. \A i \in 1 .. n : Written(type, M[i - 1], pre \o F[i - 1])
    <3> TAKE i \in 1 .. n
    <3>1. i - 1 \in 0 .. n
      BY <1>3
    <3>2. F[i - 1] \in PutMap(t, P(i - 1)) /\ P(i - 1) \in Parts(h) /\ M[i - 1] = Make[P(i - 1)]
      BY <1>1, <1>2, <3>1
    <3> HIDE DEF P
    <3> QED
      BY <1>7, <3>2
  <2>2. Cautious(type, M[0], F[n], pre)
    BY <1>1, <1>3, <1>5, <2>1, CautiousInTurn
  <2> QED
    BY <1>1, <1>4, <2>2
<1> QED
  BY <1>1, <1>3, <1>4, <1>6, <1>7

-----------------------------------------------------------------------------
(* Sums.                                                                    *)

El(s) == CHOOSE x \in s : TRUE

IsSum(f, D, g) == g = [s \in SUBSET D |-> IF s = {} THEN 0 ELSE f[El(s)] + g[s \ {El(s)}]]

LEMMA ElIn == \A s : s # {} => El(s) \in s
BY DEF El

(* SumFunction is the function that adds up over subsets.                  *)
LEMMA SumIs ==
  ASSUME NEW f
  PROVE  SumFunction(f) = (CHOOSE g : IsSum(f, DOMAIN f, g))[DOMAIN f]
BY DEF SumFunction, SumFunctionOnSet, FoldFunctionOnSet, MapThenFoldSet,
   IsSum, El

(* All sets but the empty one lose an element. *)
LEMMA Smaller ==
  ASSUME NEW D, IsFiniteSet(D), NEW s \in SUBSET D
  PROVE  /\ Cardinality(s) \in Nat
         /\ s # {} => /\ El(s) \in D /\ El(s) \in s /\ s \ {El(s)} \in SUBSET D
                      /\ Cardinality(s \ {El(s)}) = Cardinality(s) - 1
         /\ IsFiniteSet(s)
         /\ s # {} => Cardinality(s) # 0
<1>1. IsFiniteSet(s)
  BY FS_Subset
<1>2. Cardinality(s) \in Nat /\ (Cardinality(s) = 0 <=> s = {})
  BY <1>1, FS_CardinalityType, FS_EmptySet
<1>3. ASSUME s # {} PROVE /\ El(s) \in D /\ El(s) \in s /\ s \ {El(s)} \in SUBSET D
                          /\ Cardinality(s \ {El(s)}) = Cardinality(s) - 1
  <2>1. El(s) \in s
    BY <1>3, ElIn
  <2>2. Cardinality(s \ {El(s)}) = Cardinality(s) - 1
    BY <1>1, <2>1, FS_RemoveElement
  <2> QED
    BY <2>1, <2>2
<1> QED
  BY <1>1, <1>2, <1>3

(* There is such a function for every finite domain.                       *)
LEMMA SumExists ==
  ASSUME NEW D, IsFiniteSet(D), NEW f
  PROVE  \E g : IsSum(f, D, g)
<1> DEFINE A == SUBSET D
           Next_(s, e) == IF s = {} THEN 0 ELSE f[El(s)] + e
           Ok(g, n) == \A s \in A : Cardinality(s) <= n => g[s] = Next_(s, g[s \ {El(s)}])
           N == Cardinality(D)
           P == {n \in Nat : \E g : g = [s \in A |-> g[s]] /\ Ok(g, n)}
<1>1. 0 \in P
  <2> DEFINE g == [s \in A |-> 0]
  <2>1. \A s \in A : g[s] = 0
    OBVIOUS
  <2>2. ASSUME NEW s \in A, Cardinality(s) <= 0 PROVE g[s] = Next_(s, g[s \ {El(s)}])
    <3>1. s = {}
      <4>0. s \in SUBSET D /\ Cardinality(s) \in Nat
        BY Smaller
      <4>1. Cardinality(s) = 0
        BY <2>2, <4>0
      <4> QED
        BY <4>1, Smaller
    <3> QED
      BY <2>1, <3>1
  <2> QED
    BY <2>1, <2>2
<1>2. ASSUME NEW n \in Nat, n \in P PROVE n + 1 \in P
  <2>1. PICK h : Ok(h, n)
    BY <1>2
  <2> DEFINE g == [s \in A |-> IF Cardinality(s) = n + 1 THEN Next_(s, h[s \ {El(s)}]) ELSE h[s]]
  <2>2. \A s \in A : g[s] = IF Cardinality(s) = n + 1 THEN Next_(s, h[s \ {El(s)}]) ELSE h[s]
    OBVIOUS
  <2>3. g = [s \in A |-> g[s]]
    OBVIOUS
  <2> HIDE DEF g
  <2>4. ASSUME NEW s \in A, Cardinality(s) <= n + 1 PROVE g[s] = Next_(s, g[s \ {El(s)}])
    <3>1. CASE s = {}
      <4>1. Cardinality(s) = 0
        BY <3>1, FS_EmptySet
      <4>2. Cardinality(s) <= n /\ Cardinality(s) # n + 1
        BY <4>1
      <4> QED
        BY <2>1, <2>2, <3>1, <4>2
    <3>2. CASE s # {}
      <4> DEFINE r == s \ {El(s)}
      <4>1. Cardinality(s) \in Nat /\ r \in A /\ Cardinality(r) = Cardinality(s) - 1
        BY <3>2, Smaller
      <4> HIDE DEF r
      <4>2. Cardinality(r) # n + 1
        BY <2>4, <4>1
      <4>3. g[r] = h[r]
        BY <2>2, <4>1, <4>2
      <4>4. g[s] = Next_(s, h[r])
        <5>1. CASE Cardinality(s) = n + 1
          BY <2>2, <5>1 DEF r
        <5>2. CASE Cardinality(s) # n + 1
          <6>1. Cardinality(s) <= n
            BY <2>4, <4>1, <5>2
          <6> QED
            BY <2>1, <2>2, <5>2, <6>1 DEF r
        <5> QED
          BY <5>1, <5>2
      <4> QED
        BY <4>3, <4>4 DEF r
    <3> QED
      BY <3>1, <3>2
  <2>5. Ok(g, n + 1)
    BY <2>4
  <2> HIDE DEF Ok
  <2> QED
    BY <2>3, <2>5
<1>3. N \in Nat
  BY FS_CardinalityType
<1>4. N \in P
  <2> HIDE DEF P, N
  <2> QED
    BY <1>1, <1>2, <1>3, SetInduction
<1>5. PICK g : g = [s \in A |-> g[s]] /\ Ok(g, N)
  BY <1>4
<1>6. \A s \in A : g[s] = Next_(s, g[s \ {El(s)}])
  <2>1. \A s \in A : Cardinality(s) <= N
    BY FS_Subset
  <2> QED
    BY <1>5, <2>1
<1>7. g = [s \in A |-> Next_(s, g[s \ {El(s)}])]
  BY <1>5, <1>6
<1> QED
  BY <1>7 DEF IsSum

(* Whichever comes last. *)
NatOn(D, f)      == f \in [D -> Nat]
AddsUp(D, f, W) ==
  /\ W \in [SUBSET D -> Nat]
  /\ W[{}] = 0 /\ SumFunction(f) = W[D]
  /\ \A s \in SUBSET D : \A x \in D \ s : W[s \cup {x}] = W[s] + f[x]

(* A sum over one element more is larger by its value.                     *)
LEMMA SumAdds ==
  ASSUME NEW D, IsFiniteSet(D), NEW f, NatOn(D, f)
  PROVE  \E W : AddsUp(D, f, W)
<1>0. f \in [D -> Nat]
  BY DEF NatOn
<1> USE <1>0
<1>1. DOMAIN f = D
  OBVIOUS
<1>2. PICK W : W = (CHOOSE g : IsSum(f, D, g))
  OBVIOUS
<1>3. SumFunction(f) = W[D]
  BY <1>1, <1>2, SumIs
<1>4. IsSum(f, D, W)
  BY <1>2, SumExists
<1>5. /\ DOMAIN W = SUBSET D /\ W = [s \in SUBSET D |-> W[s]]
      /\ \A s \in SUBSET D : W[s] = IF s = {} THEN 0 ELSE f[El(s)] + W[s \ {El(s)}]
  BY <1>4 DEF IsSum
<1>6. \A s \in SUBSET D : W[s] \in Nat
  <2> DEFINE P == {n \in Nat : \A s \in SUBSET D : Cardinality(s) = n => W[s] \in Nat}
  <2>1. 0 \in P
    <3> SUFFICES ASSUME NEW s \in SUBSET D, Cardinality(s) = 0 PROVE W[s] \in Nat
      OBVIOUS
    <3>1. s = {}
      BY Smaller
    <3>2. W[s] = IF s = {} THEN 0 ELSE f[El(s)] + W[s \ {El(s)}]
      BY <1>5
    <3> QED
      BY <3>1, <3>2
  <2>2. ASSUME NEW n \in Nat, n \in P PROVE n + 1 \in P
    <3> SUFFICES ASSUME NEW s \in SUBSET D, Cardinality(s) = n + 1 PROVE W[s] \in Nat
      OBVIOUS
    <3>1. s # {}
      <4>1. Cardinality(s) # 0
        OBVIOUS
      <4> QED
        BY <4>1, FS_EmptySet
    <3>0. /\ El(s) \in D /\ El(s) \in s /\ s \ {El(s)} \in SUBSET D
          /\ Cardinality(s \ {El(s)}) = Cardinality(s) - 1
      <4> HIDE DEF P
      <4> QED
        BY <3>1, Smaller
    <3>2. El(s) \in D /\ s \ {El(s)} \in SUBSET D /\ Cardinality(s \ {El(s)}) = n
      BY <3>0
    <3>3. W[s \ {El(s)}] \in Nat /\ f[El(s)] \in Nat
      BY <2>2, <3>2
    <3>4. W[s] = f[El(s)] + W[s \ {El(s)}]
      BY <1>5, <3>1
    <3> QED
      BY <3>3, <3>4
  <2>3. Nat \subseteq P
    <3> HIDE DEF P
    <3> QED
      BY <2>1, <2>2, SetInduction
  <2>4. \A s \in SUBSET D : Cardinality(s) \in Nat
    BY Smaller
  <2> QED
    BY <2>3, <2>4
<1>7. W \in [SUBSET D -> Nat]
  BY <1>5, <1>6
<1>8. W[{}] = 0
  BY <1>5
<1>9. \A s \in SUBSET D : \A x \in D \ s : W[s \cup {x}] = W[s] + f[x]
  <2> DEFINE P == {n \in Nat : \A s \in SUBSET D : Cardinality(s) = n =>
                                 \A x \in D \ s : W[s \cup {x}] = W[s] + f[x]}
  <2>0. \A u \in SUBSET D : u # {} => W[u] = f[El(u)] + W[u \ {El(u)}]
    BY <1>5
  <2>1. 0 \in P
    <3> SUFFICES ASSUME NEW s \in SUBSET D, Cardinality(s) = 0, NEW x \in D \ s
                 PROVE  W[s \cup {x}] = W[s] + f[x]
      OBVIOUS
    <3>1. s = {}
      BY Smaller
    <3>2. El({x}) = x /\ {x} \ {x} = {} /\ {x} # {} /\ {x} \in SUBSET D
      <4>1. El({x}) \in {x}
        BY ElIn
      <4> QED
        BY <4>1
    <3>3. W[{x}] = f[x] + W[{}]
      BY <2>0, <3>2
    <3>4. s \cup {x} = {x} /\ f[x] \in Nat
      BY <3>1
    <3> QED
      BY <1>8, <3>1, <3>3, <3>4
  <2>2. ASSUME NEW n \in Nat, n \in P PROVE n + 1 \in P
    <3> SUFFICES ASSUME NEW s \in SUBSET D, Cardinality(s) = n + 1, NEW x \in D \ s
                 PROVE  W[s \cup {x}] = W[s] + f[x]
      OBVIOUS
    <3> DEFINE u == s \cup {x}
               c == El(u)
    <3>1. u \in SUBSET D /\ u # {} /\ x \in D /\ f[x] \in Nat /\ x \notin s
      OBVIOUS
    <3>2. c \in u
      BY <3>1, ElIn
    <3>3. W[u] = f[c] + W[u \ {c}]
      BY <2>0, <3>1
    <3> HIDE DEF c
    <3>4. CASE c = x
      <4>1. u \ {c} = s
        BY <3>1, <3>4
      <4>2. W[s] \in Nat
        BY <1>6
      <4> HIDE DEF u
      <4>3. W[u] = W[s] + f[x]
        BY <3>1, <3>3, <3>4, <4>1, <4>2
      <4> QED
        BY <4>3 DEF u
    <3>5. CASE c # x
      <4> DEFINE r == s \ {c}
      <4>1. c \in s /\ r \in SUBSET D /\ x \in D \ r /\ c \in D \ r
        BY <3>1, <3>2, <3>5
      <4>2. u \ {c} = r \cup {x} /\ s = r \cup {c}
        BY <3>5, <4>1
      <4>3. Cardinality(r) = n
        <5>1. IsFiniteSet(s)
          BY Smaller
        <5>2. Cardinality(s \ {c}) = Cardinality(s) - 1
          BY <4>1, <5>1, FS_RemoveElement
        <5> QED
          BY <5>2
      <4> HIDE DEF r, u
      <4>4. W[r \cup {x}] = W[r] + f[x] /\ W[r \cup {c}] = W[r] + f[c]
        BY <2>2, <4>1, <4>3
      <4>5. W[r] \in Nat /\ f[c] \in Nat
        BY <1>6, <4>1
      <4>6. W[u] = f[c] + (W[r] + f[x]) /\ W[s] = W[r] + f[c]
        BY <3>3, <4>2, <4>4
      <4>7. W[u] = W[s] + f[x]
        BY <3>1, <4>5, <4>6
      <4> QED
        BY <4>7 DEF u
    <3> QED
      BY <3>4, <3>5
  <2>3. Nat \subseteq P
    <3> HIDE DEF P
    <3> QED
      BY <2>1, <2>2, SetInduction
  <2>4. \A s \in SUBSET D : Cardinality(s) \in Nat
    BY Smaller
  <2> QED
    BY <2>3, <2>4
<1> QED
  BY <1>3, <1>7, <1>8, <1>9 DEF AddsUp

-----------------------------------------------------------------------------
(* Size is the length of what is put down.                                  *)

OfSize(P, n) == n \in Nat /\ P # {} /\ \A s \in P : s \in Seq(Bytes) /\ Len(s) = n

(* One encoding has its length.                                            *)
LEMMA OfSizeOne ==
  ASSUME NEW s \in Seq(Bytes)
  PROVE  OfSize({s}, Len(s))
BY DEF OfSize

(* Behind each other, encodings have the sum of their sizes.               *)
LEMMA OfSizeCat ==
  ASSUME NEW A, NEW B, NEW a, NEW b, OfSize(A, a), OfSize(B, b)
  PROVE  OfSize(A ++ B, a + b)
<1>1. a + b \in Nat
  BY DEF OfSize
<1>2. A ++ B # {}
  <2>1. PICK x \in A, y \in B : TRUE
    BY DEF OfSize
  <2>2. x \o y \in A ++ B
    BY DEF ++
  <2> QED
    BY <2>2
<1>3. ASSUME NEW s \in A ++ B PROVE s \in Seq(Bytes) /\ Len(s) = a + b
  <2>1. PICK x \in A, y \in B : s = x \o y
    BY DEF ++
  <2>2. x \in Seq(Bytes) /\ Len(x) = a /\ y \in Seq(Bytes) /\ Len(y) = b
    BY DEF OfSize
  <2> QED
    BY <2>1, <2>2, ConcatProperties
<1> QED
  BY <1>1, <1>2, <1>3 DEF OfSize

(* A tag and a length add what Delimited says.                             *)
LEMMA OfSizeTagged ==
  ASSUME NEW t \in Tags, NEW P, NEW n, OfSize(P, n)
  PROVE  OfSize({Tagged(t, s) : s \in P}, Delimited(n))
<1>1. PICK p \in P : p \in Seq(Bytes) /\ Len(p) = n
  BY DEF OfSize
<1>2. Delimited(n) \in Nat
  BY <1>1, EncodeAll DEF Delimited
<1>3. \A s \in P : Tagged(t, s) \in Seq(Bytes) /\ Len(Tagged(t, s)) = Delimited(n)
  BY TaggedSeq DEF OfSize
<1> QED
  BY <1>1, <1>2, <1>3 DEF OfSize

(* SizeInt is what PutInt writes.                                          *)
LEMMA OfSizeInt ==
  ASSUME NEW t \in Tags, NEW b \in 1 .. WordBits, NEW x \in Ints(b)
  PROVE  OfSize(PutInt(t, x), SizeInt(x))
<1>1. CASE x = 0
  <2>1. <<>> \in Seq(Bytes) /\ Len(<<>>) = 0
    OBVIOUS
  <2> QED
    BY <1>1, <2>1 DEF OfSize, PutInt, SizeInt
<1>2. CASE x # 0
  <2>1. Unsigned(x) \in Words
    BY SignComesBack
  <2>2. PICK s : s = <<t>> \o encodeVarintPacket(Unsigned(x))
    OBVIOUS
  <2>3. s \in Seq(Bytes) /\ Len(s) = 1 + sovPacket(Unsigned(x)) /\ sovPacket(Unsigned(x)) \in Nat
    BY <2>1, <2>2, IntEncoded
  <2>4. PutInt(t, x) = {s} /\ SizeInt(x) = Len(s)
    BY <1>2, <2>2, <2>3 DEF PutInt, SizeInt
  <2> QED
    BY <2>3, <2>4, OfSizeOne
<1> QED
  BY <1>1, <1>2

(* SizeBool is what PutBool writes.                                        *)
LEMMA OfSizeBool ==
  ASSUME NEW t \in Tags, NEW b \in BOOLEAN
  PROVE  OfSize(PutBool(t, b), SizeBool(b))
<1>1. <<>> \in Seq(Bytes) /\ Len(<<>>) = 0
  OBVIOUS
<1>2. <<t, 1>> \in Seq(Bytes) /\ Len(<<t, 1>>) = 2
  BY ByteSeq DEF Bytes
<1> QED
  BY <1>1, <1>2 DEF OfSize, PutBool, SizeBool

(* SizeBytes is what PutBytes writes.                                      *)
LEMMA OfSizeBytes ==
  ASSUME NEW t \in Tags, NEW s \in Seq(Bytes)
  PROVE  OfSize(PutBytes(t, s), SizeBytes(s))
<1>1. CASE s = <<>>
  <2>1. <<>> \in Seq(Bytes) /\ Len(<<>>) = 0
    OBVIOUS
  <2> QED
    BY <1>1, <2>1 DEF OfSize, PutBytes, SizeBytes
<1>2. CASE s # <<>>
  <2>1. PICK w : w = Tagged(t, s)
    OBVIOUS
  <2>2. w \in Seq(Bytes) /\ Len(w) = Delimited(Len(s))
    BY <2>1, TaggedSeq
  <2>3. PutBytes(t, s) = {w} /\ SizeBytes(s) = Len(w)
    BY <1>2, <2>1, <2>2 DEF PutBytes, SizeBytes
  <2> QED
    BY <2>2, <2>3, OfSizeOne
<1> QED
  BY <1>1, <1>2

(* The sizes of the entries of a map add up in any order.                   *)
EntrySizes(h) == [k \in DOMAIN h |-> Delimited(Delimited(Len(k)) + Delimited(Len(h[k])))]

(* An entry has the size that SizeMap adds for it.                         *)
LEMMA EntrySize ==
  ASSUME NEW t \in Tags, NEW h, IsMap(h), NEW k \in DOMAIN h
  PROVE  /\ EntrySizes(h)[k] \in Nat
         /\ Tagged(t, EntryOf(k, h[k])) \in Seq(Bytes)
         /\ Len(Tagged(t, EntryOf(k, h[k]))) = EntrySizes(h)[k]
         /\ Len(EntryOf(k, h[k])) <= EntrySizes(h)[k]
         /\ Len(EntryOf(k, h[k])) \in Nat
<1>1. PICK v : v = h[k]
  OBVIOUS
<1>2. k \in Seq(Bytes) /\ v \in Seq(Bytes) /\ 10 \in Tags /\ 18 \in Tags
  BY <1>1 DEF IsMap, Tags
<1>3. Len(Tagged(10, k)) = Delimited(Len(k)) /\ Len(Tagged(18, v)) = Delimited(Len(v))
  BY <1>2, TaggedSeq
<1>4. EntryOf(k, v) \in Seq(Bytes)
      /\ Len(EntryOf(k, v)) = Delimited(Len(k)) + Delimited(Len(v))
  BY <1>2, <1>3, EntrySeq
<1>5. PICK n : n = Delimited(Len(k)) + Delimited(Len(v))
  OBVIOUS
<1>6. Len(EntryOf(k, v)) = n /\ n \in Nat
  BY <1>4, <1>5
<1>7. /\ Tagged(t, EntryOf(k, v)) \in Seq(Bytes)
      /\ Len(Tagged(t, EntryOf(k, v))) = Delimited(n)
      /\ sovPacket(n) \in Nat
  BY <1>4, <1>6, TaggedSeq
<1>8. EntrySizes(h)[k] = Delimited(n)
  BY <1>1, <1>5 DEF EntrySizes
<1>9. n <= Delimited(n) /\ Delimited(n) \in Nat
  BY <1>6, <1>7 DEF Delimited
<1> QED
  BY <1>1, <1>6, <1>7, <1>8, <1>9

(* SizeMap adds up, key by key.                                            *)
LEMMA MapSum ==
  ASSUME NEW h, IsMap(h)
  PROVE  \E W \in [SUBSET DOMAIN h -> Nat] :
           /\ W[{}] = 0 /\ SizeMap(h) = W[DOMAIN h]
           /\ \A s \in SUBSET DOMAIN h : \A k \in DOMAIN h \ s :
                W[s \cup {k}] = W[s] + EntrySizes(h)[k]
<1>1. EntrySizes(h) \in [DOMAIN h -> Nat]
  <2>1. \A k \in DOMAIN h : EntrySizes(h)[k] \in Nat
    <3>1. 10 \in Tags
      BY DEF Tags
    <3> QED
      BY <3>1, EntrySize
  <2>2. EntrySizes(h) = [k \in DOMAIN h |-> EntrySizes(h)[k]]
    BY DEF EntrySizes
  <2>3. PICK f : f = EntrySizes(h)
    OBVIOUS
  <2> QED
    BY <2>1, <2>2, <2>3
<1>2. SizeMap(h) = SumFunction(EntrySizes(h))
  BY DEF SizeMap, EntrySizes
<1>3. IsFiniteSet(DOMAIN h)
  BY DEF IsMap
<1>4. NatOn(DOMAIN h, EntrySizes(h))
  BY <1>1 DEF NatOn
<1>5. PICK W : AddsUp(DOMAIN h, EntrySizes(h), W)
  BY <1>3, <1>4, SumAdds
<1>6. /\ W \in [SUBSET DOMAIN h -> Nat]
      /\ W[{}] = 0 /\ SizeMap(h) = W[DOMAIN h]
      /\ \A s \in SUBSET DOMAIN h : \A k \in DOMAIN h \ s :
           W[s \cup {k}] = W[s] + EntrySizes(h)[k]
  BY <1>2, <1>5 DEF AddsUp
<1> QED
  BY <1>6

LEMMA FitsUpTo ==
  ASSUME NEW a \in Nat, NEW b \in Nat, a <= b, Fits(b)
  PROVE  Fits(a)
<1>1. WordBits - 1 \in 0 .. WordBits + 7
  BY WordBitsAssumption DEF WordBitsAssumption
<1>2. Pow2[WordBits - 1] \in Nat
  BY <1>1, Pow2Nat
<1> QED
  BY <1>2 DEF Fits

(* If a map fits, each of its entries does.                                *)
LEMMA EntriesFit ==
  ASSUME NEW h, IsMap(h), Fits(SizeMap(h))
  PROVE  FitMap(h)
<1>1. PICK W \in [SUBSET DOMAIN h -> Nat] :
         /\ SizeMap(h) = W[DOMAIN h]
         /\ \A s \in SUBSET DOMAIN h : \A k \in DOMAIN h \ s :
              W[s \cup {k}] = W[s] + EntrySizes(h)[k]
  BY MapSum
<1>2. ASSUME NEW k \in DOMAIN h PROVE FitEntry(k, h[k])
  <2> DEFINE r == DOMAIN h \ {k}
  <2>1. r \in SUBSET DOMAIN h /\ k \in DOMAIN h \ r /\ r \cup {k} = DOMAIN h
    OBVIOUS
  <2> HIDE DEF r
  <2>2. W[DOMAIN h] = W[r] + EntrySizes(h)[k] /\ W[r] \in Nat
    BY <1>1, <2>1
  <2>3. 10 \in Tags
    BY DEF Tags
  <2>4. EntrySizes(h)[k] \in Nat /\ Len(EntryOf(k, h[k])) <= EntrySizes(h)[k]
        /\ Len(EntryOf(k, h[k])) \in Nat
    BY <2>3, EntrySize
  <2>5. PICK a, b, c : a = Len(EntryOf(k, h[k])) /\ b = EntrySizes(h)[k] /\ c = SizeMap(h)
    OBVIOUS
  <2>6. a \in Nat /\ c \in Nat /\ a <= c
    BY <1>1, <2>2, <2>4, <2>5
  <2> QED
    BY <2>5, <2>6, FitsUpTo DEF FitEntry
<1> QED
  BY <1>2 DEF FitMap

(* A finite set can be put in an order.                                    *)
LEMMA SomeOrder ==
  ASSUME NEW D, IsFiniteSet(D)
  PROVE  SetToSeqs(D) # {}
<1>1. PICK f : f \in Bijection(1 .. Cardinality(D), D)
  BY FS_CardinalityType DEF ExistsBijection
<1>2. f \in [1 .. Cardinality(D) -> D]
      /\ \A i, j \in 1 .. Cardinality(D) : i # j => f[i] # f[j]
  BY <1>1 DEF Bijection, Injection, IsInjective
<1>3. f \in SetToSeqs(D)
  BY <1>2 DEF SetToSeqs
<1> QED
  BY <1>3

(* SizeMap is what PutMap writes, in any order.                            *)
LEMMA OfSizeMap ==
  ASSUME NEW t \in Tags, NEW h, IsMap(h)
  PROVE  OfSize(PutMap(t, h), SizeMap(h))
<1>1. PICK W \in [SUBSET DOMAIN h -> Nat] :
         /\ W[{}] = 0 /\ SizeMap(h) = W[DOMAIN h]
         /\ \A s \in SUBSET DOMAIN h : \A k \in DOMAIN h \ s :
              W[s \cup {k}] = W[s] + EntrySizes(h)[k]
  BY MapSum
<1>2. SizeMap(h) \in Nat
  BY <1>1
<1>3. PutMap(t, h) # {}
  <2>1. SetToSeqs(DOMAIN h) # {}
    BY SomeOrder DEF IsMap
  <2> QED
    BY <2>1 DEF PutMap
<1>4. ASSUME NEW s \in PutMap(t, h) PROVE s \in Seq(Bytes) /\ Len(s) = SizeMap(h)
  <2>0. PICK n, ks, S, F : InPieces(t, h, s, n, ks, S, F)
    BY MapPieces
  <2>1. /\ n \in Nat /\ ks \in [1 .. n -> DOMAIN h]
        /\ S \in [1 .. n -> Seq(Bytes)] /\ F \in [0 .. n -> Seq(Bytes)]
        /\ \A i \in 1 .. n : S[i] = PieceOf(t, h, ks, i)
        /\ F[0] = <<>> /\ \A i \in 1 .. n : F[i] = F[i - 1] \o S[i]
        /\ s = F[n]
        /\ UpTo(ks, 0) = {} /\ UpTo(ks, n) = DOMAIN h
        /\ \A i \in 1 .. n : UpTo(ks, i) = UpTo(ks, i - 1) \cup {ks[i]} /\ ks[i] \notin UpTo(ks, i - 1)
        /\ \A j \in 0 .. n : UpTo(ks, j) \subseteq DOMAIN h
    BY <2>0 DEF InPieces
  <2> DEFINE P == {j \in Nat : j <= n => Len(F[j]) = W[UpTo(ks, j)]}
  <2>2. 0 \in P
    BY <1>1, <2>1
  <2>3. ASSUME NEW j \in Nat, j \in P PROVE j + 1 \in P
    <3> SUFFICES ASSUME j + 1 <= n PROVE Len(F[j + 1]) = W[UpTo(ks, j + 1)]
      OBVIOUS
    <3>1. j + 1 \in 1 .. n /\ (j + 1) - 1 = j /\ j \in 0 .. n /\ j <= n
      BY <2>1
    <3>2. Len(F[j]) = W[UpTo(ks, j)]
      BY <2>3, <3>1
    <3>3. PICK k, u : k = ks[j + 1] /\ u = UpTo(ks, j)
      OBVIOUS
    <3>4. /\ UpTo(ks, j + 1) = u \cup {k} /\ u \in SUBSET DOMAIN h /\ k \in DOMAIN h \ u
          /\ F[j + 1] = F[j] \o S[j + 1] /\ F[j] \in Seq(Bytes) /\ S[j + 1] \in Seq(Bytes)
          /\ S[j + 1] = Tagged(t, EntryOf(k, h[k]))
      BY <2>1, <3>1, <3>3 DEF PieceOf
    <3>5. Len(S[j + 1]) = EntrySizes(h)[k]
      BY <3>4, EntrySize
    <3>6. Len(F[j + 1]) = Len(F[j]) + Len(S[j + 1])
      BY <3>4, ConcatProperties
    <3> QED
      <4>1. W[u \cup {k}] = W[u] + EntrySizes(h)[k]
        BY <1>1, <3>4
      <4>2. Len(F[j]) = W[u] /\ UpTo(ks, j + 1) = u \cup {k}
        BY <3>2, <3>3, <3>4
      <4> QED
        BY <3>5, <3>6, <4>1, <4>2
  <2>4. n \in P
    <3> HIDE DEF P
    <3> QED
      BY <2>1, <2>2, <2>3, SetInduction
  <2> QED
    BY <1>1, <2>1, <2>4
<1> QED
  BY <1>2, <1>3, <1>4 DEF OfSize

-----------------------------------------------------------------------------
(* The messages.                                                            *)

(* Size is what is written, for each type of message.                      *)
LEMMA SizeRequestIs ==
  ASSUME NEW m, IsRequest(m)
  PROVE  OfSize(PutRequest(m), SizeRequest(m))
<1>1. /\ m.Sid \in Ints(WordBits)
      /\ m.RpcId \in Ints(WordBits)
      /\ IsMap(m.Headers)
      /\ m.Packet \in Seq(Bytes)
      /\ m.XXX_unrecognized = <<>>
  BY DEF IsRequest
<1>2. 8 \in Tags /\ 16 \in Tags /\ 26 \in Tags /\ 34 \in Tags
  BY DEF Tags
<1>3. WordBits \in 1 .. WordBits /\ Int32Bits \in 1 .. WordBits
  BY WordBitsAssumption, WidthsAssumption DEF WordBitsAssumption,
     WidthsAssumption
<1> DEFINE A == PutInt(8, m.Sid)
           B == PutInt(16, m.RpcId)
           C == PutMap(26, m.Headers)
           D == PutBytes(34, m.Packet)
           E == {m.XXX_unrecognized}
           a == SizeInt(m.Sid)
           b == SizeInt(m.RpcId)
           c == SizeMap(m.Headers)
           d == SizeBytes(m.Packet)
           e == Len(m.XXX_unrecognized)
<1>4. OfSize(A, a)
  BY <1>1, <1>2, <1>3, OfSizeInt
<1>5. OfSize(B, b)
  BY <1>1, <1>2, <1>3, OfSizeInt
<1>6. OfSize(C, c)
  BY <1>1, <1>2, <1>3, OfSizeMap
<1>7. OfSize(D, d)
  BY <1>1, <1>2, <1>3, OfSizeBytes
<1>8. OfSize(E, e)
  <2>1. m.XXX_unrecognized \in Seq(Bytes)
    BY <1>1
  <2> QED
    BY <2>1, OfSizeOne
<1>9. PutRequest(m) = A ++ B ++ C ++ D ++ E
  BY DEF PutRequest
<1>10. SizeRequest(m) = a + b + c + d + e
  BY DEF SizeRequest
<1> HIDE DEF A, B, C, D, E, a, b, c, d, e
<1>11. OfSize(A ++ B, a + b)
  BY <1>4, <1>5, OfSizeCat
<1>12. OfSize(A ++ B ++ C, a + b + c)
  BY <1>11, <1>6, OfSizeCat
<1>13. OfSize(A ++ B ++ C ++ D, a + b + c + d)
  BY <1>12, <1>7, OfSizeCat
<1>14. OfSize(A ++ B ++ C ++ D ++ E, a + b + c + d + e)
  BY <1>13, <1>8, OfSizeCat
<1> QED
  BY <1>9, <1>10, <1>14

LEMMA SizeResponseIs ==
  ASSUME NEW m, IsResponse(m)
  PROVE  OfSize(PutResponse(m), SizeResponse(m))
<1>1. /\ m.Sid \in Ints(WordBits)
      /\ IsMap(m.Headers)
      /\ m.Code \in Ints(Int32Bits)
      /\ m.Packet \in Seq(Bytes)
      /\ m.XXX_unrecognized = <<>>
  BY DEF IsResponse
<1>2. 8 \in Tags /\ 18 \in Tags /\ 24 \in Tags /\ 34 \in Tags
  BY DEF Tags
<1>3. WordBits \in 1 .. WordBits /\ Int32Bits \in 1 .. WordBits
  BY WordBitsAssumption, WidthsAssumption DEF WordBitsAssumption,
     WidthsAssumption
<1> DEFINE A == PutInt(8, m.Sid)
           B == PutMap(18, m.Headers)
           C == PutInt(24, m.Code)
           D == PutBytes(34, m.Packet)
           E == {m.XXX_unrecognized}
           a == SizeInt(m.Sid)
           b == SizeMap(m.Headers)
           c == SizeInt(m.Code)
           d == SizeBytes(m.Packet)
           e == Len(m.XXX_unrecognized)
<1>4. OfSize(A, a)
  BY <1>1, <1>2, <1>3, OfSizeInt
<1>5. OfSize(B, b)
  BY <1>1, <1>2, <1>3, OfSizeMap
<1>6. OfSize(C, c)
  BY <1>1, <1>2, <1>3, OfSizeInt
<1>7. OfSize(D, d)
  BY <1>1, <1>2, <1>3, OfSizeBytes
<1>8. OfSize(E, e)
  <2>1. m.XXX_unrecognized \in Seq(Bytes)
    BY <1>1
  <2> QED
    BY <2>1, OfSizeOne
<1>9. PutResponse(m) = A ++ B ++ C ++ D ++ E
  BY DEF PutResponse
<1>10. SizeResponse(m) = a + b + c + d + e
  BY DEF SizeResponse
<1> HIDE DEF A, B, C, D, E, a, b, c, d, e
<1>11. OfSize(A ++ B, a + b)
  BY <1>4, <1>5, OfSizeCat
<1>12. OfSize(A ++ B ++ C, a + b + c)
  BY <1>11, <1>6, OfSizeCat
<1>13. OfSize(A ++ B ++ C ++ D, a + b + c + d)
  BY <1>12, <1>7, OfSizeCat
<1>14. OfSize(A ++ B ++ C ++ D ++ E, a + b + c + d + e)
  BY <1>13, <1>8, OfSizeCat
<1> QED
  BY <1>9, <1>10, <1>14

LEMMA SizeCounterIs ==
  ASSUME NEW m, IsCounter(m)
  PROVE  OfSize(PutCounter(m), SizeCounter(m))
<1>1. /\ m.Method \in Seq(Bytes)
      /\ m.Code \in Seq(Bytes)
      /\ IsMap(m.Extra)
      /\ m.XXX_unrecognized = <<>>
  BY DEF IsCounter
<1>2. 10 \in Tags /\ 18 \in Tags /\ 26 \in Tags
  BY DEF Tags
<1>3. WordBits \in 1 .. WordBits /\ Int32Bits \in 1 .. WordBits
  BY WordBitsAssumption, WidthsAssumption DEF WordBitsAssumption,
     WidthsAssumption
<1> DEFINE A == PutBytes(10, m.Method)
           B == PutBytes(18, m.Code)
           C == PutMap(26, m.Extra)
           D == {m.XXX_unrecognized}
           a == SizeBytes(m.Method)
           b == SizeBytes(m.Code)
           c == SizeMap(m.Extra)
           d == Len(m.XXX_unrecognized)
<1>4. OfSize(A, a)
  BY <1>1, <1>2, <1>3, OfSizeBytes
<1>5. OfSize(B, b)
  BY <1>1, <1>2, <1>3, OfSizeBytes
<1>6. OfSize(C, c)
  BY <1>1, <1>2, <1>3, OfSizeMap
<1>7. OfSize(D, d)
  <2>1. m.XXX_unrecognized \in Seq(Bytes)
    BY <1>1
  <2> QED
    BY <2>1, OfSizeOne
<1>8. PutCounter(m) = A ++ B ++ C ++ D
  BY DEF PutCounter
<1>9. SizeCounter(m) = a + b + c + d
  BY DEF SizeCounter
<1> HIDE DEF A, B, C, D, a, b, c, d
<1>10. OfSize(A ++ B, a + b)
  BY <1>4, <1>5, OfSizeCat
<1>11. OfSize(A ++ B ++ C, a + b + c)
  BY <1>10, <1>6, OfSizeCat
<1>12. OfSize(A ++ B ++ C ++ D, a + b + c + d)
  BY <1>11, <1>7, OfSizeCat
<1> QED
  BY <1>8, <1>9, <1>12

LEMMA SizeGaugeIs ==
  ASSUME NEW m, IsGauge(m)
  PROVE  OfSize(PutGauge(m), SizeGauge(m))
<1>1. /\ m.Type \in Seq(Bytes)
      /\ m.Value \in Seq(Bytes)
      /\ m.Add \in Ints(WordBits)
      /\ m.Inc \in BOOLEAN
      /\ IsMap(m.Extra)
      /\ m.XXX_unrecognized = <<>>
  BY DEF IsGauge
<1>2. 10 \in Tags /\ 18 \in Tags /\ 24 \in Tags /\ 32 \in Tags /\ 42 \in Tags
  BY DEF Tags
<1>3. WordBits \in 1 .. WordBits /\ Int32Bits \in 1 .. WordBits
  BY WordBitsAssumption, WidthsAssumption DEF WordBitsAssumption,
     WidthsAssumption
<1> DEFINE A == PutBytes(10, m.Type)
           B == PutBytes(18, m.Value)
           C == PutInt(24, m.Add)
           D == PutBool(32, m.Inc)
           E == PutMap(42, m.Extra)
           F == {m.XXX_unrecognized}
           a == SizeBytes(m.Type)
           b == SizeBytes(m.Value)
           c == SizeInt(m.Add)
           d == SizeBool(m.Inc)
           e == SizeMap(m.Extra)
           f == Len(m.XXX_unrecognized)
<1>4. OfSize(A, a)
  BY <1>1, <1>2, <1>3, OfSizeBytes
<1>5. OfSize(B, b)
  BY <1>1, <1>2, <1>3, OfSizeBytes
<1>6. OfSize(C, c)
  BY <1>1, <1>2, <1>3, OfSizeInt
<1>7. OfSize(D, d)
  BY <1>1, <1>2, <1>3, OfSizeBool
<1>8. OfSize(E, e)
  BY <1>1, <1>2, <1>3, OfSizeMap
<1>9. OfSize(F, f)
  <2>1. m.XXX_unrecognized \in Seq(Bytes)
    BY <1>1
  <2> QED
    BY <2>1, OfSizeOne
<1>10. PutGauge(m) = A ++ B ++ C ++ D ++ E ++ F
  BY DEF PutGauge
<1>11. SizeGauge(m) = a + b + c + d + e + f
  BY DEF SizeGauge
<1> HIDE DEF A, B, C, D, E, F, a, b, c, d, e, f
<1>12. OfSize(A ++ B, a + b)
  BY <1>4, <1>5, OfSizeCat
<1>13. OfSize(A ++ B ++ C, a + b + c)
  BY <1>12, <1>6, OfSizeCat
<1>14. OfSize(A ++ B ++ C ++ D, a + b + c + d)
  BY <1>13, <1>7, OfSizeCat
<1>15. OfSize(A ++ B ++ C ++ D ++ E, a + b + c + d + e)
  BY <1>14, <1>8, OfSizeCat
<1>16. OfSize(A ++ B ++ C ++ D ++ E ++ F, a + b + c + d + e + f)
  BY <1>15, <1>9, OfSizeCat
<1> QED
  BY <1>10, <1>11, <1>16

LEMMA SizeSummaryIs ==
  ASSUME NEW m, IsSummary(m)
  PROVE  OfSize(PutSummary(m), SizeSummary(m))
<1>1. /\ m.Method \in Seq(Bytes)
      /\ IsMap(m.Extra)
      /\ m.XXX_unrecognized = <<>>
  BY DEF IsSummary
<1>2. 10 \in Tags /\ 18 \in Tags
  BY DEF Tags
<1>3. WordBits \in 1 .. WordBits /\ Int32Bits \in 1 .. WordBits
  BY WordBitsAssumption, WidthsAssumption DEF WordBitsAssumption,
     WidthsAssumption
<1> DEFINE A == PutBytes(10, m.Method)
           B == PutMap(18, m.Extra)
           C == {m.XXX_unrecognized}
           a == SizeBytes(m.Method)
           b == SizeMap(m.Extra)
           c == Len(m.XXX_unrecognized)
<1>4. OfSize(A, a)
  BY <1>1, <1>2, <1>3, OfSizeBytes
<1>5. OfSize(B, b)
  BY <1>1, <1>2, <1>3, OfSizeMap
<1>6. OfSize(C, c)
  <2>1. m.XXX_unrecognized \in Seq(Bytes)
    BY <1>1
  <2> QED
    BY <2>1, OfSizeOne
<1>7. PutSummary(m) = A ++ B ++ C
  BY DEF PutSummary
<1>8. SizeSummary(m) = a + b + c
  BY DEF SizeSummary
<1> HIDE DEF A, B, C, a, b, c
<1>9. OfSize(A ++ B, a + b)
  BY <1>4, <1>5, OfSizeCat
<1>10. OfSize(A ++ B ++ C, a + b + c)
  BY <1>9, <1>6, OfSizeCat
<1> QED
  BY <1>7, <1>8, <1>10

(* A message behind a pointer has the size that SizeOne says.              *)
LEMMA OfSizeOneCounter ==
  ASSUME NEW t \in Tags, NEW ms, IsOne(ms, IsCounter)
  PROVE  OfSize(PutOne(t, ms, PutCounter), SizeOne(ms, SizeCounter))
<1>1. CASE ms = <<>>
  <2>1. <<>> \in Seq(Bytes) /\ Len(<<>>) = 0
    OBVIOUS
  <2> QED
    BY <1>1, <2>1 DEF OfSize, PutOne, SizeOne
<1>2. CASE ms # <<>>
  <2>1. IsCounter(ms[1])
    BY <1>2 DEF IsOne
  <2>2. PICK P, n : P = PutCounter(ms[1]) /\ n = SizeCounter(ms[1])
    OBVIOUS
  <2>3. OfSize(P, n)
    BY <2>1, <2>2, SizeCounterIs
  <2>4. OfSize({Tagged(t, s) : s \in P}, Delimited(n))
    BY <2>3, OfSizeTagged
  <2>5. PutOne(t, ms, PutCounter) = {Tagged(t, s) : s \in P} /\ SizeOne(ms, SizeCounter) = Delimited(n)
    BY <1>2, <2>2 DEF PutOne, SizeOne
  <2> QED
    BY <2>4, <2>5
<1> QED
  BY <1>1, <1>2

LEMMA OfSizeOneGauge ==
  ASSUME NEW t \in Tags, NEW ms, IsOne(ms, IsGauge)
  PROVE  OfSize(PutOne(t, ms, PutGauge), SizeOne(ms, SizeGauge))
<1>1. CASE ms = <<>>
  <2>1. <<>> \in Seq(Bytes) /\ Len(<<>>) = 0
    OBVIOUS
  <2> QED
    BY <1>1, <2>1 DEF OfSize, PutOne, SizeOne
<1>2. CASE ms # <<>>
  <2>1. IsGauge(ms[1])
    BY <1>2 DEF IsOne
  <2>2. PICK P, n : P = PutGauge(ms[1]) /\ n = SizeGauge(ms[1])
    OBVIOUS
  <2>3. OfSize(P, n)
    BY <2>1, <2>2, SizeGaugeIs
  <2>4. OfSize({Tagged(t, s) : s \in P}, Delimited(n))
    BY <2>3, OfSizeTagged
  <2>5. PutOne(t, ms, PutGauge) = {Tagged(t, s) : s \in P} /\ SizeOne(ms, SizeGauge) = Delimited(n)
    BY <1>2, <2>2 DEF PutOne, SizeOne
  <2> QED
    BY <2>4, <2>5
<1> QED
  BY <1>1, <1>2

LEMMA OfSizeOneSummary ==
  ASSUME NEW t \in Tags, NEW ms, IsOne(ms, IsSummary)
  PROVE  OfSize(PutOne(t, ms, PutSummary), SizeOne(ms, SizeSummary))
<1>1. CASE ms = <<>>
  <2>1. <<>> \in Seq(Bytes) /\ Len(<<>>) = 0
    OBVIOUS
  <2> QED
    BY <1>1, <2>1 DEF OfSize, PutOne, SizeOne
<1>2. CASE ms # <<>>
  <2>1. IsSummary(ms[1])
    BY <1>2 DEF IsOne
  <2>2. PICK P, n : P = PutSummary(ms[1]) /\ n = SizeSummary(ms[1])
    OBVIOUS
  <2>3. OfSize(P, n)
    BY <2>1, <2>2, SizeSummaryIs
  <2>4. OfSize({Tagged(t, s) : s \in P}, Delimited(n))
    BY <2>3, OfSizeTagged
  <2>5. PutOne(t, ms, PutSummary) = {Tagged(t, s) : s \in P} /\ SizeOne(ms, SizeSummary) = Delimited(n)
    BY <1>2, <2>2 DEF PutOne, SizeOne
  <2> QED
    BY <2>4, <2>5
<1> QED
  BY <1>1, <1>2

LEMMA SizeMetricIs ==
  ASSUME NEW m, IsMetric(m)
  PROVE  OfSize(PutMetric(m), SizeMetric(m))
<1>1. /\ m.Type \in Ints(Int32Bits)
      /\ IsOne(m.Counter, IsCounter)
      /\ IsOne(m.Gauge, IsGauge)
      /\ IsOne(m.Summary, IsSummary)
      /\ m.Host \in Seq(Bytes)
      /\ m.Micro \in Ints(WordBits)
      /\ m.Svrname \in Seq(Bytes)
      /\ IsMap(m.Extra)
      /\ m.XXX_unrecognized = <<>>
  BY DEF IsMetric
<1>2. 8 \in Tags /\ 18 \in Tags /\ 26 \in Tags /\ 34 \in Tags /\ 42 \in Tags /\ 48 \in Tags /\ 58 \in Tags /\ 66 \in Tags
  BY DEF Tags
<1>3. WordBits \in 1 .. WordBits /\ Int32Bits \in 1 .. WordBits
  BY WordBitsAssumption, WidthsAssumption DEF WordBitsAssumption,
     WidthsAssumption
<1> DEFINE A == PutInt(8, m.Type)
           B == PutOne(18, m.Counter, PutCounter)
           C == PutOne(26, m.Gauge, PutGauge)
           D == PutOne(34, m.Summary, PutSummary)
           E == PutBytes(42, m.Host)
           F == PutInt(48, m.Micro)
           G == PutBytes(58, m.Svrname)
           H == PutMap(66, m.Extra)
           I == {m.XXX_unrecognized}
           a == SizeInt(m.Type)
           b == SizeOne(m.Counter, SizeCounter)
           c == SizeOne(m.Gauge, SizeGauge)
           d == SizeOne(m.Summary, SizeSummary)
           e == SizeBytes(m.Host)
           f == SizeInt(m.Micro)
           g == SizeBytes(m.Svrname)
           h == SizeMap(m.Extra)
           i == Len(m.XXX_unrecognized)
<1>4. OfSize(A, a)
  BY <1>1, <1>2, <1>3, OfSizeInt
<1>5. OfSize(B, b)
  BY <1>1, <1>2, <1>3, OfSizeOneCounter
<1>6. OfSize(C, c)
  BY <1>1, <1>2, <1>3, OfSizeOneGauge
<1>7. OfSize(D, d)
  BY <1>1, <1>2, <1>3, OfSizeOneSummary
<1>8. OfSize(E, e)
  BY <1>1, <1>2, <1>3, OfSizeBytes
<1>9. OfSize(F, f)
  BY <1>1, <1>2, <1>3, OfSizeInt
<1>10. OfSize(G, g)
  BY <1>1, <1>2, <1>3, OfSizeBytes
<1>11. OfSize(H, h)
  BY <1>1, <1>2, <1>3, OfSizeMap
<1>12. OfSize(I, i)
  <2>1. m.XXX_unrecognized \in Seq(Bytes)
    BY <1>1
  <2> QED
    BY <2>1, OfSizeOne
<1>13. PutMetric(m) = A ++ B ++ C ++ D ++ E ++ F ++ G ++ H ++ I
  BY DEF PutMetric
<1>14. SizeMetric(m) = a + b + c + d + e + f + g + h + i
  BY DEF SizeMetric
<1> HIDE DEF A, B, C, D, E, F, G, H, I, a, b, c, d, e, f, g, h, i
<1>15. OfSize(A ++ B, a + b)
  BY <1>4, <1>5, OfSizeCat
<1>16. OfSize(A ++ B ++ C, a + b + c)
  BY <1>15, <1>6, OfSizeCat
<1>17. OfSize(A ++ B ++ C ++ D, a + b + c + d)
  BY <1>16, <1>7, OfSizeCat
<1>18. OfSize(A ++ B ++ C ++ D ++ E, a + b + c + d + e)
  BY <1>17, <1>8, OfSizeCat
<1>19. OfSize(A ++ B ++ C ++ D ++ E ++ F, a + b + c + d + e + f)
  BY <1>18, <1>9, OfSizeCat
<1>20. OfSize(A ++ B ++ C ++ D ++ E ++ F ++ G, a + b + c + d + e + f + g)
  BY <1>19, <1>10, OfSizeCat
<1>21. OfSize(A ++ B ++ C ++ D ++ E ++ F ++ G ++ H, a + b + c + d + e + f + g + h)
  BY <1>20, <1>11, OfSizeCat
<1>22. OfSize(A ++ B ++ C ++ D ++ E ++ F ++ G ++ H ++ I, a + b + c + d + e + f + g + h + i)
  BY <1>21, <1>12, OfSizeCat
<1> QED
  BY <1>13, <1>14, <1>22

-----------------------------------------------------------------------------
(* A batch, metric by metric.                                               *)

EachSizes(ms) == [i \in DOMAIN ms |-> Delimited(SizeMetric(ms[i]))]

IsBatch(ms, n) ==
  /\ n \in Nat /\ DOMAIN ms = 1 .. n /\ ms = [i \in 1 .. n |-> ms[i]]
  /\ \A i \in 1 .. n : IsMetric(ms[i])

(* The metrics of a batch are a sequence of metrics.                       *)
LEMMA BatchOf ==
  ASSUME NEW m, IsMetrics(m)
  PROVE  IsBatch(m.Lists, Len(m.Lists)) /\ m.XXX_unrecognized = <<>>
<1>1. PICK ms : ms = m.Lists
  OBVIOUS
<1>2. PICK A : ms \in Seq(A)
  BY <1>1 DEF IsMetrics
<1>3. Len(ms) \in Nat /\ DOMAIN ms = 1 .. Len(ms) /\ ms = [i \in 1 .. Len(ms) |-> ms[i]]
  BY <1>2
<1>4. (\A i \in 1 .. Len(ms) : IsMetric(ms[i])) /\ m.XXX_unrecognized = <<>>
  BY <1>1 DEF IsMetrics
<1> QED
  BY <1>1, <1>3, <1>4 DEF IsBatch

(* One of a batch has the size that SizeEach adds for it.                  *)
LEMMA EachSize ==
  ASSUME NEW ms, NEW n, IsBatch(ms, n), NEW i \in 1 .. n
  PROVE  /\ OfSize(PutMetric(ms[i]), SizeMetric(ms[i]))
         /\ SizeMetric(ms[i]) \in Nat
         /\ EachSizes(ms)[i] = Delimited(SizeMetric(ms[i]))
         /\ EachSizes(ms)[i] \in Nat
         /\ SizeMetric(ms[i]) <= EachSizes(ms)[i]
<1>1. OfSize(PutMetric(ms[i]), SizeMetric(ms[i])) /\ i \in DOMAIN ms
  BY SizeMetricIs DEF IsBatch
<1>2. PICK k : k = SizeMetric(ms[i])
  OBVIOUS
<1>3. PICK s \in Seq(Bytes) : Len(s) = k /\ k \in Nat
  BY <1>1, <1>2 DEF OfSize
<1>4. 10 \in Tags
  BY DEF Tags
<1>5. sovPacket(k) \in Nat
  BY <1>3, <1>4, TaggedSeq
<1>6. Delimited(k) \in Nat /\ k <= Delimited(k)
  BY <1>3, <1>5 DEF Delimited
<1>7. EachSizes(ms)[i] = Delimited(k)
  BY <1>1, <1>2 DEF EachSizes
<1> QED
  BY <1>1, <1>2, <1>3, <1>6, <1>7

(* SizeEach adds up, metric by metric.                                     *)
LEMMA EachSum ==
  ASSUME NEW ms, NEW n, IsBatch(ms, n)
  PROVE  /\ \E W : AddsUp(1 .. n, EachSizes(ms), W)
         /\ SizeEach(ms, SizeMetric) = SumFunction(EachSizes(ms))
<1>1. IsFiniteSet(1 .. n)
  <2>1. n \in Int /\ 1 \in Int
    BY DEF IsBatch
  <2> QED
    BY <2>1, FS_Interval
<1>2. SizeEach(ms, SizeMetric) = SumFunction(EachSizes(ms))
  BY DEF SizeEach, EachSizes
<1>3. NatOn(1 .. n, EachSizes(ms))
  <2>1. \A i \in 1 .. n : EachSizes(ms)[i] \in Nat
    BY EachSize
  <2>2. EachSizes(ms) = [i \in 1 .. n |-> EachSizes(ms)[i]]
    BY DEF EachSizes, IsBatch
  <2>3. PICK f : f = EachSizes(ms)
    OBVIOUS
  <2> QED
    BY <2>1, <2>2, <2>3 DEF NatOn
<1>4. \E W : AddsUp(1 .. n, EachSizes(ms), W)
  BY <1>1, <1>3, SumAdds
<1> QED
  BY <1>2, <1>4

(* If a batch fits, each of its metrics does.                              *)
LEMMA EachFits ==
  ASSUME NEW ms, NEW n, IsBatch(ms, n), Fits(SizeEach(ms, SizeMetric)), NEW i \in 1 .. n
  PROVE  Fits(SizeMetric(ms[i]))
<1>0. PICK W : AddsUp(1 .. n, EachSizes(ms), W)
  BY EachSum
<1>1. /\ W \in [SUBSET (1 .. n) -> Nat]
      /\ SizeEach(ms, SizeMetric) = W[1 .. n]
      /\ \A s \in SUBSET (1 .. n) : \A k \in (1 .. n) \ s :
           W[s \cup {k}] = W[s] + EachSizes(ms)[k]
  BY <1>0, EachSum DEF AddsUp
<1> DEFINE r == (1 .. n) \ {i}
<1>2. r \in SUBSET (1 .. n) /\ i \in (1 .. n) \ r /\ r \cup {i} = 1 .. n
  OBVIOUS
<1> HIDE DEF r
<1>3. W[1 .. n] = W[r] + EachSizes(ms)[i] /\ W[r] \in Nat
  BY <1>1, <1>2
<1>4. SizeMetric(ms[i]) \in Nat /\ EachSizes(ms)[i] \in Nat /\ SizeMetric(ms[i]) <= EachSizes(ms)[i]
  BY EachSize
<1>5. PICK a, b, c : a = SizeMetric(ms[i]) /\ b = EachSizes(ms)[i] /\ c = SizeEach(ms, SizeMetric)
  OBVIOUS
<1>6. a \in Nat /\ c \in Nat /\ a <= c
  BY <1>1, <1>3, <1>4, <1>5
<1> QED
  BY <1>5, <1>6, FitsUpTo

InEach(ms, n, w, c, S, F) ==
  /\ n \in Nat
  /\ \A i \in 1 .. n : c[i] \in PutMetric(ms[i])
  /\ S \in [1 .. n -> Seq(Bytes)] /\ F \in [0 .. n -> Seq(Bytes)]
  /\ \A i \in 1 .. n : S[i] = Tagged(10, c[i]) /\ Len(S[i]) = EachSizes(ms)[i]
  /\ F[0] = <<>> /\ \A i \in 1 .. n : F[i] = F[i - 1] \o S[i]
  /\ w = F[n]
  /\ \A j \in 0 .. n : F[j] \in PutEach(10, First_(ms, j), PutMetric)

(* What PutEach writes is one metric after the other.                      *)
LEMMA EachPieces ==
  ASSUME NEW ms, NEW n, IsBatch(ms, n), NEW w \in PutEach(10, ms, PutMetric)
  PROVE  \E c, S, F : InEach(ms, n, w, c, S, F)
<1>0. n \in Nat /\ DOMAIN ms = 1 .. n
  BY DEF IsBatch
<1>1. PICK c : /\ c \in [1 .. n -> UNION {PutMetric(ms[i]) : i \in 1 .. n}]
               /\ \A i \in 1 .. n : c[i] \in PutMetric(ms[i])
               /\ w = FlattenSeq([i \in 1 .. n |-> Tagged(10, c[i])])
  BY <1>0 DEF PutEach
<1> DEFINE S == [i \in 1 .. n |-> Tagged(10, c[i])]
<1>2. ASSUME NEW i \in 1 .. n
      PROVE  Tagged(10, c[i]) \in Seq(Bytes) /\ Len(Tagged(10, c[i])) = EachSizes(ms)[i]
  <2>1. c[i] \in Seq(Bytes) /\ Len(c[i]) = SizeMetric(ms[i])
    BY <1>1, EachSize DEF OfSize
  <2>2. 10 \in Tags
    BY DEF Tags
  <2>3. EachSizes(ms)[i] = Delimited(SizeMetric(ms[i]))
    BY EachSize
  <2> QED
    BY <2>1, <2>2, <2>3, TaggedSeq
<1>3. S \in [1 .. n -> Seq(Bytes)] /\ \A i \in 1 .. n : S[i] = Tagged(10, c[i])
  BY <1>2
<1>4. w = FlattenSeq(S)
  BY <1>1
<1> HIDE DEF S
<1>5. PICK F \in [0 .. n -> Seq(Bytes)] :
        /\ F[0] = <<>>
        /\ \A i \in 1 .. n : F[i] = F[i - 1] \o S[i]
        /\ \A j \in 0 .. n : F[j] = FlattenSeq(First_(S, j))
        /\ F[n] = FlattenSeq(S)
  BY <1>0, <1>3, FlattenExists
<1>6. \A j \in 0 .. n : F[j] \in PutEach(10, First_(ms, j), PutMetric)
  <2> TAKE j \in 0 .. n
  <2> DEFINE g == First_(ms, j)
             cj == First_(c, j)
             I == 1 .. j
  <2>1. DOMAIN g = I /\ \A i \in I : i \in 1 .. n /\ g[i] = ms[i] /\ cj[i] = c[i]
    BY <1>0 DEF First_
  <2>2. \A i \in I : cj[i] \in PutMetric(g[i])
    BY <1>1, <2>1
  <2>3. cj = [i \in I |-> cj[i]]
    BY DEF First_
  <2> HIDE DEF g, cj, I
  <2>4. cj \in [I -> UNION {PutMetric(g[i]) : i \in I}]
    <3>1. \A i \in I : cj[i] \in UNION {PutMetric(g[k]) : k \in I}
      BY <2>2
    <3> QED
      BY <2>3, <3>1
  <2>5. FlattenSeq([i \in I |-> Tagged(10, cj[i])]) \in PutEach(10, g, PutMetric)
    BY <2>1, <2>2, <2>4 DEF PutEach
  <2>6. [i \in I |-> Tagged(10, cj[i])] = First_(S, j)
    <3>1. \A i \in I : Tagged(10, cj[i]) = S[i]
      BY <1>3, <2>1
    <3> QED
      BY <3>1 DEF First_, I
  <2>7. F[j] = FlattenSeq([i \in I |-> Tagged(10, cj[i])])
    BY <1>5, <2>6
  <2> QED
    BY <2>5, <2>7 DEF g
<1>7. InEach(ms, n, w, c, S, F)
  BY <1>0, <1>1, <1>2, <1>3, <1>4, <1>5, <1>6 DEF InEach
<1> QED
  BY <1>7

(* SizeEach is what PutEach writes.                                        *)
LEMMA SizeEachIs ==
  ASSUME NEW ms, NEW n, IsBatch(ms, n)
  PROVE  OfSize(PutEach(10, ms, PutMetric), SizeEach(ms, SizeMetric))
<1>0. n \in Nat /\ DOMAIN ms = 1 .. n
  BY DEF IsBatch
<1>5. PICK W : AddsUp(1 .. n, EachSizes(ms), W)
  BY EachSum
<1>1. /\ W \in [SUBSET (1 .. n) -> Nat]
      /\ W[{}] = 0 /\ SizeEach(ms, SizeMetric) = W[1 .. n]
      /\ \A s \in SUBSET (1 .. n) : \A i \in (1 .. n) \ s :
           W[s \cup {i}] = W[s] + EachSizes(ms)[i]
  BY <1>5, EachSum DEF AddsUp
<1>2. SizeEach(ms, SizeMetric) \in Nat
  BY <1>1
<1>3. PutEach(10, ms, PutMetric) # {}
  <2> DEFINE I == 1 .. n
             c == [i \in I |-> CHOOSE s \in PutMetric(ms[i]) : TRUE]
  <2>1. \A i \in I : c[i] \in PutMetric(ms[i])
    BY EachSize DEF OfSize
  <2>2. c = [i \in I |-> c[i]]
    OBVIOUS
  <2> HIDE DEF I, c
  <2>3. c \in [I -> UNION {PutMetric(ms[i]) : i \in I}]
    <3>1. \A i \in I : c[i] \in UNION {PutMetric(ms[k]) : k \in I}
      BY <2>1
    <3> QED
      BY <2>2, <3>1
  <2>4. DOMAIN ms = I
    BY <1>0 DEF I
  <2>5. FlattenSeq([i \in I |-> Tagged(10, c[i])]) \in PutEach(10, ms, PutMetric)
    BY <2>1, <2>3, <2>4 DEF PutEach
  <2> QED
    BY <2>5
<1>4. ASSUME NEW w \in PutEach(10, ms, PutMetric)
      PROVE  w \in Seq(Bytes) /\ Len(w) = SizeEach(ms, SizeMetric)
  <2>1. PICK c, S, F : InEach(ms, n, w, c, S, F)
    BY EachPieces
  <2>2. /\ S \in [1 .. n -> Seq(Bytes)] /\ F \in [0 .. n -> Seq(Bytes)]
        /\ \A i \in 1 .. n : Len(S[i]) = EachSizes(ms)[i]
        /\ F[0] = <<>> /\ \A i \in 1 .. n : F[i] = F[i - 1] \o S[i]
        /\ w = F[n]
    BY <2>1 DEF InEach
  <2> DEFINE P == {j \in Nat : j <= n => Len(F[j]) = W[1 .. j]}
  <2>3. 0 \in P
    <3>1. 1 .. 0 = {} /\ Len(<<>>) = 0
      OBVIOUS
    <3> QED
      BY <1>1, <2>2, <3>1
  <2>4. ASSUME NEW j \in Nat, j \in P PROVE j + 1 \in P
    <3> SUFFICES ASSUME j + 1 <= n PROVE Len(F[j + 1]) = W[1 .. j + 1]
      OBVIOUS
    <3>1. j + 1 \in 1 .. n /\ (j + 1) - 1 = j /\ j \in 0 .. n /\ j <= n
      BY <1>0
    <3>2. Len(F[j]) = W[1 .. j]
      BY <2>4, <3>1
    <3>8. 1 .. j + 1 = (1 .. j) \cup {j + 1} /\ j + 1 \notin 1 .. j
      OBVIOUS
    <3>9. 1 .. j \subseteq 1 .. n
      BY <1>0, <3>1
    <3>3. PICK u : u = 1 .. j
      OBVIOUS
    <3>4. u \in SUBSET (1 .. n) /\ j + 1 \in (1 .. n) \ u /\ 1 .. j + 1 = u \cup {j + 1}
      BY <3>1, <3>3, <3>8, <3>9
    <3>5. W[u \cup {j + 1}] = W[u] + EachSizes(ms)[j + 1]
      BY <1>1, <3>4
    <3>6. Len(F[j + 1]) = Len(F[j]) + Len(S[j + 1])
      <4>1. F[j] \in Seq(Bytes) /\ S[j + 1] \in Seq(Bytes) /\ F[j + 1] = F[j] \o S[j + 1]
        BY <2>2, <3>1
      <4> QED
        BY <4>1, ConcatProperties
    <3>7. Len(S[j + 1]) = EachSizes(ms)[j + 1]
      BY <2>2, <3>1
    <3> QED
      BY <3>2, <3>3, <3>4, <3>5, <3>6, <3>7
  <2>5. n \in P
    <3> HIDE DEF P
    <3> QED
      BY <1>0, <2>3, <2>4, SetInduction
  <2> QED
    BY <1>0, <1>1, <2>2, <2>5
<1> QED
  BY <1>2, <1>3, <1>4 DEF OfSize

LEMMA SizeMetricsIs ==
  ASSUME NEW m, IsMetrics(m)
  PROVE  OfSize(PutMetrics(m), SizeMetrics(m))
<1>1. IsBatch(m.Lists, Len(m.Lists)) /\ m.XXX_unrecognized = <<>>
  BY BatchOf
<1> DEFINE A == PutEach(10, m.Lists, PutMetric)
           B == {m.XXX_unrecognized}
           a == SizeEach(m.Lists, SizeMetric)
           b == Len(m.XXX_unrecognized)
<1>2. OfSize(A, a)
  BY <1>1, SizeEachIs
<1>3. OfSize(B, b)
  <2>1. m.XXX_unrecognized \in Seq(Bytes)
    BY <1>1
  <2> QED
    BY <2>1, OfSizeOne
<1>4. PutMetrics(m) = A ++ B /\ SizeMetrics(m) = a + b
  BY DEF PutMetrics, SizeMetrics
<1> HIDE DEF A, B, a, b
<1> QED
  BY <1>2, <1>3, <1>4, OfSizeCat

-----------------------------------------------------------------------------
(* The buffer is full and nothing of it is lost.                            *)

(* In a buffer of exactly the size nothing is missing and nothing is left. *)
LEMMA SizedAll ==
  ASSUME NEW P, NEW n, OfSize(P, n)
  PROVE  Sized(n, P) = P
<1>1. ASSUME NEW s \in P
      PROVE  Len(s) <= n /\ SubSeq([i \in 1 .. n - Len(s) |-> 0] \o s, 1, Len(s)) = s
  <2>1. s \in Seq(Bytes) /\ Len(s) = n /\ n \in Nat /\ n - Len(s) = 0
    BY DEF OfSize
  <2>2. [i \in 1 .. n - Len(s) |-> 0] = <<>>
    BY <2>1
  <2>3. <<>> \o s = s
    BY <2>1, ConcatEmptySeq
  <2>4. SubSeq(s, 1, Len(s)) = s
    <3> DEFINE r == SubSeq(s, 1, Len(s))
    <3>1. r \in Seq(Bytes) /\ Len(r) = Len(s) /\ \A i \in 1 .. Len(s) : r[i] = s[i]
      BY <2>1
    <3> HIDE DEF r
    <3>2. r = s
      BY <2>1, <3>1, SeqEqual
    <3> QED
      BY <3>2 DEF r
  <2> QED
    BY <2>1, <2>2, <2>3, <2>4
<1> DEFINE G(s) == SubSeq([i \in 1 .. n - Len(s) |-> 0] \o s, 1, Len(s))
           Q == {s \in P : Len(s) <= n}
<1>2. Sized(n, P) = {G(s) : s \in Q}
  BY DEF Sized
<1>3. \A s \in P : s \in Q /\ G(s) = s
  BY <1>1
<1>4. Q \subseteq P
  OBVIOUS
<1> HIDE DEF G, Q
<1> QED
  BY <1>2, <1>3, <1>4

SizeBy(type, m) ==
  CASE type = "Request"  -> SizeRequest(m)
    [] type = "Response" -> SizeResponse(m)
    [] type = "Metrics"  -> SizeMetrics(m)

Types == {"Request", "Response", "Metrics"}

(* Size is exact: it is the number of bytes that every encoding of a       *)
(* message takes, in whatever order its maps come and however deep its     *)
(* messages are nested, so that the buffer Marshal fills from its end has  *)
(* room for all of them and no byte is left over in front.                 *)
THEOREM MarshalPuts ==
  ASSUME NEW type \in Types, NEW m, IsOf(type, m)
  PROVE  Marshal(type, m) = PutOf(type, m) /\ OfSize(PutOf(type, m), SizeBy(type, m))
<1>1. CASE type = "Request"
  <2>1. OfSize(PutRequest(m), SizeRequest(m))
    BY <1>1, SizeRequestIs DEF IsOf
  <2> QED
    BY <1>1, <2>1, SizedAll DEF Marshal, MarshalRequest, PutOf, SizeBy
<1>2. CASE type = "Response"
  <2>1. OfSize(PutResponse(m), SizeResponse(m))
    BY <1>2, SizeResponseIs DEF IsOf
  <2> QED
    BY <1>2, <2>1, SizedAll DEF Marshal, MarshalResponse, PutOf, SizeBy
<1>3. CASE type = "Metrics"
  <2>1. OfSize(PutMetrics(m), SizeMetrics(m))
    BY <1>3, SizeMetricsIs DEF IsOf
  <2> QED
    BY <1>3, <2>1, SizedAll DEF Marshal, MarshalMetrics, PutOf, SizeBy
<1> QED
  BY <1>1, <1>2, <1>3 DEF Types

-----------------------------------------------------------------------------
(* What a field does to a message.                                          *)

NewRequest(x1, x2, x3, x4, u) ==
  [Sid |-> x1, RpcId |-> x2, Headers |-> x3, Packet |-> x4,
   XXX_unrecognized |-> u]

NewResponse(x1, x2, x3, x4, u) ==
  [Sid |-> x1, Headers |-> x2, Code |-> x3, Packet |-> x4,
   XXX_unrecognized |-> u]

NewCounter(x1, x2, x3, u) ==
  [Method |-> x1, Code |-> x2, Extra |-> x3,
   XXX_unrecognized |-> u]

NewGauge(x1, x2, x3, x4, x5, u) ==
  [Type |-> x1, Value |-> x2, Add |-> x3, Inc |-> x4, Extra |-> x5,
   XXX_unrecognized |-> u]

NewSummary(x1, x2, u) ==
  [Method |-> x1, Extra |-> x2,
   XXX_unrecognized |-> u]

NewMetric(x1, x2, x3, x4, x5, x6, x7, x8, u) ==
  [Type |-> x1, Counter |-> x2, Gauge |-> x3, Summary |-> x4, Host |-> x5, Micro |-> x6, Svrname |-> x7, Extra |-> x8,
   XXX_unrecognized |-> u]

(* Each field of a message is put in without disturbing the others.        *)
LEMMA RequestFields ==
  ASSUME NEW x1, NEW x2, NEW x3, NEW x4, NEW u, NEW y, NEW buf, NEW f, f.num \in Int
  PROVE  /\ f.num = 1 /\ Only(Int64s(buf, f), y) =>
              Only(FieldBy("Request", NewRequest(x1, x2, x3, x4, u), buf, f), NewRequest(y, x2, x3, x4, u))
         /\ f.num = 2 /\ Only(Int64s(buf, f), y) =>
              Only(FieldBy("Request", NewRequest(x1, x2, x3, x4, u), buf, f), NewRequest(x1, y, x3, x4, u))
         /\ f.num = 3 /\ Only(Entries(x3, buf, f), y) =>
              Only(FieldBy("Request", NewRequest(x1, x2, x3, x4, u), buf, f), NewRequest(x1, x2, y, x4, u))
         /\ f.num = 4 /\ Only(Strings(buf, f), y) =>
              Only(FieldBy("Request", NewRequest(x1, x2, x3, x4, u), buf, f), NewRequest(x1, x2, x3, y, u))
         /\ f.num > 4 =>
              FieldBy("Request", NewRequest(x1, x2, x3, x4, u), buf, f) =
                {NewRequest(x1, x2, x3, x4, u \o SubSeq(buf, f.first, f.next - 1))}
<1>0. PICK m : m = NewRequest(x1, x2, x3, x4, u)
  OBVIOUS
<1>1. FieldBy("Request", m, buf, f) = RequestField(m, buf, f)
  BY DEF FieldBy
<1>2. ASSUME f.num = 1, Only(Int64s(buf, f), y)
      PROVE  Only(FieldBy("Request", NewRequest(x1, x2, x3, x4, u), buf, f), NewRequest(y, x2, x3, x4, u))
  <2>1. PICK S : S = Int64s(buf, f)
    OBVIOUS
  <2>2. S = {y} /\ m.Sid = x1
    BY <1>0, <1>2, <2>1 DEF Only, NewRequest
  <2>6. RequestField(m, buf, f) = {[m EXCEPT !.Sid = x] : x \in Int64s(buf, f)}
    BY <1>2 DEF RequestField
  <2>3. RequestField(m, buf, f) = {[m EXCEPT !.Sid = x] : x \in S}
    BY <2>1, <2>2, <2>6
  <2>4. RequestField(m, buf, f) = {[m EXCEPT !.Sid = y]}
    BY <2>2, <2>3
  <2>5. [m EXCEPT !.Sid = y] = NewRequest(y, x2, x3, x4, u)
    BY <1>0 DEF NewRequest
  <2> QED
    BY <1>0, <1>1, <2>4, <2>5 DEF Only
<1>3. ASSUME f.num = 2, Only(Int64s(buf, f), y)
      PROVE  Only(FieldBy("Request", NewRequest(x1, x2, x3, x4, u), buf, f), NewRequest(x1, y, x3, x4, u))
  <2>1. PICK S : S = Int64s(buf, f)
    OBVIOUS
  <2>2. S = {y} /\ m.RpcId = x2
    BY <1>0, <1>3, <2>1 DEF Only, NewRequest
  <2>6. RequestField(m, buf, f) = {[m EXCEPT !.RpcId = x] : x \in Int64s(buf, f)}
    BY <1>3 DEF RequestField
  <2>3. RequestField(m, buf, f) = {[m EXCEPT !.RpcId = x] : x \in S}
    BY <2>1, <2>2, <2>6
  <2>4. RequestField(m, buf, f) = {[m EXCEPT !.RpcId = y]}
    BY <2>2, <2>3
  <2>5. [m EXCEPT !.RpcId = y] = NewRequest(x1, y, x3, x4, u)
    BY <1>0 DEF NewRequest
  <2> QED
    BY <1>0, <1>1, <2>4, <2>5 DEF Only
<1>4. ASSUME f.num = 3, Only(Entries(x3, buf, f), y)
      PROVE  Only(FieldBy("Request", NewRequest(x1, x2, x3, x4, u), buf, f), NewRequest(x1, x2, y, x4, u))
  <2>1. PICK S : S = Entries(x3, buf, f)
    OBVIOUS
  <2>2. S = {y} /\ m.Headers = x3
    BY <1>0, <1>4, <2>1 DEF Only, NewRequest
  <2>6. RequestField(m, buf, f) = {[m EXCEPT !.Headers = x] : x \in Entries(m.Headers, buf, f)}
    BY <1>4 DEF RequestField
  <2>3. RequestField(m, buf, f) = {[m EXCEPT !.Headers = x] : x \in S}
    BY <2>1, <2>2, <2>6
  <2>4. RequestField(m, buf, f) = {[m EXCEPT !.Headers = y]}
    BY <2>2, <2>3
  <2>5. [m EXCEPT !.Headers = y] = NewRequest(x1, x2, y, x4, u)
    BY <1>0 DEF NewRequest
  <2> QED
    BY <1>0, <1>1, <2>4, <2>5 DEF Only
<1>5. ASSUME f.num = 4, Only(Strings(buf, f), y)
      PROVE  Only(FieldBy("Request", NewRequest(x1, x2, x3, x4, u), buf, f), NewRequest(x1, x2, x3, y, u))
  <2>1. PICK S : S = Strings(buf, f)
    OBVIOUS
  <2>2. S = {y} /\ m.Packet = x4
    BY <1>0, <1>5, <2>1 DEF Only, NewRequest
  <2>6. RequestField(m, buf, f) = {[m EXCEPT !.Packet = x] : x \in Strings(buf, f)}
    BY <1>5 DEF RequestField
  <2>3. RequestField(m, buf, f) = {[m EXCEPT !.Packet = x] : x \in S}
    BY <2>1, <2>2, <2>6
  <2>4. RequestField(m, buf, f) = {[m EXCEPT !.Packet = y]}
    BY <2>2, <2>3
  <2>5. [m EXCEPT !.Packet = y] = NewRequest(x1, x2, x3, y, u)
    BY <1>0 DEF NewRequest
  <2> QED
    BY <1>0, <1>1, <2>4, <2>5 DEF Only
<1>6. ASSUME f.num > 4
      PROVE  FieldBy("Request", NewRequest(x1, x2, x3, x4, u), buf, f) =
               {NewRequest(x1, x2, x3, x4, u \o SubSeq(buf, f.first, f.next - 1))}
  <2>1. RequestField(m, buf, f) = Unknown(m, buf, f)
    BY <1>6 DEF RequestField
  <2>2. PICK e : e = SubSeq(buf, f.first, f.next - 1)
    OBVIOUS
  <2>8. ~ (f.num <= 0)
    BY <1>6
  <2>9. Unknown(m, buf, f) = {[m EXCEPT !.XXX_unrecognized = @ \o SubSeq(buf, f.first, f.next - 1)]}
    BY <2>8, Zenon DEF Unknown
  <2>3. Unknown(m, buf, f) = {[m EXCEPT !.XXX_unrecognized = @ \o e]}
    BY <2>2, <2>9
  <2>5. PICK v : v = u \o e
    OBVIOUS
  <2>6. m.XXX_unrecognized \o e = v
    BY <1>0, <2>5 DEF NewRequest
  <2>7. [m EXCEPT !.XXX_unrecognized = v] = NewRequest(x1, x2, x3, x4, v)
    BY <1>0 DEF NewRequest
  <2>4. [m EXCEPT !.XXX_unrecognized = @ \o e] = NewRequest(x1, x2, x3, x4, u \o e)
    BY <2>5, <2>6, <2>7
  <2> QED
    BY <1>0, <1>1, <2>1, <2>2, <2>3, <2>4
<1> QED
  BY <1>2, <1>3, <1>4, <1>5, <1>6

LEMMA ResponseFields ==
  ASSUME NEW x1, NEW x2, NEW x3, NEW x4, NEW u, NEW y, NEW buf, NEW f, f.num \in Int
  PROVE  /\ f.num = 1 /\ Only(Int64s(buf, f), y) =>
              Only(FieldBy("Response", NewResponse(x1, x2, x3, x4, u), buf, f), NewResponse(y, x2, x3, x4, u))
         /\ f.num = 2 /\ Only(Entries(x2, buf, f), y) =>
              Only(FieldBy("Response", NewResponse(x1, x2, x3, x4, u), buf, f), NewResponse(x1, y, x3, x4, u))
         /\ f.num = 3 /\ Only(Int32s(buf, f), y) =>
              Only(FieldBy("Response", NewResponse(x1, x2, x3, x4, u), buf, f), NewResponse(x1, x2, y, x4, u))
         /\ f.num = 4 /\ Only(Strings(buf, f), y) =>
              Only(FieldBy("Response", NewResponse(x1, x2, x3, x4, u), buf, f), NewResponse(x1, x2, x3, y, u))
         /\ f.num > 4 =>
              FieldBy("Response", NewResponse(x1, x2, x3, x4, u), buf, f) =
                {NewResponse(x1, x2, x3, x4, u \o SubSeq(buf, f.first, f.next - 1))}
<1>0. PICK m : m = NewResponse(x1, x2, x3, x4, u)
  OBVIOUS
<1>1. FieldBy("Response", m, buf, f) = ResponseField(m, buf, f)
  BY DEF FieldBy
<1>2. ASSUME f.num = 1, Only(Int64s(buf, f), y)
      PROVE  Only(FieldBy("Response", NewResponse(x1, x2, x3, x4, u), buf, f), NewResponse(y, x2, x3, x4, u))
  <2>1. PICK S : S = Int64s(buf, f)
    OBVIOUS
  <2>2. S = {y} /\ m.Sid = x1
    BY <1>0, <1>2, <2>1 DEF Only, NewResponse
  <2>6. ResponseField(m, buf, f) = {[m EXCEPT !.Sid = x] : x \in Int64s(buf, f)}
    BY <1>2 DEF ResponseField
  <2>3. ResponseField(m, buf, f) = {[m EXCEPT !.Sid = x] : x \in S}
    BY <2>1, <2>2, <2>6
  <2>4. ResponseField(m, buf, f) = {[m EXCEPT !.Sid = y]}
    BY <2>2, <2>3
  <2>5. [m EXCEPT !.Sid = y] = NewResponse(y, x2, x3, x4, u)
    BY <1>0 DEF NewResponse
  <2> QED
    BY <1>0, <1>1, <2>4, <2>5 DEF Only
<1>3. ASSUME f.num = 2, Only(Entries(x2, buf, f), y)
      PROVE  Only(FieldBy("Response", NewResponse(x1, x2, x3, x4, u), buf, f), NewResponse(x1, y, x3, x4, u))
  <2>1. PICK S : S = Entries(x2, buf, f)
    OBVIOUS
  <2>2. S = {y} /\ m.Headers = x2
    BY <1>0, <1>3, <2>1 DEF Only, NewResponse
  <2>6. ResponseField(m, buf, f) = {[m EXCEPT !.Headers = x] : x \in Entries(m.Headers, buf, f)}
    BY <1>3 DEF ResponseField
  <2>3. ResponseField(m, buf, f) = {[m EXCEPT !.Headers = x] : x \in S}
    BY <2>1, <2>2, <2>6
  <2>4. ResponseField(m, buf, f) = {[m EXCEPT !.Headers = y]}
    BY <2>2, <2>3
  <2>5. [m EXCEPT !.Headers = y] = NewResponse(x1, y, x3, x4, u)
    BY <1>0 DEF NewResponse
  <2> QED
    BY <1>0, <1>1, <2>4, <2>5 DEF Only
<1>4. ASSUME f.num = 3, Only(Int32s(buf, f), y)
      PROVE  Only(FieldBy("Response", NewResponse(x1, x2, x3, x4, u), buf, f), NewResponse(x1, x2, y, x4, u))
  <2>1. PICK S : S = Int32s(buf, f)
    OBVIOUS
  <2>2. S = {y} /\ m.Code = x3
    BY <1>0, <1>4, <2>1 DEF Only, NewResponse
  <2>6. ResponseField(m, buf, f) = {[m EXCEPT !.Code = x] : x \in Int32s(buf, f)}
    BY <1>4 DEF ResponseField
  <2>3. ResponseField(m, buf, f) = {[m EXCEPT !.Code = x] : x \in S}
    BY <2>1, <2>2, <2>6
  <2>4. ResponseField(m, buf, f) = {[m EXCEPT !.Code = y]}
    BY <2>2, <2>3
  <2>5. [m EXCEPT !.Code = y] = NewResponse(x1, x2, y, x4, u)
    BY <1>0 DEF NewResponse
  <2> QED
    BY <1>0, <1>1, <2>4, <2>5 DEF Only
<1>5. ASSUME f.num = 4, Only(Strings(buf, f), y)
      PROVE  Only(FieldBy("Response", NewResponse(x1, x2, x3, x4, u), buf, f), NewResponse(x1, x2, x3, y, u))
  <2>1. PICK S : S = Strings(buf, f)
    OBVIOUS
  <2>2. S = {y} /\ m.Packet = x4
    BY <1>0, <1>5, <2>1 DEF Only, NewResponse
  <2>6. ResponseField(m, buf, f) = {[m EXCEPT !.Packet = x] : x \in Strings(buf, f)}
    BY <1>5 DEF ResponseField
  <2>3. ResponseField(m, buf, f) = {[m EXCEPT !.Packet = x] : x \in S}
    BY <2>1, <2>2, <2>6
  <2>4. ResponseField(m, buf, f) = {[m EXCEPT !.Packet = y]}
    BY <2>2, <2>3
  <2>5. [m EXCEPT !.Packet = y] = NewResponse(x1, x2, x3, y, u)
    BY <1>0 DEF NewResponse
  <2> QED
    BY <1>0, <1>1, <2>4, <2>5 DEF Only
<1>6. ASSUME f.num > 4
      PROVE  FieldBy("Response", NewResponse(x1, x2, x3, x4, u), buf, f) =
               {NewResponse(x1, x2, x3, x4, u \o SubSeq(buf, f.first, f.next - 1))}
  <2>1. ResponseField(m, buf, f) = Unknown(m, buf, f)
    BY <1>6 DEF ResponseField
  <2>2. PICK e : e = SubSeq(buf, f.first, f.next - 1)
    OBVIOUS
  <2>8. ~ (f.num <= 0)
    BY <1>6
  <2>9. Unknown(m, buf, f) = {[m EXCEPT !.XXX_unrecognized = @ \o SubSeq(buf, f.first, f.next - 1)]}
    BY <2>8, Zenon DEF Unknown
  <2>3. Unknown(m, buf, f) = {[m EXCEPT !.XXX_unrecognized = @ \o e]}
    BY <2>2, <2>9
  <2>5. PICK v : v = u \o e
    OBVIOUS
  <2>6. m.XXX_unrecognized \o e = v
    BY <1>0, <2>5 DEF NewResponse
  <2>7. [m EXCEPT !.XXX_unrecognized = v] = NewResponse(x1, x2, x3, x4, v)
    BY <1>0 DEF NewResponse
  <2>4. [m EXCEPT !.XXX_unrecognized = @ \o e] = NewResponse(x1, x2, x3, x4, u \o e)
    BY <2>5, <2>6, <2>7
  <2> QED
    BY <1>0, <1>1, <2>1, <2>2, <2>3, <2>4
<1> QED
  BY <1>2, <1>3, <1>4, <1>5, <1>6

LEMMA CounterFields ==
  ASSUME NEW x1, NEW x2, NEW x3, NEW u, NEW y, NEW buf, NEW f, f.num \in Int
  PROVE  /\ f.num = 1 /\ Only(Strings(buf, f), y) =>
              Only(FieldBy("Counter", NewCounter(x1, x2, x3, u), buf, f), NewCounter(y, x2, x3, u))
         /\ f.num = 2 /\ Only(Strings(buf, f), y) =>
              Only(FieldBy("Counter", NewCounter(x1, x2, x3, u), buf, f), NewCounter(x1, y, x3, u))
         /\ f.num = 3 /\ Only(Entries(x3, buf, f), y) =>
              Only(FieldBy("Counter", NewCounter(x1, x2, x3, u), buf, f), NewCounter(x1, x2, y, u))
         /\ f.num > 3 =>
              FieldBy("Counter", NewCounter(x1, x2, x3, u), buf, f) =
                {NewCounter(x1, x2, x3, u \o SubSeq(buf, f.first, f.next - 1))}
<1>0. PICK m : m = NewCounter(x1, x2, x3, u)
  OBVIOUS
<1>1. FieldBy("Counter", m, buf, f) = CounterField(m, buf, f)
  BY DEF FieldBy
<1>2. ASSUME f.num = 1, Only(Strings(buf, f), y)
      PROVE  Only(FieldBy("Counter", NewCounter(x1, x2, x3, u), buf, f), NewCounter(y, x2, x3, u))
  <2>1. PICK S : S = Strings(buf, f)
    OBVIOUS
  <2>2. S = {y} /\ m.Method = x1
    BY <1>0, <1>2, <2>1 DEF Only, NewCounter
  <2>6. CounterField(m, buf, f) = {[m EXCEPT !.Method = x] : x \in Strings(buf, f)}
    BY <1>2 DEF CounterField
  <2>3. CounterField(m, buf, f) = {[m EXCEPT !.Method = x] : x \in S}
    BY <2>1, <2>2, <2>6
  <2>4. CounterField(m, buf, f) = {[m EXCEPT !.Method = y]}
    BY <2>2, <2>3
  <2>5. [m EXCEPT !.Method = y] = NewCounter(y, x2, x3, u)
    BY <1>0 DEF NewCounter
  <2> QED
    BY <1>0, <1>1, <2>4, <2>5 DEF Only
<1>3. ASSUME f.num = 2, Only(Strings(buf, f), y)
      PROVE  Only(FieldBy("Counter", NewCounter(x1, x2, x3, u), buf, f), NewCounter(x1, y, x3, u))
  <2>1. PICK S : S = Strings(buf, f)
    OBVIOUS
  <2>2. S = {y} /\ m.Code = x2
    BY <1>0, <1>3, <2>1 DEF Only, NewCounter
  <2>6. CounterField(m, buf, f) = {[m EXCEPT !.Code = x] : x \in Strings(buf, f)}
    BY <1>3 DEF CounterField
  <2>3. CounterField(m, buf, f) = {[m EXCEPT !.Code = x] : x \in S}
    BY <2>1, <2>2, <2>6
  <2>4. CounterField(m, buf, f) = {[m EXCEPT !.Code = y]}
    BY <2>2, <2>3
  <2>5. [m EXCEPT !.Code = y] = NewCounter(x1, y, x3, u)
    BY <1>0 DEF NewCounter
  <2> QED
    BY <1>0, <1>1, <2>4, <2>5 DEF Only
<1>4. ASSUME f.num = 3, Only(Entries(x3, buf, f), y)
      PROVE  Only(FieldBy("Counter", NewCounter(x1, x2, x3, u), buf, f), NewCounter(x1, x2, y, u))
  <2>1. PICK S : S = Entries(x3, buf, f)
    OBVIOUS
  <2>2. S = {y} /\ m.Extra = x3
    BY <1>0, <1>4, <2>1 DEF Only, NewCounter
  <2>6. CounterField(m, buf, f) = {[m EXCEPT !.Extra = x] : x \in Entries(m.Extra, buf, f)}
    BY <1>4 DEF CounterField
  <2>3. CounterField(m, buf, f) = {[m EXCEPT !.Extra = x] : x \in S}
    BY <2>1, <2>2, <2>6
  <2>4. CounterField(m, buf, f) = {[m EXCEPT !.Extra = y]}
    BY <2>2, <2>3
  <2>5. [m EXCEPT !.Extra = y] = NewCounter(x1, x2, y, u)
    BY <1>0 DEF NewCounter
  <2> QED
    BY <1>0, <1>1, <2>4, <2>5 DEF Only
<1>5. ASSUME f.num > 3
      PROVE  FieldBy("Counter", NewCounter(x1, x2, x3, u), buf, f) =
               {NewCounter(x1, x2, x3, u \o SubSeq(buf, f.first, f.next - 1))}
  <2>1. CounterField(m, buf, f) = Unknown(m, buf, f)
    BY <1>5 DEF CounterField
  <2>2. PICK e : e = SubSeq(buf, f.first, f.next - 1)
    OBVIOUS
  <2>8. ~ (f.num <= 0)
    BY <1>5
  <2>9. Unknown(m, buf, f) = {[m EXCEPT !.XXX_unrecognized = @ \o SubSeq(buf, f.first, f.next - 1)]}
    BY <2>8, Zenon DEF Unknown
  <2>3. Unknown(m, buf, f) = {[m EXCEPT !.XXX_unrecognized = @ \o e]}
    BY <2>2, <2>9
  <2>5. PICK v : v = u \o e
    OBVIOUS
  <2>6. m.XXX_unrecognized \o e = v
    BY <1>0, <2>5 DEF NewCounter
  <2>7. [m EXCEPT !.XXX_unrecognized = v] = NewCounter(x1, x2, x3, v)
    BY <1>0 DEF NewCounter
  <2>4. [m EXCEPT !.XXX_unrecognized = @ \o e] = NewCounter(x1, x2, x3, u \o e)
    BY <2>5, <2>6, <2>7
  <2> QED
    BY <1>0, <1>1, <2>1, <2>2, <2>3, <2>4
<1> QED
  BY <1>2, <1>3, <1>4, <1>5

LEMMA GaugeFields ==
  ASSUME NEW x1, NEW x2, NEW x3, NEW x4, NEW x5, NEW u, NEW y, NEW buf, NEW f, f.num \in Int
  PROVE  /\ f.num = 1 /\ Only(Strings(buf, f), y) =>
              Only(FieldBy("Gauge", NewGauge(x1, x2, x3, x4, x5, u), buf, f), NewGauge(y, x2, x3, x4, x5, u))
         /\ f.num = 2 /\ Only(Strings(buf, f), y) =>
              Only(FieldBy("Gauge", NewGauge(x1, x2, x3, x4, x5, u), buf, f), NewGauge(x1, y, x3, x4, x5, u))
         /\ f.num = 3 /\ Only(Int64s(buf, f), y) =>
              Only(FieldBy("Gauge", NewGauge(x1, x2, x3, x4, x5, u), buf, f), NewGauge(x1, x2, y, x4, x5, u))
         /\ f.num = 4 /\ Only(Bools(buf, f), y) =>
              Only(FieldBy("Gauge", NewGauge(x1, x2, x3, x4, x5, u), buf, f), NewGauge(x1, x2, x3, y, x5, u))
         /\ f.num = 5 /\ Only(Entries(x5, buf, f), y) =>
              Only(FieldBy("Gauge", NewGauge(x1, x2, x3, x4, x5, u), buf, f), NewGauge(x1, x2, x3, x4, y, u))
         /\ f.num > 5 =>
              FieldBy("Gauge", NewGauge(x1, x2, x3, x4, x5, u), buf, f) =
                {NewGauge(x1, x2, x3, x4, x5, u \o SubSeq(buf, f.first, f.next - 1))}
<1>0. PICK m : m = NewGauge(x1, x2, x3, x4, x5, u)
  OBVIOUS
<1>1. FieldBy("Gauge", m, buf, f) = GaugeField(m, buf, f)
  BY DEF FieldBy
<1>2. ASSUME f.num = 1, Only(Strings(buf, f), y)
      PROVE  Only(FieldBy("Gauge", NewGauge(x1, x2, x3, x4, x5, u), buf, f), NewGauge(y, x2, x3, x4, x5, u))
  <2>1. PICK S : S = Strings(buf, f)
    OBVIOUS
  <2>2. S = {y} /\ m.Type = x1
    BY <1>0, <1>2, <2>1 DEF Only, NewGauge
  <2>6. GaugeField(m, buf, f) = {[m EXCEPT !.Type = x] : x \in Strings(buf, f)}
    BY <1>2 DEF GaugeField
  <2>3. GaugeField(m, buf, f) = {[m EXCEPT !.Type = x] : x \in S}
    BY <2>1, <2>2, <2>6
  <2>4. GaugeField(m, buf, f) = {[m EXCEPT !.Type = y]}
    BY <2>2, <2>3
  <2>5. [m EXCEPT !.Type = y] = NewGauge(y, x2, x3, x4, x5, u)
    BY <1>0 DEF NewGauge
  <2> QED
    BY <1>0, <1>1, <2>4, <2>5 DEF Only
<1>3. ASSUME f.num = 2, Only(Strings(buf, f), y)
      PROVE  Only(FieldBy("Gauge", NewGauge(x1, x2, x3, x4, x5, u), buf, f), NewGauge(x1, y, x3, x4, x5, u))
  <2>1. PICK S : S = Strings(buf, f)
    OBVIOUS
  <2>2. S = {y} /\ m.Value = x2
    BY <1>0, <1>3, <2>1 DEF Only, NewGauge
  <2>6. GaugeField(m, buf, f) = {[m EXCEPT !.Value = x] : x \in Strings(buf, f)}
    BY <1>3 DEF GaugeField
  <2>3. GaugeField(m, buf, f) = {[m EXCEPT !.Value = x] : x \in S}
    BY <2>1, <2>2, <2>6
  <2>4. GaugeField(m, buf, f) = {[m EXCEPT !.Value = y]}
    BY <2>2, <2>3
  <2>5. [m EXCEPT !.Value = y] = NewGauge(x1, y, x3, x4, x5, u)
    BY <1>0 DEF NewGauge
  <2> QED
    BY <1>0, <1>1, <2>4, <2>5 DEF Only
<1>4. ASSUME f.num = 3, Only(Int64s(buf, f), y)
      PROVE  Only(FieldBy("Gauge", NewGauge(x1, x2, x3, x4, x5, u), buf, f), NewGauge(x1, x2, y, x4, x5, u))
  <2>1. PICK S : S = Int64s(buf, f)
    OBVIOUS
  <2>2. S = {y} /\ m.Add = x3
    BY <1>0, <1>4, <2>1 DEF Only, NewGauge
  <2>6. GaugeField(m, buf, f) = {[m EXCEPT !.Add = x] : x \in Int64s(buf, f)}
    BY <1>4 DEF GaugeField
  <2>3. GaugeField(m, buf, f) = {[m EXCEPT !.Add = x] : x \in S}
    BY <2>1, <2>2, <2>6
  <2>4. GaugeField(m, buf, f) = {[m EXCEPT !.Add = y]}
    BY <2>2, <2>3
  <2>5. [m EXCEPT !.Add = y] = NewGauge(x1, x2, y, x4, x5, u)
    BY <1>0 DEF NewGauge
  <2> QED
    BY <1>0, <1>1, <2>4, <2>5 DEF Only
<1>5. ASSUME f.num = 4, Only(Bools(buf, f), y)
      PROVE  Only(FieldBy("Gauge", NewGauge(x1, x2, x3, x4, x5, u), buf, f), NewGauge(x1, x2, x3, y, x5, u))
  <2>1. PICK S : S = Bools(buf, f)
    OBVIOUS
  <2>2. S = {y} /\ m.Inc = x4
    BY <1>0, <1>5, <2>1 DEF Only, NewGauge
  <2>6. GaugeField(m, buf, f) = {[m EXCEPT !.Inc = x] : x \in Bools(buf, f)}
    BY <1>5 DEF GaugeField
  <2>3. GaugeField(m, buf, f) = {[m EXCEPT !.Inc = x] : x \in S}
    BY <2>1, <2>2, <2>6
  <2>4. GaugeField(m, buf, f) = {[m EXCEPT !.Inc = y]}
    BY <2>2, <2>3
  <2>5. [m EXCEPT !.Inc = y] = NewGauge(x1, x2, x3, y, x5, u)
    BY <1>0 DEF NewGauge
  <2> QED
    BY <1>0, <1>1, <2>4, <2>5 DEF Only
<1>6. ASSUME f.num = 5, Only(Entries(x5, buf, f), y)
      PROVE  Only(FieldBy("Gauge", NewGauge(x1, x2, x3, x4, x5, u), buf, f), NewGauge(x1, x2, x3, x4, y, u))
  <2>1. PICK S : S = Entries(x5, buf, f)
    OBVIOUS
  <2>2. S = {y} /\ m.Extra = x5
    BY <1>0, <1>6, <2>1 DEF Only, NewGauge
  <2>6. GaugeField(m, buf, f) = {[m EXCEPT !.Extra = x] : x \in Entries(m.Extra, buf, f)}
    BY <1>6 DEF GaugeField
  <2>3. GaugeField(m, buf, f) = {[m EXCEPT !.Extra = x] : x \in S}
    BY <2>1, <2>2, <2>6
  <2>4. GaugeField(m, buf, f) = {[m EXCEPT !.Extra = y]}
    BY <2>2, <2>3
  <2>5. [m EXCEPT !.Extra = y] = NewGauge(x1, x2, x3, x4, y, u)
    BY <1>0 DEF NewGauge
  <2> QED
    BY <1>0, <1>1, <2>4, <2>5 DEF Only
<1>7. ASSUME f.num > 5
      PROVE  FieldBy("Gauge", NewGauge(x1, x2, x3, x4, x5, u), buf, f) =
               {NewGauge(x1, x2, x3, x4, x5, u \o SubSeq(buf, f.first, f.next - 1))}
  <2>1. GaugeField(m, buf, f) = Unknown(m, buf, f)
    BY <1>7 DEF GaugeField
  <2>2. PICK e : e = SubSeq(buf, f.first, f.next - 1)
    OBVIOUS
  <2>8. ~ (f.num <= 0)
    BY <1>7
  <2>9. Unknown(m, buf, f) = {[m EXCEPT !.XXX_unrecognized = @ \o SubSeq(buf, f.first, f.next - 1)]}
    BY <2>8, Zenon DEF Unknown
  <2>3. Unknown(m, buf, f) = {[m EXCEPT !.XXX_unrecognized = @ \o e]}
    BY <2>2, <2>9
  <2>5. PICK v : v = u \o e
    OBVIOUS
  <2>6. m.XXX_unrecognized \o e = v
    BY <1>0, <2>5 DEF NewGauge
  <2>7. [m EXCEPT !.XXX_unrecognized = v] = NewGauge(x1, x2, x3, x4, x5, v)
    BY <1>0 DEF NewGauge
  <2>4. [m EXCEPT !.XXX_unrecognized = @ \o e] = NewGauge(x1, x2, x3, x4, x5, u \o e)
    BY <2>5, <2>6, <2>7
  <2> QED
    BY <1>0, <1>1, <2>1, <2>2, <2>3, <2>4
<1> QED
  BY <1>2, <1>3, <1>4, <1>5, <1>6, <1>7

LEMMA SummaryFields ==
  ASSUME NEW x1, NEW x2, NEW u, NEW y, NEW buf, NEW f, f.num \in Int
  PROVE  /\ f.num = 1 /\ Only(Strings(buf, f), y) =>
              Only(FieldBy("Summary", NewSummary(x1, x2, u), buf, f), NewSummary(y, x2, u))
         /\ f.num = 2 /\ Only(Entries(x2, buf, f), y) =>
              Only(FieldBy("Summary", NewSummary(x1, x2, u), buf, f), NewSummary(x1, y, u))
         /\ f.num > 2 =>
              FieldBy("Summary", NewSummary(x1, x2, u), buf, f) =
                {NewSummary(x1, x2, u \o SubSeq(buf, f.first, f.next - 1))}
<1>0. PICK m : m = NewSummary(x1, x2, u)
  OBVIOUS
<1>1. FieldBy("Summary", m, buf, f) = SummaryField(m, buf, f)
  BY DEF FieldBy
<1>2. ASSUME f.num = 1, Only(Strings(buf, f), y)
      PROVE  Only(FieldBy("Summary", NewSummary(x1, x2, u), buf, f), NewSummary(y, x2, u))
  <2>1. PICK S : S = Strings(buf, f)
    OBVIOUS
  <2>2. S = {y} /\ m.Method = x1
    BY <1>0, <1>2, <2>1 DEF Only, NewSummary
  <2>6. SummaryField(m, buf, f) = {[m EXCEPT !.Method = x] : x \in Strings(buf, f)}
    BY <1>2 DEF SummaryField
  <2>3. SummaryField(m, buf, f) = {[m EXCEPT !.Method = x] : x \in S}
    BY <2>1, <2>2, <2>6
  <2>4. SummaryField(m, buf, f) = {[m EXCEPT !.Method = y]}
    BY <2>2, <2>3
  <2>5. [m EXCEPT !.Method = y] = NewSummary(y, x2, u)
    BY <1>0 DEF NewSummary
  <2> QED
    BY <1>0, <1>1, <2>4, <2>5 DEF Only
<1>3. ASSUME f.num = 2, Only(Entries(x2, buf, f), y)
      PROVE  Only(FieldBy("Summary", NewSummary(x1, x2, u), buf, f), NewSummary(x1, y, u))
  <2>1. PICK S : S = Entries(x2, buf, f)
    OBVIOUS
  <2>2. S = {y} /\ m.Extra = x2
    BY <1>0, <1>3, <2>1 DEF Only, NewSummary
  <2>6. SummaryField(m, buf, f) = {[m EXCEPT !.Extra = x] : x \in Entries(m.Extra, buf, f)}
    BY <1>3 DEF SummaryField
  <2>3. SummaryField(m, buf, f) = {[m EXCEPT !.Extra = x] : x \in S}
    BY <2>1, <2>2, <2>6
  <2>4. SummaryField(m, buf, f) = {[m EXCEPT !.Extra = y]}
    BY <2>2, <2>3
  <2>5. [m EXCEPT !.Extra = y] = NewSummary(x1, y, u)
    BY <1>0 DEF NewSummary
  <2> QED
    BY <1>0, <1>1, <2>4, <2>5 DEF Only
<1>4. ASSUME f.num > 2
      PROVE  FieldBy("Summary", NewSummary(x1, x2, u), buf, f) =
               {NewSummary(x1, x2, u \o SubSeq(buf, f.first, f.next - 1))}
  <2>1. SummaryField(m, buf, f) = Unknown(m, buf, f)
    BY <1>4 DEF SummaryField
  <2>2. PICK e : e = SubSeq(buf, f.first, f.next - 1)
    OBVIOUS
  <2>8. ~ (f.num <= 0)
    BY <1>4
  <2>9. Unknown(m, buf, f) = {[m EXCEPT !.XXX_unrecognized = @ \o SubSeq(buf, f.first, f.next - 1)]}
    BY <2>8, Zenon DEF Unknown
  <2>3. Unknown(m, buf, f) = {[m EXCEPT !.XXX_unrecognized = @ \o e]}
    BY <2>2, <2>9
  <2>5. PICK v : v = u \o e
    OBVIOUS
  <2>6. m.XXX_unrecognized \o e = v
    BY <1>0, <2>5 DEF NewSummary
  <2>7. [m EXCEPT !.XXX_unrecognized = v] = NewSummary(x1, x2, v)
    BY <1>0 DEF NewSummary
  <2>4. [m EXCEPT !.XXX_unrecognized = @ \o e] = NewSummary(x1, x2, u \o e)
    BY <2>5, <2>6, <2>7
  <2> QED
    BY <1>0, <1>1, <2>1, <2>2, <2>3, <2>4
<1> QED
  BY <1>2, <1>3, <1>4

LEMMA MetricFields ==
  ASSUME NEW x1, NEW x2, NEW x3, NEW x4, NEW x5, NEW x6, NEW x7, NEW x8, NEW u, NEW y, NEW buf, NEW f, f.num \in Int
  PROVE  /\ f.num = 1 /\ Only(Int32s(buf, f), y) =>
              Only(FieldBy("Metric", NewMetric(x1, x2, x3, x4, x5, x6, x7, x8, u), buf, f), NewMetric(y, x2, x3, x4, x5, x6, x7, x8, u))
         /\ f.num = 2 /\ Only(Nested(x2, buf, f, Counter, CounterField), y) =>
              Only(FieldBy("Metric", NewMetric(x1, x2, x3, x4, x5, x6, x7, x8, u), buf, f), NewMetric(x1, y, x3, x4, x5, x6, x7, x8, u))
         /\ f.num = 3 /\ Only(Nested(x3, buf, f, Gauge, GaugeField), y) =>
              Only(FieldBy("Metric", NewMetric(x1, x2, x3, x4, x5, x6, x7, x8, u), buf, f), NewMetric(x1, x2, y, x4, x5, x6, x7, x8, u))
         /\ f.num = 4 /\ Only(Nested(x4, buf, f, Summary, SummaryField), y) =>
              Only(FieldBy("Metric", NewMetric(x1, x2, x3, x4, x5, x6, x7, x8, u), buf, f), NewMetric(x1, x2, x3, y, x5, x6, x7, x8, u))
         /\ f.num = 5 /\ Only(Strings(buf, f), y) =>
              Only(FieldBy("Metric", NewMetric(x1, x2, x3, x4, x5, x6, x7, x8, u), buf, f), NewMetric(x1, x2, x3, x4, y, x6, x7, x8, u))
         /\ f.num = 6 /\ Only(Int64s(buf, f), y) =>
              Only(FieldBy("Metric", NewMetric(x1, x2, x3, x4, x5, x6, x7, x8, u), buf, f), NewMetric(x1, x2, x3, x4, x5, y, x7, x8, u))
         /\ f.num = 7 /\ Only(Strings(buf, f), y) =>
              Only(FieldBy("Metric", NewMetric(x1, x2, x3, x4, x5, x6, x7, x8, u), buf, f), NewMetric(x1, x2, x3, x4, x5, x6, y, x8, u))
         /\ f.num = 8 /\ Only(Entries(x8, buf, f), y) =>
              Only(FieldBy("Metric", NewMetric(x1, x2, x3, x4, x5, x6, x7, x8, u), buf, f), NewMetric(x1, x2, x3, x4, x5, x6, x7, y, u))
         /\ f.num > 8 =>
              FieldBy("Metric", NewMetric(x1, x2, x3, x4, x5, x6, x7, x8, u), buf, f) =
                {NewMetric(x1, x2, x3, x4, x5, x6, x7, x8, u \o SubSeq(buf, f.first, f.next - 1))}
<1>0. PICK m : m = NewMetric(x1, x2, x3, x4, x5, x6, x7, x8, u)
  OBVIOUS
<1>1. FieldBy("Metric", m, buf, f) = MetricField(m, buf, f)
  BY DEF FieldBy
<1>2. ASSUME f.num = 1, Only(Int32s(buf, f), y)
      PROVE  Only(FieldBy("Metric", NewMetric(x1, x2, x3, x4, x5, x6, x7, x8, u), buf, f), NewMetric(y, x2, x3, x4, x5, x6, x7, x8, u))
  <2>1. PICK S : S = Int32s(buf, f)
    OBVIOUS
  <2>2. S = {y} /\ m.Type = x1
    BY <1>0, <1>2, <2>1 DEF Only, NewMetric
  <2>6. MetricField(m, buf, f) = {[m EXCEPT !.Type = x] : x \in Int32s(buf, f)}
    BY <1>2 DEF MetricField
  <2>3. MetricField(m, buf, f) = {[m EXCEPT !.Type = x] : x \in S}
    BY <2>1, <2>2, <2>6
  <2>4. MetricField(m, buf, f) = {[m EXCEPT !.Type = y]}
    BY <2>2, <2>3
  <2>5. [m EXCEPT !.Type = y] = NewMetric(y, x2, x3, x4, x5, x6, x7, x8, u)
    BY <1>0 DEF NewMetric
  <2> QED
    BY <1>0, <1>1, <2>4, <2>5 DEF Only
<1>3. ASSUME f.num = 2, Only(Nested(x2, buf, f, Counter, CounterField), y)
      PROVE  Only(FieldBy("Metric", NewMetric(x1, x2, x3, x4, x5, x6, x7, x8, u), buf, f), NewMetric(x1, y, x3, x4, x5, x6, x7, x8, u))
  <2>1. PICK S : S = Nested(x2, buf, f, Counter, CounterField)
    OBVIOUS
  <2>2. S = {y} /\ m.Counter = x2
    BY <1>0, <1>3, <2>1 DEF Only, NewMetric
  <2>6. MetricField(m, buf, f) = {[m EXCEPT !.Counter = x] : x \in Nested(m.Counter, buf, f, Counter, CounterField)}
    BY <1>3 DEF MetricField
  <2>3. MetricField(m, buf, f) = {[m EXCEPT !.Counter = x] : x \in S}
    BY <2>1, <2>2, <2>6
  <2>4. MetricField(m, buf, f) = {[m EXCEPT !.Counter = y]}
    BY <2>2, <2>3
  <2>5. [m EXCEPT !.Counter = y] = NewMetric(x1, y, x3, x4, x5, x6, x7, x8, u)
    BY <1>0 DEF NewMetric
  <2> QED
    BY <1>0, <1>1, <2>4, <2>5 DEF Only
<1>4. ASSUME f.num = 3, Only(Nested(x3, buf, f, Gauge, GaugeField), y)
      PROVE  Only(FieldBy("Metric", NewMetric(x1, x2, x3, x4, x5, x6, x7, x8, u), buf, f), NewMetric(x1, x2, y, x4, x5, x6, x7, x8, u))
  <2>1. PICK S : S = Nested(x3, buf, f, Gauge, GaugeField)
    OBVIOUS
  <2>2. S = {y} /\ m.Gauge = x3
    BY <1>0, <1>4, <2>1 DEF Only, NewMetric
  <2>6. MetricField(m, buf, f) = {[m EXCEPT !.Gauge = x] : x \in Nested(m.Gauge, buf, f, Gauge, GaugeField)}
    BY <1>4 DEF MetricField
  <2>3. MetricField(m, buf, f) = {[m EXCEPT !.Gauge = x] : x \in S}
    BY <2>1, <2>2, <2>6
  <2>4. MetricField(m, buf, f) = {[m EXCEPT !.Gauge = y]}
    BY <2>2, <2>3
  <2>5. [m EXCEPT !.Gauge = y] = NewMetric(x1, x2, y, x4, x5, x6, x7, x8, u)
    BY <1>0 DEF NewMetric
  <2> QED
    BY <1>0, <1>1, <2>4, <2>5 DEF Only
<1>5. ASSUME f.num = 4, Only(Nested(x4, buf, f, Summary, SummaryField), y)
      PROVE  Only(FieldBy("Metric", NewMetric(x1, x2, x3, x4, x5, x6, x7, x8, u), buf, f), NewMetric(x1, x2, x3, y, x5, x6, x7, x8, u))
  <2>1. PICK S : S = Nested(x4, buf, f, Summary, SummaryField)
    OBVIOUS
  <2>2. S = {y} /\ m.Summary = x4
    BY <1>0, <1>5, <2>1 DEF Only, NewMetric
  <2>6. MetricField(m, buf, f) = {[m EXCEPT !.Summary = x] : x \in Nested(m.Summary, buf, f, Summary, SummaryField)}
    BY <1>5 DEF MetricField
  <2>3. MetricField(m, buf, f) = {[m EXCEPT !.Summary = x] : x \in S}
    BY <2>1, <2>2, <2>6
  <2>4. MetricField(m, buf, f) = {[m EXCEPT !.Summary = y]}
    BY <2>2, <2>3
  <2>5. [m EXCEPT !.Summary = y] = NewMetric(x1, x2, x3, y, x5, x6, x7, x8, u)
    BY <1>0 DEF NewMetric
  <2> QED
    BY <1>0, <1>1, <2>4, <2>5 DEF Only
<1>6. ASSUME f.num = 5, Only(Strings(buf, f), y)
      PROVE  Only(FieldBy("Metric", NewMetric(x1, x2, x3, x4, x5, x6, x7, x8, u), buf, f), NewMetric(x1, x2, x3, x4, y, x6, x7, x8, u))
  <2>1. PICK S : S = Strings(buf, f)
    OBVIOUS
  <2>2. S = {y} /\ m.Host = x5
    BY <1>0, <1>6, <2>1 DEF Only, NewMetric
  <2>6. MetricField(m, buf, f) = {[m EXCEPT !.Host = x] : x \in Strings(buf, f)}
    BY <1>6 DEF MetricField
  <2>3. MetricField(m, buf, f) = {[m EXCEPT !.Host = x] : x \in S}
    BY <2>1, <2>2, <2>6
  <2>4. MetricField(m, buf, f) = {[m EXCEPT !.Host = y]}
    BY <2>2, <2>3
  <2>5. [m EXCEPT !.Host = y] = NewMetric(x1, x2, x3, x4, y, x6, x7, x8, u)
    BY <1>0 DEF NewMetric
  <2> QED
    BY <1>0, <1>1, <2>4, <2>5 DEF Only
<1>7. ASSUME f.num = 6, Only(Int64s(buf, f), y)
      PROVE  Only(FieldBy("Metric", NewMetric(x1, x2, x3, x4, x5, x6, x7, x8, u), buf, f), NewMetric(x1, x2, x3, x4, x5, y, x7, x8, u))
  <2>1. PICK S : S = Int64s(buf, f)
    OBVIOUS
  <2>2. S = {y} /\ m.Micro = x6
    BY <1>0, <1>7, <2>1 DEF Only, NewMetric
  <2>6. MetricField(m, buf, f) = {[m EXCEPT !.Micro = x] : x \in Int64s(buf, f)}
    BY <1>7 DEF MetricField
  <2>3. MetricField(m, buf, f) = {[m EXCEPT !.Micro = x] : x \in S}
    BY <2>1, <2>2, <2>6
  <2>4. MetricField(m, buf, f) = {[m EXCEPT !.Micro = y]}
    BY <2>2, <2>3
  <2>5. [m EXCEPT !.Micro = y] = NewMetric(x1, x2, x3, x4, x5, y, x7, x8, u)
    BY <1>0 DEF NewMetric
  <2> QED
    BY <1>0, <1>1, <2>4, <2>5 DEF Only
<1>8. ASSUME f.num = 7, Only(Strings(buf, f), y)
      PROVE  Only(FieldBy("Metric", NewMetric(x1, x2, x3, x4, x5, x6, x7, x8, u), buf, f), NewMetric(x1, x2, x3, x4, x5, x6, y, x8, u))
  <2>1. PICK S : S = Strings(buf, f)
    OBVIOUS
  <2>2. S = {y} /\ m.Svrname = x7
    BY <1>0, <1>8, <2>1 DEF Only, NewMetric
  <2>6. MetricField(m, buf, f) = {[m EXCEPT !.Svrname = x] : x \in Strings(buf, f)}
    BY <1>8 DEF MetricField
  <2>3. MetricField(m, buf, f) = {[m EXCEPT !.Svrname = x] : x \in S}
    BY <2>1, <2>2, <2>6
  <2>4. MetricField(m, buf, f) = {[m EXCEPT !.Svrname = y]}
    BY <2>2, <2>3
  <2>5. [m EXCEPT !.Svrname = y] = NewMetric(x1, x2, x3, x4, x5, x6, y, x8, u)
    BY <1>0 DEF NewMetric
  <2> QED
    BY <1>0, <1>1, <2>4, <2>5 DEF Only
<1>9. ASSUME f.num = 8, Only(Entries(x8, buf, f), y)
      PROVE  Only(FieldBy("Metric", NewMetric(x1, x2, x3, x4, x5, x6, x7, x8, u), buf, f), NewMetric(x1, x2, x3, x4, x5, x6, x7, y, u))
  <2>1. PICK S : S = Entries(x8, buf, f)
    OBVIOUS
  <2>2. S = {y} /\ m.Extra = x8
    BY <1>0, <1>9, <2>1 DEF Only, NewMetric
  <2>6. MetricField(m, buf, f) = {[m EXCEPT !.Extra = x] : x \in Entries(m.Extra, buf, f)}
    BY <1>9 DEF MetricField
  <2>3. MetricField(m, buf, f) = {[m EXCEPT !.Extra = x] : x \in S}
    BY <2>1, <2>2, <2>6
  <2>4. MetricField(m, buf, f) = {[m EXCEPT !.Extra = y]}
    BY <2>2, <2>3
  <2>5. [m EXCEPT !.Extra = y] = NewMetric(x1, x2, x3, x4, x5, x6, x7, y, u)
    BY <1>0 DEF NewMetric
  <2> QED
    BY <1>0, <1>1, <2>4, <2>5 DEF Only
<1>10. ASSUME f.num > 8
      PROVE  FieldBy("Metric", NewMetric(x1, x2, x3, x4, x5, x6, x7, x8, u), buf, f) =
               {NewMetric(x1, x2, x3, x4, x5, x6, x7, x8, u \o SubSeq(buf, f.first, f.next - 1))}
  <2>1. MetricField(m, buf, f) = Unknown(m, buf, f)
    BY <1>10 DEF MetricField
  <2>2. PICK e : e = SubSeq(buf, f.first, f.next - 1)
    OBVIOUS
  <2>8. ~ (f.num <= 0)
    BY <1>10
  <2>9. Unknown(m, buf, f) = {[m EXCEPT !.XXX_unrecognized = @ \o SubSeq(buf, f.first, f.next - 1)]}
    BY <2>8, Zenon DEF Unknown
  <2>3. Unknown(m, buf, f) = {[m EXCEPT !.XXX_unrecognized = @ \o e]}
    BY <2>2, <2>9
  <2>5. PICK v : v = u \o e
    OBVIOUS
  <2>6. m.XXX_unrecognized \o e = v
    BY <1>0, <2>5 DEF NewMetric
  <2>7. [m EXCEPT !.XXX_unrecognized = v] = NewMetric(x1, x2, x3, x4, x5, x6, x7, x8, v)
    BY <1>0 DEF NewMetric
  <2>4. [m EXCEPT !.XXX_unrecognized = @ \o e] = NewMetric(x1, x2, x3, x4, x5, x6, x7, x8, u \o e)
    BY <2>5, <2>6, <2>7
  <2> QED
    BY <1>0, <1>1, <2>1, <2>2, <2>3, <2>4
<1> QED
  BY <1>2, <1>3, <1>4, <1>5, <1>6, <1>7, <1>8, <1>9, <1>10

-----------------------------------------------------------------------------
(* What a field holds, and that there is room for it.                       *)

(* A number in a field is read with its sign, at either width.             *)
LEMMA HoldsInt ==
  ASSUME NEW buf, NEW f, NEW t, NEW x, IsInt(buf, f, t, x)
  PROVE  /\ x \in Ints(WordBits)  => Only(Int64s(buf, f), x)
         /\ x \in Ints(Int32Bits) => Only(Int32s(buf, f), x)
         /\ f.num = t \div 8
<1>1. WordBits \in 1 .. WordBits /\ Int32Bits \in 1 .. WordBits
  BY WordBitsAssumption, WidthsAssumption DEF WordBitsAssumption,
     WidthsAssumption
<1>2. f.num = t \div 8 /\ f.type = 0 /\ Begun(buf, f).value = Unsigned(x)
  BY DEF IsInt
<1>3. ASSUME x \in Ints(WordBits) PROVE Only(Int64s(buf, f), x)
  <2>1. Signed(Unsigned(x), WordBits) = x
    BY <1>1, <1>3, SignComesBack
  <2> QED
    BY <1>2, <2>1 DEF Int64s, Only
<1>4. ASSUME x \in Ints(Int32Bits) PROVE Only(Int32s(buf, f), x)
  <2>1. Signed(Unsigned(x), Int32Bits) = x
    BY <1>1, <1>4, SignComesBack
  <2> QED
    BY <1>2, <2>1 DEF Int32s, Only
<1> QED
  BY <1>2, <1>3, <1>4

(* A 1 in a field is read as TRUE.                                         *)
LEMMA HoldsBool ==
  ASSUME NEW buf, NEW f, NEW t, IsInt(buf, f, t, 1)
  PROVE  Only(Bools(buf, f), TRUE) /\ f.num = t \div 8
<1>1. f.num = t \div 8 /\ f.type = 0 /\ Begun(buf, f).value = 1
  BY OneIsUnsigned DEF IsInt
<1>2. (Begun(buf, f).value # 0) = TRUE
  BY <1>1
<1> QED
  BY <1>1, <1>2 DEF Bools, Only

(* A number with a sign is written as a word.                              *)
LEMMA IntWord ==
  ASSUME NEW x, x \in Ints(WordBits) \/ x \in Ints(Int32Bits)
  PROVE  Unsigned(x) \in Words
<1>1. WordBits \in 1 .. WordBits /\ Int32Bits \in 1 .. WordBits
  BY WordBitsAssumption, WidthsAssumption DEF WordBitsAssumption,
     WidthsAssumption
<1> QED
  BY <1>1, SignComesBack

(* If what is written of a string fits, the string does.                   *)
LEMMA BytesFit ==
  ASSUME NEW s \in Seq(Bytes), Fits(SizeBytes(s))
  PROVE  Fits(Len(s))
<1>1. CASE s = <<>>
  <2>1. Len(s) = 0 /\ SizeBytes(s) = 0
    BY <1>1 DEF SizeBytes
  <2> QED
    BY <2>1
<1>2. CASE s # <<>>
  <2>1. 10 \in Tags
    BY DEF Tags
  <2>2. SizeBytes(s) = Delimited(Len(s)) /\ Len(s) \in Nat /\ sovPacket(Len(s)) \in Nat
    BY <1>2, <2>1, TaggedSeq DEF SizeBytes
  <2>3. Len(s) <= SizeBytes(s) /\ SizeBytes(s) \in Nat
    BY <2>2 DEF Delimited
  <2> QED
    BY <2>2, <2>3, FitsUpTo
<1> QED
  BY <1>1, <1>2

(* If what is delimited fits, what is inside does.                         *)
LEMMA DelimitedFits ==
  ASSUME NEW P, NEW n, OfSize(P, n), Fits(Delimited(n))
  PROVE  Fits(n)
<1>1. PICK s \in Seq(Bytes) : Len(s) = n /\ n \in Nat
  BY DEF OfSize
<1>2. 10 \in Tags
  BY DEF Tags
<1>3. sovPacket(n) \in Nat
  BY <1>1, <1>2, TaggedSeq
<1>4. n <= Delimited(n) /\ Delimited(n) \in Nat
  BY <1>1, <1>3 DEF Delimited
<1> QED
  BY <1>1, <1>4, FitsUpTo

(* The parts of a map, nothing and all of it among them, are maps.         *)
LEMMA SomeParts ==
  ASSUME NEW h, IsMap(h)
  PROVE  /\ NoMap \in Parts(h) /\ h \in Parts(h)
         /\ \A g \in Parts(h) : IsMap(g)
<1>1. NoMap \in Parts(h)
  <2>1. Part(h, {}) = NoMap /\ {} \in SUBSET DOMAIN h
    BY DEF Part, NoMap
  <2> QED
    BY <2>1 DEF Parts
<1>2. h \in Parts(h)
  <2>1. Part(h, DOMAIN h) = h
    BY DEF Part, IsMap
  <2> QED
    BY <2>1 DEF Parts
<1>3. ASSUME NEW g \in Parts(h) PROVE IsMap(g)
  <2>1. PICK T \in SUBSET DOMAIN h : g = Part(h, T)
    BY DEF Parts
  <2>2. IsFiniteSet(T)
    BY FS_Subset DEF IsMap
  <2>3. DOMAIN g = T /\ g = [k \in T |-> h[k]] /\ \A k \in T : h[k] \in Seq(Bytes)
    BY <2>1 DEF Part, IsMap
  <2>4. T \subseteq Seq(Bytes)
    BY DEF IsMap
  <2> QED
    BY <2>2, <2>3, <2>4 DEF IsMap
<1> QED
  BY <1>1, <1>2, <1>3

(* A field with its zero value may be left out.                            *)
LEMMA PutNothing ==
  ASSUME NEW t
  PROVE  /\ <<>> \in PutInt(t, 0) /\ <<>> \in PutBytes(t, <<>>) /\ <<>> \in PutMap(t, NoMap)
         /\ IsMap(NoMap) /\ \A b \in 1 .. WordBits : 0 \in Ints(b)
<1>1. <<>> \in PutInt(t, 0) /\ <<>> \in PutBytes(t, <<>>)
  BY DEF PutInt, PutBytes
<1>2. IsMap(NoMap)
  BY FS_EmptySet DEF IsMap, NoMap
<1>3. DOMAIN NoMap = {} /\ Cardinality({}) = 0
  BY FS_EmptySet DEF NoMap
<1>4. <<>> \in SetToSeqs(DOMAIN NoMap)
  <2>1. <<>> \in [1 .. 0 -> {}] /\ \A i, j \in 1 .. 0 : i # j => <<>>[i] # <<>>[j]
    OBVIOUS
  <2> QED
    BY <1>3, <2>1 DEF SetToSeqs
<1>5. <<>> \in PutMap(t, NoMap)
  <2> DEFINE G(ks) == FlattenSeq([i \in DOMAIN ks |-> Tagged(t, Tagged(10, ks[i]) \o Tagged(18, NoMap[ks[i]]))])
  <2>1. G(<<>>) = <<>>
    <3>1. [i \in DOMAIN <<>> |-> Tagged(t, Tagged(10, <<>>[i]) \o Tagged(18, NoMap[<<>>[i]]))] = <<>>
      OBVIOUS
    <3>2. FlattenSeq(<<>>) = <<>>
      BY DEF FlattenSeq
    <3> QED
      BY <3>1, <3>2
  <2>2. PutMap(t, NoMap) = {G(ks) : ks \in SetToSeqs(DOMAIN NoMap)}
    BY DEF PutMap
  <2> HIDE DEF G
  <2> QED
    BY <1>4, <2>1, <2>2
<1>6. ASSUME NEW b \in 1 .. WordBits PROVE 0 \in Ints(b)
  <2>1. b - 1 \in 0 .. WordBits + 7
    BY WordBitsAssumption DEF WordBitsAssumption
  <2>2. Pow2[b - 1] \in Nat \ {0}
    BY <2>1, Pow2Nat
  <2> QED
    BY <2>2 DEF Ints
<1> QED
  BY <1>1, <1>2, <1>5, <1>6

LEMMA InCat ==
  ASSUME NEW A, NEW B, NEW s \in A, NEW t \in B
  PROVE  s \o t \in A ++ B
BY DEF ++

Both(w, A, B) == \E s \in A, t \in B : w = s \o t

LEMMA OfCat ==
  ASSUME NEW A, NEW B, NEW w, w \in A ++ B
  PROVE  Both(w, A, B)
BY DEF ++, Both

(* A message behind a pointer fits if the message around it does.          *)
LEMMA OneCounterFits ==
  ASSUME NEW ms, IsOne(ms, IsCounter), Fits(SizeOne(ms, SizeCounter)), ms # <<>>
  PROVE  IsCounter(ms[1]) /\ Fits(SizeCounter(ms[1])) /\ ms = <<ms[1]>>
<1>1. IsCounter(ms[1]) /\ ms = <<ms[1]>>
  BY DEF IsOne
<1>2. OfSize(PutCounter(ms[1]), SizeCounter(ms[1]))
  BY <1>1, SizeCounterIs
<1>3. Fits(Delimited(SizeCounter(ms[1])))
  BY DEF SizeOne
<1> QED
  BY <1>1, <1>2, <1>3, DelimitedFits

LEMMA OneGaugeFits ==
  ASSUME NEW ms, IsOne(ms, IsGauge), Fits(SizeOne(ms, SizeGauge)), ms # <<>>
  PROVE  IsGauge(ms[1]) /\ Fits(SizeGauge(ms[1])) /\ ms = <<ms[1]>>
<1>1. IsGauge(ms[1]) /\ ms = <<ms[1]>>
  BY DEF IsOne
<1>2. OfSize(PutGauge(ms[1]), SizeGauge(ms[1]))
  BY <1>1, SizeGaugeIs
<1>3. Fits(Delimited(SizeGauge(ms[1])))
  BY DEF SizeOne
<1> QED
  BY <1>1, <1>2, <1>3, DelimitedFits

LEMMA OneSummaryFits ==
  ASSUME NEW ms, IsOne(ms, IsSummary), Fits(SizeOne(ms, SizeSummary)), ms # <<>>
  PROVE  IsSummary(ms[1]) /\ Fits(SizeSummary(ms[1])) /\ ms = <<ms[1]>>
<1>1. IsSummary(ms[1]) /\ ms = <<ms[1]>>
  BY DEF IsOne
<1>2. OfSize(PutSummary(ms[1]), SizeSummary(ms[1]))
  BY <1>1, SizeSummaryIs
<1>3. Fits(Delimited(SizeSummary(ms[1])))
  BY DEF SizeOne
<1> QED
  BY <1>1, <1>2, <1>3, DelimitedFits

(* If a message fits, each of its fields does.                             *)
LEMMA RequestFits ==
  ASSUME NEW m, IsRequest(m), Fits(SizeRequest(m))
  PROVE  /\ m.Sid \in Ints(WordBits)
         /\ m.RpcId \in Ints(WordBits)
         /\ IsMap(m.Headers)
         /\ m.Packet \in Seq(Bytes)
         /\ m.XXX_unrecognized = <<>>
         /\ FitMap(m.Headers)
         /\ Fits(Len(m.Packet))
         /\ m = NewRequest(m.Sid, m.RpcId, m.Headers, m.Packet, <<>>)
<1>1. /\ m.Sid \in Ints(WordBits)
      /\ m.RpcId \in Ints(WordBits)
      /\ IsMap(m.Headers)
      /\ m.Packet \in Seq(Bytes)
      /\ m.XXX_unrecognized = <<>>
  BY DEF IsRequest
<1>0. m = NewRequest(m.Sid, m.RpcId, m.Headers, m.Packet, <<>>)
  BY DEF IsRequest, NewRequest
<1>2. WordBits \in 1 .. WordBits /\ Int32Bits \in 1 .. WordBits /\ 10 \in Tags
  BY WordBitsAssumption, WidthsAssumption DEF WordBitsAssumption,
     WidthsAssumption, Tags
<1> DEFINE a == SizeInt(m.Sid)
           b == SizeInt(m.RpcId)
           c == SizeMap(m.Headers)
           d == SizeBytes(m.Packet)
           e == Len(m.XXX_unrecognized)
<1>3. a \in Nat
  BY <1>1, <1>2, OfSizeInt DEF OfSize
<1>4. b \in Nat
  BY <1>1, <1>2, OfSizeInt DEF OfSize
<1>5. c \in Nat
  BY <1>1, <1>2, OfSizeMap DEF OfSize
<1>6. d \in Nat
  BY <1>1, <1>2, OfSizeBytes DEF OfSize
<1>7. e \in Nat
  BY <1>1
<1>8. SizeRequest(m) = a + b + c + d + e
  BY DEF SizeRequest
<1> HIDE DEF a, b, c, d, e
<1>9. SizeRequest(m) \in Nat /\ c <= SizeRequest(m) /\ d <= SizeRequest(m)
  BY <1>3, <1>4, <1>5, <1>6, <1>7, <1>8
<1>10. Fits(c) /\ Fits(d)
  BY <1>5, <1>6, <1>9, FitsUpTo
<1> QED
  BY <1>0, <1>1, <1>10, BytesFit, EntriesFit DEF c, d

LEMMA ResponseFits ==
  ASSUME NEW m, IsResponse(m), Fits(SizeResponse(m))
  PROVE  /\ m.Sid \in Ints(WordBits)
         /\ IsMap(m.Headers)
         /\ m.Code \in Ints(Int32Bits)
         /\ m.Packet \in Seq(Bytes)
         /\ m.XXX_unrecognized = <<>>
         /\ FitMap(m.Headers)
         /\ Fits(Len(m.Packet))
         /\ m = NewResponse(m.Sid, m.Headers, m.Code, m.Packet, <<>>)
<1>1. /\ m.Sid \in Ints(WordBits)
      /\ IsMap(m.Headers)
      /\ m.Code \in Ints(Int32Bits)
      /\ m.Packet \in Seq(Bytes)
      /\ m.XXX_unrecognized = <<>>
  BY DEF IsResponse
<1>0. m = NewResponse(m.Sid, m.Headers, m.Code, m.Packet, <<>>)
  BY DEF IsResponse, NewResponse
<1>2. WordBits \in 1 .. WordBits /\ Int32Bits \in 1 .. WordBits /\ 10 \in Tags
  BY WordBitsAssumption, WidthsAssumption DEF WordBitsAssumption,
     WidthsAssumption, Tags
<1> DEFINE a == SizeInt(m.Sid)
           b == SizeMap(m.Headers)
           c == SizeInt(m.Code)
           d == SizeBytes(m.Packet)
           e == Len(m.XXX_unrecognized)
<1>3. a \in Nat
  BY <1>1, <1>2, OfSizeInt DEF OfSize
<1>4. b \in Nat
  BY <1>1, <1>2, OfSizeMap DEF OfSize
<1>5. c \in Nat
  BY <1>1, <1>2, OfSizeInt DEF OfSize
<1>6. d \in Nat
  BY <1>1, <1>2, OfSizeBytes DEF OfSize
<1>7. e \in Nat
  BY <1>1
<1>8. SizeResponse(m) = a + b + c + d + e
  BY DEF SizeResponse
<1> HIDE DEF a, b, c, d, e
<1>9. SizeResponse(m) \in Nat /\ b <= SizeResponse(m) /\ d <= SizeResponse(m)
  BY <1>3, <1>4, <1>5, <1>6, <1>7, <1>8
<1>10. Fits(b) /\ Fits(d)
  BY <1>4, <1>6, <1>9, FitsUpTo
<1> QED
  BY <1>0, <1>1, <1>10, BytesFit, EntriesFit DEF b, d

LEMMA CounterFits ==
  ASSUME NEW m, IsCounter(m), Fits(SizeCounter(m))
  PROVE  /\ m.Method \in Seq(Bytes)
         /\ m.Code \in Seq(Bytes)
         /\ IsMap(m.Extra)
         /\ m.XXX_unrecognized = <<>>
         /\ Fits(Len(m.Method))
         /\ Fits(Len(m.Code))
         /\ FitMap(m.Extra)
         /\ m = NewCounter(m.Method, m.Code, m.Extra, <<>>)
<1>1. /\ m.Method \in Seq(Bytes)
      /\ m.Code \in Seq(Bytes)
      /\ IsMap(m.Extra)
      /\ m.XXX_unrecognized = <<>>
  BY DEF IsCounter
<1>0. m = NewCounter(m.Method, m.Code, m.Extra, <<>>)
  BY DEF IsCounter, NewCounter
<1>2. WordBits \in 1 .. WordBits /\ Int32Bits \in 1 .. WordBits /\ 10 \in Tags
  BY WordBitsAssumption, WidthsAssumption DEF WordBitsAssumption,
     WidthsAssumption, Tags
<1> DEFINE a == SizeBytes(m.Method)
           b == SizeBytes(m.Code)
           c == SizeMap(m.Extra)
           d == Len(m.XXX_unrecognized)
<1>3. a \in Nat
  BY <1>1, <1>2, OfSizeBytes DEF OfSize
<1>4. b \in Nat
  BY <1>1, <1>2, OfSizeBytes DEF OfSize
<1>5. c \in Nat
  BY <1>1, <1>2, OfSizeMap DEF OfSize
<1>6. d \in Nat
  BY <1>1
<1>7. SizeCounter(m) = a + b + c + d
  BY DEF SizeCounter
<1> HIDE DEF a, b, c, d
<1>8. SizeCounter(m) \in Nat /\ a <= SizeCounter(m) /\ b <= SizeCounter(m) /\ c <= SizeCounter(m)
  BY <1>3, <1>4, <1>5, <1>6, <1>7
<1>9. Fits(a) /\ Fits(b) /\ Fits(c)
  BY <1>3, <1>4, <1>5, <1>8, FitsUpTo
<1> QED
  BY <1>0, <1>1, <1>9, BytesFit, EntriesFit DEF a, b, c

LEMMA GaugeFits ==
  ASSUME NEW m, IsGauge(m), Fits(SizeGauge(m))
  PROVE  /\ m.Type \in Seq(Bytes)
         /\ m.Value \in Seq(Bytes)
         /\ m.Add \in Ints(WordBits)
         /\ m.Inc \in BOOLEAN
         /\ IsMap(m.Extra)
         /\ m.XXX_unrecognized = <<>>
         /\ Fits(Len(m.Type))
         /\ Fits(Len(m.Value))
         /\ FitMap(m.Extra)
         /\ m = NewGauge(m.Type, m.Value, m.Add, m.Inc, m.Extra, <<>>)
<1>1. /\ m.Type \in Seq(Bytes)
      /\ m.Value \in Seq(Bytes)
      /\ m.Add \in Ints(WordBits)
      /\ m.Inc \in BOOLEAN
      /\ IsMap(m.Extra)
      /\ m.XXX_unrecognized = <<>>
  BY DEF IsGauge
<1>0. m = NewGauge(m.Type, m.Value, m.Add, m.Inc, m.Extra, <<>>)
  BY DEF IsGauge, NewGauge
<1>2. WordBits \in 1 .. WordBits /\ Int32Bits \in 1 .. WordBits /\ 10 \in Tags
  BY WordBitsAssumption, WidthsAssumption DEF WordBitsAssumption,
     WidthsAssumption, Tags
<1> DEFINE a == SizeBytes(m.Type)
           b == SizeBytes(m.Value)
           c == SizeInt(m.Add)
           d == SizeBool(m.Inc)
           e == SizeMap(m.Extra)
           f == Len(m.XXX_unrecognized)
<1>3. a \in Nat
  BY <1>1, <1>2, OfSizeBytes DEF OfSize
<1>4. b \in Nat
  BY <1>1, <1>2, OfSizeBytes DEF OfSize
<1>5. c \in Nat
  BY <1>1, <1>2, OfSizeInt DEF OfSize
<1>6. d \in Nat
  BY <1>1, <1>2, OfSizeBool DEF OfSize
<1>7. e \in Nat
  BY <1>1, <1>2, OfSizeMap DEF OfSize
<1>8. f \in Nat
  BY <1>1
<1>9. SizeGauge(m) = a + b + c + d + e + f
  BY DEF SizeGauge
<1> HIDE DEF a, b, c, d, e, f
<1>10. SizeGauge(m) \in Nat /\ a <= SizeGauge(m) /\ b <= SizeGauge(m) /\ e <= SizeGauge(m)
  BY <1>3, <1>4, <1>5, <1>6, <1>7, <1>8, <1>9
<1>11. Fits(a) /\ Fits(b) /\ Fits(e)
  BY <1>3, <1>4, <1>7, <1>10, FitsUpTo
<1> QED
  BY <1>0, <1>1, <1>11, BytesFit, EntriesFit DEF a, b, e

LEMMA SummaryFits ==
  ASSUME NEW m, IsSummary(m), Fits(SizeSummary(m))
  PROVE  /\ m.Method \in Seq(Bytes)
         /\ IsMap(m.Extra)
         /\ m.XXX_unrecognized = <<>>
         /\ Fits(Len(m.Method))
         /\ FitMap(m.Extra)
         /\ m = NewSummary(m.Method, m.Extra, <<>>)
<1>1. /\ m.Method \in Seq(Bytes)
      /\ IsMap(m.Extra)
      /\ m.XXX_unrecognized = <<>>
  BY DEF IsSummary
<1>0. m = NewSummary(m.Method, m.Extra, <<>>)
  BY DEF IsSummary, NewSummary
<1>2. WordBits \in 1 .. WordBits /\ Int32Bits \in 1 .. WordBits /\ 10 \in Tags
  BY WordBitsAssumption, WidthsAssumption DEF WordBitsAssumption,
     WidthsAssumption, Tags
<1> DEFINE a == SizeBytes(m.Method)
           b == SizeMap(m.Extra)
           c == Len(m.XXX_unrecognized)
<1>3. a \in Nat
  BY <1>1, <1>2, OfSizeBytes DEF OfSize
<1>4. b \in Nat
  BY <1>1, <1>2, OfSizeMap DEF OfSize
<1>5. c \in Nat
  BY <1>1
<1>6. SizeSummary(m) = a + b + c
  BY DEF SizeSummary
<1> HIDE DEF a, b, c
<1>7. SizeSummary(m) \in Nat /\ a <= SizeSummary(m) /\ b <= SizeSummary(m)
  BY <1>3, <1>4, <1>5, <1>6
<1>8. Fits(a) /\ Fits(b)
  BY <1>3, <1>4, <1>7, FitsUpTo
<1> QED
  BY <1>0, <1>1, <1>8, BytesFit, EntriesFit DEF a, b

LEMMA MetricFits ==
  ASSUME NEW m, IsMetric(m), Fits(SizeMetric(m))
  PROVE  /\ m.Type \in Ints(Int32Bits)
         /\ IsOne(m.Counter, IsCounter)
         /\ IsOne(m.Gauge, IsGauge)
         /\ IsOne(m.Summary, IsSummary)
         /\ m.Host \in Seq(Bytes)
         /\ m.Micro \in Ints(WordBits)
         /\ m.Svrname \in Seq(Bytes)
         /\ IsMap(m.Extra)
         /\ m.XXX_unrecognized = <<>>
         /\ Fits(SizeOne(m.Counter, SizeCounter))
         /\ Fits(SizeOne(m.Gauge, SizeGauge))
         /\ Fits(SizeOne(m.Summary, SizeSummary))
         /\ Fits(Len(m.Host))
         /\ Fits(Len(m.Svrname))
         /\ FitMap(m.Extra)
         /\ m = NewMetric(m.Type, m.Counter, m.Gauge, m.Summary, m.Host, m.Micro, m.Svrname, m.Extra, <<>>)
<1>1. /\ m.Type \in Ints(Int32Bits)
      /\ IsOne(m.Counter, IsCounter)
      /\ IsOne(m.Gauge, IsGauge)
      /\ IsOne(m.Summary, IsSummary)
      /\ m.Host \in Seq(Bytes)
      /\ m.Micro \in Ints(WordBits)
      /\ m.Svrname \in Seq(Bytes)
      /\ IsMap(m.Extra)
      /\ m.XXX_unrecognized = <<>>
  BY DEF IsMetric
<1>0. m = NewMetric(m.Type, m.Counter, m.Gauge, m.Summary, m.Host, m.Micro, m.Svrname, m.Extra, <<>>)
  BY DEF IsMetric, NewMetric
<1>2. WordBits \in 1 .. WordBits /\ Int32Bits \in 1 .. WordBits /\ 10 \in Tags
  BY WordBitsAssumption, WidthsAssumption DEF WordBitsAssumption,
     WidthsAssumption, Tags
<1> DEFINE a == SizeInt(m.Type)
           b == SizeOne(m.Counter, SizeCounter)
           c == SizeOne(m.Gauge, SizeGauge)
           d == SizeOne(m.Summary, SizeSummary)
           e == SizeBytes(m.Host)
           f == SizeInt(m.Micro)
           g == SizeBytes(m.Svrname)
           h == SizeMap(m.Extra)
           i == Len(m.XXX_unrecognized)
<1>3. a \in Nat
  BY <1>1, <1>2, OfSizeInt DEF OfSize
<1>4. b \in Nat
  BY <1>1, <1>2, OfSizeOneCounter DEF OfSize
<1>5. c \in Nat
  BY <1>1, <1>2, OfSizeOneGauge DEF OfSize
<1>6. d \in Nat
  BY <1>1, <1>2, OfSizeOneSummary DEF OfSize
<1>7. e \in Nat
  BY <1>1, <1>2, OfSizeBytes DEF OfSize
<1>8. f \in Nat
  BY <1>1, <1>2, OfSizeInt DEF OfSize
<1>9. g \in Nat
  BY <1>1, <1>2, OfSizeBytes DEF OfSize
<1>10. h \in Nat
  BY <1>1, <1>2, OfSizeMap DEF OfSize
<1>11. i \in Nat
  BY <1>1
<1>12. SizeMetric(m) = a + b + c + d + e + f + g + h + i
  BY DEF SizeMetric
<1> HIDE DEF a, b, c, d, e, f, g, h, i
<1>13. SizeMetric(m) \in Nat /\ b <= SizeMetric(m) /\ c <= SizeMetric(m) /\ d <= SizeMetric(m) /\ e <= SizeMetric(m) /\ g <= SizeMetric(m) /\ h <= SizeMetric(m)
  BY <1>3, <1>4, <1>5, <1>6, <1>7, <1>8, <1>9, <1>10, <1>11, <1>12
<1>14. Fits(b) /\ Fits(c) /\ Fits(d) /\ Fits(e) /\ Fits(g) /\ Fits(h)
  BY <1>4, <1>5, <1>6, <1>7, <1>9, <1>10, <1>13, FitsUpTo
<1> QED
  BY <1>0, <1>1, <1>14, BytesFit, EntriesFit DEF b, c, d, e, g, h

-----------------------------------------------------------------------------
(* What is put down is read back, whatever the reader did not know before.  *)

(* What is written of one field, read back into the fields around it.      *)
LEMMA RequestPutsSid ==
  ASSUME NEW u, NEW x1, x1 \in Ints(WordBits), NEW s \in PutInt(8, x1)
  PROVE  Whole("Request", NewRequest(0, 0, NoMap, <<>>, u), NewRequest(x1, 0, NoMap, <<>>, u), s)
<1>0. PICK m, y : m = NewRequest(0, 0, NoMap, <<>>, u) /\ y = NewRequest(x1, 0, NoMap, <<>>, u)
  OBVIOUS
<1>1. 8 \in Tags /\ 8 % 8 = 0 /\ 8 \div 8 = 1
  BY DEF Tags
<1>2. ASSUME NEW buf, NEW f, IsInt(buf, f, 8, x1) PROVE Only(FieldBy("Request", m, buf, f), y)
  <2>1. f.num = 1 /\ f.num \in Int /\ Only(Int64s(buf, f), x1)
    BY <1>1, <1>2, HoldsInt
  <2> QED
    BY <1>0, <2>1, RequestFields
<1>3. x1 = 0 => y = m
  BY <1>0
<1>4. Unsigned(x1) \in Words
  BY IntWord
<1> QED
  BY <1>0, <1>1, <1>2, <1>3, <1>4, PutIntReads

LEMMA RequestPutsRpcId ==
  ASSUME NEW x1, NEW u, NEW x2, x2 \in Ints(WordBits), NEW s \in PutInt(16, x2)
  PROVE  Whole("Request", NewRequest(x1, 0, NoMap, <<>>, u), NewRequest(x1, x2, NoMap, <<>>, u), s)
<1>0. PICK m, y : m = NewRequest(x1, 0, NoMap, <<>>, u) /\ y = NewRequest(x1, x2, NoMap, <<>>, u)
  OBVIOUS
<1>1. 16 \in Tags /\ 16 % 8 = 0 /\ 16 \div 8 = 2
  BY DEF Tags
<1>2. ASSUME NEW buf, NEW f, IsInt(buf, f, 16, x2) PROVE Only(FieldBy("Request", m, buf, f), y)
  <2>1. f.num = 2 /\ f.num \in Int /\ Only(Int64s(buf, f), x2)
    BY <1>1, <1>2, HoldsInt
  <2> QED
    BY <1>0, <2>1, RequestFields
<1>3. x2 = 0 => y = m
  BY <1>0
<1>4. Unsigned(x2) \in Words
  BY IntWord
<1> QED
  BY <1>0, <1>1, <1>2, <1>3, <1>4, PutIntReads

LEMMA RequestPutsHeaders ==
  ASSUME NEW x1, NEW x2, NEW u, NEW x3, IsMap(x3), FitMap(x3), NEW s \in PutMap(26, x3)
  PROVE  /\ s \in Seq(Bytes) /\ Reads("Request", NewRequest(x1, x2, NoMap, <<>>, u), NewRequest(x1, x2, x3, <<>>, u), s)
         /\ \A pre \in Seq(Bytes) :
              (\A g \in Parts(x3) : \A w \in PutMap(26, g) :
                 Written("Request", NewRequest(x1, x2, g, <<>>, u), pre \o w))
                => Cautious("Request", NewRequest(x1, x2, NoMap, <<>>, u), s, pre)
<1> DEFINE Make == [g \in Parts(x3) |-> NewRequest(x1, x2, g, <<>>, u)]
<1>1. 26 \in Tags /\ 26 % 8 = 2 /\ 26 \div 8 = 3
  BY DEF Tags
<1>2. \A g \in Parts(x3) : Make[g] = NewRequest(x1, x2, g, <<>>, u)
  OBVIOUS
<1> HIDE DEF Make
<1>3. ASSUME NEW g \in Parts(x3), NEW g2 \in Parts(x3), NEW buf, NEW f, f.num = 26 \div 8,
             Only(Entries(g, buf, f), g2)
      PROVE  Only(FieldBy("Request", Make[g], buf, f), Make[g2])
  <2>1. f.num = 3 /\ f.num \in Int
    BY <1>1, <1>3
  <2>2. Only(FieldBy("Request", NewRequest(x1, x2, g, <<>>, u), buf, f), NewRequest(x1, x2, g2, <<>>, u))
    BY <1>3, <2>1, RequestFields
  <2> QED
    BY <1>2, <2>2
<1>4. HasMap("Request", 26, x3, Make)
  BY <1>3 DEF HasMap
<1>5. Make[NoMap] = NewRequest(x1, x2, NoMap, <<>>, u) /\ Make[x3] = NewRequest(x1, x2, x3, <<>>, u)
  BY <1>2, SomeParts
<1>6. /\ s \in Seq(Bytes) /\ Reads("Request", Make[NoMap], Make[x3], s)
      /\ \A pre \in Seq(Bytes) :
           (\A g \in Parts(x3) : \A w \in PutMap(26, g) : Written("Request", Make[g], pre \o w))
             => Cautious("Request", Make[NoMap], s, pre)
  BY <1>1, <1>4, MapReads
<1> QED
  BY <1>2, <1>5, <1>6

LEMMA RequestPutsPacket ==
  ASSUME NEW x1, NEW x2, NEW x3, NEW u, NEW x4, x4 \in Seq(Bytes), Fits(Len(x4)), NEW s \in PutBytes(34, x4)
  PROVE  Whole("Request", NewRequest(x1, x2, x3, <<>>, u), NewRequest(x1, x2, x3, x4, u), s)
<1>0. PICK m, y : m = NewRequest(x1, x2, x3, <<>>, u) /\ y = NewRequest(x1, x2, x3, x4, u)
  OBVIOUS
<1>1. 34 \in Tags /\ 34 % 8 = 2 /\ 34 \div 8 = 4
  BY DEF Tags
<1>2. ASSUME NEW buf, NEW f, Strings(buf, f) = {x4} /\ f.num = 34 \div 8
      PROVE  Only(FieldBy("Request", m, buf, f), y)
  <2>1. f.num = 4 /\ f.num \in Int /\ Only(Strings(buf, f), x4)
    BY <1>1, <1>2 DEF Only
  <2> QED
    BY <1>0, <2>1, RequestFields
<1>3. x4 = <<>> => y = m
  BY <1>0
<1> QED
  BY <1>0, <1>1, <1>2, <1>3, PutBytesReads

(* All that is written of a message, read field by field, makes the        *)
(* message.                                                                *)
LEMMA RequestReads ==
  ASSUME NEW m, IsRequest(m), Fits(SizeRequest(m)), NEW w \in PutRequest(m), NEW u
  PROVE  /\ w \in Seq(Bytes)
         /\ Reads("Request", NewRequest(0, 0, NoMap, <<>>, u), [m EXCEPT !.XXX_unrecognized = u], w)
<1>0. PICK x1, x2, x3, x4 : x1 = m.Sid /\ x2 = m.RpcId /\ x3 = m.Headers /\ x4 = m.Packet
  OBVIOUS
<1>1. /\ x1 \in Ints(WordBits)
      /\ x2 \in Ints(WordBits)
      /\ IsMap(x3)
      /\ FitMap(x3)
      /\ x4 \in Seq(Bytes)
      /\ Fits(Len(x4))
      /\ m = NewRequest(x1, x2, x3, x4, <<>>)
  BY <1>0, RequestFits
<1> DEFINE A == PutInt(8, x1)
           B == PutInt(16, x2)
           C == PutMap(26, x3)
           D == PutBytes(34, x4)
<1>2. w \in A ++ B ++ C ++ D ++ {<<>>}
  BY <1>0, <1>1 DEF PutRequest, NewRequest
<1>3. \A s \in A : s \in Seq(Bytes) /\ Reads("Request", NewRequest(0, 0, NoMap, <<>>, u), NewRequest(x1, 0, NoMap, <<>>, u), s)
  BY <1>1, RequestPutsSid DEF Whole
<1>4. \A s \in B : s \in Seq(Bytes) /\ Reads("Request", NewRequest(x1, 0, NoMap, <<>>, u), NewRequest(x1, x2, NoMap, <<>>, u), s)
  BY <1>1, RequestPutsRpcId DEF Whole
<1>5. \A s \in C : s \in Seq(Bytes) /\ Reads("Request", NewRequest(x1, x2, NoMap, <<>>, u), NewRequest(x1, x2, x3, <<>>, u), s)
  BY <1>1, RequestPutsHeaders DEF Whole
<1>6. \A s \in D : s \in Seq(Bytes) /\ Reads("Request", NewRequest(x1, x2, x3, <<>>, u), NewRequest(x1, x2, x3, x4, u), s)
  BY <1>1, RequestPutsPacket DEF Whole
<1> HIDE DEF A, B, C, D
<1>7. PICK w4 \in A ++ B ++ C ++ D : w = w4 \o <<>>
  <2>1. Both(w, A ++ B ++ C ++ D, {<<>>})
    BY <1>2, OfCat
  <2> QED
    BY <2>1 DEF Both
<1>8. PICK w3 \in A ++ B ++ C, s4 \in D : w4 = w3 \o s4
  <2>1. Both(w4, A ++ B ++ C, D)
    BY <1>7, OfCat
  <2> QED
    BY <2>1 DEF Both
<1>9. PICK w2 \in A ++ B, s3 \in C : w3 = w2 \o s3
  <2>1. Both(w3, A ++ B, C)
    BY <1>8, OfCat
  <2> QED
    BY <2>1 DEF Both
<1>10. PICK w1 \in A, s2 \in B : w2 = w1 \o s2
  <2>1. Both(w2, A, B)
    BY <1>9, OfCat
  <2> QED
    BY <2>1 DEF Both
<1>11. w1 \in Seq(Bytes) /\ Reads("Request", NewRequest(0, 0, NoMap, <<>>, u), NewRequest(x1, 0, NoMap, <<>>, u), w1)
  BY <1>3
<1>12. w2 \in Seq(Bytes) /\ Reads("Request", NewRequest(0, 0, NoMap, <<>>, u), NewRequest(x1, x2, NoMap, <<>>, u), w2)
  BY <1>11, <1>4, <1>10, ReadsBoth
<1>13. w3 \in Seq(Bytes) /\ Reads("Request", NewRequest(0, 0, NoMap, <<>>, u), NewRequest(x1, x2, x3, <<>>, u), w3)
  BY <1>12, <1>5, <1>9, ReadsBoth
<1>14. w4 \in Seq(Bytes) /\ Reads("Request", NewRequest(0, 0, NoMap, <<>>, u), NewRequest(x1, x2, x3, x4, u), w4)
  BY <1>13, <1>6, <1>8, ReadsBoth
<1>15. w = w4
  BY <1>7, <1>14, ConcatEmptySeq
<1>16. [m EXCEPT !.XXX_unrecognized = u] = NewRequest(x1, x2, x3, x4, u)
  BY <1>1 DEF NewRequest
<1> QED
  BY <1>14, <1>15, <1>16

LEMMA ResponsePutsSid ==
  ASSUME NEW u, NEW x1, x1 \in Ints(WordBits), NEW s \in PutInt(8, x1)
  PROVE  Whole("Response", NewResponse(0, NoMap, 0, <<>>, u), NewResponse(x1, NoMap, 0, <<>>, u), s)
<1>0. PICK m, y : m = NewResponse(0, NoMap, 0, <<>>, u) /\ y = NewResponse(x1, NoMap, 0, <<>>, u)
  OBVIOUS
<1>1. 8 \in Tags /\ 8 % 8 = 0 /\ 8 \div 8 = 1
  BY DEF Tags
<1>2. ASSUME NEW buf, NEW f, IsInt(buf, f, 8, x1) PROVE Only(FieldBy("Response", m, buf, f), y)
  <2>1. f.num = 1 /\ f.num \in Int /\ Only(Int64s(buf, f), x1)
    BY <1>1, <1>2, HoldsInt
  <2> QED
    BY <1>0, <2>1, ResponseFields
<1>3. x1 = 0 => y = m
  BY <1>0
<1>4. Unsigned(x1) \in Words
  BY IntWord
<1> QED
  BY <1>0, <1>1, <1>2, <1>3, <1>4, PutIntReads

LEMMA ResponsePutsHeaders ==
  ASSUME NEW x1, NEW u, NEW x2, IsMap(x2), FitMap(x2), NEW s \in PutMap(18, x2)
  PROVE  /\ s \in Seq(Bytes) /\ Reads("Response", NewResponse(x1, NoMap, 0, <<>>, u), NewResponse(x1, x2, 0, <<>>, u), s)
         /\ \A pre \in Seq(Bytes) :
              (\A g \in Parts(x2) : \A w \in PutMap(18, g) :
                 Written("Response", NewResponse(x1, g, 0, <<>>, u), pre \o w))
                => Cautious("Response", NewResponse(x1, NoMap, 0, <<>>, u), s, pre)
<1> DEFINE Make == [g \in Parts(x2) |-> NewResponse(x1, g, 0, <<>>, u)]
<1>1. 18 \in Tags /\ 18 % 8 = 2 /\ 18 \div 8 = 2
  BY DEF Tags
<1>2. \A g \in Parts(x2) : Make[g] = NewResponse(x1, g, 0, <<>>, u)
  OBVIOUS
<1> HIDE DEF Make
<1>3. ASSUME NEW g \in Parts(x2), NEW g2 \in Parts(x2), NEW buf, NEW f, f.num = 18 \div 8,
             Only(Entries(g, buf, f), g2)
      PROVE  Only(FieldBy("Response", Make[g], buf, f), Make[g2])
  <2>1. f.num = 2 /\ f.num \in Int
    BY <1>1, <1>3
  <2>2. Only(FieldBy("Response", NewResponse(x1, g, 0, <<>>, u), buf, f), NewResponse(x1, g2, 0, <<>>, u))
    BY <1>3, <2>1, ResponseFields
  <2> QED
    BY <1>2, <2>2
<1>4. HasMap("Response", 18, x2, Make)
  BY <1>3 DEF HasMap
<1>5. Make[NoMap] = NewResponse(x1, NoMap, 0, <<>>, u) /\ Make[x2] = NewResponse(x1, x2, 0, <<>>, u)
  BY <1>2, SomeParts
<1>6. /\ s \in Seq(Bytes) /\ Reads("Response", Make[NoMap], Make[x2], s)
      /\ \A pre \in Seq(Bytes) :
           (\A g \in Parts(x2) : \A w \in PutMap(18, g) : Written("Response", Make[g], pre \o w))
             => Cautious("Response", Make[NoMap], s, pre)
  BY <1>1, <1>4, MapReads
<1> QED
  BY <1>2, <1>5, <1>6

LEMMA ResponsePutsCode ==
  ASSUME NEW x1, NEW x2, NEW u, NEW x3, x3 \in Ints(Int32Bits), NEW s \in PutInt(24, x3)
  PROVE  Whole("Response", NewResponse(x1, x2, 0, <<>>, u), NewResponse(x1, x2, x3, <<>>, u), s)
<1>0. PICK m, y : m = NewResponse(x1, x2, 0, <<>>, u) /\ y = NewResponse(x1, x2, x3, <<>>, u)
  OBVIOUS
<1>1. 24 \in Tags /\ 24 % 8 = 0 /\ 24 \div 8 = 3
  BY DEF Tags
<1>2. ASSUME NEW buf, NEW f, IsInt(buf, f, 24, x3) PROVE Only(FieldBy("Response", m, buf, f), y)
  <2>1. f.num = 3 /\ f.num \in Int /\ Only(Int32s(buf, f), x3)
    BY <1>1, <1>2, HoldsInt
  <2> QED
    BY <1>0, <2>1, ResponseFields
<1>3. x3 = 0 => y = m
  BY <1>0
<1>4. Unsigned(x3) \in Words
  BY IntWord
<1> QED
  BY <1>0, <1>1, <1>2, <1>3, <1>4, PutIntReads

LEMMA ResponsePutsPacket ==
  ASSUME NEW x1, NEW x2, NEW x3, NEW u, NEW x4, x4 \in Seq(Bytes), Fits(Len(x4)), NEW s \in PutBytes(34, x4)
  PROVE  Whole("Response", NewResponse(x1, x2, x3, <<>>, u), NewResponse(x1, x2, x3, x4, u), s)
<1>0. PICK m, y : m = NewResponse(x1, x2, x3, <<>>, u) /\ y = NewResponse(x1, x2, x3, x4, u)
  OBVIOUS
<1>1. 34 \in Tags /\ 34 % 8 = 2 /\ 34 \div 8 = 4
  BY DEF Tags
<1>2. ASSUME NEW buf, NEW f, Strings(buf, f) = {x4} /\ f.num = 34 \div 8
      PROVE  Only(FieldBy("Response", m, buf, f), y)
  <2>1. f.num = 4 /\ f.num \in Int /\ Only(Strings(buf, f), x4)
    BY <1>1, <1>2 DEF Only
  <2> QED
    BY <1>0, <2>1, ResponseFields
<1>3. x4 = <<>> => y = m
  BY <1>0
<1> QED
  BY <1>0, <1>1, <1>2, <1>3, PutBytesReads

LEMMA ResponseReads ==
  ASSUME NEW m, IsResponse(m), Fits(SizeResponse(m)), NEW w \in PutResponse(m), NEW u
  PROVE  /\ w \in Seq(Bytes)
         /\ Reads("Response", NewResponse(0, NoMap, 0, <<>>, u), [m EXCEPT !.XXX_unrecognized = u], w)
<1>0. PICK x1, x2, x3, x4 : x1 = m.Sid /\ x2 = m.Headers /\ x3 = m.Code /\ x4 = m.Packet
  OBVIOUS
<1>1. /\ x1 \in Ints(WordBits)
      /\ IsMap(x2)
      /\ FitMap(x2)
      /\ x3 \in Ints(Int32Bits)
      /\ x4 \in Seq(Bytes)
      /\ Fits(Len(x4))
      /\ m = NewResponse(x1, x2, x3, x4, <<>>)
  BY <1>0, ResponseFits
<1> DEFINE A == PutInt(8, x1)
           B == PutMap(18, x2)
           C == PutInt(24, x3)
           D == PutBytes(34, x4)
<1>2. w \in A ++ B ++ C ++ D ++ {<<>>}
  BY <1>0, <1>1 DEF PutResponse, NewResponse
<1>3. \A s \in A : s \in Seq(Bytes) /\ Reads("Response", NewResponse(0, NoMap, 0, <<>>, u), NewResponse(x1, NoMap, 0, <<>>, u), s)
  BY <1>1, ResponsePutsSid DEF Whole
<1>4. \A s \in B : s \in Seq(Bytes) /\ Reads("Response", NewResponse(x1, NoMap, 0, <<>>, u), NewResponse(x1, x2, 0, <<>>, u), s)
  BY <1>1, ResponsePutsHeaders DEF Whole
<1>5. \A s \in C : s \in Seq(Bytes) /\ Reads("Response", NewResponse(x1, x2, 0, <<>>, u), NewResponse(x1, x2, x3, <<>>, u), s)
  BY <1>1, ResponsePutsCode DEF Whole
<1>6. \A s \in D : s \in Seq(Bytes) /\ Reads("Response", NewResponse(x1, x2, x3, <<>>, u), NewResponse(x1, x2, x3, x4, u), s)
  BY <1>1, ResponsePutsPacket DEF Whole
<1> HIDE DEF A, B, C, D
<1>7. PICK w4 \in A ++ B ++ C ++ D : w = w4 \o <<>>
  <2>1. Both(w, A ++ B ++ C ++ D, {<<>>})
    BY <1>2, OfCat
  <2> QED
    BY <2>1 DEF Both
<1>8. PICK w3 \in A ++ B ++ C, s4 \in D : w4 = w3 \o s4
  <2>1. Both(w4, A ++ B ++ C, D)
    BY <1>7, OfCat
  <2> QED
    BY <2>1 DEF Both
<1>9. PICK w2 \in A ++ B, s3 \in C : w3 = w2 \o s3
  <2>1. Both(w3, A ++ B, C)
    BY <1>8, OfCat
  <2> QED
    BY <2>1 DEF Both
<1>10. PICK w1 \in A, s2 \in B : w2 = w1 \o s2
  <2>1. Both(w2, A, B)
    BY <1>9, OfCat
  <2> QED
    BY <2>1 DEF Both
<1>11. w1 \in Seq(Bytes) /\ Reads("Response", NewResponse(0, NoMap, 0, <<>>, u), NewResponse(x1, NoMap, 0, <<>>, u), w1)
  BY <1>3
<1>12. w2 \in Seq(Bytes) /\ Reads("Response", NewResponse(0, NoMap, 0, <<>>, u), NewResponse(x1, x2, 0, <<>>, u), w2)
  BY <1>11, <1>4, <1>10, ReadsBoth
<1>13. w3 \in Seq(Bytes) /\ Reads("Response", NewResponse(0, NoMap, 0, <<>>, u), NewResponse(x1, x2, x3, <<>>, u), w3)
  BY <1>12, <1>5, <1>9, ReadsBoth
<1>14. w4 \in Seq(Bytes) /\ Reads("Response", NewResponse(0, NoMap, 0, <<>>, u), NewResponse(x1, x2, x3, x4, u), w4)
  BY <1>13, <1>6, <1>8, ReadsBoth
<1>15. w = w4
  BY <1>7, <1>14, ConcatEmptySeq
<1>16. [m EXCEPT !.XXX_unrecognized = u] = NewResponse(x1, x2, x3, x4, u)
  BY <1>1 DEF NewResponse
<1> QED
  BY <1>14, <1>15, <1>16

LEMMA CounterPutsMethod ==
  ASSUME NEW u, NEW x1, x1 \in Seq(Bytes), Fits(Len(x1)), NEW s \in PutBytes(10, x1)
  PROVE  Whole("Counter", NewCounter(<<>>, <<>>, NoMap, u), NewCounter(x1, <<>>, NoMap, u), s)
<1>0. PICK m, y : m = NewCounter(<<>>, <<>>, NoMap, u) /\ y = NewCounter(x1, <<>>, NoMap, u)
  OBVIOUS
<1>1. 10 \in Tags /\ 10 % 8 = 2 /\ 10 \div 8 = 1
  BY DEF Tags
<1>2. ASSUME NEW buf, NEW f, Strings(buf, f) = {x1} /\ f.num = 10 \div 8
      PROVE  Only(FieldBy("Counter", m, buf, f), y)
  <2>1. f.num = 1 /\ f.num \in Int /\ Only(Strings(buf, f), x1)
    BY <1>1, <1>2 DEF Only
  <2> QED
    BY <1>0, <2>1, CounterFields
<1>3. x1 = <<>> => y = m
  BY <1>0
<1> QED
  BY <1>0, <1>1, <1>2, <1>3, PutBytesReads

LEMMA CounterPutsCode ==
  ASSUME NEW x1, NEW u, NEW x2, x2 \in Seq(Bytes), Fits(Len(x2)), NEW s \in PutBytes(18, x2)
  PROVE  Whole("Counter", NewCounter(x1, <<>>, NoMap, u), NewCounter(x1, x2, NoMap, u), s)
<1>0. PICK m, y : m = NewCounter(x1, <<>>, NoMap, u) /\ y = NewCounter(x1, x2, NoMap, u)
  OBVIOUS
<1>1. 18 \in Tags /\ 18 % 8 = 2 /\ 18 \div 8 = 2
  BY DEF Tags
<1>2. ASSUME NEW buf, NEW f, Strings(buf, f) = {x2} /\ f.num = 18 \div 8
      PROVE  Only(FieldBy("Counter", m, buf, f), y)
  <2>1. f.num = 2 /\ f.num \in Int /\ Only(Strings(buf, f), x2)
    BY <1>1, <1>2 DEF Only
  <2> QED
    BY <1>0, <2>1, CounterFields
<1>3. x2 = <<>> => y = m
  BY <1>0
<1> QED
  BY <1>0, <1>1, <1>2, <1>3, PutBytesReads

LEMMA CounterPutsExtra ==
  ASSUME NEW x1, NEW x2, NEW u, NEW x3, IsMap(x3), FitMap(x3), NEW s \in PutMap(26, x3)
  PROVE  /\ s \in Seq(Bytes) /\ Reads("Counter", NewCounter(x1, x2, NoMap, u), NewCounter(x1, x2, x3, u), s)
         /\ \A pre \in Seq(Bytes) :
              (\A g \in Parts(x3) : \A w \in PutMap(26, g) :
                 Written("Counter", NewCounter(x1, x2, g, u), pre \o w))
                => Cautious("Counter", NewCounter(x1, x2, NoMap, u), s, pre)
<1> DEFINE Make == [g \in Parts(x3) |-> NewCounter(x1, x2, g, u)]
<1>1. 26 \in Tags /\ 26 % 8 = 2 /\ 26 \div 8 = 3
  BY DEF Tags
<1>2. \A g \in Parts(x3) : Make[g] = NewCounter(x1, x2, g, u)
  OBVIOUS
<1> HIDE DEF Make
<1>3. ASSUME NEW g \in Parts(x3), NEW g2 \in Parts(x3), NEW buf, NEW f, f.num = 26 \div 8,
             Only(Entries(g, buf, f), g2)
      PROVE  Only(FieldBy("Counter", Make[g], buf, f), Make[g2])
  <2>1. f.num = 3 /\ f.num \in Int
    BY <1>1, <1>3
  <2>2. Only(FieldBy("Counter", NewCounter(x1, x2, g, u), buf, f), NewCounter(x1, x2, g2, u))
    BY <1>3, <2>1, CounterFields
  <2> QED
    BY <1>2, <2>2
<1>4. HasMap("Counter", 26, x3, Make)
  BY <1>3 DEF HasMap
<1>5. Make[NoMap] = NewCounter(x1, x2, NoMap, u) /\ Make[x3] = NewCounter(x1, x2, x3, u)
  BY <1>2, SomeParts
<1>6. /\ s \in Seq(Bytes) /\ Reads("Counter", Make[NoMap], Make[x3], s)
      /\ \A pre \in Seq(Bytes) :
           (\A g \in Parts(x3) : \A w \in PutMap(26, g) : Written("Counter", Make[g], pre \o w))
             => Cautious("Counter", Make[NoMap], s, pre)
  BY <1>1, <1>4, MapReads
<1> QED
  BY <1>2, <1>5, <1>6

LEMMA CounterReads ==
  ASSUME NEW m, IsCounter(m), Fits(SizeCounter(m)), NEW w \in PutCounter(m), NEW u
  PROVE  /\ w \in Seq(Bytes)
         /\ Reads("Counter", NewCounter(<<>>, <<>>, NoMap, u), [m EXCEPT !.XXX_unrecognized = u], w)
<1>0. PICK x1, x2, x3 : x1 = m.Method /\ x2 = m.Code /\ x3 = m.Extra
  OBVIOUS
<1>1. /\ x1 \in Seq(Bytes)
      /\ Fits(Len(x1))
      /\ x2 \in Seq(Bytes)
      /\ Fits(Len(x2))
      /\ IsMap(x3)
      /\ FitMap(x3)
      /\ m = NewCounter(x1, x2, x3, <<>>)
  BY <1>0, CounterFits
<1> DEFINE A == PutBytes(10, x1)
           B == PutBytes(18, x2)
           C == PutMap(26, x3)
<1>2. w \in A ++ B ++ C ++ {<<>>}
  BY <1>0, <1>1 DEF PutCounter, NewCounter
<1>3. \A s \in A : s \in Seq(Bytes) /\ Reads("Counter", NewCounter(<<>>, <<>>, NoMap, u), NewCounter(x1, <<>>, NoMap, u), s)
  BY <1>1, CounterPutsMethod DEF Whole
<1>4. \A s \in B : s \in Seq(Bytes) /\ Reads("Counter", NewCounter(x1, <<>>, NoMap, u), NewCounter(x1, x2, NoMap, u), s)
  BY <1>1, CounterPutsCode DEF Whole
<1>5. \A s \in C : s \in Seq(Bytes) /\ Reads("Counter", NewCounter(x1, x2, NoMap, u), NewCounter(x1, x2, x3, u), s)
  BY <1>1, CounterPutsExtra DEF Whole
<1> HIDE DEF A, B, C
<1>6. PICK w3 \in A ++ B ++ C : w = w3 \o <<>>
  <2>1. Both(w, A ++ B ++ C, {<<>>})
    BY <1>2, OfCat
  <2> QED
    BY <2>1 DEF Both
<1>7. PICK w2 \in A ++ B, s3 \in C : w3 = w2 \o s3
  <2>1. Both(w3, A ++ B, C)
    BY <1>6, OfCat
  <2> QED
    BY <2>1 DEF Both
<1>8. PICK w1 \in A, s2 \in B : w2 = w1 \o s2
  <2>1. Both(w2, A, B)
    BY <1>7, OfCat
  <2> QED
    BY <2>1 DEF Both
<1>9. w1 \in Seq(Bytes) /\ Reads("Counter", NewCounter(<<>>, <<>>, NoMap, u), NewCounter(x1, <<>>, NoMap, u), w1)
  BY <1>3
<1>10. w2 \in Seq(Bytes) /\ Reads("Counter", NewCounter(<<>>, <<>>, NoMap, u), NewCounter(x1, x2, NoMap, u), w2)
  BY <1>9, <1>4, <1>8, ReadsBoth
<1>11. w3 \in Seq(Bytes) /\ Reads("Counter", NewCounter(<<>>, <<>>, NoMap, u), NewCounter(x1, x2, x3, u), w3)
  BY <1>10, <1>5, <1>7, ReadsBoth
<1>12. w = w3
  BY <1>6, <1>11, ConcatEmptySeq
<1>13. [m EXCEPT !.XXX_unrecognized = u] = NewCounter(x1, x2, x3, u)
  BY <1>1 DEF NewCounter
<1> QED
  BY <1>11, <1>12, <1>13

(* As a field of a metric, it is one message behind a pointer.             *)
LEMMA CounterNested ==
  ASSUME NEW m, IsCounter(m), Fits(SizeCounter(m)), NEW w \in PutCounter(m), NEW buf, NEW f,
         Only(Strings(buf, f), w)
  PROVE  Only(Nested(<<>>, buf, f, Counter, CounterField), <<m>>)
<1>1. Counter = NewCounter(<<>>, <<>>, NoMap, <<>>)
  BY DEF Counter, NewCounter
<1>2. w \in Seq(Bytes) /\ Reads("Counter", Counter, [m EXCEPT !.XXX_unrecognized = <<>>], w)
  BY <1>1, CounterReads
<1>3. [m EXCEPT !.XXX_unrecognized = <<>>] = m
  BY CounterFits DEF NewCounter
<1>4. Reading("Counter", Counter, w, 1) = {m}
  BY <1>2, <1>3, ReadsAll
<1>5. Unmarshal(Counter, w, CounterField) = {m}
  BY <1>4, DecodeCounterIs DEF Unmarshal, Reading
<1>6. PICK S : S = Strings(buf, f)
  OBVIOUS
<1>7. S = {w}
  BY <1>6 DEF Only
<1>8. Nested(<<>>, buf, f, Counter, CounterField) = {<<x>> : x \in UNION {Unmarshal(Counter, s, CounterField) : s \in S}}
  BY <1>6 DEF Nested
<1>9. UNION {Unmarshal(Counter, s, CounterField) : s \in S} = {m}
  BY <1>5, <1>7
<1> QED
  BY <1>8, <1>9 DEF Only

LEMMA GaugePutsType ==
  ASSUME NEW u, NEW x1, x1 \in Seq(Bytes), Fits(Len(x1)), NEW s \in PutBytes(10, x1)
  PROVE  Whole("Gauge", NewGauge(<<>>, <<>>, 0, FALSE, NoMap, u), NewGauge(x1, <<>>, 0, FALSE, NoMap, u), s)
<1>0. PICK m, y : m = NewGauge(<<>>, <<>>, 0, FALSE, NoMap, u) /\ y = NewGauge(x1, <<>>, 0, FALSE, NoMap, u)
  OBVIOUS
<1>1. 10 \in Tags /\ 10 % 8 = 2 /\ 10 \div 8 = 1
  BY DEF Tags
<1>2. ASSUME NEW buf, NEW f, Strings(buf, f) = {x1} /\ f.num = 10 \div 8
      PROVE  Only(FieldBy("Gauge", m, buf, f), y)
  <2>1. f.num = 1 /\ f.num \in Int /\ Only(Strings(buf, f), x1)
    BY <1>1, <1>2 DEF Only
  <2> QED
    BY <1>0, <2>1, GaugeFields
<1>3. x1 = <<>> => y = m
  BY <1>0
<1> QED
  BY <1>0, <1>1, <1>2, <1>3, PutBytesReads

LEMMA GaugePutsValue ==
  ASSUME NEW x1, NEW u, NEW x2, x2 \in Seq(Bytes), Fits(Len(x2)), NEW s \in PutBytes(18, x2)
  PROVE  Whole("Gauge", NewGauge(x1, <<>>, 0, FALSE, NoMap, u), NewGauge(x1, x2, 0, FALSE, NoMap, u), s)
<1>0. PICK m, y : m = NewGauge(x1, <<>>, 0, FALSE, NoMap, u) /\ y = NewGauge(x1, x2, 0, FALSE, NoMap, u)
  OBVIOUS
<1>1. 18 \in Tags /\ 18 % 8 = 2 /\ 18 \div 8 = 2
  BY DEF Tags
<1>2. ASSUME NEW buf, NEW f, Strings(buf, f) = {x2} /\ f.num = 18 \div 8
      PROVE  Only(FieldBy("Gauge", m, buf, f), y)
  <2>1. f.num = 2 /\ f.num \in Int /\ Only(Strings(buf, f), x2)
    BY <1>1, <1>2 DEF Only
  <2> QED
    BY <1>0, <2>1, GaugeFields
<1>3. x2 = <<>> => y = m
  BY <1>0
<1> QED
  BY <1>0, <1>1, <1>2, <1>3, PutBytesReads

LEMMA GaugePutsAdd ==
  ASSUME NEW x1, NEW x2, NEW u, NEW x3, x3 \in Ints(WordBits), NEW s \in PutInt(24, x3)
  PROVE  Whole("Gauge", NewGauge(x1, x2, 0, FALSE, NoMap, u), NewGauge(x1, x2, x3, FALSE, NoMap, u), s)
<1>0. PICK m, y : m = NewGauge(x1, x2, 0, FALSE, NoMap, u) /\ y = NewGauge(x1, x2, x3, FALSE, NoMap, u)
  OBVIOUS
<1>1. 24 \in Tags /\ 24 % 8 = 0 /\ 24 \div 8 = 3
  BY DEF Tags
<1>2. ASSUME NEW buf, NEW f, IsInt(buf, f, 24, x3) PROVE Only(FieldBy("Gauge", m, buf, f), y)
  <2>1. f.num = 3 /\ f.num \in Int /\ Only(Int64s(buf, f), x3)
    BY <1>1, <1>2, HoldsInt
  <2> QED
    BY <1>0, <2>1, GaugeFields
<1>3. x3 = 0 => y = m
  BY <1>0
<1>4. Unsigned(x3) \in Words
  BY IntWord
<1> QED
  BY <1>0, <1>1, <1>2, <1>3, <1>4, PutIntReads

LEMMA GaugePutsInc ==
  ASSUME NEW x1, NEW x2, NEW x3, NEW u, NEW x4, x4 \in BOOLEAN, NEW s \in PutBool(32, x4)
  PROVE  Whole("Gauge", NewGauge(x1, x2, x3, FALSE, NoMap, u), NewGauge(x1, x2, x3, x4, NoMap, u), s)
<1>0. PICK m, y : m = NewGauge(x1, x2, x3, FALSE, NoMap, u) /\ y = NewGauge(x1, x2, x3, x4, NoMap, u)
  OBVIOUS
<1>1. 32 \in Tags /\ 32 % 8 = 0 /\ 32 \div 8 = 4
  BY DEF Tags
<1>2. ASSUME NEW buf, NEW f, x4 /\ IsInt(buf, f, 32, 1) PROVE Only(FieldBy("Gauge", m, buf, f), y)
  <2>1. f.num = 4 /\ f.num \in Int /\ Only(Bools(buf, f), x4)
    <3>1. x4 = TRUE
      BY <1>2
    <3>2. f.num = 32 \div 8 /\ Only(Bools(buf, f), TRUE)
      BY <1>2, HoldsBool
    <3>3. Only(Bools(buf, f), x4)
      BY <3>1, <3>2, Zenon
    <3> QED
      BY <1>1, <3>2, <3>3
  <2>2. Only(FieldBy("Gauge", NewGauge(x1, x2, x3, FALSE, NoMap, u), buf, f),
             NewGauge(x1, x2, x3, x4, NoMap, u))
    BY <2>1, GaugeFields
  <2> QED
    BY <1>0, <2>2
<1>3. x4 = FALSE => y = m
  BY <1>0
<1> QED
  BY <1>0, <1>1, <1>2, <1>3, PutBoolReads

LEMMA GaugePutsExtra ==
  ASSUME NEW x1, NEW x2, NEW x3, NEW x4, NEW u, NEW x5, IsMap(x5), FitMap(x5), NEW s \in PutMap(42, x5)
  PROVE  /\ s \in Seq(Bytes) /\ Reads("Gauge", NewGauge(x1, x2, x3, x4, NoMap, u), NewGauge(x1, x2, x3, x4, x5, u), s)
         /\ \A pre \in Seq(Bytes) :
              (\A g \in Parts(x5) : \A w \in PutMap(42, g) :
                 Written("Gauge", NewGauge(x1, x2, x3, x4, g, u), pre \o w))
                => Cautious("Gauge", NewGauge(x1, x2, x3, x4, NoMap, u), s, pre)
<1> DEFINE Make == [g \in Parts(x5) |-> NewGauge(x1, x2, x3, x4, g, u)]
<1>1. 42 \in Tags /\ 42 % 8 = 2 /\ 42 \div 8 = 5
  BY DEF Tags
<1>2. \A g \in Parts(x5) : Make[g] = NewGauge(x1, x2, x3, x4, g, u)
  OBVIOUS
<1> HIDE DEF Make
<1>3. ASSUME NEW g \in Parts(x5), NEW g2 \in Parts(x5), NEW buf, NEW f, f.num = 42 \div 8,
             Only(Entries(g, buf, f), g2)
      PROVE  Only(FieldBy("Gauge", Make[g], buf, f), Make[g2])
  <2>1. f.num = 5 /\ f.num \in Int
    BY <1>1, <1>3
  <2>2. Only(FieldBy("Gauge", NewGauge(x1, x2, x3, x4, g, u), buf, f), NewGauge(x1, x2, x3, x4, g2, u))
    BY <1>3, <2>1, GaugeFields
  <2> QED
    BY <1>2, <2>2
<1>4. HasMap("Gauge", 42, x5, Make)
  BY <1>3 DEF HasMap
<1>5. Make[NoMap] = NewGauge(x1, x2, x3, x4, NoMap, u) /\ Make[x5] = NewGauge(x1, x2, x3, x4, x5, u)
  BY <1>2, SomeParts
<1>6. /\ s \in Seq(Bytes) /\ Reads("Gauge", Make[NoMap], Make[x5], s)
      /\ \A pre \in Seq(Bytes) :
           (\A g \in Parts(x5) : \A w \in PutMap(42, g) : Written("Gauge", Make[g], pre \o w))
             => Cautious("Gauge", Make[NoMap], s, pre)
  BY <1>1, <1>4, MapReads
<1> QED
  BY <1>2, <1>5, <1>6

LEMMA GaugeReads ==
  ASSUME NEW m, IsGauge(m), Fits(SizeGauge(m)), NEW w \in PutGauge(m), NEW u
  PROVE  /\ w \in Seq(Bytes)
         /\ Reads("Gauge", NewGauge(<<>>, <<>>, 0, FALSE, NoMap, u), [m EXCEPT !.XXX_unrecognized = u], w)
<1>0. PICK x1, x2, x3, x4, x5 : x1 = m.Type /\ x2 = m.Value /\ x3 = m.Add /\ x4 = m.Inc /\ x5 = m.Extra
  OBVIOUS
<1>1. /\ x1 \in Seq(Bytes)
      /\ Fits(Len(x1))
      /\ x2 \in Seq(Bytes)
      /\ Fits(Len(x2))
      /\ x3 \in Ints(WordBits)
      /\ x4 \in BOOLEAN
      /\ IsMap(x5)
      /\ FitMap(x5)
      /\ m = NewGauge(x1, x2, x3, x4, x5, <<>>)
  BY <1>0, GaugeFits
<1> DEFINE A == PutBytes(10, x1)
           B == PutBytes(18, x2)
           C == PutInt(24, x3)
           D == PutBool(32, x4)
           E == PutMap(42, x5)
<1>2. w \in A ++ B ++ C ++ D ++ E ++ {<<>>}
  BY <1>0, <1>1 DEF PutGauge, NewGauge
<1>3. \A s \in A : s \in Seq(Bytes) /\ Reads("Gauge", NewGauge(<<>>, <<>>, 0, FALSE, NoMap, u), NewGauge(x1, <<>>, 0, FALSE, NoMap, u), s)
  BY <1>1, GaugePutsType DEF Whole
<1>4. \A s \in B : s \in Seq(Bytes) /\ Reads("Gauge", NewGauge(x1, <<>>, 0, FALSE, NoMap, u), NewGauge(x1, x2, 0, FALSE, NoMap, u), s)
  BY <1>1, GaugePutsValue DEF Whole
<1>5. \A s \in C : s \in Seq(Bytes) /\ Reads("Gauge", NewGauge(x1, x2, 0, FALSE, NoMap, u), NewGauge(x1, x2, x3, FALSE, NoMap, u), s)
  BY <1>1, GaugePutsAdd DEF Whole
<1>6. \A s \in D : s \in Seq(Bytes) /\ Reads("Gauge", NewGauge(x1, x2, x3, FALSE, NoMap, u), NewGauge(x1, x2, x3, x4, NoMap, u), s)
  BY <1>1, GaugePutsInc DEF Whole
<1>7. \A s \in E : s \in Seq(Bytes) /\ Reads("Gauge", NewGauge(x1, x2, x3, x4, NoMap, u), NewGauge(x1, x2, x3, x4, x5, u), s)
  BY <1>1, GaugePutsExtra DEF Whole
<1> HIDE DEF A, B, C, D, E
<1>8. PICK w5 \in A ++ B ++ C ++ D ++ E : w = w5 \o <<>>
  <2>1. Both(w, A ++ B ++ C ++ D ++ E, {<<>>})
    BY <1>2, OfCat
  <2> QED
    BY <2>1 DEF Both
<1>9. PICK w4 \in A ++ B ++ C ++ D, s5 \in E : w5 = w4 \o s5
  <2>1. Both(w5, A ++ B ++ C ++ D, E)
    BY <1>8, OfCat
  <2> QED
    BY <2>1 DEF Both
<1>10. PICK w3 \in A ++ B ++ C, s4 \in D : w4 = w3 \o s4
  <2>1. Both(w4, A ++ B ++ C, D)
    BY <1>9, OfCat
  <2> QED
    BY <2>1 DEF Both
<1>11. PICK w2 \in A ++ B, s3 \in C : w3 = w2 \o s3
  <2>1. Both(w3, A ++ B, C)
    BY <1>10, OfCat
  <2> QED
    BY <2>1 DEF Both
<1>12. PICK w1 \in A, s2 \in B : w2 = w1 \o s2
  <2>1. Both(w2, A, B)
    BY <1>11, OfCat
  <2> QED
    BY <2>1 DEF Both
<1>13. w1 \in Seq(Bytes) /\ Reads("Gauge", NewGauge(<<>>, <<>>, 0, FALSE, NoMap, u), NewGauge(x1, <<>>, 0, FALSE, NoMap, u), w1)
  BY <1>3
<1>14. w2 \in Seq(Bytes) /\ Reads("Gauge", NewGauge(<<>>, <<>>, 0, FALSE, NoMap, u), NewGauge(x1, x2, 0, FALSE, NoMap, u), w2)
  BY <1>13, <1>4, <1>12, ReadsBoth
<1>15. w3 \in Seq(Bytes) /\ Reads("Gauge", NewGauge(<<>>, <<>>, 0, FALSE, NoMap, u), NewGauge(x1, x2, x3, FALSE, NoMap, u), w3)
  BY <1>14, <1>5, <1>11, ReadsBoth
<1>16. w4 \in Seq(Bytes) /\ Reads("Gauge", NewGauge(<<>>, <<>>, 0, FALSE, NoMap, u), NewGauge(x1, x2, x3, x4, NoMap, u), w4)
  BY <1>15, <1>6, <1>10, ReadsBoth
<1>17. w5 \in Seq(Bytes) /\ Reads("Gauge", NewGauge(<<>>, <<>>, 0, FALSE, NoMap, u), NewGauge(x1, x2, x3, x4, x5, u), w5)
  BY <1>16, <1>7, <1>9, ReadsBoth
<1>18. w = w5
  BY <1>8, <1>17, ConcatEmptySeq
<1>19. [m EXCEPT !.XXX_unrecognized = u] = NewGauge(x1, x2, x3, x4, x5, u)
  BY <1>1 DEF NewGauge
<1> QED
  BY <1>17, <1>18, <1>19

LEMMA GaugeNested ==
  ASSUME NEW m, IsGauge(m), Fits(SizeGauge(m)), NEW w \in PutGauge(m), NEW buf, NEW f,
         Only(Strings(buf, f), w)
  PROVE  Only(Nested(<<>>, buf, f, Gauge, GaugeField), <<m>>)
<1>1. Gauge = NewGauge(<<>>, <<>>, 0, FALSE, NoMap, <<>>)
  BY DEF Gauge, NewGauge
<1>2. w \in Seq(Bytes) /\ Reads("Gauge", Gauge, [m EXCEPT !.XXX_unrecognized = <<>>], w)
  BY <1>1, GaugeReads
<1>3. [m EXCEPT !.XXX_unrecognized = <<>>] = m
  BY GaugeFits DEF NewGauge
<1>4. Reading("Gauge", Gauge, w, 1) = {m}
  BY <1>2, <1>3, ReadsAll
<1>5. Unmarshal(Gauge, w, GaugeField) = {m}
  BY <1>4, DecodeGaugeIs DEF Unmarshal, Reading
<1>6. PICK S : S = Strings(buf, f)
  OBVIOUS
<1>7. S = {w}
  BY <1>6 DEF Only
<1>8. Nested(<<>>, buf, f, Gauge, GaugeField) = {<<x>> : x \in UNION {Unmarshal(Gauge, s, GaugeField) : s \in S}}
  BY <1>6 DEF Nested
<1>9. UNION {Unmarshal(Gauge, s, GaugeField) : s \in S} = {m}
  BY <1>5, <1>7
<1> QED
  BY <1>8, <1>9 DEF Only

LEMMA SummaryPutsMethod ==
  ASSUME NEW u, NEW x1, x1 \in Seq(Bytes), Fits(Len(x1)), NEW s \in PutBytes(10, x1)
  PROVE  Whole("Summary", NewSummary(<<>>, NoMap, u), NewSummary(x1, NoMap, u), s)
<1>0. PICK m, y : m = NewSummary(<<>>, NoMap, u) /\ y = NewSummary(x1, NoMap, u)
  OBVIOUS
<1>1. 10 \in Tags /\ 10 % 8 = 2 /\ 10 \div 8 = 1
  BY DEF Tags
<1>2. ASSUME NEW buf, NEW f, Strings(buf, f) = {x1} /\ f.num = 10 \div 8
      PROVE  Only(FieldBy("Summary", m, buf, f), y)
  <2>1. f.num = 1 /\ f.num \in Int /\ Only(Strings(buf, f), x1)
    BY <1>1, <1>2 DEF Only
  <2> QED
    BY <1>0, <2>1, SummaryFields
<1>3. x1 = <<>> => y = m
  BY <1>0
<1> QED
  BY <1>0, <1>1, <1>2, <1>3, PutBytesReads

LEMMA SummaryPutsExtra ==
  ASSUME NEW x1, NEW u, NEW x2, IsMap(x2), FitMap(x2), NEW s \in PutMap(18, x2)
  PROVE  /\ s \in Seq(Bytes) /\ Reads("Summary", NewSummary(x1, NoMap, u), NewSummary(x1, x2, u), s)
         /\ \A pre \in Seq(Bytes) :
              (\A g \in Parts(x2) : \A w \in PutMap(18, g) :
                 Written("Summary", NewSummary(x1, g, u), pre \o w))
                => Cautious("Summary", NewSummary(x1, NoMap, u), s, pre)
<1> DEFINE Make == [g \in Parts(x2) |-> NewSummary(x1, g, u)]
<1>1. 18 \in Tags /\ 18 % 8 = 2 /\ 18 \div 8 = 2
  BY DEF Tags
<1>2. \A g \in Parts(x2) : Make[g] = NewSummary(x1, g, u)
  OBVIOUS
<1> HIDE DEF Make
<1>3. ASSUME NEW g \in Parts(x2), NEW g2 \in Parts(x2), NEW buf, NEW f, f.num = 18 \div 8,
             Only(Entries(g, buf, f), g2)
      PROVE  Only(FieldBy("Summary", Make[g], buf, f), Make[g2])
  <2>1. f.num = 2 /\ f.num \in Int
    BY <1>1, <1>3
  <2>2. Only(FieldBy("Summary", NewSummary(x1, g, u), buf, f), NewSummary(x1, g2, u))
    BY <1>3, <2>1, SummaryFields
  <2> QED
    BY <1>2, <2>2
<1>4. HasMap("Summary", 18, x2, Make)
  BY <1>3 DEF HasMap
<1>5. Make[NoMap] = NewSummary(x1, NoMap, u) /\ Make[x2] = NewSummary(x1, x2, u)
  BY <1>2, SomeParts
<1>6. /\ s \in Seq(Bytes) /\ Reads("Summary", Make[NoMap], Make[x2], s)
      /\ \A pre \in Seq(Bytes) :
           (\A g \in Parts(x2) : \A w \in PutMap(18, g) : Written("Summary", Make[g], pre \o w))
             => Cautious("Summary", Make[NoMap], s, pre)
  BY <1>1, <1>4, MapReads
<1> QED
  BY <1>2, <1>5, <1>6

LEMMA SummaryReads ==
  ASSUME NEW m, IsSummary(m), Fits(SizeSummary(m)), NEW w \in PutSummary(m), NEW u
  PROVE  /\ w \in Seq(Bytes)
         /\ Reads("Summary", NewSummary(<<>>, NoMap, u), [m EXCEPT !.XXX_unrecognized = u], w)
<1>0. PICK x1, x2 : x1 = m.Method /\ x2 = m.Extra
  OBVIOUS
<1>1. /\ x1 \in Seq(Bytes)
      /\ Fits(Len(x1))
      /\ IsMap(x2)
      /\ FitMap(x2)
      /\ m = NewSummary(x1, x2, <<>>)
  BY <1>0, SummaryFits
<1> DEFINE A == PutBytes(10, x1)
           B == PutMap(18, x2)
<1>2. w \in A ++ B ++ {<<>>}
  BY <1>0, <1>1 DEF PutSummary, NewSummary
<1>3. \A s \in A : s \in Seq(Bytes) /\ Reads("Summary", NewSummary(<<>>, NoMap, u), NewSummary(x1, NoMap, u), s)
  BY <1>1, SummaryPutsMethod DEF Whole
<1>4. \A s \in B : s \in Seq(Bytes) /\ Reads("Summary", NewSummary(x1, NoMap, u), NewSummary(x1, x2, u), s)
  BY <1>1, SummaryPutsExtra DEF Whole
<1> HIDE DEF A, B
<1>5. PICK w2 \in A ++ B : w = w2 \o <<>>
  <2>1. Both(w, A ++ B, {<<>>})
    BY <1>2, OfCat
  <2> QED
    BY <2>1 DEF Both
<1>6. PICK w1 \in A, s2 \in B : w2 = w1 \o s2
  <2>1. Both(w2, A, B)
    BY <1>5, OfCat
  <2> QED
    BY <2>1 DEF Both
<1>7. w1 \in Seq(Bytes) /\ Reads("Summary", NewSummary(<<>>, NoMap, u), NewSummary(x1, NoMap, u), w1)
  BY <1>3
<1>8. w2 \in Seq(Bytes) /\ Reads("Summary", NewSummary(<<>>, NoMap, u), NewSummary(x1, x2, u), w2)
  BY <1>7, <1>4, <1>6, ReadsBoth
<1>9. w = w2
  BY <1>5, <1>8, ConcatEmptySeq
<1>10. [m EXCEPT !.XXX_unrecognized = u] = NewSummary(x1, x2, u)
  BY <1>1 DEF NewSummary
<1> QED
  BY <1>8, <1>9, <1>10

LEMMA SummaryNested ==
  ASSUME NEW m, IsSummary(m), Fits(SizeSummary(m)), NEW w \in PutSummary(m), NEW buf, NEW f,
         Only(Strings(buf, f), w)
  PROVE  Only(Nested(<<>>, buf, f, Summary, SummaryField), <<m>>)
<1>1. Summary = NewSummary(<<>>, NoMap, <<>>)
  BY DEF Summary, NewSummary
<1>2. w \in Seq(Bytes) /\ Reads("Summary", Summary, [m EXCEPT !.XXX_unrecognized = <<>>], w)
  BY <1>1, SummaryReads
<1>3. [m EXCEPT !.XXX_unrecognized = <<>>] = m
  BY SummaryFits DEF NewSummary
<1>4. Reading("Summary", Summary, w, 1) = {m}
  BY <1>2, <1>3, ReadsAll
<1>5. Unmarshal(Summary, w, SummaryField) = {m}
  BY <1>4, DecodeSummaryIs DEF Unmarshal, Reading
<1>6. PICK S : S = Strings(buf, f)
  OBVIOUS
<1>7. S = {w}
  BY <1>6 DEF Only
<1>8. Nested(<<>>, buf, f, Summary, SummaryField) = {<<x>> : x \in UNION {Unmarshal(Summary, s, SummaryField) : s \in S}}
  BY <1>6 DEF Nested
<1>9. UNION {Unmarshal(Summary, s, SummaryField) : s \in S} = {m}
  BY <1>5, <1>7
<1> QED
  BY <1>8, <1>9 DEF Only

LEMMA MetricPutsType ==
  ASSUME NEW u, NEW x1, x1 \in Ints(Int32Bits), NEW s \in PutInt(8, x1)
  PROVE  Whole("Metric", NewMetric(0, <<>>, <<>>, <<>>, <<>>, 0, <<>>, NoMap, u), NewMetric(x1, <<>>, <<>>, <<>>, <<>>, 0, <<>>, NoMap, u), s)
<1>0. PICK m, y : m = NewMetric(0, <<>>, <<>>, <<>>, <<>>, 0, <<>>, NoMap, u) /\ y = NewMetric(x1, <<>>, <<>>, <<>>, <<>>, 0, <<>>, NoMap, u)
  OBVIOUS
<1>1. 8 \in Tags /\ 8 % 8 = 0 /\ 8 \div 8 = 1
  BY DEF Tags
<1>2. ASSUME NEW buf, NEW f, IsInt(buf, f, 8, x1) PROVE Only(FieldBy("Metric", m, buf, f), y)
  <2>1. f.num = 1 /\ f.num \in Int /\ Only(Int32s(buf, f), x1)
    BY <1>1, <1>2, HoldsInt
  <2> QED
    BY <1>0, <2>1, MetricFields
<1>3. x1 = 0 => y = m
  BY <1>0
<1>4. Unsigned(x1) \in Words
  BY IntWord
<1> QED
  BY <1>0, <1>1, <1>2, <1>3, <1>4, PutIntReads

LEMMA MetricPutsCounter ==
  ASSUME NEW x1, NEW u, NEW x2, IsOne(x2, IsCounter), Fits(SizeOne(x2, SizeCounter)), NEW s \in PutOne(18, x2, PutCounter)
  PROVE  Whole("Metric", NewMetric(x1, <<>>, <<>>, <<>>, <<>>, 0, <<>>, NoMap, u), NewMetric(x1, x2, <<>>, <<>>, <<>>, 0, <<>>, NoMap, u), s)
<1>0. PICK m, y : m = NewMetric(x1, <<>>, <<>>, <<>>, <<>>, 0, <<>>, NoMap, u) /\ y = NewMetric(x1, x2, <<>>, <<>>, <<>>, 0, <<>>, NoMap, u)
  OBVIOUS
<1>1. 18 \in Tags /\ 18 % 8 = 2 /\ 18 \div 8 = 2
  BY DEF Tags
<1>2. CASE x2 = <<>>
  <2>1. s = <<>> /\ y = m
    BY <1>0, <1>2 DEF PutOne
  <2> QED
    BY <1>0, <2>1, ReadsNothing
<1>3. CASE x2 # <<>>
  <2>1. PICK v : v = x2[1]
    OBVIOUS
  <2>2. IsCounter(v) /\ Fits(SizeCounter(v)) /\ x2 = <<v>>
    BY <1>3, <2>1, OneCounterFits
  <2>3. PICK r \in PutCounter(v) : s = Tagged(18, r)
    BY <1>3, <2>1 DEF PutOne
  <2>4. r \in Seq(Bytes) /\ Fits(Len(r))
    BY <2>2, SizeCounterIs DEF OfSize
  <2>5. ASSUME NEW buf, NEW f, Holds(buf, f, 18, r) PROVE Only(FieldBy("Metric", m, buf, f), y)
    <3>1. Only(Strings(buf, f), r) /\ f.num = 2 /\ f.num \in Int
      BY <1>1, <2>4, <2>5, PayloadIs DEF Only
    <3>2. Only(Nested(<<>>, buf, f, Counter, CounterField), x2)
      BY <2>2, <2>3, <3>1, CounterNested
    <3> QED
      BY <1>0, <3>1, <3>2, MetricFields
  <2> QED
    BY <1>0, <1>1, <2>3, <2>4, <2>5, TaggedReads
<1> QED
  BY <1>2, <1>3

LEMMA MetricPutsGauge ==
  ASSUME NEW x1, NEW x2, NEW u, NEW x3, IsOne(x3, IsGauge), Fits(SizeOne(x3, SizeGauge)), NEW s \in PutOne(26, x3, PutGauge)
  PROVE  Whole("Metric", NewMetric(x1, x2, <<>>, <<>>, <<>>, 0, <<>>, NoMap, u), NewMetric(x1, x2, x3, <<>>, <<>>, 0, <<>>, NoMap, u), s)
<1>0. PICK m, y : m = NewMetric(x1, x2, <<>>, <<>>, <<>>, 0, <<>>, NoMap, u) /\ y = NewMetric(x1, x2, x3, <<>>, <<>>, 0, <<>>, NoMap, u)
  OBVIOUS
<1>1. 26 \in Tags /\ 26 % 8 = 2 /\ 26 \div 8 = 3
  BY DEF Tags
<1>2. CASE x3 = <<>>
  <2>1. s = <<>> /\ y = m
    BY <1>0, <1>2 DEF PutOne
  <2> QED
    BY <1>0, <2>1, ReadsNothing
<1>3. CASE x3 # <<>>
  <2>1. PICK v : v = x3[1]
    OBVIOUS
  <2>2. IsGauge(v) /\ Fits(SizeGauge(v)) /\ x3 = <<v>>
    BY <1>3, <2>1, OneGaugeFits
  <2>3. PICK r \in PutGauge(v) : s = Tagged(26, r)
    BY <1>3, <2>1 DEF PutOne
  <2>4. r \in Seq(Bytes) /\ Fits(Len(r))
    BY <2>2, SizeGaugeIs DEF OfSize
  <2>5. ASSUME NEW buf, NEW f, Holds(buf, f, 26, r) PROVE Only(FieldBy("Metric", m, buf, f), y)
    <3>1. Only(Strings(buf, f), r) /\ f.num = 3 /\ f.num \in Int
      BY <1>1, <2>4, <2>5, PayloadIs DEF Only
    <3>2. Only(Nested(<<>>, buf, f, Gauge, GaugeField), x3)
      BY <2>2, <2>3, <3>1, GaugeNested
    <3> QED
      BY <1>0, <3>1, <3>2, MetricFields
  <2> QED
    BY <1>0, <1>1, <2>3, <2>4, <2>5, TaggedReads
<1> QED
  BY <1>2, <1>3

LEMMA MetricPutsSummary ==
  ASSUME NEW x1, NEW x2, NEW x3, NEW u, NEW x4, IsOne(x4, IsSummary), Fits(SizeOne(x4, SizeSummary)), NEW s \in PutOne(34, x4, PutSummary)
  PROVE  Whole("Metric", NewMetric(x1, x2, x3, <<>>, <<>>, 0, <<>>, NoMap, u), NewMetric(x1, x2, x3, x4, <<>>, 0, <<>>, NoMap, u), s)
<1>0. PICK m, y : m = NewMetric(x1, x2, x3, <<>>, <<>>, 0, <<>>, NoMap, u) /\ y = NewMetric(x1, x2, x3, x4, <<>>, 0, <<>>, NoMap, u)
  OBVIOUS
<1>1. 34 \in Tags /\ 34 % 8 = 2 /\ 34 \div 8 = 4
  BY DEF Tags
<1>2. CASE x4 = <<>>
  <2>1. s = <<>> /\ y = m
    BY <1>0, <1>2 DEF PutOne
  <2> QED
    BY <1>0, <2>1, ReadsNothing
<1>3. CASE x4 # <<>>
  <2>1. PICK v : v = x4[1]
    OBVIOUS
  <2>2. IsSummary(v) /\ Fits(SizeSummary(v)) /\ x4 = <<v>>
    BY <1>3, <2>1, OneSummaryFits
  <2>3. PICK r \in PutSummary(v) : s = Tagged(34, r)
    BY <1>3, <2>1 DEF PutOne
  <2>4. r \in Seq(Bytes) /\ Fits(Len(r))
    BY <2>2, SizeSummaryIs DEF OfSize
  <2>5. ASSUME NEW buf, NEW f, Holds(buf, f, 34, r) PROVE Only(FieldBy("Metric", m, buf, f), y)
    <3>1. Only(Strings(buf, f), r) /\ f.num = 4 /\ f.num \in Int
      BY <1>1, <2>4, <2>5, PayloadIs DEF Only
    <3>2. Only(Nested(<<>>, buf, f, Summary, SummaryField), x4)
      BY <2>2, <2>3, <3>1, SummaryNested
    <3> QED
      BY <1>0, <3>1, <3>2, MetricFields
  <2> QED
    BY <1>0, <1>1, <2>3, <2>4, <2>5, TaggedReads
<1> QED
  BY <1>2, <1>3

LEMMA MetricPutsHost ==
  ASSUME NEW x1, NEW x2, NEW x3, NEW x4, NEW u, NEW x5, x5 \in Seq(Bytes), Fits(Len(x5)), NEW s \in PutBytes(42, x5)
  PROVE  Whole("Metric", NewMetric(x1, x2, x3, x4, <<>>, 0, <<>>, NoMap, u), NewMetric(x1, x2, x3, x4, x5, 0, <<>>, NoMap, u), s)
<1>0. PICK m, y : m = NewMetric(x1, x2, x3, x4, <<>>, 0, <<>>, NoMap, u) /\ y = NewMetric(x1, x2, x3, x4, x5, 0, <<>>, NoMap, u)
  OBVIOUS
<1>1. 42 \in Tags /\ 42 % 8 = 2 /\ 42 \div 8 = 5
  BY DEF Tags
<1>2. ASSUME NEW buf, NEW f, Strings(buf, f) = {x5} /\ f.num = 42 \div 8
      PROVE  Only(FieldBy("Metric", m, buf, f), y)
  <2>1. f.num = 5 /\ f.num \in Int /\ Only(Strings(buf, f), x5)
    BY <1>1, <1>2 DEF Only
  <2> QED
    BY <1>0, <2>1, MetricFields
<1>3. x5 = <<>> => y = m
  BY <1>0
<1> QED
  BY <1>0, <1>1, <1>2, <1>3, PutBytesReads

LEMMA MetricPutsMicro ==
  ASSUME NEW x1, NEW x2, NEW x3, NEW x4, NEW x5, NEW u, NEW x6, x6 \in Ints(WordBits), NEW s \in PutInt(48, x6)
  PROVE  Whole("Metric", NewMetric(x1, x2, x3, x4, x5, 0, <<>>, NoMap, u), NewMetric(x1, x2, x3, x4, x5, x6, <<>>, NoMap, u), s)
<1>0. PICK m, y : m = NewMetric(x1, x2, x3, x4, x5, 0, <<>>, NoMap, u) /\ y = NewMetric(x1, x2, x3, x4, x5, x6, <<>>, NoMap, u)
  OBVIOUS
<1>1. 48 \in Tags /\ 48 % 8 = 0 /\ 48 \div 8 = 6
  BY DEF Tags
<1>2. ASSUME NEW buf, NEW f, IsInt(buf, f, 48, x6) PROVE Only(FieldBy("Metric", m, buf, f), y)
  <2>1. f.num = 6 /\ f.num \in Int /\ Only(Int64s(buf, f), x6)
    BY <1>1, <1>2, HoldsInt
  <2> QED
    BY <1>0, <2>1, MetricFields
<1>3. x6 = 0 => y = m
  BY <1>0
<1>4. Unsigned(x6) \in Words
  BY IntWord
<1> QED
  BY <1>0, <1>1, <1>2, <1>3, <1>4, PutIntReads

LEMMA MetricPutsSvrname ==
  ASSUME NEW x1, NEW x2, NEW x3, NEW x4, NEW x5, NEW x6, NEW u, NEW x7, x7 \in Seq(Bytes), Fits(Len(x7)), NEW s \in PutBytes(58, x7)
  PROVE  Whole("Metric", NewMetric(x1, x2, x3, x4, x5, x6, <<>>, NoMap, u), NewMetric(x1, x2, x3, x4, x5, x6, x7, NoMap, u), s)
<1>0. PICK m, y : m = NewMetric(x1, x2, x3, x4, x5, x6, <<>>, NoMap, u) /\ y = NewMetric(x1, x2, x3, x4, x5, x6, x7, NoMap, u)
  OBVIOUS
<1>1. 58 \in Tags /\ 58 % 8 = 2 /\ 58 \div 8 = 7
  BY DEF Tags
<1>2. ASSUME NEW buf, NEW f, Strings(buf, f) = {x7} /\ f.num = 58 \div 8
      PROVE  Only(FieldBy("Metric", m, buf, f), y)
  <2>1. f.num = 7 /\ f.num \in Int /\ Only(Strings(buf, f), x7)
    BY <1>1, <1>2 DEF Only
  <2> QED
    BY <1>0, <2>1, MetricFields
<1>3. x7 = <<>> => y = m
  BY <1>0
<1> QED
  BY <1>0, <1>1, <1>2, <1>3, PutBytesReads

LEMMA MetricPutsExtra ==
  ASSUME NEW x1, NEW x2, NEW x3, NEW x4, NEW x5, NEW x6, NEW x7, NEW u, NEW x8, IsMap(x8), FitMap(x8), NEW s \in PutMap(66, x8)
  PROVE  /\ s \in Seq(Bytes) /\ Reads("Metric", NewMetric(x1, x2, x3, x4, x5, x6, x7, NoMap, u), NewMetric(x1, x2, x3, x4, x5, x6, x7, x8, u), s)
         /\ \A pre \in Seq(Bytes) :
              (\A g \in Parts(x8) : \A w \in PutMap(66, g) :
                 Written("Metric", NewMetric(x1, x2, x3, x4, x5, x6, x7, g, u), pre \o w))
                => Cautious("Metric", NewMetric(x1, x2, x3, x4, x5, x6, x7, NoMap, u), s, pre)
<1> DEFINE Make == [g \in Parts(x8) |-> NewMetric(x1, x2, x3, x4, x5, x6, x7, g, u)]
<1>1. 66 \in Tags /\ 66 % 8 = 2 /\ 66 \div 8 = 8
  BY DEF Tags
<1>2. \A g \in Parts(x8) : Make[g] = NewMetric(x1, x2, x3, x4, x5, x6, x7, g, u)
  OBVIOUS
<1> HIDE DEF Make
<1>3. ASSUME NEW g \in Parts(x8), NEW g2 \in Parts(x8), NEW buf, NEW f, f.num = 66 \div 8,
             Only(Entries(g, buf, f), g2)
      PROVE  Only(FieldBy("Metric", Make[g], buf, f), Make[g2])
  <2>1. f.num = 8 /\ f.num \in Int
    BY <1>1, <1>3
  <2>2. Only(FieldBy("Metric", NewMetric(x1, x2, x3, x4, x5, x6, x7, g, u), buf, f), NewMetric(x1, x2, x3, x4, x5, x6, x7, g2, u))
    BY <1>3, <2>1, MetricFields
  <2> QED
    BY <1>2, <2>2
<1>4. HasMap("Metric", 66, x8, Make)
  BY <1>3 DEF HasMap
<1>5. Make[NoMap] = NewMetric(x1, x2, x3, x4, x5, x6, x7, NoMap, u) /\ Make[x8] = NewMetric(x1, x2, x3, x4, x5, x6, x7, x8, u)
  BY <1>2, SomeParts
<1>6. /\ s \in Seq(Bytes) /\ Reads("Metric", Make[NoMap], Make[x8], s)
      /\ \A pre \in Seq(Bytes) :
           (\A g \in Parts(x8) : \A w \in PutMap(66, g) : Written("Metric", Make[g], pre \o w))
             => Cautious("Metric", Make[NoMap], s, pre)
  BY <1>1, <1>4, MapReads
<1> QED
  BY <1>2, <1>5, <1>6

LEMMA MetricReads ==
  ASSUME NEW m, IsMetric(m), Fits(SizeMetric(m)), NEW w \in PutMetric(m), NEW u
  PROVE  /\ w \in Seq(Bytes)
         /\ Reads("Metric", NewMetric(0, <<>>, <<>>, <<>>, <<>>, 0, <<>>, NoMap, u), [m EXCEPT !.XXX_unrecognized = u], w)
<1>0. PICK x1, x2, x3, x4, x5, x6, x7, x8 : x1 = m.Type /\ x2 = m.Counter /\ x3 = m.Gauge /\ x4 = m.Summary /\ x5 = m.Host /\ x6 = m.Micro /\ x7 = m.Svrname /\ x8 = m.Extra
  OBVIOUS
<1>1. /\ x1 \in Ints(Int32Bits)
      /\ IsOne(x2, IsCounter)
      /\ Fits(SizeOne(x2, SizeCounter))
      /\ IsOne(x3, IsGauge)
      /\ Fits(SizeOne(x3, SizeGauge))
      /\ IsOne(x4, IsSummary)
      /\ Fits(SizeOne(x4, SizeSummary))
      /\ x5 \in Seq(Bytes)
      /\ Fits(Len(x5))
      /\ x6 \in Ints(WordBits)
      /\ x7 \in Seq(Bytes)
      /\ Fits(Len(x7))
      /\ IsMap(x8)
      /\ FitMap(x8)
      /\ m = NewMetric(x1, x2, x3, x4, x5, x6, x7, x8, <<>>)
  BY <1>0, MetricFits
<1> DEFINE A == PutInt(8, x1)
           B == PutOne(18, x2, PutCounter)
           C == PutOne(26, x3, PutGauge)
           D == PutOne(34, x4, PutSummary)
           E == PutBytes(42, x5)
           F == PutInt(48, x6)
           G == PutBytes(58, x7)
           H == PutMap(66, x8)
<1>2. w \in A ++ B ++ C ++ D ++ E ++ F ++ G ++ H ++ {<<>>}
  BY <1>0, <1>1 DEF PutMetric, NewMetric
<1>3. \A s \in A : s \in Seq(Bytes) /\ Reads("Metric", NewMetric(0, <<>>, <<>>, <<>>, <<>>, 0, <<>>, NoMap, u), NewMetric(x1, <<>>, <<>>, <<>>, <<>>, 0, <<>>, NoMap, u), s)
  BY <1>1, MetricPutsType DEF Whole
<1>4. \A s \in B : s \in Seq(Bytes) /\ Reads("Metric", NewMetric(x1, <<>>, <<>>, <<>>, <<>>, 0, <<>>, NoMap, u), NewMetric(x1, x2, <<>>, <<>>, <<>>, 0, <<>>, NoMap, u), s)
  BY <1>1, MetricPutsCounter DEF Whole
<1>5. \A s \in C : s \in Seq(Bytes) /\ Reads("Metric", NewMetric(x1, x2, <<>>, <<>>, <<>>, 0, <<>>, NoMap, u), NewMetric(x1, x2, x3, <<>>, <<>>, 0, <<>>, NoMap, u), s)
  BY <1>1, MetricPutsGauge DEF Whole
<1>6. \A s \in D : s \in Seq(Bytes) /\ Reads("Metric", NewMetric(x1, x2, x3, <<>>, <<>>, 0, <<>>, NoMap, u), NewMetric(x1, x2, x3, x4, <<>>, 0, <<>>, NoMap, u), s)
  BY <1>1, MetricPutsSummary DEF Whole
<1>7. \A s \in E : s \in Seq(Bytes) /\ Reads("Metric", NewMetric(x1, x2, x3, x4, <<>>, 0, <<>>, NoMap, u), NewMetric(x1, x2, x3, x4, x5, 0, <<>>, NoMap, u), s)
  BY <1>1, MetricPutsHost DEF Whole
<1>8. \A s \in F : s \in Seq(Bytes) /\ Reads("Metric", NewMetric(x1, x2, x3, x4, x5, 0, <<>>, NoMap, u), NewMetric(x1, x2, x3, x4, x5, x6, <<>>, NoMap, u), s)
  BY <1>1, MetricPutsMicro DEF Whole
<1>9. \A s \in G : s \in Seq(Bytes) /\ Reads("Metric", NewMetric(x1, x2, x3, x4, x5, x6, <<>>, NoMap, u), NewMetric(x1, x2, x3, x4, x5, x6, x7, NoMap, u), s)
  BY <1>1, MetricPutsSvrname DEF Whole
<1>10. \A s \in H : s \in Seq(Bytes) /\ Reads("Metric", NewMetric(x1, x2, x3, x4, x5, x6, x7, NoMap, u), NewMetric(x1, x2, x3, x4, x5, x6, x7, x8, u), s)
  BY <1>1, MetricPutsExtra DEF Whole
<1> HIDE DEF A, B, C, D, E, F, G, H
<1>11. PICK w8 \in A ++ B ++ C ++ D ++ E ++ F ++ G ++ H : w = w8 \o <<>>
  <2>1. Both(w, A ++ B ++ C ++ D ++ E ++ F ++ G ++ H, {<<>>})
    BY <1>2, OfCat
  <2> QED
    BY <2>1 DEF Both
<1>12. PICK w7 \in A ++ B ++ C ++ D ++ E ++ F ++ G, s8 \in H : w8 = w7 \o s8
  <2>1. Both(w8, A ++ B ++ C ++ D ++ E ++ F ++ G, H)
    BY <1>11, OfCat
  <2> QED
    BY <2>1 DEF Both
<1>13. PICK w6 \in A ++ B ++ C ++ D ++ E ++ F, s7 \in G : w7 = w6 \o s7
  <2>1. Both(w7, A ++ B ++ C ++ D ++ E ++ F, G)
    BY <1>12, OfCat
  <2> QED
    BY <2>1 DEF Both
<1>14. PICK w5 \in A ++ B ++ C ++ D ++ E, s6 \in F : w6 = w5 \o s6
  <2>1. Both(w6, A ++ B ++ C ++ D ++ E, F)
    BY <1>13, OfCat
  <2> QED
    BY <2>1 DEF Both
<1>15. PICK w4 \in A ++ B ++ C ++ D, s5 \in E : w5 = w4 \o s5
  <2>1. Both(w5, A ++ B ++ C ++ D, E)
    BY <1>14, OfCat
  <2> QED
    BY <2>1 DEF Both
<1>16. PICK w3 \in A ++ B ++ C, s4 \in D : w4 = w3 \o s4
  <2>1. Both(w4, A ++ B ++ C, D)
    BY <1>15, OfCat
  <2> QED
    BY <2>1 DEF Both
<1>17. PICK w2 \in A ++ B, s3 \in C : w3 = w2 \o s3
  <2>1. Both(w3, A ++ B, C)
    BY <1>16, OfCat
  <2> QED
    BY <2>1 DEF Both
<1>18. PICK w1 \in A, s2 \in B : w2 = w1 \o s2
  <2>1. Both(w2, A, B)
    BY <1>17, OfCat
  <2> QED
    BY <2>1 DEF Both
<1>19. w1 \in Seq(Bytes) /\ Reads("Metric", NewMetric(0, <<>>, <<>>, <<>>, <<>>, 0, <<>>, NoMap, u), NewMetric(x1, <<>>, <<>>, <<>>, <<>>, 0, <<>>, NoMap, u), w1)
  BY <1>3
<1>20. w2 \in Seq(Bytes) /\ Reads("Metric", NewMetric(0, <<>>, <<>>, <<>>, <<>>, 0, <<>>, NoMap, u), NewMetric(x1, x2, <<>>, <<>>, <<>>, 0, <<>>, NoMap, u), w2)
  BY <1>19, <1>4, <1>18, ReadsBoth
<1>21. w3 \in Seq(Bytes) /\ Reads("Metric", NewMetric(0, <<>>, <<>>, <<>>, <<>>, 0, <<>>, NoMap, u), NewMetric(x1, x2, x3, <<>>, <<>>, 0, <<>>, NoMap, u), w3)
  BY <1>20, <1>5, <1>17, ReadsBoth
<1>22. w4 \in Seq(Bytes) /\ Reads("Metric", NewMetric(0, <<>>, <<>>, <<>>, <<>>, 0, <<>>, NoMap, u), NewMetric(x1, x2, x3, x4, <<>>, 0, <<>>, NoMap, u), w4)
  BY <1>21, <1>6, <1>16, ReadsBoth
<1>23. w5 \in Seq(Bytes) /\ Reads("Metric", NewMetric(0, <<>>, <<>>, <<>>, <<>>, 0, <<>>, NoMap, u), NewMetric(x1, x2, x3, x4, x5, 0, <<>>, NoMap, u), w5)
  BY <1>22, <1>7, <1>15, ReadsBoth
<1>24. w6 \in Seq(Bytes) /\ Reads("Metric", NewMetric(0, <<>>, <<>>, <<>>, <<>>, 0, <<>>, NoMap, u), NewMetric(x1, x2, x3, x4, x5, x6, <<>>, NoMap, u), w6)
  BY <1>23, <1>8, <1>14, ReadsBoth
<1>25. w7 \in Seq(Bytes) /\ Reads("Metric", NewMetric(0, <<>>, <<>>, <<>>, <<>>, 0, <<>>, NoMap, u), NewMetric(x1, x2, x3, x4, x5, x6, x7, NoMap, u), w7)
  BY <1>24, <1>9, <1>13, ReadsBoth
<1>26. w8 \in Seq(Bytes) /\ Reads("Metric", NewMetric(0, <<>>, <<>>, <<>>, <<>>, 0, <<>>, NoMap, u), NewMetric(x1, x2, x3, x4, x5, x6, x7, x8, u), w8)
  BY <1>25, <1>10, <1>12, ReadsBoth
<1>27. w = w8
  BY <1>11, <1>26, ConcatEmptySeq
<1>28. [m EXCEPT !.XXX_unrecognized = u] = NewMetric(x1, x2, x3, x4, x5, x6, x7, x8, u)
  BY <1>1 DEF NewMetric
<1> QED
  BY <1>26, <1>27, <1>28

LEMMA MetricNested ==
  ASSUME NEW m, IsMetric(m), Fits(SizeMetric(m)), NEW w \in PutMetric(m), NEW buf, NEW f,
         Only(Strings(buf, f), w)
  PROVE  Only(Nested(<<>>, buf, f, Metric, MetricField), <<m>>)
<1>1. Metric = NewMetric(0, <<>>, <<>>, <<>>, <<>>, 0, <<>>, NoMap, <<>>)
  BY DEF Metric, NewMetric
<1>2. w \in Seq(Bytes) /\ Reads("Metric", Metric, [m EXCEPT !.XXX_unrecognized = <<>>], w)
  BY <1>1, MetricReads
<1>3. [m EXCEPT !.XXX_unrecognized = <<>>] = m
  BY MetricFits DEF NewMetric
<1>4. Reading("Metric", Metric, w, 1) = {m}
  BY <1>2, <1>3, ReadsAll
<1>5. Unmarshal(Metric, w, MetricField) = {m}
  BY <1>4, DecodeMetricIs DEF Unmarshal, Reading
<1>6. PICK S : S = Strings(buf, f)
  OBVIOUS
<1>7. S = {w}
  BY <1>6 DEF Only
<1>8. Nested(<<>>, buf, f, Metric, MetricField) = {<<x>> : x \in UNION {Unmarshal(Metric, s, MetricField) : s \in S}}
  BY <1>6 DEF Nested
<1>9. UNION {Unmarshal(Metric, s, MetricField) : s \in S} = {m}
  BY <1>5, <1>7
<1> QED
  BY <1>8, <1>9 DEF Only

-----------------------------------------------------------------------------
(* A batch.                                                                 *)

NewMetrics(ms, u) == [Lists |-> ms, XXX_unrecognized |-> u]

LEMMA MetricsFields ==
  ASSUME NEW ms, NEW u, NEW y, NEW buf, NEW f, f.num \in Int
  PROVE  f.num = 1 /\ Only(Nested(<<>>, buf, f, Metric, MetricField), y) =>
              Only(FieldBy("Metrics", NewMetrics(ms, u), buf, f), NewMetrics(ms \o y, u))
<1>0. PICK m : m = NewMetrics(ms, u)
  OBVIOUS
<1>1. FieldBy("Metrics", m, buf, f) = MetricsField(m, buf, f)
  BY DEF FieldBy
<1>2. ASSUME f.num = 1, Only(Nested(<<>>, buf, f, Metric, MetricField), y)
      PROVE  Only(FieldBy("Metrics", NewMetrics(ms, u), buf, f), NewMetrics(ms \o y, u))
  <2>1. PICK S : S = Nested(<<>>, buf, f, Metric, MetricField)
    OBVIOUS
  <2>2. S = {y} /\ m.Lists = ms
    BY <1>0, <1>2, <2>1 DEF Only, NewMetrics
  <2>3. MetricsField(m, buf, f) = {[m EXCEPT !.Lists = @ \o x] : x \in S}
    BY <1>2, <2>1 DEF MetricsField
  <2>4. MetricsField(m, buf, f) = {[m EXCEPT !.Lists = @ \o y]}
    BY <2>2, <2>3
  <2>5. PICK v : v = ms \o y
    OBVIOUS
  <2>6. m.Lists \o y = v
    BY <2>2, <2>5
  <2>7. [m EXCEPT !.Lists = v] = NewMetrics(v, u)
    BY <1>0 DEF NewMetrics
  <2>8. [m EXCEPT !.Lists = @ \o y] = NewMetrics(v, u)
    BY <2>6, <2>7
  <2> QED
    BY <1>0, <1>1, <2>4, <2>5, <2>8 DEF Only
<1> QED
  BY <1>2

LEMMA MetricsUnknown ==
  ASSUME NEW ms, NEW u, NEW buf, NEW f, f.num \in Int, f.num > 1
  PROVE  FieldBy("Metrics", NewMetrics(ms, u), buf, f) =
           {NewMetrics(ms, u \o SubSeq(buf, f.first, f.next - 1))}
<1>1. PICK m : m = NewMetrics(ms, u)
  OBVIOUS
<1>2. FieldBy("Metrics", m, buf, f) = MetricsField(m, buf, f)
  BY DEF FieldBy
<1>3. MetricsField(m, buf, f) = Unknown(m, buf, f)
  BY DEF MetricsField
<1>4. PICK e : e = SubSeq(buf, f.first, f.next - 1)
  OBVIOUS
<1>5. ~ (f.num <= 0)
  OBVIOUS
<1>6. Unknown(m, buf, f) = {[m EXCEPT !.XXX_unrecognized = @ \o SubSeq(buf, f.first, f.next - 1)]}
  BY <1>5, Zenon DEF Unknown
<1>7. Unknown(m, buf, f) = {[m EXCEPT !.XXX_unrecognized = @ \o e]}
  BY <1>4, <1>6
<1>8. PICK v : v = u \o e
  OBVIOUS
<1>9. m.XXX_unrecognized \o e = v
  BY <1>1, <1>8 DEF NewMetrics
<1>10. [m EXCEPT !.XXX_unrecognized = v] = NewMetrics(ms, v)
  BY <1>1 DEF NewMetrics
<1>11. [m EXCEPT !.XXX_unrecognized = @ \o e] = NewMetrics(ms, u \o e)
  BY <1>8, <1>9, <1>10
<1> QED
  BY <1>1, <1>2, <1>3, <1>4, <1>7, <1>11

(* One metric more is the next of the batch.                               *)
LEMMA OneMore ==
  ASSUME NEW ms, NEW n, IsBatch(ms, n), NEW i \in 1 .. n
  PROVE  First_(ms, i - 1) \o <<ms[i]>> = First_(ms, i)
<1> DEFINE A == {ms[k] : k \in 1 .. n}
           p == First_(ms, i - 1)
           q == <<ms[i]>>
           r == First_(ms, i)
<1>0. n \in Nat
  BY DEF IsBatch
<1>1. \A j \in 0 .. n : First_(ms, j) \in Seq(A) /\ Len(First_(ms, j)) = j
                        /\ \A k \in 1 .. j : First_(ms, j)[k] = ms[k]
  <2> TAKE j \in 0 .. n
  <2>1. \A k \in 1 .. j : ms[k] \in A
    BY <1>0
  <2>2. First_(ms, j) \in [1 .. j -> A]
    BY <2>1 DEF First_
  <2>3. j \in Nat
    OBVIOUS
  <2> QED
    BY <2>2, <2>3, FunctionIsSeq DEF First_
<1>2. i - 1 \in 0 .. n /\ i \in 0 .. n /\ i \in Nat
  BY <1>0
<1>3. p \in Seq(A) /\ Len(p) = i - 1 /\ \A k \in 1 .. i - 1 : p[k] = ms[k]
  BY <1>1, <1>2
<1>4. r \in Seq(A) /\ Len(r) = i /\ \A k \in 1 .. i : r[k] = ms[k]
  BY <1>1, <1>2
<1>5. q \in Seq(A) /\ Len(q) = 1 /\ q[1] = ms[i]
  OBVIOUS
<1> HIDE DEF p, q, r, A
<1>6. /\ p \o q \in Seq(A) /\ Len(p \o q) = Len(p) + Len(q)
      /\ \A k \in 1 .. Len(p) + Len(q) : (p \o q)[k] = IF k <= Len(p) THEN p[k] ELSE q[k - Len(p)]
  BY <1>3, <1>5, ConcatProperties
<1>7. Len(p \o q) = i
  BY <1>2, <1>3, <1>5, <1>6
<1>8. \A k \in 1 .. i : (p \o q)[k] = r[k]
  <2> TAKE k \in 1 .. i
  <2>1. (p \o q)[k] = IF k <= i - 1 THEN p[k] ELSE q[k - (i - 1)]
    BY <1>2, <1>3, <1>5, <1>6
  <2>2. CASE k <= i - 1
    <3>1. k \in 1 .. i - 1
      BY <1>2, <2>2
    <3> QED
      BY <1>3, <1>4, <2>1, <2>2, <3>1
  <2>3. CASE ~ (k <= i - 1)
    <3>1. k = i /\ k - (i - 1) = 1
      BY <1>2, <2>3
    <3> QED
      BY <1>4, <1>5, <2>1, <2>3, <3>1
  <2> QED
    BY <2>2, <2>3
<1> QED
  BY <1>4, <1>6, <1>7, <1>8, SeqEqual DEF p, q, r

(* The first metrics of a batch are a batch that could have been written.  *)
LEMMA BatchWritten ==
  ASSUME NEW ms, NEW n, IsBatch(ms, n), NEW j \in 0 .. n,
         NEW s \in Seq(Bytes), s \in PutEach(10, First_(ms, j), PutMetric)
  PROVE  Written("Metrics", NewMetrics(First_(ms, j), <<>>), s)
<1>1. PICK g, m : g = First_(ms, j) /\ m = NewMetrics(g, <<>>)
  OBVIOUS
<1>2. m.Lists = g /\ m.XXX_unrecognized = <<>> /\ m \in [Lists : {m.Lists}, XXX_unrecognized : {<<>>}]
  BY <1>1 DEF NewMetrics
<1>3. g \in Seq({g[i] : i \in DOMAIN g}) /\ Len(g) = j
  <2>1. DOMAIN g = 1 .. j /\ g = [i \in 1 .. j |-> g[i]]
    BY <1>1 DEF First_
  <2>2. g \in [1 .. j -> {g[i] : i \in DOMAIN g}]
    BY <2>1
  <2>3. j \in Nat
    OBVIOUS
  <2> QED
    BY <2>2, <2>3, FunctionIsSeq
<1>4. \A i \in 1 .. j : IsMetric(g[i])
  <2> TAKE i \in 1 .. j
  <2>1. i \in 1 .. n /\ g[i] = ms[i]
    BY <1>1 DEF First_, IsBatch
  <2> QED
    BY <2>1 DEF IsBatch
<1>5. IsMetrics(m)
  BY <1>2, <1>3, <1>4 DEF IsMetrics
<1>6. s \in PutMetrics(m)
  <2>1. s \o <<>> \in PutEach(10, g, PutMetric) ++ {<<>>}
    BY <1>1, InCat
  <2>2. s \o <<>> = s
    BY ConcatEmptySeq
  <2> QED
    BY <1>2, <2>1, <2>2 DEF PutMetrics
<1> QED
  BY <1>1, <1>5, <1>6 DEF Written, IsOf, PutOf

(* A batch is read back, and of a cut one the metrics in front of the cut. *)
LEMMA MetricsReads ==
  ASSUME NEW m, IsMetrics(m), Fits(SizeMetrics(m)), NEW w \in PutMetrics(m), NEW u
  PROVE  /\ w \in Seq(Bytes)
         /\ Reads("Metrics", NewMetrics(<<>>, u), [m EXCEPT !.XXX_unrecognized = u], w)
         /\ u = <<>> => Cautious("Metrics", NewMetrics(<<>>, u), w, <<>>)
<1>1. PICK ms, n : ms = m.Lists /\ n = Len(m.Lists)
  OBVIOUS
<1>2. IsBatch(ms, n) /\ m.XXX_unrecognized = <<>> /\ n \in Nat
  BY <1>1, BatchOf DEF IsBatch
<1>3. PICK w1 : w1 \in PutEach(10, ms, PutMetric) /\ w = w1 \o <<>>
  <2>1. w \in PutEach(10, ms, PutMetric) ++ {<<>>}
    BY <1>1, <1>2 DEF PutMetrics
  <2>2. Both(w, PutEach(10, ms, PutMetric), {<<>>})
    BY <2>1, OfCat
  <2> QED
    BY <2>2 DEF Both
<1>4. PICK c, S, F : InEach(ms, n, w1, c, S, F)
  BY <1>2, <1>3, EachPieces
<1>5. /\ \A i \in 1 .. n : c[i] \in PutMetric(ms[i])
      /\ S \in [1 .. n -> Seq(Bytes)] /\ F \in [0 .. n -> Seq(Bytes)]
      /\ \A i \in 1 .. n : S[i] = Tagged(10, c[i])
      /\ F[0] = <<>> /\ \A i \in 1 .. n : F[i] = F[i - 1] \o S[i]
      /\ w1 = F[n]
      /\ \A j \in 0 .. n : F[j] \in PutEach(10, First_(ms, j), PutMetric)
  BY <1>4 DEF InEach
<1>6. 0 \in 0 .. n /\ n \in 0 .. n /\ \A i \in 1 .. n : i \in 0 .. n /\ i - 1 \in 0 .. n
  BY <1>2
<1>7. w = F[n] /\ w \in Seq(Bytes)
  BY <1>3, <1>5, <1>6, ConcatEmptySeq
<1> DEFINE M == [j \in 0 .. n |-> NewMetrics(First_(ms, j), u)]
<1>8. \A j \in 0 .. n : M[j] = NewMetrics(First_(ms, j), u)
  OBVIOUS
<1> HIDE DEF M
<1>9. M[0] = NewMetrics(<<>>, u) /\ M[n] = [m EXCEPT !.XXX_unrecognized = u]
  <2>1. First_(ms, 0) = <<>>
    BY DEF First_
  <2>2. First_(ms, n) = ms
    BY <1>2 DEF First_, IsBatch
  <2>3. [m EXCEPT !.XXX_unrecognized = u] = NewMetrics(ms, u)
    BY <1>1 DEF IsMetrics, NewMetrics
  <2> QED
    BY <1>6, <1>8, <2>1, <2>2, <2>3
<1>10. Fits(SizeEach(ms, SizeMetric))
  <2>1. OfSize(PutEach(10, ms, PutMetric), SizeEach(ms, SizeMetric))
    BY <1>2, SizeEachIs
  <2>2. SizeMetrics(m) = SizeEach(ms, SizeMetric) + 0
    <3>1. Len(<<>>) = 0
      OBVIOUS
    <3> QED
      BY <1>1, <1>2, <3>1 DEF SizeMetrics
  <2> QED
    BY <2>1, <2>2 DEF OfSize
<1>11. ASSUME NEW i \in 1 .. n PROVE Whole("Metrics", M[i - 1], M[i], S[i])
  <2>1. PICK v, r, p, q : v = ms[i] /\ r = c[i] /\ p = M[i - 1] /\ q = M[i]
    OBVIOUS
  <2>2. IsMetric(v) /\ Fits(SizeMetric(v)) /\ r \in PutMetric(v)
    BY <1>2, <1>5, <1>10, <2>1, EachFits DEF IsBatch
  <2>3. r \in Seq(Bytes) /\ Fits(Len(r))
    BY <2>2, SizeMetricIs DEF OfSize
  <2>4. q = NewMetrics(First_(ms, i - 1) \o <<v>>, u) /\ p = NewMetrics(First_(ms, i - 1), u)
    BY <1>2, <1>6, <1>8, <2>1, OneMore
  <2>5. 10 \in Tags /\ 10 % 8 = 2 /\ 10 \div 8 = 1
    BY DEF Tags
  <2>6. ASSUME NEW buf, NEW f, Holds(buf, f, 10, r) PROVE Only(FieldBy("Metrics", p, buf, f), q)
    <3>1. Only(Strings(buf, f), r) /\ f.num = 1 /\ f.num \in Int
      BY <2>3, <2>5, <2>6, PayloadIs DEF Only
    <3>2. Only(Nested(<<>>, buf, f, Metric, MetricField), <<v>>)
      BY <2>2, <3>1, MetricNested
    <3> QED
      BY <2>4, <3>1, <3>2, MetricsFields
  <2>7. Whole("Metrics", p, q, Tagged(10, r))
    BY <2>3, <2>5, <2>6, TaggedReads
  <2> QED
    BY <1>5, <2>1, <2>7
<1>12. Reads("Metrics", M[0], M[n], F[n])
  <2>1. \A i \in 1 .. n : Reads("Metrics", M[i - 1], M[i], S[i])
    BY <1>11 DEF Whole
  <2> QED
    BY <1>2, <1>5, <1>6, <2>1, ReadsInTurn
<1>13. ASSUME u = <<>> PROVE Cautious("Metrics", NewMetrics(<<>>, u), w, <<>>)
  <2>1. \A i \in 1 .. n : Written("Metrics", M[i - 1], <<>> \o F[i - 1])
    <3> TAKE i \in 1 .. n
    <3>1. i - 1 \in 0 .. n
      BY <1>6
    <3>2. PICK j : j = i - 1
      OBVIOUS
    <3>3. F[j] \in Seq(Bytes) /\ <<>> \o F[j] = F[j] /\ F[j] \in PutEach(10, First_(ms, j), PutMetric)
      BY <1>5, <3>1, <3>2, ConcatEmptySeq
    <3>4. Written("Metrics", NewMetrics(First_(ms, j), <<>>), F[j])
      BY <1>2, <3>1, <3>2, <3>3, BatchWritten
    <3> QED
      BY <1>8, <1>13, <3>1, <3>2, <3>3, <3>4
  <2>2. <<>> \in Seq(Bytes)
    OBVIOUS
  <2>3. Cautious("Metrics", M[0], F[n], <<>>)
    BY <1>2, <1>5, <1>6, <1>11, <2>1, <2>2, CautiousInTurn
  <2> QED
    BY <1>7, <1>9, <2>3
<1> QED
  BY <1>7, <1>9, <1>12, <1>13

-----------------------------------------------------------------------------
(* A request or a response that is cut.                                     *)

(* Nothing may be written behind.                                          *)
LEMMA InCatNone ==
  ASSUME NEW A, NEW B, NEW s \in Seq(Bytes), s \in A, <<>> \in B
  PROVE  s \in A ++ B
<1>1. s \o <<>> \in A ++ B
  BY InCat
<1>2. s \o <<>> = s
  BY ConcatEmptySeq
<1> QED
  BY <1>1, <1>2

(* A request that ends early is one that could have been written.          *)
LEMMA RequestWritten ==
  ASSUME NEW x1, NEW x2, NEW x3, NEW x4,
         x1 \in Ints(WordBits), x2 \in Ints(WordBits), IsMap(x3), x4 \in Seq(Bytes),
         NEW p \in Seq(Bytes),
         p \in PutInt(8, x1) ++ PutInt(16, x2) ++ PutMap(26, x3) ++ PutBytes(34, x4)
  PROVE  Written("Request", NewRequest(x1, x2, x3, x4, <<>>), p)
<1>1. PICK m : m = NewRequest(x1, x2, x3, x4, <<>>)
  OBVIOUS
<1>2. IsRequest(m)
  BY <1>1 DEF IsRequest, NewRequest
<1> DEFINE X == PutInt(8, x1) ++ PutInt(16, x2) ++ PutMap(26, x3) ++ PutBytes(34, x4)
<1>3. PutRequest(m) = X ++ {<<>>}
  BY <1>1 DEF PutRequest, NewRequest
<1>4. <<>> \in {<<>>} /\ p \in X
  OBVIOUS
<1> HIDE DEF X
<1>5. p \in PutRequest(m)
  BY <1>3, <1>4, InCatNone
<1> QED
  BY <1>1, <1>2, <1>5 DEF Written, IsOf, PutOf

(* Of a request that is cut, such a one is read or none.                   *)
LEMMA RequestCut ==
  ASSUME NEW m, IsRequest(m), Fits(SizeRequest(m)), NEW w \in PutRequest(m)
  PROVE  Cautious("Request", NewRequest(0, 0, NoMap, <<>>, <<>>), w, <<>>)
<1>0. PICK x1, x2, x3, x4 : x1 = m.Sid /\ x2 = m.RpcId /\ x3 = m.Headers /\ x4 = m.Packet
  OBVIOUS
<1>1. /\ x1 \in Ints(WordBits)
      /\ x2 \in Ints(WordBits)
      /\ IsMap(x3)
      /\ FitMap(x3)
      /\ x4 \in Seq(Bytes)
      /\ Fits(Len(x4))
      /\ m = NewRequest(x1, x2, x3, x4, <<>>)
  BY <1>0, RequestFits
<1> DEFINE A == PutInt(8, x1)
           B == PutInt(16, x2)
           C == PutMap(26, x3)
           D == PutBytes(34, x4)
           A0 == PutInt(8, 0)
           B0 == PutInt(16, 0)
           C0 == PutMap(26, NoMap)
           D0 == PutBytes(34, <<>>)
           m0 == NewRequest(0, 0, NoMap, <<>>, <<>>)
           m1 == NewRequest(x1, 0, NoMap, <<>>, <<>>)
           m2 == NewRequest(x1, x2, NoMap, <<>>, <<>>)
           m3 == NewRequest(x1, x2, x3, <<>>, <<>>)
           m4 == NewRequest(x1, x2, x3, x4, <<>>)
<1>2. w \in A ++ B ++ C ++ D ++ {<<>>}
  BY <1>0, <1>1 DEF PutRequest, NewRequest
<1>3. \A s \in A : s \in Seq(Bytes) /\ Reads("Request", m0, m1, s) /\ NoHalf("Request", m0, s)
  BY <1>1, RequestPutsSid DEF Whole
<1>4. \A s \in B : s \in Seq(Bytes) /\ Reads("Request", m1, m2, s) /\ NoHalf("Request", m1, s)
  BY <1>1, RequestPutsRpcId DEF Whole
<1>5. \A s \in C : s \in Seq(Bytes) /\ Reads("Request", m2, m3, s)
  BY <1>1, RequestPutsHeaders DEF Whole
<1>6. \A s \in D : s \in Seq(Bytes) /\ Reads("Request", m3, m4, s) /\ NoHalf("Request", m3, s)
  BY <1>1, RequestPutsPacket DEF Whole
<1>7. \A s \in C : \A pre \in Seq(Bytes) :
        (\A g \in Parts(x3) : \A v \in PutMap(26, g) : Written("Request", NewRequest(x1, x2, g, <<>>, <<>>), pre \o v))
          => Cautious("Request", m2, s, pre)
  BY <1>1, RequestPutsHeaders
<1>8. <<>> \in A0 /\ <<>> \in B0 /\ <<>> \in C0 /\ <<>> \in D0 /\ IsMap(NoMap)
      /\ 0 \in Ints(WordBits) /\ 0 \in Ints(Int32Bits) /\ <<>> \in Seq(Bytes)
  BY PutNothing, WordBitsAssumption, WidthsAssumption DEF WordBitsAssumption,
     WidthsAssumption
<1>9. \A p \in Seq(Bytes) : p \in A0 ++ B0 ++ C0 ++ D0 => Written("Request", m0, p)
  BY <1>1, <1>8, RequestWritten
<1>10. \A p \in Seq(Bytes) : p \in A ++ B0 ++ C0 ++ D0 => Written("Request", m1, p)
  BY <1>1, <1>8, RequestWritten
<1>11. \A p \in Seq(Bytes) : p \in A ++ B ++ C0 ++ D0 => Written("Request", m2, p)
  BY <1>1, <1>8, RequestWritten
<1>12. \A p \in Seq(Bytes) : p \in A ++ B ++ C ++ D0 => Written("Request", m3, p)
  BY <1>1, <1>8, RequestWritten
<1>13. \A g \in Parts(x3) : \A p \in Seq(Bytes) :
        p \in A ++ B ++ PutMap(26, g) ++ D0 => Written("Request", NewRequest(x1, x2, g, <<>>, <<>>), p)
  <2> TAKE g \in Parts(x3)
  <2>1. IsMap(g)
    BY <1>1, SomeParts
  <2> QED
    BY <1>1, <1>8, <2>1, RequestWritten
<1>14. \A g \in Parts(x3) : \A v \in PutMap(26, g) : v \in Seq(Bytes)
  <2> TAKE g \in Parts(x3)
  <2>1. IsMap(g) /\ 26 \in Tags
    BY <1>1, SomeParts DEF Tags
  <2> QED
    BY <2>1, OfSizeMap DEF OfSize
<1> HIDE DEF A, B, C, D, A0, B0, C0, D0
<1> HIDE DEF m0, m1, m2, m3, m4
<1>15. PICK w4 \in A ++ B ++ C ++ D : w = w4 \o <<>>
  <2>1. Both(w, A ++ B ++ C ++ D, {<<>>})
    BY <1>2, OfCat
  <2> QED
    BY <2>1 DEF Both
<1>16. PICK w3 \in A ++ B ++ C, s4 \in D : w4 = w3 \o s4
  <2>1. Both(w4, A ++ B ++ C, D)
    BY <1>15, OfCat
  <2> QED
    BY <2>1 DEF Both
<1>17. PICK w2 \in A ++ B, s3 \in C : w3 = w2 \o s3
  <2>1. Both(w3, A ++ B, C)
    BY <1>16, OfCat
  <2> QED
    BY <2>1 DEF Both
<1>18. PICK w1 \in A, s2 \in B : w2 = w1 \o s2
  <2>1. Both(w2, A, B)
    BY <1>17, OfCat
  <2> QED
    BY <2>1 DEF Both
<1>19. w1 \in Seq(Bytes) /\ Reads("Request", m0, m1, w1)
  BY <1>3
<1>20. w2 \in Seq(Bytes) /\ Reads("Request", m0, m2, w2)
  BY <1>19, <1>4, <1>18, ReadsBoth
<1>21. w3 \in Seq(Bytes) /\ Reads("Request", m0, m3, w3)
  BY <1>20, <1>5, <1>17, ReadsBoth
<1>22. w4 \in Seq(Bytes) /\ Reads("Request", m0, m4, w4)
  BY <1>21, <1>6, <1>16, ReadsBoth
<1>23. w = w4
  BY <1>15, <1>22, ConcatEmptySeq
<1>24. Written("Request", m0, <<>>)
  <2>1. <<>> \in A0 ++ B0
    BY <1>8, <1>8, InCatNone
  <2>2. <<>> \in A0 ++ B0 ++ C0
    BY <2>1, <1>8, InCatNone
  <2>3. <<>> \in A0 ++ B0 ++ C0 ++ D0
    BY <2>2, <1>8, InCatNone
  <2> QED
    BY <1>8, <1>9, <2>3
<1>25. Written("Request", m1, w1)
  <2>1. w1 \in A ++ B0
    BY <1>18, <1>8, <1>19, InCatNone
  <2>2. w1 \in A ++ B0 ++ C0
    BY <2>1, <1>8, <1>19, InCatNone
  <2>3. w1 \in A ++ B0 ++ C0 ++ D0
    BY <2>2, <1>8, <1>19, InCatNone
  <2> QED
    BY <1>8, <1>10, <2>3, <1>19
<1>26. Written("Request", m3, w3)
  <2>1. w3 \in A ++ B ++ C ++ D0
    BY <1>16, <1>8, <1>21, InCatNone
  <2> QED
    BY <1>8, <1>12, <2>1, <1>21
<1>27. Cautious("Request", m0, w1, <<>>)
  BY <1>8, <1>24, <1>3, <1>18, CautiousOne
<1>28. Cautious("Request", m1, s2, w1)
  BY <1>8, <1>25, <1>4, <1>19, <1>18, CautiousOne
<1>29. Cautious("Request", m0, w2, <<>>)
  <2>1. <<>> \o w1 = w1 /\ w1 \in Seq(Bytes) /\ s2 \in Seq(Bytes) /\ <<>> \in Seq(Bytes)
    BY <1>4, <1>19, <1>18, ConcatEmptySeq
  <2> QED
    BY <1>27, <1>28, <1>19, <1>18, <2>1, CautiousBoth
<1>30. Cautious("Request", m2, s3, w2)
  <2>1. ASSUME NEW g \in Parts(x3), NEW v \in PutMap(26, g)
        PROVE  Written("Request", NewRequest(x1, x2, g, <<>>, <<>>), w2 \o v)
    <3>1. v \in Seq(Bytes) /\ w2 \o v \in Seq(Bytes)
      BY <1>14, <1>20, ConcatProperties
    <3>2. w2 \o v \in A ++ B ++ PutMap(26, g)
      BY <1>17, InCat
    <3>3. w2 \o v \in A ++ B ++ PutMap(26, g) ++ D0
      BY <1>8, <3>1, <3>2, InCatNone
    <3> QED
      BY <1>13, <3>1, <3>3
  <2> QED
    BY <1>7, <1>20, <1>17, <2>1
<1>31. Cautious("Request", m0, w3, <<>>)
  <2>1. <<>> \o w2 = w2 /\ w2 \in Seq(Bytes) /\ s3 \in Seq(Bytes) /\ <<>> \in Seq(Bytes)
    BY <1>5, <1>20, <1>17, ConcatEmptySeq
  <2> QED
    BY <1>29, <1>30, <1>20, <1>17, <2>1, CautiousBoth
<1>32. Cautious("Request", m3, s4, w3)
  BY <1>8, <1>26, <1>6, <1>21, <1>16, CautiousOne
<1>33. Cautious("Request", m0, w4, <<>>)
  <2>1. <<>> \o w3 = w3 /\ w3 \in Seq(Bytes) /\ s4 \in Seq(Bytes) /\ <<>> \in Seq(Bytes)
    BY <1>6, <1>21, <1>16, ConcatEmptySeq
  <2> QED
    BY <1>31, <1>32, <1>21, <1>16, <2>1, CautiousBoth
<1> QED
  BY <1>23, <1>33 DEF m0

(* A response that ends early is one that could have been written.         *)
LEMMA ResponseWritten ==
  ASSUME NEW x1, NEW x2, NEW x3, NEW x4,
         x1 \in Ints(WordBits), IsMap(x2), x3 \in Ints(Int32Bits), x4 \in Seq(Bytes),
         NEW p \in Seq(Bytes),
         p \in PutInt(8, x1) ++ PutMap(18, x2) ++ PutInt(24, x3) ++ PutBytes(34, x4)
  PROVE  Written("Response", NewResponse(x1, x2, x3, x4, <<>>), p)
<1>1. PICK m : m = NewResponse(x1, x2, x3, x4, <<>>)
  OBVIOUS
<1>2. IsResponse(m)
  BY <1>1 DEF IsResponse, NewResponse
<1> DEFINE X == PutInt(8, x1) ++ PutMap(18, x2) ++ PutInt(24, x3) ++ PutBytes(34, x4)
<1>3. PutResponse(m) = X ++ {<<>>}
  BY <1>1 DEF PutResponse, NewResponse
<1>4. <<>> \in {<<>>} /\ p \in X
  OBVIOUS
<1> HIDE DEF X
<1>5. p \in PutResponse(m)
  BY <1>3, <1>4, InCatNone
<1> QED
  BY <1>1, <1>2, <1>5 DEF Written, IsOf, PutOf

(* Of a response that is cut, such a one is read or none.                  *)
LEMMA ResponseCut ==
  ASSUME NEW m, IsResponse(m), Fits(SizeResponse(m)), NEW w \in PutResponse(m)
  PROVE  Cautious("Response", NewResponse(0, NoMap, 0, <<>>, <<>>), w, <<>>)
<1>0. PICK x1, x2, x3, x4 : x1 = m.Sid /\ x2 = m.Headers /\ x3 = m.Code /\ x4 = m.Packet
  OBVIOUS
<1>1. /\ x1 \in Ints(WordBits)
      /\ IsMap(x2)
      /\ FitMap(x2)
      /\ x3 \in Ints(Int32Bits)
      /\ x4 \in Seq(Bytes)
      /\ Fits(Len(x4))
      /\ m = NewResponse(x1, x2, x3, x4, <<>>)
  BY <1>0, ResponseFits
<1> DEFINE A == PutInt(8, x1)
           B == PutMap(18, x2)
           C == PutInt(24, x3)
           D == PutBytes(34, x4)
           A0 == PutInt(8, 0)
           B0 == PutMap(18, NoMap)
           C0 == PutInt(24, 0)
           D0 == PutBytes(34, <<>>)
           m0 == NewResponse(0, NoMap, 0, <<>>, <<>>)
           m1 == NewResponse(x1, NoMap, 0, <<>>, <<>>)
           m2 == NewResponse(x1, x2, 0, <<>>, <<>>)
           m3 == NewResponse(x1, x2, x3, <<>>, <<>>)
           m4 == NewResponse(x1, x2, x3, x4, <<>>)
<1>2. w \in A ++ B ++ C ++ D ++ {<<>>}
  BY <1>0, <1>1 DEF PutResponse, NewResponse
<1>3. \A s \in A : s \in Seq(Bytes) /\ Reads("Response", m0, m1, s) /\ NoHalf("Response", m0, s)
  BY <1>1, ResponsePutsSid DEF Whole
<1>4. \A s \in B : s \in Seq(Bytes) /\ Reads("Response", m1, m2, s)
  BY <1>1, ResponsePutsHeaders DEF Whole
<1>5. \A s \in C : s \in Seq(Bytes) /\ Reads("Response", m2, m3, s) /\ NoHalf("Response", m2, s)
  BY <1>1, ResponsePutsCode DEF Whole
<1>6. \A s \in D : s \in Seq(Bytes) /\ Reads("Response", m3, m4, s) /\ NoHalf("Response", m3, s)
  BY <1>1, ResponsePutsPacket DEF Whole
<1>7. \A s \in B : \A pre \in Seq(Bytes) :
        (\A g \in Parts(x2) : \A v \in PutMap(18, g) : Written("Response", NewResponse(x1, g, 0, <<>>, <<>>), pre \o v))
          => Cautious("Response", m1, s, pre)
  BY <1>1, ResponsePutsHeaders
<1>8. <<>> \in A0 /\ <<>> \in B0 /\ <<>> \in C0 /\ <<>> \in D0 /\ IsMap(NoMap)
      /\ 0 \in Ints(WordBits) /\ 0 \in Ints(Int32Bits) /\ <<>> \in Seq(Bytes)
  BY PutNothing, WordBitsAssumption, WidthsAssumption DEF WordBitsAssumption,
     WidthsAssumption
<1>9. \A p \in Seq(Bytes) : p \in A0 ++ B0 ++ C0 ++ D0 => Written("Response", m0, p)
  BY <1>1, <1>8, ResponseWritten
<1>10. \A p \in Seq(Bytes) : p \in A ++ B0 ++ C0 ++ D0 => Written("Response", m1, p)
  BY <1>1, <1>8, ResponseWritten
<1>11. \A p \in Seq(Bytes) : p \in A ++ B ++ C0 ++ D0 => Written("Response", m2, p)
  BY <1>1, <1>8, ResponseWritten
<1>12. \A p \in Seq(Bytes) : p \in A ++ B ++ C ++ D0 => Written("Response", m3, p)
  BY <1>1, <1>8, ResponseWritten
<1>13. \A g \in Parts(x2) : \A p \in Seq(Bytes) :
        p \in A ++ PutMap(18, g) ++ C0 ++ D0 => Written("Response", NewResponse(x1, g, 0, <<>>, <<>>), p)
  <2> TAKE g \in Parts(x2)
  <2>1. IsMap(g)
    BY <1>1, SomeParts
  <2> QED
    BY <1>1, <1>8, <2>1, ResponseWritten
<1>14. \A g \in Parts(x2) : \A v \in PutMap(18, g) : v \in Seq(Bytes)
  <2> TAKE g \in Parts(x2)
  <2>1. IsMap(g) /\ 18 \in Tags
    BY <1>1, SomeParts DEF Tags
  <2> QED
    BY <2>1, OfSizeMap DEF OfSize
<1> HIDE DEF A, B, C, D, A0, B0, C0, D0
<1> HIDE DEF m0, m1, m2, m3, m4
<1>15. PICK w4 \in A ++ B ++ C ++ D : w = w4 \o <<>>
  <2>1. Both(w, A ++ B ++ C ++ D, {<<>>})
    BY <1>2, OfCat
  <2> QED
    BY <2>1 DEF Both
<1>16. PICK w3 \in A ++ B ++ C, s4 \in D : w4 = w3 \o s4
  <2>1. Both(w4, A ++ B ++ C, D)
    BY <1>15, OfCat
  <2> QED
    BY <2>1 DEF Both
<1>17. PICK w2 \in A ++ B, s3 \in C : w3 = w2 \o s3
  <2>1. Both(w3, A ++ B, C)
    BY <1>16, OfCat
  <2> QED
    BY <2>1 DEF Both
<1>18. PICK w1 \in A, s2 \in B : w2 = w1 \o s2
  <2>1. Both(w2, A, B)
    BY <1>17, OfCat
  <2> QED
    BY <2>1 DEF Both
<1>19. w1 \in Seq(Bytes) /\ Reads("Response", m0, m1, w1)
  BY <1>3
<1>20. w2 \in Seq(Bytes) /\ Reads("Response", m0, m2, w2)
  BY <1>19, <1>4, <1>18, ReadsBoth
<1>21. w3 \in Seq(Bytes) /\ Reads("Response", m0, m3, w3)
  BY <1>20, <1>5, <1>17, ReadsBoth
<1>22. w4 \in Seq(Bytes) /\ Reads("Response", m0, m4, w4)
  BY <1>21, <1>6, <1>16, ReadsBoth
<1>23. w = w4
  BY <1>15, <1>22, ConcatEmptySeq
<1>24. Written("Response", m0, <<>>)
  <2>1. <<>> \in A0 ++ B0
    BY <1>8, <1>8, InCatNone
  <2>2. <<>> \in A0 ++ B0 ++ C0
    BY <2>1, <1>8, InCatNone
  <2>3. <<>> \in A0 ++ B0 ++ C0 ++ D0
    BY <2>2, <1>8, InCatNone
  <2> QED
    BY <1>8, <1>9, <2>3
<1>25. Written("Response", m2, w2)
  <2>1. w2 \in A ++ B ++ C0
    BY <1>17, <1>8, <1>20, InCatNone
  <2>2. w2 \in A ++ B ++ C0 ++ D0
    BY <2>1, <1>8, <1>20, InCatNone
  <2> QED
    BY <1>8, <1>11, <2>2, <1>20
<1>26. Written("Response", m3, w3)
  <2>1. w3 \in A ++ B ++ C ++ D0
    BY <1>16, <1>8, <1>21, InCatNone
  <2> QED
    BY <1>8, <1>12, <2>1, <1>21
<1>27. Cautious("Response", m0, w1, <<>>)
  BY <1>8, <1>24, <1>3, <1>18, CautiousOne
<1>28. Cautious("Response", m1, s2, w1)
  <2>1. ASSUME NEW g \in Parts(x2), NEW v \in PutMap(18, g)
        PROVE  Written("Response", NewResponse(x1, g, 0, <<>>, <<>>), w1 \o v)
    <3>1. v \in Seq(Bytes) /\ w1 \o v \in Seq(Bytes)
      BY <1>14, <1>19, ConcatProperties
    <3>2. w1 \o v \in A ++ PutMap(18, g)
      BY <1>18, InCat
    <3>3. w1 \o v \in A ++ PutMap(18, g) ++ C0
      BY <1>8, <3>1, <3>2, InCatNone
    <3>4. w1 \o v \in A ++ PutMap(18, g) ++ C0 ++ D0
      BY <1>8, <3>1, <3>3, InCatNone
    <3> QED
      BY <1>13, <3>1, <3>4
  <2> QED
    BY <1>7, <1>19, <1>18, <2>1
<1>29. Cautious("Response", m0, w2, <<>>)
  <2>1. <<>> \o w1 = w1 /\ w1 \in Seq(Bytes) /\ s2 \in Seq(Bytes) /\ <<>> \in Seq(Bytes)
    BY <1>4, <1>19, <1>18, ConcatEmptySeq
  <2> QED
    BY <1>27, <1>28, <1>19, <1>18, <2>1, CautiousBoth
<1>30. Cautious("Response", m2, s3, w2)
  BY <1>8, <1>25, <1>5, <1>20, <1>17, CautiousOne
<1>31. Cautious("Response", m0, w3, <<>>)
  <2>1. <<>> \o w2 = w2 /\ w2 \in Seq(Bytes) /\ s3 \in Seq(Bytes) /\ <<>> \in Seq(Bytes)
    BY <1>5, <1>20, <1>17, ConcatEmptySeq
  <2> QED
    BY <1>29, <1>30, <1>20, <1>17, <2>1, CautiousBoth
<1>32. Cautious("Response", m3, s4, w3)
  BY <1>8, <1>26, <1>6, <1>21, <1>16, CautiousOne
<1>33. Cautious("Response", m0, w4, <<>>)
  <2>1. <<>> \o w3 = w3 /\ w3 \in Seq(Bytes) /\ s4 \in Seq(Bytes) /\ <<>> \in Seq(Bytes)
    BY <1>6, <1>21, <1>16, ConcatEmptySeq
  <2> QED
    BY <1>31, <1>32, <1>21, <1>16, <2>1, CautiousBoth
<1> QED
  BY <1>23, <1>33 DEF m0

-----------------------------------------------------------------------------
(* A field that the reader does not know.  What is read of an encoding      *)
(* depends on its bytes only, not on where it stands: s is in buf behind    *)
(* the first o bytes.                                                       *)

Within(buf, o, s) ==
  /\ o \in Nat
  /\ o + Len(s) <= Len(buf)
  /\ \A k \in 1 .. Len(s) : buf[o + k] = s[k]

Moved(o, v) == [value |-> v.value, next |-> o + v.next]

(* The bits of a varint are gathered alike.                                *)
LEMMA GatheredMoved ==
  ASSUME NEW s \in Seq(Bytes), NEW buf \in Seq(Bytes), NEW o, Within(buf, o, s),
         NEW j \in 1 .. Len(s), NEW h \in j .. Len(s)
  PROVE  Gathered(buf, o + j)[o + h] = Gathered(s, j)[h]
<1> DEFINE g(m) == Gathered(buf, o + j)[o + (j - 1 + m)]
           w(m) == Gathered(s, j)[j - 1 + m]
           S == {m \in Nat : j - 1 + m <= Len(s) => g(m) = w(m)}
<1>0. o \in Nat /\ Len(s) \in Nat /\ Len(buf) \in Nat /\ j \in Nat /\ o + Len(s) <= Len(buf)
      /\ o + j \in 1 .. Len(buf) /\ h \in Nat
  BY DEF Within
<1>1. 0 \in S
  <2>1. o + (j - 1 + 0) = (o + j) - 1 /\ j - 1 + 0 = j - 1
    BY <1>0
  <2>2. Gathered(buf, o + j)[(o + j) - 1] = 0 /\ Gathered(s, j)[j - 1] = 0
    BY <1>0, GatheredEquation
  <2> QED
    BY <2>1, <2>2
<1>2. ASSUME NEW m \in Nat, m \in S PROVE m + 1 \in S
  <2> SUFFICES ASSUME j - 1 + (m + 1) <= Len(s) PROVE g(m + 1) = w(m + 1)
    OBVIOUS
  <2>1. PICK p \in Nat : p = j + m
    BY <1>0
  <2>2. /\ j - 1 + (m + 1) = p /\ j - 1 + m = p - 1 /\ j - 1 + m <= Len(s)
        /\ p \in j .. Len(s) /\ o + p \in o + j .. Len(buf) /\ (o + p) - (o + j) = p - j
        /\ o + (p - 1) = (o + p) - 1 /\ p \in 1 .. Len(s)
    BY <1>0, <2>1
  <2>3. Gathered(buf, o + j)[(o + p) - 1] = Gathered(s, j)[p - 1]
    BY <1>2, <2>2
  <2>4. buf[o + p] = s[p]
    BY <2>2 DEF Within
  <2>5. Gathered(s, j)[p] = Gathered(s, j)[p - 1] + ShiftLeft(s[p] % 128, 7 * (p - j))
    BY <2>2, GatheredEquation
  <2>6. Gathered(buf, o + j)[o + p] =
          Gathered(buf, o + j)[(o + p) - 1] + ShiftLeft(buf[o + p] % 128, 7 * ((o + p) - (o + j)))
    BY <1>0, <2>2, GatheredEquation
  <2>7. Gathered(buf, o + j)[o + p] = Gathered(s, j)[p]
    BY <2>2, <2>3, <2>4, <2>5, <2>6
  <2> QED
    BY <2>2, <2>7
<1>3. Nat \subseteq S
  <2> HIDE DEF S
  <2> QED
    BY <1>1, <1>2, SetInduction
<1>4. h - j + 1 \in Nat /\ j - 1 + (h - j + 1) = h /\ h <= Len(s)
  BY <1>0
<1>5. g(h - j + 1) = w(h - j + 1)
  BY <1>3, <1>4
<1> QED
  BY <1>4, <1>5

(* A varint is the same, and ends at the same byte.                        *)
LEMMA VarintMoved ==
  ASSUME NEW s \in Seq(Bytes), NEW buf \in Seq(Bytes), NEW o, Within(buf, o, s),
         NEW j \in Nat \ {0}, NEW v \in VarintAt(s, j)
  PROVE  /\ Only(VarintAt(buf, o + j), Moved(o, v))
         /\ v.value \in Nat /\ v.next \in j + 1 .. Len(s) + 1
<1>0. o \in Nat /\ Len(s) \in Nat /\ Len(buf) \in Nat /\ o + Len(s) <= Len(buf)
  BY DEF Within
<1>1. PICK h \in j .. Len(s) : EndsAt(s, j, h)
        /\ v = [value |-> Unsigned(Gathered(s, j)[h]), next |-> h + 1]
  BY VarintAtEnds
<1>2. /\ j \in 1 .. Len(s) /\ h \in 1 .. Len(s) /\ o + j \in Nat \ {0}
      /\ o + h \in o + j .. Len(buf) /\ (o + h) - (o + j) = h - j
      /\ o + (h + 1) = (o + h) + 1
  BY <1>0
<1>3. EndsAt(buf, o + j, o + h)
  <2>1. buf[o + h] < 128
    BY <1>1, <1>2 DEF Within, EndsAt
  <2>2. ASSUME NEW p \in o + j .. (o + h) - 1 PROVE buf[p] >= 128
    <3>1. p - o \in j .. h - 1 /\ p - o \in 1 .. Len(s) /\ o + (p - o) = p
      BY <1>0, <1>2
    <3>2. buf[p] = s[p - o]
      BY <3>1 DEF Within
    <3>3. s[p - o] >= 128
      BY <1>1, <3>1 DEF EndsAt
    <3> QED
      BY <3>2, <3>3
  <2>3. 7 * ((o + h) - (o + j)) < WordBits
    BY <1>1, <1>2 DEF EndsAt
  <2> QED
    BY <2>1, <2>2, <2>3 DEF EndsAt
<1>4. Gathered(buf, o + j)[o + h] = Gathered(s, j)[h]
  BY <1>2, GatheredMoved
<1>5. v.next = h + 1 /\ v.value = Unsigned(Gathered(s, j)[h])
  BY <1>1
<1>6. [value |-> Unsigned(Gathered(buf, o + j)[o + h]), next |-> (o + h) + 1] \in VarintAt(buf, o + j)
  BY <1>2, <1>3, VarintAtEnds
<1>7. Moved(o, v) \in VarintAt(buf, o + j)
  BY <1>2, <1>4, <1>5, <1>6 DEF Moved
<1>8. \A x, y \in VarintAt(buf, o + j) : x = y
  BY <1>2, VarintInBounds
<1>9. VarintAt(buf, o + j) = {Moved(o, v)}
  BY <1>7, <1>8
<1>10. v.value \in Nat /\ v.next \in j + 1 .. Len(s) + 1
  BY VarintInBounds DEF Words
<1> QED
  BY <1>9, <1>10 DEF Only

(* A delimited value ends at the same byte.                                *)
LEMMA PastMoved ==
  ASSUME NEW s \in Seq(Bytes), NEW buf \in Seq(Bytes), NEW o, Within(buf, o, s),
         NEW j \in Nat \ {0}, NEW n \in Past(s, j)
  PROVE  Only(Past(buf, o + j), o + n)
<1>1. PICK v \in VarintAt(s, j) : Signed(v.value, WordBits) >= 0 /\ n = v.next + v.value
  BY DEF Past
<1>2. Only(VarintAt(buf, o + j), Moved(o, v)) /\ v.value \in Nat /\ v.next \in Nat
  BY VarintMoved
<1>3. o \in Nat
  BY DEF Within
<1>4. PICK u : u = Moved(o, v)
  OBVIOUS
<1>5. VarintAt(buf, o + j) = {u} /\ u.value = v.value /\ u.next = o + v.next
  BY <1>2, <1>4 DEF Moved, Only
<1>6. u.next + u.value = o + n
  BY <1>1, <1>2, <1>3, <1>5
<1>7. Past(buf, o + j) = {u.next + u.value}
  BY <1>1, <1>5 DEF Past
<1> QED
  BY <1>6, <1>7 DEF Only

(* A round ends at the same byte, with as many groups open.                *)
LEMMA RoundMoved ==
  ASSUME NEW s \in Seq(Bytes), NEW buf \in Seq(Bytes), NEW o, Within(buf, o, s),
         NEW j \in Nat \ {0}, NEW d \in Nat, NEW y \in SkipRound(s, j, d)
  PROVE  Only(SkipRound(buf, o + j, d), <<o + y[1], y[2]>>)
<1>0. o \in Nat
  BY DEF Within
<1>1. PICK k \in VarintAt(s, j) : y \in RoundAfter(s, k, d)
  BY SkipRoundIs
<1>2. Only(VarintAt(buf, o + j), Moved(o, k)) /\ k.value \in Nat /\ k.next \in Nat \ {0}
  BY VarintMoved
<1>3. PICK u : u = Moved(o, k)
  OBVIOUS
<1>4. VarintAt(buf, o + j) = {u} /\ u.value = k.value /\ u.next = o + k.next
  BY <1>2, <1>3 DEF Moved, Only
<1>5. SkipRound(buf, o + j, d) = RoundAfter(buf, u, d)
  <2>1. SkipRound(buf, o + j, d) = UNION {RoundAfter(buf, x, d) : x \in VarintAt(buf, o + j)}
    BY SkipRoundIs
  <2> QED
    BY <1>4, <2>1
<1>6. RoundAfter(buf, u, d) = {<<o + y[1], y[2]>>}
  <2>1. CASE k.value % 8 = 0
    <3>1. PICK v \in VarintAt(s, k.next) : y = <<v.next, d>>
      BY <1>1, <2>1 DEF RoundAfter
    <3>2. Only(VarintAt(buf, o + k.next), Moved(o, v))
      BY <1>2, VarintMoved
    <3>3. PICK w : w = Moved(o, v)
      OBVIOUS
    <3>4. VarintAt(buf, u.next) = {w} /\ w.next = o + v.next
      BY <1>4, <3>2, <3>3 DEF Moved, Only
    <3>5. RoundAfter(buf, u, d) = {<<w.next, d>>}
      BY <1>4, <2>1, <3>4 DEF RoundAfter
    <3> QED
      BY <3>1, <3>4, <3>5
  <2>2. CASE k.value % 8 = 1
    <3>1. y = <<k.next + 8, d>>
      BY <1>1, <2>2 DEF RoundAfter
    <3>2. RoundAfter(buf, u, d) = {<<u.next + 8, d>>}
      BY <1>4, <2>2 DEF RoundAfter
    <3>3. u.next + 8 = o + (k.next + 8)
      BY <1>0, <1>2, <1>4
    <3> QED
      BY <3>1, <3>2, <3>3
  <2>3. CASE k.value % 8 = 2
    <3>1. PICK n \in Past(s, k.next) : y = <<n, d>>
      BY <1>1, <2>3 DEF RoundAfter
    <3>2. Only(Past(buf, o + k.next), o + n)
      BY <1>2, PastMoved
    <3>3. PICK p : p = o + n
      OBVIOUS
    <3>4. Past(buf, u.next) = {p}
      BY <1>4, <3>2, <3>3 DEF Only
    <3>5. RoundAfter(buf, u, d) = {<<p, d>>}
      BY <1>4, <2>3, <3>4 DEF RoundAfter
    <3> QED
      BY <3>1, <3>3, <3>5
  <2>4. CASE k.value % 8 = 3
    <3>1. y = <<k.next, d + 1>>
      BY <1>1, <2>4 DEF RoundAfter
    <3>2. RoundAfter(buf, u, d) = {<<u.next, d + 1>>}
      BY <1>4, <2>4 DEF RoundAfter
    <3> QED
      BY <1>4, <3>1, <3>2
  <2>5. CASE k.value % 8 = 4
    <3>1. d # 0 /\ y = <<k.next, d - 1>>
      BY <1>1, <2>5 DEF RoundAfter
    <3>2. RoundAfter(buf, u, d) = {<<u.next, d - 1>>}
      BY <1>4, <2>5, <3>1 DEF RoundAfter
    <3> QED
      BY <1>4, <3>1, <3>2
  <2>6. CASE k.value % 8 = 5
    <3>1. y = <<k.next + 4, d>>
      BY <1>1, <2>6 DEF RoundAfter
    <3>2. RoundAfter(buf, u, d) = {<<u.next + 4, d>>}
      BY <1>4, <2>6 DEF RoundAfter
    <3>3. u.next + 4 = o + (k.next + 4)
      BY <1>0, <1>2, <1>4
    <3> QED
      BY <3>1, <3>2, <3>3
  <2>7. CASE k.value % 8 \notin {0, 1, 2, 3, 4, 5}
    <3>1. RoundAfter(s, k, d) = {}
      BY <2>7 DEF RoundAfter
    <3> QED
      BY <1>1, <3>1
  <2> QED
    BY <2>1, <2>2, <2>3, <2>4, <2>5, <2>6, <2>7
<1> QED
  BY <1>5, <1>6 DEF Only

(* skipPacket ends at the same byte of a field wherever in a buffer the    *)
(* field stands, whatever follows it and however many groups it opens: a   *)
(* reader that does not know a field steps over exactly its bytes.         *)
THEOREM SkipMoved ==
  ASSUME NEW s \in Seq(Bytes), NEW buf \in Seq(Bytes), NEW o, Within(buf, o, s),
         NEW j \in 1 .. Len(s), NEW n \in skipPacket(s, j)
  PROVE  Only(skipPacket(buf, o + j), o + n)
<1> DEFINE e == SkipEnds(s)
           b == SkipEnds(buf)
           T == {p \in 1 .. Len(s) :
                   \A d \in Nat : \A m \in e[<<p, d>>] : b[<<o + p, d>>] = {o + m}}
<1>0. o \in Nat /\ Len(s) \in Nat /\ Len(buf) \in Nat /\ o + Len(s) <= Len(buf)
  BY DEF Within
<1>1. ASSUME NEW p \in 1 .. Len(s), \A q \in p + 1 .. Len(s) : q \in T
      PROVE  p \in T
  <2> SUFFICES ASSUME NEW d \in Nat, NEW m \in e[<<p, d>>]
               PROVE  b[<<o + p, d>>] = {o + m}
    OBVIOUS
  <2>1. PICK y \in SkipRound(s, p, d) : m \in GoesOn(s, e, y)
    BY SkipEndsEquation
  <2>2. y \in Nat \X Nat /\ y[1] > p
    BY SkipRoundMoves
  <2>3. PICK q \in Nat, h \in Nat : y = <<q, h>> /\ q > p
    BY <2>2
  <2>4. Only(SkipRound(buf, o + p, d), <<o + y[1], y[2]>>)
    BY RoundMoved
  <2>5. PICK z : z = <<o + q, h>> /\ SkipRound(buf, o + p, d) = {z}
    BY <2>3, <2>4 DEF Only
  <2>6. o + p \in 1 .. Len(buf)
    BY <1>0
  <2>7. b[<<o + p, d>>] = UNION {GoesOn(buf, b, x) : x \in SkipRound(buf, o + p, d)}
    BY <2>6, SkipEndsEquation
  <2>8. b[<<o + p, d>>] = GoesOn(buf, b, z)
    <3> HIDE DEF b
    <3> QED
      BY <2>5, <2>7
  <2>9. z[1] = o + q /\ z[2] = h /\ y[1] = q /\ y[2] = h
    BY <2>3, <2>5
  <2>10. CASE h = 0
    <3>1. m = q /\ GoesOn(buf, b, z) = {o + q}
      BY <2>1, <2>9, <2>10 DEF GoesOn
    <3> QED
      BY <2>8, <3>1
  <2>11. CASE h # 0
    <3>1. q <= Len(s) /\ m \in e[<<q, h>>]
      BY <2>1, <2>3, <2>9, <2>11 DEF GoesOn
    <3>2. q \in p + 1 .. Len(s) /\ o + q <= Len(buf)
      BY <1>0, <2>3, <3>1
    <3>3. b[<<o + q, h>>] = {o + m}
      BY <1>1, <3>1, <3>2
    <3>4. GoesOn(buf, b, z) = b[z]
      BY <2>9, <2>11, <3>2 DEF GoesOn
    <3> QED
      BY <2>5, <2>8, <3>3, <3>4
  <2> QED
    BY <2>10, <2>11
<1>2. 1 .. Len(s) \subseteq T
  <2> HIDE DEF T
  <2> QED
    BY <1>0, <1>1, Downward
<1>3. n \in e[<<j, 0>>]
  BY SkipPacketIs
<1>4. b[<<o + j, 0>>] = {o + n}
  BY <1>2, <1>3
<1>5. skipPacket(buf, o + j) = b[<<o + j, 0>>]
  BY SkipPacketIs
<1> QED
  BY <1>4, <1>5 DEF Only

-----------------------------------------------------------------------------
(* What a reader makes of it. *)

(* A signed word is an integer.                                            *)
LEMMA SignedInt == \A x \in Nat, b \in 1 .. WordBits : Signed(x, b) \in Int
<1> TAKE x \in Nat, b \in 1 .. WordBits
<1>1. PICK h \in Nat \ {0} : h = Pow2[b - 1] /\ Pow2[b] = 2 * h
  BY Pow2Half
<1>2. x % (2 * h) \in Int /\ (x % (2 * h)) - 2 * h \in Int
  BY <1>1
<1> QED
  BY <1>1, <1>2 DEF Signed

IsNew(s) ==
  /\ s \in Seq(Bytes) \ {<<>>}
  /\ \E f \in FieldAt(s, 1, Len(s), {}) : f.num > 8 /\ f.next = Len(s) + 1

(* A field that the reader does not know is found, and filled by its       *)
(* bytes.                                                                  *)
LEMMA NewField ==
  ASSUME NEW s, IsNew(s), NEW buf \in Seq(Bytes), NEW i \in Nat \ {0}, Stands(buf, i, s)
  PROVE  /\ i \in 1 .. Len(buf)
         /\ \E f : /\ Only(FieldAt(buf, i, Len(buf), {}), f)
                   /\ f.num \in Int /\ f.num > 8
                   /\ f.first = i /\ f.next = i + Len(s)
<1> DEFINE o == i - 1
<1>1. s \in Seq(Bytes) /\ Len(s) \in Nat \ {0} /\ Len(buf) \in Nat /\ o \in Nat /\ o + 1 = i
      /\ i + Len(s) - 1 <= Len(buf)
  <2>1. s \in Seq(Bytes) /\ s # <<>>
    BY DEF IsNew
  <2>2. Len(s) \in Nat \ {0}
    BY <2>1, EmptySeq
  <2> QED
    BY <2>1, <2>2 DEF Stands
<1>2. Within(buf, o, s)
  <2>1. \A k \in 1 .. Len(s) : i + k - 1 = o + k /\ i + k - 1 <= Len(buf)
    BY <1>1
  <2>2. o + Len(s) <= Len(buf)
    BY <1>1
  <2> QED
    BY <1>1, <2>1, <2>2 DEF Within, Stands, Begins
<1>3. PICK g \in FieldAt(s, 1, Len(s), {}) : g.num > 8 /\ g.next = Len(s) + 1
  BY DEF IsNew
<1> DEFINE F(k, p, n) == [num |-> Signed(k.value \div 8, Int32Bits), type |-> k.value % 8, first |-> p,
                          at |-> k.next, next |-> n]
<1>4. \A q, p, l, f : f \in FieldAt(q, p, l, {}) <=>
        \E k \in VarintAt(q, p) : \E n \in skipPacket(q, p) : n <= l + 1 /\ f = F(k, p, n)
  BY DEF FieldAt
<1>5. PICK k \in VarintAt(s, 1), n \in skipPacket(s, 1) : g = F(k, 1, n)
  BY <1>3, <1>4
<1>6. Only(VarintAt(buf, o + 1), Moved(o, k)) /\ k.value \in Nat
  BY <1>1, <1>2, VarintMoved
<1>7. Only(skipPacket(buf, o + 1), o + n)
  BY <1>1, <1>2, SkipMoved
<1>8. n = Len(s) + 1 /\ Signed(k.value \div 8, Int32Bits) > 8
  BY <1>3, <1>5
<1>9. PICK u : u = Moved(o, k)
  OBVIOUS
<1>10. VarintAt(buf, i) = {u} /\ u.value = k.value /\ skipPacket(buf, i) = {i + Len(s)}
  <2>1. o + n = i + Len(s)
    BY <1>1, <1>8
  <2> QED
    BY <1>1, <1>6, <1>7, <1>9, <2>1 DEF Only, Moved
<1>11. PICK f : f = F(u, i, i + Len(s))
  OBVIOUS
<1>12. f.num = Signed(k.value \div 8, Int32Bits) /\ f.first = i /\ f.next = i + Len(s)
  BY <1>10, <1>11
<1>13. f.num \in Int
  <2>1. k.value \div 8 \in Nat
    BY <1>6
  <2>2. Int32Bits \in 1 .. WordBits
    BY WidthsAssumption, WordBitsAssumption DEF WidthsAssumption,
       WordBitsAssumption
  <2> QED
    BY <1>12, <2>1, <2>2, SignedInt
<1>14. i + Len(s) <= Len(buf) + 1 /\ i \in 1 .. Len(buf)
  BY <1>1
<1> HIDE DEF F
<1>15. FieldAt(buf, i, Len(buf), {}) = {f}
  <2>1. \A x : x \in FieldAt(buf, i, Len(buf), {}) <=>
          \E v \in VarintAt(buf, i) : \E m \in skipPacket(buf, i) : m <= Len(buf) + 1 /\ x = F(v, i, m)
    BY <1>4
  <2>2. \A x : x \in FieldAt(buf, i, Len(buf), {}) <=> x = f
    BY <1>10, <1>11, <1>14, <2>1
  <2> QED
    BY <2>2
<1> QED
  BY <1>8, <1>12, <1>13, <1>14, <1>15 DEF Only

(* What every unknown field makes of a message is what reading it makes.   *)
LEMMA NewFieldKept ==
  ASSUME NEW type, NEW m, NEW x, NEW s, IsNew(s),
         \A buf, f : f.num \in Int /\ f.num > 8 /\ SubSeq(buf, f.first, f.next - 1) = s =>
                       Only(FieldBy(type, m, buf, f), x)
  PROVE  s \in Seq(Bytes) /\ Reads(type, m, x, s)
<1>1. s \in Seq(Bytes) /\ Len(s) \in Nat
  BY DEF IsNew
<1>2. ASSUME NEW buf \in Seq(Bytes), NEW i \in Nat \ {0}, Stands(buf, i, s)
      PROVE  Reading(type, m, buf, i) = Reading(type, x, buf, i + Len(s))
  <2>1. PICK f : /\ Only(FieldAt(buf, i, Len(buf), {}), f)
                 /\ f.num \in Int /\ f.num > 8
                 /\ f.first = i /\ f.next = i + Len(s)
    BY <1>2, NewField
  <2>2. i \in 1 .. Len(buf)
    BY <1>2, NewField
  <2>3. SubSeq(buf, i, i + Len(s) - 1) = s
    BY <1>1, <1>2, StandsSub
  <2>7. SubSeq(buf, f.first, f.next - 1) = s
    BY <2>1, <2>3
  <2>4. Only(FieldBy(type, m, buf, f), x)
    BY <2>1, <2>7
  <2>5. PICK n : n = i + Len(s) /\ f.next = n
    BY <2>1
  <2>6. Reading(type, m, buf, i) = Reading(type, x, buf, n)
    BY <2>1, <2>2, <2>4, <2>5, FieldReads
  <2> QED
    BY <2>5, <2>6
<1> QED
  BY <1>1, <1>2 DEF Reads

(* A message keeps the bytes of a field it does not know.                  *)
LEMMA RequestNew ==
  ASSUME NEW x1, NEW x2, NEW x3, NEW x4, NEW u, NEW s, IsNew(s)
  PROVE  Reads("Request", NewRequest(x1, x2, x3, x4, u), NewRequest(x1, x2, x3, x4, u \o s), s)
<1>1. PICK m, x : m = NewRequest(x1, x2, x3, x4, u) /\ x = NewRequest(x1, x2, x3, x4, u \o s)
  OBVIOUS
<1>2. ASSUME NEW buf, NEW f, f.num \in Int, f.num > 8, SubSeq(buf, f.first, f.next - 1) = s
      PROVE  Only(FieldBy("Request", m, buf, f), x)
  <2>1. f.num > 4
    BY <1>2
  <2>2. FieldBy("Request", NewRequest(x1, x2, x3, x4, u), buf, f) =
          {NewRequest(x1, x2, x3, x4, u \o SubSeq(buf, f.first, f.next - 1))}
    BY <1>2, <2>1, RequestFields
  <2> QED
    BY <1>1, <1>2, <2>2 DEF Only
<1> QED
  BY <1>1, <1>2, NewFieldKept

LEMMA ResponseNew ==
  ASSUME NEW x1, NEW x2, NEW x3, NEW x4, NEW u, NEW s, IsNew(s)
  PROVE  Reads("Response", NewResponse(x1, x2, x3, x4, u), NewResponse(x1, x2, x3, x4, u \o s), s)
<1>1. PICK m, x : m = NewResponse(x1, x2, x3, x4, u) /\ x = NewResponse(x1, x2, x3, x4, u \o s)
  OBVIOUS
<1>2. ASSUME NEW buf, NEW f, f.num \in Int, f.num > 8, SubSeq(buf, f.first, f.next - 1) = s
      PROVE  Only(FieldBy("Response", m, buf, f), x)
  <2>1. f.num > 4
    BY <1>2
  <2>2. FieldBy("Response", NewResponse(x1, x2, x3, x4, u), buf, f) =
          {NewResponse(x1, x2, x3, x4, u \o SubSeq(buf, f.first, f.next - 1))}
    BY <1>2, <2>1, ResponseFields
  <2> QED
    BY <1>1, <1>2, <2>2 DEF Only
<1> QED
  BY <1>1, <1>2, NewFieldKept

LEMMA MetricsNew ==
  ASSUME NEW ms, NEW u, NEW s, IsNew(s)
  PROVE  Reads("Metrics", NewMetrics(ms, u), NewMetrics(ms, u \o s), s)
<1>1. PICK m, x : m = NewMetrics(ms, u) /\ x = NewMetrics(ms, u \o s)
  OBVIOUS
<1>2. ASSUME NEW buf, NEW f, f.num \in Int, f.num > 8, SubSeq(buf, f.first, f.next - 1) = s
      PROVE  Only(FieldBy("Metrics", m, buf, f), x)
  <2>1. f.num > 1
    BY <1>2
  <2>2. FieldBy("Metrics", NewMetrics(ms, u), buf, f) =
          {NewMetrics(ms, u \o SubSeq(buf, f.first, f.next - 1))}
    BY <1>2, <2>1, MetricsUnknown
  <2> QED
    BY <1>1, <1>2, <2>2 DEF Only
<1> QED
  BY <1>1, <1>2, NewFieldKept

-----------------------------------------------------------------------------
(* A message with unknown fields, and what a reader begins with.            *)

Carrying(m, u) == [m EXCEPT !.XXX_unrecognized = u]

Zero(type, u) ==
  CASE type = "Request"  -> NewRequest(0, 0, NoMap, <<>>, u)
    [] type = "Response" -> NewResponse(0, NoMap, 0, <<>>, u)
    [] type = "Metrics"  -> NewMetrics(<<>>, u)

Sendable(type, m) == type \in Types /\ IsOf(type, m) /\ Fits(SizeBy(type, m))

(* Unmarshal reads into the zero value, from the first byte.               *)
LEMMA UnmarshalledIs ==
  ASSUME NEW type \in Types, NEW s
  PROVE  Unmarshalled(type, s) = Reading(type, Zero(type, <<>>), s, 1)
<1>1. CASE type = "Request"
  <2>1. Zero(type, <<>>) = Request
    BY <1>1 DEF Zero, NewRequest, Request
  <2>2. Unmarshalled(type, s) = Decode(Request, s, 1, Len(s), {}, RequestField)
    BY <1>1 DEF Unmarshalled, UnmarshalRequest, Unmarshal
  <2> QED
    BY <1>1, <2>1, <2>2, DecodeRequestIs DEF Reading
<1>2. CASE type = "Response"
  <2>1. Zero(type, <<>>) = Response
    BY <1>2 DEF Zero, NewResponse, Response
  <2>2. Unmarshalled(type, s) = Decode(Response, s, 1, Len(s), {}, ResponseField)
    BY <1>2 DEF Unmarshalled, UnmarshalResponse, Unmarshal
  <2> QED
    BY <1>2, <2>1, <2>2, DecodeResponseIs DEF Reading
<1>3. CASE type = "Metrics"
  <2>1. Zero(type, <<>>) = Metrics
    BY <1>3 DEF Zero, NewMetrics, Metrics
  <2>2. Unmarshalled(type, s) = Decode(Metrics, s, 1, Len(s), {}, MetricsField)
    BY <1>3 DEF Unmarshalled, UnmarshalMetrics, Unmarshal
  <2> QED
    BY <1>3, <2>1, <2>2, DecodeMetricsIs DEF Reading
<1> QED
  BY <1>1, <1>2, <1>3 DEF Types

(* Whatever is carried already, a message is read back whole, or cut, as   *)
(* the message that ends there.                                            *)
LEMMA MessageReads ==
  ASSUME NEW type, NEW m, Sendable(type, m), NEW w \in PutOf(type, m), NEW u
  PROVE  /\ w \in Seq(Bytes)
         /\ Reads(type, Zero(type, u), Carrying(m, u), w)
         /\ Cautious(type, Zero(type, <<>>), w, <<>>)
<1>1. CASE type = "Request"
  <2>1. IsRequest(m) /\ Fits(SizeRequest(m)) /\ w \in PutRequest(m)
    BY <1>1 DEF Sendable, IsOf, SizeBy, PutOf
  <2>2. Zero(type, u) = NewRequest(0, 0, NoMap, <<>>, u)
        /\ Zero(type, <<>>) = NewRequest(0, 0, NoMap, <<>>, <<>>)
    BY <1>1 DEF Zero
  <2> QED
    BY <1>1, <2>1, <2>2, RequestReads, RequestCut DEF Carrying
<1>2. CASE type = "Response"
  <2>1. IsResponse(m) /\ Fits(SizeResponse(m)) /\ w \in PutResponse(m)
    BY <1>2 DEF Sendable, IsOf, SizeBy, PutOf
  <2>2. Zero(type, u) = NewResponse(0, NoMap, 0, <<>>, u)
        /\ Zero(type, <<>>) = NewResponse(0, NoMap, 0, <<>>, <<>>)
    BY <1>2 DEF Zero
  <2> QED
    BY <1>2, <2>1, <2>2, ResponseReads, ResponseCut DEF Carrying
<1>3. CASE type = "Metrics"
  <2>1. IsMetrics(m) /\ Fits(SizeMetrics(m)) /\ w \in PutMetrics(m)
    BY <1>3 DEF Sendable, IsOf, SizeBy, PutOf
  <2>2. Zero(type, u) = NewMetrics(<<>>, u)
        /\ Zero(type, <<>>) = NewMetrics(<<>>, <<>>)
    BY <1>3 DEF Zero
  <2>3. Cautious("Metrics", NewMetrics(<<>>, <<>>), w, <<>>)
    BY <2>1, MetricsReads
  <2> QED
    BY <1>3, <2>1, <2>2, <2>3, MetricsReads DEF Carrying
<1> QED
  BY <1>1, <1>2, <1>3 DEF Sendable, Types

(* A field that the reader does not know is kept, before and after the     *)
(* known ones.                                                             *)
LEMMA MessageKeepsNew ==
  ASSUME NEW type, NEW m, Sendable(type, m), NEW s, IsNew(s)
  PROVE  /\ s \in Seq(Bytes)
         /\ Carrying(m, <<>>) = m
         /\ Reads(type, Zero(type, <<>>), Zero(type, s), s)
         /\ Reads(type, m, Carrying(m, s), s)
<1>0. s \in Seq(Bytes) /\ <<>> \o s = s
  BY ConcatEmptySeq DEF IsNew
<1>1. CASE type = "Request"
  <2>1. IsRequest(m) /\ Fits(SizeRequest(m))
    BY <1>1 DEF Sendable, IsOf, SizeBy
  <2>2. PICK x1, x2, x3, x4 : x1 = m.Sid /\ x2 = m.RpcId /\ x3 = m.Headers /\ x4 = m.Packet
    OBVIOUS
  <2>3. m = NewRequest(x1, x2, x3, x4, <<>>)
    BY <2>1, <2>2, RequestFits
  <2>4. \A v : Carrying(m, v) = NewRequest(x1, x2, x3, x4, v)
    BY <2>3 DEF Carrying, NewRequest
  <2>5. \A v : Zero(type, v) = NewRequest(0, 0, NoMap, <<>>, v)
    BY <1>1 DEF Zero
  <2>6. Reads(type, NewRequest(0, 0, NoMap, <<>>, <<>>), NewRequest(0, 0, NoMap, <<>>, <<>> \o s), s)
    BY <1>1, RequestNew
  <2>7. Reads(type, NewRequest(x1, x2, x3, x4, <<>>), NewRequest(x1, x2, x3, x4, <<>> \o s), s)
    BY <1>1, RequestNew
  <2> QED
    BY <1>0, <2>3, <2>4, <2>5, <2>6, <2>7
<1>2. CASE type = "Response"
  <2>1. IsResponse(m) /\ Fits(SizeResponse(m))
    BY <1>2 DEF Sendable, IsOf, SizeBy
  <2>2. PICK x1, x2, x3, x4 : x1 = m.Sid /\ x2 = m.Headers /\ x3 = m.Code /\ x4 = m.Packet
    OBVIOUS
  <2>3. m = NewResponse(x1, x2, x3, x4, <<>>)
    BY <2>1, <2>2, ResponseFits
  <2>4. \A v : Carrying(m, v) = NewResponse(x1, x2, x3, x4, v)
    BY <2>3 DEF Carrying, NewResponse
  <2>5. \A v : Zero(type, v) = NewResponse(0, NoMap, 0, <<>>, v)
    BY <1>2 DEF Zero
  <2>6. Reads(type, NewResponse(0, NoMap, 0, <<>>, <<>>), NewResponse(0, NoMap, 0, <<>>, <<>> \o s), s)
    BY <1>2, ResponseNew
  <2>7. Reads(type, NewResponse(x1, x2, x3, x4, <<>>), NewResponse(x1, x2, x3, x4, <<>> \o s), s)
    BY <1>2, ResponseNew
  <2> QED
    BY <1>0, <2>3, <2>4, <2>5, <2>6, <2>7
<1>3. CASE type = "Metrics"
  <2>1. IsMetrics(m)
    BY <1>3 DEF Sendable, IsOf
  <2>2. PICK ms : ms = m.Lists
    OBVIOUS
  <2>3. m = NewMetrics(ms, <<>>)
    <3>1. m \in [Lists : {m.Lists}, XXX_unrecognized : {<<>>}]
      BY <2>1 DEF IsMetrics
    <3> QED
      BY <2>2, <3>1 DEF NewMetrics
  <2>4. \A v : Carrying(m, v) = NewMetrics(ms, v)
    BY <2>3 DEF Carrying, NewMetrics
  <2>5. \A v : Zero(type, v) = NewMetrics(<<>>, v)
    BY <1>3 DEF Zero
  <2>6. Reads(type, NewMetrics(<<>>, <<>>), NewMetrics(<<>>, <<>> \o s), s)
    BY <1>3, MetricsNew
  <2>7. Reads(type, NewMetrics(ms, <<>>), NewMetrics(ms, <<>> \o s), s)
    BY <1>3, MetricsNew
  <2> QED
    BY <1>0, <2>3, <2>4, <2>5, <2>6, <2>7
<1> QED
  BY <1>1, <1>2, <1>3 DEF Sendable, Types

(* A message that is sent carries nothing unknown.                         *)
LEMMA CarryingNone ==
  ASSUME NEW type, NEW m, Sendable(type, m)
  PROVE  Carrying(m, <<>>) = m
<1>1. ASSUME IsRequest(m) PROVE Carrying(m, <<>>) = m
  BY <1>1 DEF IsRequest, Carrying
<1>2. ASSUME IsResponse(m) PROVE Carrying(m, <<>>) = m
  BY <1>2 DEF IsResponse, Carrying
<1>3. ASSUME IsMetrics(m) PROVE Carrying(m, <<>>) = m
  BY <1>3 DEF IsMetrics, Carrying
<1> QED
  BY <1>1, <1>2, <1>3 DEF Sendable, IsOf, Types

(* Whatever Marshal writes of a message, Unmarshal reads back as exactly   *)
(* that message; and if a newer sender has put a field that the reader     *)
(* does not know in front of it or behind it, the reader has the message   *)
(* and the bytes of the field.                                             *)
THEOREM ReadBack ==
  ASSUME NEW type, NEW m, Sendable(type, m), NEW w \in Marshal(type, m)
  PROVE  /\ Unmarshalled(type, w) = {Carrying(m, <<>>)}
         /\ \A s : IsNew(s) => /\ Unmarshalled(type, s \o w) = {Carrying(m, s)}
                               /\ Unmarshalled(type, w \o s) = {Carrying(m, s)}
<1>1. type \in Types /\ w \in PutOf(type, m)
  BY MarshalPuts DEF Sendable
<1>2. \A u : w \in Seq(Bytes) /\ Reads(type, Zero(type, u), Carrying(m, u), w)
  BY <1>1, MessageReads
<1>3. Unmarshalled(type, w) = {Carrying(m, <<>>)}
  BY <1>1, <1>2, UnmarshalledIs, ReadsAll
<1>4. ASSUME NEW s, IsNew(s)
      PROVE  /\ Unmarshalled(type, s \o w) = {Carrying(m, s)}
             /\ Unmarshalled(type, w \o s) = {Carrying(m, s)}
  <2>1. /\ s \in Seq(Bytes)
        /\ Carrying(m, <<>>) = m
        /\ Reads(type, Zero(type, <<>>), Zero(type, s), s)
        /\ Reads(type, m, Carrying(m, s), s)
    BY <1>4, MessageKeepsNew
  <2>2. Reads(type, Zero(type, <<>>), m, w) /\ Reads(type, Zero(type, s), Carrying(m, s), w)
    BY <1>2, <2>1
  <2>3. s \o w \in Seq(Bytes) /\ Reads(type, Zero(type, <<>>), Carrying(m, s), s \o w)
    BY <1>2, <2>1, <2>2, ReadsBoth
  <2>4. w \o s \in Seq(Bytes) /\ Reads(type, Zero(type, <<>>), Carrying(m, s), w \o s)
    BY <1>2, <2>1, <2>2, ReadsBoth
  <2>5. PICK p, q : p = s \o w /\ q = w \o s
    OBVIOUS
  <2>6. Reading(type, Zero(type, <<>>), p, 1) = {Carrying(m, s)}
    BY <2>3, <2>5, ReadsAll
  <2>7. Reading(type, Zero(type, <<>>), q, 1) = {Carrying(m, s)}
    BY <2>4, <2>5, ReadsAll
  <2> QED
    BY <1>1, <2>5, <2>6, <2>7, UnmarshalledIs
<1> QED
  BY <1>3, <1>4

(* Wherever an encoding is cut, Unmarshal refuses what is left, or reads a *)
(* message of which what is left is the whole encoding.                    *)
THEOREM CutReadsAsWritten ==
  ASSUME NEW type, NEW m, Sendable(type, m), NEW w \in Marshal(type, m), NEW n \in 0 .. Len(w) - 1,
         NEW y \in Unmarshalled(type, SubSeq(w, 1, n))
  PROVE  SubSeq(w, 1, n) \in Marshal(type, y)
<1>1. type \in Types /\ w \in PutOf(type, m)
  BY MarshalPuts DEF Sendable
<1>2. w \in Seq(Bytes) /\ Cautious(type, Zero(type, <<>>), w, <<>>)
  BY <1>1, MessageReads
<1>3. y \in Reading(type, Zero(type, <<>>), SubSeq(w, 1, n), 1)
  BY <1>1, UnmarshalledIs
<1>4. Written(type, y, SubSeq(w, 1, n))
  BY <1>2, <1>3, CautiousAll
<1> QED
  BY <1>1, <1>4, MarshalPuts DEF Written

-----------------------------------------------------------------------------
(* The behaviours. *)

Messages == kind \notin {"header", "setting"}

ValuesInv ==
  IF Messages
  THEN /\ Sendable(kind, sent)
       /\ stage \in {"made", "sent", "read", "cut", "readCut"}
       /\ stage = "made" => extra = <<>>
       /\ stage \in {"sent", "read"} =>
            \E w \in Marshal(kind, sent) :
              \/ extra = <<>> /\ wire = w
              \/ extra \in NewFields /\ wire \in {extra \o w, w \o extra}
       /\ stage \in {"cut", "readCut"} =>
            \E w \in Marshal(kind, sent) : \E n \in 0 .. Len(w) - 1 : wire = SubSeq(w, 1, n)
       /\ stage \in {"read", "readCut"} => got = Unmarshalled(kind, wire)
  ELSE stage = "made"

(* What is on its way is an encoding of the message, with a new field      *)
(* around it or without its end, and what was read is what Unmarshal makes *)
(* of it.                                                                  *)
LEMMA ValuesInvariant == ValuesSpec => []ValuesInv
<1>1. ValuesInit => ValuesInv
  <2> SUFFICES ASSUME ValuesInit PROVE ValuesInv
    OBVIOUS
  <2>1. stage = "made" /\ extra = <<>>
    BY DEF ValuesInit
  <2>2. Messages => Sendable(kind, sent)
    BY MessagesOK DEF ValuesInit, Messages, Sendable, Types, IsOf, SizeBy
  <2> QED
    BY <2>1, <2>2 DEF ValuesInv
<1>2. ValuesInv /\ [ValuesNext]_valuesVars => ValuesInv'
  <2> SUFFICES ASSUME ValuesInv, [ValuesNext]_valuesVars PROVE ValuesInv'
    OBVIOUS
  <2>1. CASE Send
    <3>1. Messages /\ Sendable(kind, sent) /\ extra = <<>>
      BY <2>1 DEF ValuesInv, Send, Messages
    <3>2. kind' = kind /\ sent' = sent /\ extra' = extra /\ stage' = "sent"
          /\ wire' \in Marshal(kind, sent)
      BY <2>1 DEF Send
    <3> QED
      BY <3>1, <3>2 DEF ValuesInv, Messages
  <2>2. CASE AddField
    <3>1. Messages /\ Sendable(kind, sent)
          /\ \E w \in Marshal(kind, sent) : (extra = <<>> /\ wire = w) \/ extra \in NewFields
      BY <2>2 DEF ValuesInv, AddField
    <3>2. extra = <<>> /\ extra' \in NewFields /\ wire' \in {extra' \o wire, wire \o extra'}
          /\ kind' = kind /\ sent' = sent /\ stage' = stage /\ stage = "sent"
      BY <2>2 DEF AddField
    <3>3. <<>> \notin NewFields
      BY NewFieldsOK
    <3>4. wire \in Marshal(kind, sent)
      BY <3>1, <3>2, <3>3
    <3> QED
      BY <3>1, <3>2, <3>4 DEF ValuesInv, Messages
  <2>3. CASE Cut
    <3>1. stage = "sent" /\ extra = <<>> /\ stage' = "cut" /\ kind' = kind /\ sent' = sent
          /\ \E n \in 0 .. Len(wire) - 1 : wire' = SubSeq(wire, 1, n)
      BY <2>3 DEF Cut
    <3>2. Messages /\ Sendable(kind, sent)
      BY <3>1 DEF ValuesInv
    <3>3. wire \in Marshal(kind, sent)
      BY <3>1, <3>2, NewFieldsOK DEF ValuesInv
    <3> QED
      BY <3>1, <3>2, <3>3 DEF ValuesInv, Messages
  <2>4. CASE Read
    <3>1. stage = "sent" /\ stage' = "read" /\ got' = Unmarshalled(kind, wire)
          /\ kind' = kind /\ sent' = sent /\ extra' = extra /\ wire' = wire
      BY <2>4 DEF Read
    <3> QED
      BY <3>1 DEF ValuesInv, Messages
  <2>5. CASE ReadCut
    <3>1. stage = "cut" /\ stage' = "readCut" /\ got' = Unmarshalled(kind, wire)
          /\ kind' = kind /\ sent' = sent /\ extra' = extra /\ wire' = wire
      BY <2>5 DEF ReadCut
    <3> QED
      BY <3>1 DEF ValuesInv, Messages
  <2>6. CASE UNCHANGED messageVars
    BY <2>6 DEF ValuesInv, Messages, messageVars
  <2> QED
    BY <2>1, <2>2, <2>3, <2>4, <2>5, <2>6 DEF ValuesNext, valuesVars
<1> QED
  BY <1>1, <1>2, PTL DEF ValuesSpec

(* In every behaviour Marshal succeeds on what the program makes, and what *)
(* Unmarshal makes of it is what was sent, the fields that only a newer    *)
(* sender knows kept as they came: for words of every width, every message *)
(* that fits an int and every order of its maps.                           *)
THEOREM MessagesIntact == ValuesSpec => []WireIntact
<1>1. ValuesInv => WireIntact
  <2> SUFFICES ASSUME ValuesInv, Messages
               PROVE  /\ stage = "made" => Marshal(kind, sent) # {}
                      /\ stage = "read" => got = {[sent EXCEPT !.XXX_unrecognized = extra]}
    BY DEF WireIntact, Messages
  <2>1. Sendable(kind, sent)
    BY DEF ValuesInv
  <2>2. Marshal(kind, sent) # {}
    BY <2>1, MarshalPuts DEF Sendable, OfSize
  <2>3. ASSUME stage = "read" PROVE got = {Carrying(sent, extra)}
    <3>1. PICK w \in Marshal(kind, sent) :
            \/ extra = <<>> /\ wire = w
            \/ extra \in NewFields /\ wire \in {extra \o w, w \o extra}
      BY <2>3 DEF ValuesInv
    <3>2. got = Unmarshalled(kind, wire)
      BY <2>3 DEF ValuesInv
    <3>3. CASE extra = <<>> /\ wire = w
      BY <2>1, <3>2, <3>3, ReadBack
    <3>4. CASE extra \in NewFields /\ wire \in {extra \o w, w \o extra}
      <4>1. IsNew(extra)
        BY <3>4, NewFieldsOK DEF IsNew
      <4>2. Unmarshalled(kind, extra \o w) = {Carrying(sent, extra)}
        BY <2>1, <4>1, ReadBack
      <4>3. Unmarshalled(kind, w \o extra) = {Carrying(sent, extra)}
        BY <2>1, <4>1, ReadBack
      <4>4. wire = extra \o w \/ wire = w \o extra
        BY <3>4
      <4> QED
        BY <3>2, <4>2, <4>3, <4>4
    <3> QED
      BY <3>1, <3>3, <3>4
  <2> QED
    BY <2>2, <2>3 DEF Carrying
<1> QED
  BY <1>1, ValuesInvariant, PTL

(* In every behaviour a message of which the end is missing is refused or  *)
(* read as the message that ends there; no field is made up of half an     *)
(* encoding.                                                               *)
THEOREM CutsNoticed == ValuesSpec => []CutIsNoticed
<1>1. ValuesInv => CutIsNoticed
  <2> SUFFICES ASSUME ValuesInv, stage = "readCut", NEW m \in got
               PROVE  wire \in Marshal(kind, m)
    BY DEF CutIsNoticed
  <2>1. Messages /\ Sendable(kind, sent) /\ got = Unmarshalled(kind, wire)
    BY DEF ValuesInv
  <2>2. PICK w \in Marshal(kind, sent) : \E n \in 0 .. Len(w) - 1 : wire = SubSeq(w, 1, n)
    BY DEF ValuesInv
  <2> QED
    BY <2>1, <2>2, CutReadsAsWritten
<1> QED
  BY <1>1, ValuesInvariant, PTL
=============================================================================
