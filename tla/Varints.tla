------------------------------ MODULE Varints ------------------------------
(***************************************************************************)
(* Varints as proto/packet.pb.go writes and reads them: sovPacket,         *)
(* encodeVarintPacket, and the loop that begins each step of Unmarshal.    *)
(***************************************************************************)
EXTENDS Integers, Sequences

CONSTANT WordBits   \* the bits of a word: 64 in the code

ASSUME WordBitsAssumption == WordBits \in Nat \ {0}

(* Powers of two, as far as a shift goes.                                   *)
Pow2[b \in 0 .. WordBits + 7] == IF b = 0 THEN 1 ELSE 2 * Pow2[b - 1]

Bytes == 0 .. 255

Unsigned(x) == x % Pow2[WordBits]

(* The significant bits of x, at least one: Len64(x|1).                     *)
BitLen(x) ==
  CHOOSE b \in 1 .. WordBits : /\ x < Pow2[b] \/ b = WordBits
                               /\ Pow2[b - 1] <= x \/ b = 1

(* Mutation of sovPacket: rounded down.                                     *)
sovPacketDown(x) == (BitLen(x) + 5) \div 7

sovPacket(x) == (BitLen(x) + 6) \div 7

(* What is left of x after each turn of v >>= 7.                            *)
Shifted(x) ==
  LET v[i \in 0 .. WordBits] == IF i = 0 THEN x ELSE v[i - 1] \div 128
  IN  v

(* Seven bits in each byte, and the top bit while more follow.              *)
encodeVarintPacket(x) ==
  LET v == Shifted(x)
  IN  [i \in 1 .. sovPacket(x) |->
         IF v[i - 1] >= 128 THEN (v[i - 1] % 128) + 128 ELSE v[i - 1]]

(* d << s                                                                   *)
ShiftLeft(d, s) == IF s < WordBits THEN d * Pow2[s] ELSE 0

(* What the bytes from i on add up to.                                      *)
Gathered(buf, i) ==
  LET wire[j \in i - 1 .. Len(buf)] ==
        IF j = i - 1 THEN 0 ELSE wire[j - 1] + ShiftLeft(buf[j] % 128, 7 * (j - i))
  IN  wire

(* The varint at i: the loop ends at the first byte below 128, and fails    *)
(* at the end of the buffer or when the shift is as wide as a word.         *)
VarintAt(buf, i) ==
  LET Ends(j) == /\ 7 * (j - i) < WordBits
                 /\ buf[j] < 128
                 /\ \A h \in i .. j - 1 : buf[h] >= 128
  IN  {[value |-> Unsigned(Gathered(buf, i)[j]), next |-> j + 1] :
         j \in {j \in i .. Len(buf) : Ends(j)}}
=============================================================================
