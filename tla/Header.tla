------------------------------- MODULE Header -------------------------------
(***************************************************************************)
(* The header of a frame: transport/header.go.  Eight bytes: a signature   *)
(* of four, and the size of the body as a varint of four.  The signature   *)
(* is a permutation of the size.                                           *)
(***************************************************************************)
EXTENDS Integers, Sequences

CONSTANTS Sizes,    \* the sizes of the bodies that are sent
          Damages   \* what a byte of a header may turn into

Byte == 0 .. 255

(* The weights of the digits of a varint: it has seven bits in each byte.   *)
P1 == 128
P2 == 128 * P1
P3 == 128 * P2

(* The largest size that four bytes have room for; PutVarint panics beyond. *)
MaxSize == 64 * P3 - 1

ASSUME SizesAssumption == \A n \in Sizes : n \in Nat /\ n <= MaxSize

ASSUME DamagesAssumption == Damages \subseteq Byte

(* encoding/binary: a signed number is folded to an unsigned one, of which  *)
(* a varint has seven bits in each byte; the top bit says that more follow. *)
Fold(n)   == IF n >= 0 THEN 2 * n ELSE -2 * n - 1
Unfold(u) == IF u % 2 = 0 THEN u \div 2 ELSE -(u \div 2) - 1

More(q) == IF q > 0 THEN 128 ELSE 0

PutVarint(n) ==
  LET u == Fold(n)
  IN  << (u % 128)            + More(u \div P1),
        ((u \div P1) % 128)  + More(u \div P2),
        ((u \div P2) % 128)  + More(u \div P3),
         u \div P3 >>

(* What Varint makes of four bytes: a value, and whether it has found the   *)
(* end of one.                                                              *)
Varint(b) ==
  LET u1 == b[1] % 128
      u2 == u1 + P1 * (b[2] % 128)
      u3 == u2 + P2 * (b[3] % 128)
      u4 == u3 + P3 * b[4]
      Value(u) == [ok |-> TRUE, value |-> Unfold(u)]
  IN  IF b[1] < 128      THEN Value(u1)
      ELSE IF b[2] < 128 THEN Value(u2)
      ELSE IF b[3] < 128 THEN Value(u3)
      ELSE IF b[4] < 128 THEN Value(u4)
      ELSE [ok |-> FALSE, value |-> 0]

Sign(s) == << s[2], s[4], s[3], s[1] >>

(* Mutation of Unsign: it permutes as Sign does instead of back.            *)
UnsignAgain(s) == << s[2], s[4], s[3], s[1] >>

Unsign(s) == << s[4], s[1], s[3], s[2] >>

Encoder(n) == Sign(PutVarint(n)) \o PutVarint(n)

SignOf(h) == << h[1], h[2], h[3], h[4] >>
SizeOf(h) == << h[5], h[6], h[7], h[8] >>

Decoder(h) == Varint(SizeOf(h))

(* Mutation of Check: only the first byte of the size is compared.          *)
CheckFirst(h) == h[4] = h[5]

Check(h) == Varint(Unsign(SignOf(h))).value = Decoder(h).value
Accepted(h) == Decoder(h).ok /\ Check(h)

(* A header that Response.Write encodes, and that may lose one byte to      *)
(* another on its way to the reader.                                        *)
VARIABLES size, header, damaged
vars == <<size, header, damaged>>

Init == /\ size \in Sizes
        /\ header = Encoder(size)
        /\ damaged = FALSE

Damage == /\ ~ damaged
          /\ damaged' = TRUE
          /\ \E i \in 1 .. 8, b \in Damages : header' = [header EXCEPT ![i] = b]
          /\ UNCHANGED size

Spec == Init /\ [][Damage]_vars

(* A header gives back the size that was put in, and is accepted: the four  *)
(* bytes have room for it, and the permutation of the signature is undone.  *)
RoundTrip ==
  ~ damaged => /\ header \in [1 .. 8 -> Byte]
               /\ Accepted(header)
               /\ Decoder(header).value = size

(* With one byte damaged a header is refused, or still names its size: the  *)
(* reader never waits for a body of another length.                         *)
DamageFound == damaged /\ Accepted(header) => Decoder(header).value = size
=============================================================================
