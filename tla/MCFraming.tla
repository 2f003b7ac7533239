----------------------------- MODULE MCFraming -----------------------------
(* Framing with one writer that has a Response of its own, as a reply of a  *)
(* server, and two that share one, as the calls of a client.                *)
EXTENDS Framing

CONSTANTS w1, w2, w3, r1, r2

MixedResponse == [w \in Writers |-> IF w = w1 THEN r1 ELSE r2]
=============================================================================
