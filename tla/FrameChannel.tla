---------------------------- MODULE FrameChannel ----------------------------
(***************************************************************************)
(* What one direction of a connection promises to those who use it: every  *)
(* frame that arrives is one that was offered, whole, in the order of the  *)
(* offers, with none left out and none twice.  The connection may end at   *)
(* any time; then what has not arrived never will.                         *)
(***************************************************************************)
EXTENDS Naturals, Sequences

CONSTANT Sizes   \* the sizes of the bodies that are offered

VARIABLES offered,   \* the sizes of the frames, in the order of the offers
          arrived,   \* the numbers of the frames, in the order of arrival
          over       \* whether the reader has ended

vars == <<offered, arrived, over>>

Init == offered = << >> /\ arrived = << >> /\ over = FALSE

Offer == /\ \E n \in Sizes : offered' = Append(offered, n)
         /\ UNCHANGED <<arrived, over>>

Arrive == /\ ~ over
          /\ Len(arrived) < Len(offered)
          /\ arrived' = Append(arrived, Len(arrived) + 1)
          /\ UNCHANGED <<offered, over>>

End == ~ over /\ over' = TRUE /\ UNCHANGED <<offered, arrived>>

Next == Offer \/ Arrive \/ End
Spec == Init /\ [][Next]_vars
=============================================================================
