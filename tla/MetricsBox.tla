----------------------------- MODULE MetricsBox -----------------------------
(***************************************************************************)
(* What the metrics of a process promise: a metric that has been accepted  *)
(* is handed to the producer once, in the order of acceptance, in batches  *)
(* that do not exceed MaxPush, and is then published or lost with its      *)
(* batch.                                                                  *)
(***************************************************************************)
EXTENDS Integers, Sequences

CONSTANTS Items, MaxPush

VARIABLES pending,    \* accepted and not yet handed over, oldest first
          published,  \* the batches the topic has
          lost        \* the batches the producer failed on
vars == <<pending, published, lost>>

Init == pending = <<>> /\ published = <<>> /\ lost = <<>>

Accept(it) == /\ pending' = Append(pending, it)
              /\ UNCHANGED <<published, lost>>

HandOver(n) ==
  /\ n <= Len(pending)
  /\ pending' = SubSeq(pending, n + 1, Len(pending))
  /\ \/ published' = Append(published, SubSeq(pending, 1, n)) /\ UNCHANGED lost
     \/ lost' = Append(lost, SubSeq(pending, 1, n))           /\ UNCHANGED published

Next == \/ \E it \in Items : Accept(it)
        \/ \E n \in 1 .. MaxPush : HandOver(n)

Spec == Init /\ [][Next]_vars
=============================================================================
