------------------------ MODULE KafkaConsumerProofs ------------------------
(***************************************************************************)
(* Proof about KafkaConsumer, for any number of partitions: partitions are *)
(* closed when nobody reads them any more.                                 *)
(***************************************************************************)
EXTENDS KafkaConsumer, TLAPS

(* Consume closes, and ends without an error of its own, after it has       *)
(* waited; no goroutine starts again after that.                            *)
Waited == \A i \in Index : gor[i] = "done"

IInv ==
  /\ gor \in [Index -> {"none", "run", "done"}]
  /\ part \in [Index -> {"none", "open", "shut", "closed"}]
  /\ pc \in {"partitions", "subscribe", "close", "returned"}
  /\ pc = "partitions" => \A i \in Index : gor[i] = "none"
  /\ pc # "returned" => ~ failed
  /\ pc \in {"close", "returned"} /\ ~ failed => Waited
  /\ (\E i \in Index : part[i] = "closed") => Waited /\ pc = "returned"

LEMMA IInvInit == Init => IInv
BY DEF Init, IInv

LEMMA IInvNext == IInv /\ [Next]_vars => IInv'
<1> SUFFICES ASSUME IInv, [Next]_vars PROVE IInv'
  OBVIOUS
<1> USE DEF IInv, Waited
<1>1. CASE PartitionsFail
  BY <1>1 DEF PartitionsFail
<1>2. CASE Notify
  BY <1>2 DEF Notify
<1>3. CASE SubscribeFails
  BY <1>3 DEF SubscribeFails
<1>4. CASE Subscribe
  BY <1>4 DEF Subscribe
<1>5. CASE Wait
  BY <1>5 DEF Wait
<1>6. CASE Close
  BY <1>6 DEF Close
<1>7. ASSUME NEW i \in Index, Error(i) \/ Interrupted(i) PROVE IInv'
  BY <1>7 DEF Error, Interrupted
<1>8. ASSUME NEW i \in Index, Message(i) \/ NilMessage(i) \/ ShutDown(i)
      PROVE  IInv'
  BY <1>8 DEF Message, NilMessage, ShutDown
<1>9. CASE Interrupt \/ UNCHANGED vars
  BY <1>9 DEF Interrupt, vars
<1> QED
  BY <1>1, <1>2, <1>3, <1>4, <1>5, <1>6, <1>7, <1>8, <1>9 DEF Next, ConsumeStep

(* No partition is closed under its reader, and a Consume that ends without *)
(* an error of its own leaves none behind, for any number of partitions.    *)
THEOREM EndTogether == Spec => []EndsTogether
<1>1. IInv => EndsTogether
  BY DEF IInv, Waited, EndsTogether
<1> QED
  BY <1>1, IInvInit, IInvNext, PTL DEF Spec
=============================================================================
