--------------------------- MODULE KafkaConsumer ---------------------------
(***************************************************************************)
(* The consumer of a topic: kafka/consumer.go.                             *)
(*                                                                         *)
(* Consume subscribes to one partition after the other and starts a        *)
(* goroutine for each, waits for all of them and closes the partitions.  A *)
(* goroutine passes messages on until its partition reports an error or it *)
(* is the one to receive an interrupt: all of them read one channel, which *)
(* has room for one.  A partition that the library itself has shut down    *)
(* has closed channels, and what is read from them is nil.                 *)
(***************************************************************************)
EXTENDS Integers

CONSTANTS Partitions,  \* how many the topic has, in order of subscription
          MaxMsgs      \* bound on the messages a partition has

ASSUME ConstantsOK ==
  /\ Partitions \in Nat
  /\ MaxMsgs \in Nat

Index == 1 .. Partitions

VARIABLES
  pc,       \* where Consume is
  next,     \* the partition it subscribes to next
  gor,      \* the goroutine of each partition: "none", "run" or "done"
  part,     \* each PartitionConsumer: "none", "open", "shut" by the library,
            \* or "closed" by Consume
  seen,     \* the messages each goroutine has passed to icb.Message
  signals,  \* how many interrupts the channel holds
  failed,   \* whether Consume has passed an error of its own to icb.Error
  crashed   \* whether a panic has ended the process
vars == <<pc, next, gor, part, seen, signals, failed, crashed>>

Init ==
  /\ pc = "partitions"
  /\ next = 1
  /\ gor = [i \in Index |-> "none"]
  /\ part = [i \in Index |-> "none"]
  /\ seen = [i \in Index |-> 0]
  /\ signals = 0
  /\ failed = FALSE
  /\ crashed = FALSE

-----------------------------------------------------------------------------
(* Consume. *)

(* The partitions of the topic are not known.                               *)
PartitionsFail ==
  /\ pc = "partitions"
  /\ pc' = "returned"
  /\ failed' = TRUE
  /\ UNCHANGED <<next, gor, part, seen, signals, crashed>>

(* signal.Notify.                                                           *)
Notify ==
  /\ pc = "partitions"
  /\ pc' = "subscribe"
  /\ UNCHANGED <<next, gor, part, seen, signals, failed, crashed>>

Subscribe ==
  /\ pc = "subscribe"
  /\ next \in Index
  /\ part' = [part EXCEPT ![next] = "open"]
  /\ gor' = [gor EXCEPT ![next] = "run"]
  /\ next' = next + 1
  /\ UNCHANGED <<pc, seen, signals, failed, crashed>>

(* Consume returns; what it has started goes on.                            *)
SubscribeFails ==
  /\ pc = "subscribe"
  /\ next \in Index
  /\ pc' = "returned"
  /\ failed' = TRUE
  /\ UNCHANGED <<next, gor, part, seen, signals, crashed>>

(* Mutation of Wait: it waits for one of the goroutines.                    *)
WaitForOne ==
  /\ pc = "subscribe"
  /\ next \notin Index
  /\ \E i \in Index : gor[i] = "done"
  /\ pc' = "close"
  /\ UNCHANGED <<next, gor, part, seen, signals, failed, crashed>>

(* wg.Wait.                                                                 *)
Wait ==
  /\ pc = "subscribe"
  /\ next \notin Index
  /\ \A i \in Index : gor[i] = "done"
  /\ pc' = "close"
  /\ UNCHANGED <<next, gor, part, seen, signals, failed, crashed>>

Close ==
  /\ pc = "close"
  /\ pc' = "returned"
  /\ part' = [i \in Index |-> "closed"]
  /\ UNCHANGED <<next, gor, seen, signals, failed, crashed>>

-----------------------------------------------------------------------------
(* The goroutines. *)

Message(i) ==
  /\ gor[i] = "run"
  /\ seen[i] < MaxMsgs
  /\ seen' = [seen EXCEPT ![i] = @ + 1]
  /\ UNCHANGED <<pc, next, gor, part, signals, failed, crashed>>

(* The select takes the closed channel of messages: the message is nil, and *)
(* nothing recovers from the use of it.                                     *)
NilMessage(i) ==
  /\ gor[i] = "run"
  /\ part[i] = "shut"
  /\ crashed' = TRUE
  /\ UNCHANGED <<pc, next, gor, part, seen, signals, failed>>

(* An error of the partition is passed on and ends the goroutine, and so is *)
(* the nil of a closed channel of errors.                                   *)
Error(i) ==
  /\ gor[i] = "run"
  /\ gor' = [gor EXCEPT ![i] = "done"]
  /\ UNCHANGED <<pc, next, part, seen, signals, failed, crashed>>

(* Mutation of Interrupted: only the goroutine of the first partition       *)
(* listens to signals.                                                      *)
InterruptedFirst(i) ==
  /\ i = 1
  /\ gor[i] = "run"
  /\ signals > 0
  /\ signals' = signals - 1
  /\ gor' = [gor EXCEPT ![i] = "done"]
  /\ UNCHANGED <<pc, next, part, seen, failed, crashed>>

Interrupted(i) ==
  /\ gor[i] = "run"
  /\ signals > 0
  /\ signals' = signals - 1
  /\ gor' = [gor EXCEPT ![i] = "done"]
  /\ UNCHANGED <<pc, next, part, seen, failed, crashed>>

-----------------------------------------------------------------------------

(* The library gives up a partition, say because its offset is out of range.*)
ShutDown(i) ==
  /\ part[i] = "open"
  /\ part' = [part EXCEPT ![i] = "shut"]
  /\ UNCHANGED <<pc, next, gor, seen, signals, failed, crashed>>

(* An interrupt of the process; os/signal drops it if the channel is full.  *)
Interrupt ==
  /\ pc # "partitions"
  /\ signals = 0
  /\ signals' = 1
  /\ UNCHANGED <<pc, next, gor, part, seen, failed, crashed>>

ConsumeStep == Subscribe \/ Wait \/ Close

Next ==
  /\ ~ crashed
  /\ \/ PartitionsFail \/ Notify \/ SubscribeFails \/ ConsumeStep
     \/ \E i \in Index : \/ Message(i) \/ NilMessage(i) \/ Error(i)
                        \/ Interrupted(i) \/ ShutDown(i)
     \/ Interrupt

Spec == Init /\ [][Next]_vars

(* Consume is scheduled and its calls return, a goroutine that can go on    *)
(* takes each case of its select in the end, and the user who wants the     *)
(* process to end interrupts it again.                                      *)
FairSpec == /\ Spec
            /\ WF_vars(~ crashed /\ (Notify \/ PartitionsFail))
            /\ WF_vars(~ crashed /\ ConsumeStep)
            /\ \A i \in Index : SF_vars(~ crashed /\ Interrupted(i))
            /\ WF_vars(~ crashed /\ Interrupt)

-----------------------------------------------------------------------------
(* Properties. *)

(* Nothing is passed to the application after Consume has ended, and no     *)
(* partition is closed under a goroutine that reads it, unless Consume was  *)
(* given up halfway.                                                        *)
EndsTogether ==
  /\ \A i, j \in Index : part[i] = "closed" => gor[j] = "done"
  /\ pc = "returned" /\ ~ failed => \A i \in Index : gor[i] # "run"

(* Interrupted again and again, Consume ends, however many goroutines read  *)
(* the one channel and whichever of them an interrupt reaches; or a nil     *)
(* message has ended the process.                                           *)
InterruptsEnd == pc = "subscribe" ~> pc = "returned" \/ crashed
=============================================================================
